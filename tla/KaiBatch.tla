------------------------------ MODULE KaiBatch ------------------------------
(***************************************************************************)
(* KaiRuntime.evaluate_batch of src/vllm_verifier/decision/runtime.py: the *)
(* requests that the scheduler hands to the owner thread are admitted one  *)
(* by one, their questions grouped by type, sorted by length, cut into     *)
(* physical batches under two bounds, and scored; one failure spoils the   *)
(* answers of all.                                                         *)
(*                                                                         *)
(* A question is a row: its type and how many tokens its input takes.  The *)
(* model itself is external: a physical batch is scored or raises.         *)
(***************************************************************************)
EXTENDS Integers, Sequences, FiniteSets, SequencesExt

CONSTANTS BatchSize,      \* batch_size
          BatchTokens,    \* batch_tokens
          MaxInput,       \* the collator's max_length
          MaxRequests,    \* requests of one call
          MaxDecisions,   \* questions of all requests together
          Types,          \* the types of questions
          Calls           \* what may be asked: a sequence of requests, each a sequence of rows

ASSUME BatchAssumption == BatchSize \in Nat \ {0} /\ MaxInput \in Nat \ {0}
\* KaiRuntime.__init__ refuses fewer tokens than one input may take.
ASSUME TokensAssumption == BatchTokens \in Nat /\ BatchTokens >= MaxInput
ASSUME CallsAssumption == Calls \subseteq Seq(Seq([type : Types, size : Nat \ {0}]))

VARIABLES
  requests,  \* the call: requests[i][k] is the row of question k of request i
  pc,        \* "admit", "run", "returned", "raised"
  outcome,   \* outcome[i]: "none", "input_error", "response", "engine_error"
  left,      \* the entries that were not run yet, in the order of running
  physical,  \* the last physical batch
  scored,    \* the entries that were scored
  usage      \* usage[i]: input tokens charged to request i

vars == <<requests, pc, outcome, left, physical, scored, usage>>

Init ==
  /\ requests \in Calls
  /\ pc = "admit"
  /\ outcome = [i \in DOMAIN requests |-> "none"]
  /\ left = <<>> /\ physical = <<>> /\ scored = {}
  /\ usage = [i \in DOMAIN requests |-> 0]

Decisions == Cardinality(UNION {{i} \X (DOMAIN requests[i]) : i \in DOMAIN requests})
Oversized == Len(requests) \notin 1..MaxRequests \/ Decisions > MaxDecisions

(* More than the engine takes in one call. *)
Refuse ==
  /\ pc = "admit" /\ Oversized
  /\ pc' = "raised"
  /\ UNCHANGED <<requests, outcome, left, physical, scored, usage>>

Admissible(rows) == \A k \in DOMAIN rows : rows[k].size <= MaxInput

(* The questions of the admitted requests. *)
Entry(i, k) == [i |-> i, k |-> k, type |-> requests[i][k].type, size |-> requests[i][k].size]
Entries ==
  UNION {{Entry(i, k) : k \in DOMAIN requests[i]} :
         i \in {j \in DOMAIN requests : Admissible(requests[j])}}

AskedBefore(a, b) == a.i < b.i \/ (a.i = b.i /\ a.k < b.k)

(* Types run in the order in which they are first asked for. *)
TypeBefore(s, t) ==
  \E a \in Entries : a.type = s /\ \A b \in Entries : b.type = t => AskedBefore(a, b)

(* The rows of a type are sorted by length, and the sort is stable. *)
Unsorted(a, b) == AskedBefore(a, b)    \* mutant: lengths in the order of the questions
Shorter(a, b)  == a.size < b.size \/ (a.size = b.size /\ AskedBefore(a, b))

RunsBefore(a, b) == IF a.type = b.type THEN Shorter(a, b) ELSE TypeBefore(a.type, b.type)

(* A request with a row that is malformed or too long is refused as a      *)
(* whole, before any question of any request is run.                       *)
Admit ==
  /\ pc = "admit" /\ ~Oversized
  /\ pc' = "run"
  /\ outcome' = [i \in DOMAIN requests |->
                  IF Admissible(requests[i]) THEN "response" ELSE "input_error"]
  /\ \E order \in [1..Cardinality(Entries) -> Entries] :
       /\ \A m, n \in DOMAIN order : m < n => RunsBefore(order[m], order[n])
       /\ left' = order
  /\ UNCHANGED <<requests, physical, scored, usage>>

(* n rows from the head go together: of one type, and padded to the length *)
(* of the last one within the bounds.  One row always goes.                *)
Fit(n) ==
  n <= BatchSize /\ \A j \in 2..n : left[j].type = left[1].type /\ j * left[j].size <= BatchTokens

Overlapping(n) == SubSeq(left, IF n > 1 THEN n ELSE n + 1, Len(left))    \* mutant: off by one
Rest(n)        == SubSeq(left, n + 1, Len(left))

(* The input tokens of some entries: each is a place in one of them. *)
TokensOf(entries) == {t \in entries \X (1..MaxInput) : t[2] <= t[1].size}

(* One physical batch is scored, as long as its rows fit. *)
Run ==
  /\ pc = "run" /\ left # <<>>
  /\ \E n \in 1..Len(left) :
       /\ Fit(n) /\ (n < Len(left) => ~Fit(n + 1))
       /\ physical' = SubSeq(left, 1, n)
       /\ left' = Rest(n)
  /\ scored' = scored \cup ToSet(physical')
  /\ usage' = [i \in DOMAIN requests |->
                 usage[i] + Cardinality(TokensOf({e \in ToSet(physical') : e.i = i}))]
  /\ UNCHANGED <<requests, pc, outcome>>

Complete(i) == \A k \in DOMAIN requests[i] : \E e \in scored : e.i = i /\ e.k = k
Unfinished(i) == outcome[i] = "response" /\ ~Complete(i)    \* mutant: finished ones escape
Spoiled(i)    == outcome[i] = "response"

(* It raises or gives nonfinite numbers: nobody gets an answer. *)
RunFails ==
  /\ pc = "run" /\ left # <<>>
  /\ outcome' = [i \in DOMAIN requests |-> IF Spoiled(i) THEN "engine_error" ELSE outcome[i]]
  /\ pc' = "returned"
  /\ UNCHANGED <<requests, left, physical, scored, usage>>

(* It raises something else: the exception leaves evaluate_batch. *)
RunRaises ==
  /\ pc = "run" /\ left # <<>>
  /\ pc' = "raised"
  /\ UNCHANGED <<requests, outcome, left, physical, scored, usage>>

Return ==
  /\ pc = "run" /\ left = <<>>
  /\ pc' = "returned"
  /\ UNCHANGED <<requests, outcome, left, physical, scored, usage>>

Ended == pc \in {"returned", "raised"} /\ UNCHANGED vars

Next == Refuse \/ Admit \/ Run \/ RunFails \/ RunRaises \/ Return \/ Ended
Spec == Init /\ [][Next]_vars

-----------------------------------------------------------------------------
(* "Physical batches bounded by both row count and padded input tokens"    *)
(* (docs/decision-models.md:42): rows of one type, each as wide as the     *)
(* longest of them, stay within both bounds, singletons included.          *)
WithinBounds ==
  physical # <<>> =>
    /\ Len(physical) <= BatchSize
    /\ \A e \in ToSet(physical) :
         e.type = physical[1].type /\ Len(physical) * e.size <= BatchTokens

(* "A malformed request does not invalidate neighboring requests.  A model *)
(* execution failure returns no partial answers" (docs/decision-models.md: *)
(* 45): what returns is refused for its own sake, or shares one fate with  *)
(* every other request, and a response has every question scored.          *)
OneFate ==
  pc = "returned" =>
    /\ \A i \in DOMAIN requests :
         outcome[i] = "input_error" <=> \E k \in DOMAIN requests[i] : requests[i][k].size > MaxInput
    /\ Cardinality({outcome[i] : i \in DOMAIN requests} \ {"input_error"}) <= 1
    /\ \A i \in DOMAIN requests : outcome[i] = "response" => Complete(i)

(* A response is charged every token of its rows once, however they were  *)
(* distributed over physical batches.                                      *)
UsageExact ==
  pc = "returned" => \A i \in DOMAIN requests : outcome[i] = "response" =>
    usage[i] = Cardinality({t \in (DOMAIN requests[i]) \X (1..MaxInput) :
                              t[2] <= requests[i][t[1]].size})
=============================================================================
