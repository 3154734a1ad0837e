--------------------------- MODULE DecisionEngine ---------------------------
(***************************************************************************)
(* DecisionEngine.evaluate of src/vllm_verifier/engine/core.py: one call   *)
(* on a list of requests, executed synchronously by the owner of a native  *)
(* runtime.  Questions are compiled to work items, interleaved over the    *)
(* requests, cut into batches under two budgets, generated, verified, and  *)
(* repaired behind everything that still waits.                            *)
(*                                                                         *)
(* A prompt is its number of reserved tokens.  The runtime is external: it *)
(* gives any question a usable or an unusable completion, may fail, and    *)
(* tokenises the correction that a repair appends to any length.           *)
(***************************************************************************)
EXTENDS Integers, Sequences, FiniteSets

CONSTANTS MaxRequests,        \* config.max_requests
          MaxBatchQuestions,  \* config.max_batch_questions
          MaxBatchTokens,     \* config.max_batch_tokens
          MaxModelLen,        \* config.max_model_len
          Retries,            \* config.validation_retries
          Sizes,              \* reserved_tokens a prompt may come to
          Workloads           \* what may be asked: question counts by request

ASSUME ConfigAssumption ==
  /\ MaxRequests \in Nat \ {0} /\ MaxBatchQuestions \in Nat \ {0}
  /\ MaxBatchTokens \in Nat \ {0} /\ MaxModelLen \in Nat \ {0} /\ Retries \in Nat
ASSUME WorkAssumption == Sizes \subseteq Nat \ {0} /\ Workloads \subseteq Seq(Nat \ {0})

VARIABLES
  counts,     \* the call: counts[i] questions in request i
  pc,         \* "admit", "interleave", "fill", "judge", "returned", "raised"
  error,      \* why evaluate() raised
  queues,     \* queues[i]: the work items of request i that wait for their turn
  turn,       \* the request whose queue is next
  pending,    \* the deque of work items
  batch,      \* the work items being collected, then judged
  reserved,   \* tokens reserved by the batch being collected
  judged,     \* how many completions of the batch were dealt with
  answers,    \* the questions with a verified answer
  usage,      \* usage[i]: completions charged to request i
  submitted,  \* stats.submitted_questions
  repairs,    \* stats.repair_questions
  tried       \* the questions, with their attempts, whose completions were looked at

vars == <<counts, pc, error, queues, turn, pending, batch, reserved, judged, answers, usage,
          submitted, repairs, tried>>
lineVars == <<counts, queues, turn>>
batchVars == <<batch, reserved, judged>>
tallyVars == <<answers, usage, submitted, repairs, tried>>

Errors == {"none", "admission", "oversized", "runtime", "exhausted"}

(* Question k of request i is <<i, k>>. *)
Questions == UNION {{i} \X (1..counts[i]) : i \in DOMAIN counts}

Item(q, size, attempt) == [q |-> q, size |-> size, attempt |-> attempt]
Fits(size) == size <= MaxModelLen /\ size <= MaxBatchTokens

-----------------------------------------------------------------------------
Init ==
  /\ counts \in Workloads
  /\ pc = "admit" /\ error = "none"
  /\ queues = [i \in DOMAIN counts |-> <<>>] /\ turn = 1
  /\ pending = <<>> /\ batch = <<>> /\ reserved = 0 /\ judged = 0
  /\ answers = {} /\ usage = [i \in DOMAIN counts |-> 0]
  /\ submitted = 0 /\ repairs = 0 /\ tried = {}

Raise(why) == pc' = "raised" /\ error' = why

(* No request, too many of them, or one that names another model. *)
Refuse ==
  /\ pc = "admit"
  /\ Raise("admission")
  /\ UNCHANGED <<lineVars, pending, batchVars, tallyVars>>

(* Every prompt is tokenised before any is generated; one that does not    *)
(* fit the model or a batch of its own fails the whole call.               *)
Compile ==
  /\ pc = "admit" /\ Len(counts) \in 1..MaxRequests
  /\ \E size \in [Questions -> Sizes] :
       IF \E q \in Questions : ~Fits(size[q])
         THEN Raise("oversized") /\ UNCHANGED queues
         ELSE /\ pc' = "interleave" /\ UNCHANGED error
              /\ queues' = [i \in DOMAIN counts |->
                             [k \in 1..counts[i] |-> Item(<<i, k>>, size[<<i, k>>], 0)]]
  /\ UNCHANGED <<counts, turn, pending, batchVars, tallyVars>>

(* The round-robin loop: one item of each queue that has any, over and     *)
(* over in the order of the requests.                                      *)
TakeTurn ==
  /\ pc = "interleave" /\ \E i \in DOMAIN queues : queues[i] # <<>>
  /\ IF queues[turn] = <<>> THEN UNCHANGED <<queues, pending>>
     ELSE /\ pending' = Append(pending, Head(queues[turn]))
          /\ queues' = [queues EXCEPT ![turn] = Tail(@)]
  /\ turn' = IF turn = Len(counts) THEN 1 ELSE turn + 1
  /\ UNCHANGED <<counts, pc, error, batchVars, tallyVars>>

Interleaved ==
  /\ pc = "interleave" /\ \A i \in DOMAIN queues : queues[i] = <<>>
  /\ pc' = "fill"
  /\ UNCHANGED <<error, lineVars, pending, batchVars, tallyVars>>

(* The head of the deque still fits both budgets. *)
FitsStrictly ==    \* mutant: a prompt as large as the budget never fits
  reserved + Head(pending).size < MaxBatchTokens
FitsSoFar ==    \* mutant: the budget is looked at before the prompt is added
  reserved <= MaxBatchTokens
FitsBudget == reserved + Head(pending).size <= MaxBatchTokens
CanAdd == pending # <<>> /\ Len(batch) < MaxBatchQuestions /\ FitsBudget

Fill ==
  /\ pc = "fill" /\ CanAdd
  /\ batch' = Append(batch, Head(pending))
  /\ pending' = Tail(pending)
  /\ reserved' = reserved + Head(pending).size
  /\ UNCHANGED <<pc, error, lineVars, judged, tallyVars>>

(* runtime.generate returns one completion per work item ... *)
Generate ==
  /\ pc = "fill" /\ ~CanAdd /\ (batch # <<>> \/ pending # <<>>)
  /\ pc' = "judge"
  /\ submitted' = submitted + Len(batch)
  /\ UNCHANGED <<error, lineVars, pending, batchVars, answers, usage, repairs, tried>>

(* ... or raises, or returns a different number of them. *)
GenerateFails ==
  /\ pc = "fill" /\ ~CanAdd /\ (batch # <<>> \/ pending # <<>>)
  /\ Raise("runtime")
  /\ UNCHANGED <<lineVars, pending, batchVars, tallyVars>>

-----------------------------------------------------------------------------
(* Verification, completion by completion in the order of the batch. *)

Judging == pc = "judge" /\ judged < Len(batch)
Job     == batch[judged + 1]

ChargeOnce == [usage EXCEPT ![Job.q[1]] = 1]    \* mutant: assigns instead of adding
Charge     == [usage EXCEPT ![Job.q[1]] = @ + 1]
Charged    == usage' = Charge /\ tried' = tried \cup {<<Job.q, Job.attempt>>}

Accept ==
  /\ Judging
  /\ answers' = answers \cup {Job.q}
  /\ Charged
  /\ judged' = judged + 1
  /\ UNCHANGED <<pc, error, lineVars, pending, batch, reserved, submitted, repairs>>

MayRetry == Job.attempt < Retries

RequeueFirst(item) == <<item>> \o pending    \* mutant: repairs overtake
RequeueNever(item) == pending    \* mutant: the repair is lost
Requeue(item)      == Append(pending, item)

(* An unusable completion with attempts left: the repair prompt, longer by *)
(* the correction, is measured like any other and goes to the back.        *)
Repair ==
  /\ Judging /\ MayRetry
  /\ \E size \in Sizes : Fits(size) /\ pending' = Requeue(Item(Job.q, size, Job.attempt + 1))
  /\ Charged
  /\ judged' = judged + 1
  /\ repairs' = repairs + 1
  /\ UNCHANGED <<pc, error, lineVars, batch, reserved, answers, submitted>>

(* A repair prompt that no longer fits ends the call. *)
RepairOversized ==
  /\ Judging /\ MayRetry
  /\ \E size \in Sizes : ~Fits(size)
  /\ Raise("oversized")
  /\ Charged
  /\ UNCHANGED <<lineVars, pending, batchVars, answers, submitted, repairs>>

(* No attempt left: nothing of the call is returned. *)
Exhaust ==
  /\ Judging /\ ~MayRetry
  /\ Raise("exhausted")
  /\ Charged
  /\ UNCHANGED <<lineVars, pending, batchVars, answers, submitted, repairs>>

NextBatch ==
  /\ pc = "judge" /\ judged = Len(batch)
  /\ pc' = "fill" /\ batch' = <<>> /\ reserved' = 0 /\ judged' = 0
  /\ UNCHANGED <<error, lineVars, pending, tallyVars>>

Return ==
  /\ pc = "fill" /\ pending = <<>> /\ batch = <<>>
  /\ pc' = "returned"
  /\ UNCHANGED <<error, lineVars, pending, batchVars, tallyVars>>

Ended == pc \in {"returned", "raised"} /\ UNCHANGED vars

Judge == Accept \/ Repair \/ RepairOversized \/ Exhaust
Next == Refuse \/ Compile \/ TakeTurn \/ Interleaved \/ Fill \/ Generate \/ GenerateFails
        \/ Judge \/ NextBatch \/ Return \/ Ended

Spec == Init /\ [][Next]_vars

(* Sequential code whose every call of the runtime comes back. *)
FairSpec == Spec /\ WF_vars(Next)

-----------------------------------------------------------------------------
(* What still needs an answer, in the order it will get it. *)
Waiting == SubSeq(batch, judged + 1, Len(batch)) \o pending

Earlier(p, q) == p[2] < q[2] \/ (p[2] = q[2] /\ p[1] < q[1])
Before(a, b)  == a.attempt < b.attempt \/ (a.attempt = b.attempt /\ Earlier(a.q, b.q))

(* "No request owns the whole initial queue" (core.py:140), at any time:   *)
(* first attempts precede repairs, a request's k-th question precedes      *)
(* every request's later ones, and ties go to the earlier request.  No     *)
(* choice of batches or repairs upsets that order.                         *)
InTurn == \A m, n \in DOMAIN Waiting : m < n => Before(Waiting[m], Waiting[n])

(* While the call runs, each question is answered or waits, never both and *)
(* never twice: nothing gets lost between deque, batch and repairs.        *)
NothingForgotten ==
  pc \in {"fill", "judge"} =>
    /\ {Waiting[n].q : n \in DOMAIN Waiting} = Questions \ answers
    /\ \A m, n \in DOMAIN Waiting : Waiting[m].q = Waiting[n].q => m = n

(* The items of a batch come to n tokens: there are running totals from    *)
(* nothing to n.                                                           *)
AddUpTo(items, n) ==
  \E total \in [0..Len(items) -> 0..n] :
    /\ total[0] = 0 /\ total[Len(items)] = n
    /\ \A k \in DOMAIN items : total[k] = total[k-1] + items[k].size

(* What is handed to the runtime is never empty (the loop could not end)   *)
(* and within both budgets (core.py:149-158).                              *)
BatchWithinBudgets ==
  /\ AddUpTo(batch, reserved) /\ reserved <= MaxBatchTokens
  /\ Len(batch) <= MaxBatchQuestions
  /\ pc = "judge" => batch # <<>>

Tries(i) == {t \in tried : t[1][1] = i}

(* A call that returns has an answer for every question (the dictionary    *)
(* built at core.py:193 raises otherwise), has tried each at most Retries  *)
(* times again, and charges each try to its request once, repairs included.*)
ReturnsEverything ==
  pc = "returned" =>
    /\ answers = Questions
    /\ tried \subseteq Questions \X (0..Retries) /\ Questions \X {0} \subseteq tried
    /\ Cardinality(tried) = submitted /\ submitted = Cardinality(Questions) + repairs
    /\ \A i \in DOMAIN counts : usage[i] = Cardinality(Tries(i))

(* docs/native-engine.md:65, "Oversized jobs are rejected before           *)
(* generation": no prompt is generated by a call that raises for a prompt  *)
(* that is too long.                                                       *)
OversizedBeforeGeneration == error = "oversized" => submitted = 0

(* evaluate() comes to an end: batches always take something from the      *)
(* deque and repairs are bounded.                                          *)
Terminates == <>(pc \in {"returned", "raised"})
=============================================================================
