-------------------------- MODULE BoundedDecisions --------------------------
(***************************************************************************)
(* What DirectDecisionService promises its callers, without its queue,     *)
(* scheduler, thread or shutdown steps: a first-come first-served backlog  *)
(* of bounded length, of which the oldest part is settled at a time, each  *)
(* request once, all of a part scored or all of it failed; a malformed     *)
(* request is told so; callers may leave; after the service stops, whoever *)
(* still waits is told that and nobody gets anything else.                 *)
(***************************************************************************)
EXTENDS Integers, Sequences, SequencesExt

CONSTANTS Requests, Malformed, Capacity, BatchSize

VARIABLES
  backlog,   \* accepted and not yet settled, oldest first
  verdict,   \* verdict[r]: "none", "pending", "cancelled" or how r ended
  mode       \* "starting", "open", "stopped"

vars == <<backlog, verdict, mode>>

Init ==
  /\ backlog = <<>>
  /\ verdict = [r \in Requests |-> "none"]
  /\ mode = "starting"

(* The model is loaded. *)
Open ==
  /\ mode = "starting" /\ mode' = "open"
  /\ UNCHANGED <<backlog, verdict>>

(* A call finds room. *)
Accept(r) ==
  /\ mode = "open" /\ verdict[r] = "none" /\ Len(backlog) < Capacity
  /\ backlog' = Append(backlog, r)
  /\ verdict' = [verdict EXCEPT ![r] = "pending"]
  /\ UNCHANGED mode

(* A caller's deadline passes; its place in the backlog stays taken. *)
Abandon(r) ==
  /\ verdict[r] = "pending"
  /\ verdict' = [verdict EXCEPT ![r] = "cancelled"]
  /\ UNCHANGED <<backlog, mode>>

(* Those of S that still wait get their verdict by v. *)
Settle(S, v) ==
  verdict' = [r \in Requests |-> IF r \in S /\ verdict[r] = "pending" THEN v[r] ELSE verdict[r]]

Everybody(v)  == [r \in Requests |-> v]
WellFormed(v) == [r \in Requests |-> IF r \in Malformed THEN "engine_input_error" ELSE v]

(* The oldest k go together.  Either the model scored them or it failed,   *)
(* for all that are well-formed: no caller gets an answer out of a batch   *)
(* that failed another, nor pays for another's malformed request; or there *)
(* are no results at all.                                                  *)
SettleOldest(k) ==
  /\ mode = "open" /\ k <= Len(backlog)
  /\ backlog' = SubSeq(backlog, k + 1, Len(backlog))
  /\ \E v \in {WellFormed("answer"), WellFormed("engine_error"), Everybody("engine_error")} :
       Settle(ToSet(SubSeq(backlog, 1, k)), v)
  /\ UNCHANGED mode

(* close() begins, or start() failed. *)
Stop ==
  /\ mode # "stopped" /\ mode' = "stopped"
  /\ UNCHANGED <<backlog, verdict>>

(* Everyone who still waits is told that the service is gone. *)
Dismiss ==
  /\ mode = "stopped" /\ backlog # <<>>
  /\ backlog' = <<>>
  /\ Settle(ToSet(backlog), Everybody("engine_unavailable"))
  /\ UNCHANGED mode

Progress == Dismiss \/ \E k \in 1..BatchSize : SettleOldest(k)

Next == Open \/ Stop \/ Progress \/ \E r \in Requests : Accept(r) \/ Abandon(r)

Spec == Init /\ [][Next]_vars
=============================================================================
