------------------------------ MODULE Boundary ------------------------------
(***************************************************************************)
(* BoundaryMiddleware of src/vllm_verifier/middleware.py: authentication   *)
(* before the body, one counter of admitted inference requests, a bounded  *)
(* and timed body read, and the application behind it.                     *)
(*                                                                         *)
(* In this module the application is arbitrary; DecisionServer puts the    *)
(* decision scheduler behind it.  The counter is only touched between      *)
(* suspensions of the event loop, so each action is atomic.                *)
(***************************************************************************)
EXTENDS Integers, FiniteSets

CONSTANTS Calls,          \* HTTP requests
          Limited,        \* those to the two inference routes
          MaxRequests     \* settings.max_requests

ASSUME CallsAssumption == Limited \subseteq Calls /\ IsFiniteSet(Calls)
ASSUME LimitAssumption == MaxRequests \in Nat \ {0}

VARIABLES
  stage,     \* stage[c]: where the middleware's coroutine for c is
  status,    \* status[c]: the status that the metrics will count
  admitted,  \* the calls whose local variable admitted is true
  active     \* self.active

bvars == <<stage, status, admitted, active>>

Statuses == {200, 401, 408, 413, 500, 529}    \* 500 stands for any error of the application

BoundaryInit ==
  /\ stage = [c \in Calls |-> "new"]
  /\ status = [c \in Calls |-> 500]
  /\ admitted = {} /\ active = 0

Goto(c, s) == stage' = [stage EXCEPT ![c] = s]
Start(c, code) == status' = [status EXCEPT ![c] = code]

(* reject() has begun to send. *)
Reject(c, code) == Goto(c, "rejecting") /\ Start(c, code)

(* The finally clause: an admitted call gives its place back. *)
Forgotten(c) == UNCHANGED active    \* mutant: an early return keeps the place
Release(c)   == active' = IF c \in admitted THEN active - 1 ELSE active

-----------------------------------------------------------------------------
(* Missing or wrong token: nothing was read or counted. *)
Unauthorized(c) ==
  /\ stage[c] = "new"
  /\ Reject(c, 401)
  /\ UNCHANGED <<admitted, active>>

(* Any other route goes straight to the application. *)
PassThrough(c) ==
  /\ stage[c] = "new" /\ c \notin Limited
  /\ Goto(c, "app")
  /\ UNCHANGED <<status, admitted, active>>

Overloaded(c) ==
  /\ stage[c] = "new" /\ c \in Limited /\ active >= MaxRequests
  /\ Reject(c, 529)
  /\ UNCHANGED <<admitted, active>>

HasPlaceOrOneMore == active <= MaxRequests    \* mutant: off by one
HasPlace          == active < MaxRequests

Admit(c) ==
  /\ stage[c] = "new" /\ c \in Limited /\ HasPlace
  /\ Goto(c, "reading")
  /\ admitted' = admitted \cup {c}
  /\ active' = active + 1
  /\ UNCHANGED status

(* The body grew beyond max_body_bytes: the 413 is sent inside the block   *)
(* that the read deadline guards.                                          *)
TooLarge(c) ==
  /\ stage[c] = "reading"
  /\ Goto(c, "refusing body") /\ Start(c, 413)
  /\ UNCHANGED <<admitted, active>>

Untimed == {}    \* mutant: the body is read without a deadline
Timed   == {"reading", "refusing body"}

(* The read deadline, which a slow client can also meet while it is sent   *)
(* the 413: that response has begun when the 408 is sent after it.         *)
BodyTimeout(c) ==
  /\ stage[c] \in Timed
  /\ Reject(c, 408)
  /\ UNCHANGED <<admitted, active>>

BodyComplete(c) ==
  /\ stage[c] = "reading"
  /\ Goto(c, "app")
  /\ UNCHANGED <<status, admitted, active>>

(* The client went away before the body was complete: no response. *)
Disconnect(c) ==
  /\ stage[c] = "reading"
  /\ Goto(c, "done")
  /\ Release(c)
  /\ UNCHANGED <<status, admitted>>

(* A rejection was sent. *)
Rejected(c) ==
  /\ stage[c] \in {"rejecting", "refusing body"}
  /\ Goto(c, "done")
  /\ Release(c)
  /\ UNCHANGED <<status, admitted>>

(* The application returned, with a status, or raised. *)
AppEnds(c, code) ==
  /\ stage[c] = "app"
  /\ Goto(c, "done") /\ Start(c, code)
  /\ Release(c)
  /\ UNCHANGED admitted

(* The task is cancelled, or receive or send raised, at any suspension. *)
Torn(c) ==
  /\ stage[c] \in {"rejecting", "reading", "refusing body"}
  /\ Goto(c, "done")
  /\ Release(c)
  /\ UNCHANGED <<status, admitted>>

Gate(c) == Unauthorized(c) \/ PassThrough(c) \/ Overloaded(c) \/ Admit(c) \/ TooLarge(c)
           \/ BodyTimeout(c) \/ BodyComplete(c) \/ Disconnect(c) \/ Rejected(c) \/ Torn(c)

AllDone == (\A c \in Calls : stage[c] = "done") /\ UNCHANGED bvars

BoundaryNext ==
  \/ \E c \in Calls : Gate(c) \/ AppEnds(c, 200) \/ AppEnds(c, 500)
  \/ AllDone

BoundarySpec == BoundaryInit /\ [][BoundaryNext]_bvars

-----------------------------------------------------------------------------
(* Every variable has its type and the counter keeps its bound. *)
BoundaryTypeOK ==
  /\ stage \in [Calls -> {"new", "rejecting", "reading", "refusing body", "app", "done"}]
  /\ status \in [Calls -> Statuses]
  /\ admitted \subseteq Limited
  /\ active \in 0..MaxRequests

InProgress == {c \in admitted : stage[c] # "done"}

(* The counter is the number of admitted calls that still run: no early    *)
(* return, error response, disconnect or cancelled task leaks a place or   *)
(* gives one back twice, and a call that was never admitted gives none.    *)
PlacesBalanced == active = Cardinality(InProgress)

(* "In-progress decisions/body reads before 529" (docs/deployment.md:91):  *)
(* the middleware answers 529 only while max_requests calls really are in  *)
(* progress, whatever became of the calls before.                          *)
OverloadIsReal ==
  [][\A c \in Calls : status'[c] = 529 /\ status[c] # 529 =>
       Cardinality(InProgress) = MaxRequests]_bvars
=============================================================================
