--------------------------- MODULE DecisionServer ---------------------------
(***************************************************************************)
(* The decision runtime as it is deployed: BoundaryMiddleware in front of  *)
(* DirectDecisionService on one event loop (app.py).  Both are bounded by  *)
(* the same settings.max_requests, but they do not count the same thing:   *)
(* the middleware counts callers, the queue counts jobs, and a job stays   *)
(* on the queue after the deadline has sent its caller away.               *)
(***************************************************************************)
EXTENDS DecisionScheduler

(* The middleware counts calls: at any time finitely many have been made. *)
ASSUME FinitelyManyAssumption == IsFiniteSet(Requests)

VARIABLES stage, status, admitted, active

Gateway == INSTANCE Boundary WITH Calls <- Requests, Limited <- Requests

gateVars   == <<stage, status, admitted, active>>
serverVars == <<vars, gateVars>>

ServerInit == Init /\ Gateway!BoundaryInit

(* A step of the middleware on its own. *)
GateStep(r) == LoopFree /\ Gateway!Gate(r) /\ UNCHANGED vars

(* The route handler calls evaluate(). *)
Call(r) == stage[r] = "app" /\ Evaluate(r) /\ UNCHANGED gateVars

(* The body is not a valid request: 422 without evaluate(). *)
InvalidBody(r) ==
  /\ LoopFree /\ client[r] = "idle"
  /\ Gateway!AppEnds(r, 500)
  /\ UNCHANGED vars

(* evaluate() is over for the handler; 500 stands for every ServiceError. *)
Respond(r) ==
  /\ LoopFree /\ client[r] \notin {"idle", "waiting"}
  /\ Gateway!AppEnds(r, IF client[r] = "answer" THEN 200 ELSE 500)
  /\ UNCHANGED vars

Inner(A) == A /\ UNCHANGED gateVars

(* Everyone has been served and the service is closed. *)
ServerTerminated ==
  phase = "closed" /\ (\A r \in Requests : stage[r] = "done") /\ UNCHANGED serverVars

ServerNext ==
  \/ \E r \in Requests : GateStep(r) \/ Call(r) \/ InvalidBody(r) \/ Respond(r)
  \/ \E r \in Requests : Inner(Resume(r)) \/ Inner(Deadline(r))
  \/ Inner(WorkerStep) \/ Inner(ThreadStep) \/ Inner(LifeStep)
  \/ ServerTerminated

ServerSpec == ServerInit /\ [][ServerNext]_serverVars

(* The loop runs and its timers fire, clients take the responses they are  *)
(* sent.  Nothing is assumed of the owner thread: a batch may run forever. *)
TimerFairness ==
  /\ WF_serverVars(Inner(WorkerStep))
  /\ \A r \in Requests :
       /\ WF_serverVars(/\ LoopFree /\ UNCHANGED vars
                        /\ Gateway!BodyTimeout(r) \/ Gateway!Rejected(r))
       /\ WF_serverVars(Call(r) \/ InvalidBody(r))
       /\ WF_serverVars(Inner(Resume(r) \/ Deadline(r)))
       /\ WF_serverVars(Respond(r))

TimedSpec == ServerSpec /\ TimerFairness

-----------------------------------------------------------------------------
(* Every open future belongs to a call that holds a place: the number of   *)
(* callers the model still owes an answer never exceeds max_requests, even *)
(* though the queue and a running batch together may hold more jobs.       *)
OpenJobsHoldPlaces ==
  /\ \A r \in Requests : Pending(r) => r \in admitted /\ stage[r] = "app"
  /\ Cardinality({r \in Requests : Pending(r)}) <= MaxRequests

(* After the middleware let a call through, the queue refuses it only if   *)
(* it is clogged with jobs whose callers have left: the 529 of             *)
(* service.py:79 never means that max_requests callers are waiting.        *)
QueueRefusesOnlyBehindStale ==
  [][\A r \in Requests : client[r] = "idle" /\ client'[r] = "overloaded" =>
       \E q \in ToSet(queue) : fut[q] = "cancelled"]_serverVars

(* Even if a batch never ends, every admitted call gives its place back    *)
(* through one of the two deadlines.                                       *)
PlacesReturned ==
  \A r \in Requests : r \in admitted ~> stage[r] = "done"
=============================================================================
