-------------------------- MODULE GenerationServer --------------------------
(***************************************************************************)
(* DecisionService in front of its two engines, from the lifespan's start  *)
(* to its end.  "mlx" is engine/mlx_backend.py: one thread owns the model, *)
(* generations queue for it in an executor, and one that runs cannot be    *)
(* stopped, whoever gives it up.  "http" is backend.py: a client whose     *)
(* pool of connections is shared by completions and readiness probes.      *)
(*                                                                         *)
(* A step of the service that begins or ends a call of the backend takes   *)
(* the backend along (Follow); the thread, the probes and close() move on  *)
(* their own.  The texts that are sent and read are left out.              *)
(***************************************************************************)
EXTENDS GenerationService

CONSTANT MaxProbes    \* bound of the model: probes at a time

ASSUME ProbesAssumption == MaxProbes \in Nat

VARIABLES
  engine,   \* settings.runtime
  phase,    \* of the lifespan; "stopping" and "stopped" are closed = True
  jobs,     \* mlx: the executor's queue; http: users of the pool as they came
  running,  \* mlx: what the owner thread does
  result    \* mlx: result[a]: what a's executor future holds

backendVars == <<engine, phase, jobs, running, result>>
allVars     == <<vars, backendVars>>

Nobody == <<>>
Load   == <<"load">>
Probe  == <<"probe">>

ServerInit ==
  /\ Init
  /\ \/ engine = "mlx" /\ phase = "loading" /\ running = Load
     \/ engine = "http" /\ phase = "serving" /\ running = Nobody
  /\ jobs = <<>> /\ result = [a \in Actors |-> "none"]

-----------------------------------------------------------------------------
(* Calls of the backend. *)

NewCall(a) == attempt'[a] # attempt[a]
Begun(a) == act'[a] = "calling" /\ (act[a] # "calling" \/ NewCall(a))
NotWithdrawn(a) ==    \* mutant: a cancelled call leaves its work queued
  a \notin asked /\ act[a] = "calling" /\ (act'[a] # "calling" \/ NewCall(a))
Over(a)  == act[a] = "calling" /\ (act'[a] # "calling" \/ NewCall(a))

(* complete() refuses at once while the engine is not ready, and MLX any   *)
(* message with images.                                                    *)
Accepts(a) == phase = "serving" /\ (engine = "mlx" => IsQuestion(a))

(* An accepted call of a queues its work.  A call that is over, cancelled *)
(* or not, leaves the queue or the pool; what the thread has begun goes on,*)
(* and its result is for nobody.                                           *)
Follow(a) ==
  LET rest == IF Over(a) THEN RemoveFirst(jobs, a) ELSE jobs
  IN /\ jobs' = IF Begun(a) /\ Accepts(a) THEN Append(rest, a) ELSE rest
     /\ result' = [result EXCEPT ![a] = IF Over(a) THEN "none" ELSE @]
     /\ UNCHANGED <<engine, phase, running>>

NoReserve      == MaxConcurrency    \* mutant: the pool has the semaphore's size
MaxConnections == MaxConcurrency + 2

(* Connections go to the users of the pool in the order they came. *)
Connected(a) == engine = "http" /\ \E i \in DOMAIN jobs : i <= MaxConnections /\ jobs[i] = a

Refused(a) == a \notin ToSet(jobs) /\ running # a /\ result[a] = "none"

(* What a call can end with.  The HTTP client maps every failure, of the   *)
(* connection, the status or the body, to a ServiceError, and so it does   *)
(* when it waits too long for a connection.                                *)
Answers(a) ==
  \/ (Connected(a) \/ result[a] = "completion") /\ Complete(a)
  \/ (engine = "http" \/ result[a] = "error" \/ Refused(a)) /\ BackendFails(a)
  \/ result[a] = "cancelled" /\ Dropped(a)

-----------------------------------------------------------------------------
(* The owner thread. *)

Generate ==
  /\ engine = "mlx" /\ running = Nobody /\ jobs # <<>>
  /\ running' = Head(jobs) /\ jobs' = Tail(jobs)
  /\ UNCHANGED <<vars, engine, phase, result>>

(* The result is dropped if the call is over. *)
Generated ==
  /\ running \in Actors
  /\ running' = Nobody
  /\ IF act[running] = "calling"
       THEN \E o \in {"completion", "error"} : result' = [result EXCEPT ![running] = o]
       ELSE UNCHANGED result
  /\ UNCHANGED <<vars, engine, phase, jobs>>

(* The model is loaded, or is not and the backend closes itself.  A load   *)
(* that ends after start() was given up is closed, not served.             *)
LoadEnds ==
  /\ running = Load
  /\ running' = Nobody
  /\ phase' \in IF phase = "loading" THEN {"serving", "stopping"} ELSE {phase}
  /\ UNCHANGED <<vars, engine, jobs, result>>

Thread == Generate \/ Generated \/ LoadEnds

-----------------------------------------------------------------------------
(* The lifespan. *)

(* close() of the service at its end, or of start() when that is cancelled.*)
Close ==
  /\ phase \in {"loading", "serving"}
  /\ phase' = IF engine = "mlx" THEN "stopping" ELSE "stopped"
  /\ UNCHANGED <<vars, engine, jobs, running, result>>

(* executor.shutdown(cancel_futures=True) takes the queue apart from a     *)
(* thread of its own, while the owner thread may still take from it, ...   *)
CancelQueued ==
  /\ phase = "stopping" /\ jobs # <<>>
  /\ jobs' = Tail(jobs)
  /\ result' = [result EXCEPT ![Head(jobs)] = "cancelled"]
  /\ UNCHANGED <<vars, engine, phase, running>>

(* ... and waits for what runs. *)
Closed ==
  /\ phase = "stopping" /\ jobs = <<>> /\ running = Nobody
  /\ phase' = "stopped"
  /\ UNCHANGED <<vars, engine, jobs, running, result>>

Shutdown == CancelQueued \/ Closed

(* GET /readyz asks the HTTP engine for its models, for 3 seconds at most. *)
Ready ==
  /\ engine = "http" /\ phase = "serving"
  /\ Cardinality({i \in DOMAIN jobs : jobs[i] = Probe}) < MaxProbes
  /\ jobs' = Append(jobs, Probe)
  /\ UNCHANGED <<vars, engine, phase, running, result>>

ProbeEnds ==
  /\ \E i \in DOMAIN jobs : jobs[i] = Probe /\ jobs' = RemoveAt(jobs, i)
  /\ UNCHANGED <<vars, engine, phase, running, result>>

(* Requests come while the application is up. *)
Request(r) == phase \in {"serving", "stopping"} /\ Call(r) /\ UNCHANGED backendVars

Rest ==
  /\ phase = "stopped" /\ jobs = <<>> /\ running = Nobody
  /\ \A r \in Requests : handler[r] \in {"idle", "done"}
  /\ UNCHANGED allVars

Loop ==
  \/ \E r \in Requests : Serve(r) /\ Follow(Observer(r))
  \/ \E a \in Actors : (Turn(a) \/ ((engine = "mlx" \/ Refused(a)) /\ Answers(a))) /\ Follow(a)
Upstream == engine = "http" /\ \E a \in Actors : Answers(a) /\ Follow(a)
Deadline == \E r \in Requests : Expire(r) /\ UNCHANGED backendVars

ServerNext ==
  \/ \E r \in Requests : Request(r)
  \/ Loop \/ Upstream \/ Deadline \/ Thread
  \/ Close \/ Shutdown \/ Ready \/ ProbeEnds \/ Rest

ServerSpec == ServerInit /\ [][ServerNext]_allVars

(* The event loop runs what is ready, in any order, and a thread of its    *)
(* own the shutdown.                                                       *)
LoopSpec == ServerSpec /\ WF_allVars(Loop) /\ WF_allVars(Shutdown)

DeadlinesFire == WF_allVars(Deadline)
EngineAnswers == WF_allVars(Thread) /\ WF_allVars(Upstream)

-----------------------------------------------------------------------------
(* The semaphore lets a new call in while a cancelled one still runs on    *)
(* the thread, and only there: whatever is queued has a caller, so at most *)
(* max_concurrency generations and one that was given up are left to do    *)
(* ("that generation may finish before the next one starts",               *)
(* docs/macos.md:54), and no caller waits for work that is not there.      *)
WorkHasCallers ==
  engine = "mlx" =>
    /\ \A j \in ToSet(jobs) : act[j] = "calling" /\ result[j] = "none" /\ running # j
    /\ Len(jobs) + Cardinality({running} \cap Actors) <= MaxConcurrency + 1
    /\ \A a \in Actors : result[a] # "none" => act[a] = "calling" /\ running # a

(* The pool's two extra connections are a reserve: a generation has to     *)
(* wait for one only while three or more probes are connected (backend.py:39). *)
PoolReserve ==
  engine = "http" =>
    \A i \in DOMAIN jobs : i > MaxConnections /\ jobs[i] # Probe =>
      Cardinality({k \in 1..MaxConnections : jobs[k] = Probe}) > 2

(* With deadlines, every request ends, even if the engine never answers:   *)
(* again and again (requests are finitely many: at last) none is under way.*)
RequestsEnd ==
  DeadlinesFire => []<>(\A r \in Requests : handler[r] \in {"idle", "done"})

(* Without deadlines, but with an engine that answers, no waiter of the    *)
(* semaphore and no caller of the backend is forgotten, whoever is         *)
(* cancelled around it and whenever close() comes, and close() ends.       *)
NobodyForgotten ==
  EngineAnswers => []<>(phase # "stopping" /\ \A a \in Actors : act[a] \in Ended)
=============================================================================
