------------------------- MODULE DecisionScheduler -------------------------
(***************************************************************************)
(* DirectDecisionService of src/vllm_verifier/decision/service.py: one     *)
(* bounded asyncio.Queue, one scheduler task on the event loop, one owner  *)
(* thread that runs the model, and the clients that wait on futures.       *)
(*                                                                         *)
(* The event loop runs one coroutine at a time and switches only where a   *)
(* coroutine suspends.  An action below is the code between two            *)
(* suspensions; where the scheduler passes from one action to the next     *)
(* without suspending (worker = "loop" or "collect") every other coroutine *)
(* is held back by LoopFree.  The owner thread is not on the loop and      *)
(* interleaves with everything.                                            *)
(***************************************************************************)
EXTENDS Integers, Sequences, FiniteSets, SequencesExt

CONSTANTS Requests,        \* calls of evaluate / evaluate_vision, each made once
          Unsupported,     \* those naming another model, or asking for vision
          Malformed,       \* those whose questions the runtime refuses (422)
          MaxRequests,     \* settings.max_requests, the queue's maxsize
          BatchRequests,   \* settings.decision_batch_requests
          BatchWait        \* settings.decision_batch_wait_ms # 0

ASSUME RequestsAssumption == Unsupported \subseteq Requests /\ Malformed \subseteq Requests
ASSUME BoundsAssumption   == MaxRequests \in Nat \ {0} /\ BatchRequests \in Nat \ {0}
ASSUME WindowAssumption   == BatchWait \in BOOLEAN

VARIABLES
  fut,         \* fut[r]: the asyncio.Future of r's Job, "none" before there is one
  client,      \* client[r]: what the caller of evaluate(r) has seen
  queue,       \* self.queue
  unfinished,  \* the queue's count of items without a task_done()
  jobs,        \* the scheduler's local list of jobs
  batch,       \* the requests last handed to evaluate_batch
  worker,      \* where the scheduler task is suspended
  cancelled,   \* worker.cancel() was called
  thread,      \* the single work item of the one-thread executor
  outcome,     \* how the last finished work item ended
  runtime,     \* self.runtime is not None
  closed,      \* self.closed
  phase,       \* how far start() / close() have come
  accepted     \* history: the requests put on the queue, in order

vars == <<fut, client, queue, unfinished, jobs, batch, worker, cancelled,
          thread, outcome, runtime, closed, phase, accepted>>

callerVars == <<fut, client, queue, unfinished, accepted>>
workerVars == <<jobs, batch, worker>>
ownerVars  == <<thread, outcome>>
lifeVars   == <<cancelled, runtime, closed, phase>>

Verdicts == {"answer", "engine_input_error", "engine_error", "engine_unavailable"}
Refusals == {"unsupported", "engine_unavailable", "overloaded"}
Outcomes == {"scored", "failed", "raised"}

Pending(r) == fut[r] = "pending"
Flush(f, S, v) == [r \in Requests |-> IF r \in S /\ f[r] = "pending" THEN v ELSE f[r]]

-----------------------------------------------------------------------------
(* A fresh service object: no runtime, no worker, an empty queue. *)
Init ==
  /\ fut = [r \in Requests |-> "none"]
  /\ client = [r \in Requests |-> "idle"]
  /\ queue = <<>> /\ unfinished = 0 /\ accepted = <<>>
  /\ jobs = <<>> /\ batch = {} /\ worker = "absent"
  /\ thread = "idle" /\ outcome = "scored"
  /\ cancelled = FALSE /\ runtime = FALSE /\ closed = FALSE /\ phase = "new"

(* The scheduler is not between two suspensions: another coroutine may run. *)
LoopFree == worker \notin {"loop", "collect"}

Ready == runtime /\ ~closed /\ worker \notin {"absent", "done"}

(* What was accepted and not yet marked done, oldest first. *)
Backlog == jobs \o queue

-----------------------------------------------------------------------------
(* The clients. *)

(* Unknown model names and every vision request are refused at once. *)
RefuseUnsupported(r) ==
  /\ r \in Unsupported
  /\ client' = [client EXCEPT ![r] = "unsupported"]
  /\ UNCHANGED <<fut, queue, unfinished, accepted>>

(* evaluate() before start() is through, or after close() began. *)
RefuseNotReady(r) ==
  /\ r \notin Unsupported /\ ~Ready
  /\ client' = [client EXCEPT ![r] = "engine_unavailable"]
  /\ UNCHANGED <<fut, queue, unfinished, accepted>>

(* put_nowait on a full queue. *)
RefuseFull(r) ==
  /\ r \notin Unsupported /\ Ready /\ Len(queue) >= MaxRequests
  /\ client' = [client EXCEPT ![r] = "overloaded"]
  /\ UNCHANGED <<fut, queue, unfinished, accepted>>

QueueWith(r) == Append(queue, r)

(* put_nowait with room: the caller then suspends on its future. *)
Enqueue(r) ==
  /\ r \notin Unsupported /\ Ready /\ Len(queue) < MaxRequests
  /\ fut' = [fut EXCEPT ![r] = "pending"]
  /\ client' = [client EXCEPT ![r] = "waiting"]
  /\ queue' = QueueWith(r)
  /\ unfinished' = unfinished + 1
  /\ accepted' = Append(accepted, r)

Evaluate(r) ==
  /\ LoopFree /\ client[r] = "idle"
  /\ RefuseUnsupported(r) \/ RefuseNotReady(r) \/ RefuseFull(r) \/ Enqueue(r)
  /\ UNCHANGED <<workerVars, ownerVars, lifeVars>>

Woken(r) == client[r] = "waiting" /\ ~Pending(r)

(* The caller continues once its future is done. *)
Resume(r) ==
  /\ LoopFree /\ Woken(r)
  /\ client' = [client EXCEPT ![r] = fut[r]]
  /\ UNCHANGED <<fut, queue, unfinished, accepted, workerVars, ownerVars, lifeVars>>

LeftOpen(r) == fut[r]    \* mutant: the deadline leaves the future open
GivenUp(r)  == IF Pending(r) THEN "cancelled" ELSE fut[r]

(* The request deadline cancels the caller's task, and with it a pending   *)
(* future; the Job stays on the queue.  A result that was set but not yet  *)
(* picked up is lost to the caller all the same.                           *)
Deadline(r) ==
  /\ LoopFree /\ client[r] = "waiting"
  /\ client' = [client EXCEPT ![r] = "request_timeout"]
  /\ fut' = [fut EXCEPT ![r] = GivenUp(r)]
  /\ UNCHANGED <<queue, unfinished, accepted, workerVars, ownerVars, lifeVars>>

-----------------------------------------------------------------------------
(* The owner thread. *)

ThreadStart ==
  /\ thread = "pending"
  /\ thread' = "running"
  /\ UNCHANGED <<callerVars, workerVars, outcome, lifeVars>>

(* A load succeeds or raises.  A batch is scored, or fails inside the       *)
(* runtime, which then reports 502 for the requests it had admitted, or    *)
(* raises (or returns too few results, which the scheduler turns into a    *)
(* raise).                                                                 *)
ThreadFinish ==
  /\ thread = "running"
  /\ thread' = "finished"
  /\ outcome' \in IF batch = {} THEN {"scored", "raised"} ELSE Outcomes
  /\ UNCHANGED <<callerVars, workerVars, lifeVars>>

VerdictOfPartial(r) ==    \* mutant: what was scored first escapes a failed batch
  IF outcome = "raised" THEN "engine_error"
  ELSE IF r \in Malformed THEN "engine_input_error"
  ELSE IF outcome = "failed" /\ r # Head(jobs) THEN "engine_error" ELSE "answer"

VerdictOf(r) ==
  IF outcome = "raised" THEN "engine_error"
  ELSE IF r \in Malformed THEN "engine_input_error"
  ELSE IF outcome = "failed" THEN "engine_error" ELSE "answer"

-----------------------------------------------------------------------------
(* The scheduler task. *)

(* First instruction of _work. *)
WorkerBegin ==
  /\ worker = "created" /\ ~cancelled
  /\ worker' = "loop"
  /\ UNCHANGED <<callerVars, jobs, batch, ownerVars, lifeVars>>

(* queue.get() on an empty queue suspends. *)
WorkerIdle ==
  /\ worker = "loop" /\ queue = <<>>
  /\ worker' = "get"
  /\ UNCHANGED <<callerVars, jobs, batch, ownerVars, lifeVars>>

FullBatch == Len(queue) >= BatchRequests    \* mutant: wait for a whole batch
HasJob    == queue # <<>>

(* queue.get() returns the oldest job, then the optional batching window.  *)
WorkerTake ==
  /\ worker = "loop" \/ (worker = "get" /\ ~cancelled)
  /\ HasJob
  /\ jobs' = <<Head(queue)>>
  /\ queue' = Tail(queue)
  /\ worker' = IF BatchWait THEN "window" ELSE "collect"
  /\ UNCHANGED <<fut, client, unfinished, accepted, batch, ownerVars, lifeVars>>

Collecting == worker = "collect" \/ (worker = "window" /\ ~cancelled)

(* get_nowait until the batch is full or the queue is empty. *)
Extra == IF Len(queue) < BatchRequests - Len(jobs) THEN Len(queue)
                                                   ELSE BatchRequests - Len(jobs)
Collected == jobs \o SubSeq(queue, 1, Extra)
Live == {r \in ToSet(Collected) : Pending(r)}

(* At least one caller still waits: hand those requests to the owner. *)
WorkerSubmit ==
  /\ Collecting /\ Live # {}
  /\ jobs' = Collected
  /\ queue' = SubSeq(queue, Extra + 1, Len(queue))
  /\ batch' = Live
  /\ thread' = "pending"
  /\ worker' = "running"
  /\ UNCHANGED <<fut, client, unfinished, accepted, outcome, lifeVars>>

(* Nobody waits any more: the jobs are dropped and the loop goes round. *)
WorkerSkip ==
  /\ Collecting /\ Live = {}
  /\ jobs' = <<>>
  /\ queue' = SubSeq(queue, Extra + 1, Len(queue))
  /\ unfinished' = unfinished - Len(Collected)
  /\ worker' = "loop"
  /\ UNCHANGED <<fut, client, accepted, batch, ownerVars, lifeVars>>

SetBlindly ==    \* mutant: set_result without asking whether the future is done
  [r \in Requests |-> IF r \in batch THEN VerdictOf(r) ELSE fut[r]]
SetResults ==
  [r \in Requests |-> IF r \in batch /\ Pending(r) THEN VerdictOf(r) ELSE fut[r]]

(* The batch came back: settle the futures that are still open. *)
WorkerDeliver ==
  /\ worker = "running" /\ thread = "finished" /\ ~cancelled
  /\ fut' = SetResults
  /\ unfinished' = unfinished - Len(jobs)
  /\ jobs' = <<>>
  /\ batch' = {}
  /\ thread' = "idle"
  /\ worker' = "loop"
  /\ UNCHANGED <<client, queue, accepted, outcome, lifeVars>>

OnlyQueued   == ToSet(queue)    \* mutant: finally forgets the jobs in hand
InHand       == ToSet(jobs) \cup ToSet(queue)
OnlyDrained  == Len(queue)    \* mutant: no task_done for the jobs in hand
Retired      == Len(jobs) + Len(queue)
ItemKept     == thread    \* mutant: an item not started stays submitted
ItemDropped  == IF thread = "running" THEN "running" ELSE "idle"

(* CancelledError at a suspension inside the try block: the finally clause *)
(* drains the queue behind the current jobs.  A work item the thread has   *)
(* not started is cancelled, one that runs goes on and its result is lost. *)
WorkerCancelled ==
  /\ worker \in {"get", "window", "running"} /\ cancelled
  /\ fut' = Flush(fut, InHand, "engine_unavailable")
  /\ unfinished' = unfinished - Retired
  /\ jobs' = <<>>
  /\ queue' = <<>>
  /\ thread' = ItemDropped
  /\ worker' = "done"
  /\ UNCHANGED <<client, accepted, batch, outcome, lifeVars>>

(* CancelledError before the first instruction: there is no finally yet. *)
WorkerStillborn ==
  /\ worker = "created" /\ cancelled
  /\ worker' = "done"
  /\ UNCHANGED <<callerVars, jobs, batch, ownerVars, lifeVars>>

-----------------------------------------------------------------------------
(* Lifecycle. *)

(* start() with a settings.model it knows: load on the owner thread. *)
Start ==
  /\ phase = "new"
  /\ phase' = "loading"
  /\ thread' = "pending"
  /\ UNCHANGED <<callerVars, workerVars, outcome, cancelled, runtime, closed>>

(* start() with any other settings.model closes the service. *)
StartUnsupported ==
  /\ phase = "new"
  /\ phase' = "stopping"
  /\ closed' = TRUE
  /\ UNCHANGED <<callerVars, workerVars, ownerVars, cancelled, runtime>>

Loaded ==
  /\ phase = "loading" /\ thread = "finished" /\ outcome = "scored"
  /\ runtime' = TRUE
  /\ worker' = "created"
  /\ thread' = "idle"
  /\ phase' = "serving"
  /\ UNCHANGED <<callerVars, jobs, batch, outcome, cancelled, closed>>

(* except BaseException: a load that raised, or start() itself cancelled   *)
(* at its await, whatever the thread is doing.                             *)
StartFails ==
  /\ phase = "loading"
  /\ closed' = TRUE
  /\ phase' = "stopping"
  /\ thread' = ItemDropped
  /\ UNCHANGED <<callerVars, workerVars, outcome, cancelled, runtime>>

BusyWorker   == worker = "running"    \* mutant: an idle worker is not cancelled
HasWorker    == worker # "absent"

(* close() up to the wait for the worker; a second call returns at once. *)
Close ==
  /\ LoopFree /\ phase = "serving" /\ ~closed
  /\ closed' = TRUE
  /\ cancelled' = HasWorker
  /\ phase' = "stopping"
  /\ UNCHANGED <<callerVars, workerVars, ownerVars, runtime>>

NoLeftovers == {}    \* mutant: trusts the worker's finally to have drained the queue
Leftovers   == ToSet(queue)

(* The worker is gone: drain what a stillborn worker left behind, then     *)
(* shut the executor down.                                                 *)
CloseDrain ==
  /\ phase = "stopping" /\ worker \in {"absent", "done"}
  /\ fut' = Flush(fut, Leftovers, "engine_unavailable")
  /\ unfinished' = unfinished - Len(queue)
  /\ queue' = <<>>
  /\ thread' = IF thread = "pending" THEN "idle" ELSE thread
  /\ phase' = "joining"
  /\ UNCHANGED <<client, accepted, workerVars, outcome, cancelled, runtime, closed>>

(* shutdown(wait=True) returns when the thread has no work item left. *)
CloseJoined ==
  /\ phase = "joining" /\ thread \notin {"pending", "running"}
  /\ runtime' = FALSE
  /\ phase' = "closed"
  /\ UNCHANGED <<callerVars, workerVars, ownerVars, cancelled, closed>>

(* Everything is over: the only state in which the system may rest. *)
Terminated ==
  /\ phase = "closed" /\ \A r \in Requests : client[r] \notin {"idle", "waiting"}
  /\ UNCHANGED vars

-----------------------------------------------------------------------------
WorkerStep == WorkerBegin \/ WorkerIdle \/ WorkerTake \/ WorkerSubmit \/ WorkerSkip
              \/ WorkerDeliver \/ WorkerCancelled \/ WorkerStillborn
ThreadStep == ThreadStart \/ ThreadFinish
CloseStep  == CloseDrain \/ CloseJoined
LifeStep   == Start \/ StartUnsupported \/ Loaded \/ StartFails \/ Close \/ CloseStep
ClientStep == \E r \in Requests : Evaluate(r) \/ Resume(r) \/ Deadline(r)

Next == ClientStep \/ WorkerStep \/ ThreadStep \/ LifeStep \/ Terminated

Spec == Init /\ [][Next]_vars

(* The loop keeps running its ready coroutines and the owner thread        *)
(* finishes what it runs; calls, deadlines, start() and close() are the    *)
(* environment's and may never come.                                       *)
Fairness ==
  /\ WF_vars(WorkerStep) /\ WF_vars(ThreadStep) /\ WF_vars(CloseStep)
  /\ \A r \in Requests : WF_vars(Resume(r))

FairSpec == Spec /\ Fairness
-----------------------------------------------------------------------------
(* Every variable has its type. *)
TypeOK ==
  /\ fut \in [Requests -> {"none", "pending", "cancelled"} \cup Verdicts]
  /\ client \in [Requests -> {"idle", "waiting", "request_timeout"} \cup Verdicts \cup Refusals]
  /\ queue \in Seq(Requests) /\ jobs \in Seq(Requests) /\ accepted \in Seq(Requests)
  /\ unfinished \in Int
  /\ batch \subseteq Requests
  /\ worker \in {"absent", "created", "loop", "get", "window", "collect", "running", "done"}
  /\ thread \in {"idle", "pending", "running", "finished"}
  /\ outcome \in Outcomes
  /\ cancelled \in BOOLEAN /\ runtime \in BOOLEAN /\ closed \in BOOLEAN
  /\ phase \in {"new", "loading", "serving", "stopping", "joining", "closed"}

(* No caller is ever forgotten: as long as a future is open its job is     *)
(* either on the queue or in the scheduler's hands, whatever cancellations,*)
(* failed batches and shutdowns came before (service.py:85-151).           *)
NoLostWaiter == \A r \in Requests : Pending(r) => r \in ToSet(Backlog)

(* Callers and futures agree: an open future has a caller that still       *)
(* waits, so the model is never asked to score for nobody; a waiting       *)
(* caller's future is open or settled, never cancelled under its feet; and *)
(* no job is in the backlog of a call that was not made yet.               *)
CallersMatchFutures ==
  \A r \in Requests :
    /\ Pending(r) => client[r] = "waiting"
    /\ client[r] = "waiting" => fut[r] \in {"pending"} \cup Verdicts
    /\ client[r] = "idle" => fut[r] = "none" /\ r \notin ToSet(Backlog)

EndsWith(a, b) ==
  /\ Len(b) <= Len(a)
  /\ \A i \in 1..Len(b) : b[i] = a[Len(a) - Len(b) + i]

(* Jobs are dealt with in the order put_nowait accepted them: what is not  *)
(* settled yet is always the newest part of what was accepted.             *)
FirstComeFirstServed == EndsWith(accepted, Backlog)

(* task_done() is called exactly once per accepted job over the three      *)
(* places that do it (service.py:121-122, 132, 148): queue.join() would    *)
(* return exactly when nothing is left, and task_done never raises.        *)
TasksBalanced == unfinished = Len(Backlog)

(* The booleans that ready() and the handlers read never contradict how    *)
(* far start() and close() have come, and close() never catches the worker *)
(* between two suspensions.                                                *)
LifecycleCoherent ==
  /\ phase \in {"new", "loading"} =>
       worker = "absent" /\ ~closed /\ ~runtime /\ ~cancelled
  /\ phase = "serving" =>
       Ready /\ ~cancelled
  /\ phase \in {"stopping", "joining", "closed"} =>
       closed /\ (cancelled <=> worker # "absent") /\ LoopFree
  /\ phase \in {"joining", "closed"} => worker \in {"absent", "done"} /\ queue = <<>>
  /\ worker = "absent" => queue = <<>>
  /\ worker \in {"absent", "created", "loop", "get", "done"} => jobs = <<>>

(* Whichever way the service stops (idle, in the batching window, during a *)
(* batch, before the worker's first instruction, or because start failed), *)
(* nobody is left waiting once close() has drained the queue.              *)
NobodyWaitsAfterDrain ==
  phase \in {"joining", "closed"} =>
    /\ Backlog = <<>> /\ unfinished = 0
    /\ \A r \in Requests : ~Pending(r)

(* "No subsequent queued job is started" (service.py:149): the executor    *)
(* holds work that has not begun only while start() waits for the load or  *)
(* the scheduler for its batch, so a shutdown has nothing to run but what  *)
(* is running already.                                                     *)
NoBatchAfterWorker == thread = "pending" => phase = "loading" \/ worker = "running"

(* The owner thread runs one batch at a time and the scheduler is waiting  *)
(* for exactly that one, unless it was cancelled meanwhile: every request  *)
(* the batch holds belongs to the jobs in the scheduler's hands.           *)
BatchBelongsToJobs ==
  /\ Len(jobs) <= BatchRequests
  /\ worker = "running" =>
       /\ batch # {} /\ batch \subseteq ToSet(jobs)
       /\ \A r \in ToSet(jobs) : Pending(r) => r \in batch

(* Whatever start(), close() and their failures did: the flags agree with  *)
(* the phase, the executor holds no work that a shutdown would have to run *)
(* and the thread's batch is the one the scheduler waits for.              *)
ShutdownCoherent == LifecycleCoherent /\ NoBatchAfterWorker /\ BatchBelongsToJobs

(* A future is settled once: neither a late batch, a drain nor a deadline  *)
(* changes a verdict (set_result on a done future would kill the worker).  *)
SettledOnce ==
  [][\A r \in Requests : fut[r] \notin {"none", "pending"} => fut'[r] = fut[r]]_vars

(* A request whose caller gave up before its batch was put together is     *)
(* never handed to the model (service.py:98).                              *)
AbandonedNeverScored ==
  [][\A r \in Requests : r \in batch' /\ r \notin batch => Pending(r)]_vars

(* Once close() has begun, the scheduler hands no further batch to the     *)
(* owner, even if jobs are waiting and it was suspended in its window.     *)
NoBatchAfterClose ==
  [][closed => (batch' = batch \/ batch' = {})]_vars

(* Every accepted call is answered, deadline or not, as long as the loop   *)
(* runs and batches end; a shutdown answers it too.                        *)
EveryCallerAnswered ==
  \A r \in Requests : client[r] = "waiting" ~> client[r] # "waiting"

(* close() ends, and it does not wait for anything but a running batch. *)
CloseTerminates == closed ~> phase = "closed"
=============================================================================
