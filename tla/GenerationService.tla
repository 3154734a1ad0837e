------------------------- MODULE GenerationService -------------------------
(***************************************************************************)
(* DecisionService of src/vllm_verifier/service.py: every question of a    *)
(* request is a task of its own, all tasks of the process share one        *)
(* semaphore in front of the backend, an unusable completion is asked for  *)
(* again, the first failure and the request deadline cancel the siblings,  *)
(* and the request only ends when the last of its tasks has.               *)
(*                                                                         *)
(* Cancelling a task is a request (asked) that the task meets when it runs *)
(* next; other coroutines run in between.  An action is the code between   *)
(* two suspensions.  The semaphore is asyncio's: waiters in order of       *)
(* arrival, each woken by a future that is set before it runs.             *)
(***************************************************************************)
EXTENDS Integers, Sequences, FiniteSets, SequencesExt

CONSTANTS Requests,        \* calls of evaluate or evaluate_vision, each made once
          Vision,          \* those that may be of evaluate_vision
          Asks,            \* Asks[r]: the questions of request r
          MaxConcurrency,  \* settings.max_concurrency
          Retries          \* settings.validation_retries

ASSUME VisionAssumption == Vision \subseteq Requests
ASSUME FinitelyManyAssumption ==
  IsFiniteSet(Requests) /\ \A r \in Requests : IsFiniteSet(Asks[r])
ASSUME LimitsAssumption == MaxConcurrency \in Nat \ {0} /\ Retries \in Nat
ASSUME NamesAssumption  == \A r \in Requests : "observation" \notin Asks[r]

Observer(r)   == <<r, "observation">>       \* the handler itself, as a user of the backend
Tasks(r)      == {r} \X Asks[r]
Actors        == UNION {Tasks(r) \cup {Observer(r)} : r \in Requests}
IsQuestion(a) == a[2] # "observation"

VARIABLES
  handler,   \* handler[r]: where the coroutine of the request is
  reply,     \* reply[r]: what it will return or raise
  expired,   \* the requests whose deadline has cancelled the handler
  act,       \* act[a]: where task a is
  asked,     \* the actors with a cancellation they have not met yet
  attempt,   \* attempt[a]: completions that a received
  waiters,   \* the semaphore's queue of futures
  slots      \* the semaphore's value

vars == <<handler, reply, expired, act, asked, attempt, waiters, slots>>
semVars  == <<act, waiters, slots>>
taskVars == <<semVars, asked, attempt>>

Ended == {"none", "verified", "failed", "cancelled"}
Settled(r) == \A t \in Tasks(r) : act[t] \in Ended

-----------------------------------------------------------------------------
Init ==
  /\ handler = [r \in Requests |-> "idle"]
  /\ reply = [r \in Requests |-> "none"]
  /\ expired = {} /\ asked = {}
  /\ act = [a \in Actors |-> "none"]
  /\ attempt = [a \in Actors |-> 0]
  /\ waiters = <<>> /\ slots = MaxConcurrency

-----------------------------------------------------------------------------
(* asyncio.Semaphore. *)

(* A future in the queue that is neither set nor cancelled. *)
Plain(a) == act[a] = "waiting" /\ a \notin asked
PlainBefore(i) == {j \in 1..i-1 : Plain(waiters[j])}

(* The owners of the first n of them. *)
Chosen(n) ==
  {i \in DOMAIN waiters : Plain(waiters[i]) /\ Cardinality(PlainBefore(i)) < n}
First(n) == {waiters[i] : i \in Chosen(n)}

(* Nobody may pass a waiter that was not cancelled, woken or not. *)
Contended == \E i \in DOMAIN waiters : act[waiters[i]] = "granted" \/ Plain(waiters[i])
Locked    == slots = 0 \/ Contended

(* Actor a becomes s, gives back so many slots, and the first so many of   *)
(* the queue are given one each.                                           *)
Pass(a, s, back, wake) ==
  /\ act' = [b \in Actors |-> IF b = a THEN s ELSE IF b \in First(wake) THEN "granted" ELSE act[b]]
  /\ slots' = slots + back - Cardinality(First(wake))

(* Actor a enters `async with self.slots`. *)
Acquire(a) ==
  IF Locked
    THEN /\ act' = [act EXCEPT ![a] = "waiting"]
         /\ waiters' = Append(waiters, a) /\ UNCHANGED slots
    ELSE /\ act' = [act EXCEPT ![a] = "calling"]
         /\ slots' = slots - 1 /\ UNCHANGED waiters

(* The same right after giving back the slot it had: the slot goes to the  *)
(* first waiter if there is one.                                           *)
ReleaseAndAcquire(a) ==
  IF Contended
    THEN Pass(a, "waiting", 1, 1) /\ waiters' = Append(waiters, a)
    ELSE UNCHANGED semVars

-----------------------------------------------------------------------------
(* The tasks. *)

(* First instruction of decide(): the loop's first `async with`. *)
Begin(a) ==
  /\ act[a] = "created" /\ a \notin asked
  /\ Acquire(a)
  /\ UNCHANGED <<handler, reply, expired, asked, attempt>>

(* Cancelled before its first instruction. *)
Unborn(a) ==
  /\ act[a] = "created" /\ a \in asked
  /\ act' = [act EXCEPT ![a] = "cancelled"]
  /\ asked' = asked \ {a}
  /\ UNCHANGED <<handler, reply, expired, attempt, waiters, slots>>

(* A woken waiter leaves the queue, wakes whom the value allows, and calls *)
(* the backend.                                                            *)
Enter(a) ==
  /\ act[a] = "granted" /\ a \notin asked
  /\ Pass(a, "calling", 0, slots)
  /\ waiters' = RemoveFirst(waiters, a)
  /\ UNCHANGED <<handler, reply, expired, asked, attempt>>

(* Cancelled on the queue: a slot that was already given goes on. *)
LeaveQueue(a) ==
  /\ act[a] \in {"waiting", "granted"} /\ a \in asked
  /\ LET back == IF act[a] = "granted" THEN 1 ELSE 0
     IN Pass(a, "cancelled", back, slots + back)
  /\ waiters' = RemoveFirst(waiters, a)
  /\ asked' = asked \ {a}
  /\ UNCHANGED <<handler, reply, expired, attempt>>

KeepsSlot == 0    \* mutant: no release on the exceptional path
GivesBack == 1

(* Cancelled during the call: `async with` gives the slot back. *)
Abort(a) ==
  /\ act[a] = "calling" /\ a \in asked
  /\ Pass(a, "cancelled", GivesBack, GivesBack)
  /\ asked' = asked \ {a}
  /\ UNCHANGED <<handler, reply, expired, attempt, waiters>>

MayRetry(a) == attempt[a] < Retries

(* The backend's completion passes the verification (or, for an            *)
(* observation, is complete and not blank).                                *)
Usable(a) ==
  /\ act[a] = "calling" /\ a \notin asked
  /\ Pass(a, "verified", 1, 1)
  /\ attempt' = [attempt EXCEPT ![a] = @ + 1]
  /\ UNCHANGED <<handler, reply, expired, asked, waiters>>

(* It does not, and another attempt is due: the question queues again.     *)
Unusable(a) ==
  /\ act[a] = "calling" /\ a \notin asked
  /\ IsQuestion(a) /\ MayRetry(a)
  /\ attempt' = [attempt EXCEPT ![a] = @ + 1]
  /\ ReleaseAndAcquire(a)
  /\ UNCHANGED <<handler, reply, expired, asked>>

(* It does not and no attempt is left.  An observation has only one.       *)
Exhaust(a) ==
  /\ act[a] = "calling" /\ a \notin asked
  /\ ~IsQuestion(a) \/ ~MayRetry(a)
  /\ Pass(a, "failed", 1, 1)
  /\ attempt' = [attempt EXCEPT ![a] = @ + 1]
  /\ UNCHANGED <<handler, reply, expired, asked, waiters>>

(* The backend raises a ServiceError: not retried. *)
BackendFails(a) ==
  /\ act[a] = "calling" /\ a \notin asked
  /\ Pass(a, "failed", 1, 1)
  /\ UNCHANGED <<handler, reply, expired, asked, attempt, waiters>>

(* The call ends in a cancellation that nobody asked for: the backend      *)
(* dropped the work it was waiting for.                                    *)
Dropped(a) ==
  /\ act[a] = "calling" /\ a \notin asked
  /\ Pass(a, "cancelled", 1, 1)
  /\ UNCHANGED <<handler, reply, expired, asked, attempt, waiters>>

Turn(a)     == Begin(a) \/ Unborn(a) \/ Enter(a) \/ LeaveQueue(a) \/ Abort(a)
Complete(a) == Usable(a) \/ Unusable(a) \/ Exhaust(a)

-----------------------------------------------------------------------------
(* The handler of a request. *)

Goto(r, s)   == handler' = [handler EXCEPT ![r] = s]
Outcome(r, o) == reply' = [reply EXCEPT ![r] = o]

(* How a cancellation leaves the route handler: asyncio.timeout turns its  *)
(* own into a timeout, any other goes on as it is.                         *)
Interrupted(r) == IF r \in expired THEN "timeout" ELSE "dropped"

(* The tasks of evaluate(), and the gather over them. *)
Spread(r) ==
  /\ Goto(r, "gathering")
  /\ act' = [a \in Actors |-> IF a \in Tasks(r) THEN "created" ELSE act[a]]

Evaluate(r) ==
  /\ handler[r] = "idle"
  /\ Spread(r)
  /\ UNCHANGED <<reply, expired, asked, attempt, waiters, slots>>

(* A model name that check_model does not know. *)
RefuseModel(r) ==
  /\ handler[r] = "idle"
  /\ Goto(r, "done") /\ Outcome(r, "error")
  /\ UNCHANGED <<expired, taskVars>>

(* evaluate_vision() validates the images on a thread ... *)
EvaluateVision(r) ==
  /\ r \in Vision /\ handler[r] = "idle"
  /\ Goto(r, "validating")
  /\ UNCHANGED <<reply, expired, taskVars>>

(* ... and asks the backend for an observation, under the same semaphore. *)
Observe(r) ==
  /\ handler[r] = "validating" /\ r \notin expired
  /\ Goto(r, "observing")
  /\ Acquire(Observer(r))
  /\ UNCHANGED <<reply, expired, asked, attempt>>

(* The images are refused, or the deadline came while they were checked.   *)
NotObserved(r) ==
  /\ handler[r] = "validating"
  /\ Goto(r, "done") /\ Outcome(r, IF r \in expired THEN "timeout" ELSE "error")
  /\ UNCHANGED <<expired, taskVars>>

(* The observation becomes part of the state of the questions ... *)
Observed(r) ==
  /\ handler[r] = "observing" /\ act[Observer(r)] = "verified"
  /\ Spread(r)
  /\ UNCHANGED <<reply, expired, asked, attempt, waiters, slots>>

(* ... or there is none. *)
ObservationFails(r) ==
  /\ handler[r] = "observing" /\ act[Observer(r)] \in {"failed", "cancelled"}
  /\ Goto(r, "done")
  /\ Outcome(r, IF act[Observer(r)] = "failed" THEN "error" ELSE Interrupted(r))
  /\ UNCHANGED <<expired, taskVars>>

SomeVerified(r) == \E t \in Tasks(r) : act[t] = "verified"    \* mutant: the first result is enough
AllVerified(r)  == \A t \in Tasks(r) : act[t] = "verified"
SomeFailed(r)  == \E t \in Tasks(r) : act[t] = "failed"
SomeCancelled(r) == \E t \in Tasks(r) : act[t] = "cancelled"

(* gather() is done: all results, or the first exception. *)
Gathered(r) == AllVerified(r) \/ SomeFailed(r) \/ SomeCancelled(r)

Unfinished(r) == {t \in Tasks(r) : act[t] \notin Ended}
NotStarted(r) == {t \in Unfinished(r) : act[t] # "calling"}    \* mutant: lets running calls be
Siblings(r)   == Unfinished(r)

(* The handler continues with the results or an exception, and cancels     *)
(* whatever is left before it waits for it.  When the deadline and a       *)
(* failure come together either may prevail.                               *)
Collect(r) ==
  /\ handler[r] = "gathering" /\ Gathered(r)
  /\ Goto(r, "cleaning")
  /\ \/ AllVerified(r) /\ r \notin expired /\ Outcome(r, "answer")
     \/ SomeFailed(r) /\ Outcome(r, "error")
     \/ (r \in expired \/ SomeCancelled(r)) /\ Outcome(r, Interrupted(r))
  /\ asked' = asked \cup Siblings(r)
  /\ UNCHANGED <<expired, semVars, attempt>>

CleanAtOnce(r) == handler[r] = "cleaning"    \* mutant: returns before its tasks end
Clean(r)       == handler[r] = "cleaning" /\ Settled(r)

(* The second gather(): every task has ended. *)
Finish(r) ==
  /\ Clean(r)
  /\ Goto(r, "done")
  /\ UNCHANGED <<reply, expired, taskVars>>

(* What the handler's cancellation reaches: the children of the gather it  *)
(* waits for, or the handler itself where it uses the backend.             *)
Shielded(r) == {}    \* mutant: the deadline leaves the tasks alone
Reached(r) ==
  IF handler[r] = "observing" THEN {Observer(r)}
  ELSE IF handler[r] = "gathering" /\ Gathered(r) THEN {} ELSE Unfinished(r)

(* The request deadline of the route handler (app.py:134-150). *)
Expire(r) ==
  /\ r \notin expired
  /\ \/ handler[r] \in {"validating", "gathering", "cleaning"}
     \/ handler[r] = "observing" /\ act[Observer(r)] \notin Ended
  /\ expired' = expired \cup {r}
  /\ asked' = asked \cup Reached(r)
  /\ reply' = [reply EXCEPT ![r] = IF handler[r] = "cleaning" THEN "timeout" ELSE @]
  /\ UNCHANGED <<handler, semVars, attempt>>

Call(r)  == Evaluate(r) \/ RefuseModel(r) \/ EvaluateVision(r)
Serve(r) == Observe(r) \/ NotObserved(r) \/ Observed(r) \/ ObservationFails(r)
            \/ Collect(r) \/ Finish(r)

-----------------------------------------------------------------------------
Holding == {a \in Actors : act[a] \in {"granted", "calling"}}

(* Each slot is free or held by one running call or by a waiter that is    *)
(* about to run: cancellations, failures and retries neither lose a slot   *)
(* nor let more than max_concurrency calls reach the backend.              *)
SlotsBalanced == slots + Cardinality(Holding) = MaxConcurrency

(* "Do not leak GPU work" (service.py:71): once a request is over, none of *)
(* its tasks calls the backend, queues for it or has still to be cancelled.*)
NothingLeaks ==
  \A r \in Requests : handler[r] = "done" =>
    \A a \in Actors : a[1] = r =>
      act[a] \in Ended /\ a \notin asked /\ a \notin ToSet(waiters)

(* "No partial success envelope is returned" (docs/architecture.md:20): an *)
(* answer means that every question was verified; an error that some task  *)
(* failed or the request was refused before it had any; a lost request     *)
(* that its work was dropped; and each question was asked at most          *)
(* validation_retries times again.                                         *)
AllOrNothing ==
  \A r \in Requests : handler[r] \in {"cleaning", "done"} =>
    /\ reply[r] = "answer" => r \notin expired /\ \A t \in Tasks(r) : act[t] = "verified"
    /\ reply[r] = "error" =>
         SomeFailed(r) \/ \A t \in Tasks(r) : act[t] = "none"
    /\ reply[r] = "timeout" => r \in expired
    /\ reply[r] = "dropped" => \E a \in Actors : a[1] = r /\ act[a] = "cancelled"
    /\ reply[r] # "none"
    /\ \A t \in Tasks(r) : attempt[t] <= Retries + 1

(* Once the handler has noticed the first failure of a request, or its     *)
(* deadline has come, none of its tasks sends another prompt, not even one *)
(* that was already given a slot.  (A failure that the handler has not     *)
(* seen yet when the deadline comes only stops the rest when it does.)     *)
NoCallAfterFailure ==
  [][\A a \in Actors :
       (act'[a] = "calling" /\ (act[a] # "calling" \/ attempt'[a] # attempt[a])) =>
         /\ handler[a[1]] \in {"validating", "observing", "gathering"}
         /\ a[1] \in expired => Gathered(a[1])]_vars
=============================================================================
