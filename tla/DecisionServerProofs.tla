------------------------ MODULE DecisionServerProofs ------------------------
(***************************************************************************)
(* Proofs about the decision runtime, for any set of requests, any limits, *)
(* with and without the batching window.  First about the scheduler alone: *)
(* its invariants, and that it implements BoundedDecisions.  Then about    *)
(* the server as it is deployed: what is proved of the middleware and of   *)
(* the scheduler carries over to their composition, and what only the two  *)
(* together keep follows from an invariant that links them.                *)
(***************************************************************************)
EXTENDS SchedulerRefinement, DecisionServer, SequenceLemmas

-----------------------------------------------------------------------------
(* What is left to do is the end of what was accepted. *)

(* What is left of a suffix when its oldest part goes is still a suffix. *)
LEMMA SuffixDrop ==
  ASSUME NEW S, NEW c \in Seq(S), NEW q \in Seq(S), NEW a \in Seq(S),
         EndsWith(a, c \o q)
  PROVE  Len(c \o q) = Len(c) + Len(q) /\ EndsWith(a, q)
<1> DEFINE b == c \o q
<1>1. Len(b) = Len(c) + Len(q) /\ Len(c) \in Nat /\ Len(q) \in Nat /\ Len(a) \in Nat
  BY ConcatProperties, LenProperties
<1>2. ASSUME NEW i \in 1..Len(q)  PROVE q[i] = a[Len(a) - Len(q) + i]
  <2>1. /\ Len(c) + i \in 1..Len(c) + Len(q)
        /\ Len(a) - (Len(c) + Len(q)) + (Len(c) + i) = Len(a) - Len(q) + i
    BY <1>1
  <2>2. q[i] = b[Len(c) + i]
    BY <1>1, ConcatProperties
  <2>3. b[Len(c) + i] = a[Len(a) - Len(b) + (Len(c) + i)]
    BY <1>1, <2>1 DEF EndsWith
  <2>4. QED
    BY <1>1, <2>1, <2>2, <2>3
<1>3. Len(q) <= Len(a)
  BY <1>1 DEF EndsWith
<1>4. QED
  BY <1>1, <1>2, <1>3 DEF EndsWith

(* A suffix grows with the sequence it ends. *)
LEMMA SuffixAppend ==
  ASSUME NEW S, NEW b \in Seq(S), NEW a \in Seq(S), NEW e \in S,
         EndsWith(a, b)
  PROVE  Len(Append(b, e)) = Len(b) + 1 /\ EndsWith(Append(a, e), Append(b, e))
<1>1. Len(Append(b, e)) = Len(b) + 1 /\ Len(Append(a, e)) = Len(a) + 1
      /\ Len(a) \in Nat /\ Len(b) \in Nat
  BY AppendProperties, LenProperties
<1>2. Append(b, e)[Len(b)+1] = e /\ Append(a, e)[Len(a)+1] = e
  BY AppendProperties
<1>3. ASSUME NEW i \in 1..Len(b)
      PROVE  Append(b, e)[i] = b[i]
  BY <1>1, AppendProperties
<1>4. ASSUME NEW i \in 1..Len(a)
      PROVE  Append(a, e)[i] = a[i]
  BY <1>1, AppendProperties
<1>5. ASSUME NEW i \in 1..Len(b)+1
      PROVE  Append(b, e)[i] = Append(a, e)[Len(a) - Len(b) + i]
  <2>1. CASE i = Len(b) + 1
    BY <1>1, <1>2, <2>1
  <2>2. CASE i # Len(b) + 1
    <3>1. i \in 1..Len(b) /\ Len(a) - Len(b) + i \in 1..Len(a)
      BY <1>1, <2>2 DEF EndsWith
    <3>2. QED
      BY <1>3, <1>4, <3>1 DEF EndsWith
  <2>3. QED
    BY <2>1, <2>2
<1>6. Len(Append(a, e)) - Len(Append(b, e)) = Len(a) - Len(b)
  BY <1>1
<1>7. Len(Append(b, e)) <= Len(Append(a, e))
  BY <1>1 DEF EndsWith
<1>8. ASSUME NEW i \in 1..Len(Append(b, e))
      PROVE  Append(b, e)[i] = Append(a, e)[Len(Append(a, e)) - Len(Append(b, e)) + i]
  <2>1. i \in 1..Len(b)+1
    BY <1>1
  <2>2. QED
    BY <1>5, <1>6, <2>1
<1>9. QED
  BY <1>1, <1>7, <1>8 DEF EndsWith
-----------------------------------------------------------------------------
(* The small helpers the actions are phrased with are always unfolded. *)
USE DEF QueueWith, Woken, GivenUp, HasJob, SetResults, InHand, Retired, ItemDropped,
        HasWorker, Leftovers

(* The inductive invariant: each conjunct is checked by a run.             *)
(* NoLostWaiter alone is not inductive: that delivering a batch settles    *)
(* every open job needs BatchBelongsToJobs, that a new job is not among    *)
(* those in the scheduler's hands needs CallersMatchFutures, and that a    *)
(* drain sees all of them needs LifecycleCoherent.                         *)
IInv ==
  /\ TypeOK
  /\ LifecycleCoherent
  /\ NoLostWaiter
  /\ CallersMatchFutures
  /\ BatchBelongsToJobs
  /\ FirstComeFirstServed
  /\ TasksBalanced
  /\ NoBatchAfterWorker

(* What WorkerTake does to the two sequences. *)
LEMMA TakeFacts ==
  ASSUME TypeOK, queue # <<>>, jobs = <<>>
  PROVE  /\ <<Head(queue)>> \in Seq(Requests) /\ Tail(queue) \in Seq(Requests)
         /\ Len(<<Head(queue)>>) = 1
         /\ <<Head(queue)>> \o Tail(queue) = Backlog
<1>1. queue \in Seq(Requests) /\ Len(queue) \in Nat /\ Len(queue) > 0
  BY LenProperties, EmptySeq DEF TypeOK
<1>2. Head(queue) \in Requests /\ Tail(queue) \in Seq(Requests) /\ Head(queue) = queue[1]
  BY <1>1, HeadTailProperties
<1>3. queue = SubSeq(queue, 1, Len(queue))
  BY <1>1, SubSeqFull
<1>4. SubSeq(queue, 1, Len(queue)) = <<queue[1]>> \o SubSeq(queue, 1+1, Len(queue))
  <2>1. 1 \in 1..Len(queue) /\ Len(queue) \in 1..Len(queue)
    BY <1>1
  <2>2. QED
    BY <1>1, <2>1, SubSeqRecursiveFirst
<1>5. Tail(queue) = SubSeq(queue, 1+1, Len(queue))
  BY <1>1, TailIsSubSeq
<1>6. Backlog = queue
  BY <1>1, ConcatEmptySeq DEF Backlog
<1>7. <<Head(queue)>> \in Seq(Requests) /\ Len(<<Head(queue)>>) = 1
  BY <1>2
<1>8. QED
  BY <1>2, <1>3, <1>4, <1>5, <1>6, <1>7

(* What collecting a batch does to them. *)
LEMMA CollectFacts ==
  ASSUME TypeOK, Len(jobs) <= BatchRequests
  PROVE  /\ Collected \in Seq(Requests) /\ Len(Collected) <= BatchRequests
         /\ SubSeq(queue, Extra + 1, Len(queue)) \in Seq(Requests)
         /\ Collected \o SubSeq(queue, Extra + 1, Len(queue)) = Backlog
         /\ Len(Backlog) = Len(Collected) + Len(SubSeq(queue, Extra + 1, Len(queue)))
<1> DEFINE front == SubSeq(queue, 1, Extra)
           rest  == SubSeq(queue, Extra + 1, Len(queue))
<1>1. queue \in Seq(Requests) /\ jobs \in Seq(Requests)
      /\ Len(queue) \in Nat /\ Len(jobs) \in Nat
  BY LenProperties DEF TypeOK
<1>2. Extra \in 0..Len(queue) /\ Len(jobs) + Extra <= BatchRequests
  BY <1>1, BoundsAssumption DEF Extra
<1>3. front \in Seq(Requests) /\ rest \in Seq(Requests) /\ front \o rest = queue
  BY <1>1, <1>2, Split
<1>4. Len(front) = Extra
  BY <1>1, <1>2, SubSeqProperties, ElementOfSeq
<1> HIDE DEF front, rest
<1>5. (jobs \o front) \o rest = jobs \o (front \o rest)
  <2>1. jobs \in Seq(Requests) /\ front \in Seq(Requests) /\ rest \in Seq(Requests)
    BY <1>1, <1>3
  <2>2. QED
    BY <2>1, Associative
<1>6. Collected \in Seq(Requests) /\ Len(Collected) = Len(jobs) + Len(front)
  BY <1>1, <1>3, ConcatProperties DEF Collected, front
<1>7. Collected \o rest = Backlog
  BY <1>3, <1>5 DEF Collected, Backlog, front
<1>8. Len(Collected \o rest) = Len(Collected) + Len(rest)
  BY <1>3, <1>6, ConcatProperties
<1>9. Len(Collected) <= BatchRequests
  BY <1>2, <1>4, <1>6
<1>10. QED
  BY <1>3, <1>6, <1>7, <1>8, <1>9 DEF rest
-----------------------------------------------------------------------------
(* The parts of the invariant hold before start().                         *)
LEMMA InitInv == Init => IInv
<1> SUFFICES ASSUME Init  PROVE IInv
  OBVIOUS
<1>1. <<>> \in Seq(Requests) /\ Len(<<>>) = 0
  BY EmptySeq
<1>2. Backlog = <<>>
  BY <1>1, ConcatEmptySeq DEF Init, Backlog
<1>3. TypeOK
  <2>1. /\ fut \in [Requests -> {"none", "pending", "cancelled"} \cup Verdicts]
        /\ client \in [Requests -> {"idle", "waiting", "request_timeout"}
                                      \cup Verdicts \cup Refusals]
    BY DEF Init
  <2>2. batch \subseteq Requests /\ outcome \in Outcomes
    BY DEF Init, Outcomes
  <2>3. /\ queue \in Seq(Requests) /\ jobs \in Seq(Requests) /\ accepted \in Seq(Requests)
        /\ unfinished \in Int
    BY <1>1 DEF Init
  <2>4. /\ worker \in {"absent", "created", "loop", "get", "window", "collect", "running", "done"}
        /\ thread \in {"idle", "pending", "running", "finished"}
        /\ cancelled \in BOOLEAN /\ runtime \in BOOLEAN /\ closed \in BOOLEAN
        /\ phase \in {"new", "loading", "serving", "stopping", "joining", "closed"}
    BY DEF Init
  <2>5. QED
    BY <2>1, <2>2, <2>3, <2>4 DEF TypeOK
<1>4. LifecycleCoherent
  BY DEF Init, LifecycleCoherent, LoopFree, Ready
<1>5. NoLostWaiter
  BY DEF Init, NoLostWaiter, Pending
<1>6. CallersMatchFutures
  BY <1>2, EmptySet DEF Init, CallersMatchFutures, Pending
<1>7. BatchBelongsToJobs
  BY <1>1, BoundsAssumption DEF Init, BatchBelongsToJobs
<1>8. FirstComeFirstServed /\ TasksBalanced
  BY <1>1, <1>2 DEF Init, FirstComeFirstServed, EndsWith, TasksBalanced
<1>9. NoBatchAfterWorker
  BY DEF Init, NoBatchAfterWorker
<1>10. QED
  BY <1>3, <1>4, <1>5, <1>6, <1>7, <1>8, <1>9 DEF IInv

(* The control part of the invariant rests on nothing but itself. *)
LEMMA LifecycleStep ==
  ASSUME TypeOK, LifecycleCoherent, [Next]_vars
  PROVE  LifecycleCoherent'
<1> USE DEF LifecycleCoherent, Ready, LoopFree, callerVars, workerVars, ownerVars, lifeVars
<1>1. ASSUME NEW r \in Requests, Evaluate(r)  PROVE LifecycleCoherent'
  BY <1>1 DEF Evaluate, RefuseUnsupported, RefuseNotReady, RefuseFull, Enqueue
<1>2. ASSUME NEW r \in Requests, Resume(r) \/ Deadline(r)  PROVE LifecycleCoherent'
  BY <1>2 DEF Resume, Deadline
<1>3. CASE WorkerBegin \/ WorkerIdle \/ WorkerTake
  BY <1>3 DEF WorkerBegin, WorkerIdle, WorkerTake
<1>4. CASE WorkerSubmit \/ WorkerSkip
  BY <1>4 DEF WorkerSubmit, WorkerSkip, Collecting
<1>5. CASE WorkerDeliver
  BY <1>5 DEF WorkerDeliver
<1>6. CASE WorkerCancelled \/ WorkerStillborn
  BY <1>6 DEF WorkerCancelled, WorkerStillborn
<1>7. CASE ThreadStep
  BY <1>7 DEF ThreadStep, ThreadStart, ThreadFinish
<1>8. CASE Start \/ StartUnsupported \/ Loaded \/ StartFails
  BY <1>8 DEF Start, StartUnsupported, Loaded, StartFails
<1>9. CASE Close
  BY <1>9 DEF Close
<1>10. CASE CloseDrain \/ CloseJoined
  BY <1>10, EmptySeq DEF CloseDrain, CloseJoined
<1>11. CASE Terminated \/ UNCHANGED vars
  BY <1>11 DEF Terminated, vars
<1>12. QED
  BY <1>1, <1>2, <1>3, <1>4, <1>5, <1>6, <1>7, <1>8, <1>9, <1>10, <1>11
     DEF Next, ClientStep, WorkerStep, LifeStep, CloseStep
(* Types: the last verdict a caller can see is the one its future has. *)
LEMMA TypeStep ==
  ASSUME IInv, [Next]_vars
  PROVE  TypeOK'
<1> USE DEF IInv, TypeOK, callerVars, workerVars, ownerVars, lifeVars
<1>1. ASSUME NEW r \in Requests, Evaluate(r)  PROVE TypeOK'
  <2>1. CASE RefuseUnsupported(r) \/ RefuseNotReady(r) \/ RefuseFull(r)
    BY <1>1, <2>1 DEF Evaluate, RefuseUnsupported, RefuseNotReady, RefuseFull, Refusals
  <2>2. CASE Enqueue(r)
    <3>1. Append(queue, r) \in Seq(Requests) /\ Append(accepted, r) \in Seq(Requests)
      BY AppendProperties
    <3>2. QED
      BY <1>1, <2>2, <3>1 DEF Evaluate, Enqueue
  <2>3. QED
    BY <1>1, <2>1, <2>2 DEF Evaluate
<1>2. ASSUME NEW r \in Requests, Resume(r)  PROVE TypeOK'
  BY <1>2 DEF Resume, CallersMatchFutures, Pending, Verdicts
<1>3. ASSUME NEW r \in Requests, Deadline(r)  PROVE TypeOK'
  BY <1>3 DEF Deadline
<1>4. CASE WorkerTake
  <2>1. jobs = <<>>
    BY <1>4 DEF WorkerTake, LifecycleCoherent
  <2>2. QED
    BY <1>4, <2>1, TakeFacts DEF WorkerTake
<1>5. CASE WorkerSubmit
  <2>1. Collected \in Seq(Requests) /\ SubSeq(queue, Extra + 1, Len(queue)) \in Seq(Requests)
    BY CollectFacts DEF BatchBelongsToJobs
  <2>2. Live \subseteq Requests
    BY <2>1, SetOfSeq DEF Live
  <2>3. QED
    BY <1>5, <2>1, <2>2 DEF WorkerSubmit
<1>6. CASE WorkerSkip
  <2>1. /\ SubSeq(queue, Extra + 1, Len(queue)) \in Seq(Requests)
        /\ Len(Collected) \in Int /\ <<>> \in Seq(Requests)
    BY CollectFacts, LenProperties, EmptySeq DEF BatchBelongsToJobs
  <2>2. QED
    BY <1>6, <2>1 DEF WorkerSkip
<1>7. CASE WorkerDeliver
  <2>1. <<>> \in Seq(Requests) /\ Len(jobs) \in Int
    BY EmptySeq, LenProperties
  <2>2. \A r \in Requests : VerdictOf(r) \in Verdicts
    BY DEF VerdictOf, Verdicts
  <2>3. fut' \in [Requests -> {"none", "pending", "cancelled"} \cup Verdicts]
    BY <1>7, <2>2 DEF WorkerDeliver
  <2>4. QED
    BY <1>7, <2>1, <2>3 DEF WorkerDeliver
<1>8. CASE WorkerCancelled \/ CloseDrain
  <2>1. <<>> \in Seq(Requests) /\ Len(jobs) \in Int /\ Len(queue) \in Int
    BY EmptySeq, LenProperties
  <2>2. fut' \in [Requests -> {"none", "pending", "cancelled"} \cup Verdicts]
    BY <1>8 DEF WorkerCancelled, CloseDrain, Flush, Verdicts
  <2>3. CASE WorkerCancelled
    <3>1. /\ unfinished' \in Int /\ jobs' \in Seq(Requests) /\ queue' \in Seq(Requests)
          /\ thread' \in {"idle", "pending", "running", "finished"}
      BY <2>1, <2>3 DEF WorkerCancelled
    <3>2. QED
      BY <2>2, <2>3, <3>1 DEF WorkerCancelled
  <2>4. CASE CloseDrain
    BY <2>1, <2>2, <2>4 DEF CloseDrain
  <2>5. QED
    BY <1>8, <2>3, <2>4
<1>9. CASE ThreadStep
  BY <1>9 DEF ThreadStep, ThreadStart, ThreadFinish, Outcomes
<1>10. CASE WorkerBegin \/ WorkerIdle \/ WorkerStillborn
  BY <1>10 DEF WorkerBegin, WorkerIdle, WorkerStillborn
<1>11. CASE Start \/ StartUnsupported \/ Loaded \/ StartFails \/ Close \/ CloseJoined
  BY <1>11 DEF Start, StartUnsupported, Loaded, StartFails, Close, CloseJoined
<1>12. CASE Terminated \/ UNCHANGED vars
  BY <1>12 DEF Terminated, vars
<1>13. QED
  BY <1>1, <1>2, <1>3, <1>4, <1>5, <1>6, <1>7, <1>8, <1>9, <1>10, <1>11, <1>12
     DEF Next, ClientStep, WorkerStep, LifeStep, CloseStep
-----------------------------------------------------------------------------
(* The five ways a step can treat the backlog, its futures and its counts. *)

BacklogKept == /\ Backlog' = Backlog
               /\ UNCHANGED <<unfinished, accepted>>
               /\ \A r \in Requests : Pending(r)' => Pending(r)

BacklogGrows == \E r \in Requests :
                  /\ client[r] = "idle" /\ fut' = [fut EXCEPT ![r] = "pending"]
                  /\ Backlog' = Append(Backlog, r)
                  /\ accepted' = Append(accepted, r)
                  /\ unfinished' = unfinished + 1

BacklogShrinks == \E done \in Seq(Requests) :
                    /\ Backlog' \in Seq(Requests)
                    /\ Backlog = done \o Backlog'
                    /\ unfinished' = unfinished - Len(done)
                    /\ accepted' = accepted
                    /\ \A r \in Requests : Pending(r)' => Pending(r) /\ r \notin ToSet(done)

(* Every step treats the backlog in one of those ways: it is the step      *)
(* simulation that the invariants, and the refinement, rest on.            *)
LEMMA BacklogStep ==
  ASSUME IInv, [Next]_vars
  PROVE  BacklogKept \/ BacklogGrows \/ BacklogShrinks
<1> USE DEF IInv, TypeOK, callerVars, workerVars, ownerVars, lifeVars
<1>0. Backlog \in Seq(Requests) /\ Len(Backlog) = Len(jobs) + Len(queue)
  BY ConcatProperties DEF Backlog
<1>1. ASSUME NEW r \in Requests, Evaluate(r)  PROVE BacklogKept \/ BacklogGrows
  <2>1. CASE RefuseUnsupported(r) \/ RefuseNotReady(r) \/ RefuseFull(r)
    BY <1>1, <2>1 DEF Evaluate, RefuseUnsupported, RefuseNotReady, RefuseFull,
                      BacklogKept, Backlog, Pending
  <2>2. CASE Enqueue(r)
    <3>1. jobs \o Append(queue, r) = Append(jobs \o queue, r)
      <4>1. Append(queue, r) = queue \o <<r>> /\ <<r>> \in Seq(Requests)
        BY AppendIsConcat
      <4>2. Append(jobs \o queue, r) = (jobs \o queue) \o <<r>>
        BY <1>0, AppendIsConcat DEF Backlog
      <4>3. (jobs \o queue) \o <<r>> = jobs \o (queue \o <<r>>)
        <5>1. jobs \in Seq(Requests) /\ queue \in Seq(Requests) /\ <<r>> \in Seq(Requests)
          BY <4>1
        <5>2. QED
          BY <5>1, Associative
      <4>4. QED
        BY <4>1, <4>2, <4>3
    <3>2. BacklogGrows
      BY <1>1, <2>2, <3>1 DEF Evaluate, Enqueue, BacklogGrows, Backlog
    <3>3. QED
      BY <3>2
  <2>3. QED
    BY <1>1, <2>1, <2>2 DEF Evaluate
<1>2. ASSUME NEW r \in Requests, Resume(r) \/ Deadline(r)  PROVE BacklogKept
  BY <1>2 DEF Resume, Deadline, BacklogKept, Backlog, Pending
<1>3. CASE WorkerTake
  <2>1. jobs = <<>>
    BY <1>3 DEF WorkerTake, LifecycleCoherent
  <2>2. jobs' \o queue' = Backlog
    BY <1>3, <2>1, TakeFacts DEF WorkerTake
  <2>3. QED
    BY <1>3, <2>2 DEF WorkerTake, BacklogKept, Backlog, Pending
<1>4. CASE WorkerSubmit
  <2>1. Collected \o SubSeq(queue, Extra + 1, Len(queue)) = Backlog
    BY CollectFacts DEF BatchBelongsToJobs
  <2>2. QED
    BY <1>4, <2>1 DEF WorkerSubmit, BacklogKept, Backlog, Pending
<1>5. CASE WorkerSkip
  <2> DEFINE rest == SubSeq(queue, Extra + 1, Len(queue))
  <2>1. Collected \in Seq(Requests) /\ rest \in Seq(Requests) /\ Collected \o rest = Backlog
    BY CollectFacts DEF BatchBelongsToJobs
  <2>2. Backlog' = rest
    BY <1>5, <2>1, ConcatEmptySeq DEF WorkerSkip, Backlog
  <2>3. \A r \in Requests : Pending(r)' => Pending(r) /\ r \notin ToSet(Collected)
    BY <1>5 DEF WorkerSkip, Live, Pending
  <2>4. unfinished' = unfinished - Len(Collected) /\ accepted' = accepted
    BY <1>5 DEF WorkerSkip
  <2>5. QED
    BY <2>1, <2>2, <2>3, <2>4 DEF BacklogShrinks
<1>6. CASE WorkerDeliver
  <2>1. Backlog' = queue
    BY <1>6, ConcatEmptySeq DEF WorkerDeliver, Backlog
  <2>2. \A r \in Requests : Pending(r)' => Pending(r) /\ r \notin batch
    BY <1>6 DEF WorkerDeliver, Pending, VerdictOf
  <2>3. \A r \in Requests : Pending(r)' => Pending(r) /\ r \notin ToSet(jobs)
    BY <1>6, <2>2 DEF WorkerDeliver, BatchBelongsToJobs
  <2>4. unfinished' = unfinished - Len(jobs) /\ accepted' = accepted
    BY <1>6 DEF WorkerDeliver
  <2>5. QED
    BY <2>1, <2>3, <2>4 DEF BacklogShrinks, Backlog
<1>7. CASE WorkerCancelled \/ CloseDrain
  <2>1. Backlog' = <<>> /\ <<>> \in Seq(Requests)
    <3>1. jobs' = <<>> /\ queue' = <<>>
      BY <1>7 DEF WorkerCancelled, CloseDrain, LifecycleCoherent
    <3>2. <<>> \o <<>> = <<>> /\ <<>> \in Seq(Requests)
      BY EmptySeq, ConcatEmptySeq
    <3>3. QED
      BY <3>1, <3>2 DEF Backlog
  <2>2. Backlog \o <<>> = Backlog
    BY <1>0, ConcatEmptySeq
  <2>3. ToSet(Backlog) = ToSet(jobs) \cup ToSet(queue)
    BY ConcatSet DEF Backlog
  <2>4. unfinished' = unfinished - Len(Backlog) /\ accepted' = accepted
    <3>1. CASE WorkerCancelled
      BY <1>0, <3>1, LenProperties DEF WorkerCancelled
    <3>2. CASE CloseDrain
      <4>1. jobs = <<>> /\ Len(jobs) = 0
        BY <3>2, EmptySeq DEF CloseDrain, LifecycleCoherent
      <4>2. QED
        BY <1>0, <3>2, <4>1, LenProperties DEF CloseDrain
    <3>3. QED
      BY <1>7, <3>1, <3>2
  <2>5. \A r \in Requests : Pending(r)' => Pending(r) /\ r \notin ToSet(Backlog)
    <3>1. CASE WorkerCancelled
      BY <2>3, <3>1 DEF WorkerCancelled, Flush, Pending
    <3>2. CASE CloseDrain
      <4>1. jobs = <<>>
        BY <3>2 DEF CloseDrain, LifecycleCoherent
      <4>2. QED
        BY <2>3, <3>2, <4>1, EmptySet DEF CloseDrain, Flush, Pending
    <3>3. QED
      BY <1>7, <3>1, <3>2
  <2>6. QED
    BY <1>0, <2>1, <2>2, <2>4, <2>5 DEF BacklogShrinks
<1>8. CASE ThreadStep
  BY <1>8 DEF ThreadStep, ThreadStart, ThreadFinish, BacklogKept, Backlog, Pending
<1>9. CASE WorkerBegin \/ WorkerIdle \/ WorkerStillborn
  BY <1>9 DEF WorkerBegin, WorkerIdle, WorkerStillborn, BacklogKept, Backlog, Pending
<1>10. CASE Start \/ StartUnsupported \/ Loaded \/ StartFails \/ Close \/ CloseJoined
  BY <1>10 DEF Start, StartUnsupported, Loaded, StartFails, Close, CloseJoined,
               BacklogKept, Backlog, Pending
<1>11. CASE Terminated \/ UNCHANGED vars
  BY <1>11 DEF Terminated, vars, BacklogKept, Backlog, Pending
<1>12. QED
  BY <1>1, <1>2, <1>3, <1>4, <1>5, <1>6, <1>7, <1>8, <1>9, <1>10, <1>11
     DEF Next, ClientStep, WorkerStep, LifeStep, CloseStep
(* The rest of the invariant. *)

(* What the thread runs always covers the open jobs in hand: nobody whose  *)
(* future is open is left out of the batch.                                *)
LEMMA BatchStep ==
  ASSUME IInv, [Next]_vars
  PROVE  BatchBelongsToJobs'
<1> USE DEF IInv, TypeOK, BatchBelongsToJobs, callerVars, workerVars, ownerVars, lifeVars
<1>0. Len(<<>>) = 0 /\ BatchRequests \in Nat /\ BatchRequests >= 1
  BY EmptySeq, BoundsAssumption
<1>1. ASSUME NEW r \in Requests, Evaluate(r)  PROVE BatchBelongsToJobs'
  <2>1. jobs' = jobs /\ batch' = batch /\ worker' = worker
    BY <1>1 DEF Evaluate
  <2>2. ASSUME NEW q \in Requests, q \in ToSet(jobs), Pending(q)'  PROVE Pending(q)
    <3>1. q \in ToSet(Backlog)
      BY <2>2, ConcatSet DEF Backlog
    <3>2. client[q] # "idle"
      BY <3>1 DEF CallersMatchFutures
    <3>3. QED
      BY <1>1, <2>2, <3>2 DEF Evaluate, RefuseUnsupported, RefuseNotReady, RefuseFull,
                              Enqueue, Pending
  <2>3. ToSet(jobs) \subseteq Requests
    BY SetOfSeq
  <2>4. QED
    BY <2>1, <2>2, <2>3
<1>2. ASSUME NEW r \in Requests, Resume(r) \/ Deadline(r)  PROVE BatchBelongsToJobs'
  <2>1. ToSet(jobs) \subseteq Requests
    BY SetOfSeq
  <2>2. QED
    BY <1>2, <2>1 DEF Resume, Deadline, Pending
<1>3. CASE WorkerTake
  <2>1. Len(jobs') = 1
    BY <1>3, TakeFacts DEF WorkerTake, LifecycleCoherent
  <2>2. QED
    BY <1>0, <1>3, <2>1 DEF WorkerTake
<1>4. CASE WorkerSubmit
  <2>1. Len(Collected) <= BatchRequests
    BY CollectFacts
  <2>2. QED
    BY <1>4, <2>1 DEF WorkerSubmit, Live, Pending
<1>5. CASE WorkerSkip \/ WorkerDeliver \/ WorkerCancelled \/ WorkerStillborn
  BY <1>0, <1>5 DEF WorkerSkip, WorkerDeliver, WorkerCancelled, WorkerStillborn
<1>6. CASE WorkerBegin \/ WorkerIdle
  BY <1>6 DEF WorkerBegin, WorkerIdle
<1>7. CASE ThreadStep
  BY <1>7 DEF ThreadStep, ThreadStart, ThreadFinish, Pending
<1>8. CASE Start \/ StartUnsupported \/ StartFails \/ Close \/ CloseJoined
  BY <1>8 DEF Start, StartUnsupported, StartFails, Close, CloseJoined, Pending
<1>9. CASE Loaded
  BY <1>9 DEF Loaded
<1>10. CASE CloseDrain
  BY <1>10 DEF CloseDrain
<1>11. CASE Terminated \/ UNCHANGED vars
  BY <1>11 DEF Terminated, vars, Pending
<1>12. QED
  BY <1>1, <1>2, <1>3, <1>4, <1>5, <1>6, <1>7, <1>8, <1>9, <1>10, <1>11
     DEF Next, ClientStep, WorkerStep, LifeStep, CloseStep

(* Every step keeps the backlog in the order of acceptance and counts the  *)
(* jobs that are done.                                                     *)
LEMMA OrderStep ==
  ASSUME IInv, [Next]_vars
  PROVE  FirstComeFirstServed' /\ TasksBalanced'
<1>0. /\ Backlog \in Seq(Requests) /\ Len(Backlog) \in Nat /\ accepted \in Seq(Requests)
      /\ FirstComeFirstServed /\ TasksBalanced
  BY ConcatProperties, LenProperties DEF Backlog, IInv, TypeOK
<1>1. CASE BacklogKept
  BY <1>0, <1>1 DEF BacklogKept, FirstComeFirstServed, TasksBalanced
<1>2. CASE BacklogGrows
  <2>1. PICK r \in Requests : /\ Backlog' = Append(Backlog, r)
                              /\ accepted' = Append(accepted, r)
                              /\ unfinished' = unfinished + 1
    BY <1>2 DEF BacklogGrows
  <2>2. Len(Backlog') = Len(Backlog) + 1 /\ EndsWith(accepted', Backlog')
    BY <1>0, <2>1, SuffixAppend DEF FirstComeFirstServed
  <2>3. QED
    BY <1>0, <2>1, <2>2 DEF FirstComeFirstServed, TasksBalanced
<1>3. CASE BacklogShrinks
  <2>1. PICK done \in Seq(Requests) : /\ Backlog' \in Seq(Requests)
                                      /\ Backlog = done \o Backlog'
                                      /\ unfinished' = unfinished - Len(done)
                                      /\ accepted' = accepted
    BY <1>3 DEF BacklogShrinks
  <2>2. Len(Backlog) = Len(done) + Len(Backlog') /\ EndsWith(accepted, Backlog')
    <3>1. EndsWith(accepted, done \o Backlog')
      BY <1>0, <2>1 DEF FirstComeFirstServed
    <3>2. Len(done \o Backlog') = Len(done) + Len(Backlog') /\ EndsWith(accepted, Backlog')
      <4>1. Backlog' \in Seq(Requests) /\ accepted \in Seq(Requests)
        BY <1>0, <2>1
      <4>2. QED
        BY <3>1, <4>1, SuffixDrop
    <3>3. QED
      BY <2>1, <3>2
  <2>3. Len(done) \in Nat /\ Len(Backlog') \in Nat
    BY <2>1, LenProperties
  <2>4. unfinished' = Len(Backlog')
    BY <1>0, <2>1, <2>2, <2>3 DEF TasksBalanced
  <2>5. QED
    BY <2>1, <2>2, <2>4 DEF FirstComeFirstServed, TasksBalanced
<1>4. QED
  BY <1>1, <1>2, <1>3, BacklogStep

(* A step never takes the job of an open future from the backlog.          *)
LEMMA WaiterStep ==
  ASSUME IInv, [Next]_vars
  PROVE  NoLostWaiter'
<1> USE DEF IInv, TypeOK
<1>0. Backlog \in Seq(Requests)
  BY ConcatProperties DEF Backlog
<1>1. CASE BacklogKept
  BY <1>1 DEF BacklogKept, NoLostWaiter
<1>2. CASE BacklogGrows
  <2>1. PICK r \in Requests : /\ fut' = [fut EXCEPT ![r] = "pending"]
                              /\ Backlog' = Append(Backlog, r)
    BY <1>2 DEF BacklogGrows
  <2>2. ToSet(Backlog') = ToSet(Backlog) \cup {r}
    BY <1>0, <2>1, AppendSet
  <2>3. QED
    BY <2>1, <2>2 DEF NoLostWaiter, Pending
<1>3. CASE BacklogShrinks
  <2>1. PICK done \in Seq(Requests) :
          /\ Backlog' \in Seq(Requests)
          /\ Backlog = done \o Backlog'
          /\ \A r \in Requests : Pending(r)' => Pending(r) /\ r \notin ToSet(done)
    BY <1>3 DEF BacklogShrinks
  <2>2. ToSet(Backlog) = ToSet(done) \cup ToSet(Backlog')
    BY <2>1, ConcatSet
  <2>3. QED
    BY <2>1, <2>2 DEF NoLostWaiter
<1>4. QED
  BY <1>1, <1>2, <1>3, BacklogStep
(* What a caller does next still matches the state of its future.          *)
LEMMA CallerStep ==
  ASSUME IInv, [Next]_vars
  PROVE  CallersMatchFutures'
<1> USE DEF TypeOK, callerVars, workerVars, ownerVars, lifeVars
<1>0. TypeOK /\ CallersMatchFutures /\ Backlog \in Seq(Requests)
  BY ConcatProperties DEF IInv, Backlog
(* A step that leaves the callers alone can only empty the backlog. *)
<1>a. ASSUME client' = client,
             \A r \in Requests : \/ fut'[r] = fut[r]
                                 \/ Pending(r) /\ fut'[r] \in Verdicts
      PROVE  CallersMatchFutures'
  <2>1. ~BacklogGrows
    <3>1. ASSUME NEW r \in Requests, client[r] = "idle"
          PROVE  fut' # [fut EXCEPT ![r] = "pending"]
      BY <1>0, <1>a, <3>1 DEF CallersMatchFutures, Pending
    <3>2. QED
      BY <3>1 DEF BacklogGrows
  <2>2. \A r \in ToSet(Backlog') : r \in ToSet(Backlog)
    <3>1. CASE BacklogKept
      BY <3>1 DEF BacklogKept
    <3>2. CASE BacklogShrinks
      <4>1. PICK done \in Seq(Requests) : /\ Backlog' \in Seq(Requests)
                                          /\ Backlog = done \o Backlog'
        BY <3>2 DEF BacklogShrinks
      <4>2. ToSet(Backlog) = ToSet(done) \cup ToSet(Backlog')
        BY <4>1, ConcatSet
      <4>3. QED
        BY <4>2
    <3>3. QED
      BY <2>1, <3>1, <3>2, BacklogStep
  <2>3. ASSUME NEW r \in Requests
        PROVE  /\ Pending(r)' => client'[r] = "waiting"
               /\ client'[r] = "waiting" => fut'[r] \in {"pending"} \cup Verdicts
               /\ client'[r] = "idle" => fut'[r] = "none" /\ r \notin ToSet(Backlog')
    BY <1>0, <1>a, <2>2 DEF CallersMatchFutures, Pending, Verdicts
  <2>4. QED
    BY <2>3 DEF CallersMatchFutures
<1>1. ASSUME NEW r \in Requests, Evaluate(r)  PROVE CallersMatchFutures'
  <2>1. CASE RefuseUnsupported(r) \/ RefuseNotReady(r) \/ RefuseFull(r)
    BY <1>0, <1>1, <2>1 DEF Evaluate, RefuseUnsupported, RefuseNotReady, RefuseFull,
                            CallersMatchFutures, Backlog, Pending
  <2>2. CASE Enqueue(r)
    <3>1. ToSet(Append(queue, r)) = ToSet(queue) \cup {r} /\ Append(queue, r) \in Seq(Requests)
      BY <1>0, AppendSet, AppendProperties
    <3>2. /\ ToSet(Backlog) = ToSet(jobs) \cup ToSet(queue)
          /\ ToSet(jobs \o Append(queue, r)) = ToSet(jobs) \cup ToSet(Append(queue, r))
      <4>1. jobs \in Seq(Requests) /\ queue \in Seq(Requests)
            /\ Append(queue, r) \in Seq(Requests)
        BY <1>0, <3>1
      <4>2. ToSet(jobs \o queue) = ToSet(jobs) \cup ToSet(queue)
        BY <4>1, ConcatSet
      <4>3. ToSet(jobs \o Append(queue, r)) = ToSet(jobs) \cup ToSet(Append(queue, r))
        BY <4>1, ConcatSet
      <4>4. QED
        BY <4>2, <4>3 DEF Backlog
    <3>3. ToSet(Backlog') = ToSet(Backlog) \cup {r}
      BY <1>1, <2>2, <3>1, <3>2 DEF Evaluate, Enqueue, Backlog
    <3>4. QED
      BY <1>0, <1>1, <2>2, <3>3 DEF Evaluate, Enqueue, CallersMatchFutures, Pending, Verdicts
  <2>3. QED
    BY <1>1, <2>1, <2>2 DEF Evaluate
<1>2. ASSUME NEW r \in Requests, Resume(r) \/ Deadline(r)  PROVE CallersMatchFutures'
  <2>1. Backlog' = Backlog
    BY <1>2 DEF Resume, Deadline, Backlog
  <2>2. CASE Resume(r)
    BY <1>0, <2>1, <2>2 DEF Resume, CallersMatchFutures, Pending, Verdicts
  <2>3. CASE Deadline(r)
    BY <1>0, <2>1, <2>3 DEF Deadline, CallersMatchFutures, Pending, Verdicts
  <2>4. QED
    BY <1>2, <2>2, <2>3
<1>3. CASE WorkerStep
  <2>1. client' = client
    BY <1>3 DEF WorkerStep, WorkerBegin, WorkerIdle, WorkerTake, WorkerSubmit, WorkerSkip,
                WorkerDeliver, WorkerCancelled, WorkerStillborn
  <2>2. CASE WorkerDeliver
    BY <1>a, <2>1, <2>2 DEF WorkerDeliver, VerdictOf, Verdicts
  <2>3. CASE WorkerCancelled
    BY <1>0, <1>a, <2>1, <2>3 DEF WorkerCancelled, Flush, Pending, Verdicts
  <2>4. CASE WorkerBegin \/ WorkerIdle \/ WorkerTake \/ WorkerSubmit \/ WorkerSkip
             \/ WorkerStillborn
    BY <1>a, <2>1, <2>4 DEF WorkerBegin, WorkerIdle, WorkerTake, WorkerSubmit, WorkerSkip,
                            WorkerStillborn
  <2>5. QED
    BY <1>3, <2>2, <2>3, <2>4 DEF WorkerStep
<1>4. CASE ThreadStep
  BY <1>4, <1>a DEF ThreadStep, ThreadStart, ThreadFinish
<1>5. CASE CloseDrain
  BY <1>0, <1>5, <1>a DEF CloseDrain, Flush, Pending, Verdicts
<1>6. CASE Start \/ StartUnsupported \/ Loaded \/ StartFails \/ Close \/ CloseJoined
  BY <1>6, <1>a DEF Start, StartUnsupported, Loaded, StartFails, Close, CloseJoined
<1>7. CASE Terminated \/ UNCHANGED vars
  BY <1>7, <1>a DEF Terminated, vars
<1>8. QED
  BY <1>1, <1>2, <1>3, <1>4, <1>5, <1>6, <1>7 DEF Next, ClientStep, LifeStep, CloseStep

(* No batch is given to the thread once the scheduler task is over.        *)
LEMMA ExecutorStep ==
  ASSUME IInv, [Next]_vars
  PROVE  NoBatchAfterWorker'
<1> USE DEF IInv, NoBatchAfterWorker, callerVars, workerVars, ownerVars, lifeVars
<1>1. ASSUME NEW r \in Requests, Evaluate(r) \/ Resume(r) \/ Deadline(r)
      PROVE  NoBatchAfterWorker'
  BY <1>1 DEF Evaluate, Resume, Deadline
<1>2. CASE WorkerBegin \/ WorkerIdle \/ WorkerTake \/ WorkerSubmit \/ WorkerStillborn
  BY <1>2 DEF WorkerBegin, WorkerIdle, WorkerTake, WorkerSubmit, WorkerStillborn, Collecting
<1>3. CASE WorkerSkip \/ WorkerDeliver \/ WorkerCancelled
  BY <1>3 DEF WorkerSkip, WorkerDeliver, WorkerCancelled, Collecting
<1>4. CASE ThreadStep
  BY <1>4 DEF ThreadStep, ThreadStart, ThreadFinish
<1>5. CASE LifeStep
  BY <1>5 DEF LifeStep, CloseStep, Start, StartUnsupported, Loaded, StartFails, Close,
              CloseDrain, CloseJoined
<1>6. CASE Terminated \/ UNCHANGED vars
  BY <1>6 DEF Terminated, vars
<1>7. QED
  BY <1>1, <1>2, <1>3, <1>4, <1>5, <1>6 DEF Next, ClientStep, WorkerStep
-----------------------------------------------------------------------------
(* Every step of the service, and a stutter, keeps the whole invariant.    *)
LEMMA InvStep == IInv /\ [Next]_vars => IInv'
<1> SUFFICES ASSUME IInv, [Next]_vars  PROVE IInv'
  OBVIOUS
<1>1. TypeOK /\ LifecycleCoherent
  BY DEF IInv
<1>2. LifecycleCoherent'
  BY <1>1, LifecycleStep
<1>3. TypeOK' /\ BatchBelongsToJobs' /\ CallersMatchFutures'
  BY TypeStep, BatchStep, CallerStep
<1>4. NoLostWaiter' /\ FirstComeFirstServed' /\ TasksBalanced' /\ NoBatchAfterWorker'
  BY WaiterStep, OrderStep, ExecutorStep
<1>5. QED
  BY <1>2, <1>3, <1>4 DEF IInv

(* Everything in the inductive invariant holds of every execution.         *)
THEOREM Invariance == Spec => []IInv
<1>1. QED
  BY InitInv, InvStep, PTL DEF Spec

(* The variables keep their types (DecisionScheduler.tla, TypeOK).         *)
THEOREM TypeCorrect == Spec => []TypeOK
<1>1. IInv => TypeOK
  BY DEF IInv
<1>2. QED
  BY <1>1, Invariance, PTL

(* No caller of evaluate() is forgotten, for any number of callers, any    *)
(* queue and batch size and any order of cancellations and shutdowns.      *)
THEOREM WaitersKept == Spec => []NoLostWaiter
<1>1. IInv => NoLostWaiter
  BY DEF IInv
<1>2. QED
  BY <1>1, Invariance, PTL

(* Callers and their futures agree, however they leave.                    *)
THEOREM CallersAgree == Spec => []CallersMatchFutures
<1>1. IInv => CallersMatchFutures
  BY DEF IInv
<1>2. QED
  BY <1>1, Invariance, PTL

(* ready(), closed, the executor's work item and the scheduler's batch fit *)
(* together through start(), its failures and close() (service.py:42-151). *)
THEOREM ShutdownKept == Spec => []ShutdownCoherent
<1>1. IInv => ShutdownCoherent
  BY DEF IInv, ShutdownCoherent
<1>2. QED
  BY <1>1, Invariance, PTL

(* Jobs leave in the order put_nowait accepted them.                       *)
THEOREM OrderKept == Spec => []FirstComeFirstServed
<1>1. IInv => FirstComeFirstServed
  BY DEF IInv
<1>2. QED
  BY <1>1, Invariance, PTL

(* task_done() balances put_nowait() over its three call sites.            *)
THEOREM AccountsKept == Spec => []TasksBalanced
<1>1. IInv => TasksBalanced
  BY DEF IInv
<1>2. QED
  BY <1>1, Invariance, PTL

(* However the service comes to an end, after close() has drained the      *)
(* queue no caller waits.                                                  *)
THEOREM DrainedForAll == Spec => []NobodyWaitsAfterDrain
<1>1. IInv => NobodyWaitsAfterDrain
  <2> SUFFICES ASSUME IInv, phase \in {"joining", "closed"}
               PROVE  /\ Backlog = <<>> /\ unfinished = 0
                      /\ \A r \in Requests : ~Pending(r)
    BY DEF NobodyWaitsAfterDrain
  <2>1. queue = <<>> /\ jobs = <<>>
    BY DEF IInv, LifecycleCoherent
  <2>2. Backlog = <<>> /\ Len(Backlog) = 0
    BY <2>1, EmptySeq, ConcatEmptySeq DEF Backlog
  <2>3. QED
    BY <2>2, EmptySet DEF IInv, NoLostWaiter, TasksBalanced
<1>2. QED
  BY <1>1, Invariance, PTL

(* A verdict is final: no batch result, drain or deadline that comes late  *)
(* touches a future that is done.                                          *)
THEOREM VerdictsFinal == Spec => SettledOnce
<1> DEFINE Final == \A r \in Requests : fut[r] \notin {"none", "pending"} => fut'[r] = fut[r]
<1>1. IInv /\ [Next]_vars => [Final]_vars
  <2> SUFFICES ASSUME IInv, [Next]_vars, NEW r \in Requests, fut[r] \notin {"none", "pending"}
               PROVE  fut'[r] = fut[r]
    OBVIOUS
  <2> USE DEF IInv, TypeOK, callerVars, workerVars, ownerVars, lifeVars
  <2>1. ASSUME NEW q \in Requests, Evaluate(q)  PROVE fut'[r] = fut[r]
    BY <2>1 DEF Evaluate, RefuseUnsupported, RefuseNotReady, RefuseFull, Enqueue,
                CallersMatchFutures
  <2>2. ASSUME NEW q \in Requests, Resume(q) \/ Deadline(q)  PROVE fut'[r] = fut[r]
    BY <2>2 DEF Resume, Deadline, Pending
  <2>3. CASE WorkerStep
    BY <2>3 DEF WorkerStep, WorkerBegin, WorkerIdle, WorkerTake, WorkerSubmit, WorkerSkip,
                WorkerDeliver, WorkerCancelled, WorkerStillborn, Flush, Pending
  <2>4. CASE ThreadStep
    BY <2>4 DEF ThreadStep, ThreadStart, ThreadFinish
  <2>5. CASE LifeStep
    BY <2>5 DEF LifeStep, CloseStep, Start, StartUnsupported, Loaded, StartFails, Close,
                CloseDrain, CloseJoined, Flush
  <2>6. CASE Terminated \/ UNCHANGED vars
    BY <2>6 DEF Terminated, vars
  <2>7. QED
    BY <2>1, <2>2, <2>3, <2>4, <2>5, <2>6 DEF Next, ClientStep
<1>2. QED
  BY <1>1, Invariance, PTL DEF Spec, SettledOnce

(* The model never sees a request whose caller gave up while it queued.    *)
THEOREM AbandonedSkipped == Spec => AbandonedNeverScored
<1> DEFINE Asked == \A r \in Requests : r \in batch' /\ r \notin batch => Pending(r)
<1>1. [Next]_vars => [Asked]_vars
  <2> SUFFICES ASSUME [Next]_vars, NEW r \in Requests, r \in batch', r \notin batch
               PROVE  Pending(r)
    OBVIOUS
  <2>1. CASE WorkerSubmit
    BY <2>1 DEF WorkerSubmit, Live
  <2>2. CASE ~WorkerSubmit
    <3>1. batch' \subseteq batch
      BY <2>2 DEF Next, ClientStep, Evaluate, Resume, Deadline, WorkerStep, WorkerBegin,
          WorkerIdle, WorkerTake, WorkerSkip, WorkerDeliver, WorkerCancelled, WorkerStillborn,
          ThreadStep, ThreadStart, ThreadFinish, LifeStep, CloseStep, Start, StartUnsupported,
          Loaded, StartFails, Close, CloseDrain, CloseJoined, Terminated, vars, workerVars
    <3>2. QED
      BY <3>1
  <2>3. QED
    BY <2>1, <2>2
<1>2. QED
  BY <1>1, PTL DEF Spec, AbandonedNeverScored

(* After close() has begun the scheduler submits no batch.                 *)
THEOREM QuietAfterClose == Spec => NoBatchAfterClose
<1> DEFINE Quiet == closed => (batch' = batch \/ batch' = {})
<1>1. IInv /\ [Next]_vars => [Quiet]_vars
  <2> SUFFICES ASSUME IInv, [Next]_vars, closed  PROVE batch' = batch \/ batch' = {}
    OBVIOUS
  <2>1. ~WorkerSubmit
    BY DEF IInv, TypeOK, LifecycleCoherent, Ready, LoopFree, WorkerSubmit, Collecting
  <2>2. QED
    BY <2>1 DEF Next, ClientStep, Evaluate, Resume, Deadline, WorkerStep, WorkerBegin,
        WorkerIdle, WorkerTake, WorkerSkip, WorkerDeliver, WorkerCancelled, WorkerStillborn,
        ThreadStep, ThreadStart, ThreadFinish, LifeStep, CloseStep, Start, StartUnsupported,
        Loaded, StartFails, Close, CloseDrain, CloseJoined, Terminated, vars, workerVars
<1>2. QED
  BY <1>1, Invariance, PTL DEF Spec, NoBatchAfterClose

-----------------------------------------------------------------------------
(* The service implements BoundedDecisions under the mapping of            *)
(* SchedulerRefinement: the invariant above is all this rests on.          *)

(* Both modules take ToSet from the library: it is the same operator. *)
LEMMA SameSet == \A s : Promise!ToSet(s) = ToSet(s)
BY DEF ToSet, Promise!ToSet

(* The initial states of the service are initial states of the promise. *)
LEMMA PromiseInit == Init => Promise!Init
<1> SUFFICES ASSUME Init  PROVE Promise!Init
  OBVIOUS
<1>1. Backlog = <<>>
  BY EmptySeq, ConcatEmptySeq DEF Init, Backlog
<1>2. QED
  BY <1>1 DEF Init, Promise!Init, Mode

(* The mode the callers see follows the phase. *)
LEMMA ModeOfPhase ==
  ASSUME TypeOK, LifecycleCoherent
  PROVE  /\ phase \in {"new", "loading"} => Mode = "starting"
         /\ phase = "serving" => Mode = "open"
         /\ phase \in {"stopping", "joining", "closed"} => Mode = "stopped"
BY DEF TypeOK, LifecycleCoherent, Ready, Mode

(* put_nowait: there is room for one more, whatever the worker holds. *)
LEMMA EnqueueAccepts ==
  ASSUME IInv, NEW r \in Requests, Evaluate(r), Enqueue(r)
  PROVE  Promise!Accept(r)
<1> USE DEF IInv, TypeOK
<1>1. jobs \in Seq(Requests) /\ queue \in Seq(Requests) /\ <<r>> \in Seq(Requests)
  BY AppendIsConcat
<1>2. Backlog \in Seq(Requests) /\ Len(Backlog) = Len(jobs) + Len(queue)
      /\ Len(jobs) \in Nat /\ Len(queue) \in Nat
  BY <1>1, ConcatProperties, LenProperties DEF Backlog
<1>3. Len(Backlog) < MaxRequests + BatchRequests
  BY <1>2, BoundsAssumption DEF Enqueue, BatchBelongsToJobs
<1>4. Backlog' = Append(Backlog, r)
  <2>1. Append(queue, r) = queue \o <<r>>
    BY <1>1, AppendIsConcat
  <2>2. Append(Backlog, r) = Backlog \o <<r>>
    BY <1>2, AppendIsConcat
  <2>3. (jobs \o queue) \o <<r>> = jobs \o (queue \o <<r>>)
    BY <1>1, Associative
  <2>4. jobs' = jobs /\ queue' = Append(queue, r)
    BY DEF Enqueue, Evaluate, workerVars
  <2>5. Backlog' = jobs \o Append(queue, r)
    BY <2>4 DEF Backlog
  <2>6. QED
    BY <2>1, <2>2, <2>3, <2>5 DEF Backlog
<1>5. fut[r] = "none"
  BY DEF Evaluate, CallersMatchFutures
<1>6. Mode = "open" /\ Mode' = Mode
  BY DEF Evaluate, Enqueue, Ready, Mode, lifeVars
<1>7. QED
  BY <1>3, <1>4, <1>5, <1>6 DEF Enqueue, Promise!Accept

(* A batch that came back settles the jobs in hand, which are the oldest: *)
(* either all of them are scored or the batch failed.                      *)
LEMMA DeliverSettles ==
  ASSUME IInv, WorkerDeliver
  PROVE  \E k \in 1..BatchRequests : Promise!SettleOldest(k)
<1> USE DEF IInv, TypeOK
<1> DEFINE k == Len(jobs)
<1>1. jobs \in Seq(Requests) /\ queue \in Seq(Requests)
  OBVIOUS
<1>2. k \in 1..BatchRequests
  <2>1. jobs # <<>>
    BY EmptySet DEF WorkerDeliver, BatchBelongsToJobs
  <2>2. QED
    BY <1>1, <2>1, LenProperties, EmptySeq, BoundsAssumption DEF BatchBelongsToJobs
<1>3. Mode = "open" /\ Mode' = Mode
  <2>1. phase = "serving"
    BY DEF WorkerDeliver, LifecycleCoherent
  <2>2. QED
    BY <2>1, ModeOfPhase DEF WorkerDeliver, Mode, lifeVars
<1>4. /\ SubSeq(Backlog, 1, k) = jobs
      /\ SubSeq(Backlog, k + 1, Len(Backlog)) = queue
      /\ k <= Len(Backlog)
  BY <1>1, TakeApart DEF Backlog
<1>5. Backlog' = queue
  BY <1>1, ConcatEmptySeq DEF WorkerDeliver, Backlog
<1>6. PICK v \in {Promise!WellFormed("answer"), Promise!WellFormed("engine_error"),
                  Promise!Everybody("engine_error")} : \A r \in Requests : v[r] = VerdictOf(r)
  <2>1. CASE outcome = "raised"
    BY <2>1 DEF VerdictOf, Promise!Everybody
  <2>2. CASE outcome = "failed"
    BY <2>2 DEF VerdictOf, Promise!WellFormed
  <2>3. CASE outcome = "scored"
    BY <2>3 DEF VerdictOf, Promise!WellFormed
  <2>4. QED
    BY <2>1, <2>2, <2>3 DEF Outcomes
<1>7. Promise!Settle(ToSet(jobs), v)
  <2>1. /\ batch \subseteq ToSet(jobs)
        /\ \A r \in ToSet(jobs) : Pending(r) => r \in batch
    BY DEF WorkerDeliver, BatchBelongsToJobs
  <2>2. fut' = [r \in Requests |-> IF r \in batch /\ Pending(r) THEN VerdictOf(r) ELSE fut[r]]
    BY DEF WorkerDeliver, SetResults
  <2>3. QED
    BY <1>6, <2>1, <2>2 DEF Pending, Promise!Settle
<1>8. Promise!SettleOldest(k)
  BY <1>3, <1>4, <1>5, <1>6, <1>7, SameSet DEF Promise!SettleOldest
<1>9. QED
  BY <1>2, <1>8

(* Jobs nobody waits for any more leave the backlog without a verdict. *)
LEMMA SkipSettlesNobody ==
  ASSUME IInv, WorkerSkip
  PROVE  (\E k \in 1..BatchRequests : Promise!SettleOldest(k)) \/ UNCHANGED Promise!vars
<1> USE DEF IInv, TypeOK
<1> DEFINE k    == Len(Collected)
           rest == SubSeq(queue, Extra + 1, Len(queue))
<1>1. /\ Collected \in Seq(Requests) /\ rest \in Seq(Requests)
      /\ Collected \o rest = Backlog /\ k <= BatchRequests /\ k \in Nat
  BY CollectFacts, LenProperties DEF BatchBelongsToJobs
<1>2. Backlog' = rest
  BY <1>1, ConcatEmptySeq DEF WorkerSkip, Backlog
<1>3. Mode = "open" /\ Mode' = Mode
  <2>1. phase = "serving"
    BY DEF WorkerSkip, Collecting, LifecycleCoherent, LoopFree
  <2>2. QED
    BY <2>1, ModeOfPhase DEF WorkerSkip, Mode, lifeVars
<1>4. fut' = fut /\ \A r \in ToSet(Collected) : fut[r] # "pending"
  BY DEF WorkerSkip, Live, Pending
<1> HIDE DEF rest
<1>5. /\ SubSeq(Backlog, 1, k) = Collected
      /\ SubSeq(Backlog, k + 1, Len(Backlog)) = rest
      /\ k <= Len(Backlog)
  <2>1. Collected \in Seq(Requests) /\ rest \in Seq(Requests)
    BY <1>1
  <2>2. /\ SubSeq(Collected \o rest, 1, k) = Collected
        /\ SubSeq(Collected \o rest, k + 1, Len(Collected \o rest)) = rest
        /\ k <= Len(Collected \o rest)
    BY <2>1, TakeApart
  <2>3. QED
    BY <1>1, <2>2
<1>6. CASE k = 0
  <2>1. Collected = <<>>
    BY <1>1, <1>6, EmptySeq
  <2>2. Backlog = rest
    BY <1>1, <2>1, ConcatEmptySeq
  <2>3. QED
    BY <1>2, <1>3, <1>4, <2>2 DEF Promise!vars
<1>7. CASE k # 0
  <2>1. k \in 1..BatchRequests
    BY <1>1, <1>7, BoundsAssumption
  <2>2. Promise!Settle(ToSet(Collected), Promise!WellFormed("answer"))
    BY <1>4 DEF Promise!Settle
  <2>3. Promise!SettleOldest(k)
    BY <1>2, <1>3, <1>5, <2>2, SameSet DEF Promise!SettleOldest
  <2>4. QED
    BY <2>1, <2>3
<1>8. QED
  BY <1>6, <1>7

(* The worker's finally clause and close() dismiss whoever still waits. *)
LEMMA DrainDismisses ==
  ASSUME IInv, WorkerCancelled \/ CloseDrain
  PROVE  Promise!Dismiss \/ UNCHANGED Promise!vars
<1> USE DEF IInv, TypeOK
<1>1. Mode = "stopped" /\ Mode' = Mode
  <2>1. phase \in {"stopping", "joining", "closed"}
    BY DEF WorkerCancelled, CloseDrain, LifecycleCoherent
  <2>2. QED
    BY <2>1, ModeOfPhase DEF WorkerCancelled, CloseDrain, Mode, lifeVars
<1>2. Backlog' = <<>>
  <2>1. jobs' = <<>> /\ queue' = <<>>
    BY DEF WorkerCancelled, CloseDrain, LifecycleCoherent, workerVars
  <2>2. QED
    BY <2>1, EmptySeq, ConcatEmptySeq DEF Backlog
<1>3. ToSet(Backlog) = ToSet(jobs) \cup ToSet(queue)
  BY ConcatSet DEF Backlog
<1>4. fut' = Flush(fut, ToSet(Backlog), "engine_unavailable")
  <2>1. CASE WorkerCancelled
    BY <1>3, <2>1 DEF WorkerCancelled
  <2>2. CASE CloseDrain
    <3>1. jobs = <<>>
      BY <2>2 DEF CloseDrain, LifecycleCoherent
    <3>2. ToSet(Backlog) = ToSet(queue)
      BY <1>3, <3>1, EmptySet
    <3>3. QED
      BY <2>2, <3>2 DEF CloseDrain
  <2>3. QED
    BY <2>1, <2>2
<1>5. CASE Backlog = <<>>
  <2>1. fut' = fut
    BY <1>4, <1>5, EmptySet DEF Flush
  <2>2. QED
    BY <1>1, <1>2, <1>5, <2>1 DEF Promise!vars
<1>6. CASE Backlog # <<>>
  <2>1. Promise!Settle(ToSet(Backlog), Promise!Everybody("engine_unavailable"))
    BY <1>4 DEF Flush, Promise!Settle, Promise!Everybody, Pending
  <2>2. QED
    BY <1>1, <1>2, <1>6, <2>1, SameSet DEF Promise!Dismiss
<1>7. QED
  BY <1>5, <1>6

(* Every step of the service is a step of the promise or invisible to it. *)
LEMMA PromiseStep ==
  ASSUME IInv, [Next]_vars
  PROVE  Promise!Next \/ UNCHANGED Promise!vars
<1> DEFINE Goal == Promise!Next \/ UNCHANGED Promise!vars
<1> USE DEF callerVars, workerVars, ownerVars, lifeVars
<1>0. TypeOK /\ LifecycleCoherent
  BY DEF IInv
<1>1. ASSUME NEW r \in Requests, Evaluate(r)  PROVE Goal
  <2>1. CASE Enqueue(r)
    BY <1>1, <2>1, EnqueueAccepts DEF Promise!Next
  <2>2. CASE ~Enqueue(r)
    BY <1>1, <2>2 DEF Evaluate, RefuseUnsupported, RefuseNotReady, RefuseFull,
                      Backlog, Mode, Promise!vars
  <2>3. QED
    BY <2>1, <2>2
<1>2. ASSUME NEW r \in Requests, Resume(r)  PROVE Goal
  BY <1>2 DEF Resume, Backlog, Mode, Promise!vars
<1>3. ASSUME NEW r \in Requests, Deadline(r)  PROVE Goal
  <2>1. Backlog' = Backlog /\ Mode' = Mode
    BY <1>3 DEF Deadline, Backlog, Mode
  <2>2. CASE Pending(r)
    BY <1>3, <2>1, <2>2 DEF Deadline, Pending, Promise!Abandon, Promise!Next
  <2>3. CASE ~Pending(r)
    <3>1. fut' = fut
      BY <1>0, <1>3, <2>3 DEF Deadline, TypeOK
    <3>2. QED
      BY <2>1, <3>1 DEF Promise!vars
  <2>4. QED
    BY <2>2, <2>3
<1>4. CASE WorkerTake
  <2>1. Backlog' = Backlog
    <3>1. jobs = <<>>
      BY <1>0, <1>4 DEF WorkerTake, LifecycleCoherent
    <3>2. <<Head(queue)>> \o Tail(queue) = Backlog
      BY <1>0, <1>4, <3>1, TakeFacts DEF WorkerTake, HasJob
    <3>3. QED
      BY <1>4, <3>2 DEF WorkerTake, Backlog
  <2>2. QED
    BY <1>4, <2>1 DEF WorkerTake, Mode, Promise!vars
<1>5. CASE WorkerSubmit
  <2>1. Backlog' = Backlog
    <3>1. Collected \o SubSeq(queue, Extra + 1, Len(queue)) = Backlog
      BY CollectFacts DEF IInv, BatchBelongsToJobs
    <3>2. QED
      BY <1>5, <3>1 DEF WorkerSubmit, Backlog
  <2>2. QED
    BY <1>5, <2>1 DEF WorkerSubmit, Mode, Promise!vars
<1>6. CASE WorkerDeliver
  BY <1>6, DeliverSettles DEF Promise!Next, Promise!Progress
<1>7. CASE WorkerSkip
  BY <1>7, SkipSettlesNobody DEF Promise!Next, Promise!Progress
<1>8. CASE WorkerCancelled \/ CloseDrain
  BY <1>8, DrainDismisses DEF Promise!Next, Promise!Progress
<1>9. CASE WorkerBegin \/ WorkerIdle \/ WorkerStillborn \/ ThreadStep \/ Start
  BY <1>9 DEF WorkerBegin, WorkerIdle, WorkerStillborn, ThreadStep, ThreadStart, ThreadFinish,
              Start, Backlog, Mode, Promise!vars
<1>10. CASE Loaded
  <2>1. Mode = "starting" /\ Mode' = "open"
    BY <1>0, <1>10, ModeOfPhase DEF Loaded, LifecycleCoherent, Mode
  <2>2. QED
    BY <1>10, <2>1 DEF Loaded, Backlog, Promise!Open, Promise!Next
<1>11. CASE StartUnsupported \/ StartFails \/ Close
  <2>1. Mode # "stopped" /\ Mode' = "stopped"
    BY <1>0, <1>11, ModeOfPhase DEF StartUnsupported, StartFails, Close, Mode
  <2>2. QED
    BY <1>11, <2>1 DEF StartUnsupported, StartFails, Close, Backlog, Promise!Stop, Promise!Next
<1>12. CASE CloseJoined
  <2>1. Mode = "stopped" /\ Mode' = "stopped"
    BY <1>0, <1>12, ModeOfPhase DEF CloseJoined, LifecycleCoherent, Mode
  <2>2. QED
    BY <1>12, <2>1 DEF CloseJoined, Backlog, Promise!vars
<1>13. CASE Terminated \/ UNCHANGED vars
  BY <1>13 DEF Terminated, vars, Backlog, Mode, Promise!vars
<1>14. QED
  BY <1>1, <1>2, <1>3, <1>4, <1>5, <1>6, <1>7, <1>8, <1>9, <1>10, <1>11, <1>12, <1>13
     DEF Next, ClientStep, WorkerStep, LifeStep, CloseStep

(* DirectDecisionService keeps what BoundedDecisions promises: a bounded   *)
(* first-come first-served backlog whose oldest part is settled at a time, *)
(* once, whole, and nothing but "unavailable" after the service stopped.   *)
THEOREM Refinement == Spec => KeepsPromise
<1>1. IInv /\ [Next]_vars => [Promise!Next]_Promise!vars
  BY PromiseStep
<1>2. QED
  BY <1>1, PromiseInit, Invariance, PTL DEF Spec, KeepsPromise, Promise!Spec
-----------------------------------------------------------------------------
(* The server. *)

GatewayFacts == INSTANCE BoundaryProofs WITH Calls <- Requests, Limited <- Requests

-----------------------------------------------------------------------------
(* Each part of the server runs as its own specification says. *)

GatewayNames ==
  /\ \A c \in Requests : Gateway!Gate(c) => GatewayFacts!Gate(c)
  /\ \A c \in Requests : Gateway!AppEnds(c, 200) => GatewayFacts!AppEnds(c, 200)
  /\ \A c \in Requests : Gateway!AppEnds(c, 500) => GatewayFacts!AppEnds(c, 500)
  /\ UNCHANGED Gateway!bvars => UNCHANGED GatewayFacts!bvars
  /\ Gateway!BoundaryInit => GatewayFacts!BoundaryInit

(* Both instances of Boundary mean the same. *)
LEMMA SameGateway == GatewayNames
<1> USE DEF Gateway!Goto, Gateway!Start, Gateway!Reject, Gateway!Release,
            GatewayFacts!Goto, GatewayFacts!Start, GatewayFacts!Reject, GatewayFacts!Release
<1>1. \A c \in Requests : Gateway!Gate(c) => GatewayFacts!Gate(c)
  BY DEF Gateway!Gate, Gateway!Unauthorized, Gateway!PassThrough, Gateway!Overloaded,
         Gateway!Admit, Gateway!HasPlace, Gateway!TooLarge, Gateway!BodyTimeout, Gateway!Timed,
         Gateway!BodyComplete, Gateway!Disconnect, Gateway!Rejected, Gateway!Torn,
         GatewayFacts!Gate, GatewayFacts!Unauthorized, GatewayFacts!PassThrough,
         GatewayFacts!Overloaded, GatewayFacts!Admit, GatewayFacts!HasPlace,
         GatewayFacts!TooLarge, GatewayFacts!BodyTimeout, GatewayFacts!Timed,
         GatewayFacts!BodyComplete, GatewayFacts!Disconnect, GatewayFacts!Rejected,
         GatewayFacts!Torn
<1>2. \A c \in Requests, code \in {200, 500} :
        Gateway!AppEnds(c, code) => GatewayFacts!AppEnds(c, code)
  BY DEF Gateway!AppEnds, GatewayFacts!AppEnds
<1>3. /\ UNCHANGED Gateway!bvars => UNCHANGED GatewayFacts!bvars
      /\ Gateway!BoundaryInit => GatewayFacts!BoundaryInit
  BY DEF Gateway!bvars, GatewayFacts!bvars, Gateway!BoundaryInit, GatewayFacts!BoundaryInit
<1>4. QED
  BY <1>1, <1>2, <1>3 DEF GatewayNames

(* A step of the server is one of the scheduler's or leaves it alone. *)
LEMMA SchedulerPart == [ServerNext]_serverVars => [Next]_vars
<1> SUFFICES ASSUME [ServerNext]_serverVars  PROVE [Next]_vars
  OBVIOUS
<1>1. ASSUME NEW r \in Requests, GateStep(r) \/ InvalidBody(r) \/ Respond(r)
      PROVE  UNCHANGED vars
  BY <1>1 DEF GateStep, InvalidBody, Respond
<1>2. ASSUME NEW r \in Requests, Call(r) \/ Inner(Resume(r)) \/ Inner(Deadline(r))
      PROVE  Next
  BY <1>2 DEF Call, Inner, Next, ClientStep
<1>3. CASE Inner(WorkerStep) \/ Inner(ThreadStep) \/ Inner(LifeStep)
  BY <1>3 DEF Inner, Next
<1>4. CASE ServerTerminated \/ UNCHANGED serverVars
  BY <1>4 DEF ServerTerminated, serverVars
<1>5. QED
  BY <1>1, <1>2, <1>3, <1>4 DEF ServerNext

(* A step of the server is one of the middleware's or leaves it alone. *)
LEMMA GatewayPart == [ServerNext]_serverVars => [Gateway!BoundaryNext]_Gateway!bvars
<1> SUFFICES ASSUME [ServerNext]_serverVars
             PROVE  Gateway!BoundaryNext \/ UNCHANGED Gateway!bvars
  OBVIOUS
<1>1. ASSUME NEW r \in Requests, GateStep(r)  PROVE Gateway!BoundaryNext
  BY <1>1 DEF GateStep, Gateway!BoundaryNext
<1>2. ASSUME NEW r \in Requests, InvalidBody(r) \/ Respond(r)  PROVE Gateway!BoundaryNext
  <2>1. Gateway!AppEnds(r, 200) \/ Gateway!AppEnds(r, 500)
    BY <1>2 DEF InvalidBody, Respond
  <2>2. QED
    BY <2>1 DEF Gateway!BoundaryNext
<1>3. ASSUME NEW r \in Requests, Call(r) \/ Inner(Resume(r)) \/ Inner(Deadline(r))
      PROVE  UNCHANGED Gateway!bvars
  BY <1>3 DEF Call, Inner, gateVars, Gateway!bvars
<1>4. CASE \/ Inner(WorkerStep) \/ Inner(ThreadStep) \/ Inner(LifeStep)
           \/ ServerTerminated \/ UNCHANGED serverVars
  BY <1>4 DEF Inner, ServerTerminated, serverVars, gateVars, Gateway!bvars
<1>5. QED
  BY <1>1, <1>2, <1>3, <1>4 DEF ServerNext

(* The composition implements the scheduler and the middleware: nothing    *)
(* that was proved of either alone is lost when they run together.         *)
THEOREM ServerImplementsParts == ServerSpec => Spec /\ Gateway!BoundarySpec
<1>1. ServerInit => Init /\ Gateway!BoundaryInit
  BY DEF ServerInit
<1>2. QED
  BY <1>1, SchedulerPart, GatewayPart, PTL DEF ServerSpec, Spec, Gateway!BoundarySpec

-----------------------------------------------------------------------------
(* The inductive invariant. *)

(* Who waits for a verdict is in the application, nobody calls evaluate()  *)
(* before the middleware lets him through, and only with a place.          *)
Linked ==
  \A r \in Requests :
    /\ client[r] = "waiting" => stage[r] = "app"
    /\ stage[r] \notin {"app", "done"} => client[r] = "idle"
    /\ stage[r] \in {"reading", "refusing body", "app"} => r \in admitted

(* No job is in the backlog twice, or with a future that has a verdict. *)
BacklogOpen ==
  /\ IsInjective(Backlog)
  /\ \A q \in ToSet(Backlog) : fut[q] \in {"pending", "cancelled"}

GateInv   == GatewayFacts!IInv
ServerInv == IInv /\ GateInv /\ Linked /\ BacklogOpen

(* What the facts about the middleware ask of its constants. *)
LEMMA GatewayAssumptions ==
  /\ MaxRequests \in Nat \ {0}
  /\ Requests \subseteq Requests /\ GatewayFacts!IsFiniteSet(Requests)
BY BoundsAssumption, FinitelyManyAssumption DEF GatewayFacts!IsFiniteSet, IsFiniteSet

(* The server starts in the invariant. *)
LEMMA ServerInvInit == ServerInit => ServerInv
<1> SUFFICES ASSUME ServerInit  PROVE ServerInv
  OBVIOUS
<1>1. IInv
  BY InitInv DEF ServerInit
<1>2. GateInv
  BY SameGateway, GatewayAssumptions, GatewayFacts!InitInv DEF ServerInit, GatewayNames, GateInv
<1>3. Linked
  BY DEF ServerInit, Init, Gateway!BoundaryInit, Linked
<1>4. BacklogOpen
  <2>1. Backlog = <<>>
    BY EmptySeq, ConcatEmptySeq DEF ServerInit, Init, Backlog
  <2>2. DOMAIN Backlog = {}
    BY <2>1
  <2>3. QED
    BY <2>1, <2>2, EmptySet DEF BacklogOpen, IsInjective
<1>5. QED
  BY <1>1, <1>2, <1>3, <1>4 DEF ServerInv

(* The middleware's invariant survives the composition. *)
LEMMA GateInvStep ==
  ASSUME GateInv, [ServerNext]_serverVars
  PROVE  GateInv'
<1>1. [Gateway!BoundaryNext]_Gateway!bvars
  BY GatewayPart
<1>2. ASSUME NEW r \in Requests, Gateway!Gate(r)  PROVE GateInv'
  <2>1. GatewayFacts!Gate(r)
    BY <1>2, SameGateway DEF GatewayNames
  <2>2. QED
    BY <2>1, GatewayAssumptions, GatewayFacts!GateStep DEF GateInv
<1>3. ASSUME NEW r \in Requests, Gateway!AppEnds(r, 200) \/ Gateway!AppEnds(r, 500)
      PROVE  GateInv'
  <2>1. GatewayFacts!AppEnds(r, 200) \/ GatewayFacts!AppEnds(r, 500)
    BY <1>3, SameGateway DEF GatewayNames
  <2>2. [GatewayFacts!BoundaryNext]_GatewayFacts!bvars
    BY <2>1 DEF GatewayFacts!BoundaryNext
  <2>3. QED
    BY <2>2, GatewayAssumptions, GatewayFacts!InvStep DEF GateInv
<1>4. CASE UNCHANGED Gateway!bvars
  <2>1. [GatewayFacts!BoundaryNext]_GatewayFacts!bvars
    BY <1>4, SameGateway DEF GatewayNames
  <2>2. QED
    BY <2>1, GatewayAssumptions, GatewayFacts!InvStep DEF GateInv
<1>5. QED
  BY <1>1, <1>2, <1>3, <1>4 DEF Gateway!BoundaryNext, Gateway!AllDone

(* What a step of the middleware does to one call. *)
LEMMA GateMoves ==
  ASSUME GateInv, NEW r \in Requests, Gateway!Gate(r)
  PROVE  /\ stage[r] \notin {"app", "done"}
         /\ stage' = [stage EXCEPT ![r] = stage'[r]] /\ stage'[r] # "new"
         /\ admitted \subseteq admitted'
         /\ stage'[r] \in {"reading", "refusing body", "app"} =>
              r \in admitted' \/ stage[r] \in {"reading", "refusing body", "app"}
BY DEF GateInv, GatewayFacts!IInv, GatewayFacts!Shape, Gateway!Gate, Gateway!Unauthorized,
       Gateway!PassThrough, Gateway!Overloaded, Gateway!Admit, Gateway!TooLarge,
       Gateway!BodyTimeout, Gateway!Timed, Gateway!BodyComplete, Gateway!Disconnect,
       Gateway!Rejected, Gateway!Torn, Gateway!Goto, Gateway!Reject

(* Callers stay linked to their places. *)
LEMMA LinkedStep ==
  ASSUME ServerInv, [ServerNext]_serverVars
  PROVE  Linked'
<1> USE DEF ServerInv, callerVars, workerVars, ownerVars, lifeVars
<1>0. /\ stage \in [Requests -> {"new", "rejecting", "reading", "refusing body", "app", "done"}]
      /\ client \in [Requests -> {"idle", "waiting", "request_timeout"}
                                   \cup Verdicts \cup Refusals]
      /\ fut \in [Requests -> {"none", "pending", "cancelled"} \cup Verdicts]
  BY DEF GateInv, GatewayFacts!IInv, GatewayFacts!Shape, GatewayFacts!Stages, IInv, TypeOK
<1>1. ASSUME NEW r \in Requests, GateStep(r)  PROVE Linked'
  <2>1. client' = client
    BY <1>1 DEF GateStep, vars
  <2>2. QED
    BY <1>0, <1>1, <2>1, GateMoves DEF GateStep, Linked
<1>2. ASSUME NEW r \in Requests, InvalidBody(r) \/ Respond(r)  PROVE Linked'
  <2>1. /\ client' = client /\ client[r] # "waiting"
        /\ stage' = [stage EXCEPT ![r] = "done"] /\ admitted' = admitted
    BY <1>2 DEF InvalidBody, Respond, vars, Gateway!AppEnds, Gateway!Goto
  <2>2. QED
    BY <1>0, <2>1 DEF Linked
<1>3. ASSUME NEW r \in Requests, Call(r) \/ Inner(Resume(r)) \/ Inner(Deadline(r))
      PROVE  Linked'
  <2>1. stage[r] = "app" /\ stage' = stage /\ admitted' = admitted
    BY <1>3 DEF Call, Inner, Resume, Deadline, gateVars, Linked
  <2>2. client' = [client EXCEPT ![r] = client'[r]]
    BY <1>0, <1>3 DEF Call, Evaluate, RefuseUnsupported, RefuseNotReady, RefuseFull, Enqueue,
                      Inner, Resume, Deadline
  <2>3. QED
    BY <1>0, <2>1, <2>2 DEF Linked
<1>4. CASE Inner(WorkerStep) \/ Inner(ThreadStep) \/ Inner(LifeStep)
  <2>1. client' = client
    <3>1. CASE WorkerStep
      BY <3>1 DEF WorkerStep, WorkerBegin, WorkerIdle, WorkerTake, WorkerSubmit, WorkerSkip,
                  WorkerDeliver, WorkerCancelled, WorkerStillborn
    <3>2. CASE ThreadStep \/ LifeStep
      BY <3>2 DEF ThreadStep, ThreadStart, ThreadFinish, LifeStep, CloseStep, Start,
                  StartUnsupported, Loaded, StartFails, Close, CloseDrain, CloseJoined
    <3>3. QED
      BY <1>4, <3>1, <3>2 DEF Inner
  <2>2. stage' = stage /\ admitted' = admitted
    BY <1>4 DEF Inner, gateVars
  <2>3. QED
    BY <2>1, <2>2 DEF Linked
<1>5. CASE ServerTerminated \/ UNCHANGED serverVars
  BY <1>5 DEF ServerTerminated, serverVars, vars, gateVars, Linked
<1>6. QED
  BY <1>1, <1>2, <1>3, <1>4, <1>5 DEF ServerNext

(* The backlog never holds a job twice. *)
LEMMA DistinctStep ==
  ASSUME IInv, BacklogOpen, [Next]_vars
  PROVE  IsInjective(Backlog')
<1>0. Backlog \in Seq(Requests) /\ IsInjective(Backlog)
  BY ConcatProperties DEF IInv, TypeOK, Backlog, BacklogOpen
<1>1. CASE BacklogKept
  BY <1>0, <1>1 DEF BacklogKept
<1>2. CASE BacklogGrows
  <2>1. PICK r \in Requests : client[r] = "idle" /\ Backlog' = Append(Backlog, r)
    BY <1>2 DEF BacklogGrows
  <2>2. r \notin ToSet(Backlog)
    BY <2>1 DEF IInv, CallersMatchFutures
  <2>3. QED
    BY <1>0, <2>1, <2>2, DistinctAppend
<1>3. CASE BacklogShrinks
  <2>1. PICK done \in Seq(Requests) : Backlog' \in Seq(Requests) /\ Backlog = done \o Backlog'
    BY <1>3 DEF BacklogShrinks
  <2>2. IsInjective(done \o Backlog')
    BY <1>0, <2>1
  <2>3. QED
    BY <2>1, <2>2, DistinctParts
<1>4. QED
  BY <1>1, <1>2, <1>3, BacklogStep

(* A job whose future gets a verdict leaves the backlog with it. *)
LEMMA BacklogOpenStep ==
  ASSUME IInv, BacklogOpen, [Next]_vars
  PROVE  BacklogOpen'
<1> DEFINE Open == \A q \in ToSet(Backlog') : fut'[q] \in {"pending", "cancelled"}
<1> USE DEF callerVars, workerVars, ownerVars, lifeVars
<1>0. /\ TypeOK /\ queue \in Seq(Requests) /\ jobs \in Seq(Requests)
      /\ fut \in [Requests -> {"none", "pending", "cancelled"} \cup Verdicts]
      /\ ToSet(Backlog) = ToSet(jobs) \cup ToSet(queue)
      /\ ToSet(Backlog) \subseteq Requests
  BY ConcatSet, SetOfSeq DEF IInv, TypeOK, Backlog
<1>1. \A q \in ToSet(Backlog) : fut[q] \in {"pending", "cancelled"}
  BY DEF BacklogOpen
(* Which is so whenever nothing is added and what is touched was open, or  *)
(* not in the backlog any more.                                            *)
<1>a. ASSUME ToSet(Backlog') \subseteq ToSet(Backlog),
             \A q \in ToSet(Backlog') : fut'[q] \in {fut[q], "cancelled"}
      PROVE  Open
  BY <1>1, <1>a
<1> SUFFICES Open
  BY DistinctStep DEF BacklogOpen
<1>2. ASSUME NEW r \in Requests, Evaluate(r)  PROVE Open
  <2>1. CASE Enqueue(r)
    <3>1. ToSet(queue') = ToSet(queue) \cup {r} /\ queue' \in Seq(Requests)
      BY <1>0, <2>1, AppendSet, AppendProperties DEF Enqueue
    <3>2. ToSet(Backlog') = ToSet(jobs) \cup ToSet(queue')
      <4>1. jobs' = jobs
        BY <1>2 DEF Evaluate
      <4>2. ToSet(jobs \o queue') = ToSet(jobs) \cup ToSet(queue')
        BY <1>0, <3>1, ConcatSet
      <4>3. QED
        BY <4>1, <4>2 DEF Backlog
    <3>3. fut' = [fut EXCEPT ![r] = "pending"]
      BY <2>1 DEF Enqueue
    <3>4. QED
      BY <1>0, <1>1, <3>1, <3>2, <3>3
  <2>2. CASE ~Enqueue(r)
    <3>1. Backlog' = Backlog /\ fut' = fut
      BY <1>2, <2>2 DEF Evaluate, RefuseUnsupported, RefuseNotReady, RefuseFull, Backlog
    <3>2. QED
      BY <1>1, <3>1
  <2>3. QED
    BY <2>1, <2>2
<1>3. ASSUME NEW r \in Requests, Resume(r) \/ Deadline(r)  PROVE Open
  <2>1. Backlog' = Backlog
    BY <1>3 DEF Resume, Deadline, Backlog
  <2>2. \A q \in Requests : fut'[q] \in {fut[q], "cancelled"}
    BY <1>0, <1>3 DEF Resume, Deadline
  <2>3. QED
    BY <1>0, <1>a, <2>1, <2>2
<1>4. CASE WorkerTake \/ WorkerSubmit \/ WorkerSkip
  <2>1. fut' = fut
    BY <1>4 DEF WorkerTake, WorkerSubmit, WorkerSkip
  <2>2. ~BacklogGrows
    <3>1. \A r \in Requests : client[r] = "idle" => fut[r] = "none"
      BY DEF IInv, CallersMatchFutures
    <3>2. QED
      BY <1>0, <2>1, <3>1 DEF BacklogGrows
  <2>3. ToSet(Backlog') \subseteq ToSet(Backlog)
    <3>1. CASE BacklogKept
      BY <3>1 DEF BacklogKept
    <3>2. CASE BacklogShrinks
      <4>1. PICK done \in Seq(Requests) : Backlog' \in Seq(Requests) /\ Backlog = done \o Backlog'
        BY <3>2 DEF BacklogShrinks
      <4>2. ToSet(done \o Backlog') = ToSet(done) \cup ToSet(Backlog')
        BY <4>1, ConcatSet
      <4>3. QED
        BY <4>1, <4>2
    <3>3. QED
      BY <2>2, <3>1, <3>2, BacklogStep
  <2>4. QED
    BY <1>a, <2>1, <2>3
<1>5. CASE WorkerDeliver
  <2>1. Backlog' = queue
    BY <1>0, <1>5, ConcatEmptySeq DEF WorkerDeliver, Backlog
  <2>2. ToSet(jobs) \cap ToSet(queue) = {}
    <3>1. IsInjective(jobs \o queue)
      BY DEF BacklogOpen, Backlog
    <3>2. QED
      BY <1>0, <3>1, DistinctParts
  <2>3. batch \subseteq ToSet(jobs)
    BY <1>5 DEF WorkerDeliver, IInv, BatchBelongsToJobs
  <2>4. \A q \in Requests \ batch : fut'[q] = fut[q]
    BY <1>5 DEF WorkerDeliver
  <2>5. QED
    BY <1>0, <1>a, <2>1, <2>2, <2>3, <2>4
<1>6. CASE WorkerCancelled \/ CloseDrain
  <2>1. jobs' = <<>> /\ queue' = <<>>
    BY <1>6 DEF WorkerCancelled, CloseDrain, IInv, LifecycleCoherent
  <2>2. Backlog' = <<>>
    BY <2>1, EmptySeq, ConcatEmptySeq DEF Backlog
  <2>3. QED
    BY <2>2, EmptySet
<1>7. CASE ThreadStep \/ WorkerBegin \/ WorkerIdle \/ WorkerStillborn
  <2>1. Backlog' = Backlog /\ fut' = fut
    BY <1>7 DEF ThreadStep, ThreadStart, ThreadFinish, WorkerBegin, WorkerIdle,
                WorkerStillborn, Backlog
  <2>2. QED
    BY <1>1, <2>1
<1>8. CASE Start \/ StartUnsupported \/ Loaded \/ StartFails \/ Close \/ CloseJoined
  <2>1. Backlog' = Backlog /\ fut' = fut
    BY <1>8 DEF Start, StartUnsupported, Loaded, StartFails, Close, CloseJoined, Backlog
  <2>2. QED
    BY <1>1, <2>1
<1>9. CASE Terminated \/ UNCHANGED vars
  <2>1. Backlog' = Backlog /\ fut' = fut
    BY <1>9 DEF Terminated, vars, Backlog
  <2>2. QED
    BY <1>1, <2>1
<1>10. QED
  BY <1>2, <1>3, <1>4, <1>5, <1>6, <1>7, <1>8, <1>9
     DEF Next, ClientStep, WorkerStep, LifeStep, CloseStep
-----------------------------------------------------------------------------
(* The linked invariant is inductive. *)
LEMMA ServerInvStep == ServerInv /\ [ServerNext]_serverVars => ServerInv'
<1> SUFFICES ASSUME ServerInv, [ServerNext]_serverVars  PROVE ServerInv'
  OBVIOUS
<1>1. [Next]_vars
  BY SchedulerPart
<1>2. IInv' /\ BacklogOpen'
  BY <1>1, InvStep, BacklogOpenStep DEF ServerInv
<1>3. GateInv' /\ Linked'
  BY GateInvStep, LinkedStep DEF ServerInv
<1>4. QED
  BY <1>2, <1>3 DEF ServerInv

(* Both parts' invariants, and the link between them, hold of the server. *)
THEOREM ServerInvariance == ServerSpec => []ServerInv
<1>1. QED
  BY ServerInvInit, ServerInvStep, PTL DEF ServerSpec

(* Who is counted by the middleware, by number. *)
LEMMA PlacesCount ==
  ASSUME ServerInv, NEW S, S \subseteq {r \in admitted : stage[r] # "done"}
  PROVE  IsFiniteSet(S) /\ Cardinality(S) <= active /\ active <= MaxRequests
<1> DEFINE Held == {r \in admitted : stage[r] # "done"}
<1>1. /\ active \in 0..MaxRequests /\ admitted \subseteq Requests
      /\ active = GatewayFacts!Cardinality(Held)
  BY DEF ServerInv, GateInv, GatewayFacts!IInv, GatewayFacts!Shape, GatewayFacts!PlacesBalanced,
         GatewayFacts!InProgress
<1>2. GatewayFacts!Cardinality(Held) = Cardinality(Held)
  BY DEF GatewayFacts!Cardinality, Cardinality
<1>3. Held \subseteq Requests
  BY <1>1
<1>4. IsFiniteSet(Held)
  BY <1>3, FinitelyManyAssumption, FS_Subset
<1>5. IsFiniteSet(S) /\ Cardinality(S) <= Cardinality(Held)
  BY <1>4, FS_Subset
<1>6. QED
  BY <1>1, <1>2, <1>5

(* Every open future belongs to a call that holds a place, so the model    *)
(* never owes more than max_requests answers, for any number of calls.     *)
THEOREM PlacesForOpenJobs == ServerSpec => []OpenJobsHoldPlaces
<1>1. ServerInv => OpenJobsHoldPlaces
  <2> SUFFICES ASSUME ServerInv  PROVE OpenJobsHoldPlaces
    OBVIOUS
  <2>1. \A r \in Requests : Pending(r) => r \in admitted /\ stage[r] = "app"
    BY DEF ServerInv, Linked, IInv, CallersMatchFutures
  <2>2. Cardinality({r \in Requests : Pending(r)}) <= MaxRequests
    <3> DEFINE S == {r \in Requests : Pending(r)}
    <3>1. S \subseteq {r \in admitted : stage[r] # "done"}
      BY <2>1
    <3>2. IsFiniteSet(S) /\ Cardinality(S) <= active /\ active <= MaxRequests
      BY <3>1, PlacesCount
    <3>3. Cardinality(S) \in Nat /\ active \in Int /\ MaxRequests \in Int
      BY <3>2, FS_CardinalityType, BoundsAssumption
         DEF ServerInv, GateInv, GatewayFacts!IInv, GatewayFacts!Shape
    <3>4. QED
      BY <3>2, <3>3
  <2>3. QED
    BY <2>1, <2>2 DEF OpenJobsHoldPlaces
<1>2. QED
  BY <1>1, ServerInvariance, PTL

(* A call that the middleware let through finds the queue full only behind *)
(* jobs whose callers have left: with as many open jobs as the queue holds *)
(* there would be more calls in progress than places.                      *)
THEOREM OverloadBehindStale == ServerSpec => QueueRefusesOnlyBehindStale
<1> DEFINE Behind == \A r \in Requests : client[r] = "idle" /\ client'[r] = "overloaded" =>
                       \E q \in ToSet(queue) : fut[q] = "cancelled"
<1>1. ServerInv /\ [ServerNext]_serverVars => [Behind]_serverVars
  <2> SUFFICES ASSUME ServerInv, ServerNext, NEW r \in Requests,
                      client[r] = "idle", client'[r] = "overloaded",
                      \A q \in ToSet(queue) : fut[q] # "cancelled"
               PROVE  FALSE
    BY DEF serverVars, vars
  <2> USE DEF ServerInv, callerVars, workerVars, ownerVars, lifeVars
  <2>0. /\ client \in [Requests -> {"idle", "waiting", "request_timeout"}
                                     \cup Verdicts \cup Refusals]
        /\ queue \in Seq(Requests) /\ jobs \in Seq(Requests)
    BY DEF IInv, TypeOK
  <2>1. stage[r] = "app" /\ Len(queue) >= MaxRequests
    <3>1. ASSUME NEW q \in Requests, Resume(q) \/ Deadline(q)  PROVE client'[r] = client[r]
      BY <2>0, <3>1 DEF Resume, Deadline
    <3>2. WorkerStep => client' = client
      BY DEF WorkerStep, WorkerBegin, WorkerIdle, WorkerTake, WorkerSubmit, WorkerSkip,
             WorkerDeliver, WorkerCancelled, WorkerStillborn
    <3>3. ThreadStep \/ LifeStep => client' = client
      BY DEF ThreadStep, ThreadStart, ThreadFinish, LifeStep, CloseStep, Start,
             StartUnsupported, Loaded, StartFails, Close, CloseDrain, CloseJoined
    <3>4. ASSUME NEW q \in Requests, GateStep(q) \/ InvalidBody(q) \/ Respond(q)
          PROVE  client' = client
      BY <3>4 DEF GateStep, InvalidBody, Respond, vars
    <3>5. PICK q \in Requests : Call(q)
      BY <3>1, <3>2, <3>3, <3>4 DEF ServerNext, Inner, ServerTerminated, serverVars, vars
    <3>6. q = r
      BY <2>0, <3>5 DEF Call, Evaluate, RefuseUnsupported, RefuseNotReady, RefuseFull, Enqueue
    <3>7. RefuseFull(r)
      BY <2>0, <3>5, <3>6 DEF Call, Evaluate, RefuseUnsupported, RefuseNotReady, Enqueue
    <3>8. QED
      BY <3>5, <3>6, <3>7 DEF Call, RefuseFull
  <2>2. ToSet(queue) \subseteq Requests /\ ToSet(queue) \subseteq ToSet(Backlog)
    BY <2>0, SetOfSeq, ConcatSet DEF Backlog
  <2>3. r \notin ToSet(queue)
    BY <2>2 DEF IInv, CallersMatchFutures
  <2>4. ToSet(queue) \cup {r} \subseteq {q \in admitted : stage[q] # "done"}
    <3>1. \A q \in ToSet(queue) : Pending(q)
      BY <2>2 DEF BacklogOpen, Pending
    <3>2. \A q \in ToSet(queue) : stage[q] = "app" /\ q \in admitted
      BY <2>2, <3>1 DEF Linked, IInv, CallersMatchFutures
    <3>3. r \in admitted
      BY <2>1 DEF Linked
    <3>4. QED
      BY <2>1, <3>2, <3>3
  <2>5. IsFiniteSet(ToSet(queue)) /\ Cardinality(ToSet(queue)) = Len(queue)
    <3>1. IsInjective(jobs \o queue)
      BY DEF BacklogOpen, Backlog
    <3>2. IsInjective(queue)
      BY <2>0, <3>1, DistinctParts
    <3>3. QED
      BY <2>0, <3>2, DistinctCount
  <2>6. Cardinality(ToSet(queue) \cup {r}) = Len(queue) + 1
    BY <2>3, <2>5, FS_AddElement
  <2>7. Cardinality(ToSet(queue) \cup {r}) <= active /\ active <= MaxRequests
    BY <2>4, PlacesCount
  <2>8. Len(queue) \in Nat /\ active \in Int /\ MaxRequests \in Nat
    BY <2>0, LenProperties, BoundsAssumption DEF GateInv, GatewayFacts!IInv, GatewayFacts!Shape
  <2>9. QED
    BY <2>1, <2>6, <2>7, <2>8
<1>2. QED
  BY <1>1, ServerInvariance, PTL DEF ServerSpec, QueueRefusesOnlyBehindStale
=============================================================================
