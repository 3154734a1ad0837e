-------------------------- MODULE GenerationProofs --------------------------
(***************************************************************************)
(* Proofs about DecisionService, for any requests, questions and limits:   *)
(* its semaphore is exact under every order of cancellations, failures and *)
(* retries, no work outlives its request, and an answer is complete.       *)
(*                                                                         *)
(* They are about the steps of the service (ServiceNext); GenerationServer *)
(* only takes such steps, whatever its engine does (ServiceSteps).         *)
(*                                                                         *)
(* The second half is about the two engines behind it: the queue of the    *)
(* MLX owner thread and the connection pool of the HTTP client only hold   *)
(* work that somebody waits for, so the semaphore bounds them both.        *)
(***************************************************************************)
EXTENDS GenerationServer, SequenceLemmas

-----------------------------------------------------------------------------
(* The inductive invariant. *)

Places  == {"idle", "validating", "observing", "gathering", "cleaning", "done"}
Replies == {"none", "answer", "error", "timeout", "dropped"}
Finished   == {"verified", "failed", "cancelled"}
Stages  == {"none", "created", "waiting", "granted", "calling", "verified", "failed", "cancelled"}

ServiceTypes ==
  /\ handler \in [Requests -> Places] /\ reply \in [Requests -> Replies]
  /\ expired \in SUBSET Requests /\ asked \in SUBSET Actors
  /\ act \in [Actors -> Stages] /\ attempt \in [Actors -> Nat]
  /\ waiters \in Seq(Actors) /\ slots \in Nat

(* Who is on the queue is there once, and waits. *)
QueueOfWaiters ==
  /\ \A i, j \in DOMAIN waiters : waiters[i] = waiters[j] => i = j
  /\ \A i \in DOMAIN waiters : act[waiters[i]] \in {"waiting", "granted"}

(* A cancellation is only on its way to an actor that has not ended. *)
AskedGoOn == \A a \in asked : act[a] \notin Ended

(* Which actors of a request can be under way at each place of its handler.*)
InOrder ==
  \A r \in Requests :
    /\ handler[r] \in {"idle", "validating"} =>
         act[Observer(r)] = "none" /\ \A t \in Tasks(r) : act[t] = "none"
    /\ handler[r] = "observing" => \A t \in Tasks(r) : act[t] = "none"
    /\ handler[r] \in {"gathering", "cleaning"} =>
         act[Observer(r)] \in Ended /\ \A t \in Tasks(r) : act[t] # "none"
    /\ handler[r] = "done" => act[Observer(r)] \in Ended /\ Settled(r)

(* Once a handler has given up, everything it waits for has been told. *)
AllTold ==
  \A r \in Requests :
    /\ handler[r] = "idle" => r \notin expired
    /\ handler[r] = "observing" /\ r \in expired =>
         Observer(r) \in asked \/ act[Observer(r)] = "cancelled"
    /\ handler[r] = "gathering" /\ r \in expired => Gathered(r) \/ Unfinished(r) \subseteq asked
    /\ handler[r] = "cleaning" => Unfinished(r) \subseteq asked

(* A question that goes on has an attempt left. *)
AttemptsLeft ==
  \A r \in Requests : \A t \in Tasks(r) :
    attempt[t] <= Retries + (IF act[t] \in Finished THEN 1 ELSE 0)

ServiceInv ==
  /\ ServiceTypes /\ QueueOfWaiters /\ AskedGoOn /\ InOrder /\ AllTold /\ AttemptsLeft
  /\ SlotsBalanced /\ AllOrNothing

-----------------------------------------------------------------------------
(* Requests and their actors. *)

(* An actor is the observation of its request or one of its tasks. *)
LEMMA ActorsOfRequests ==
  /\ \A r \in Requests :
       /\ Observer(r) \in Actors /\ Observer(r)[1] = r /\ ~IsQuestion(Observer(r))
       /\ Observer(r) \notin Tasks(r)
       /\ \A t \in Tasks(r) : t \in Actors /\ t[1] = r /\ IsQuestion(t)
  /\ \A a \in Actors : a[1] \in Requests /\ (a = Observer(a[1]) \/ a \in Tasks(a[1]))
<1>1. ASSUME NEW r \in Requests
      PROVE  /\ Observer(r) \in Actors /\ Observer(r)[1] = r /\ ~IsQuestion(Observer(r))
             /\ \A t \in Tasks(r) : t \in Actors /\ t[1] = r /\ IsQuestion(t)
  BY NamesAssumption DEF Observer, Actors, Tasks, IsQuestion
<1>2. \A r \in Requests : Observer(r) \notin Tasks(r)
  BY <1>1
<1>3. ASSUME NEW a \in Actors
      PROVE  a[1] \in Requests /\ (a = Observer(a[1]) \/ a \in Tasks(a[1]))
  <2>1. PICK r \in Requests : a \in Tasks(r) \/ a = Observer(r)
    BY DEF Actors
  <2>2. a[1] = r
    BY <1>1, <2>1
  <2>3. QED
    BY <2>1, <2>2
<1>4. QED
  BY <1>1, <1>2, <1>3

(* There are finitely many. *)
LEMMA ActorsAreFinite == IsFiniteSet(Actors)
<1> DEFINE Of(r) == Tasks(r) \cup {Observer(r)}
           f == [r \in Requests |-> Of(r)]
           All == {Of(r) : r \in Requests}
<1>1. \A r \in Requests : IsFiniteSet(Of(r))
  <2> SUFFICES ASSUME NEW r \in Requests  PROVE IsFiniteSet(Of(r))
    OBVIOUS
  <2>1. IsFiniteSet({r}) /\ IsFiniteSet(Asks[r])
    BY FS_Singleton, FinitelyManyAssumption
  <2>2. IsFiniteSet({r} \X Asks[r])
    BY <2>1, FS_Product
  <2>3. QED
    BY <2>2, FS_AddElement DEF Tasks
<1>2. f \in Surjection(Requests, All)
  BY DEF Surjection
<1>3. IsFiniteSet(All)
  BY <1>2, FS_Surjection, FinitelyManyAssumption
<1>4. IsFiniteSet(UNION All)
  BY <1>1, <1>3, FS_UNION
<1>5. QED
  BY <1>4 DEF Actors

-----------------------------------------------------------------------------
(* The queue of the semaphore. *)

(* The semaphore never wakes more waiters than it means to. *)
LEMMA FirstFew ==
  ASSUME ServiceTypes, NEW n \in Nat
  PROVE  /\ First(n) \subseteq {b \in Actors : Plain(b)}
         /\ IsFiniteSet(First(n)) /\ Cardinality(First(n)) <= n
<1> DEFINE pos == [i \in Chosen(n) |-> Cardinality(PlainBefore(i))]
           own == [i \in Chosen(n) |-> waiters[i]]
<1>1. Len(waiters) \in Nat /\ DOMAIN waiters = 1..Len(waiters)
  BY LenProperties DEF ServiceTypes
<1>2. \A i \in DOMAIN waiters : waiters[i] \in Actors
  BY ElementOfSeq, <1>1 DEF ServiceTypes
<1>3. ASSUME NEW i \in DOMAIN waiters
      PROVE  IsFiniteSet(PlainBefore(i)) /\ Cardinality(PlainBefore(i)) \in Nat
  <2>1. IsFiniteSet(1..i-1)
    BY <1>1, FS_Interval
  <2> PlainBefore(i) \in SUBSET (1..i-1)
    BY DEF PlainBefore
  <2>2. QED
    BY <2>1, FS_Subset, FS_CardinalityType
<1>4. ASSUME NEW i \in Chosen(n), NEW j \in Chosen(n), i < j
      PROVE  Cardinality(PlainBefore(i)) < Cardinality(PlainBefore(j))
  <2>1. i \in DOMAIN waiters /\ j \in DOMAIN waiters /\ Plain(waiters[i])
    BY DEF Chosen
  <2>2. i \notin PlainBefore(i) /\ PlainBefore(i) \cup {i} \subseteq PlainBefore(j)
    BY <1>1, <1>4, <2>1 DEF PlainBefore
  <2>3. Cardinality(PlainBefore(i) \cup {i}) = Cardinality(PlainBefore(i)) + 1
    BY <1>3, <2>1, <2>2, FS_AddElement
  <2>4. Cardinality(PlainBefore(i) \cup {i}) <= Cardinality(PlainBefore(j))
    BY <1>3, <2>1, <2>2, FS_Subset
  <2>5. QED
    BY <1>3, <2>1, <2>3, <2>4
<1>5. pos \in Injection(Chosen(n), 0..n-1)
  <2>1. pos \in [Chosen(n) -> 0..n-1]
    BY <1>3 DEF Chosen
  <2>2. \A i, j \in Chosen(n) : pos[i] = pos[j] => i = j
    <3> SUFFICES ASSUME NEW i \in Chosen(n), NEW j \in Chosen(n), i # j
                 PROVE  pos[i] # pos[j]
      OBVIOUS
    <3>1. /\ i \in Int /\ j \in Int
          /\ Cardinality(PlainBefore(i)) \in Nat /\ Cardinality(PlainBefore(j)) \in Nat
      BY <1>1, <1>3 DEF Chosen
    <3>2. i < j \/ j < i
      BY <3>1
    <3>3. QED
      BY <1>4, <3>1, <3>2
  <2> HIDE DEF pos
  <2>3. QED
    BY <2>1, <2>2 DEF Injection, IsInjective
<1>6. IsFiniteSet(Chosen(n)) /\ Cardinality(Chosen(n)) <= n
  <2>1. IsFiniteSet(0..n-1) /\ Cardinality(0..n-1) = n
    BY FS_Interval
  <2>2. QED
    BY <1>5, <2>1, FS_Injection
<1>7. own \in Surjection(Chosen(n), First(n))
  BY DEF Surjection, First
<1>8. /\ IsFiniteSet(First(n)) /\ Cardinality(First(n)) <= Cardinality(Chosen(n))
      /\ Cardinality(First(n)) \in Nat /\ Cardinality(Chosen(n)) \in Nat
  BY <1>6, <1>7, FS_Surjection, FS_CardinalityType
<1>9. First(n) \subseteq {b \in Actors : Plain(b)}
  BY <1>2 DEF First, Chosen
<1>10. QED
  BY <1>6, <1>8, <1>9

(* An actor that holds a slot counts for one. *)
Weight(s) == IF s \in {"granted", "calling"} THEN 1 ELSE 0

(* Whatever passes slots on keeps the account, if the actor gives back     *)
(* what it had beyond what it keeps, and wakes no more than there are slots*)
LEMMA PassBalances ==
  ASSUME ServiceTypes, SlotsBalanced,
         NEW a \in Actors, ~Plain(a), NEW s \in Stages, NEW back \in -1..1, NEW wake \in Nat,
         back = Weight(act[a]) - Weight(s), wake <= slots + back,
         Pass(a, s, back, wake)
  PROVE  /\ act' \in [Actors -> Stages] /\ act'[a] = s
         /\ \A b \in Actors \ {a} : act'[b] = act[b] \/ (act[b] = "waiting" /\ act'[b] = "granted")
         /\ slots' \in Nat /\ SlotsBalanced'
<1> DEFINE F == First(wake)
<1>1. F \subseteq {b \in Actors : Plain(b)} /\ IsFiniteSet(F) /\ Cardinality(F) <= wake
  BY FirstFew
<1>2. act' = [b \in Actors |-> IF b = a THEN s ELSE IF b \in F THEN "granted" ELSE act[b]]
  BY DEF Pass
<1>3. slots' = slots + back - Cardinality(F) /\ slots \in Nat /\ Cardinality(F) \in Nat
  BY <1>1, FS_CardinalityType DEF Pass, ServiceTypes
<1> HIDE DEF F
<1>4. a \notin F /\ \A b \in F : act[b] = "waiting"
  BY <1>1 DEF Plain
<1>5. act' \in [Actors -> Stages] /\ act'[a] = s
  BY <1>2 DEF ServiceTypes, Stages
<1>6. ASSUME NEW b \in Actors \ {a}
      PROVE  act'[b] = act[b] \/ (act[b] = "waiting" /\ act'[b] = "granted")
  BY <1>2, <1>4
<1>7. slots' \in Nat
  BY <1>1, <1>3
<1> DEFINE H == Holding \ {a}
           H2 == Holding' \ {a}
<1>8. IsFiniteSet(Holding) /\ IsFiniteSet(Holding')
  <2>1. Holding \in SUBSET Actors /\ Holding' \in SUBSET Actors
    BY DEF Holding
  <2>2. QED
    BY <2>1, ActorsAreFinite, FS_Subset
<1>9. Cardinality(Holding) = Cardinality(H) + Weight(act[a])
  <2>1. a \in Holding <=> act[a] \in {"granted", "calling"}
    BY DEF Holding
  <2>2. Cardinality(H) = IF a \in Holding THEN Cardinality(Holding) - 1 ELSE Cardinality(Holding)
    BY <1>8, FS_RemoveElement
  <2>3. Cardinality(Holding) \in Nat
    BY <1>8, FS_CardinalityType
  <2>4. QED
    BY <2>1, <2>2, <2>3 DEF Weight
<1>10. Cardinality(Holding') = Cardinality(H2) + Weight(s)
  <2>1. a \in Holding' <=> s \in {"granted", "calling"}
    BY <1>5 DEF Holding
  <2>2. Cardinality(H2) =
          IF a \in Holding' THEN Cardinality(Holding') - 1 ELSE Cardinality(Holding')
    BY <1>8, FS_RemoveElement
  <2>3. Cardinality(Holding') \in Nat
    BY <1>8, FS_CardinalityType
  <2>4. QED
    BY <2>1, <2>2, <2>3 DEF Weight
<1>11. H2 = H \cup F /\ H \cap F = {}
  BY <1>1, <1>2, <1>4 DEF Holding
<1>12. Cardinality(H2) = Cardinality(H) + Cardinality(F)
  <2>1. IsFiniteSet(H) /\ Cardinality(H) \in Nat
    BY <1>8, FS_RemoveElement, FS_CardinalityType
  <2>2. Cardinality(H \cap F) = 0
    BY <1>11, FS_EmptySet
  <2>3. Cardinality(H \cup F) = Cardinality(H) + Cardinality(F) - Cardinality(H \cap F)
    BY <1>1, <2>1, FS_Union
  <2>4. Cardinality(H2) = Cardinality(H \cup F)
    BY <1>11
  <2> HIDE DEF H, H2
  <2>5. QED
    BY <1>3, <2>1, <2>2, <2>3, <2>4
<1>13. Cardinality(H) \in Nat /\ Weight(s) \in Nat /\ Weight(act[a]) \in Nat
  BY <1>8, FS_RemoveElement, FS_CardinalityType DEF Weight
<1>14. slots + Cardinality(Holding) = MaxConcurrency
  BY DEF SlotsBalanced
<1> HIDE DEF H, H2
<1>15. slots' + Cardinality(Holding') = MaxConcurrency
  BY <1>3, <1>9, <1>10, <1>12, <1>13, <1>14
<1>16. SlotsBalanced'
  BY <1>15 DEF SlotsBalanced
<1>17. QED
  BY <1>5, <1>6, <1>7, <1>16

(* With no slot to pass on nobody is woken. *)
LEMMA FirstNone == ServiceTypes => First(0) = {} /\ Cardinality(First(0)) = 0
<1> SUFFICES ASSUME ServiceTypes  PROVE First(0) = {} /\ Cardinality(First(0)) = 0
  OBVIOUS
<1>1. IsFiniteSet(First(0)) /\ Cardinality(First(0)) <= 0
  BY FirstFew
<1>2. Cardinality(First(0)) = 0
  BY <1>1, FS_CardinalityType
<1>3. QED
  BY <1>1, <1>2, FS_EmptySet

(* A step that moves one actor and wakes nobody passes nothing on. *)
LEMMA PassNothingOn ==
  ASSUME ServiceTypes, NEW a \in Actors, NEW s, NEW back \in Int,
         act' \in [Actors -> Stages], act'[a] = s,
         \A b \in Actors \ {a} : act'[b] = act[b], slots' = slots + back
  PROVE  Pass(a, s, back, 0)
<1>1. First(0) = {} /\ Cardinality(First(0)) = 0 /\ slots \in Nat
  BY FirstNone DEF ServiceTypes
<1>2. \A b \in Actors :
        act'[b] = IF b = a THEN s ELSE IF b \in First(0) THEN "granted" ELSE act[b]
  BY <1>1
<1>3. act' = [b \in Actors |-> IF b = a THEN s ELSE IF b \in First(0) THEN "granted" ELSE act[b]]
  BY <1>2
<1>4. slots' = slots + back - Cardinality(First(0))
  BY <1>1
<1>5. QED
  BY <1>3, <1>4 DEF Pass

(* What any step of an actor does to the semaphore: it passes on what it   *)
(* gives back, leaves the queue or enters it at the end.                   *)
QueueMove(a, s) ==
  waiters' = IF s = "waiting" THEN Append(waiters, a)
             ELSE IF act[a] \in {"waiting", "granted"} THEN RemoveFirst(waiters, a) ELSE waiters

Passes(a) ==
  \E s \in Stages \ {"granted"}, back \in -1..1, wake \in Nat :
    /\ back = Weight(act[a]) - Weight(s) /\ wake <= slots + back
    /\ Pass(a, s, back, wake) /\ QueueMove(a, s)
    /\ act[a] \in {"waiting", "granted"} => s # "waiting"

(* Such a step keeps the account and the queue. *)
LEMMA PassesKeep ==
  ASSUME ServiceTypes, SlotsBalanced, QueueOfWaiters, NEW a \in Actors, ~Plain(a), Passes(a)
  PROVE  /\ act' \in [Actors -> Stages] /\ act'[a] # "granted"
         /\ \A b \in Actors \ {a} : act'[b] = act[b] \/ (act[b] = "waiting" /\ act'[b] = "granted")
         /\ slots' \in Nat /\ SlotsBalanced'
         /\ waiters' \in Seq(Actors) /\ QueueOfWaiters'
<1>1. PICK s \in Stages \ {"granted"}, back \in -1..1, wake \in Nat :
        /\ back = Weight(act[a]) - Weight(s) /\ wake <= slots + back
        /\ Pass(a, s, back, wake) /\ QueueMove(a, s)
        /\ act[a] \in {"waiting", "granted"} => s # "waiting"
  BY DEF Passes
<1>2. /\ act' \in [Actors -> Stages] /\ act'[a] = s
      /\ \A b \in Actors \ {a} : act'[b] = act[b] \/ (act[b] = "waiting" /\ act'[b] = "granted")
      /\ slots' \in Nat /\ SlotsBalanced'
  BY <1>1, PassBalances
<1>3. /\ waiters \in Seq(Actors) /\ Len(waiters) \in Nat /\ DOMAIN waiters = 1..Len(waiters)
      /\ \A i \in 1..Len(waiters) : waiters[i] \in Actors
  BY LenProperties, ElementOfSeq DEF ServiceTypes
<1>4. /\ \A i, j \in 1..Len(waiters) : waiters[i] = waiters[j] => i = j
      /\ \A i \in 1..Len(waiters) : act[waiters[i]] \in {"waiting", "granted"}
  BY <1>3 DEF QueueOfWaiters
<1>5. ASSUME NEW i \in 1..Len(waiters), waiters[i] # a
      PROVE  act'[waiters[i]] \in {"waiting", "granted"}
  BY <1>2, <1>3, <1>4, <1>5
<1>6. CASE s = "waiting"
  <2>1. /\ waiters' = Append(waiters, a) /\ waiters' \in Seq(Actors)
        /\ DOMAIN waiters' = 1..Len(waiters)+1 /\ waiters'[Len(waiters)+1] = a
        /\ \A i \in 1..Len(waiters) : waiters'[i] = waiters[i]
    <3>1. waiters' = Append(waiters, a)
      BY <1>1, <1>6 DEF QueueMove
    <3>2. QED
      BY <1>3, <3>1, AppendProperties, LenProperties
  <2>2. \A i \in 1..Len(waiters) : waiters[i] # a
    BY <1>1, <1>4, <1>6
  <2>3. ASSUME NEW i \in DOMAIN waiters'
        PROVE  /\ act'[waiters'[i]] \in {"waiting", "granted"}
               /\ \A j \in DOMAIN waiters' : waiters'[i] = waiters'[j] => i = j
    <3>1. CASE i = Len(waiters)+1
      <4>1. act'[waiters'[i]] \in {"waiting", "granted"}
        BY <1>2, <1>6, <2>1, <3>1
      <4>2. ASSUME NEW j \in DOMAIN waiters', waiters'[i] = waiters'[j]  PROVE i = j
        BY <1>3, <2>1, <2>2, <3>1, <4>2
      <4>3. QED
        BY <4>1, <4>2
    <3>2. CASE i # Len(waiters)+1
      <4>1. i \in 1..Len(waiters) /\ waiters'[i] = waiters[i] /\ waiters[i] # a
        BY <1>3, <2>1, <2>2, <3>2
      <4>2. ASSUME NEW j \in DOMAIN waiters', waiters'[i] = waiters'[j]  PROVE i = j
        <5>1. j # Len(waiters)+1
          BY <2>1, <4>1, <4>2
        <5>2. j \in 1..Len(waiters) /\ waiters'[j] = waiters[j]
          BY <1>3, <2>1, <5>1
        <5>3. QED
          BY <1>4, <4>1, <4>2, <5>2
      <4>3. QED
        BY <1>5, <4>1, <4>2
    <3>3. QED
      BY <3>1, <3>2
  <2>4. QED
    BY <1>2, <2>1, <2>3 DEF QueueOfWaiters
<1>7. CASE s # "waiting"
  <2>1. waiters' \in Seq(Actors) /\ From(waiters', waiters)
        /\ \A i \in 1..Len(waiters') : waiters'[i] # a
    <3>1. CASE act[a] \in {"waiting", "granted"}
      <4>1. waiters' = RemoveFirst(waiters, a)
        BY <1>1, <1>7, <3>1 DEF QueueMove
      <4>2. \A i, j \in 1..Len(waiters) : waiters[i] = a /\ waiters[j] = a => i = j
        BY <1>4
      <4>3. QED
        BY <1>3, <4>1, <4>2, RemoveFirstFrom
    <3>2. CASE act[a] \notin {"waiting", "granted"}
      <4>1. waiters' = waiters
        BY <1>1, <1>7, <3>2 DEF QueueMove
      <4>2. \A i \in 1..Len(waiters) : waiters[i] # a
        BY <1>4, <3>2
      <4> DEFINE g == [i \in 1..Len(waiters) |-> i]
      <4>3. g \in [1..Len(waiters) -> 1..Len(waiters)] /\ \A i \in 1..Len(waiters) : g[i] = i
        OBVIOUS
      <4>4. From(waiters, waiters)
        BY <4>3 DEF From
      <4>5. QED
        BY <1>3, <4>1, <4>2, <4>4
    <3>3. QED
      BY <3>1, <3>2
  <2>2. PICK g \in [1..Len(waiters') -> 1..Len(waiters)] :
          /\ \A i, j \in 1..Len(waiters') : g[i] = g[j] => i = j
          /\ \A i \in 1..Len(waiters') : waiters'[i] = waiters[g[i]]
    BY <2>1 DEF From
  <2>3. DOMAIN waiters' = 1..Len(waiters')
    BY <2>1, LenProperties
  <2>4. \A i \in 1..Len(waiters') : act'[waiters'[i]] \in {"waiting", "granted"}
    BY <1>5, <2>1, <2>2
  <2>5. \A i, j \in 1..Len(waiters') : waiters'[i] = waiters'[j] => i = j
    BY <1>4, <2>2
  <2>6. QED
    BY <1>2, <2>1, <2>3, <2>4, <2>5 DEF QueueOfWaiters
<1>8. QED
  BY <1>6, <1>7

-----------------------------------------------------------------------------
(* The steps of an actor. *)

ActorStep(a) == Turn(a) \/ Complete(a) \/ BackendFails(a) \/ Dropped(a)

(* What they have in common beside the semaphore. *)
Advances(a) ==
  /\ UNCHANGED <<handler, reply, expired>>
  /\ act[a] \notin Ended /\ act'[a] \notin {"none", "created"}
  /\ asked' = asked \ {a} /\ (a \in asked => act'[a] = "cancelled")
  /\ attempt' \in [Actors -> Nat] /\ \A b \in Actors \ {a} : attempt'[b] = attempt[b]
  /\ \/ attempt'[a] = attempt[a]
     \/ attempt'[a] = attempt[a] + 1 /\ (act'[a] \in Finished \/ attempt[a] < Retries)

(* Entering `async with self.slots` is such a step. *)
LEMMA AcquirePasses ==
  ASSUME ServiceTypes, NEW a \in Actors, act[a] \in {"none", "created"}, Acquire(a)
  PROVE  Passes(a) /\ act'[a] \in {"waiting", "calling"}
<1>1. First(0) = {} /\ Cardinality(First(0)) = 0 /\ slots \in Nat /\ act \in [Actors -> Stages]
  BY FirstNone DEF ServiceTypes
<1>2. CASE Locked
  <2>1. act' = [act EXCEPT ![a] = "waiting"] /\ waiters' = Append(waiters, a) /\ slots' = slots
    BY <1>2 DEF Acquire
  <2>2. Pass(a, "waiting", 0, 0)
    <3>1. slots' = slots + 0
      BY <1>1, <2>1
    <3>2. /\ act' \in [Actors -> Stages] /\ act'[a] = "waiting"
          /\ \A b \in Actors \ {a} : act'[b] = act[b]
      BY <1>1, <2>1 DEF Stages
    <3>3. QED
      BY <3>1, <3>2, PassNothingOn
  <2>3. QueueMove(a, "waiting")
    BY <2>1 DEF QueueMove
  <2>4. 0 = Weight(act[a]) - Weight("waiting") /\ 0 <= slots + 0
    BY <1>1 DEF Weight
  <2>5. QED
    BY <1>1, <2>1, <2>2, <2>3, <2>4 DEF Passes, Stages
<1>3. CASE ~Locked
  <2>1. act' = [act EXCEPT ![a] = "calling"] /\ waiters' = waiters /\ slots' = slots - 1
    BY <1>3 DEF Acquire
  <2>2. Pass(a, "calling", -1, 0)
    <3>1. slots' = slots + (-1)
      BY <1>1, <2>1
    <3>2. /\ act' \in [Actors -> Stages] /\ act'[a] = "calling"
          /\ \A b \in Actors \ {a} : act'[b] = act[b]
      BY <1>1, <2>1 DEF Stages
    <3>3. QED
      BY <3>1, <3>2, PassNothingOn
  <2>3. QueueMove(a, "calling")
    BY <2>1 DEF QueueMove
  <2>4. -1 = Weight(act[a]) - Weight("calling") /\ 0 <= slots + (-1)
    BY <1>1, <1>3 DEF Weight, Locked
  <2>5. QED
    BY <1>1, <2>1, <2>2, <2>3, <2>4 DEF Passes, Stages
<1>4. QED
  BY <1>2, <1>3

(* Whoever ends a call gives its slot back. *)
LEMMA EndPasses ==
  ASSUME ServiceTypes, NEW a \in Actors, act[a] = "calling",
         NEW s \in Finished, Pass(a, s, 1, 1), UNCHANGED waiters
  PROVE  Passes(a) /\ act'[a] = s
<1>1. slots \in Nat /\ act'[a] = s
  BY DEF ServiceTypes, Pass
<1>2. 1 = Weight(act[a]) - Weight(s) /\ 1 <= slots + 1 /\ QueueMove(a, s)
  BY <1>1 DEF Weight, QueueMove, Finished
<1>3. QED
  BY <1>1, <1>2 DEF Passes, Stages, Finished

(* Every step of an actor is of this kind. *)
LEMMA ActorAdvances ==
  ASSUME ServiceTypes, NEW a \in Actors, ActorStep(a)
  PROVE  Passes(a) /\ ~Plain(a) /\ Advances(a)
<1>1. /\ act \in [Actors -> Stages] /\ attempt \in [Actors -> Nat] /\ asked \subseteq Actors
      /\ slots \in Nat /\ First(0) = {} /\ Cardinality(First(0)) = 0
  BY FirstNone DEF ServiceTypes
<1>2. CASE Begin(a)
  <2>1. Passes(a) /\ act'[a] \in {"waiting", "calling"}
    BY <1>2, AcquirePasses DEF Begin
  <2>2. QED
    BY <1>1, <1>2, <2>1 DEF Begin, Plain, Advances, Ended
<1>3. CASE Unborn(a)
  <2>1. act' = [act EXCEPT ![a] = "cancelled"] /\ act[a] = "created"
    BY <1>3 DEF Unborn
  <2>2. Pass(a, "cancelled", 0, 0) /\ QueueMove(a, "cancelled")
    <3>1. slots' = slots + 0 /\ waiters' = waiters
      BY <1>1, <1>3 DEF Unborn
    <3>2. /\ act' \in [Actors -> Stages] /\ act'[a] = "cancelled"
          /\ \A b \in Actors \ {a} : act'[b] = act[b]
      BY <1>1, <2>1 DEF Stages
    <3>3. Pass(a, "cancelled", 0, 0)
      BY <3>1, <3>2, PassNothingOn
    <3>4. QED
      BY <2>1, <3>1, <3>3 DEF QueueMove
  <2>3. 0 = Weight(act[a]) - Weight("cancelled") /\ 0 <= slots + 0
    BY <1>1, <2>1 DEF Weight
  <2>4. Passes(a)
    BY <2>1, <2>2, <2>3 DEF Passes, Stages
  <2>5. QED
    BY <1>1, <1>3, <2>1, <2>4 DEF Unborn, Plain, Advances, Ended
<1>4. CASE Enter(a)
  <2>1. act[a] = "granted" /\ Pass(a, "calling", 0, slots) /\ act'[a] = "calling"
    BY <1>1, <1>4 DEF Enter, Pass
  <2>2. QueueMove(a, "calling")
    BY <1>4, <2>1 DEF Enter, QueueMove
  <2>3. 0 = Weight(act[a]) - Weight("calling") /\ slots <= slots + 0
    BY <1>1, <2>1 DEF Weight
  <2>4. Passes(a)
    BY <1>1, <2>1, <2>2, <2>3 DEF Passes, Stages
  <2>5. QED
    BY <1>1, <1>4, <2>1, <2>4 DEF Enter, Plain, Advances, Ended
<1>5. CASE LeaveQueue(a)
  <2> DEFINE back == IF act[a] = "granted" THEN 1 ELSE 0
  <2>1. /\ act[a] \in {"waiting", "granted"} /\ a \in asked /\ act'[a] = "cancelled"
        /\ Pass(a, "cancelled", back, slots + back)
    BY <1>1, <1>5 DEF LeaveQueue, Pass
  <2>2. QueueMove(a, "cancelled")
    BY <1>5, <2>1 DEF LeaveQueue, QueueMove
  <2>3. /\ back \in -1..1 /\ slots + back \in Nat /\ slots + back <= slots + back
        /\ back = Weight(act[a]) - Weight("cancelled")
    BY <1>1, <2>1 DEF Weight
  <2>4. Passes(a)
    BY <2>1, <2>2, <2>3 DEF Passes, Stages
  <2>5. QED
    BY <1>1, <1>5, <2>1, <2>4 DEF LeaveQueue, Plain, Advances, Ended
<1>6. CASE Abort(a)
  <2>1. Passes(a) /\ act'[a] = "cancelled"
    BY <1>6, EndPasses DEF Abort, GivesBack, Finished
  <2>2. QED
    BY <1>1, <1>6, <2>1 DEF Abort, Plain, Advances, Ended
<1>7. CASE Usable(a)
  <2>1. Passes(a) /\ act'[a] = "verified"
    BY <1>7, EndPasses DEF Usable, Finished
  <2>2. QED
    BY <1>1, <1>7, <2>1 DEF Usable, Plain, Advances, Ended, Finished
<1>8. CASE Unusable(a)
  <2>1. act[a] = "calling" /\ a \notin asked /\ MayRetry(a) /\ ReleaseAndAcquire(a)
    BY <1>8 DEF Unusable
  <2>2. CASE Contended
    <3>1. Pass(a, "waiting", 1, 1) /\ QueueMove(a, "waiting") /\ act'[a] = "waiting"
      BY <2>1, <2>2 DEF ReleaseAndAcquire, QueueMove, Pass
    <3>2. 1 = Weight(act[a]) - Weight("waiting") /\ 1 <= slots + 1
      BY <1>1, <2>1 DEF Weight
    <3>3. Passes(a)
      BY <2>1, <3>1, <3>2 DEF Passes, Stages
    <3>4. QED
      BY <1>1, <1>8, <2>1, <3>1, <3>3 DEF Unusable, MayRetry, Plain, Advances, Ended
  <2>3. CASE ~Contended
    <3>1. act' = act /\ slots' = slots /\ waiters' = waiters
      BY <2>1, <2>3 DEF ReleaseAndAcquire, semVars
    <3>2. /\ act' \in [Actors -> Stages] /\ act'[a] = "calling"
          /\ \A b \in Actors \ {a} : act'[b] = act[b]
      BY <1>1, <2>1, <3>1
    <3>3. Pass(a, "calling", 0, 0) /\ QueueMove(a, "calling")
      <4>1. slots' = slots + 0
        BY <1>1, <3>1
      <4>2. Pass(a, "calling", 0, 0)
        BY <3>2, <4>1, PassNothingOn
      <4>3. QED
        BY <2>1, <3>1, <4>2 DEF QueueMove
    <3>4. 0 = Weight(act[a]) - Weight("calling") /\ 0 <= slots + 0
      BY <1>1, <2>1 DEF Weight
    <3>5. Passes(a)
      BY <2>1, <3>3, <3>4 DEF Passes, Stages
    <3>6. QED
      BY <1>1, <1>8, <2>1, <3>1, <3>5 DEF Unusable, MayRetry, Plain, Advances, Ended
  <2>4. QED
    BY <2>2, <2>3
<1>9. CASE Exhaust(a)
  <2>1. Passes(a) /\ act'[a] = "failed"
    BY <1>9, EndPasses DEF Exhaust, Finished
  <2>2. QED
    BY <1>1, <1>9, <2>1 DEF Exhaust, Plain, Advances, Ended, Finished
<1>10. CASE BackendFails(a)
  <2>1. Passes(a) /\ act'[a] = "failed"
    BY <1>10, EndPasses DEF BackendFails, Finished
  <2>2. QED
    BY <1>1, <1>10, <2>1 DEF BackendFails, Plain, Advances, Ended
<1>11. CASE Dropped(a)
  <2>1. Passes(a) /\ act'[a] = "cancelled"
    BY <1>11, EndPasses DEF Dropped, Finished
  <2>2. QED
    BY <1>1, <1>11, <2>1 DEF Dropped, Plain, Advances, Ended
<1>12. QED
  BY <1>2, <1>3, <1>4, <1>5, <1>6, <1>7, <1>8, <1>9, <1>10, <1>11
     DEF ActorStep, Turn, Complete

(* A step of an actor keeps the invariant, whichever step it is. *)
LEMMA ActorStepKeeps ==
  ASSUME ServiceInv, NEW a \in Actors, ActorStep(a)
  PROVE  ServiceInv'
<1>1. ServiceTypes /\ QueueOfWaiters /\ SlotsBalanced
  BY DEF ServiceInv
<1>2. Passes(a) /\ ~Plain(a) /\ Advances(a)
  BY <1>1, ActorAdvances
<1>3. /\ act' \in [Actors -> Stages] /\ act'[a] # "granted"
      /\ \A b \in Actors \ {a} : act'[b] = act[b] \/ (act[b] = "waiting" /\ act'[b] = "granted")
      /\ slots' \in Nat /\ SlotsBalanced'
      /\ waiters' \in Seq(Actors) /\ QueueOfWaiters'
  BY <1>1, <1>2, PassesKeep
<1>4. /\ handler' = handler /\ reply' = reply /\ expired' = expired
      /\ act[a] \notin Ended /\ act'[a] \notin {"none", "created"}
      /\ asked' = asked \ {a} /\ (a \in asked => act'[a] = "cancelled")
      /\ attempt' \in [Actors -> Nat] /\ \A b \in Actors \ {a} : attempt'[b] = attempt[b]
      /\ \/ attempt'[a] = attempt[a]
         \/ attempt'[a] = attempt[a] + 1 /\ (act'[a] \in Finished \/ attempt[a] < Retries)
  BY <1>2 DEF Advances
<1>5. ServiceTypes'
  BY <1>1, <1>3, <1>4 DEF ServiceTypes
<1>6. ASSUME NEW b \in Actors, act[b] \in Ended  PROVE b # a /\ act'[b] = act[b]
  BY <1>3, <1>4, <1>6 DEF Ended
<1>7. ASSUME NEW b \in Actors, act'[b] \notin Ended  PROVE act[b] \notin Ended
  BY <1>6, <1>7
<1>8. AskedGoOn'
  <2> SUFFICES ASSUME NEW b \in asked'  PROVE act'[b] \notin Ended
    BY DEF AskedGoOn
  <2>1. b \in asked /\ b # a /\ b \in Actors
    BY <1>1, <1>4 DEF ServiceTypes
  <2>2. act[b] \notin Ended
    BY <2>1 DEF ServiceInv, AskedGoOn
  <2>3. QED
    BY <1>3, <2>1, <2>2 DEF Ended
<1>9. InOrder'
  <2> SUFFICES ASSUME NEW r \in Requests
               PROVE  /\ handler[r] \in {"idle", "validating"} =>
                           act'[Observer(r)] = "none" /\ \A t \in Tasks(r) : act'[t] = "none"
                      /\ handler[r] = "observing" => \A t \in Tasks(r) : act'[t] = "none"
                      /\ handler[r] \in {"gathering", "cleaning"} =>
                           act'[Observer(r)] \in Ended /\ \A t \in Tasks(r) : act'[t] # "none"
                      /\ handler[r] = "done" =>
                           act'[Observer(r)] \in Ended /\ \A t \in Tasks(r) : act'[t] \in Ended
    BY <1>4 DEF InOrder, Settled, Observer, Tasks
  <2>1. /\ handler[r] \in {"idle", "validating"} =>
             act[Observer(r)] = "none" /\ \A t \in Tasks(r) : act[t] = "none"
        /\ handler[r] = "observing" => \A t \in Tasks(r) : act[t] = "none"
        /\ handler[r] \in {"gathering", "cleaning"} =>
             act[Observer(r)] \in Ended /\ \A t \in Tasks(r) : act[t] # "none"
        /\ handler[r] = "done" =>
             act[Observer(r)] \in Ended /\ \A t \in Tasks(r) : act[t] \in Ended
    BY DEF ServiceInv, InOrder, Settled
  <2>2. Observer(r) \in Actors /\ \A t \in Tasks(r) : t \in Actors
    BY ActorsOfRequests
  <2>3. \A b \in Actors : act[b] = "none" => act'[b] = "none"
    BY <1>6 DEF Ended
  <2>4. \A b \in Actors : act[b] # "none" => act'[b] # "none"
    BY <1>3, <1>4
  <2>5. QED
    BY <1>6, <2>1, <2>2, <2>3, <2>4
<1>10. ASSUME NEW r \in Requests
       PROVE  /\ \A t \in Tasks(r) : t \in Actors
              /\ AllVerified(r) => AllVerified(r)'
              /\ SomeFailed(r) => SomeFailed(r)'
              /\ SomeCancelled(r) => SomeCancelled(r)'
              /\ Unfinished(r) \subseteq asked => Unfinished(r)' \subseteq asked'
  <2>1. \A t \in Tasks(r) : t \in Actors
    BY ActorsOfRequests
  <2>2. \A t \in Tasks(r) : act[t] \in Finished => act'[t] = act[t]
    BY <1>6, <2>1 DEF Finished, Ended
  <2>3. ASSUME Unfinished(r) \subseteq asked, NEW t \in Tasks(r), act'[t] \notin Ended
        PROVE  t \in asked'
    <3>1. t \in asked
      BY <1>7, <2>1, <2>3 DEF Unfinished
    <3>2. t # a
      BY <1>4, <2>3, <3>1 DEF Ended
    <3>3. QED
      BY <1>4, <3>1, <3>2
  <2>4. Tasks(r)' = Tasks(r)
    BY DEF Tasks
  <2>5. QED
    BY <2>1, <2>2, <2>3, <2>4 DEF AllVerified, SomeFailed, SomeCancelled, Unfinished, Finished
<1>11. AllTold'
  <2> SUFFICES ASSUME NEW r \in Requests
               PROVE  /\ handler[r] = "idle" => r \notin expired
                      /\ handler[r] = "observing" /\ r \in expired =>
                           Observer(r) \in asked' \/ act'[Observer(r)] = "cancelled"
                      /\ handler[r] = "gathering" /\ r \in expired =>
                           Gathered(r)' \/ Unfinished(r)' \subseteq asked'
                      /\ handler[r] = "cleaning" => Unfinished(r)' \subseteq asked'
    BY <1>4 DEF AllTold, Observer
  <2>1. /\ handler[r] = "idle" => r \notin expired
        /\ handler[r] = "observing" /\ r \in expired =>
             Observer(r) \in asked \/ act[Observer(r)] = "cancelled"
        /\ handler[r] = "gathering" /\ r \in expired => Gathered(r) \/ Unfinished(r) \subseteq asked
        /\ handler[r] = "cleaning" => Unfinished(r) \subseteq asked
    BY DEF ServiceInv, AllTold
  <2>2. Observer(r) \in Actors
    BY ActorsOfRequests
  <2>3. Observer(r) \in asked => Observer(r) \in asked' \/ act'[Observer(r)] = "cancelled"
    BY <1>4
  <2>4. act[Observer(r)] = "cancelled" => act'[Observer(r)] = "cancelled"
    BY <1>6, <2>2 DEF Ended
  <2>5. Gathered(r) => Gathered(r)'
    BY <1>10 DEF Gathered
  <2>6. QED
    BY <1>10, <2>1, <2>3, <2>4, <2>5
<1>12. ASSUME NEW r \in Requests, NEW t \in Tasks(r)
       PROVE  attempt'[t] <= Retries + (IF act'[t] \in Finished THEN 1 ELSE 0)
  <2>1. attempt[t] <= Retries + (IF act[t] \in Finished THEN 1 ELSE 0)
    BY DEF ServiceInv, AttemptsLeft
  <2>2. t \in Actors /\ attempt[t] \in Nat /\ Retries \in Nat
    BY <1>1, ActorsOfRequests, LimitsAssumption DEF ServiceTypes
  <2>3. CASE t = a
    <3>1. act[t] \notin Finished
      BY <1>4, <2>3 DEF Finished, Ended
    <3>2. attempt[t] <= Retries
      BY <2>1, <2>2, <3>1
    <3>3. \/ attempt'[t] = attempt[t]
          \/ attempt'[t] = attempt[t] + 1 /\ (act'[t] \in Finished \/ attempt[t] < Retries)
      BY <1>4, <2>3
    <3>4. QED
      BY <2>2, <3>2, <3>3
  <2>4. CASE t # a
    <3>1. attempt'[t] = attempt[t]
      BY <1>4, <2>2, <2>4
    <3>2. act[t] \in Finished <=> act'[t] \in Finished
      BY <1>3, <2>2, <2>4 DEF Finished
    <3>3. QED
      BY <2>1, <3>1, <3>2
  <2>5. QED
    BY <2>3, <2>4
<1>13. AttemptsLeft'
  BY <1>12 DEF AttemptsLeft, Tasks
<1>14. AllOrNothing'
  <2> SUFFICES ASSUME NEW r \in Requests, handler[r] \in {"cleaning", "done"}
               PROVE  /\ reply[r] = "answer" =>
                           r \notin expired /\ \A t \in Tasks(r) : act'[t] = "verified"
                      /\ reply[r] = "error" =>
                           SomeFailed(r)' \/ \A t \in Tasks(r) : act'[t] = "none"
                      /\ reply[r] = "timeout" => r \in expired
                      /\ reply[r] = "dropped" =>
                           \E b \in Actors : b[1] = r /\ act'[b] = "cancelled"
                      /\ reply[r] # "none"
                      /\ \A t \in Tasks(r) : attempt'[t] <= Retries + 1
    BY <1>4 DEF AllOrNothing, Tasks, Actors, Observer
  <2>1. /\ reply[r] = "answer" => r \notin expired /\ \A t \in Tasks(r) : act[t] = "verified"
        /\ reply[r] = "error" => SomeFailed(r) \/ \A t \in Tasks(r) : act[t] = "none"
        /\ reply[r] = "timeout" => r \in expired
        /\ reply[r] = "dropped" => \E b \in Actors : b[1] = r /\ act[b] = "cancelled"
        /\ reply[r] # "none"
    BY DEF ServiceInv, AllOrNothing
  <2>2. /\ \A b \in Actors : act[b] = "none" => act'[b] = "none"
        /\ \A b \in Actors : act[b] = "verified" => act'[b] = "verified"
        /\ \A b \in Actors : act[b] = "cancelled" => act'[b] = "cancelled"
    BY <1>6 DEF Ended
  <2>3. ASSUME NEW t \in Tasks(r)  PROVE attempt'[t] <= Retries + 1
    <3>1. attempt'[t] \in Nat /\ Retries \in Nat
      BY <1>4, ActorsOfRequests, LimitsAssumption
    <3>2. QED
      BY <1>12, <3>1
  <2>4. QED
    BY <1>10, <2>1, <2>2, <2>3
<1>15. QED
  BY <1>3, <1>5, <1>8, <1>9, <1>11, <1>13, <1>14 DEF ServiceInv

-----------------------------------------------------------------------------
(* The steps of a handler. *)

RequestStep(r) == Call(r) \/ Serve(r) \/ Expire(r)

(* The part of the invariant that is about one request. *)
RequestInv(r) ==
  /\ handler[r] \in {"idle", "validating"} =>
       act[Observer(r)] = "none" /\ \A t \in Tasks(r) : act[t] = "none"
  /\ handler[r] = "observing" => \A t \in Tasks(r) : act[t] = "none"
  /\ handler[r] \in {"gathering", "cleaning"} =>
       act[Observer(r)] \in Ended /\ \A t \in Tasks(r) : act[t] # "none"
  /\ handler[r] = "done" => act[Observer(r)] \in Ended /\ Settled(r)
  /\ handler[r] = "idle" => r \notin expired
  /\ handler[r] = "observing" /\ r \in expired =>
       Observer(r) \in asked \/ act[Observer(r)] = "cancelled"
  /\ handler[r] = "gathering" /\ r \in expired => Gathered(r) \/ Unfinished(r) \subseteq asked
  /\ handler[r] = "cleaning" => Unfinished(r) \subseteq asked
  /\ \A t \in Tasks(r) : attempt[t] <= Retries + (IF act[t] \in Finished THEN 1 ELSE 0)
  /\ handler[r] \in {"cleaning", "done"} =>
       /\ reply[r] = "answer" => r \notin expired /\ \A t \in Tasks(r) : act[t] = "verified"
       /\ reply[r] = "error" => SomeFailed(r) \/ \A t \in Tasks(r) : act[t] = "none"
       /\ reply[r] = "timeout" => r \in expired
       /\ reply[r] = "dropped" => \E a \in Actors : a[1] = r /\ act[a] = "cancelled"
       /\ reply[r] # "none"

EachRequest ==
  /\ ServiceTypes /\ QueueOfWaiters /\ AskedGoOn /\ SlotsBalanced
  /\ \A r \in Requests : RequestInv(r)

(* It is all of the invariant but the types, the semaphore and `asked'. *)
LEMMA InvByRequest == ServiceInv <=> EachRequest
<1>1. ASSUME ServiceInv, NEW r \in Requests  PROVE RequestInv(r)
  BY <1>1 DEF ServiceInv, InOrder, AllTold, AttemptsLeft, AllOrNothing, RequestInv
<1>2. ASSUME ServiceTypes, \A r \in Requests : RequestInv(r)
      PROVE  InOrder /\ AllTold /\ AttemptsLeft /\ AllOrNothing
  <2>1. InOrder
    BY <1>2 DEF RequestInv, InOrder
  <2>2. AllTold
    BY <1>2 DEF RequestInv, AllTold
  <2>3. AttemptsLeft
    BY <1>2 DEF RequestInv, AttemptsLeft
  <2>4. \A r \in Requests : \A t \in Tasks(r) : attempt[t] <= Retries + 1
    <3> SUFFICES ASSUME NEW r \in Requests, NEW t \in Tasks(r)
                 PROVE  attempt[t] <= Retries + 1
      OBVIOUS
    <3>1. attempt[t] \in Nat /\ Retries \in Nat
      BY <1>2, ActorsOfRequests, LimitsAssumption DEF ServiceTypes
    <3>2. attempt[t] <= Retries + (IF act[t] \in Finished THEN 1 ELSE 0)
      BY <2>3 DEF AttemptsLeft
    <3>3. QED
      BY <3>1, <3>2
  <2>5. AllOrNothing
    BY <1>2, <2>4 DEF RequestInv, AllOrNothing
  <2>6. QED
    BY <2>1, <2>2, <2>3, <2>5
<1>3. QED
  BY <1>1, <1>2 DEF ServiceInv, EachRequest

(* Nothing of a request has changed. *)
Untouched(q) ==
  /\ handler'[q] = handler[q] /\ reply'[q] = reply[q] /\ (q \in expired' <=> q \in expired)
  /\ \A a \in Actors : a[1] = q =>
       act'[a] = act[a] /\ attempt'[a] = attempt[a] /\ (a \in asked' <=> a \in asked)

(* Then its part of the invariant goes on to hold. *)
LEMMA UntouchedKeeps ==
  ASSUME NEW q \in Requests, RequestInv(q), Untouched(q)
  PROVE  RequestInv(q)'
<1>1. /\ Tasks(q)' = Tasks(q) /\ Observer(q)' = Observer(q) /\ Actors' = Actors
      /\ Ended' = Ended /\ Finished' = Finished
  BY DEF Tasks, Observer, Actors, Ended, Finished
<1>2. /\ Observer(q) \in Actors /\ Observer(q)[1] = q
      /\ \A t \in Tasks(q) : t \in Actors /\ t[1] = q
  BY ActorsOfRequests
<1>3. /\ act'[Observer(q)] = act[Observer(q)] /\ (Observer(q) \in asked' <=> Observer(q) \in asked)
      /\ \A t \in Tasks(q) :
           act'[t] = act[t] /\ attempt'[t] = attempt[t] /\ (t \in asked' <=> t \in asked)
  BY <1>2 DEF Untouched
<1>4. /\ AllVerified(q)' = AllVerified(q) /\ SomeFailed(q)' = SomeFailed(q)
      /\ SomeCancelled(q)' = SomeCancelled(q) /\ Settled(q)' = Settled(q)
  BY <1>1, <1>3 DEF AllVerified, SomeFailed, SomeCancelled, Settled
<1>5. /\ Unfinished(q)' = Unfinished(q)
      /\ Unfinished(q) \subseteq asked => Unfinished(q) \subseteq asked'
  BY <1>1, <1>3 DEF Unfinished
<1>6. Gathered(q)' = Gathered(q)
  BY <1>4 DEF Gathered
<1>7. (\E a \in Actors : a[1] = q /\ act[a] = "cancelled") =>
        \E a \in Actors : a[1] = q /\ act'[a] = "cancelled"
  BY DEF Untouched
<1>8. handler'[q] = handler[q] /\ reply'[q] = reply[q] /\ (q \in expired' <=> q \in expired)
  BY DEF Untouched
<1>9. QED
  BY <1>1, <1>3, <1>4, <1>5, <1>6, <1>7, <1>8 DEF RequestInv

(* A step of one request keeps the invariant if it keeps its own part. *)
LEMMA RequestMoves ==
  ASSUME ServiceInv, NEW r \in Requests,
         ServiceTypes', QueueOfWaiters', AskedGoOn', SlotsBalanced', RequestInv(r)',
         \A q \in Requests \ {r} : Untouched(q)
  PROVE  ServiceInv'
<1>1. ASSUME NEW q \in Requests \ {r}  PROVE RequestInv(q)'
  <2>1. RequestInv(q)
    BY InvByRequest DEF EachRequest
  <2>2. QED
    BY <2>1, UntouchedKeeps
<1>2. EachRequest'
  BY <1>1 DEF EachRequest
<1>3. QED
  BY <1>2, InvByRequest, PTL

(* A step that only moves its handler. *)
LEMMA HandlerMoves ==
  ASSUME ServiceInv, NEW r \in Requests, NEW s \in Places, Goto(r, s),
         reply' \in [Requests -> Replies], \A q \in Requests \ {r} : reply'[q] = reply[q],
         UNCHANGED <<expired, taskVars>>,
         RequestInv(r)'
  PROVE  ServiceInv'
<1>1. /\ handler' = [handler EXCEPT ![r] = s] /\ expired' = expired /\ asked' = asked
      /\ act' = act /\ attempt' = attempt /\ waiters' = waiters /\ slots' = slots
  BY DEF Goto, taskVars, semVars
<1>2. ServiceTypes /\ QueueOfWaiters /\ AskedGoOn /\ SlotsBalanced
  BY DEF ServiceInv
<1>3. ServiceTypes'
  BY <1>1, <1>2 DEF ServiceTypes
<1>4. QueueOfWaiters' /\ AskedGoOn' /\ SlotsBalanced'
  BY <1>1, <1>2
  DEF QueueOfWaiters, AskedGoOn, SlotsBalanced, Holding, Actors, Tasks, Observer, Ended
<1>5. \A q \in Requests \ {r} : Untouched(q)
  BY <1>1, <1>2 DEF Untouched, ServiceTypes
<1>6. QED
  BY <1>3, <1>4, <1>5, RequestMoves

(* The tasks of a request are created only once. *)
LEMMA SpreadKeeps ==
  ASSUME ServiceInv, NEW r \in Requests, Spread(r),
         UNCHANGED <<reply, expired, asked, attempt, waiters, slots>>,
         r \notin expired, act[Observer(r)] \in Ended, \A t \in Tasks(r) : act[t] = "none"
  PROVE  ServiceInv'
<1>1. /\ handler' = [handler EXCEPT ![r] = "gathering"]
      /\ act' = [a \in Actors |-> IF a \in Tasks(r) THEN "created" ELSE act[a]]
      /\ reply' = reply /\ expired' = expired /\ asked' = asked /\ attempt' = attempt
      /\ waiters' = waiters /\ slots' = slots
  BY DEF Spread, Goto
<1>2. ServiceTypes /\ QueueOfWaiters /\ AskedGoOn /\ SlotsBalanced /\ RequestInv(r)
  BY InvByRequest DEF EachRequest
<1>3. ServiceTypes'
  BY <1>1, <1>2 DEF ServiceTypes, Places, Stages
<1>4. ASSUME NEW a \in Actors, act[a] # "none"  PROVE act'[a] = act[a]
  BY <1>1, <1>4
<1>5. QueueOfWaiters'
  <2>1. \A i \in DOMAIN waiters : waiters[i] \in Actors
    BY <1>2, LenProperties, ElementOfSeq DEF ServiceTypes
  <2>2. QED
    BY <1>1, <1>2, <1>4, <2>1 DEF QueueOfWaiters
<1>6. AskedGoOn'
  BY <1>1, <1>2, <1>4 DEF AskedGoOn, ServiceTypes, Ended
<1>7. SlotsBalanced'
  <2>1. Holding' = Holding
    <3>1. ASSUME NEW a \in Actors
          PROVE  act'[a] \in {"granted", "calling"} <=> act[a] \in {"granted", "calling"}
      BY <1>1
    <3>2. Actors' = Actors
      BY DEF Actors, Tasks, Observer
    <3>3. QED
      BY <3>1, <3>2 DEF Holding
  <2>2. QED
    BY <1>1, <1>2, <2>1 DEF SlotsBalanced
<1>8. \A q \in Requests \ {r} : Untouched(q)
  <2> SUFFICES ASSUME NEW q \in Requests \ {r}, NEW a \in Actors, a[1] = q
               PROVE  act'[a] = act[a] /\ handler'[q] = handler[q]
    BY <1>1, <1>2 DEF Untouched, ServiceTypes
  <2>1. a \notin Tasks(r)
    BY ActorsOfRequests
  <2>2. QED
    BY <1>1, <1>2, <2>1 DEF ServiceTypes
<1>9. RequestInv(r)'
  <2>1. /\ Observer(r) \in Actors /\ Observer(r) \notin Tasks(r)
        /\ \A t \in Tasks(r) : t \in Actors
    BY ActorsOfRequests
  <2>2. /\ act'[Observer(r)] \in Ended /\ handler'[r] = "gathering"
        /\ \A t \in Tasks(r) : act'[t] = "created"
    BY <1>1, <1>2, <2>1 DEF ServiceTypes
  <2>3. \A t \in Tasks(r) : attempt'[t] <= Retries + 0
    BY <1>1, <1>2 DEF RequestInv, Finished
  <2>4. Tasks(r)' = Tasks(r) /\ Observer(r)' = Observer(r)
    BY DEF Tasks, Observer
  <2>5. QED
    BY <1>1, <2>2, <2>3, <2>4 DEF RequestInv, Finished, Ended
<1>10. QED
  BY <1>3, <1>5, <1>6, <1>7, <1>8, <1>9, RequestMoves

(* Telling actors of a request that are under way to stop. *)
LEMMA AskMore ==
  ASSUME ServiceInv, NEW r \in Requests, NEW s \in Places,
         Goto(r, s) \/ UNCHANGED handler,
         reply' \in [Requests -> Replies], \A q \in Requests \ {r} : reply'[q] = reply[q],
         expired' \in SUBSET Requests, \A q \in Requests \ {r} : q \in expired' <=> q \in expired,
         NEW more \in SUBSET Actors, \A a \in more : a[1] = r /\ act[a] \notin Ended,
         asked' = asked \cup more,
         UNCHANGED <<semVars, attempt>>,
         RequestInv(r)'
  PROVE  ServiceInv'
<1>1. act' = act /\ attempt' = attempt /\ waiters' = waiters /\ slots' = slots
  BY DEF semVars
<1>2. ServiceTypes /\ QueueOfWaiters /\ AskedGoOn /\ SlotsBalanced
  BY DEF ServiceInv
<1>3. /\ handler' \in [Requests -> Places]
      /\ \A q \in Requests \ {r} : handler'[q] = handler[q]
  BY <1>2 DEF Goto, ServiceTypes
<1>4. ServiceTypes'
  BY <1>1, <1>2, <1>3 DEF ServiceTypes, Actors, Tasks, Observer
<1>5. QueueOfWaiters' /\ SlotsBalanced'
  BY <1>1, <1>2 DEF QueueOfWaiters, SlotsBalanced, Holding, Actors, Tasks, Observer
<1>6. AskedGoOn'
  BY <1>1, <1>2 DEF AskedGoOn, Ended
<1>7. \A q \in Requests \ {r} : Untouched(q)
  BY <1>1, <1>3 DEF Untouched
<1>8. QED
  BY <1>4, <1>5, <1>6, <1>7, RequestMoves

(* What the handler cancels before it waits again is all that is left. *)
LEMMA CollectKeeps ==
  ASSUME ServiceInv, NEW r \in Requests, Collect(r)
  PROVE  ServiceInv'
<1>1. /\ handler[r] = "gathering" /\ handler' = [handler EXCEPT ![r] = "cleaning"]
      /\ asked' = asked \cup Unfinished(r) /\ expired' = expired
      /\ act' = act /\ attempt' = attempt /\ UNCHANGED <<semVars, attempt>>
  BY DEF Collect, Goto, Siblings, semVars
<1>2. PICK o \in {"answer", "error", "timeout", "dropped"} :
        /\ reply' = [reply EXCEPT ![r] = o]
        /\ \/ AllVerified(r) /\ r \notin expired /\ o = "answer"
           \/ SomeFailed(r) /\ o = "error"
           \/ r \in expired /\ o = "timeout"
           \/ r \notin expired /\ SomeCancelled(r) /\ o = "dropped"
  BY DEF Collect, Outcome, Interrupted
<1>3. ServiceTypes /\ RequestInv(r)
  BY InvByRequest DEF EachRequest
<1>4. /\ handler'[r] = "cleaning" /\ reply'[r] = o
      /\ reply' \in [Requests -> Replies] /\ \A q \in Requests \ {r} : reply'[q] = reply[q]
  BY <1>1, <1>2, <1>3 DEF ServiceTypes, Replies
<1>5. /\ \A t \in Tasks(r) : t \in Actors /\ t[1] = r
      /\ \A t \in Unfinished(r) : t \in Actors /\ t[1] = r /\ act[t] \notin Ended
  BY ActorsOfRequests DEF Unfinished
<1>6. RequestInv(r)'
  <2>1. /\ Tasks(r)' = Tasks(r) /\ Observer(r)' = Observer(r) /\ Unfinished(r)' = Unfinished(r)
        /\ SomeFailed(r)' = SomeFailed(r) /\ Actors' = Actors /\ Ended' = Ended
    BY <1>1 DEF Tasks, Observer, Unfinished, SomeFailed, Actors, Ended
  <2>2. o = "answer" => r \notin expired /\ \A t \in Tasks(r) : act[t] = "verified"
    BY <1>2 DEF AllVerified
  <2>3. o = "dropped" => \E a \in Actors : a[1] = r /\ act[a] = "cancelled"
    BY <1>2, <1>5 DEF SomeCancelled
  <2>4. /\ act[Observer(r)] \in Ended /\ \A t \in Tasks(r) : act[t] # "none"
        /\ \A t \in Tasks(r) : attempt[t] <= Retries + (IF act[t] \in Finished THEN 1 ELSE 0)
    BY <1>1, <1>3 DEF RequestInv
  <2>5. o = "error" => SomeFailed(r)
    BY <1>2
  <2>6. (o = "timeout" => r \in expired) /\ o # "none"
    BY <1>2
  <2>7. Unfinished(r) \subseteq asked'
    BY <1>1
  <2>8. QED
    BY <1>1, <1>4, <2>1, <2>2, <2>3, <2>4, <2>5, <2>6, <2>7 DEF RequestInv, Finished
<1>7. Goto(r, "cleaning") /\ expired' \in SUBSET Requests /\ Unfinished(r) \in SUBSET Actors
  BY <1>1, <1>3, <1>5 DEF Goto, ServiceTypes
<1>8. QED
  BY <1>1, <1>4, <1>5, <1>6, <1>7, AskMore DEF Places

(* The deadline reaches all that is left, or the handler gives up anyway. *)
LEMMA ExpireKeeps ==
  ASSUME ServiceInv, NEW r \in Requests, Expire(r)
  PROVE  ServiceInv'
<1>1. /\ \/ handler[r] \in {"validating", "gathering", "cleaning"}
         \/ handler[r] = "observing" /\ act[Observer(r)] \notin Ended
      /\ expired' = expired \cup {r} /\ asked' = asked \cup Reached(r)
      /\ reply' = [reply EXCEPT ![r] = IF handler[r] = "cleaning" THEN "timeout" ELSE @]
      /\ handler' = handler /\ act' = act /\ attempt' = attempt /\ UNCHANGED <<semVars, attempt>>
  BY DEF Expire, semVars
<1>2. ServiceTypes /\ RequestInv(r)
  BY InvByRequest DEF EachRequest
<1>3. /\ reply' \in [Requests -> Replies] /\ \A q \in Requests \ {r} : reply'[q] = reply[q]
      /\ handler[r] = "cleaning" => reply'[r] = "timeout"
  BY <1>1, <1>2 DEF ServiceTypes, Replies
<1>4. /\ Observer(r) \in Actors /\ Observer(r)[1] = r
      /\ \A t \in Tasks(r) : t \in Actors /\ t[1] = r
  BY ActorsOfRequests
<1>5. Reached(r) \in SUBSET Actors /\ \A a \in Reached(r) : a[1] = r /\ act[a] \notin Ended
  BY <1>1, <1>4 DEF Reached, Unfinished
<1>6. RequestInv(r)'
  <2>1. /\ Tasks(r)' = Tasks(r) /\ Observer(r)' = Observer(r) /\ Unfinished(r)' = Unfinished(r)
        /\ Actors' = Actors /\ Ended' = Ended /\ Gathered(r)' = Gathered(r)
    BY <1>1 DEF Tasks, Observer, Unfinished, Actors, Ended, Gathered, AllVerified, SomeFailed,
                SomeCancelled
  <2>2. /\ handler'[r] = handler[r] /\ handler[r] \notin {"idle", "done"} /\ r \in expired'
        /\ act' = act /\ attempt' = attempt
    BY <1>1
  <2>3. handler[r] = "observing" => Observer(r) \in asked'
    BY <1>1 DEF Reached
  <2>4. handler[r] = "gathering" => Gathered(r) \/ Unfinished(r) \subseteq asked'
    BY <1>1 DEF Reached
  <2>5. handler[r] = "cleaning" => Unfinished(r) \subseteq asked'
    BY <1>1 DEF Reached
  <2>6. RequestInv(r)
    BY <1>2
  <2>7. QED
    BY <1>3, <2>1, <2>2, <2>3, <2>4, <2>5, <2>6 DEF RequestInv, Finished
<1>7. expired' \in SUBSET Requests /\ \A q \in Requests \ {r} : q \in expired' <=> q \in expired
  BY <1>1, <1>2 DEF ServiceTypes
<1>8. QED
  BY <1>1, <1>3, <1>5, <1>6, <1>7, AskMore DEF Places

(* The handler queues for the semaphore like one of its tasks. *)
LEMMA ObserveKeeps ==
  ASSUME ServiceInv, NEW r \in Requests, Observe(r)
  PROVE  ServiceInv'
<1> DEFINE a == Observer(r)
<1>1. /\ handler[r] = "validating" /\ r \notin expired
      /\ handler' = [handler EXCEPT ![r] = "observing"] /\ Acquire(a)
      /\ reply' = reply /\ expired' = expired /\ asked' = asked /\ attempt' = attempt
  BY DEF Observe, Goto
<1>2. /\ ServiceTypes /\ QueueOfWaiters /\ AskedGoOn /\ SlotsBalanced /\ RequestInv(r)
      /\ act[a] = "none" /\ \A t \in Tasks(r) : act[t] = "none"
  BY <1>1, InvByRequest DEF EachRequest, RequestInv
<1>3. /\ a \in Actors /\ a[1] = r /\ a \notin Tasks(r)
      /\ \A t \in Tasks(r) : t \in Actors /\ t[1] = r
  BY ActorsOfRequests
<1> HIDE DEF a
<1>4. Passes(a) /\ act'[a] \in {"waiting", "calling"} /\ ~Plain(a)
  BY <1>1, <1>2, <1>3, AcquirePasses DEF Plain
<1>5. /\ act' \in [Actors -> Stages] /\ slots' \in Nat /\ SlotsBalanced'
      /\ waiters' \in Seq(Actors) /\ QueueOfWaiters'
  BY <1>2, <1>3, <1>4, PassesKeep
<1>6. \A b \in Actors \ {a} : act'[b] = act[b]
  BY <1>1, <1>2, <1>3 DEF Acquire, ServiceTypes
<1>7. ServiceTypes'
  <2>1. handler' \in [Requests -> Places]
    BY <1>1, <1>2 DEF ServiceTypes, Places
  <2>2. Actors' = Actors
    BY DEF Actors, Tasks, Observer
  <2>3. QED
    BY <1>1, <1>2, <1>5, <2>1, <2>2 DEF ServiceTypes
<1>8. AskedGoOn'
  <2> SUFFICES ASSUME NEW b \in asked  PROVE act'[b] \notin Ended
    BY <1>1 DEF AskedGoOn, Ended
  <2>1. b \in Actors /\ act[b] \notin Ended
    BY <1>2 DEF AskedGoOn, ServiceTypes
  <2>2. b # a
    BY <1>2, <2>1 DEF Ended
  <2>3. QED
    BY <1>6, <2>1, <2>2
<1>9. \A q \in Requests \ {r} : Untouched(q)
  BY <1>1, <1>2, <1>3, <1>6 DEF Untouched, ServiceTypes
<1>10. RequestInv(r)'
  <2>1. Tasks(r)' = Tasks(r)
    BY DEF Tasks
  <2>2. /\ handler'[r] = "observing" /\ \A t \in Tasks(r) : act'[t] = "none"
    BY <1>1, <1>2, <1>3, <1>6 DEF ServiceTypes
  <2>3. \A t \in Tasks(r) : attempt'[t] <= Retries + 0
    BY <1>1, <1>2 DEF RequestInv, Finished
  <2>4. QED
    BY <1>1, <2>1, <2>2, <2>3 DEF RequestInv, Finished
<1>11. QED
  BY <1>5, <1>7, <1>8, <1>9, <1>10, RequestMoves

(* A step of a handler keeps the invariant. *)
LEMMA RequestStepKeeps ==
  ASSUME ServiceInv, NEW r \in Requests, RequestStep(r)
  PROVE  ServiceInv'
<1>1. ServiceTypes /\ RequestInv(r)
  BY InvByRequest DEF EachRequest
<1>2. /\ Tasks(r)' = Tasks(r) /\ Observer(r)' = Observer(r) /\ Actors' = Actors
      /\ Ended' = Ended /\ Finished' = Finished
      /\ Observer(r) \in Actors /\ Observer(r)[1] = r
  BY ActorsOfRequests DEF Tasks, Observer, Actors, Ended, Finished
<1>3. CASE Evaluate(r)
  <2>1. /\ Spread(r) /\ UNCHANGED <<reply, expired, asked, attempt, waiters, slots>>
        /\ handler[r] = "idle"
    BY <1>3 DEF Evaluate
  <2>2. /\ r \notin expired /\ act[Observer(r)] \in Ended
        /\ \A t \in Tasks(r) : act[t] = "none"
    BY <1>1, <2>1 DEF RequestInv, Ended
  <2>3. QED
    BY <2>1, <2>2, SpreadKeeps
<1>4. CASE Observed(r)
  <2>1. /\ Spread(r) /\ UNCHANGED <<reply, expired, asked, attempt, waiters, slots>>
        /\ handler[r] = "observing" /\ act[Observer(r)] = "verified"
    BY <1>4 DEF Observed
  <2>2. Observer(r) \notin asked
    BY <2>1 DEF ServiceInv, AskedGoOn, Ended
  <2>3. r \notin expired /\ \A t \in Tasks(r) : act[t] = "none"
    BY <1>1, <2>1, <2>2 DEF RequestInv
  <2>4. QED
    BY <2>1, <2>3, SpreadKeeps DEF Ended
<1>5. CASE RefuseModel(r) \/ NotObserved(r)
  <2>1. /\ handler[r] \in {"idle", "validating"} /\ handler' = [handler EXCEPT ![r] = "done"]
        /\ UNCHANGED <<expired, taskVars>>
    BY <1>5 DEF RefuseModel, NotObserved, Goto
  <2>2. PICK o \in {"error", "timeout"} :
          reply' = [reply EXCEPT ![r] = o] /\ (o = "timeout" => r \in expired)
    BY <1>5 DEF RefuseModel, NotObserved, Outcome
  <2>3. /\ handler'[r] = "done" /\ reply'[r] = o
        /\ reply' \in [Requests -> Replies] /\ \A q \in Requests \ {r} : reply'[q] = reply[q]
    BY <1>1, <2>1, <2>2 DEF ServiceTypes, Replies
  <2>4. /\ act' = act /\ attempt' = attempt /\ expired' = expired
        /\ act[Observer(r)] = "none" /\ \A t \in Tasks(r) : act[t] = "none"
        /\ \A t \in Tasks(r) : attempt[t] <= Retries + (IF act[t] \in Finished THEN 1 ELSE 0)
    BY <1>1, <2>1 DEF RequestInv, taskVars, semVars
  <2>5. RequestInv(r)'
    BY <1>2, <2>2, <2>3, <2>4 DEF RequestInv, Settled, Ended, Finished
  <2>6. Goto(r, "done") /\ "done" \in Places
    BY <2>1 DEF Goto, Places
  <2>7. QED
    BY <2>1, <2>3, <2>5, <2>6, HandlerMoves
<1>6. CASE EvaluateVision(r)
  <2>1. /\ handler[r] = "idle" /\ handler' = [handler EXCEPT ![r] = "validating"]
        /\ reply' = reply /\ UNCHANGED <<expired, taskVars>>
    BY <1>6 DEF EvaluateVision, Goto
  <2>2. /\ handler'[r] = "validating"
        /\ reply' \in [Requests -> Replies] /\ \A q \in Requests \ {r} : reply'[q] = reply[q]
    BY <1>1, <2>1 DEF ServiceTypes
  <2>3. /\ act' = act /\ attempt' = attempt /\ expired' = expired
        /\ act[Observer(r)] = "none" /\ \A t \in Tasks(r) : act[t] = "none"
        /\ \A t \in Tasks(r) : attempt[t] <= Retries + (IF act[t] \in Finished THEN 1 ELSE 0)
    BY <1>1, <2>1 DEF RequestInv, taskVars, semVars
  <2>4. RequestInv(r)'
    BY <1>2, <2>2, <2>3 DEF RequestInv, Finished
  <2>5. Goto(r, "validating") /\ "validating" \in Places
    BY <2>1 DEF Goto, Places
  <2>6. QED
    BY <2>1, <2>2, <2>4, <2>5, HandlerMoves
<1>7. CASE ObservationFails(r)
  <2>1. /\ handler[r] = "observing" /\ handler' = [handler EXCEPT ![r] = "done"]
        /\ act[Observer(r)] \in {"failed", "cancelled"} /\ UNCHANGED <<expired, taskVars>>
    BY <1>7 DEF ObservationFails, Goto
  <2>2. PICK o \in {"error", "timeout", "dropped"} :
          /\ reply' = [reply EXCEPT ![r] = o] /\ (o = "timeout" => r \in expired)
          /\ o = "dropped" => act[Observer(r)] = "cancelled"
    BY <1>7 DEF ObservationFails, Outcome, Interrupted
  <2>3. /\ handler'[r] = "done" /\ reply'[r] = o
        /\ reply' \in [Requests -> Replies] /\ \A q \in Requests \ {r} : reply'[q] = reply[q]
    BY <1>1, <2>1, <2>2 DEF ServiceTypes, Replies
  <2>4. /\ act' = act /\ attempt' = attempt /\ expired' = expired
        /\ \A t \in Tasks(r) : act[t] = "none"
        /\ \A t \in Tasks(r) : attempt[t] <= Retries + (IF act[t] \in Finished THEN 1 ELSE 0)
    BY <1>1, <2>1 DEF RequestInv, taskVars, semVars
  <2>5. o = "dropped" => \E a \in Actors : a[1] = r /\ act[a] = "cancelled"
    BY <1>2, <2>2
  <2>6. RequestInv(r)'
    BY <1>2, <2>1, <2>2, <2>3, <2>4, <2>5 DEF RequestInv, Settled, Ended, Finished
  <2>7. Goto(r, "done") /\ "done" \in Places
    BY <2>1 DEF Goto, Places
  <2>8. QED
    BY <2>1, <2>3, <2>6, <2>7, HandlerMoves
<1>8. CASE Finish(r)
  <2>1. /\ handler[r] = "cleaning" /\ handler' = [handler EXCEPT ![r] = "done"] /\ Settled(r)
        /\ reply' = reply /\ UNCHANGED <<expired, taskVars>>
    BY <1>8 DEF Finish, Goto, Clean
  <2>2. /\ handler'[r] = "done"
        /\ reply' \in [Requests -> Replies] /\ \A q \in Requests \ {r} : reply'[q] = reply[q]
    BY <1>1, <2>1 DEF ServiceTypes
  <2>3. /\ act' = act /\ attempt' = attempt /\ expired' = expired /\ asked' = asked
        /\ act[Observer(r)] \in Ended
    BY <1>1, <2>1 DEF RequestInv, taskVars, semVars
  <2>4. Settled(r)' = Settled(r) /\ SomeFailed(r)' = SomeFailed(r)
    BY <1>2, <2>3 DEF Settled, SomeFailed
  <2>5. RequestInv(r)'
    BY <1>1, <1>2, <2>1, <2>2, <2>3, <2>4 DEF RequestInv
  <2>6. Goto(r, "done") /\ "done" \in Places
    BY <2>1 DEF Goto, Places
  <2>7. QED
    BY <2>1, <2>2, <2>5, <2>6, HandlerMoves
<1>9. QED
  BY <1>3, <1>4, <1>5, <1>6, <1>7, <1>8, CollectKeeps, ExpireKeeps, ObserveKeeps
     DEF RequestStep, Call, Serve

-----------------------------------------------------------------------------
(* The service under any engine. *)

(* Whatever the engine does, the service only takes its own steps. *)
LEMMA ServiceSteps ==
  [ServerNext]_allVars =>
    \/ \E r \in Requests : RequestStep(r)
    \/ \E a \in Actors : ActorStep(a)
    \/ UNCHANGED vars
<1> SUFFICES ASSUME [ServerNext]_allVars
             PROVE  \/ \E r \in Requests : RequestStep(r)
                    \/ \E a \in Actors : ActorStep(a)
                    \/ UNCHANGED vars
  OBVIOUS
<1>1. CASE \E r \in Requests : Request(r)
  BY <1>1 DEF Request, RequestStep
<1>2. CASE Loop
  BY <1>2 DEF Loop, Answers, RequestStep, ActorStep
<1>3. CASE Upstream
  BY <1>3 DEF Upstream, Answers, ActorStep
<1>4. CASE Deadline
  BY <1>4 DEF Deadline, RequestStep
<1>5. CASE Thread \/ Close \/ Shutdown \/ Ready \/ ProbeEnds
  BY <1>5 DEF Thread, Generate, Generated, LoadEnds, Close, Shutdown, CancelQueued, Closed, Ready,
              ProbeEnds
<1>6. CASE Rest \/ UNCHANGED allVars
  BY <1>6 DEF Rest, allVars
<1>7. QED
  BY <1>1, <1>2, <1>3, <1>4, <1>5, <1>6 DEF ServerNext

(* The invariant holds when the process starts. *)
LEMMA ServiceInitInv == Init => ServiceInv
<1> SUFFICES ASSUME Init  PROVE ServiceInv
  OBVIOUS
<1>1. ServiceTypes
  BY LimitsAssumption DEF Init, ServiceTypes, Places, Replies, Stages
<1>2. QueueOfWaiters /\ AskedGoOn
  BY DEF Init, QueueOfWaiters, AskedGoOn
<1>3. SlotsBalanced
  <2>1. Holding = {}
    BY DEF Init, Holding
  <2>2. QED
    BY <2>1, FS_EmptySet, LimitsAssumption DEF Init, SlotsBalanced
<1>4. ASSUME NEW r \in Requests  PROVE RequestInv(r)
  <2>1. /\ act[Observer(r)] = "none" /\ handler[r] = "idle" /\ r \notin expired
        /\ \A t \in Tasks(r) : act[t] = "none" /\ attempt[t] = 0
    BY ActorsOfRequests DEF Init
  <2>2. QED
    BY <2>1, LimitsAssumption DEF RequestInv, Finished
<1>5. QED
  BY <1>1, <1>2, <1>3, <1>4, InvByRequest DEF EachRequest

(* A step that leaves the service alone keeps its invariant. *)
LEMMA ServiceIdle == ServiceInv /\ UNCHANGED vars => ServiceInv'
<1> SUFFICES ASSUME ServiceInv, UNCHANGED vars  PROVE ServiceInv'
  OBVIOUS
<1>1. /\ ServiceTypes' /\ QueueOfWaiters' /\ AskedGoOn' /\ SlotsBalanced'
  BY DEF ServiceInv, ServiceTypes, QueueOfWaiters, AskedGoOn, SlotsBalanced, Holding, Actors,
         Tasks, Observer, Ended, vars
<1>2. \A q \in Requests : Untouched(q)
  BY DEF Untouched, vars
<1>3. \A q \in Requests : RequestInv(q)'
  BY <1>2, UntouchedKeeps, InvByRequest DEF EachRequest
<1>4. EachRequest'
  BY <1>1, <1>3 DEF EachRequest
<1>5. QED
  BY <1>4, InvByRequest, PTL

(* The types, the account of the slots, the queue of the semaphore and the *)
(* stage of every request stay as they must, for any number of requests,   *)
(* questions, slots and repairs, and whatever the engine answers.          *)
THEOREM ServiceInvariance == ServerSpec => []ServiceInv
<1>1. ServerInit => ServiceInv
  BY ServiceInitInv DEF ServerInit
<1>2. ServiceInv /\ [ServerNext]_allVars => ServiceInv'
  BY ServiceSteps, ActorStepKeeps, RequestStepKeeps, ServiceIdle
<1>3. QED
  BY <1>1, <1>2, PTL DEF ServerSpec

(* Every slot of the semaphore is free or held by one actor, under any     *)
(* order of cancellations, failures, retries and wakeups.                  *)
THEOREM SlotsExact == ServerSpec => []SlotsBalanced
<1>1. ServiceInv => SlotsBalanced
  BY DEF ServiceInv
<1>2. QED
  BY <1>1, ServiceInvariance, PTL

(* So the backend never sees more than max_concurrency calls at a time.    *)
LEMMA FewHold ==
  ASSUME ServiceInv
  PROVE  IsFiniteSet(Holding) /\ Cardinality(Holding) <= MaxConcurrency
<1>1. Holding \in SUBSET Actors
  BY DEF Holding
<1>2. IsFiniteSet(Holding) /\ Cardinality(Holding) \in Nat
  BY <1>1, ActorsAreFinite, FS_Subset, FS_CardinalityType
<1>3. slots \in Nat /\ slots + Cardinality(Holding) = MaxConcurrency
  BY DEF ServiceInv, ServiceTypes, SlotsBalanced
<1>4. QED
  BY <1>2, <1>3, LimitsAssumption

(* When a request is over none of its work is left, anywhere.              *)
THEOREM WorkEndsWithRequest == ServerSpec => []NothingLeaks
<1>1. ASSUME ServiceInv  PROVE NothingLeaks
  <2> SUFFICES ASSUME NEW r \in Requests, handler[r] = "done", NEW a \in Actors, a[1] = r
               PROVE  act[a] \in Ended /\ a \notin asked /\ a \notin ToSet(waiters)
    BY DEF NothingLeaks
  <2>1. act[Observer(r)] \in Ended /\ \A t \in Tasks(r) : act[t] \in Ended
    BY <1>1, InvByRequest DEF EachRequest, RequestInv, Settled
  <2>2. act[a] \in Ended
    BY <2>1, ActorsOfRequests
  <2>3. a \notin asked
    BY <1>1, <2>2 DEF ServiceInv, AskedGoOn
  <2>4. a \notin ToSet(waiters)
    BY <1>1, <2>2 DEF ServiceInv, QueueOfWaiters, ToSet, Ended
  <2>5. QED
    BY <2>2, <2>3, <2>4
<1>2. QED
  BY <1>1, ServiceInvariance, PTL

(* An answer is complete, an error has a cause, and no question is asked   *)
(* more often than validation_retries allows.                              *)
THEOREM AnswersAreWhole == ServerSpec => []AllOrNothing
<1>1. ServiceInv => AllOrNothing
  BY DEF ServiceInv
<1>2. QED
  BY <1>1, ServiceInvariance, PTL

(* No prompt is sent for a request that has given up.                      *)
THEOREM GivenUpMeansSilent == ServerSpec => NoCallAfterFailure
<1> DEFINE NewPrompt(a) == act'[a] = "calling" /\ (act[a] # "calling" \/ attempt'[a] # attempt[a])
           Asking(a) == /\ handler[a[1]] \in {"validating", "observing", "gathering"}
                        /\ a[1] \in expired => Gathered(a[1])
<1>1. ASSUME ServiceInv, NEW b \in Actors, ActorStep(b), NEW a \in Actors, NewPrompt(a)
      PROVE  Asking(a)
  <2>1. ServiceTypes /\ QueueOfWaiters /\ SlotsBalanced /\ AskedGoOn
    BY <1>1 DEF ServiceInv
  <2>2. Passes(b) /\ ~Plain(b) /\ Advances(b)
    BY <1>1, <2>1, ActorAdvances
  <2>3. a = b
    BY <1>1, <2>1, <2>2, PassesKeep DEF Advances
  <2>4. act[a] \notin Ended /\ a \notin asked
    BY <1>1, <2>2, <2>3 DEF Advances
  <2>5. a[1] \in Requests /\ (a = Observer(a[1]) \/ a \in Tasks(a[1]))
    BY ActorsOfRequests
  <2>6. RequestInv(a[1]) /\ handler[a[1]] \in Places
    BY <1>1, <2>1, <2>5, InvByRequest DEF EachRequest, ServiceTypes
  <2>7. handler[a[1]] \in {"observing", "gathering"}
    BY <2>4, <2>5, <2>6 DEF RequestInv, Places, Settled, Unfinished, Ended
  <2>8. a[1] \in expired => Gathered(a[1])
    BY <2>4, <2>5, <2>6, <2>7 DEF RequestInv, Unfinished, Ended
  <2>9. QED
    BY <2>7, <2>8
<1>2. ASSUME ServiceInv, NEW r \in Requests, RequestStep(r), NEW a \in Actors, NewPrompt(a)
      PROVE  Asking(a)
  <2>1. ServiceTypes
    BY <1>1, <1>2 DEF ServiceInv
  <2>2. CASE Observe(r)
    <3>1. /\ handler[r] = "validating" /\ r \notin expired /\ attempt' = attempt
          /\ Acquire(Observer(r))
      BY <2>2 DEF Observe
    <3>2. act[Observer(r)] = "none"
      BY <1>2, <3>1, InvByRequest DEF EachRequest, RequestInv
    <3>3. a = Observer(r)
      BY <1>2, <2>1, <3>1 DEF Acquire, ServiceTypes
    <3>4. QED
      BY <3>1, <3>3, ActorsOfRequests
  <2>3. CASE Evaluate(r) \/ Observed(r)
    <3>1. /\ act' = [b \in Actors |-> IF b \in Tasks(r) THEN "created" ELSE act[b]]
          /\ attempt' = attempt
      BY <2>3 DEF Evaluate, Observed, Spread
    <3>2. QED
      BY <1>2, <3>1
  <2>4. CASE act' = act /\ attempt' = attempt
    BY <1>2, <2>4
  <2>5. QED
    BY <1>2, <2>2, <2>3, <2>4
       DEF RequestStep, Call, Serve, RefuseModel, EvaluateVision, NotObserved, ObservationFails,
           Collect, Finish, Expire, taskVars, semVars
<1>3. ASSUME UNCHANGED vars, NEW a \in Actors, NewPrompt(a)  PROVE Asking(a)
  BY <1>3 DEF vars
<1>4. ServiceInv /\ [ServerNext]_allVars => [\A a \in Actors : NewPrompt(a) => Asking(a)]_vars
  BY <1>1, <1>2, <1>3, ServiceSteps
<1>5. QED
  BY <1>4, ServiceInvariance, PTL DEF ServerSpec, NoCallAfterFailure

-----------------------------------------------------------------------------
(* The two engines behind the service. *)

(* Its inductive invariant: what the engine has of the service's calls. *)

EngineTypes ==
  /\ engine \in {"mlx", "http"} /\ phase \in {"loading", "serving", "stopping", "stopped"}
  /\ jobs \in Seq(Actors \cup {Probe}) /\ running \in Actors \cup {Nobody, Load}
  /\ result \in [Actors -> {"none", "completion", "error", "cancelled"}]

(* Queued work has a caller, is there once, and has neither begun nor      *)
(* ended.                                                                  *)
JobsAreCalls ==
  /\ \A i \in 1..Len(jobs) : jobs[i] # Probe =>
       act[jobs[i]] = "calling" /\ result[jobs[i]] = "none" /\ running # jobs[i]
  /\ \A i, j \in 1..Len(jobs) : jobs[i] = jobs[j] /\ jobs[i] # Probe => i = j

(* A result waits for its caller; what runs was called once, and whoever   *)
(* gave it up does not call again.                                         *)
ResultsAreCalls ==
  /\ \A a \in Actors : result[a] # "none" => act[a] = "calling" /\ running # a
  /\ running \in Actors => act[running] \in {"calling"} \cup Finished

(* Each engine keeps to its own way of working. *)
EnginesApart ==
  /\ engine = "mlx" => \A i \in 1..Len(jobs) : jobs[i] # Probe
  /\ engine = "http" => /\ running = Nobody /\ phase \in {"serving", "stopped"}
                        /\ \A a \in Actors : result[a] = "none"

EngineInv == EngineTypes /\ JobsAreCalls /\ ResultsAreCalls /\ EnginesApart

-----------------------------------------------------------------------------
(* Neither the loading of the model nor a probe is an actor. *)
LEMMA ActorsApart ==
  Probe \notin Actors /\ Nobody \notin Actors /\ Load \notin Actors
<1>1. ASSUME NEW a \in Actors  PROVE a # Probe /\ a # Nobody /\ a # Load
  <2>1. PICK x, y : a = <<x, y>>
    BY DEF Actors, Tasks, Observer
  <2>2. QED
    BY <2>1 DEF Probe, Nobody, Load
<1>2. QED
  BY <1>1

(* What a queue was made of, as far as it is actors' work. *)
LEMMA JobsFacts ==
  ASSUME EngineTypes
  PROVE  /\ Len(jobs) \in Nat /\ DOMAIN jobs = 1..Len(jobs)
         /\ \A i \in 1..Len(jobs) : jobs[i] \in Actors \cup {Probe}
BY LenProperties, ElementOfSeq DEF EngineTypes

(* Taking work out of the queue leaves work that was there. *)
LEMMA JobsShrink ==
  ASSUME EngineTypes, JobsAreCalls, NEW s \in Seq(Actors \cup {Probe}), From(s, jobs)
  PROVE  /\ \A i \in 1..Len(s) : \E k \in 1..Len(jobs) : s[i] = jobs[k]
         /\ \A i \in 1..Len(s) : s[i] # Probe =>
              act[s[i]] = "calling" /\ result[s[i]] = "none" /\ running # s[i]
         /\ \A i, j \in 1..Len(s) : s[i] = s[j] /\ s[i] # Probe => i = j
<1>1. PICK g \in [1..Len(s) -> 1..Len(jobs)] :
        /\ \A i, j \in 1..Len(s) : g[i] = g[j] => i = j
        /\ \A i \in 1..Len(s) : s[i] = jobs[g[i]]
  BY DEF From
<1>2. \A i \in 1..Len(s) : s[i] # Probe =>
        act[s[i]] = "calling" /\ result[s[i]] = "none" /\ running # s[i]
  BY <1>1 DEF JobsAreCalls
<1>3. ASSUME NEW i \in 1..Len(s), NEW j \in 1..Len(s), s[i] = s[j], s[i] # Probe
      PROVE  i = j
  <2>1. g[i] = g[j]
    BY <1>1, <1>3 DEF JobsAreCalls
  <2>2. QED
    BY <1>1, <2>1
<1>4. QED
  BY <1>1, <1>2, <1>3

-----------------------------------------------------------------------------
(* Steps of the service that take the engine along. *)

(* What such a step of actor a leaves alone: the other calls, and whoever  *)
(* runs or has run.                                                        *)
Polite(a) ==
  /\ \A b \in Actors \ {a} : act[b] \in {"calling"} \cup Finished => act'[b] = act[b]
  /\ running = a => ~Begun(a) /\ act'[a] \in {"calling"} \cup Finished

(* The queue and the results follow the calls. *)
LEMMA FollowKeeps ==
  ASSUME EngineInv, NEW a \in Actors, Follow(a), Polite(a)
  PROVE  EngineInv'
<1> DEFINE rest == IF Over(a) THEN RemoveFirst(jobs, a) ELSE jobs
           more == Begun(a) /\ Accepts(a)
           Kept == /\ jobs' \in Seq(Actors \cup {Probe}) /\ JobsAreCalls'
                   /\ \A i \in 1..Len(jobs') : jobs'[i] = Probe =>
                        \E k \in 1..Len(rest) : rest[k] = Probe
<1>1. /\ jobs' = IF more THEN Append(rest, a) ELSE rest
      /\ result' = [result EXCEPT ![a] = IF Over(a) THEN "none" ELSE @]
      /\ engine' = engine /\ phase' = phase /\ running' = running
  BY DEF Follow
<1>2. EngineTypes /\ JobsAreCalls /\ ResultsAreCalls /\ EnginesApart
  BY DEF EngineInv
<1>3. /\ Probe \notin Actors /\ a # Probe /\ Actors' = Actors /\ Finished' = Finished
      /\ Len(jobs) \in Nat /\ \A i \in 1..Len(jobs) : jobs[i] \in Actors \cup {Probe}
  BY <1>2, ActorsApart, JobsFacts DEF Actors, Tasks, Observer, Finished
<1>4. rest \in Seq(Actors \cup {Probe}) /\ From(rest, jobs)
      /\ (Over(a) => \A i \in 1..Len(rest) : rest[i] # a)
  <2>1. CASE Over(a)
    <3>1. \A i, j \in 1..Len(jobs) : jobs[i] = a /\ jobs[j] = a => i = j
      BY <1>2, <1>3 DEF JobsAreCalls
    <3>2. QED
      BY <1>2, <2>1, <3>1, RemoveFirstFrom DEF EngineTypes
  <2>2. CASE ~Over(a)
    <3> DEFINE g == [i \in 1..Len(jobs) |-> i]
    <3>1. g \in [1..Len(jobs) -> 1..Len(jobs)] /\ \A i \in 1..Len(jobs) : g[i] = i
      OBVIOUS
    <3>2. From(jobs, jobs)
      BY <3>1 DEF From
    <3>3. QED
      BY <1>2, <2>2, <3>2 DEF EngineTypes
  <2>3. QED
    BY <2>1, <2>2
<1> HIDE DEF rest, more, Kept
<1>5. /\ \A i \in 1..Len(rest) : \E k \in 1..Len(jobs) : rest[i] = jobs[k]
      /\ \A i \in 1..Len(rest) : rest[i] # Probe =>
           act[rest[i]] = "calling" /\ result[rest[i]] = "none" /\ running # rest[i]
      /\ \A i, j \in 1..Len(rest) : rest[i] = rest[j] /\ rest[i] # Probe => i = j
  BY <1>2, <1>4, JobsShrink
<1>6. Len(rest) \in Nat /\ \A i \in 1..Len(rest) : rest[i] \in Actors \cup {Probe}
  BY <1>4, LenProperties, ElementOfSeq
<1>7. \A b \in Actors : b # a => result'[b] = result[b]
  BY <1>1, <1>2 DEF EngineTypes
<1>8. result' \in [Actors -> {"none", "completion", "error", "cancelled"}]
      /\ (Over(a) => result'[a] = "none") /\ (~Over(a) => result'[a] = result[a])
  BY <1>1, <1>2 DEF EngineTypes
<1>9. act[a] = "calling" /\ ~Over(a) => act'[a] = "calling" /\ ~Begun(a)
  BY DEF Over, Begun
<1>10. ASSUME NEW b \in Actors, b # a, act[b] = "calling"  PROVE act'[b] = "calling"
  BY <1>10 DEF Polite
<1>11. ASSUME NEW i \in 1..Len(rest), rest[i] # Probe
       PROVE  act'[rest[i]] = "calling" /\ result'[rest[i]] = "none" /\ running # rest[i]
  <2>1. rest[i] \in Actors /\ act[rest[i]] = "calling" /\ result[rest[i]] = "none"
        /\ running # rest[i]
    BY <1>5, <1>6, <1>11
  <2>2. CASE rest[i] = a
    BY <1>4, <1>8, <1>9, <2>1, <2>2
  <2>3. CASE rest[i] # a
    BY <1>7, <1>10, <2>1, <2>3
  <2>4. QED
    BY <2>2, <2>3
<1>12. ASSUME more  PROVE Kept
  <2>1. jobs' = Append(rest, a)
    BY <1>1, <1>12
  <2>2. /\ jobs' \in Seq(Actors \cup {Probe}) /\ Len(jobs') = Len(rest) + 1
        /\ jobs'[Len(rest)+1] = a /\ \A i \in 1..Len(rest) : jobs'[i] = rest[i]
    BY <1>4, <1>6, <2>1, AppendProperties
  <2>3. /\ Begun(a) /\ act'[a] = "calling" /\ running # a /\ running' # a
        /\ Over(a) \/ act[a] # "calling"
    BY <1>1, <1>9, <1>12 DEF more, Begun, Polite
  <2>4. \A i \in 1..Len(rest) : rest[i] # a
    BY <1>3, <1>4, <1>5, <2>3
  <2>5. result'[a] = "none"
    BY <1>2, <1>8, <2>3 DEF ResultsAreCalls
  <2>6. ASSUME NEW i \in 1..Len(jobs'), jobs'[i] # Probe
        PROVE  act'[jobs'[i]] = "calling" /\ result'[jobs'[i]] = "none" /\ running' # jobs'[i]
    <3>1. CASE i = Len(rest) + 1
      BY <2>2, <2>3, <2>5, <3>1
    <3>2. CASE i # Len(rest) + 1
      <4>1. i \in 1..Len(rest) /\ jobs'[i] = rest[i]
        BY <1>6, <2>2, <3>2
      <4>2. QED
        BY <1>1, <1>11, <2>6, <4>1
    <3>3. QED
      BY <3>1, <3>2
  <2>7. ASSUME NEW i \in 1..Len(jobs'), NEW j \in 1..Len(jobs'), jobs'[i] = jobs'[j],
               jobs'[i] # Probe
        PROVE  i = j
    <3>1. CASE i # Len(rest)+1 /\ j # Len(rest)+1
      <4>1. i \in 1..Len(rest) /\ j \in 1..Len(rest)
        BY <1>6, <2>2, <3>1
      <4>2. rest[i] = rest[j] /\ rest[i] # Probe
        BY <2>2, <2>7, <4>1
      <4>3. QED
        BY <1>5, <4>1, <4>2
    <3>2. CASE i = Len(rest)+1 /\ j # Len(rest)+1
      <4>1. j \in 1..Len(rest) /\ jobs'[j] = rest[j] /\ jobs'[i] = a
        BY <1>6, <2>2, <3>2
      <4>2. QED
        BY <2>4, <2>7, <4>1
    <3>3. CASE j = Len(rest)+1 /\ i # Len(rest)+1
      <4>1. i \in 1..Len(rest) /\ jobs'[i] = rest[i] /\ jobs'[j] = a
        BY <1>6, <2>2, <3>3
      <4>2. QED
        BY <2>4, <2>7, <4>1
    <3>4. QED
      BY <3>1, <3>2, <3>3
  <2>8. \A i \in 1..Len(jobs') : jobs'[i] = Probe => \E k \in 1..Len(rest) : rest[k] = Probe
    BY <1>3, <1>6, <2>2
  <2>9. QED
    BY <2>2, <2>6, <2>7, <2>8 DEF Kept, JobsAreCalls, Probe
<1>13. ASSUME ~more  PROVE Kept
  <2>1. jobs' = rest
    BY <1>1, <1>13
  <2>2. QED
    BY <1>1, <1>4, <1>5, <1>11, <2>1 DEF Kept, JobsAreCalls, Probe
<1>14. Kept
  BY <1>12, <1>13
<1>15. EngineTypes'
  BY <1>1, <1>2, <1>3, <1>8, <1>14 DEF EngineTypes, Kept, Probe, Nobody, Load
<1>16. ResultsAreCalls'
  <2>1. ASSUME NEW b \in Actors, result'[b] # "none"
        PROVE  act'[b] = "calling" /\ running' # b
    <3>1. result[b] # "none" /\ (b = a => ~Over(a))
      BY <1>7, <1>8, <2>1
    <3>2. act[b] = "calling" /\ running # b
      BY <1>2, <3>1 DEF ResultsAreCalls
    <3>3. QED
      BY <1>1, <1>9, <1>10, <3>1, <3>2
  <2>2. running \in Actors => act'[running] \in {"calling"} \cup Finished
    BY <1>2 DEF ResultsAreCalls, Polite
  <2>3. QED
    BY <1>1, <1>3, <2>1, <2>2 DEF ResultsAreCalls
<1>17. EnginesApart'
  <2>1. engine = "mlx" => \A i \in 1..Len(jobs') : jobs'[i] # Probe
    BY <1>2, <1>5, <1>14 DEF Kept, EnginesApart
  <2>2. (\A b \in Actors : result[b] = "none") => \A b \in Actors : result'[b] = "none"
    BY <1>7, <1>8
  <2>3. QED
    BY <1>1, <1>2, <1>3, <2>1, <2>2 DEF EnginesApart, Probe, Nobody
<1>18. QED
  BY <1>14, <1>15, <1>16, <1>17 DEF EngineInv, Kept

(* A turn of the event loop or an answer is polite: in particular a        *)
(* question is only asked again after its completion, so never while the   *)
(* thread still works on it.                                               *)
LEMMA ActorPolite ==
  ASSUME ServiceInv, EngineInv, NEW a \in Actors, Turn(a) \/ Answers(a)
  PROVE  Polite(a)
<1>1. ServiceTypes /\ QueueOfWaiters /\ SlotsBalanced
  BY DEF ServiceInv
<1>2. EnginesApart /\ ResultsAreCalls /\ EngineTypes /\ JobsAreCalls
  BY DEF EngineInv
<1>3. ActorStep(a)
  BY DEF ActorStep, Answers
<1>4. Passes(a) /\ ~Plain(a) /\ Advances(a)
  BY <1>1, <1>3, ActorAdvances
<1>5. \A b \in Actors \ {a} : act'[b] = act[b] \/ (act[b] = "waiting" /\ act'[b] = "granted")
  BY <1>1, <1>4, PassesKeep
<1>6. \A b \in Actors \ {a} : act[b] \in {"calling"} \cup Finished => act'[b] = act[b]
  BY <1>5 DEF Finished
<1>7. ASSUME running = a  PROVE ~Begun(a) /\ act'[a] \in {"calling"} \cup Finished
  <2>1. act[a] = "calling"
    BY <1>2, <1>4, <1>7 DEF ResultsAreCalls, Advances, Finished, Ended
  <2>2. engine = "mlx" /\ result[a] = "none"
    BY <1>2, <1>7, ActorsApart DEF EnginesApart, ResultsAreCalls, EngineTypes
  <2>3. ~Connected(a) /\ ~(result[a] = "completion")
    BY <2>2 DEF Connected
  <2>4. CASE Abort(a)
    BY <1>1, <2>1, <2>4 DEF Abort, Pass, Begun, Finished
  <2>5. CASE BackendFails(a)
    BY <1>1, <2>1, <2>5 DEF BackendFails, Pass, Begun, Finished
  <2>6. QED
    BY <2>1, <2>2, <2>3, <2>4, <2>5 DEF Turn, Answers, Begin, Unborn, Enter, LeaveQueue
<1>8. QED
  BY <1>6, <1>7 DEF Polite

(* What a handler does of its own, and a call or a deadline, leaves alone. *)
LEMMA RequestPolite ==
  ASSUME ServiceInv, NEW r \in Requests, RequestStep(r)
  PROVE  /\ \A b \in Actors : act[b] \in {"calling"} \cup Finished => act'[b] = act[b]
         /\ Serve(r) /\ EngineInv => Polite(Observer(r))
<1>1. ServiceTypes /\ RequestInv(r) /\ Observer(r) \in Actors /\ Observer(r) \notin Tasks(r)
  BY InvByRequest, ActorsOfRequests DEF EachRequest
<1>2. CASE Observe(r)
  <2>1. act[Observer(r)] = "none" /\ Acquire(Observer(r))
    BY <1>1, <1>2 DEF Observe, RequestInv
  <2>2. \A b \in Actors \ {Observer(r)} : act'[b] = act[b]
    BY <1>1, <2>1 DEF Acquire, ServiceTypes
  <2>3. EngineInv => running # Observer(r)
    BY <1>1, <2>1 DEF EngineInv, ResultsAreCalls, Finished
  <2>4. QED
    BY <2>1, <2>2, <2>3 DEF Polite, Finished
<1>3. CASE Evaluate(r) \/ Observed(r)
  <2>1. /\ act' = [b \in Actors |-> IF b \in Tasks(r) THEN "created" ELSE act[b]]
        /\ attempt' = attempt /\ handler[r] \in {"idle", "observing"}
    BY <1>3 DEF Evaluate, Observed, Spread
  <2>2. \A t \in Tasks(r) : act[t] = "none"
    BY <1>1, <2>1 DEF RequestInv
  <2>3. \A b \in Actors : act[b] \in {"calling"} \cup Finished => act'[b] = act[b]
    BY <2>1, <2>2 DEF Finished
  <2>4. act'[Observer(r)] = act[Observer(r)] /\ attempt' = attempt
    BY <1>1, <2>1
  <2>5. ~Begun(Observer(r))
    BY <2>4 DEF Begun, NewCall
  <2>6. QED
    BY <1>1, <2>3, <2>4, <2>5 DEF Polite, EngineInv, ResultsAreCalls
<1>4. CASE act' = act /\ attempt' = attempt
  BY <1>1, <1>4 DEF Polite, Begun, NewCall, EngineInv, ResultsAreCalls
<1>5. QED
  BY <1>2, <1>3, <1>4
     DEF RequestStep, Call, Serve, RefuseModel, EvaluateVision, NotObserved, ObservationFails,
         Collect, Finish, Expire, taskVars, semVars

(* A step that leaves the engine and all calls alone keeps the invariant.  *)
LEMMA EngineIdle ==
  ASSUME EngineInv, UNCHANGED backendVars,
         \A b \in Actors : act[b] \in {"calling"} \cup Finished => act'[b] = act[b]
  PROVE  EngineInv'
<1>1. /\ engine' = engine /\ phase' = phase /\ jobs' = jobs /\ running' = running
      /\ result' = result
  BY DEF backendVars
<1>2. Actors' = Actors /\ Finished' = Finished
  BY DEF Actors, Tasks, Observer, Finished
<1>3. EngineTypes /\ JobsAreCalls /\ ResultsAreCalls /\ EnginesApart
  BY DEF EngineInv
<1>4. EngineTypes' /\ EnginesApart'
  BY <1>1, <1>2, <1>3 DEF EngineTypes, EnginesApart, Probe, Nobody, Load
<1>5. \A i \in 1..Len(jobs) : jobs[i] # Probe => jobs[i] \in Actors
  BY <1>3, JobsFacts
<1>6. JobsAreCalls'
  BY <1>1, <1>3, <1>5 DEF JobsAreCalls, Probe
<1>7. ResultsAreCalls'
  BY <1>1, <1>2, <1>3 DEF ResultsAreCalls
<1>8. QED
  BY <1>4, <1>6, <1>7 DEF EngineInv

(* The head of the queue is a call, and the rest is what it was. *)
LEMMA TakeHead ==
  ASSUME EngineTypes, JobsAreCalls, jobs # <<>>, engine = "mlx", EnginesApart
  PROVE  /\ Head(jobs) \in Actors /\ act[Head(jobs)] = "calling"
         /\ result[Head(jobs)] = "none" /\ running # Head(jobs)
         /\ Tail(jobs) \in Seq(Actors \cup {Probe})
         /\ \A i \in 1..Len(Tail(jobs)) : Tail(jobs)[i] # Probe /\ Tail(jobs)[i] # Head(jobs) /\
              act[Tail(jobs)[i]] = "calling" /\ result[Tail(jobs)[i]] = "none" /\
              running # Tail(jobs)[i]
         /\ \A i, j \in 1..Len(Tail(jobs)) : Tail(jobs)[i] = Tail(jobs)[j] => i = j
<1> DEFINE s == Tail(jobs)
           g == [i \in 1..Len(s) |-> i + 1]
<1>1. /\ Len(jobs) \in Nat /\ Len(jobs) > 0 /\ Head(jobs) = jobs[1]
      /\ s \in Seq(Actors \cup {Probe}) /\ Len(s) = Len(jobs) - 1
      /\ \A i \in 1..Len(s) : s[i] = jobs[i+1]
  <2>1. jobs \in Seq(Actors \cup {Probe})
    BY DEF EngineTypes
  <2>2. Len(jobs) \in Nat /\ Len(jobs) # 0
    BY <2>1, EmptySeq, LenProperties
  <2>3. QED
    BY <2>1, <2>2, HeadTailProperties
<1> HIDE DEF s
<1>2. g \in [1..Len(s) -> 1..Len(jobs)] /\ \A i \in 1..Len(s) : g[i] = i + 1
  BY <1>1
<1>3. From(s, jobs)
  <2>1. \A i, j \in 1..Len(s) : g[i] = g[j] => i = j
    BY <1>1, <1>2
  <2>2. QED
    BY <1>1, <1>2, <2>1 DEF From
<1>4. /\ \A i \in 1..Len(s) : s[i] # Probe =>
           act[s[i]] = "calling" /\ result[s[i]] = "none" /\ running # s[i]
      /\ \A i, j \in 1..Len(s) : s[i] = s[j] /\ s[i] # Probe => i = j
  BY <1>1, <1>3, JobsShrink
<1>5. \A i \in 1..Len(jobs) : jobs[i] # Probe /\ jobs[i] \in Actors
  BY JobsFacts DEF EnginesApart
<1>6. 1 \in 1..Len(jobs) /\ \A i \in 1..Len(s) : i + 1 \in 1..Len(jobs)
  BY <1>1
<1>7. ASSUME NEW i \in 1..Len(s)  PROVE s[i] # Probe /\ s[i] # jobs[1]
  <2>1. i + 1 \in 1..Len(jobs) /\ s[i] = jobs[i+1] /\ i + 1 # 1
    BY <1>1, <1>6
  <2>2. QED
    BY <1>5, <1>6, <2>1 DEF JobsAreCalls
<1>8. act[jobs[1]] = "calling" /\ result[jobs[1]] = "none" /\ running # jobs[1]
  BY <1>5, <1>6 DEF JobsAreCalls
<1>9. QED
  BY <1>1, <1>4, <1>5, <1>6, <1>7, <1>8 DEF s

-----------------------------------------------------------------------------
(* Steps of the engine. *)

EngineStep == Thread \/ Close \/ Shutdown \/ Ready \/ ProbeEnds

(* They keep the invariant; the service does not move. *)
LEMMA EngineStepKeeps ==
  ASSUME EngineInv, EngineStep, act' = act
  PROVE  EngineInv'
<1>1. EngineTypes /\ JobsAreCalls /\ ResultsAreCalls /\ EnginesApart
  BY DEF EngineInv
<1>2. /\ Actors' = Actors /\ Finished' = Finished
      /\ Probe \notin Actors /\ Nobody \notin Actors /\ Load \notin Actors
      /\ Len(jobs) \in Nat /\ DOMAIN jobs = 1..Len(jobs)
      /\ \A i \in 1..Len(jobs) : jobs[i] \in Actors \cup {Probe}
  BY <1>1, ActorsApart, JobsFacts DEF Actors, Tasks, Observer, Finished
<1>3. CASE Generate
  <2>1. /\ engine = "mlx" /\ running = Nobody /\ jobs # <<>> /\ running' = Head(jobs)
        /\ jobs' = Tail(jobs) /\ engine' = engine /\ phase' = phase /\ result' = result
    BY <1>3 DEF Generate
  <2>2. /\ Head(jobs) \in Actors /\ act[Head(jobs)] = "calling" /\ result[Head(jobs)] = "none"
        /\ Tail(jobs) \in Seq(Actors \cup {Probe})
        /\ \A i \in 1..Len(Tail(jobs)) : Tail(jobs)[i] # Probe /\ Tail(jobs)[i] # Head(jobs) /\
             act[Tail(jobs)[i]] = "calling" /\ result[Tail(jobs)[i]] = "none"
        /\ \A i, j \in 1..Len(Tail(jobs)) : Tail(jobs)[i] = Tail(jobs)[j] => i = j
    BY <1>1, <2>1, TakeHead
  <2>3. EngineTypes'
    BY <1>1, <1>2, <2>1, <2>2 DEF EngineTypes, Probe, Nobody, Load
  <2>4. JobsAreCalls'
    BY <2>1, <2>2 DEF JobsAreCalls, Probe
  <2>5. ResultsAreCalls'
    BY <1>1, <1>2, <2>1, <2>2 DEF ResultsAreCalls
  <2>6. EnginesApart'
    BY <2>1, <2>2 DEF EnginesApart, Probe
  <2>7. QED
    BY <2>3, <2>4, <2>5, <2>6 DEF EngineInv
<1>4. CASE Generated
  <2>1. /\ running \in Actors /\ running' = Nobody /\ jobs' = jobs
        /\ engine' = engine /\ phase' = phase
    BY <1>4 DEF Generated
  <2>2. engine = "mlx"
    BY <1>1, <1>2, <2>1 DEF EngineTypes, EnginesApart
  <2>3. /\ result' \in [Actors -> {"none", "completion", "error", "cancelled"}]
        /\ \A b \in Actors \ {running} : result'[b] = result[b]
        /\ result'[running] # "none" => act[running] = "calling"
    BY <1>1, <1>4, <2>1 DEF Generated, EngineTypes, ResultsAreCalls
  <2>4. EngineTypes'
    BY <1>1, <1>2, <2>1, <2>3 DEF EngineTypes, Probe, Nobody, Load
  <2>5. JobsAreCalls'
    BY <1>1, <1>2, <2>1, <2>3 DEF JobsAreCalls, Probe
  <2>6. ResultsAreCalls'
    BY <1>1, <1>2, <2>1, <2>3 DEF ResultsAreCalls, Nobody
  <2>7. EnginesApart'
    BY <1>1, <2>1, <2>2 DEF EnginesApart, Probe
  <2>8. QED
    BY <2>4, <2>5, <2>6, <2>7 DEF EngineInv
<1>5. CASE LoadEnds \/ Close \/ Closed
  <2>1. /\ jobs' = jobs /\ engine' = engine /\ result' = result
        /\ running' = running \/ running' = Nobody
        /\ phase' \in {"loading", "serving", "stopping", "stopped"}
        /\ engine = "http" => phase' \in {"serving", "stopped"}
    BY <1>1, <1>5 DEF LoadEnds, Close, Closed, EngineTypes, EnginesApart, Load, Nobody
  <2>2. EngineTypes'
    BY <1>1, <1>2, <2>1 DEF EngineTypes, Probe, Nobody, Load
  <2>3. JobsAreCalls'
    BY <1>1, <1>2, <2>1 DEF JobsAreCalls, Probe
  <2>4. ResultsAreCalls'
    BY <1>1, <1>2, <2>1 DEF ResultsAreCalls, Nobody
  <2>5. EnginesApart'
    BY <1>1, <1>2, <2>1 DEF EnginesApart, Probe, Nobody
  <2>6. QED
    BY <2>2, <2>3, <2>4, <2>5 DEF EngineInv
<1>6. CASE CancelQueued
  <2>1. /\ phase = "stopping" /\ jobs # <<>> /\ jobs' = Tail(jobs) /\ engine' = engine
        /\ phase' = phase /\ running' = running
        /\ result' = [result EXCEPT ![Head(jobs)] = "cancelled"]
    BY <1>6 DEF CancelQueued
  <2>2. engine = "mlx"
    BY <1>1, <2>1 DEF EngineTypes, EnginesApart
  <2>3. /\ Head(jobs) \in Actors /\ act[Head(jobs)] = "calling" /\ running # Head(jobs)
        /\ Tail(jobs) \in Seq(Actors \cup {Probe})
        /\ \A i \in 1..Len(Tail(jobs)) : Tail(jobs)[i] # Probe /\ Tail(jobs)[i] # Head(jobs) /\
             act[Tail(jobs)[i]] = "calling" /\ result[Tail(jobs)[i]] = "none" /\
             running # Tail(jobs)[i]
        /\ \A i, j \in 1..Len(Tail(jobs)) : Tail(jobs)[i] = Tail(jobs)[j] => i = j
    BY <1>1, <2>1, <2>2, TakeHead
  <2>4. /\ result' \in [Actors -> {"none", "completion", "error", "cancelled"}]
        /\ \A b : b # Head(jobs) => result'[b] = result[b]
    BY <1>1, <2>1, <2>3 DEF EngineTypes
  <2>5. EngineTypes'
    BY <1>1, <1>2, <2>1, <2>3, <2>4 DEF EngineTypes, Probe, Nobody, Load
  <2>6. JobsAreCalls'
    BY <2>1, <2>3, <2>4 DEF JobsAreCalls, Probe
  <2>7. ResultsAreCalls'
    BY <1>1, <1>2, <2>1, <2>3, <2>4 DEF ResultsAreCalls
  <2>8. EnginesApart'
    BY <2>1, <2>2, <2>3 DEF EnginesApart, Probe
  <2>9. QED
    BY <2>5, <2>6, <2>7, <2>8 DEF EngineInv
<1>7. CASE Ready
  <2>1. /\ engine = "http" /\ jobs' = Append(jobs, Probe) /\ engine' = engine /\ phase' = phase
        /\ running' = running /\ result' = result
    BY <1>7 DEF Ready
  <2>2. /\ jobs' \in Seq(Actors \cup {Probe}) /\ Len(jobs') = Len(jobs) + 1
        /\ jobs'[Len(jobs)+1] = Probe /\ \A i \in 1..Len(jobs) : jobs'[i] = jobs[i]
    BY <1>1, <1>2, <2>1, AppendProperties DEF EngineTypes
  <2>3. ASSUME NEW i \in 1..Len(jobs'), jobs'[i] # Probe
        PROVE  i \in 1..Len(jobs) /\ jobs'[i] = jobs[i]
    BY <1>2, <2>2, <2>3
  <2>4. EngineTypes'
    BY <1>1, <1>2, <2>1, <2>2 DEF EngineTypes, Probe, Nobody, Load
  <2>5. JobsAreCalls'
    <3>1. Probe' = Probe
      BY DEF Probe
    <3>2. ASSUME NEW i \in 1..Len(jobs'), NEW j \in 1..Len(jobs'), jobs'[i] = jobs'[j],
                 jobs'[i] # Probe
          PROVE  i = j
      BY <1>1, <2>3, <3>2 DEF JobsAreCalls
    <3>3. ASSUME NEW i \in 1..Len(jobs'), jobs'[i] # Probe
          PROVE  act[jobs'[i]] = "calling" /\ result[jobs'[i]] = "none" /\ running # jobs'[i]
      BY <1>1, <2>3, <3>3 DEF JobsAreCalls
    <3>4. QED
      BY <2>1, <3>1, <3>2, <3>3 DEF JobsAreCalls
  <2>6. ResultsAreCalls'
    BY <1>1, <1>2, <2>1 DEF ResultsAreCalls
  <2>7. EnginesApart'
    BY <1>1, <1>2, <2>1 DEF EnginesApart, Nobody
  <2>8. QED
    BY <2>4, <2>5, <2>6, <2>7 DEF EngineInv
<1>8. CASE ProbeEnds
  <2>1. PICK k \in 1..Len(jobs) : jobs[k] = Probe /\ jobs' = RemoveAt(jobs, k)
    BY <1>2, <1>8 DEF ProbeEnds
  <2>2. engine' = engine /\ phase' = phase /\ running' = running /\ result' = result
    BY <1>8 DEF ProbeEnds
  <2>3. jobs' \in Seq(Actors \cup {Probe}) /\ From(jobs', jobs)
    BY <1>1, <2>1, RemoveAtFrom DEF EngineTypes
  <2>4. /\ \A i \in 1..Len(jobs') : jobs'[i] # Probe =>
             act[jobs'[i]] = "calling" /\ result[jobs'[i]] = "none" /\ running # jobs'[i]
        /\ \A i, j \in 1..Len(jobs') : jobs'[i] = jobs'[j] /\ jobs'[i] # Probe => i = j
    BY <1>1, <2>3, JobsShrink
  <2>5. EngineTypes'
    BY <1>1, <1>2, <2>2, <2>3 DEF EngineTypes, Probe, Nobody, Load
  <2>6. JobsAreCalls'
    BY <2>2, <2>4 DEF JobsAreCalls, Probe
  <2>7. ResultsAreCalls'
    BY <1>1, <1>2, <2>2 DEF ResultsAreCalls
  <2>8. EnginesApart'
    BY <1>1, <1>2, <2>1, <2>2 DEF EnginesApart, Nobody
  <2>9. QED
    BY <2>5, <2>6, <2>7, <2>8 DEF EngineInv
<1>9. QED
  BY <1>3, <1>4, <1>5, <1>6, <1>7, <1>8 DEF EngineStep, Thread, Shutdown

-----------------------------------------------------------------------------
(* The theorems. *)

(* Whatever the service asks and the engine does, the two agree on which   *)
(* calls are open.                                                         *)
THEOREM EngineInvariance == ServerSpec => []EngineInv
<1>1. ServerInit => EngineInv
  <2> SUFFICES ASSUME ServerInit  PROVE EngineInv
    OBVIOUS
  <2>1. jobs = <<>> /\ result = [a \in Actors |-> "none"] /\ Len(jobs) = 0
    BY DEF ServerInit
  <2>2. EngineTypes
    BY <2>1 DEF ServerInit, EngineTypes
  <2>3. JobsAreCalls /\ ResultsAreCalls /\ EnginesApart
    BY <2>1, ActorsApart DEF ServerInit, JobsAreCalls, ResultsAreCalls, EnginesApart
  <2>4. QED
    BY <2>2, <2>3 DEF EngineInv
<1>2. ServiceInv /\ EngineInv /\ [ServerNext]_allVars => EngineInv'
  <2> SUFFICES ASSUME ServiceInv, EngineInv, [ServerNext]_allVars  PROVE EngineInv'
    OBVIOUS
  <2>1. ASSUME NEW r \in Requests, Request(r) \/ (Expire(r) /\ UNCHANGED backendVars)
        PROVE  EngineInv'
    <3>1. RequestStep(r) /\ UNCHANGED backendVars
      BY <2>1 DEF Request, RequestStep
    <3>2. QED
      BY <3>1, RequestPolite, EngineIdle
  <2>2. ASSUME NEW r \in Requests, Serve(r), Follow(Observer(r))  PROVE EngineInv'
    <3>1. RequestStep(r) /\ Observer(r) \in Actors
      BY <2>2, ActorsOfRequests DEF RequestStep
    <3>2. Polite(Observer(r))
      BY <2>2, <3>1, RequestPolite
    <3>3. QED
      BY <2>2, <3>1, <3>2, FollowKeeps
  <2>3. ASSUME NEW a \in Actors, Turn(a) \/ Answers(a), Follow(a)  PROVE EngineInv'
    BY <2>3, ActorPolite, FollowKeeps
  <2>4. CASE EngineStep
    <3>1. act' = act
      BY <2>4 DEF EngineStep, Thread, Shutdown, Generate, Generated, LoadEnds, Close, CancelQueued,
                  Closed, Ready, ProbeEnds, vars
    <3>2. QED
      BY <2>4, <3>1, EngineStepKeeps
  <2>5. CASE Rest \/ UNCHANGED allVars
    BY <2>5, EngineIdle DEF Rest, allVars, vars
  <2>6. QED
    BY <2>1, <2>2, <2>3, <2>4, <2>5 DEF ServerNext, Loop, Upstream, Deadline, EngineStep
<1>3. QED
  BY <1>1, <1>2, ServiceInvariance, PTL DEF ServerSpec

(* The queue of the owner thread is never longer than the semaphore        *)
(* allows, everything in it has a caller, and no result lacks one: at most *)
(* one generation runs that was given up.                                  *)
THEOREM QueueHasCallers == ServerSpec => []WorkHasCallers
<1>1. ASSUME ServiceInv, EngineInv, engine = "mlx"
      PROVE  /\ \A j \in ToSet(jobs) : act[j] = "calling" /\ result[j] = "none" /\ running # j
             /\ Len(jobs) + Cardinality({running} \cap Actors) <= MaxConcurrency + 1
             /\ \A a \in Actors : result[a] # "none" => act[a] = "calling" /\ running # a
  <2>1. EngineTypes /\ JobsAreCalls /\ ResultsAreCalls /\ EnginesApart
    BY <1>1 DEF EngineInv
  <2>2. /\ Len(jobs) \in Nat /\ DOMAIN jobs = 1..Len(jobs)
        /\ \A i \in 1..Len(jobs) : jobs[i] \in Actors /\ jobs[i] # Probe
    BY <1>1, <2>1, JobsFacts DEF EnginesApart
  <2>3. \A j \in ToSet(jobs) : act[j] = "calling" /\ result[j] = "none" /\ running # j
    BY <2>1, <2>2 DEF JobsAreCalls, ToSet
  <2>4. Len(jobs) <= MaxConcurrency
    <3> DEFINE f == [i \in 1..Len(jobs) |-> jobs[i]]
    <3>1. f \in [1..Len(jobs) -> Holding] /\ \A i \in 1..Len(jobs) : f[i] = jobs[i]
      BY <2>1, <2>2 DEF JobsAreCalls, Holding
    <3>2. \A i, j \in 1..Len(jobs) : f[i] = f[j] => i = j
      BY <2>1, <2>2 DEF JobsAreCalls
    <3> HIDE DEF f
    <3>3. f \in Injection(1..Len(jobs), Holding)
      BY <3>1, <3>2 DEF Injection, IsInjective
    <3>4. IsFiniteSet(Holding) /\ Cardinality(Holding) <= MaxConcurrency
      BY <1>1, FewHold
    <3>5. Cardinality(1..Len(jobs)) <= Cardinality(Holding)
      BY <3>3, <3>4, FS_Injection
    <3>6. Cardinality(1..Len(jobs)) = Len(jobs)
      BY <2>2, FS_Interval
    <3>7. Cardinality(Holding) \in Nat
      BY <3>4, FS_CardinalityType
    <3>8. QED
      BY <2>2, <3>4, <3>5, <3>6, <3>7, LimitsAssumption
  <2>5. Cardinality({running} \cap Actors) \in 0..1
    <3>1. {running} \cap Actors = {} \/ {running} \cap Actors = {running}
      OBVIOUS
    <3>2. Cardinality({}) = 0 /\ Cardinality({running}) = 1
      BY FS_EmptySet, FS_Singleton
    <3>3. QED
      BY <3>1, <3>2
  <2>6. QED
    BY <2>1, <2>2, <2>3, <2>4, <2>5, LimitsAssumption DEF ResultsAreCalls
<1>2. ServiceInv /\ EngineInv => WorkHasCallers
  BY <1>1 DEF WorkHasCallers
<1>3. QED
  BY <1>2, ServiceInvariance, EngineInvariance, PTL

(* A generation only has to wait for a connection while at least three     *)
(* readiness probes hold one.                                              *)
THEOREM PoolLeavesRoom == ServerSpec => []PoolReserve
<1>1. ASSUME ServiceInv, EngineInv, NEW i \in DOMAIN jobs, i > MaxConnections, jobs[i] # Probe
      PROVE  Cardinality({k \in 1..MaxConnections : jobs[k] = Probe}) > 2
  <2> DEFINE K == 1..MaxConnections
             P == {k \in K : jobs[k] = Probe}
             Q == {k \in K : jobs[k] # Probe}
             f == [k \in Q \cup {i} |-> jobs[k]]
  <2>1. EngineTypes /\ JobsAreCalls
    BY <1>1 DEF EngineInv
  <2>2. /\ Len(jobs) \in Nat /\ DOMAIN jobs = 1..Len(jobs)
        /\ \A k \in 1..Len(jobs) : jobs[k] \in Actors \cup {Probe}
    BY <2>1, JobsFacts
  <2>3. MaxConnections \in Nat /\ MaxConnections = MaxConcurrency + 2 /\ MaxConcurrency \in Nat
    BY LimitsAssumption DEF MaxConnections
  <2>4. /\ IsFiniteSet(K) /\ Cardinality(K) = MaxConnections
        /\ \A k \in K : k \in 1..Len(jobs) /\ k # i
    <3>1. i \in Nat /\ i <= Len(jobs)
      BY <1>1, <2>2
    <3>2. \A k \in K : k \in 1..Len(jobs) /\ k # i
      BY <1>1, <2>2, <2>3, <3>1
    <3>3. IsFiniteSet(K) /\ Cardinality(K) = MaxConnections
      BY <2>3, FS_Interval
    <3>4. QED
      BY <3>2, <3>3
  <2>5. /\ IsFiniteSet(P) /\ IsFiniteSet(Q) /\ Cardinality(P) \in Nat /\ Cardinality(Q) \in Nat
    <3>1. P \in SUBSET K /\ Q \in SUBSET K
      OBVIOUS
    <3>2. QED
      BY <2>4, <3>1, FS_Subset, FS_CardinalityType
  <2>6. Cardinality(P) + Cardinality(Q) = MaxConnections
    <3>1. P \cup Q = K /\ P \cap Q = {}
      OBVIOUS
    <3>2. Cardinality(P \cup Q) = Cardinality(P) + Cardinality(Q) - Cardinality(P \cap Q)
      BY <2>5, FS_Union
    <3>3. Cardinality(P \cap Q) = 0
      BY <3>1, FS_EmptySet
    <3>4. Cardinality(P \cup Q) = MaxConnections
      BY <2>4, <3>1
    <3> HIDE DEF P, Q
    <3>5. QED
      BY <2>3, <2>5, <3>2, <3>3, <3>4
  <2>7. Cardinality(Q \cup {i}) = Cardinality(Q) + 1
    <3>1. i \notin Q
      BY <2>4
    <3>2. QED
      BY <2>5, <3>1, FS_AddElement
  <2>8. f \in Injection(Q \cup {i}, Holding)
    <3>1. \A k \in Q \cup {i} : k \in 1..Len(jobs) /\ jobs[k] # Probe /\ f[k] = jobs[k]
      BY <1>1, <2>2, <2>4
    <3>2. \A k \in Q \cup {i} : f[k] \in Holding
      BY <2>1, <2>2, <3>1 DEF JobsAreCalls, Holding
    <3>3. \A k, l \in Q \cup {i} : f[k] = f[l] => k = l
      BY <2>1, <3>1 DEF JobsAreCalls
    <3>4. f \in [Q \cup {i} -> Holding]
      BY <3>2
    <3> HIDE DEF f, Q
    <3>5. QED
      BY <3>3, <3>4 DEF Injection, IsInjective
  <2>9. IsFiniteSet(Holding) /\ Cardinality(Holding) <= MaxConcurrency
    BY <1>1, FewHold
  <2>10. Cardinality(Q \cup {i}) <= Cardinality(Holding)
    BY <2>8, <2>9, FS_Injection
  <2>11. Cardinality(Holding) \in Nat
    BY <2>9, FS_CardinalityType
  <2> HIDE DEF P, Q
  <2>12. Cardinality(P) > 2
    BY <2>3, <2>5, <2>6, <2>7, <2>9, <2>10, <2>11
  <2>13. QED
    BY <2>12 DEF P
<1>2. ServiceInv /\ EngineInv => PoolReserve
  BY <1>1 DEF PoolReserve
<1>3. QED
  BY <1>2, ServiceInvariance, EngineInvariance, PTL
=============================================================================
