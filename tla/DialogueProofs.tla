--------------------------- MODULE DialogueProofs ---------------------------
(***************************************************************************)
(* Proofs about one conversation, for any catalog of intents, any fixtures *)
(* and any messages: nothing is done that was not confirmed, and no task   *)
(* is lost on the way.                                                     *)
(***************************************************************************)
EXTENDS Dialogue, SequenceLemmas

-----------------------------------------------------------------------------
(* The inductive invariant. *)

IsSequence(s) == s \in Seq(ToSet(s))
IsRecord(f) == f = [intent |-> f.intent, slots |-> f.slots, phase |-> f.phase]

(* A task that is not over: it can be confirmed only if it is complete.    *)
IsTask(f) ==
  /\ IsFrame(f) /\ IsRecord(f) /\ f.phase # "completed"
  /\ f.phase = "confirming" => Missing(f) = {} /\ ~Unknown(f) /\ f.intent \in Confirmed

(* Between two turns it waits for a slot, or for a confirmation, and no    *)
(* order number that no order has is left in it.                           *)
Awaits(f) == IsTask(f) /\ ~Unknown(f) /\ (Missing(f) = {} => f.intent \in Confirmed)

IsDone(f) == IsFrame(f) /\ IsRecord(f) /\ f.phase = "completed"

TasksFit ==
  /\ IsSequence(suspended) /\ Len(suspended) <= MaxSuspended
  /\ \A f \in ToSet(suspended) : Awaits(f)
  /\ active = None \/ Awaits(active)
  /\ active.phase = "confirming" => shown = [intent |-> active.intent, slots |-> active.slots]
  /\ last = None \/ IsDone(last)

ChoicesFit ==
  /\ \A i \in DOMAIN choices : choices[i] \in Intents
  /\ pending \in Utterances \cup {NoText} /\ turn \in 0..MaxTurns

(* The order of a ticket that cancels it is cancelled for good.            *)
StoreFits ==
  /\ status \in [Orders -> {"paid", "shipped", "cancelled"}]
  /\ IsSequence(tickets)
  /\ \A i \in DOMAIN tickets :
       /\ tickets[i].intent \in Mutations
       /\ tickets[i].intent \in NeedsPaid => tickets[i].slots["order_id"] \in Orders
       /\ tickets[i].intent \in Cancelling => status[tickets[i].slots["order_id"]] = "cancelled"
  /\ NothingAfterCancellation

DialogueInv == TasksFit /\ ChoicesFit /\ StoreFits

-----------------------------------------------------------------------------
(* The list of interrupted tasks. *)

(* A sequence is one of a larger set too. *)
LEMMA Widen ==
  ASSUME NEW s, IsSequence(s), NEW T, ToSet(s) \subseteq T
  PROVE  /\ s \in Seq(T) /\ Len(s) \in Nat /\ DOMAIN s = 1..Len(s)
         /\ \A i \in 1..Len(s) : s[i] \in ToSet(s)
<1>1. /\ Len(s) \in Nat /\ DOMAIN s = 1..Len(s) /\ s \in [1..Len(s) -> ToSet(s)]
  BY LenProperties DEF IsSequence
<1>2. s \in [1..Len(s) -> T]
  BY <1>1
<1>3. QED
  BY <1>1, <1>2

(* A sequence over some set is one over the set of its elements. *)
LEMMA Narrow ==
  ASSUME NEW T, NEW s \in Seq(T)
  PROVE  IsSequence(s) /\ ToSet(s) \subseteq T
<1>1. /\ Len(s) \in Nat /\ DOMAIN s = 1..Len(s) /\ s \in [1..Len(s) -> T]
  BY LenProperties
<1>2. s \in [1..Len(s) -> ToSet(s)]
  BY <1>1 DEF ToSet
<1>3. s \in Seq(ToSet(s))
  BY <1>1, <1>2
<1>4. ToSet(s) \subseteq T
  BY <1>1 DEF ToSet
<1>5. QED
  BY <1>3, <1>4 DEF IsSequence

(* An interrupted task joins the list; only a full list loses one, its     *)
(* oldest.                                                                 *)
LEMMA SuspendFacts ==
  ASSUME IsSequence(suspended), Len(suspended) <= MaxSuspended, NEW f
  PROVE  LET t == Suspend(f)
         IN  /\ IsSequence(t) /\ Len(t) <= MaxSuspended
             /\ ToSet(t) \subseteq ToSet(suspended) \cup {f} /\ f \in ToSet(t)
             /\ \A g \in ToSet(suspended) :
                  g \in ToSet(t) \/ (Len(suspended) = MaxSuspended /\ g = Head(suspended))
<1> DEFINE S == ToSet(suspended) \cup {f}
           n == Len(suspended)
           all == Append(suspended, f)
           k == IF Len(all) > MaxSuspended THEN Len(all) - MaxSuspended + 1 ELSE 1
           t == SubSeq(all, k, Len(all))
<1>1. /\ suspended \in Seq(S) /\ n \in Nat /\ DOMAIN suspended = 1..n
      /\ \A i \in 1..n : suspended[i] \in ToSet(suspended)
  BY Widen
<1>2. /\ all \in Seq(S) /\ Len(all) = n + 1 /\ all[n+1] = f
      /\ \A i \in 1..n : all[i] = suspended[i]
  BY <1>1, AppendProperties
<1>3. Suspend(f) = t
  BY DEF Suspend, SuspendAll
<1> n <= MaxSuspended
  OBVIOUS
<1> HIDE DEF n
<1>4. k \in 1..2 /\ k <= n + 1 /\ (k = 2 => n = MaxSuspended) /\ n + 1 - k + 1 <= MaxSuspended
  BY <1>1, <1>2, BoundsAssumption
<1> HIDE DEF k, all
<1>5. \A i \in k..n+1 : all[i] \in S
  BY <1>1, <1>2, <1>4
<1>6. /\ t \in Seq(S) /\ Len(t) = n + 1 - k + 1
      /\ \A i \in 1..n + 1 - k + 1 : t[i] = all[k + i - 1]
  BY <1>1, <1>2, <1>4, <1>5, SubSeqProperties
<1> HIDE DEF t
<1>7. DOMAIN t = 1..Len(t)
  BY <1>6, LenProperties
<1>8. \A i \in k..n+1 : all[i] \in ToSet(t)
  <2> SUFFICES ASSUME NEW i \in k..n+1  PROVE all[i] \in ToSet(t)
    OBVIOUS
  <2>1. i - k + 1 \in 1..n + 1 - k + 1 /\ k + (i - k + 1) - 1 = i
    BY <1>1, <1>4
  <2>2. t[i - k + 1] = all[i] /\ i - k + 1 \in DOMAIN t
    BY <1>6, <1>7, <2>1
  <2>3. QED
    BY <2>2 DEF ToSet
<1>9. f \in ToSet(t)
  BY <1>1, <1>2, <1>4, <1>8
<1>10. ASSUME NEW g \in ToSet(suspended)
       PROVE  g \in ToSet(t) \/ (n = MaxSuspended /\ g = Head(suspended))
  <2>1. PICK i \in 1..n : g = suspended[i]
    BY <1>1, <1>10 DEF ToSet
  <2>2. CASE i >= k
    BY <1>1, <1>2, <1>4, <1>8, <2>1, <2>2
  <2>3. CASE i < k
    BY <1>1, <1>4, <2>1, <2>3
  <2>4. QED
    BY <1>1, <1>4, <2>2, <2>3
<1>11. IsSequence(t) /\ ToSet(t) \subseteq S
  BY <1>6, Narrow
<1>12. QED
  BY <1>3, <1>4, <1>6, <1>9, <1>10, <1>11 DEF n

(* Resuming takes the latest task off the list and puts the active one     *)
(* there.                                                                  *)
LEMMA ResumeFacts ==
  ASSUME IsSequence(suspended), suspended # <<>>
  PROVE  LET t == Front(suspended) \o (IF active = None THEN <<>> ELSE <<active>>)
         IN  /\ IsSequence(t) /\ Len(t) <= Len(suspended)
             /\ Last(suspended) \in ToSet(suspended)
             /\ ToSet(t) \subseteq ToSet(suspended) \cup ({active} \ {None})
             /\ active # None => active \in ToSet(t)
             /\ \A g \in ToSet(suspended) : g \in ToSet(t) \/ g = Last(suspended)
<1> DEFINE n == Len(suspended)
           S == ToSet(suspended) \cup ({active} \ {None})
           u == Front(suspended)
           v == IF active = None THEN <<>> ELSE <<active>>
           t == u \o v
<1>1. /\ suspended \in Seq(S) /\ n \in Nat \ {0} /\ DOMAIN suspended = 1..n
      /\ suspended \in Seq(ToSet(suspended))
      /\ \A i \in 1..n : suspended[i] \in ToSet(suspended)
  <2>1. suspended \in Seq(S) /\ n \in Nat /\ DOMAIN suspended = 1..n
        /\ \A i \in 1..n : suspended[i] \in ToSet(suspended)
    BY Widen
  <2>2. n # 0
    BY <2>1, EmptySeq
  <2>3. QED
    BY <2>1, <2>2 DEF IsSequence
<1>2. /\ u \in Seq(ToSet(suspended)) /\ Len(u) = n - 1
      /\ \A i \in 1..n-1 : u[i] = suspended[i]
  <2>1. u = SubSeq(suspended, 1, n - 1)
    BY DEF Front
  <2>2. \A i \in 1..n-1 : suspended[i] \in ToSet(suspended)
    BY <1>1
  <2>3. QED
    BY <1>1, <2>1, <2>2, SubSeqProperties
<1>3. v \in Seq(S) /\ ToSet(v) = {active} \ {None} /\ Len(v) \in {0, 1}
  <2>1. CASE active = None
    BY <2>1, EmptySeq DEF ToSet
  <2>2. CASE active # None
    <3>1. v = <<active>> /\ active \in S
      BY <2>2
    <3>2. <<active>> \in Seq(S) /\ Len(<<active>>) = 1
      BY <3>1
    <3>3. ToSet(<<active>>) = {active}
      BY DEF ToSet
    <3>4. QED
      BY <2>2, <3>1, <3>2, <3>3
  <2>3. QED
    BY <2>1, <2>2
<1> HIDE DEF n, u, v
<1>4. u \in Seq(S) /\ ToSet(u) \subseteq ToSet(suspended) /\ DOMAIN u = 1..n-1
  <2>1. IsSequence(u) /\ ToSet(u) \subseteq ToSet(suspended)
    BY <1>2, Narrow
  <2>2. QED
    BY <1>2, <2>1, Widen
<1>5. t \in Seq(S) /\ Len(t) = Len(u) + Len(v)
  BY <1>3, <1>4, ConcatProperties
<1>6. ToSet(t) = ToSet(u) \cup ToSet(v)
  BY <1>3, <1>4, ConcatSet
<1>7. Last(suspended) = suspended[n]
  BY DEF Last, n
<1>8. ASSUME NEW g \in ToSet(suspended)  PROVE g \in ToSet(u) \/ g = Last(suspended)
  <2>1. PICK i \in 1..n : g = suspended[i]
    BY <1>1, <1>8 DEF ToSet
  <2>2. CASE i = n
    BY <1>7, <2>1, <2>2
  <2>3. CASE i # n
    <3>1. i \in 1..n-1 /\ u[i] = g
      BY <1>1, <1>2, <2>1, <2>3
    <3>2. QED
      BY <1>4, <3>1 DEF ToSet
  <2>4. QED
    BY <2>2, <2>3
<1>9. IsSequence(t) /\ Len(t) <= n
  <2> HIDE DEF t
  <2>1. IsSequence(t)
    BY <1>5, Narrow
  <2>2. QED
    <3>1. Len(t) = (n - 1) + Len(v)
      BY <1>2, <1>5
    <3>2. CASE Len(v) = 0
      BY <1>1, <2>1, <3>1, <3>2
    <3>3. CASE Len(v) = 1
      BY <1>1, <2>1, <3>1, <3>3
    <3>4. QED
      BY <1>3, <3>2, <3>3
<1>10. Last(suspended) \in ToSet(suspended)
  BY <1>1, <1>7
<1> HIDE DEF t
<1>11. /\ ToSet(t) \subseteq ToSet(suspended) \cup ({active} \ {None})
       /\ active # None => active \in ToSet(t)
       /\ \A g \in ToSet(suspended) : g \in ToSet(t) \/ g = Last(suspended)
  BY <1>3, <1>4, <1>6, <1>8
<1>12. QED
  BY <1>9, <1>10, <1>11 DEF n, t, u, v

-----------------------------------------------------------------------------
(* What a turn does with the tasks. *)

(* An interrupted task stays on the list, unless it was the oldest of a    *)
(* full one.                                                               *)
Displaced(f) == Len(suspended) = MaxSuspended /\ f = Head(suspended)
ListKept == \A f \in ToSet(suspended) : f \in ToSet(suspended') \/ Displaced(f)

(* The active task is interrupted, goes on, or has just been completed.    *)
ActiveKept ==
  active # None =>
    active \in ToSet(suspended') \/ Continues(active, active') \/ Continues(active, last')

(* A task that has no fewer slots. *)
Extends(f, g) == g.intent = f.intent /\ DOMAIN f.slots \subseteq DOMAIN g.slots

(* Filling slots begins to collect, and loses none. *)
LEMMA WithFacts ==
  ASSUME NEW f, IsFrame(f), IsRecord(f),
         NEW values, DOMAIN values \subseteq ToSet(Required[f.intent])
  PROVE  IsTask(With(f, values)) /\ Extends(f, With(f, values))
<1> DEFINE g == With(f, values)
           u == Update(f.slots, values)
<1>1. /\ g = [intent |-> f.intent, slots |-> u, phase |-> "collecting"]
      /\ DOMAIN u = DOMAIN f.slots \cup DOMAIN values
  <2>1. DOMAIN u = DOMAIN f.slots \cup DOMAIN values
    BY DEF Update
  <2>2. g = [f EXCEPT !.slots = u, !.phase = "collecting"]
    BY DEF With
  <2> HIDE DEF u, g
  <2>3. f = [intent |-> f.intent, slots |-> f.slots, phase |-> f.phase]
    BY DEF IsRecord
  <2>4. QED
    BY <2>1, <2>2, <2>3
<1> HIDE DEF g, u
<1>2. /\ g.intent = f.intent /\ g.phase = "collecting" /\ IsRecord(g)
      /\ DOMAIN g.slots = DOMAIN f.slots \cup DOMAIN values
  BY <1>1 DEF IsRecord
<1>3. IsTask(g)
  BY <1>2 DEF IsTask, IsFrame
<1>4. Extends(f, g)
  BY <1>2 DEF Extends
<1>5. QED
  BY <1>3, <1>4 DEF g

(* What is found in a message is for the slots of the intent. *)
LEMMA UsefulFits ==
  ASSUME NEW values, NEW i
  PROVE  DOMAIN Useful(values, i) \subseteq ToSet(Required[i])
  BY DEF Useful, Restrict

(* advance(): nothing is executed but what needs no confirmation, so the   *)
(* store stays as it is; what was there to be done is the active task, as  *)
(* it was last shown if it can be confirmed, or it is over.                *)
LEMMA AdvanceFacts ==
  ASSUME NEW f, IsTask(f), Advance(f), last = None \/ IsDone(last)
  PROVE  /\ UNCHANGED storeVars
         /\ active' = None \/ Awaits(active')
         /\ active'.phase = "confirming" =>
              shown' = [intent |-> active'.intent, slots |-> active'.slots]
         /\ last' = None \/ IsDone(last')
         /\ \A g : Extends(g, f) => Continues(g, active') \/ Continues(g, last')
<1>1. /\ f = [intent |-> f.intent, slots |-> f.slots, phase |-> f.phase]
      /\ f.intent \in Intents /\ DOMAIN f.slots \subseteq ToSet(Required[f.intent]) \cup {"product"}
      /\ f.phase \in {"collecting", "confirming"}
      /\ f.phase = "confirming" => Missing(f) = {} /\ ~Unknown(f) /\ f.intent \in Confirmed
  BY DEF IsTask, IsFrame, IsRecord
<1>2. None.phase = "none" /\ "none" # "confirming"
  BY DEF None
<1>3. CASE /\ Unknown(f)
           /\ active' = [f EXCEPT !.slots = Restrict(@, DOMAIN @ \ {"order_id"})]
           /\ UNCHANGED <<last, storeVars, shown>>
  <2> DEFINE s == Restrict(f.slots, DOMAIN f.slots \ {"order_id"})
  <2>1. DOMAIN s = DOMAIN f.slots \ {"order_id"}
    BY DEF Restrict
  <2> HIDE DEF s
  <2>2. active' = [f EXCEPT !.slots = s]
    BY <1>3 DEF s
  <2>3. active' = [intent |-> f.intent, slots |-> s, phase |-> f.phase] /\ f.phase = "collecting"
    BY <1>1, <1>3, <2>2
  <2>4. active'.intent = f.intent /\ active'.slots = s /\ active'.phase = "collecting"
    BY <2>3
  <2>5. IsTask(active')
    BY <1>1, <2>1, <2>3, <2>4 DEF IsTask, IsFrame, IsRecord
  <2>6. "order_id" \in ToSet(Required[active'.intent]) /\ "order_id" \notin DOMAIN active'.slots
    BY <1>1, <1>3, <2>1, <2>4 DEF Unknown
  <2>7. Awaits(active')
    <3>1. Missing(active') # {}
      BY <2>6 DEF Missing, Unfilled, ToSet
    <3>2. QED
      BY <2>5, <2>6, <3>1 DEF Awaits, Unknown
  <2>8. \A g : Extends(g, f) => Continues(g, active')
    BY <2>1, <2>4 DEF Extends, Continues
  <2>9. QED
    BY <1>3, <2>4, <2>7, <2>8
<1>4. CASE /\ ~Unknown(f) /\ Missing(f) # {} /\ active' = f
           /\ UNCHANGED <<last, storeVars, shown>>
  BY <1>1, <1>4 DEF Awaits, Extends, Continues
<1>5. CASE /\ ~Unknown(f) /\ Missing(f) = {} /\ f.intent \in Confirmed
           /\ active' = [f EXCEPT !.phase = "confirming"]
           /\ shown' = [intent |-> f.intent, slots |-> f.slots]
           /\ UNCHANGED <<last, storeVars>>
  <2>1. active' = [intent |-> f.intent, slots |-> f.slots, phase |-> "confirming"]
    BY <1>1, <1>5
  <2>2. active'.intent = f.intent /\ active'.slots = f.slots /\ active'.phase = "confirming"
    BY <2>1
  <2>3. Missing(active') = Missing(f) /\ Unknown(active') = Unknown(f)
    BY <2>2 DEF Missing, Unfilled, Unknown
  <2>4. IsTask(active')
    BY <1>1, <1>5, <2>1, <2>2, <2>3 DEF IsTask, IsFrame, IsRecord
  <2>5. Awaits(active')
    BY <1>5, <2>2, <2>3, <2>4 DEF Awaits
  <2>6. \A g : Extends(g, f) => Continues(g, active')
    BY <2>2 DEF Extends, Continues
  <2>7. QED
    BY <1>5, <2>2, <2>5, <2>6
<1>6. CASE /\ f.intent \notin Confirmed /\ Execute(f) /\ UNCHANGED shown
           /\ \/ Finish(f)
              \/ f.intent \in Searches /\ Finish([f EXCEPT !.slots = Update(@, [product |-> "p1"])])
  <2>1. UNCHANGED storeVars
    BY <1>6, CatalogAssumption DEF Execute, storeVars
  <2>2. CASE Finish(f)
    <3>1. active' = None /\ last' = [intent |-> f.intent, slots |-> f.slots, phase |-> "completed"]
      BY <1>1, <2>2 DEF Finish
    <3>2. last'.intent = f.intent /\ last'.slots = f.slots /\ last'.phase = "completed"
      BY <3>1
    <3>3. IsDone(last')
      BY <1>1, <3>1, <3>2 DEF IsDone, IsFrame, IsRecord
    <3>4. \A g : Extends(g, f) => Continues(g, last')
      BY <3>2 DEF Extends, Continues
    <3>5. QED
      BY <1>2, <2>1, <3>1, <3>3, <3>4
  <2>3. CASE Finish([f EXCEPT !.slots = Update(@, [product |-> "p1"])])
    <3> DEFINE s == Update(f.slots, [product |-> "p1"])
    <3>1. DOMAIN s = DOMAIN f.slots \cup {"product"}
      BY DEF Update
    <3> HIDE DEF s
    <3>2. active' = None /\ last' = [[f EXCEPT !.slots = s] EXCEPT !.phase = "completed"]
      BY <2>3 DEF Finish, s
    <3>3. last' = [intent |-> f.intent, slots |-> s, phase |-> "completed"]
      BY <1>1, <3>2
    <3>4. last'.intent = f.intent /\ last'.slots = s /\ last'.phase = "completed"
      BY <3>3
    <3>5. IsDone(last')
      BY <1>1, <3>1, <3>3, <3>4 DEF IsDone, IsFrame, IsRecord
    <3>6. \A g : Extends(g, f) => Continues(g, last')
      BY <3>1, <3>4 DEF Extends, Continues
    <3>7. QED
      BY <1>2, <2>1, <3>2, <3>5, <3>6
  <2>4. QED
    BY <1>6, <2>2, <2>3
<1>7. QED
  BY <1>3, <1>4, <1>5, <1>6 DEF Advance

(* A task that waits is gone on with as it is, and not executed. *)
LEMMA AwaitedFacts ==
  ASSUME NEW f, Awaits(f), Advance(f)
  PROVE  active'.intent = f.intent /\ active'.slots = f.slots
<1>1. f = [intent |-> f.intent, slots |-> f.slots, phase |-> f.phase]
  BY DEF Awaits, IsTask, IsRecord
<1>2. active' = f \/ active' = [f EXCEPT !.phase = "confirming"]
  BY DEF Awaits, Advance
<1>3. QED
  BY <1>1, <1>2

(* A task extends and continues itself. *)
LEMMA ContinuesItself == \A f : Extends(f, f) /\ Continues(f, f)
  BY DEF Extends, Continues

(* The active task is put on the list, which then holds tasks only. *)
LEMMA SuspendKeeps ==
  ASSUME TasksFit, active # None, suspended' = Suspend(active)
  PROVE  /\ IsSequence(suspended') /\ Len(suspended') <= MaxSuspended
         /\ \A f \in ToSet(suspended') : Awaits(f)
         /\ ListKept /\ ActiveKept
<1>1. /\ IsSequence(suspended') /\ Len(suspended') <= MaxSuspended
      /\ ToSet(suspended') \subseteq ToSet(suspended) \cup {active} /\ active \in ToSet(suspended')
      /\ \A g \in ToSet(suspended) : g \in ToSet(suspended') \/ Displaced(g)
  BY SuspendFacts DEF TasksFit, Displaced
<1>2. \A f \in ToSet(suspended') : Awaits(f)
  BY <1>1 DEF TasksFit
<1>3. ListKept /\ ActiveKept
  BY <1>1 DEF ListKept, ActiveKept
<1>4. QED
  BY <1>1, <1>2, <1>3

(* A task that starts, or is asked for again, goes on from where it was;   *)
(* the one that was active waits for it.                                   *)
LEMMA ActivateKeeps ==
  ASSUME TasksFit, NEW i \in Intents, NEW m, Activate(i, m)
  PROVE  /\ TasksFit' /\ ListKept /\ ActiveKept
         /\ UNCHANGED storeVars /\ choices' = <<>> /\ pending' = NoText
<1> DEFINE prior == IF active # None THEN active ELSE last
           stays == active # None /\ active.intent = i
           fresh == [intent |-> i, slots |-> Borrowed(m, prior, i), phase |-> "collecting"]
           frame == IF stays THEN active ELSE fresh
           useful == Useful(m.values, i)
           task == With(frame, useful)
<1>1. /\ suspended' = IF active # None /\ ~stays THEN Suspend(active) ELSE suspended
      /\ choices' = <<>> /\ pending' = NoText
      /\ Advance(task)
  BY DEF Activate
<1>2. IsFrame(frame) /\ IsRecord(frame) /\ frame.intent = i
  <2>1. CASE stays
    BY <2>1 DEF TasksFit, Awaits, IsTask
  <2>2. CASE ~stays
    <3>1. DOMAIN Borrowed(m, prior, i) \subseteq ToSet(Required[i])
      <4>1. DOMAIN <<>> = {}
        OBVIOUS
      <4>2. QED
        BY <4>1 DEF Borrowed, Restrict
    <3> DEFINE b == Borrowed(m, prior, i)
    <3> HIDE DEF b
    <3>2. [intent |-> i, slots |-> b, phase |-> "collecting"].slots = b
      OBVIOUS
    <3>3. /\ fresh.intent = i /\ fresh.slots = b /\ fresh.phase = "collecting"
          /\ DOMAIN b \subseteq ToSet(Required[i])
      BY <3>1, <3>2 DEF b
    <3>4. frame = fresh
      BY <2>2
    <3>5. fresh = [intent |-> i, slots |-> b, phase |-> "collecting"]
      BY DEF b
    <3> HIDE DEF fresh, frame
    <3>6. QED
      BY <3>3, <3>4, <3>5 DEF IsFrame, IsRecord
  <2>3. QED
    BY <2>1, <2>2
<1>3. DOMAIN useful \subseteq ToSet(Required[i])
  BY UsefulFits
<1>4. stays => frame = active
  OBVIOUS
<1> HIDE DEF frame, useful
<1>5. IsTask(task) /\ Extends(frame, task)
  BY <1>2, <1>3, WithFacts
<1> HIDE DEF task
<1>6. /\ UNCHANGED storeVars
      /\ active' = None \/ Awaits(active')
      /\ active'.phase = "confirming" =>
           shown' = [intent |-> active'.intent, slots |-> active'.slots]
      /\ last' = None \/ IsDone(last')
      /\ \A g : Extends(g, task) => Continues(g, active') \/ Continues(g, last')
  BY <1>1, <1>5, AdvanceFacts DEF TasksFit
<1>7. CASE active # None /\ ~stays
  BY <1>1, <1>6, <1>7, SuspendKeeps DEF TasksFit
<1>8. CASE ~(active # None /\ ~stays)
  <2>1. suspended' = suspended
    BY <1>1, <1>8
  <2>2. ListKept
    BY <2>1 DEF ListKept
  <2>3. ActiveKept
    BY <1>4, <1>5, <1>6, <1>8 DEF ActiveKept
  <2>4. TasksFit'
    BY <1>6, <2>1 DEF TasksFit
  <2>5. QED
    BY <1>1, <1>6, <2>2, <2>3, <2>4
<1>9. QED
  BY <1>7, <1>8

(* The task f is gone on with where it is. *)
LEMMA AdvanceKeeps ==
  ASSUME TasksFit, active # None, NEW f, IsTask(f), Extends(active, f), Advance(f),
         suspended' = suspended
  PROVE  TasksFit' /\ ListKept /\ ActiveKept /\ UNCHANGED storeVars
<1>1. /\ UNCHANGED storeVars
      /\ active' = None \/ Awaits(active')
      /\ active'.phase = "confirming" =>
           shown' = [intent |-> active'.intent, slots |-> active'.slots]
      /\ last' = None \/ IsDone(last')
      /\ Continues(active, active') \/ Continues(active, last')
  BY AdvanceFacts DEF TasksFit
<1>2. ListKept /\ ActiveKept
  BY <1>1 DEF ListKept, ActiveKept
<1>3. QED
  BY <1>1, <1>2 DEF TasksFit

(* The latest task of the list is gone on with as it is, the active one    *)
(* waits.                                                                  *)
Resumes(f) == active'.intent = f.intent /\ active'.slots = f.slots

LEMMA ResumeKeeps ==
  ASSUME TasksFit, NEW m, Resume(m)
  PROVE  /\ TasksFit' /\ ActiveKept /\ UNCHANGED storeVars
         /\ \A f \in ToSet(suspended) : f \in ToSet(suspended') \/ Resumes(f)
<1> DEFINE f == Last(suspended)
<1>1. /\ IsSequence(suspended) /\ suspended # <<>> /\ Advance(f)
      /\ suspended' = Front(suspended) \o (IF active = None THEN <<>> ELSE <<active>>)
  BY DEF Resume, Resumed, TasksFit
<1> HIDE DEF f
<1>2. /\ IsSequence(suspended') /\ Len(suspended') <= Len(suspended)
      /\ f \in ToSet(suspended)
      /\ ToSet(suspended') \subseteq ToSet(suspended) \cup ({active} \ {None})
      /\ active # None => active \in ToSet(suspended')
      /\ \A g \in ToSet(suspended) : g \in ToSet(suspended') \/ g = f
  BY <1>1, ResumeFacts DEF f
<1>3. Len(suspended) \in Nat /\ Len(suspended') \in Nat
  BY <1>1, <1>2, Widen
<1>4. Len(suspended') <= MaxSuspended
  BY <1>2, <1>3, BoundsAssumption DEF TasksFit
<1>5. \A g \in ToSet(suspended') : Awaits(g)
  BY <1>2 DEF TasksFit
<1>6. /\ UNCHANGED storeVars
      /\ active' = None \/ Awaits(active')
      /\ active'.phase = "confirming" =>
           shown' = [intent |-> active'.intent, slots |-> active'.slots]
      /\ last' = None \/ IsDone(last')
  BY <1>1, <1>2, AdvanceFacts DEF TasksFit, Awaits
<1>7. ActiveKept /\ Resumes(f)
  BY <1>1, <1>2, AwaitedFacts DEF TasksFit, ActiveKept, Resumes
<1>8. QED
  BY <1>2, <1>4, <1>5, <1>6, <1>7 DEF TasksFit

-----------------------------------------------------------------------------
(* What a turn does to the store. *)

(* Only a task that needs no confirmation, or a yes, executes anything: a  *)
(* new ticket is of the active task, and its order was still to be changed.*)
LEMMA ExecuteKeeps ==
  ASSUME StoreFits, NEW f, IsTask(f), f.phase = "confirming", Execute(f)
  PROVE  /\ StoreFits'
         /\ tickets' # tickets =>
              tickets' = Append(tickets, [intent |-> f.intent, slots |-> f.slots])
<1> DEFINE tk == [intent |-> f.intent, slots |-> f.slots]
           o == f.slots["order_id"]
           n == Len(tickets)
           S == ToSet(tickets) \cup {tk}
<1>1. f.intent \in NeedsPaid => o \in Orders
  <2> SUFFICES ASSUME f.intent \in NeedsPaid  PROVE o \in Orders
    OBVIOUS
  <2>1. PICK k \in DOMAIN Required[f.intent] : Required[f.intent][k] = "order_id"
    BY CatalogAssumption DEF ToSet
  <2>2. "order_id" \in DOMAIN f.slots
    BY <2>1 DEF IsTask, Missing, Unfilled
  <2>3. QED
    BY <2>2 DEF IsTask, Unknown
<1>2. CASE f.intent \notin Mutations \/ Refused(f)
  <2>1. UNCHANGED <<tickets, status>>
    BY <1>2, CatalogAssumption DEF Execute
  <2>2. QED
    BY <2>1 DEF StoreFits, NothingAfterCancellation
<1>3. CASE f.intent \in Mutations /\ ~Refused(f)
  <2>1. /\ tickets' = Append(tickets, tk)
        /\ status' = IF f.intent \in Cancelling THEN [status EXCEPT ![o] = "cancelled"] ELSE status
    BY <1>3 DEF Execute
  <2>2. tk.intent = f.intent /\ tk.slots = f.slots /\ tk.slots["order_id"] = o
    OBVIOUS
  <2> HIDE DEF tk, o
  <2>3. tickets \in Seq(S) /\ n \in Nat /\ DOMAIN tickets = 1..n
    BY Widen DEF StoreFits
  <2> HIDE DEF n
  <2>4. /\ tickets' \in Seq(S) /\ Len(tickets') = n + 1 /\ tickets'[n+1] = tk
        /\ \A i \in 1..n : tickets'[i] = tickets[i]
    BY <2>1, <2>3, AppendProperties DEF n
  <2>5. IsSequence(tickets') /\ DOMAIN tickets' = 1..n+1
    BY <2>4, Narrow, LenProperties
  <2>6. f.intent \in NeedsPaid => status[o] = "paid"
    BY <1>3 DEF Refused, o
  <2>7. /\ status' \in [Orders -> {"paid", "shipped", "cancelled"}]
        /\ f.intent \in Cancelling => status'[o] = "cancelled"
        /\ \A x \in Orders : status[x] = "cancelled" => status'[x] = "cancelled"
    BY <1>1, <2>1, CatalogAssumption DEF StoreFits
  <2>8. \A i \in 1..n :
          /\ tickets[i].intent \in Mutations
          /\ tickets[i].intent \in NeedsPaid => tickets[i].slots["order_id"] \in Orders
          /\ tickets[i].intent \in Cancelling => status[tickets[i].slots["order_id"]] = "cancelled"
    BY <2>3 DEF StoreFits
  <2>9. \A i \in 1..n+1 :
          /\ tickets'[i].intent \in Mutations
          /\ tickets'[i].intent \in NeedsPaid => tickets'[i].slots["order_id"] \in Orders
          /\ tickets'[i].intent \in Cancelling =>
               status'[tickets'[i].slots["order_id"]] = "cancelled"
    <3> SUFFICES ASSUME NEW i \in 1..n+1
                 PROVE  /\ tickets'[i].intent \in Mutations
                        /\ tickets'[i].intent \in NeedsPaid =>
                             tickets'[i].slots["order_id"] \in Orders
                        /\ tickets'[i].intent \in Cancelling =>
                             status'[tickets'[i].slots["order_id"]] = "cancelled"
      OBVIOUS
    <3>1. CASE i = n + 1
      BY <1>1, <1>3, <2>2, <2>4, <2>7, <3>1 DEF o
    <3>2. CASE i # n + 1
      <4>1. i \in 1..n /\ tickets'[i] = tickets[i]
        BY <2>3, <2>4, <3>2
      <4>2. QED
        BY <2>7, <2>8, <4>1, CatalogAssumption
    <3>3. QED
      BY <3>1, <3>2
  <2>10. ASSUME NEW i \in 1..n+1, NEW j \in 1..n+1, i < j,
                tickets'[i].intent \in Cancelling, tickets'[j].intent \in NeedsPaid
         PROVE  tickets'[i].slots["order_id"] # tickets'[j].slots["order_id"]
    <3>1. i \in 1..n /\ tickets'[i] = tickets[i]
      BY <2>3, <2>4, <2>10
    <3>2. CASE j = n + 1
      BY <2>2, <2>4, <2>6, <2>8, <2>10, <3>1, <3>2
    <3>3. CASE j # n + 1
      <4>1. j \in 1..n /\ tickets'[j] = tickets[j]
        BY <2>3, <2>4, <3>3
      <4>2. QED
        BY <2>3, <2>10, <3>1, <4>1 DEF StoreFits, NothingAfterCancellation
    <3>4. QED
      BY <3>2, <3>3
  <2>11. NothingAfterCancellation'
    BY <2>5, <2>10 DEF NothingAfterCancellation
  <2>12. StoreFits'
    BY <2>5, <2>7, <2>9, <2>11 DEF StoreFits
  <2>13. QED
    BY <2>1, <2>12 DEF tk
<1>4. QED
  BY <1>2, <1>3

(* A yes completes the task. *)
LEMMA ConfirmKeeps ==
  ASSUME TasksFit, StoreFits, NEW m, Confirm(m)
  PROVE  /\ TasksFit' /\ ListKept /\ ActiveKept /\ StoreFits'
         /\ m.cmd = "yes" /\ choices = <<>>
         /\ tickets' # tickets => tickets' = Append(tickets, shown)
<1>1. /\ active # None /\ IsTask(active) /\ active.phase = "confirming"
      /\ m.cmd = "yes" /\ choices = <<>>
      /\ Execute(active) /\ Finish(active) /\ UNCHANGED <<suspended, shown>>
  BY DEF Confirm, Within, Consents, TasksFit, Awaits
<1>2. StoreFits' /\ (tickets' # tickets => tickets' = Append(tickets, shown))
  BY <1>1, ExecuteKeeps DEF TasksFit
<1>3. /\ active' = None /\ None.phase # "confirming"
      /\ last' = [intent |-> active.intent, slots |-> active.slots, phase |-> "completed"]
  BY <1>1 DEF Finish, IsTask, IsRecord, None
<1>4. last'.intent = active.intent /\ last'.slots = active.slots /\ last'.phase = "completed"
  BY <1>3
<1>5. IsDone(last')
  BY <1>1, <1>3, <1>4 DEF IsDone, IsTask, IsFrame, IsRecord
<1>6. TasksFit'
  BY <1>1, <1>3, <1>5 DEF TasksFit
<1>7. Continues(active, last')
  BY <1>4 DEF Continues
<1>8. ListKept /\ ActiveKept
  BY <1>1, <1>7 DEF ListKept, ActiveKept
<1>9. QED
  BY <1>1, <1>2, <1>6, <1>8

(* Words in place of an intent: the classifier names intents only. *)
LEMMA RankingsNameIntents ==
  /\ \A top \in Rankings : \A k \in DOMAIN top : top[k] \in Intents
  /\ \A top \in Rankings \ {<<>>} : Head(top) \in Intents
<1>1. ASSUME NEW top \in Rankings
      PROVE  top = <<>> \/ (top \in Seq(Intents) /\ top # <<>>)
  <2>1. top = <<>> \/ \E n \in 1..3 : top \in [1..n -> Intents]
    BY DEF Rankings
  <2>2. ASSUME NEW n \in 1..3, top \in [1..n -> Intents]  PROVE top \in Seq(Intents)
    BY <2>2
  <2>3. QED
    BY <2>1, <2>2
<1>2. \A top \in Rankings : \A k \in DOMAIN top : top[k] \in Intents
  BY <1>1, LenProperties, ElementOfSeq
<1>3. \A top \in Rankings \ {<<>>} : Head(top) \in Intents
  BY <1>1, HeadTailProperties
<1>4. QED
  BY <1>2, <1>3

-----------------------------------------------------------------------------
(* Turns. *)

KeptOrDropped ==
  /\ \A f \in ToSet(suspended) :
       f \in ToSet(suspended') \/ (heard' = "resume" /\ Resumes(f)) \/ Displaced(f)
  /\ heard' = "no" \/ ActiveKept

ConsentGiven ==
  tickets' # tickets => heard' = "yes" /\ choices = <<>> /\ tickets' = Append(tickets, shown)

(* The list of choices holds intents, whatever is offered. *)
LEMMA ChoicesKeep ==
  ASSUME ChoicesFit, turn < MaxTurns, turn' = turn + 1,
         \/ UNCHANGED choices
         \/ choices' = <<>>
         \/ choices' \in Rankings,
         pending' \in Utterances \cup {NoText}
  PROVE  ChoicesFit'
<1>1. turn' \in 0..MaxTurns
  BY BoundsAssumption DEF ChoicesFit
<1>2. DOMAIN <<>> = {}
  OBVIOUS
<1>3. \A i \in DOMAIN choices' : choices'[i] \in Intents
  <2>1. CASE UNCHANGED choices
    BY <2>1 DEF ChoicesFit
  <2>2. CASE choices' = <<>>
    BY <1>2, <2>2
  <2>3. CASE choices' \in Rankings
    BY <2>3, RankingsNameIntents
  <2>4. QED
    BY <2>1, <2>2, <2>3
<1>4. QED
  BY <1>1, <1>3 DEF ChoicesFit

(* A turn that leaves the store alone needs no consent. *)
LEMMA StoreKeeps ==
  ASSUME StoreFits, UNCHANGED storeVars
  PROVE  StoreFits' /\ ConsentGiven
BY DEF StoreFits, NothingAfterCancellation, storeVars, ConsentGiven

(* One branch of turn() is taken, and each keeps the invariant and the     *)
(* tasks.                                                                  *)
LEMMA TurnKeeps ==
  ASSUME DialogueInv, NEW m \in Utterances, Turn(m)
  PROVE  DialogueInv' /\ KeptOrDropped /\ ConsentGiven
<1>1. /\ turn < MaxTurns /\ turn' = turn + 1 /\ heard' = m.cmd
      /\ TasksFit /\ ChoicesFit /\ StoreFits
      /\ pending \in Utterances \cup {NoText}
  BY DEF Turn, DialogueInv, ChoicesFit
<1>2. ASSUME NEW i \in Intents, NEW n, Activate(i, n)
      PROVE  DialogueInv' /\ KeptOrDropped /\ ConsentGiven
  <2>1. /\ TasksFit' /\ ListKept /\ ActiveKept
        /\ UNCHANGED storeVars /\ choices' = <<>> /\ pending' = NoText
    BY <1>1, <1>2, ActivateKeeps
  <2>2. ChoicesFit'
    BY <1>1, <2>1, ChoicesKeep
  <2>3. QED
    BY <1>1, <2>1, <2>2, StoreKeeps DEF DialogueInv, KeptOrDropped, ListKept
<1>3. CASE NothingToResume(m) \/ Thanks(m) \/ AskAgain(m)
  <2>1. UNCHANGED <<taskVars, storeVars>>
    BY <1>3 DEF NothingToResume, Thanks, AskAgain
  <2>2. UNCHANGED <<active, suspended, last, choices, pending, shown>>
    BY <2>1 DEF taskVars
  <2>3. ChoicesFit' /\ TasksFit'
    BY <1>1, <2>2, ChoicesKeep DEF TasksFit
  <2>4. KeptOrDropped
    BY <2>2, ContinuesItself DEF KeptOrDropped, ActiveKept
  <2>5. QED
    BY <1>1, <2>1, <2>3, <2>4, StoreKeeps DEF DialogueInv
<1>4. CASE Resume(m)
  <2>1. /\ TasksFit' /\ ActiveKept /\ UNCHANGED storeVars
        /\ \A f \in ToSet(suspended) : f \in ToSet(suspended') \/ Resumes(f)
    BY <1>1, <1>4, ResumeKeeps
  <2>2. ChoicesFit'
    BY <1>1, <1>4, ChoicesKeep DEF Resume
  <2>3. QED
    BY <1>1, <1>4, <2>1, <2>2, StoreKeeps DEF DialogueInv, KeptOrDropped, Resume
<1>5. CASE Drop(m)
  <2>1. /\ m.cmd = "no" /\ active' = None /\ choices' = <<>>
        /\ UNCHANGED <<suspended, last, pending, shown, storeVars>>
    BY <1>5 DEF Drop
  <2>2. None.phase # "confirming"
    BY DEF None
  <2>3. TasksFit'
    BY <1>1, <2>1, <2>2 DEF TasksFit
  <2>4. KeptOrDropped
    BY <1>1, <2>1, ContinuesItself DEF KeptOrDropped, ActiveKept
  <2>5. ChoicesFit'
    BY <1>1, <2>1, ChoicesKeep
  <2>6. QED
    BY <1>1, <2>1, <2>3, <2>4, <2>5, StoreKeeps DEF DialogueInv
<1>6. CASE Select(m)
  BY <1>2, <1>6 DEF Select
<1>7. CASE Pick(m)
  BY <1>1, <1>2, <1>7 DEF Pick, Picks, ChoicesFit
<1>8. CASE Confirm(m)
  <2>1. /\ TasksFit' /\ ListKept /\ ActiveKept /\ StoreFits'
        /\ m.cmd = "yes" /\ choices = <<>>
        /\ tickets' # tickets => tickets' = Append(tickets, shown)
    BY <1>1, <1>8, ConfirmKeeps
  <2>2. ChoicesFit'
    BY <1>1, <1>8, ChoicesKeep DEF Confirm
  <2>3. QED
    BY <1>1, <2>1, <2>2 DEF DialogueInv, KeptOrDropped, ListKept, ConsentGiven
<1>9. CASE Fill(m) \/ Repeat(m)
  <2>1. active # None /\ IsTask(active) /\ suspended' = suspended /\ pending' = pending
    BY <1>1, <1>9 DEF Fill, Repeat, Within, TasksFit, Awaits
  <2>2. choices' = <<>> \/ UNCHANGED choices
    BY <1>9 DEF Fill, Repeat
  <2>3. PICK f : IsTask(f) /\ Extends(active, f) /\ Advance(f)
    <3>1. CASE Fill(m)
      <4>1. DOMAIN Answer(m) \subseteq ToSet(Required[active.intent])
        BY UsefulFits DEF Answer
      <4>2. QED
        BY <2>1, <3>1, <4>1, WithFacts DEF Fill, IsTask
    <3>2. CASE Repeat(m)
      BY <2>1, <3>2, ContinuesItself DEF Repeat
    <3>3. QED
      BY <1>9, <3>1, <3>2
  <2>4. TasksFit' /\ ListKept /\ ActiveKept /\ UNCHANGED storeVars
    BY <1>1, <2>1, <2>3, AdvanceKeeps
  <2>5. ChoicesFit'
    BY <1>1, <2>1, <2>2, ChoicesKeep
  <2>6. QED
    BY <1>1, <2>4, <2>5, StoreKeeps DEF DialogueInv, KeptOrDropped, ListKept
<1>10. CASE ProductFollowUp(m) \/ OrderFollowUp(m)
  <2>1. last # None
    BY <1>10 DEF ProductFollowUp, OrderFollowUp, FollowsProduct, FollowsOrder
  <2>2. last.intent \in Intents /\ Detail \in Intents
    BY <1>1, <2>1, CatalogAssumption DEF TasksFit, IsDone, IsFrame, ProductIntents
  <2>3. QED
    BY <1>2, <1>10, <2>2 DEF ProductFollowUp, OrderFollowUp
<1>11. ASSUME NEW result \in Classifications, Classified(m, result)
       PROVE  DialogueInv' /\ KeptOrDropped /\ ConsentGiven
  <2>1. result.intent # "none" /\ Activate(result.intent, m)
    BY <1>11 DEF Classified
  <2>2. result.intent \in Intents
    BY <2>1, RankingsNameIntents DEF Classifications
  <2>3. QED
    BY <1>2, <2>1, <2>2
<1>12. ASSUME NEW result \in Classifications, Unclear(m, result)
       PROVE  DialogueInv' /\ KeptOrDropped /\ ConsentGiven
  <2>1. /\ pending' = m /\ choices' = result.candidates
        /\ UNCHANGED <<last, shown, storeVars>>
        /\ \/ active # None /\ suspended' = Suspend(active) /\ active' = None
           \/ UNCHANGED <<suspended, active>>
    BY <1>12 DEF Unclear, SuspendInterrupted
  <2>2. result.candidates \in Rankings
    BY DEF Classifications
  <2>3. ChoicesFit'
    BY <1>1, <2>1, <2>2, ChoicesKeep
  <2>4. TasksFit' /\ KeptOrDropped
    <3>1. CASE active # None /\ suspended' = Suspend(active) /\ active' = None
      <4>1. /\ IsSequence(suspended') /\ Len(suspended') <= MaxSuspended
            /\ \A f \in ToSet(suspended') : Awaits(f)
            /\ ListKept /\ ActiveKept
        BY <1>1, <3>1, SuspendKeeps
      <4>2. None.phase # "confirming"
        BY DEF None
      <4>3. QED
        BY <1>1, <2>1, <3>1, <4>1, <4>2 DEF TasksFit, KeptOrDropped, ListKept
    <3>2. CASE UNCHANGED <<suspended, active>>
      <4>1. KeptOrDropped
        BY <3>2, ContinuesItself DEF KeptOrDropped, ActiveKept
      <4>2. QED
        BY <1>1, <2>1, <3>2, <4>1 DEF TasksFit
    <3>3. QED
      BY <2>1, <3>1, <3>2
  <2>5. QED
    BY <1>1, <2>1, <2>3, <2>4, StoreKeeps DEF DialogueInv
<1>13. QED
  BY <1>3, <1>4, <1>5, <1>6, <1>7, <1>8, <1>9, <1>10, <1>11, <1>12 DEF Turn

(* At first there is no task, and nothing has been asked or done. *)
LEMMA DialogueInitInv == Init => DialogueInv
<1> SUFFICES ASSUME Init  PROVE DialogueInv
  OBVIOUS
<1>1. /\ <<>> \in Seq({}) /\ ToSet(<<>>) = {} /\ Len(<<>>) = 0 /\ DOMAIN <<>> = {}
  BY EmptySeq DEF ToSet
<1>2. None.phase # "confirming"
  BY DEF None
<1>3. TasksFit
  BY <1>1, <1>2, BoundsAssumption DEF Init, TasksFit, IsSequence
<1>4. ChoicesFit
  BY <1>1, BoundsAssumption DEF Init, ChoicesFit
<1>5. StoreFits
  BY <1>1 DEF Init, StoreFits, IsSequence, NothingAfterCancellation
<1>6. QED
  BY <1>3, <1>4, <1>5 DEF DialogueInv

(* Every step keeps the invariant. *)
LEMMA DialogueStep == DialogueInv /\ [Next]_vars => DialogueInv'
<1> SUFFICES ASSUME DialogueInv, [Next]_vars  PROVE DialogueInv'
  OBVIOUS
<1>1. CASE Next
  BY <1>1, TurnKeeps DEF Next
<1>2. CASE UNCHANGED vars
  BY <1>2 DEF vars, DialogueInv, TasksFit, ChoicesFit, StoreFits, NothingAfterCancellation
<1>3. QED
  BY <1>1, <1>2

-----------------------------------------------------------------------------
(* The tasks, the choices and the store fit together in every execution.   *)
THEOREM DialogueInvariance == Spec => []DialogueInv
  BY DialogueInitInv, DialogueStep, PTL DEF Spec

(* A frame holds slots of its own intent, one that can be confirmed is     *)
(* complete and was shown as it is, and the list of tasks is bounded.      *)
THEOREM DialogueTypeCorrect == Spec => []TypeOK
<1>1. DialogueInv => TypeOK
  <2> SUFFICES ASSUME DialogueInv  PROVE TypeOK
    OBVIOUS
  <2>1. \A i \in DOMAIN suspended : suspended[i] \in ToSet(suspended)
    BY DEF ToSet
  <2>2. None.phase # "confirming"
    BY DEF None
  <2>3. ConfirmableIsComplete
    BY <2>2 DEF DialogueInv, TasksFit, Awaits, IsTask, ConfirmableIsComplete
  <2>4. QED
    BY <2>1, <2>3 DEF DialogueInv, TasksFit, ChoicesFit, StoreFits, Awaits, IsTask, IsDone, TypeOK
<1>2. QED
  BY <1>1, DialogueInvariance, PTL

(* No order is changed after it was cancelled (actions.py:143-160).        *)
THEOREM CancelledStaysCancelled == Spec => []NothingAfterCancellation
<1>1. DialogueInv => NothingAfterCancellation
  BY DEF DialogueInv, StoreFits
<1>2. QED
  BY <1>1, DialogueInvariance, PTL

(* Nothing is done but what was shown and then confirmed with a yes        *)
(* (dialogue.py:96).                                                       *)
THEOREM ConsentComesFirst == Spec => ConsentBeforeChange
<1>1. DialogueInv /\ [Next]_vars =>
        [tickets' # tickets => heard' = "yes" /\ choices = <<>>
                               /\ tickets' = Append(tickets, shown)]_vars
  BY TurnKeeps DEF Next, ConsentGiven
<1>2. QED
  BY <1>1, DialogueInvariance, PTL DEF Spec, ConsentBeforeChange

(* No turn loses a task or a slot of one, but the oldest of a full list.   *)
THEOREM NoTaskLost == Spec => TasksKept
<1> DEFINE Kept ==
      /\ \A f \in ToSet(suspended) :
           \/ f \in ToSet(suspended')
           \/ heard' = "resume" /\ active'.intent = f.intent /\ active'.slots = f.slots
           \/ Len(suspended) = MaxSuspended /\ f = Head(suspended)
      /\ active # None =>
           \/ active \in ToSet(suspended') \/ heard' = "no"
           \/ Continues(active, active') \/ Continues(active, last')
<1>1. DialogueInv /\ [Next]_vars => [Kept]_vars
  BY TurnKeeps DEF Next, KeptOrDropped, ActiveKept, Resumes, Displaced
<1>2. QED
  BY <1>1, DialogueInvariance, PTL DEF Spec, TasksKept
=============================================================================
