--------------------------- MODULE SessionsProofs ---------------------------
(***************************************************************************)
(* Proofs about the session store, for any requests, whatever the limit of *)
(* the table: what a conversation holds, and which sessions are kept.      *)
(***************************************************************************)
EXTENDS Sessions, SequenceLemmas

-----------------------------------------------------------------------------
(* The inductive invariant. *)

Busy   == {"waiting", "woken", "turn"}
Places == {"new", "done"} \cup Busy

StoreTypes ==
  /\ at \in [Requests -> Places]
  /\ of \in [Requests -> Requests \cup {NoCookie}]
  /\ \A r \in Requests : at[r] \in Busy => of[r] \in Requests
  /\ asked \subseteq {r \in Requests : at[r] \in Busy}
  /\ outcome \in [Requests -> {"none", "ok", "failed", "full"}]
  /\ log \in [Requests -> Seq(Requests)] /\ story \in [Requests -> Seq(Requests)]
  /\ work \in [Requests -> Seq(Requests)] /\ waiters \in [Requests -> Seq(Requests)]

(* A session in use is in the table, and one that may expire is in use by  *)
(* the one that holds its lock, if at all.                                 *)
TableServes ==
  /\ table \subseteq Requests /\ Cardinality(table) <= MaxSessions
  /\ \A r \in Requests : at[r] \in Busy => of[r] \in table
  /\ \A r \in Requests : at[r] \in {"waiting", "woken"} => of[r] \notin old

(* Those on the queue of a lock came for its session.  Only the head of    *)
(* the queue is ever woken.                                                *)
QueuesBelong ==
  /\ \A s \in Requests : \A q \in ToSet(waiters[s]) : of[q] = s /\ at[q] # "new"
  /\ \A r \in Requests : at[r] = "woken" =>
       waiters[of[r]] # <<>> /\ Head(waiters[of[r]]) = r

(* The lock has one owner, and nobody who is woken finds it taken.         *)
LockExclusive ==
  /\ \A r, q \in Requests : at[r] = "turn" /\ at[q] = "turn" /\ of[r] = of[q] => r = q
  /\ \A r \in Requests : at[r] = "woken" => ~Locked(of[r])
  /\ \A r \in Requests : at[r] = "turn" => r \in Chats

(* A turn's copy is still the conversation. *)
CopiesFresh == \A r \in Requests : at[r] = "turn" => work[r] = log[of[r]]

(* Whoever is in a story has left. *)
StoriesTold == \A s \in Requests : \A i \in DOMAIN story[s] : at[story[s][i]] = "done"

TurnInv ==
  /\ StoreTypes /\ QueuesBelong /\ LockExclusive /\ CopiesFresh /\ StoriesTold /\ Transactional

StoreInv == TurnInv /\ TableServes

-----------------------------------------------------------------------------
(* Conversations. *)

(* A chat that is committed is the end of its conversation. *)
LEMMA TellChat ==
  ASSUME NEW q \in Seq(Requests), NEW l, SinceReset(l, q), NEW r \in Requests, r \notin Resets
  PROVE  SinceReset(Append(l, r), Append(q, r))
<1> PICK n \in 0..Len(q) : LastReset(q, n) /\ l = SubSeq(q, n+1, Len(q))
  BY DEF SinceReset
<1> DEFINE p == Append(q, r)
<1>1. /\ p \in Seq(Requests) /\ Len(p) = Len(q) + 1 /\ Len(q) \in Nat
      /\ p[Len(q)+1] = r /\ \A i \in 1..Len(q) : p[i] = q[i]
  BY AppendProperties, LenProperties
<1> HIDE DEF p
<1>2. n \in 0..Len(p) /\ LastReset(p, n)
  BY <1>1 DEF LastReset
<1>3. n+1 \in 1..Len(p) /\ Len(p) \in n+1..Len(p)
  BY <1>1
<1>4. SubSeq(p, n+1, Len(p)) = SubSeq(p, n+1, Len(p) - 1) \o <<p[Len(p)]>>
  BY <1>1, <1>3, SubSeqRecursiveSecond
<1>5. SubSeq(p, n+1, Len(q)) = SubSeq(q, n+1, Len(q))
  <2> DEFINE u == SubSeq(p, n+1, Len(q))
             v == SubSeq(q, n+1, Len(q))
             size == IF n+1 <= Len(q) THEN Len(q)-(n+1)+1 ELSE 0
  <2>1. \A i \in n+1..Len(q) : p[i] = q[i] /\ p[i] \in Requests /\ q[i] \in Requests
    BY <1>1, ElementOfSeq
  <2>2. n+1 \in Int /\ Len(q) \in Int
    BY <1>1
  <2>3. /\ u \in Seq(Requests) /\ Len(u) = size
        /\ \A i \in 1..Len(q)-(n+1)+1 : u[i] = p[n+1+i-1]
    BY <2>1, <2>2, SubSeqProperties
  <2>4. /\ v \in Seq(Requests) /\ Len(v) = size
        /\ \A i \in 1..Len(q)-(n+1)+1 : v[i] = q[n+1+i-1]
    BY <2>1, <2>2, SubSeqProperties
  <2> HIDE DEF u, v
  <2>5. ASSUME NEW i \in 1..Len(u)  PROVE u[i] = v[i]
    <3>1. i \in 1..Len(q)-(n+1)+1 /\ n+1+i-1 \in n+1..Len(q)
      BY <1>1, <2>3, <2>5
    <3>2. QED
      BY <2>1, <2>3, <2>4, <3>1
  <2>6. u = v
    BY <2>3, <2>4, <2>5, SeqEqual
  <2>7. QED
    BY <2>6 DEF u, v
<1>6. SubSeq(q, n+1, Len(q)) \in Seq(Requests)
  <2>1. \A i \in n+1..Len(q) : q[i] \in Requests
    BY <1>1, ElementOfSeq
  <2>2. QED
    BY <1>1, <2>1, SubSeqProperties
<1>7. Append(SubSeq(q, n+1, Len(q)), r) = SubSeq(q, n+1, Len(q)) \o <<r>>
  BY <1>6, AppendIsConcat
<1>8. Len(p) - 1 = Len(q) /\ p[Len(p)] = r
  BY <1>1
<1>9. QED
  BY <1>2, <1>4, <1>5, <1>7, <1>8 DEF p, SinceReset

(* After a reset it is empty. *)
LEMMA TellReset ==
  ASSUME NEW q \in Seq(Requests), NEW r \in Resets
  PROVE  SinceReset(<<>>, Append(q, r))
<1> DEFINE p == Append(q, r)
<1>1. r \in Requests
  BY DEF Requests
<1>2. Len(p) = Len(q) + 1 /\ Len(q) \in Nat /\ p[Len(q)+1] = r
  BY <1>1, AppendProperties, LenProperties
<1> HIDE DEF p
<1>3. Len(p) \in 0..Len(p) /\ LastReset(p, Len(p))
  BY <1>2 DEF LastReset
<1>4. SubSeq(p, Len(p)+1, Len(p)) = <<>>
  BY <1>2, SubSeqEmpty
<1>5. QED
  BY <1>3, <1>4 DEF p, SinceReset

-----------------------------------------------------------------------------
(* Steps that hand the lock over. *)

(* The head of a queue is in it. *)
LEMMA HeadIsIn ==
  ASSUME NEW S, NEW q \in Seq(S), q # <<>>
  PROVE  Head(q) \in ToSet(q) /\ Head(q) \in S
<1>1. Len(q) \in Nat \ {0} /\ DOMAIN q = 1..Len(q) /\ q[1] = Head(q)
  BY EmptySeq, LenProperties
<1>2. 1 \in DOMAIN q
  BY <1>1
<1>3. QED
  BY <1>1, <1>2, ElementOfSeq DEF ToSet

(* What is left of the queues when r has left or joined the one of s: the  *)
(* woken are still at their heads.                                         *)
QueuesKept(r) ==
  /\ waiters' \in [Requests -> Seq(Requests)]
  /\ \A s \in Requests : ToSet(waiters'[s]) \subseteq ToSet(waiters[s])
  /\ \A x \in Requests \ {r} : at[x] = "woken" =>
       waiters'[of[x]] # <<>> /\ Head(waiters'[of[x]]) = x

(* Taking r out of the queue of s does that. *)
LEMMA LeavingQueue ==
  ASSUME TurnInv, NEW r \in Requests, NEW s \in Requests,
         waiters' = [waiters EXCEPT ![s] = RemoveFirst(waiters[s], r)]
  PROVE  QueuesKept(r)
<1>1. waiters \in [Requests -> Seq(Requests)]
  BY DEF TurnInv, StoreTypes
<1> DEFINE rest == RemoveFirst(waiters[s], r)
<1>2. /\ rest \in Seq(Requests) /\ ToSet(rest) \subseteq ToSet(waiters[s])
      /\ waiters[s] # <<>> /\ Head(waiters[s]) # r
           => rest # <<>> /\ Head(rest) = Head(waiters[s])
  BY <1>1, RemoveFirstHead
<1> HIDE DEF rest
<1>3. waiters' = [waiters EXCEPT ![s] = rest]
  BY DEF rest
<1>4. QED
  BY <1>1, <1>2, <1>3 DEF QueuesKept, TurnInv, QueuesBelong

(* Request r gets the lock of session s, or does its work at once. *)
LEMMA ObtainKeeps ==
  ASSUME TurnInv, NEW r \in Requests, NEW s \in Requests,
         at[r] = "new" \/ (at[r] = "woken" /\ of[r] = s), r \notin asked,
         of' = [of EXCEPT ![r] = s], asked' = asked, ~Locked(s),
         \A x \in Requests \ {r} : of[x] = s => at[x] # "woken",
         QueuesKept(r), Obtain(r, s, waiters'[s])
  PROVE  TurnInv'
<1> USE DEF TurnInv
<1> DEFINE Turns == /\ r \in Chats
                    /\ at' = [at EXCEPT ![r] = "turn"]
                    /\ work' = [work EXCEPT ![r] = log[s]]
                    /\ UNCHANGED <<log, story, outcome>>
           Serves == /\ r \notin Chats
                     /\ Leave(r, "done", waiters'[s]) /\ Answer(r, "ok")
                     /\ log' = [log EXCEPT ![s] = IF r \in Resets THEN <<>> ELSE @]
                     /\ story' = [story EXCEPT ![s] = IF r \in Resets THEN Append(@, r) ELSE @]
                     /\ UNCHANGED work
           woken == Next1(waiters'[s])
<1>1. Turns \/ Serves
  BY DEF Obtain
<1>2. /\ woken \subseteq Requests /\ \A x \in woken : of[x] = s /\ at[x] = "waiting" /\ x # r
      /\ \A x \in woken : waiters'[s] # <<>> /\ Head(waiters'[s]) = x
  <2>1. ASSUME waiters'[s] # <<>>
        PROVE  Head(waiters'[s]) \in Requests /\ of[Head(waiters'[s])] = s
    BY <2>1, HeadIsIn DEF QueuesKept, QueuesBelong
  <2>2. QED
    BY <2>1 DEF Next1
<1>3. /\ at' \in [Requests -> Places]
      /\ at'[r] = IF r \in Chats THEN "turn" ELSE "done"
      /\ \A x \in Requests \ {r} : at'[x] = at[x] \/ (at'[x] = "woken" /\ x \in woken /\ Serves)
  <2>1. at \in [Requests -> Places]
    BY DEF StoreTypes
  <2>2. CASE Turns
    BY <2>1, <2>2 DEF Places, Busy
  <2>3. CASE Serves
    BY <1>2, <2>1, <2>3 DEF Places, Busy, Leave
  <2>4. QED
    BY <1>1, <2>2, <2>3
<1>4. /\ of' \in [Requests -> Requests \cup {NoCookie}] /\ of'[r] = s
      /\ \A x \in Requests \ {r} : of'[x] = of[x]
  BY DEF StoreTypes
<1>5. StoreTypes'
  <2>1. outcome' \in [Requests -> {"none", "ok", "failed", "full"}]
    BY <1>1 DEF StoreTypes, Answer
  <2>2. story' \in [Requests -> Seq(Requests)]
    <3>1. story[s] \in Seq(Requests) /\ Append(story[s], r) \in Seq(Requests)
      BY AppendProperties DEF StoreTypes
    <3>2. QED
      BY <1>1, <3>1 DEF StoreTypes
  <2>3. log' \in [Requests -> Seq(Requests)] /\ work' \in [Requests -> Seq(Requests)]
    <3>1. <<>> \in Seq(Requests)
      BY EmptySeq
    <3>2. CASE Turns
      BY <3>2 DEF StoreTypes
    <3>3. CASE Serves
      <4> DEFINE l == IF r \in Resets THEN <<>> ELSE log[s]
      <4>1. l \in Seq(Requests)
        BY <3>1 DEF StoreTypes
      <4>2. log' = [log EXCEPT ![s] = l] /\ work' = work
        BY <3>3
      <4> HIDE DEF l
      <4>3. QED
        BY <4>1, <4>2 DEF StoreTypes
    <3>4. QED
      BY <1>1, <3>2, <3>3
  <2>4. \A x \in Requests : at'[x] \in Busy => of'[x] \in Requests
    BY <1>2, <1>3, <1>4 DEF StoreTypes, Busy
  <2>5. \A x \in Requests \ {r} : at[x] \in Busy => at'[x] \in Busy
    BY <1>3 DEF Busy
  <2>6. asked' \subseteq {x \in Requests : at'[x] \in Busy}
    BY <2>5 DEF StoreTypes
  <2>7. QED
    BY <1>3, <1>4, <2>1, <2>2, <2>3, <2>4, <2>6 DEF StoreTypes, QueuesKept
<1> HIDE DEF woken
<1>6. QueuesBelong'
  <2>1. ASSUME NEW t \in Requests, NEW q \in ToSet(waiters'[t])
        PROVE  of'[q] = t /\ at'[q] # "new"
    <3>1. q \in ToSet(waiters[t]) /\ of[q] = t /\ at[q] # "new" /\ q \in Requests
      <4>1. q \in ToSet(waiters[t])
        BY <2>1 DEF QueuesKept
      <4>2. waiters[t] \in Seq(Requests)
        BY DEF StoreTypes
      <4>3. ToSet(waiters[t]) \subseteq Requests
        BY <4>2, LenProperties, ElementOfSeq DEF ToSet
      <4>4. QED
        BY <4>1, <4>3 DEF QueuesBelong
    <3>2. QED
      BY <1>3, <1>4, <3>1
  <2>2. ASSUME NEW x \in Requests, at'[x] = "woken"
        PROVE  waiters'[of'[x]] # <<>> /\ Head(waiters'[of'[x]]) = x
    BY <1>2, <1>3, <1>4, <2>2 DEF QueuesKept
  <2>3. QED
    BY <2>1, <2>2 DEF QueuesBelong
<1>7. \A x \in Requests : at[x] = "turn" => of[x] # s
  BY DEF Locked
<1>8. LockExclusive'
  <2>1. \A x \in Requests : at'[x] = "turn" =>
          x = r \/ (x # r /\ at[x] = "turn" /\ of'[x] = of[x] /\ of[x] # s)
    BY <1>3, <1>4, <1>7
  <2>2. ASSUME NEW x \in Requests, at'[x] = "woken", Locked(of[x])'
        PROVE  FALSE
    <3>1. PICK y \in Requests : at'[y] = "turn" /\ of'[y] = of'[x]
      BY <2>2 DEF Locked
    <3>2. x # r /\ of'[x] = of[x]
      BY <1>3, <1>4, <2>2
    <3>3. CASE at[x] = "woken"
      <4>1. of[x] # s /\ ~Locked(of[x])
        BY <2>2, <3>2, <3>3 DEF LockExclusive
      <4>2. QED
        BY <1>4, <2>1, <3>1, <3>2, <4>1 DEF Locked
    <3>4. CASE at[x] # "woken"
      <4>1. x \in woken /\ Serves
        BY <1>3, <2>2, <3>2, <3>4
      <4>2. of[x] = s /\ r \notin Chats
        BY <1>2, <4>1
      <4>3. y # r
        BY <1>3, <3>1, <4>2
      <4>4. QED
        BY <2>1, <3>1, <3>2, <4>2, <4>3
    <3>5. QED
      BY <3>3, <3>4
  <2>3. \A x \in Requests : at'[x] = "turn" => x \in Chats
    BY <1>3, <2>1 DEF LockExclusive
  <2>4. \A x, y \in Requests : at'[x] = "turn" /\ at'[y] = "turn" /\ of'[x] = of'[y] => x = y
    BY <1>4, <2>1 DEF LockExclusive
  <2>5. QED
    BY <2>2, <2>3, <2>4 DEF LockExclusive
<1>9. CopiesFresh'
  <2>1. ASSUME NEW x \in Requests \ {r}, at'[x] = "turn"  PROVE work'[x] = log'[of'[x]]
    <3>1. at[x] = "turn" /\ of'[x] = of[x] /\ of[x] # s
      BY <1>3, <1>4, <1>7, <2>1
    <3>2. log'[of[x]] = log[of[x]] /\ work'[x] = work[x]
      <4>1. of[x] \in Requests
        BY <3>1 DEF StoreTypes, Busy
      <4>2. CASE Turns
        BY <2>1, <4>2 DEF StoreTypes
      <4>3. CASE Serves
        BY <3>1, <4>1, <4>3 DEF StoreTypes
      <4>4. QED
        BY <1>1, <4>2, <4>3
    <3>3. QED
      BY <3>1, <3>2 DEF CopiesFresh
  <2>2. ASSUME at'[r] = "turn"  PROVE work'[r] = log'[of'[r]]
    BY <1>1, <1>3, <1>4, <2>2 DEF StoreTypes
  <2>3. QED
    BY <2>1, <2>2 DEF CopiesFresh
<1>10. \A x \in Requests : at[x] = "done" => x # r /\ at'[x] = "done"
  BY <1>2, <1>3
<1>11. \A t \in Requests : \A i \in DOMAIN story[t] :
         /\ at'[story[t][i]] = "done" /\ outcome'[story[t][i]] = "ok"
         /\ of'[story[t][i]] = t
  <2> SUFFICES ASSUME NEW t \in Requests, NEW i \in DOMAIN story[t], NEW x, x = story[t][i]
               PROVE  at'[x] = "done" /\ outcome'[x] = "ok" /\ of'[x] = t
    OBVIOUS
  <2>1. x \in Requests
    BY LenProperties, ElementOfSeq DEF StoreTypes
  <2>2. at[x] = "done" /\ outcome[x] = "ok" /\ of[x] = t
    BY DEF StoriesTold, Transactional
  <2>3. outcome'[x] = outcome[x]
    BY <1>1, <1>10, <2>1, <2>2 DEF Answer, StoreTypes
  <2>4. QED
    BY <1>4, <1>10, <2>1, <2>2, <2>3
<1>12. StoriesTold' /\ Transactional'
  <2>1. CASE Serves /\ r \in Resets
    <3>1. /\ story[s] \in Seq(Requests)
          /\ story'[s] = Append(story[s], r) /\ log'[s] = <<>>
          /\ outcome'[r] = "ok" /\ of'[r] = s /\ at'[r] = "done"
          /\ \A t \in Requests \ {s} : story'[t] = story[t] /\ log'[t] = log[t]
      BY <1>3, <1>4, <2>1 DEF StoreTypes, Answer
    <3>2. /\ DOMAIN story[s] = 1..Len(story[s]) /\ Len(story[s]) \in Nat
          /\ DOMAIN story'[s] = 1..Len(story[s])+1
          /\ story'[s][Len(story[s])+1] = r
          /\ \A i \in 1..Len(story[s]) : story'[s][i] = story[s][i]
      BY <3>1, AppendProperties, LenProperties
    <3>3. \A i \in DOMAIN story'[s] : i \in DOMAIN story[s] \/ story'[s][i] = r
      BY <3>2
    <3>4. \A i \in DOMAIN story'[s] :
            /\ at'[story'[s][i]] = "done" /\ outcome'[story'[s][i]] = "ok"
            /\ of'[story'[s][i]] = s
      BY <1>11, <3>1, <3>2, <3>3
    <3>5. SinceReset(log'[s], story'[s])
      BY <2>1, <3>1, TellReset
    <3>6. \A t \in Requests : \A i \in DOMAIN story'[t] :
            /\ at'[story'[t][i]] = "done" /\ outcome'[story'[t][i]] = "ok"
            /\ of'[story'[t][i]] = t
      <4> SUFFICES ASSUME NEW t \in Requests, NEW i \in DOMAIN story'[t]
                   PROVE  /\ at'[story'[t][i]] = "done" /\ outcome'[story'[t][i]] = "ok"
                          /\ of'[story'[t][i]] = t
        OBVIOUS
      <4>1. CASE t = s
        BY <3>4, <4>1
      <4>2. CASE t # s
        <5>1. story'[t] = story[t]
          BY <3>1, <4>2
        <5>2. QED
          BY <1>11, <5>1
      <4>3. QED
        BY <4>1, <4>2
    <3>7. \A t \in Requests : SinceReset(log'[t], story'[t])
      BY <3>1, <3>5 DEF Transactional
    <3>8. QED
      BY <3>6, <3>7 DEF StoriesTold, Transactional
  <2>2. CASE ~(Serves /\ r \in Resets)
    <3>1. story' = story /\ log' = log
      BY <1>1, <2>2 DEF StoreTypes
    <3>2. QED
      BY <1>11, <3>1 DEF StoriesTold, Transactional
  <2>3. QED
    BY <2>1, <2>2
<1>13. QED
  BY <1>5, <1>6, <1>8, <1>9, <1>12

(* Request r leaves: its work is told, or leaves no trace.  The lock goes  *)
(* to the head of q, which is nobody's unless r was the last that had it.  *)
LEMMA LeaveKeeps ==
  ASSUME TurnInv, NEW r \in Requests, at[r] \in Busy,
         UNCHANGED <<of, work>>, asked' = asked \ {r}, QueuesKept(r),
         NEW q, Leave(r, "done", q),
         \/ q = <<>>
         \/ /\ q = waiters'[of[r]]
            /\ \A y \in Requests \ {r} : at[y] = "turn" => of[y] # of[r],
         \/ UNCHANGED <<log, story>> /\ Answer(r, "failed")
         \/ /\ at[r] = "turn" /\ Answer(r, "ok")
            /\ log' = [log EXCEPT ![of[r]] = Append(work[r], r)]
            /\ story' = [story EXCEPT ![of[r]] = Append(@, r)]
  PROVE  TurnInv'
<1> USE DEF TurnInv
<1> DEFINE s == of[r]
           Tells == /\ at[r] = "turn" /\ Answer(r, "ok")
                    /\ log' = [log EXCEPT ![s] = Append(work[r], r)]
                    /\ story' = [story EXCEPT ![s] = Append(@, r)]
           woken == Next1(q)
<1>1. s \in Requests
  BY DEF StoreTypes
<1>2. /\ \A x \in woken : x \in Requests /\ of[x] = s /\ at[x] = "waiting"
      /\ \A x \in woken : waiters'[s] # <<>> /\ Head(waiters'[s]) = x
      /\ woken # {} => \A y \in Requests \ {r} : at[y] = "turn" => of[y] # s
  <2>1. CASE q = <<>>
    BY <2>1 DEF Next1
  <2>2. CASE q = waiters'[s] /\ \A y \in Requests \ {r} : at[y] = "turn" => of[y] # s
    <3>1. ASSUME waiters'[s] # <<>>
          PROVE  Head(waiters'[s]) \in Requests /\ of[Head(waiters'[s])] = s
      BY <1>1, <3>1, HeadIsIn DEF QueuesKept, QueuesBelong
    <3>2. QED
      BY <2>2, <3>1 DEF Next1
  <2>3. QED
    BY <2>1, <2>2
<1>3. /\ at' \in [Requests -> Places] /\ at'[r] = "done"
      /\ \A x \in Requests \ {r} :
           (at'[x] = at[x] /\ x \notin woken) \/ (at'[x] = "woken" /\ x \in woken)
  BY DEF Leave, StoreTypes, Places, Busy
<1> HIDE DEF woken
<1>4. /\ outcome' \in [Requests -> {"none", "ok", "failed", "full"}]
      /\ \A x \in Requests \ {r} : outcome'[x] = outcome[x]
  BY DEF StoreTypes, Answer
<1>5. log' \in [Requests -> Seq(Requests)] /\ story' \in [Requests -> Seq(Requests)]
  <2>1. Append(story[s], r) \in Seq(Requests) /\ Append(work[r], r) \in Seq(Requests)
    BY <1>1, AppendProperties DEF StoreTypes
  <2>2. CASE Tells
    BY <1>1, <2>1, <2>2 DEF StoreTypes
  <2>3. CASE UNCHANGED <<log, story>>
    BY <2>3 DEF StoreTypes
  <2>4. QED
    BY <2>2, <2>3
<1>6. StoreTypes'
  <2>1. \A x \in Requests : at'[x] \in Busy => of[x] \in Requests
    BY <1>1, <1>2, <1>3 DEF StoreTypes, Busy
  <2>2. asked' \subseteq {x \in Requests : at'[x] \in Busy}
    BY <1>3 DEF StoreTypes, Busy
  <2>3. QED
    BY <1>3, <1>4, <1>5, <2>1, <2>2 DEF StoreTypes, QueuesKept
<1>7. QueuesBelong'
  <2>1. ASSUME NEW t \in Requests, NEW x \in ToSet(waiters'[t])
        PROVE  of'[x] = t /\ at'[x] # "new"
    <3>1. x \in ToSet(waiters[t])
      BY <2>1 DEF QueuesKept
    <3>2. ToSet(waiters[t]) \subseteq Requests
      BY LenProperties, ElementOfSeq DEF ToSet, StoreTypes
    <3>3. QED
      BY <1>3, <3>1, <3>2 DEF QueuesBelong
  <2>2. ASSUME NEW x \in Requests, at'[x] = "woken"
        PROVE  waiters'[of'[x]] # <<>> /\ Head(waiters'[of'[x]]) = x
    BY <1>2, <1>3, <2>2 DEF QueuesKept
  <2>3. QED
    BY <2>1, <2>2 DEF QueuesBelong
<1>8. \A x \in Requests : at'[x] = "turn" => x # r /\ at[x] = "turn"
  BY <1>3
<1>9. LockExclusive'
  <2>1. ASSUME NEW x \in Requests, at'[x] = "woken", Locked(of[x])'
        PROVE  FALSE
    <3>1. PICK y \in Requests : at'[y] = "turn" /\ of[y] = of[x]
      BY <2>1 DEF Locked
    <3>2. x # r /\ y # r /\ at[y] = "turn"
      BY <1>3, <1>8, <2>1, <3>1
    <3>3. CASE at[x] = "woken"
      BY <3>1, <3>2, <3>3 DEF LockExclusive, Locked
    <3>4. CASE at[x] # "woken"
      BY <1>2, <1>3, <2>1, <3>1, <3>2, <3>4
    <3>5. QED
      BY <3>3, <3>4
  <2>2. QED
    BY <1>8, <2>1 DEF LockExclusive
<1>10. CopiesFresh'
  <2>1. ASSUME NEW x \in Requests, at'[x] = "turn"  PROVE work'[x] = log'[of'[x]]
    <3>1. x # r /\ at[x] = "turn" /\ work'[x] = log[of[x]] /\ of'[x] = of[x]
      BY <1>8, <2>1 DEF CopiesFresh
    <3>2. of[x] \in Requests
      BY <3>1 DEF StoreTypes, Busy
    <3>3. CASE Tells
      <4>1. of[x] # s
        BY <3>1, <3>3 DEF LockExclusive
      <4>2. QED
        BY <3>1, <3>2, <3>3, <4>1 DEF StoreTypes
    <3>4. CASE ~Tells
      BY <3>1, <3>4
    <3>5. QED
      BY <3>3, <3>4
  <2>2. QED
    BY <2>1 DEF CopiesFresh
<1>11. \A x \in Requests : at[x] = "done" => x # r /\ at'[x] = "done"
  BY <1>2, <1>3 DEF Busy
<1>12. \A t \in Requests : \A i \in DOMAIN story[t] :
         /\ at'[story[t][i]] = "done" /\ outcome'[story[t][i]] = "ok"
         /\ of'[story[t][i]] = t
  <2> SUFFICES ASSUME NEW t \in Requests, NEW i \in DOMAIN story[t], NEW x, x = story[t][i]
               PROVE  at'[x] = "done" /\ outcome'[x] = "ok" /\ of'[x] = t
    OBVIOUS
  <2>1. x \in Requests
    BY LenProperties, ElementOfSeq DEF StoreTypes
  <2>2. at[x] = "done" /\ outcome[x] = "ok" /\ of[x] = t
    BY DEF StoriesTold, Transactional
  <2>3. QED
    BY <1>4, <1>11, <2>1, <2>2
<1>13. StoriesTold' /\ Transactional'
  <2>1. CASE Tells
    <3>1. /\ story[s] \in Seq(Requests) /\ work[r] = log[s] /\ r \in Chats
          /\ story'[s] = Append(story[s], r) /\ log'[s] = Append(log[s], r)
          /\ outcome'[r] = "ok" /\ of'[r] = s /\ at'[r] = "done"
          /\ \A t \in Requests \ {s} : story'[t] = story[t] /\ log'[t] = log[t]
      BY <1>1, <1>3, <2>1 DEF StoreTypes, Answer, CopiesFresh, LockExclusive
    <3>2. /\ DOMAIN story[s] = 1..Len(story[s]) /\ Len(story[s]) \in Nat
          /\ DOMAIN story'[s] = 1..Len(story[s])+1
          /\ story'[s][Len(story[s])+1] = r
          /\ \A i \in 1..Len(story[s]) : story'[s][i] = story[s][i]
      BY <3>1, AppendProperties, LenProperties
    <3>3. \A i \in DOMAIN story'[s] : i \in DOMAIN story[s] \/ story'[s][i] = r
      BY <3>2
    <3>4. \A i \in DOMAIN story'[s] :
            /\ at'[story'[s][i]] = "done" /\ outcome'[story'[s][i]] = "ok"
            /\ of'[story'[s][i]] = s
      BY <1>1, <1>12, <3>1, <3>2, <3>3
    <3>5. SinceReset(log'[s], story'[s])
      <4>1. SinceReset(log[s], story[s]) /\ r \notin Resets
        BY <1>1, <3>1, KindsAssumption DEF Transactional
      <4>2. QED
        BY <3>1, <4>1, TellChat
    <3>6. \A t \in Requests : \A i \in DOMAIN story'[t] :
            /\ at'[story'[t][i]] = "done" /\ outcome'[story'[t][i]] = "ok"
            /\ of'[story'[t][i]] = t
      <4> SUFFICES ASSUME NEW t \in Requests, NEW i \in DOMAIN story'[t]
                   PROVE  /\ at'[story'[t][i]] = "done" /\ outcome'[story'[t][i]] = "ok"
                          /\ of'[story'[t][i]] = t
        OBVIOUS
      <4>1. CASE t = s
        BY <3>4, <4>1
      <4>2. CASE t # s
        <5>1. story'[t] = story[t]
          BY <3>1, <4>2
        <5>2. QED
          BY <1>12, <5>1
      <4>3. QED
        BY <4>1, <4>2
    <3>7. \A t \in Requests : SinceReset(log'[t], story'[t])
      BY <3>1, <3>5 DEF Transactional
    <3>8. QED
      BY <3>6, <3>7 DEF StoriesTold, Transactional
  <2>2. CASE ~Tells
    <3>1. story' = story /\ log' = log
      BY <2>2
    <3>2. QED
      BY <1>12, <3>1 DEF StoriesTold, Transactional
  <2>3. QED
    BY <2>1, <2>2
<1>14. QED
  BY <1>6, <1>7, <1>9, <1>10, <1>13

(* Request r queues for the lock of session s. *)
LEMMA WaitKeeps ==
  ASSUME TurnInv, NEW r \in Requests, NEW s \in Requests, at[r] = "new",
         of' = [of EXCEPT ![r] = s], at' = [at EXCEPT ![r] = "waiting"],
         waiters' = [waiters EXCEPT ![s] = Append(@, r)],
         UNCHANGED <<asked, turnVars>>
  PROVE  TurnInv'
<1> USE DEF TurnInv, turnVars
<1>1. /\ at' \in [Requests -> Places] /\ at'[r] = "waiting" /\ of'[r] = s
      /\ of' \in [Requests -> Requests \cup {NoCookie}]
      /\ \A x \in Requests \ {r} : at'[x] = at[x] /\ of'[x] = of[x]
  BY DEF StoreTypes, Places, Busy
<1>2. /\ waiters[s] \in Seq(Requests)
      /\ waiters' \in [Requests -> Seq(Requests)]
      /\ waiters'[s] = Append(waiters[s], r)
      /\ \A t \in Requests \ {s} : waiters'[t] = waiters[t]
  <2>1. Append(waiters[s], r) \in Seq(Requests)
    BY AppendProperties DEF StoreTypes
  <2>2. QED
    BY <2>1 DEF StoreTypes
<1>3. StoreTypes'
  BY <1>1, <1>2 DEF StoreTypes, Busy
<1>4. QueuesBelong'
  <2>1. \A t \in Requests : ToSet(waiters[t]) \subseteq Requests \ {r}
    <3> SUFFICES ASSUME NEW t \in Requests, NEW x \in ToSet(waiters[t])
                 PROVE  x \in Requests \ {r}
      OBVIOUS
    <3>1. x \in Requests
      BY LenProperties, ElementOfSeq DEF ToSet, StoreTypes
    <3>2. QED
      BY <3>1 DEF QueuesBelong
  <2>2. ToSet(waiters'[s]) = ToSet(waiters[s]) \cup {r}
    BY <1>2, AppendSet
  <2>3. ASSUME NEW t \in Requests, NEW x \in ToSet(waiters'[t])
        PROVE  of'[x] = t /\ at'[x] # "new"
    <3>1. CASE t = s
      BY <1>1, <2>1, <2>2, <2>3, <3>1 DEF QueuesBelong
    <3>2. CASE t # s
      BY <1>1, <1>2, <2>1, <2>3, <3>2 DEF QueuesBelong
    <3>3. QED
      BY <3>1, <3>2
  <2>4. waiters[s] # <<>> => waiters'[s] # <<>> /\ Head(waiters'[s]) = Head(waiters[s])
    BY <1>2, AppendProperties, HeadTailAppend
  <2>5. ASSUME NEW x \in Requests, at'[x] = "woken"
        PROVE  waiters'[of'[x]] # <<>> /\ Head(waiters'[of'[x]]) = x
    <3>1. at[x] = "woken" /\ of'[x] = of[x]
      BY <1>1, <2>5
    <3>2. of[x] \in Requests /\ waiters[of[x]] # <<>> /\ Head(waiters[of[x]]) = x
      BY <3>1 DEF QueuesBelong, StoreTypes, Busy
    <3>3. QED
      BY <1>2, <2>4, <3>1, <3>2
  <2>6. QED
    BY <2>3, <2>5 DEF QueuesBelong
<1>5. \A t \in Requests : Locked(t)' => Locked(t)
  BY <1>1 DEF Locked
<1>6. LockExclusive'
  <2>1. \A x \in Requests :
          at'[x] \in {"turn", "woken"} => x # r /\ at[x] = at'[x] /\ of'[x] = of[x]
    BY <1>1
  <2>2. \A x \in Requests : at[x] = "woken" => of[x] \in Requests
    BY DEF StoreTypes, Busy
  <2>3. QED
    BY <1>5, <2>1, <2>2 DEF LockExclusive, Locked
<1>7. CopiesFresh'
  BY <1>1 DEF CopiesFresh
<1>8. StoriesTold' /\ Transactional'
  <2>1. ASSUME NEW t \in Requests, NEW i \in DOMAIN story[t]
        PROVE  at'[story[t][i]] = "done" /\ outcome'[story[t][i]] = "ok" /\ of'[story[t][i]] = t
    <3>1. story[t][i] \in Requests
      BY LenProperties, ElementOfSeq DEF StoreTypes
    <3>2. at[story[t][i]] = "done" /\ outcome[story[t][i]] = "ok" /\ of[story[t][i]] = t
      BY DEF StoriesTold, Transactional
    <3>3. QED
      BY <1>1, <3>1, <3>2
  <2>2. QED
    BY <2>1 DEF StoriesTold, Transactional
<1>9. QED
  BY <1>3, <1>4, <1>6, <1>7, <1>8

-----------------------------------------------------------------------------
(* Every step keeps the invariant. *)

(* The lock of a session is given to a newcomer only if nobody who waits   *)
(* for it has been woken.                                                  *)
LEMMA FreeIsNobodys ==
  ASSUME TurnInv, NEW s \in Requests, Free(s), NEW x \in Requests, of[x] = s
  PROVE  at[x] # "woken"
<1> SUFFICES ASSUME at[x] = "woken"  PROVE FALSE
  OBVIOUS
<1>1. waiters[s] \in Seq(Requests) /\ waiters[s] # <<>> /\ Head(waiters[s]) = x
  BY DEF TurnInv, StoreTypes, QueuesBelong
<1>2. x \in ToSet(waiters[s])
  BY <1>1, HeadIsIn
<1>3. QED
  BY <1>2 DEF Free, ToSet

(* session(): whatever r is given and whether or not it has to wait. *)
LEMMA UseKeeps ==
  ASSUME TurnInv, NEW r \in Requests, NEW s \in Requests, at[r] = "new", Use(r, s)
  PROVE  TurnInv'
<1>1. CASE Free(s) /\ Obtain(r, s, waiters[s]) /\ UNCHANGED waiters
  <2>1. QueuesKept(r) /\ waiters'[s] = waiters[s]
    BY <1>1 DEF TurnInv, StoreTypes, QueuesBelong, QueuesKept
  <2>2. \A x \in Requests \ {r} : of[x] = s => at[x] # "woken"
    BY <1>1, FreeIsNobodys
  <2>3. ~Locked(s) /\ of' = [of EXCEPT ![r] = s] /\ asked' = asked
    BY <1>1 DEF Free, Use
  <2>4. Obtain(r, s, waiters'[s])
    BY <1>1, <2>1
  <2>5. QED
    BY <2>1, <2>2, <2>3, <2>4, ObtainKeeps DEF TurnInv, StoreTypes, Busy
<1>2. CASE /\ at' = [at EXCEPT ![r] = "waiting"]
           /\ waiters' = [waiters EXCEPT ![s] = Append(@, r)]
           /\ UNCHANGED <<turnVars, handed>>
  BY <1>2, WaitKeeps DEF Use
<1>3. QED
  BY <1>1, <1>2 DEF Use

(* A woken waiter runs. *)
LEMMA ProceedKeeps ==
  ASSUME TurnInv, NEW r \in Requests, Proceed(r)
  PROVE  TurnInv'
<1> DEFINE s == of[r]
<1>1. /\ at[r] = "woken" /\ r \notin asked /\ s \in Requests
      /\ waiters' = [waiters EXCEPT ![s] = RemoveFirst(waiters[s], r)]
      /\ Obtain(r, s, RemoveFirst(waiters[s], r))
      /\ UNCHANGED <<of, asked>>
  BY DEF Proceed, TurnInv, StoreTypes, Busy
<1>2. QueuesKept(r)
  BY <1>1, LeavingQueue
<1>3. ~Locked(s)
  BY <1>1 DEF TurnInv, LockExclusive
<1>4. \A x \in Requests \ {r} : of[x] = s => at[x] # "woken"
  BY <1>1 DEF TurnInv, QueuesBelong
<1>5. Obtain(r, s, waiters'[s])
  <2>1. waiters'[s] = RemoveFirst(waiters[s], r)
    BY <1>1 DEF TurnInv, StoreTypes
  <2>2. QED
    BY <1>1, <2>1
<1>6. of' = [of EXCEPT ![r] = s] /\ asked' = asked
  BY <1>1 DEF TurnInv, StoreTypes
<1>7. QED
  BY <1>1, <1>2, <1>3, <1>4, <1>5, <1>6, ObtainKeeps

(* A turn ends, well or not. *)
LEMMA TurnEnds ==
  ASSUME TurnInv, NEW r \in Requests, Commit(r) \/ Fail(r)
  PROVE  TurnInv'
<1>1. /\ at[r] = "turn" /\ of[r] \in Requests
      /\ Leave(r, "done", waiters[of[r]])
      /\ UNCHANGED <<of, asked, work, waiters>>
  BY DEF Commit, Fail, TurnInv, StoreTypes, Busy, storeVars
<1>2. QueuesKept(r) /\ asked' = asked \ {r}
  BY <1>1 DEF TurnInv, StoreTypes, QueuesBelong, QueuesKept, Commit, Fail
<1>3. \A y \in Requests \ {r} : at[y] = "turn" => of[y] # of[r]
  BY <1>1 DEF TurnInv, LockExclusive
<1>4. \/ UNCHANGED <<log, story>> /\ Answer(r, "failed")
      \/ /\ Answer(r, "ok")
         /\ log' = [log EXCEPT ![of[r]] = Append(work[r], r)]
         /\ story' = [story EXCEPT ![of[r]] = Append(@, r)]
  BY DEF Commit, Fail, Discarded
<1>5. QED
  BY <1>1, <1>2, <1>3, <1>4, LeaveKeeps DEF Busy

(* A deadline arrives: the lock goes on only if it was r's to give. *)
LEMMA CancelledKeeps ==
  ASSUME TurnInv, NEW r \in Requests, at[r] \in Busy, Cancelled(r)
  PROVE  TurnInv'
<1> DEFINE rest == RemoveFirst(waiters[of[r]], r)
<1>1. /\ of[r] \in Requests
      /\ waiters' = [waiters EXCEPT ![of[r]] = rest] /\ Leave(r, "done", Heirs(r, rest))
      /\ asked' = asked \ {r} /\ Answer(r, "failed")
      /\ UNCHANGED <<of, work, log, story>>
  BY DEF Cancelled, Discarded, TurnInv, StoreTypes, storeVars
<1>2. QueuesKept(r)
  BY <1>1, LeavingQueue
<1>3. waiters'[of[r]] = rest
  BY <1>1 DEF TurnInv, StoreTypes
<1>4. \/ Heirs(r, rest) = <<>>
      \/ /\ Heirs(r, rest) = waiters'[of[r]]
         /\ \A y \in Requests \ {r} : at[y] = "turn" => of[y] # of[r]
  <2>1. CASE at[r] # "turn" /\ Locked(of[r])
    BY <2>1 DEF Heirs
  <2>2. CASE ~(at[r] # "turn" /\ Locked(of[r]))
    BY <1>3, <2>2 DEF Heirs, Locked, TurnInv, LockExclusive
  <2>3. QED
    BY <2>1, <2>2
<1>5. QED
  BY <1>1, <1>2, <1>4, LeaveKeeps

(* Nobody moves: the table is full, a deadline is set off, or time passes. *)
LEMMA OthersKeep ==
  ASSUME TurnInv, NEW r \in Requests, Full(r) \/ Expire(r) \/ Age(r)
  PROVE  TurnInv'
<1> USE DEF TurnInv
<1>1. /\ UNCHANGED <<log, of, work, waiters, story>>
      /\ asked \subseteq asked' /\ asked' \subseteq Requests
      /\ \/ /\ at[r] = "new" /\ at' = [at EXCEPT ![r] = "done"] /\ Answer(r, "full")
            /\ asked' = asked
         \/ UNCHANGED <<at, outcome>> /\ asked' \subseteq {x \in Requests : at[x] \in Busy}
  BY DEF Full, Expire, Age, storeVars, turnVars, StoreTypes, Busy, Requests
<1>2. /\ at' \in [Requests -> Places]
      /\ \A x \in Requests : at'[x] = at[x] \/ (at[x] = "new" /\ at'[x] = "done")
  BY <1>1 DEF StoreTypes, Places
<1>3. /\ outcome' \in [Requests -> {"none", "ok", "failed", "full"}]
      /\ \A x \in Requests : outcome'[x] = outcome[x] \/ at[x] = "new"
  BY <1>1 DEF StoreTypes, Answer
<1>4. StoreTypes'
  <2>1. \A x \in Requests : at'[x] \in Busy <=> at[x] \in Busy
    BY <1>2 DEF Busy
  <2>2. asked' \subseteq {x \in Requests : at'[x] \in Busy}
    BY <1>1, <2>1 DEF StoreTypes
  <2>3. QED
    BY <1>1, <1>2, <1>3, <2>1, <2>2 DEF StoreTypes
<1>5. \A s \in Requests : ToSet(waiters[s]) \subseteq Requests
  BY LenProperties, ElementOfSeq DEF ToSet, StoreTypes
<1>6. QueuesBelong'
  <2>1. \A s \in Requests : \A x \in ToSet(waiters'[s]) : of'[x] = s /\ at'[x] # "new"
    BY <1>1, <1>2, <1>5 DEF QueuesBelong
  <2>2. \A x \in Requests : at'[x] = "woken" =>
          waiters'[of'[x]] # <<>> /\ Head(waiters'[of'[x]]) = x
    BY <1>1, <1>2 DEF QueuesBelong
  <2>3. QED
    BY <2>1, <2>2 DEF QueuesBelong
<1>7. LockExclusive'
  BY <1>1, <1>2 DEF LockExclusive, Locked
<1>8. CopiesFresh'
  BY <1>1, <1>2 DEF CopiesFresh
<1>9. StoriesTold' /\ Transactional'
  <2>1. ASSUME NEW t \in Requests, NEW i \in DOMAIN story[t]
        PROVE  at'[story[t][i]] = "done" /\ outcome'[story[t][i]] = "ok" /\ of'[story[t][i]] = t
    <3>1. story[t][i] \in Requests
      BY LenProperties, ElementOfSeq DEF StoreTypes
    <3>2. at[story[t][i]] = "done" /\ outcome[story[t][i]] = "ok" /\ of[story[t][i]] = t
      BY DEF StoriesTold, Transactional
    <3>3. QED
      BY <1>1, <1>2, <1>3, <3>1, <3>2
  <2>2. QED
    BY <1>1, <2>1 DEF StoriesTold, Transactional
<1>10. QED
  BY <1>4, <1>6, <1>7, <1>8, <1>9

(* Only a waiting one can be woken by who leaves or takes the lock. *)
OnlyWakes(r) ==
  \A x \in Requests \ {r} : at'[x] = at[x] \/ (at[x] = "waiting" /\ at'[x] = "woken")

(* Whoever releases a lock touches no other request but waiters, which     *)
(* wake.                                                                   *)
LEMMA LeaveWakes ==
  ASSUME NEW r \in Requests, NEW place, NEW q, Leave(r, place, q)
  PROVE  at'[r] = place /\ OnlyWakes(r)
<1>1. \A x \in Next1(q) : at[x] = "waiting"
  BY DEF Next1
<1>2. QED
  BY <1>1 DEF Leave, OnlyWakes

(* The same of whoever obtains it, to keep it or to go at once.            *)
LEMMA ObtainWakes ==
  ASSUME StoreTypes, NEW r \in Requests, NEW s, NEW q, Obtain(r, s, q)
  PROVE  at'[r] \in {"turn", "done"} /\ OnlyWakes(r)
<1>1. CASE at' = [at EXCEPT ![r] = "turn"]
  BY <1>1 DEF StoreTypes, OnlyWakes
<1>2. CASE Leave(r, "done", q)
  BY <1>2, LeaveWakes
<1>3. QED
  BY <1>1, <1>2 DEF Obtain

(* A session is dropped only if nobody who was given it is still there,    *)
(* and made only if there is room for one more.                            *)
LEMMA TableStep ==
  ASSUME StoreInv, NEW r \in Requests,
         Enter(r) \/ Proceed(r) \/ Commit(r) \/ Fail(r) \/ Expire(r) \/ Cancelled(r) \/ Age(r)
  PROVE  TableServes'
<1> USE DEF StoreInv, TurnInv
<1>1. IsFiniteSet(table)
  BY FinitelyManyAssumption, FS_Subset DEF TableServes
<1>2. /\ Kept \subseteq table /\ IsFiniteSet(Kept) /\ Cardinality(Kept) \in Nat
      /\ Cardinality(Kept) <= MaxSessions
      /\ \A x \in Requests : at[x] \in Busy => of[x] \in Kept
  <2>1. Kept \subseteq table
    BY DEF Kept
  <2>2. IsFiniteSet(Kept) /\ Cardinality(Kept) <= Cardinality(table)
    BY <1>1, <2>1, FS_Subset
  <2>3. Cardinality(Kept) \in Nat /\ Cardinality(table) \in Nat
    BY <1>1, <2>2, FS_CardinalityType
  <2>4. \A x \in Requests : at[x] \in Busy => of[x] \in Kept
    BY DEF TableServes, Kept, Busy, Locked
  <2>5. QED
    BY <2>1, <2>2, <2>3, <2>4, RoomAssumption DEF TableServes
<1>3. ASSUME NEW s \in Requests, Use(r, s), at[r] = "new"
      PROVE  /\ of'[r] = s /\ at'[r] # "new" /\ old' \subseteq old \ {s}
             /\ OnlyWakes(r) /\ \A x \in Requests \ {r} : of'[x] = of[x]
  <2>1. at'[r] # "new" /\ OnlyWakes(r)
    <3>1. CASE Obtain(r, s, waiters[s])
      BY <3>1, ObtainWakes
    <3>2. CASE at' = [at EXCEPT ![r] = "waiting"]
      BY <3>2 DEF StoreTypes, OnlyWakes
    <3>3. QED
      BY <1>3, <3>1, <3>2 DEF Use
  <2>2. QED
    BY <1>3, <2>1 DEF Use, Accessed, StoreTypes
<1>4. CASE Return(r)
  <2>1. PICK s \in handed \cap Kept : Use(r, s)
    BY <1>4 DEF Return
  <2>2. s \in Requests /\ at[r] = "new" /\ table' = Kept
    BY <1>2, <1>4 DEF Return, TableServes
  <2>3. QED
    BY <1>2, <1>3, <2>1, <2>2 DEF TableServes, OnlyWakes, Busy
<1>5. CASE Newcomer(r)
  <2>1. at[r] = "new" /\ Use(r, r) /\ table' = Kept \cup {r} /\ HasRoom
    BY <1>5 DEF Newcomer
  <2>2. Cardinality(table') <= MaxSessions
    <3>1. Cardinality(Kept) + 1 <= MaxSessions
      BY <1>2, <2>1, RoomAssumption DEF HasRoom
    <3>2. Cardinality(Kept \cup {r}) = Cardinality(Kept) \/
          Cardinality(Kept \cup {r}) = Cardinality(Kept) + 1
      BY <1>2, FS_AddElement
    <3>3. QED
      BY <1>2, <2>1, <3>1, <3>2, RoomAssumption
  <2>3. QED
    BY <1>2, <1>3, <2>1, <2>2 DEF TableServes, OnlyWakes, Busy
<1>6. CASE Full(r)
  <2>1. /\ at[r] = "new" /\ table' = Kept /\ old' \subseteq old
        /\ at' = [at EXCEPT ![r] = "done"] /\ of' = of
    BY <1>6 DEF Full
  <2>2. \A x \in Requests : at'[x] \in Busy => at'[x] = at[x]
    BY <2>1 DEF Busy, StoreTypes
  <2>3. QED
    BY <1>2, <2>1, <2>2 DEF TableServes, Busy
<1>7. CASE Proceed(r) \/ Commit(r) \/ Fail(r) \/ Cancelled(r)
  <2>1. /\ table' = table /\ of' = of /\ old' \subseteq old /\ at[r] \in Busy
    BY <1>7 DEF Proceed, Commit, Fail, Cancelled, storeVars, StoreTypes, Busy
  <2>2. at'[r] \in {"turn", "done"} /\ OnlyWakes(r)
    BY <1>7, LeaveWakes, ObtainWakes DEF Proceed, Commit, Fail, Cancelled
  <2>3. QED
    BY <2>1, <2>2 DEF TableServes, OnlyWakes, Busy
<1>8. CASE Expire(r)
  BY <1>8 DEF Expire, TableServes, storeVars, turnVars
<1>9. CASE Age(r)
  <2>1. /\ table' = table /\ of' = of /\ at' = at /\ old' = old \cup {r}
        /\ \A x \in Inside(r) : at[x] = "turn"
    BY <1>9 DEF Age, storeVars
  <2>2. \A x \in Requests : at[x] \in {"waiting", "woken"} => of[x] # r
    BY <2>1 DEF Inside
  <2>3. QED
    BY <2>1, <2>2 DEF TableServes
<1>10. QED
  BY <1>4, <1>5, <1>6, <1>7, <1>8, <1>9 DEF Enter

(* The invariant holds at first. *)
LEMMA StoreInitInv == Init => StoreInv
<1> SUFFICES ASSUME Init  PROVE StoreInv
  OBVIOUS
<1>1. <<>> \in Seq(Requests) /\ ToSet(<<>>) = {}
  BY EmptySeq DEF ToSet
<1>2. StoreTypes
  BY <1>1 DEF Init, StoreTypes, Places, Busy
<1>3. QueuesBelong /\ LockExclusive /\ CopiesFresh
  BY <1>1 DEF Init, QueuesBelong, LockExclusive, CopiesFresh
<1>4. StoriesTold /\ Transactional
  <2>1. SinceReset(<<>>, <<>>)
    <3>1. Len(<<>>) = 0 /\ SubSeq(<<>>, 0+1, 0) = <<>>
      BY SubSeqEmpty
    <3>2. LastReset(<<>>, 0)
      BY <3>1 DEF LastReset
    <3>3. QED
      BY <3>1, <3>2 DEF SinceReset
  <2>2. QED
    BY <2>1 DEF Init, StoriesTold, Transactional
<1>5. TableServes
  BY FS_EmptySet, RoomAssumption DEF Init, TableServes, Busy
<1>6. QED
  BY <1>2, <1>3, <1>4, <1>5 DEF StoreInv, TurnInv

(* It is kept by every step. *)
LEMMA StoreInvStep == StoreInv /\ [Next]_vars => StoreInv'
<1> SUFFICES ASSUME StoreInv, [Next]_vars  PROVE StoreInv'
  OBVIOUS
<1>1. ASSUME NEW r \in Requests,
             Enter(r) \/ Proceed(r) \/ Commit(r) \/ Fail(r) \/ Expire(r) \/ Cancelled(r) \/ Age(r)
      PROVE  StoreInv'
  <2>1. TurnInv /\ Kept \subseteq Requests /\ (r \in asked => at[r] \in Busy)
    BY DEF StoreInv, TableServes, Kept, TurnInv, StoreTypes
  <2>2. CASE Return(r) \/ Newcomer(r)
    <3>1. PICK s \in Requests : Use(r, s) /\ at[r] = "new"
      BY <2>1, <2>2 DEF Return, Newcomer
    <3>2. TurnInv'
      BY <2>1, <3>1, UseKeeps
    <3>3. QED
      BY <1>1, <3>2, TableStep DEF StoreInv
  <2>3. CASE Full(r) \/ Expire(r) \/ Age(r)
    BY <1>1, <2>1, <2>3, OthersKeep, TableStep DEF StoreInv
  <2>4. CASE Proceed(r)
    BY <1>1, <2>1, <2>4, ProceedKeeps, TableStep DEF StoreInv
  <2>5. CASE Commit(r) \/ Fail(r)
    BY <1>1, <2>1, <2>5, TurnEnds, TableStep DEF StoreInv
  <2>6. CASE Cancelled(r)
    <3>1. at[r] \in Busy
      BY <2>1, <2>6 DEF Cancelled
    <3>2. QED
      BY <1>1, <2>1, <2>6, <3>1, CancelledKeeps, TableStep DEF StoreInv
  <2>7. QED
    BY <1>1, <2>2, <2>3, <2>4, <2>5, <2>6 DEF Enter
<1>2. CASE UNCHANGED vars
  BY <1>2 DEF vars, StoreInv, TurnInv, StoreTypes, QueuesBelong, LockExclusive, Locked,
              CopiesFresh, StoriesTold, Transactional, TableServes
<1>3. QED
  BY <1>1, <1>2 DEF Next, Rest

-----------------------------------------------------------------------------
(* The conversations, the locks, their queues and the table fit together   *)
(* in every execution.                                                     *)
THEOREM StoreInvariance == Spec => []StoreInv
  BY StoreInitInv, StoreInvStep, PTL DEF Spec

(* Whoever comes, waits, fails or is cut off, a conversation is what was   *)
(* answered since the last reset (app.py:129).                             *)
THEOREM ConversationsTransactional == Spec => []Transactional
<1>1. StoreInv => Transactional
  BY DEF StoreInv, TurnInv
<1>2. QED
  BY <1>1, StoreInvariance, PTL

(* No session expires under a request that was given it, and there are     *)
(* never more than max_sessions.                                           *)
THEOREM SessionsStay == Spec => []UsedSessionsStay
<1>1. StoreInv => UsedSessionsStay
  BY DEF StoreInv, TableServes, UsedSessionsStay, Inside, Busy
<1>2. QED
  BY <1>1, StoreInvariance, PTL
=============================================================================
