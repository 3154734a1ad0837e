------------------------ MODULE DecisionEngineProofs ------------------------
(***************************************************************************)
(* Proofs about the native batch engine, for any workload, any budgets,    *)
(* any prompt sizes and any number of repairs.  What still waits for an    *)
(* answer is one line, the rest of the batch followed by the deque; it is  *)
(* served at its head, and repairs join it at its end.                     *)
(***************************************************************************)
EXTENDS DecisionEngine, SequenceLemmas

-----------------------------------------------------------------------------
(* Lines of work items. *)

Numbers == [q : Nat \X Nat, size : Nat, attempt : Nat]

Sorted(w) == \A m, n \in DOMAIN w : m < n => Before(w[m], w[n])

(* The items of a line belong to two attempts at most, and those of the    *)
(* later one are of earlier questions.                                     *)
Waves(w) ==
  \A m, n \in DOMAIN w :
    /\ w[n].attempt <= w[m].attempt + 1
    /\ w[n].attempt = w[m].attempt + 1 => Earlier(w[n].q, w[m].q)

Once(w)  == \A m, n \in DOMAIN w : w[m].q = w[n].q => m = n
Line(w)  == Sorted(w) /\ Waves(w) /\ Once(w)
Asked(w) == {w[n].q : n \in DOMAIN w}

(* Who stands at the head leaves a line that is in order. *)
LEMMA ServedLine ==
  ASSUME NEW w \in Seq(Numbers), w # <<>>, Line(w)
  PROVE  /\ Tail(w) \in Seq(Numbers) /\ Len(Tail(w)) = Len(w) - 1
         /\ Line(Tail(w)) /\ Asked(Tail(w)) = Asked(w) \ {w[1].q}
         /\ \A n \in DOMAIN Tail(w) : \E m \in DOMAIN w : m # 1 /\ Tail(w)[n] = w[m]
<1> DEFINE t == Tail(w)
<1>1. /\ Len(w) \in Nat \ {0} /\ DOMAIN w = 1..Len(w)
      /\ t \in Seq(Numbers) /\ Len(t) = Len(w) - 1 /\ DOMAIN t = 1..Len(w)-1
      /\ \A n \in 1..Len(w)-1 : t[n] = w[n+1]
  BY LenProperties, HeadTailProperties, EmptySeq
<1> HIDE DEF t
<1>2. \A n \in DOMAIN t : n + 1 \in DOMAIN w /\ n + 1 # 1 /\ t[n] = w[n+1]
  BY <1>1
<1>3. \A m \in DOMAIN w : m # 1 => m - 1 \in DOMAIN t /\ t[m-1] = w[m]
  BY <1>1
<1>4. Sorted(t)
  <2>1. ASSUME NEW m \in DOMAIN t, NEW n \in DOMAIN t, m < n  PROVE Before(t[m], t[n])
    <3>1. m + 1 < n + 1
      BY <1>1, <2>1
    <3>2. QED
      BY <1>2, <3>1 DEF Line, Sorted
  <2>2. QED
    BY <2>1 DEF Sorted
<1>5. Waves(t)
  BY <1>2 DEF Line, Waves
<1>6. Once(t)
  <2>1. ASSUME NEW m \in DOMAIN t, NEW n \in DOMAIN t, t[m].q = t[n].q  PROVE m = n
    <3>1. m + 1 = n + 1
      BY <1>2, <2>1 DEF Line, Once
    <3>2. QED
      BY <1>1, <3>1
  <2>2. QED
    BY <2>1 DEF Once
<1>7. Asked(t) = Asked(w) \ {w[1].q}
  <2>1. 1 \in DOMAIN w
    BY <1>1
  <2>2. \A n \in DOMAIN t : t[n].q # w[1].q
    BY <1>2, <2>1 DEF Line, Once
  <2>3. QED
    BY <1>2, <1>3, <2>2 DEF Asked
<1>8. QED
  BY <1>1, <1>2, <1>4, <1>5, <1>6, <1>7 DEF Line, t

(* Whoever joins behind all others joins the line. *)
LEMMA LongerLine ==
  ASSUME NEW w \in Seq(Numbers), Line(w), NEW e \in Numbers,
         \A n \in DOMAIN w :
           /\ Before(w[n], e) /\ w[n].q # e.q
           /\ w[n].attempt <= e.attempt + 1 /\ e.attempt <= w[n].attempt + 1
           /\ e.attempt = w[n].attempt + 1 => Earlier(e.q, w[n].q)
           /\ w[n].attempt = e.attempt + 1 => Earlier(w[n].q, e.q)
  PROVE  /\ Append(w, e) \in Seq(Numbers) /\ Len(Append(w, e)) = Len(w) + 1
         /\ Line(Append(w, e)) /\ Asked(Append(w, e)) = Asked(w) \cup {e.q}
         /\ \A n \in DOMAIN Append(w, e) :
              Append(w, e)[n] = e \/ \E m \in DOMAIN w : Append(w, e)[n] = w[m]
<1> DEFINE r == Append(w, e)
           l == Len(w) + 1
<1>1. /\ Len(w) \in Nat /\ DOMAIN w = 1..Len(w)
      /\ r \in Seq(Numbers) /\ Len(r) = l /\ DOMAIN r = 1..l
      /\ r[l] = e /\ \A n \in 1..Len(w) : r[n] = w[n]
  BY LenProperties, AppendProperties
<1> HIDE DEF r
<1>2. \A n \in DOMAIN r : (n = l /\ r[n] = e) \/ (n \in DOMAIN w /\ n < l /\ r[n] = w[n])
  BY <1>1
<1>3. l \in DOMAIN r /\ \A n \in DOMAIN w : n \in DOMAIN r /\ r[n] = w[n]
  BY <1>1
<1>4. e.attempt \in Nat /\ e.q[1] \in Nat /\ e.q[2] \in Nat
  BY DEF Numbers
<1> HIDE DEF l
<1>5. Sorted(r)
  <2>1. ASSUME NEW m \in DOMAIN r, NEW n \in DOMAIN r, m < n  PROVE Before(r[m], r[n])
    <3>1. m # l
      BY <1>1, <1>2, <2>1 DEF l
    <3>2. QED
      BY <1>2, <2>1, <3>1 DEF Line, Sorted
  <2>2. QED
    BY <2>1 DEF Sorted
<1>6. Waves(r)
  <2>1. ASSUME NEW m \in DOMAIN r, NEW n \in DOMAIN r
        PROVE  /\ r[n].attempt <= r[m].attempt + 1
               /\ r[n].attempt = r[m].attempt + 1 => Earlier(r[n].q, r[m].q)
    <3>1. CASE m = l /\ n = l
      BY <1>2, <1>4, <3>1
    <3>2. CASE m # l \/ n # l
      BY <1>2, <3>2 DEF Line, Waves
    <3>3. QED
      BY <3>1, <3>2
  <2>2. QED
    BY <2>1 DEF Waves
<1>7. Once(r)
  BY <1>2 DEF Line, Once
<1>8. Asked(r) = Asked(w) \cup {e.q}
  BY <1>1, <1>2, <1>3 DEF Asked
<1>9. QED
  BY <1>1, <1>2, <1>5, <1>6, <1>7, <1>8 DEF Line, r, l

(* A repair of what stands at the head goes behind everybody. *)
LEMMA RequeuedLine ==
  ASSUME NEW w \in Seq(Numbers), w # <<>>, Line(w),
         NEW e \in Numbers, e.q = w[1].q, e.attempt = w[1].attempt + 1
  PROVE  LET r == Append(Tail(w), e)
         IN  /\ r \in Seq(Numbers) /\ Len(r) = Len(w) /\ Line(r) /\ Asked(r) = Asked(w)
             /\ \A n \in DOMAIN r : r[n] = e \/ \E m \in DOMAIN w : m # 1 /\ r[n] = w[m]
<1> DEFINE t == Tail(w)
<1>1. /\ t \in Seq(Numbers) /\ Len(t) = Len(w) - 1 /\ Line(t) /\ Asked(t) = Asked(w) \ {w[1].q}
      /\ \A n \in DOMAIN t : \E m \in DOMAIN w : m # 1 /\ t[n] = w[m]
  BY ServedLine
<1>2. Len(w) \in Nat \ {0} /\ DOMAIN w = 1..Len(w) /\ \A n \in DOMAIN w : w[n] \in Numbers
  BY LenProperties, EmptySeq, ElementOfSeq
<1> HIDE DEF t
<1>3. ASSUME NEW n \in DOMAIN t
      PROVE  /\ Before(t[n], e) /\ t[n].q # e.q
             /\ t[n].attempt <= e.attempt + 1 /\ e.attempt <= t[n].attempt + 1
             /\ e.attempt = t[n].attempt + 1 => Earlier(e.q, t[n].q)
             /\ t[n].attempt = e.attempt + 1 => Earlier(t[n].q, e.q)
  <2>1. PICK m \in DOMAIN w : m # 1 /\ t[n] = w[m]
    BY <1>1
  <2>2. /\ 1 \in DOMAIN w /\ 1 < m
        /\ w[1].attempt \in Nat /\ w[m].attempt \in Nat /\ e.attempt \in Nat
    <3>1. 1 \in DOMAIN w /\ 1 < m
      BY <1>2, <2>1
    <3>2. w[1] \in Numbers /\ w[m] \in Numbers
      BY <1>2, <2>1, <3>1
    <3>3. QED
      BY <3>1, <3>2 DEF Numbers
  <2>3. Before(w[1], w[m])
    BY <2>1, <2>2 DEF Line, Sorted
  <2>4. /\ w[m].attempt <= w[1].attempt + 1
        /\ w[m].attempt = w[1].attempt + 1 => Earlier(w[m].q, w[1].q)
    BY <2>2 DEF Line, Waves
  <2>5. w[m].q # w[1].q
    BY <2>1, <2>2 DEF Line, Once
  <2>6. QED
    BY <2>1, <2>2, <2>3, <2>4, <2>5 DEF Before
<1>4. /\ Append(t, e) \in Seq(Numbers) /\ Len(Append(t, e)) = Len(t) + 1
      /\ Line(Append(t, e)) /\ Asked(Append(t, e)) = Asked(t) \cup {e.q}
      /\ \A n \in DOMAIN Append(t, e) :
           Append(t, e)[n] = e \/ \E m \in DOMAIN t : Append(t, e)[n] = t[m]
  BY <1>1, <1>3, LongerLine
<1>5. w[1].q \in Asked(w)
  BY <1>2 DEF Asked
<1>6. Asked(Append(t, e)) = Asked(w)
  BY <1>1, <1>4, <1>5
<1>7. ASSUME NEW n \in DOMAIN Append(t, e)
      PROVE  Append(t, e)[n] = e \/ \E m \in DOMAIN w : m # 1 /\ Append(t, e)[n] = w[m]
  BY <1>1, <1>4
<1>8. QED
  BY <1>1, <1>2, <1>4, <1>6, <1>7 DEF t

(* As many wait as questions are asked for. *)
LEMMA LineLength ==
  ASSUME NEW w \in Seq(Numbers), Once(w)
  PROVE  IsFiniteSet(Asked(w)) /\ Cardinality(Asked(w)) = Len(w)
<1> DEFINE f == [n \in 1..Len(w) |-> w[n].q]
<1>1. Len(w) \in Nat /\ DOMAIN w = 1..Len(w)
  BY LenProperties
<1>2. f \in Bijection(1..Len(w), Asked(w))
  BY <1>1 DEF Once, Asked, Bijection, Injection, Surjection, IsInjective
<1>3. IsFiniteSet(1..Len(w)) /\ Cardinality(1..Len(w)) = Len(w)
  BY <1>1, FS_Interval
<1>4. ExistsBijection(1..Len(w), Asked(w))
  BY <1>2 DEF ExistsBijection
<1>5. QED
  BY <1>3, <1>4, FS_Bijection

-----------------------------------------------------------------------------
(* The line of a call. *)

Rest(b, j, p) == SubSeq(b, j + 1, Len(b)) \o p

(* The rest of the batch and the deque, taken together. *)
LEMMA RestLength ==
  ASSUME NEW S, NEW b \in Seq(S), NEW p \in Seq(S), NEW j \in 0..Len(b)
  PROVE  /\ SubSeq(b, j + 1, Len(b)) \in Seq(S) /\ Rest(b, j, p) \in Seq(S)
         /\ Len(Rest(b, j, p)) = Len(b) - j + Len(p)
<1>1. Len(b) \in Nat /\ Len(p) \in Nat /\ \A i \in j+1..Len(b) : b[i] \in S
  BY LenProperties, ElementOfSeq
<1>2. /\ SubSeq(b, j + 1, Len(b)) \in Seq(S)
      /\ Len(SubSeq(b, j + 1, Len(b))) = IF j + 1 <= Len(b) THEN Len(b) - (j + 1) + 1 ELSE 0
  BY <1>1, SubSeqProperties
<1> DEFINE v == SubSeq(b, j + 1, Len(b))
<1>3. v \in Seq(S) /\ Len(v) = Len(b) - j
  BY <1>1, <1>2
<1> HIDE DEF v
<1>4. v \o p \in Seq(S) /\ Len(v \o p) = Len(v) + Len(p)
  BY <1>3, ConcatProperties
<1>5. Rest(b, j, p) = v \o p
  BY DEF Rest, v
<1>6. QED
  BY <1>3, <1>4, <1>5 DEF v

(* To look at the next completion of the batch is to serve the head. *)
LEMMA RestServed ==
  ASSUME NEW S, NEW b \in Seq(S), NEW p \in Seq(S), NEW j \in 0..Len(b), j < Len(b)
  PROVE  /\ Rest(b, j, p) # <<>> /\ Rest(b, j, p)[1] = b[j + 1]
         /\ Rest(b, j + 1, p) = Tail(Rest(b, j, p))
<1> DEFINE u == SubSeq(b, j + 2, Len(b))
           v == SubSeq(b, j + 1, Len(b))
           r == Rest(b, j, p)
           t == Rest(b, j + 1, p)
<1>1. Len(b) \in Nat /\ j + 1 \in 1..Len(b) /\ Len(b) \in j+1..Len(b) /\ j + 1 \in 0..Len(b)
  BY LenProperties
<1>2. v = <<b[j + 1]>> \o u
  BY <1>1, SubSeqRecursiveFirst
<1>3. /\ r \in Seq(S) /\ Len(r) = Len(b) - j + Len(p) /\ t \in Seq(S) /\ Len(p) \in Nat
      /\ Len(t) = Len(b) - (j + 1) + Len(p) /\ u \in Seq(S) /\ b[j + 1] \in S
  BY <1>1, RestLength, LenProperties, ElementOfSeq
<1>4. <<b[j + 1]>> \in Seq(S)
  BY <1>3
<1>5. r = <<b[j + 1]>> \o t
  <2>1. (<<b[j + 1]>> \o u) \o p = <<b[j + 1]>> \o (u \o p)
    <3>1. \A x, y, z \in Seq(S) : (x \o y) \o z = x \o (y \o z)
      BY ConcatAssociative
    <3> HIDE DEF u
    <3>2. QED
      BY <1>3, <1>4, <3>1
  <2>2. r = v \o p /\ t = u \o p
    <3>1. (j + 1) + 1 = j + 2
      BY <1>1
    <3>2. QED
      BY <3>1 DEF Rest
  <2> HIDE DEF r, t, u, v
  <2>3. QED
    BY <1>2, <2>1, <2>2
<1>6. Len(r) # 0 /\ Len(<<b[j + 1]>>) = 1 /\ <<b[j + 1]>>[1] = b[j + 1]
  BY <1>1, <1>3
<1>7. r[1] = b[j + 1] /\ \A i \in 1..Len(t) : r[i + 1] = t[i]
  <2> HIDE DEF r, t
  <2>1. Len(t) \in Nat
    BY <1>3, LenProperties
  <2>2. \A i \in 1..1 + Len(t) : r[i] = IF i <= 1 THEN b[j + 1] ELSE t[i - 1]
    BY <1>3, <1>4, <1>5, <1>6, ConcatProperties
  <2>3. QED
    BY <2>1, <2>2
<1>8. r # <<>> /\ Tail(r) \in Seq(S) /\ Len(Tail(r)) = Len(r) - 1
      /\ \A i \in 1..Len(Tail(r)) : Tail(r)[i] = r[i + 1]
  BY <1>3, <1>6, EmptySeq, HeadTailProperties
<1>9. t = Tail(r)
  BY <1>1, <1>3, <1>7, <1>8, SeqEqual
<1>10. QED
  BY <1>7, <1>8, <1>9

(* To join the deque is to join the line. *)
LEMMA RestJoined ==
  ASSUME NEW S, NEW b \in Seq(S), NEW p \in Seq(S), NEW j \in 0..Len(b), NEW e \in S
  PROVE  Rest(b, j, Append(p, e)) = Append(Rest(b, j, p), e)
<1>1. SubSeq(b, j + 1, Len(b)) \in Seq(S) /\ Rest(b, j, p) \in Seq(S) /\ <<e>> \in Seq(S)
  BY RestLength
<1>2. /\ Append(p, e) = p \o <<e>>
      /\ Append(Rest(b, j, p), e) = Rest(b, j, p) \o <<e>>
  BY <1>1, AppendIsConcat
<1> DEFINE v == SubSeq(b, j + 1, Len(b))
<1>3. Rest(b, j, p) = v \o p /\ Rest(b, j, Append(p, e)) = v \o Append(p, e)
  BY DEF Rest
<1>4. v \in Seq(S)
  BY <1>1
<1> HIDE DEF v
<1>5. (v \o p) \o <<e>> = v \o (p \o <<e>>)
  BY <1>1, <1>4, ConcatAssociative
<1>6. QED
  BY <1>2, <1>3, <1>5

(* To go from the deque to a new batch is to stay in the line. *)
LEMMA RestCollected ==
  ASSUME NEW S, NEW b \in Seq(S), NEW p \in Seq(S), p # <<>>
  PROVE  Rest(Append(b, Head(p)), 0, Tail(p)) = Rest(b, 0, p)
<1>1. /\ Head(p) \in S /\ Tail(p) \in Seq(S) /\ <<Head(p)>> \in Seq(S)
      /\ p = <<Head(p)>> \o Tail(p)
  BY HeadTailProperties, HeadTailAppend
<1>2. Append(b, Head(p)) = b \o <<Head(p)>> /\ Append(b, Head(p)) \in Seq(S)
  BY <1>1, AppendIsConcat, AppendProperties
<1>3. (b \o <<Head(p)>>) \o Tail(p) = b \o (<<Head(p)>> \o Tail(p))
  BY <1>1, ConcatAssociative
<1>4. /\ Rest(Append(b, Head(p)), 0, Tail(p)) = Append(b, Head(p)) \o Tail(p)
      /\ Rest(b, 0, p) = b \o p
  <2>1. \A c \in Seq(S) : SubSeq(c, 0 + 1, Len(c)) = c
    BY SubSeqFull
  <2>2. QED
    BY <1>2, <2>1 DEF Rest
<1>5. QED
  BY <1>1, <1>2, <1>3, <1>4

-----------------------------------------------------------------------------
(* The inductive invariant. *)

Phases == {"admit", "interleave", "fill", "judge", "returned", "raised"}
Tokens == {s \in Sizes : Fits(s)}
Items  == [q : Questions, size : Tokens, attempt : 0..Retries]

EngineTypes ==
  /\ counts \in Workloads /\ pc \in Phases
  /\ DOMAIN queues = DOMAIN counts /\ \A i \in DOMAIN counts : queues[i] \in Seq(Items)
  /\ pending \in Seq(Items) /\ batch \in Seq(Items)
  /\ reserved \in Nat /\ judged \in 0..Len(batch)
  /\ answers \subseteq Questions /\ usage \in [DOMAIN counts -> Nat]
  /\ submitted \in Nat /\ repairs \in Nat
  /\ tried \subseteq Questions \X (0..Retries)

(* Nothing was batched yet. *)
Fresh ==
  /\ batch = <<>> /\ reserved = 0 /\ judged = 0
  /\ answers = {} /\ submitted = 0 /\ repairs = 0 /\ tried = {}

Idle == pc = "admit" => Fresh /\ pending = <<>> /\ turn = 1

(* While the questions are interleaved, k rounds are over and the requests *)
(* before turn have had their place in the next one.                       *)
Taken(i) == counts[i] - Len(queues[i])
Reached(taken, count, k) == taken = k \/ (taken = count /\ count < k)
Rounds(k) ==
  \A i \in DOMAIN counts : Reached(Taken(i), counts[i], IF i < turn THEN k + 1 ELSE k)
InRounds ==
  pc = "interleave" =>
    /\ Fresh /\ turn \in DOMAIN counts
    /\ \A i \in DOMAIN counts :
         /\ Len(queues[i]) <= counts[i]
         /\ \A n \in DOMAIN queues[i] :
              queues[i][n].q = <<i, Taken(i) + n>> /\ queues[i][n].attempt = 0
    /\ \E k \in Nat : Rounds(k)
    /\ \A n \in DOMAIN pending : pending[n].attempt = 0
    /\ Asked(pending) = {q \in Questions : q[2] <= Taken(q[1])}

(* What waits was tried as often as its attempt says. *)
TriesKept ==
  /\ \A q \in answers : <<q, 0>> \in tried
  /\ pc # "raised" => \A n \in DOMAIN Waiting, k \in 0..Retries :
       <<Waiting[n].q, k>> \in tried <=> k < Waiting[n].attempt

ChargesKept ==
  /\ \A i \in DOMAIN counts : usage[i] = Cardinality(Tries(i))
  /\ pc \in {"fill", "returned"} => submitted = Cardinality(tried)
  /\ pc = "judge" => submitted = Cardinality(tried) + Len(batch) - judged
  /\ pc \in {"fill", "judge", "returned"} =>
       Len(Waiting) + Cardinality(tried) = Cardinality(Questions) + repairs

PhasesKept ==
  /\ pc = "fill" => judged = 0
  /\ pc = "returned" => Waiting = <<>> /\ answers = Questions

CallInv ==
  /\ EngineTypes /\ Idle /\ InRounds /\ Line(Waiting) /\ NothingForgotten
  /\ TriesKept /\ ChargesKept /\ PhasesKept /\ BatchWithinBudgets

-----------------------------------------------------------------------------
(* Questions and items. *)

(* A question is a place in a request of the call. *)
LEMMA QuestionShape ==
  ASSUME counts \in Workloads
  PROVE  /\ Len(counts) \in Nat /\ DOMAIN counts = 1..Len(counts)
         /\ \A i \in DOMAIN counts : counts[i] \in Nat \ {0}
         /\ \A i \in DOMAIN counts : \A k \in 1..counts[i] : <<i, k>> \in Questions
         /\ \A q \in Questions : /\ q[1] \in DOMAIN counts /\ q[2] \in 1..counts[q[1]]
                                /\ q = <<q[1], q[2]>> /\ q \in Nat \X Nat
         /\ IsFiniteSet(Questions)
<1>1. counts \in Seq(Nat \ {0})
  BY WorkAssumption
<1>2. /\ Len(counts) \in Nat /\ DOMAIN counts = 1..Len(counts)
      /\ \A i \in DOMAIN counts : counts[i] \in Nat \ {0}
  BY <1>1, LenProperties, ElementOfSeq
<1>3. \A i \in DOMAIN counts : \A k \in 1..counts[i] : <<i, k>> \in Questions
  BY DEF Questions
<1>4. ASSUME NEW q \in Questions
      PROVE  /\ q[1] \in DOMAIN counts /\ q[2] \in 1..counts[q[1]]
             /\ q = <<q[1], q[2]>> /\ q \in Nat \X Nat
  <2>1. PICK i \in DOMAIN counts : q \in {i} \X (1..counts[i])
    BY DEF Questions
  <2>2. q[1] = i /\ q[2] \in 1..counts[i] /\ q = <<q[1], q[2]>>
    BY <2>1
  <2>3. i \in Nat /\ \A k \in 1..counts[i] : k \in Nat
    BY <1>2
  <2>4. QED
    BY <2>1, <2>2, <2>3
<1>5. IsFiniteSet(Questions)
  <2> DEFINE Of(i) == {i} \X (1..counts[i])
             f == [i \in DOMAIN counts |-> Of(i)]
             All == {Of(i) : i \in DOMAIN counts}
  <2>1. \A i \in DOMAIN counts : IsFiniteSet(Of(i))
    <3>1. ASSUME NEW i \in DOMAIN counts  PROVE IsFiniteSet({i} \X (1..counts[i]))
      <4>1. IsFiniteSet({i}) /\ IsFiniteSet(1..counts[i])
        <5>1. IsFiniteSet({i})
          BY FS_Singleton
        <5>2. 1 \in Int /\ counts[i] \in Int
          BY <1>2
        <5>3. QED
          BY <5>1, <5>2, FS_Interval
      <4>2. QED
        BY <4>1, FS_Product
    <3>2. QED
      BY <3>1
  <2>2. f \in Surjection(DOMAIN counts, All)
    BY DEF Surjection
  <2>3. IsFiniteSet(DOMAIN counts)
    BY <1>2, FS_Interval
  <2>4. IsFiniteSet(All)
    BY <2>2, <2>3, FS_Surjection
  <2>5. \A T \in All : IsFiniteSet(T)
    BY <2>1
  <2>6. IsFiniteSet(UNION All)
    BY <2>4, <2>5, FS_UNION
  <2>7. QED
    BY <2>6 DEF Questions
<1>6. QED
  BY <1>2, <1>3, <1>4, <1>5

(* Items are made of numbers, and a repair of an item is an item. *)
LEMMA ItemShape ==
  ASSUME EngineTypes
  PROVE  /\ Items \subseteq Numbers /\ Retries \in Nat
         /\ \A q \in Questions, s \in Tokens, a \in 0..Retries :
              /\ Item(q, s, a) \in Items
              /\ Item(q, s, a).q = q /\ Item(q, s, a).size = s /\ Item(q, s, a).attempt = a
<1>1. Retries \in Nat /\ Sizes \subseteq Nat \ {0}
  BY ConfigAssumption, WorkAssumption
<1>2. \A q \in Questions : q \in Nat \X Nat
  BY QuestionShape DEF EngineTypes
<1>3. \A q \in Questions, s \in Tokens, a \in 0..Retries :
        /\ Item(q, s, a) \in Items
        /\ Item(q, s, a).q = q /\ Item(q, s, a).size = s /\ Item(q, s, a).attempt = a
  BY DEF Item, Items
<1>4. Items \subseteq Numbers
  <2>1. Tokens \subseteq Nat /\ 0..Retries \subseteq Nat
    <3>1. Tokens \subseteq Sizes
      BY DEF Tokens
    <3>2. \A s \in Sizes : s \in Nat
      BY <1>1
    <3>3. 0..Retries \subseteq Nat
      BY <1>1
    <3>4. QED
      BY <3>1, <3>2, <3>3
  <2>2. QED
    BY <1>2, <2>1 DEF Items, Numbers
<1>5. QED
  BY <1>1, <1>3, <1>4

(* What waits is a line of items. *)
LEMMA WaitingShape ==
  ASSUME EngineTypes
  PROVE  /\ Waiting = Rest(batch, judged, pending)
         /\ Waiting \in Seq(Items) /\ Waiting \in Seq(Numbers)
         /\ Len(Waiting) = Len(batch) - judged + Len(pending)
         /\ Len(batch) \in Nat /\ Len(pending) \in Nat /\ judged \in Nat
<1>1. Waiting = Rest(batch, judged, pending)
  BY DEF Waiting, Rest
<1>2. Len(batch) \in Nat /\ Len(pending) \in Nat /\ judged \in Nat
  BY LenProperties DEF EngineTypes
<1>3. /\ Rest(batch, judged, pending) \in Seq(Items)
      /\ Len(Rest(batch, judged, pending)) = Len(batch) - judged + Len(pending)
  BY RestLength DEF EngineTypes
<1>4. Waiting \in Seq(Numbers)
  BY <1>1, <1>3, ItemShape, SeqMonotonic
<1>5. QED
  BY <1>1, <1>2, <1>3, <1>4

-----------------------------------------------------------------------------
(* The admission of a call and the round-robin loop. *)

Core ==
  /\ EngineTypes /\ Idle /\ InRounds /\ Line(Waiting) /\ NothingForgotten
  /\ TriesKept /\ ChargesKept /\ PhasesKept

(* An empty line is in order. *)
LEMMA EmptyLine == Line(<<>>) /\ Asked(<<>>) = {}
BY DEF Line, Sorted, Waves, Once, Asked

(* Nothing waits while nothing was batched, except in the deque. *)
LEMMA FreshWaiting ==
  ASSUME batch = <<>>, judged = 0, pending \in Seq(Items)
  PROVE  Waiting = pending
<1>1. <<>> \in Seq(Items) /\ Len(<<>>) = 0
  BY EmptySeq
<1>2. SubSeq(<<>>, 1, 0) = <<>>
  BY SubSeqEmpty
<1>3. <<>> \o pending = pending
  BY ConcatEmptySeq
<1>4. QED
  BY <1>1, <1>2, <1>3 DEF Waiting

(* A call begins with nothing but its questions. *)
LEMMA EngineInit == Init => CallInv
<1> SUFFICES ASSUME Init  PROVE CallInv
  OBVIOUS
<1> USE DEF Init
<1>1. \A S : <<>> \in Seq(S) /\ Len(<<>>) = 0
  BY EmptySeq
<1>2. Waiting = <<>>
  BY <1>1, FreshWaiting
<1>3. EngineTypes
  BY <1>1 DEF EngineTypes, Phases
<1>4. Idle /\ InRounds /\ NothingForgotten /\ PhasesKept
  BY DEF Idle, Fresh, InRounds, NothingForgotten, PhasesKept
<1>5. Line(Waiting)
  BY <1>2, EmptyLine
<1>6. TriesKept
  BY <1>2 DEF TriesKept
<1>7. ChargesKept
  <2>1. \A i : Tries(i) = {}
    BY DEF Tries
  <2>2. QED
    BY <2>1, FS_EmptySet DEF ChargesKept
<1>8. BatchWithinBudgets
  <2> DEFINE total == [k \in 0..Len(batch) |-> 0]
  <2>1. total \in [0..Len(batch) -> 0..reserved] /\ total[0] = 0 /\ total[Len(batch)] = reserved
        /\ DOMAIN batch = {}
    BY <1>1
  <2>2. AddUpTo(batch, reserved)
    BY <2>1 DEF AddUpTo
  <2>3. QED
    BY <1>1, <2>2, ConfigAssumption DEF BatchWithinBudgets
<1>9. QED
  BY <1>3, <1>4, <1>5, <1>6, <1>7, <1>8 DEF CallInv

(* Once compiled, the questions of each request stand in its queue.        *)
LEMMA CompileKeeps ==
  ASSUME Core, Compile, pc' = "interleave"
  PROVE  Core'
<1>1. /\ Fresh /\ pending = <<>> /\ turn = 1 /\ EngineTypes /\ Waiting = <<>>
      /\ ChargesKept /\ counts \in Workloads
  <2>1. Fresh /\ pending = <<>> /\ turn = 1 /\ EngineTypes /\ ChargesKept
    BY DEF Core, Idle, Compile
  <2>2. QED
    BY <2>1, FreshWaiting DEF Fresh, EngineTypes
<1>2. PICK size \in [Questions -> Sizes] :
        /\ \A q \in Questions : Fits(size[q])
        /\ queues' = [i \in DOMAIN counts |->
                        [k \in 1..counts[i] |-> Item(<<i, k>>, size[<<i, k>>], 0)]]
  BY DEF Compile, Raise
<1>3. /\ UNCHANGED <<counts, turn, pending, batchVars, tallyVars>>
      /\ Len(counts) \in 1..MaxRequests
  BY DEF Compile
<1>4. /\ DOMAIN counts = 1..Len(counts) /\ Len(counts) \in Nat
      /\ \A i \in DOMAIN counts : counts[i] \in Nat \ {0}
      /\ \A i \in DOMAIN counts : \A k \in 1..counts[i] : <<i, k>> \in Questions
      /\ \A q \in Questions : q[1] \in DOMAIN counts /\ q[2] \in 1..counts[q[1]]
  BY <1>1, QuestionShape
<1>5. ASSUME NEW i \in DOMAIN counts
      PROVE  /\ queues'[i] \in Seq(Items) /\ Len(queues'[i]) = counts[i]
             /\ DOMAIN queues'[i] = 1..counts[i]
             /\ \A n \in 1..counts[i] : queues'[i][n].q = <<i, n>> /\ queues'[i][n].attempt = 0
  <2>1. /\ queues'[i] = [k \in 1..counts[i] |-> Item(<<i, k>>, size[<<i, k>>], 0)]
        /\ counts[i] \in Nat
    BY <1>2, <1>4
  <2>2. ASSUME NEW k \in 1..counts[i]
        PROVE  /\ Item(<<i, k>>, size[<<i, k>>], 0) \in Items
               /\ Item(<<i, k>>, size[<<i, k>>], 0).q = <<i, k>>
               /\ Item(<<i, k>>, size[<<i, k>>], 0).attempt = 0
    <3>1. <<i, k>> \in Questions
      BY <1>4
    <3>2. size[<<i, k>>] \in Tokens /\ 0 \in 0..Retries
      BY <1>2, <3>1, ConfigAssumption DEF Tokens
    <3>3. QED
      BY <1>1, <3>1, <3>2, ItemShape
  <2>3. queues'[i] \in [1..counts[i] -> Items]
    BY <2>1, <2>2
  <2>4. queues'[i] \in Seq(Items)
    <3>1. \A n \in Nat : \A f \in [1..n -> Items] : f \in Seq(Items)
      OBVIOUS
    <3>2. QED
      BY <2>1, <2>3, <3>1
  <2>5. Len(queues'[i]) = counts[i]
    BY <2>1, <2>4, LenProperties
  <2>6. QED
    BY <2>1, <2>2, <2>4, <2>5
<1>6. /\ counts' = counts /\ turn' = 1 /\ pending' = <<>> /\ Fresh' /\ Questions' = Questions
      /\ Items' = Items /\ Waiting' = <<>> /\ usage' = usage /\ tried' = {}
  BY <1>1, <1>3 DEF batchVars, tallyVars, Fresh, Questions, Items, Waiting
<1>7. EngineTypes'
  <2>1. DOMAIN queues' = DOMAIN counts
    BY <1>2
  <2>2. QED
    BY <1>1, <1>3, <1>5, <1>6, <2>1 DEF EngineTypes, Phases, batchVars, tallyVars
<1>8. InRounds'
  <2>1. turn' \in DOMAIN counts
    BY <1>3, <1>4, <1>6
  <2>2. ASSUME NEW i \in DOMAIN counts  PROVE Taken(i)' = 0 /\ Taken(i)' + 0 = 0
    BY <1>4, <1>5, <1>6 DEF Taken
  <2>3. \A i \in DOMAIN counts : i >= 1
    BY <1>4
  <2>4. Rounds(0)'
    <3>1. ASSUME NEW i \in DOMAIN counts
          PROVE  Reached(Taken(i)', counts'[i], IF i < turn' THEN 0 + 1 ELSE 0)
      <4>1. ~(i < turn') /\ Taken(i)' = 0
        BY <1>4, <1>6, <2>2, <2>3
      <4>2. QED
        BY <4>1 DEF Reached
    <3>2. QED
      BY <1>6, <3>1 DEF Rounds
  <2>5. Asked(pending') = {q \in Questions : q[2] <= Taken(q[1])'}
    <3>1. \A q \in Questions : ~(q[2] <= 0)
      BY <1>4
    <3>2. Asked(pending') = {}
      BY <1>6, EmptyLine
    <3>3. QED
      BY <1>4, <2>2, <3>1, <3>2
  <2>6. ASSUME NEW i \in DOMAIN counts
        PROVE  /\ Len(queues'[i]) <= counts[i]
               /\ \A n \in DOMAIN queues'[i] :
                    queues'[i][n].q = <<i, Taken(i)' + n>> /\ queues'[i][n].attempt = 0
    BY <1>4, <1>5, <2>2
  <2>7. \A n \in DOMAIN pending' : pending'[n].attempt = 0
    BY <1>6
  <2>8. 0 \in Nat
    OBVIOUS
  <2>9. QED
    BY <1>6, <2>1, <2>4, <2>5, <2>6, <2>7, <2>8 DEF InRounds
<1>9. Line(Waiting)' /\ TriesKept'
  BY <1>6, EmptyLine DEF TriesKept, Fresh
<1>10. ChargesKept'
  BY <1>1, <1>3, <1>6 DEF ChargesKept, Tries, tallyVars
<1>11. QED
  BY <1>7, <1>8, <1>9, <1>10 DEF Core, Idle, NothingForgotten, PhasesKept

(* When request r has had its place in a round, the next one is looked at. *)
LEMMA RoundsGoOn ==
  ASSUME EngineTypes, NEW r \in DOMAIN counts, r = turn, counts' = counts,
         NEW k \in Nat, Rounds(k),
         turn' = IF r = Len(counts) THEN 1 ELSE r + 1,
         Reached(Taken(r)', counts[r], k + 1),
         \A i \in DOMAIN counts \ {r} : Taken(i)' = Taken(i)
  PROVE  turn' \in DOMAIN counts' /\ \E j \in Nat : Rounds(j)'
<1>1. Len(counts) \in Nat /\ DOMAIN counts = 1..Len(counts)
  BY QuestionShape DEF EngineTypes
<1>2. CASE r = Len(counts)
  <2>1. \A i \in DOMAIN counts : Reached(Taken(i)', counts'[i], k + 1) /\ ~(i < turn')
    BY <1>1, <1>2 DEF Rounds
  <2>2. Rounds(k + 1)' /\ k + 1 \in Nat
    BY <2>1 DEF Rounds
  <2>3. QED
    BY <1>1, <1>2, <2>2
<1>3. CASE r # Len(counts)
  <2>1. turn' = r + 1 /\ turn' \in DOMAIN counts
    BY <1>1, <1>3
  <2>2. ASSUME NEW i \in DOMAIN counts
        PROVE  Reached(Taken(i)', counts'[i], IF i < turn' THEN k + 1 ELSE k)
    <3>1. CASE i = r
      BY <1>1, <2>1, <3>1
    <3>2. CASE i # r
      BY <1>1, <2>1, <3>2 DEF Rounds
    <3>3. QED
      BY <3>1, <3>2
  <2>3. Rounds(k)'
    BY <2>2 DEF Rounds
  <2>4. QED
    BY <2>1, <2>3
<1>4. QED
  BY <1>2, <1>3

(* A request whose queue is empty passes its turn. *)
LEMMA TurnPassed ==
  ASSUME Core, TakeTurn, queues[turn] = <<>>
  PROVE  Core'
<1>0. PICK r \in DOMAIN counts : r = turn
  BY DEF Core, InRounds, TakeTurn
<1>1. /\ pc = "interleave" /\ Fresh /\ r \in DOMAIN counts /\ EngineTypes
      /\ \E k \in Nat : Rounds(k)
  BY DEF Core, InRounds, TakeTurn
<1>2. /\ UNCHANGED <<queues, pending, counts, pc, error, batchVars, tallyVars>>
      /\ turn' = IF r = Len(counts) THEN 1 ELSE r + 1
  BY <1>0 DEF TakeTurn
<1>3. /\ Questions' = Questions /\ Items' = Items /\ Waiting' = Waiting
      /\ \A i : Taken(i)' = Taken(i) /\ Tries(i)' = Tries(i)
  BY <1>2 DEF Questions, Items, Waiting, Taken, Tries, batchVars, tallyVars
<1>4. PICK k \in Nat : Rounds(k)
  BY <1>1
<1>5. counts[r] \in Nat
  BY <1>1, QuestionShape DEF EngineTypes
<1>6. Reached(Taken(r)', counts[r], k + 1)
  <2>1. Taken(r) = counts[r]
    BY <1>0, <1>5, EmptySeq DEF Taken
  <2>2. Reached(Taken(r), counts[r], k)
    <3>1. ~(r < turn)
      BY <1>0, <1>1, QuestionShape DEF EngineTypes
    <3>2. QED
      BY <1>4, <3>1 DEF Rounds
  <2>3. QED
    BY <1>3, <1>5, <2>1, <2>2 DEF Reached
<1>7. turn' \in DOMAIN counts' /\ \E j \in Nat : Rounds(j)'
  BY <1>0, <1>1, <1>2, <1>3, <1>4, <1>6, RoundsGoOn
<1>8. InRounds'
  BY <1>1, <1>2, <1>3, <1>7 DEF Core, InRounds, Fresh, batchVars, tallyVars
<1>9. EngineTypes' /\ Idle' /\ Line(Waiting)' /\ NothingForgotten'
  BY <1>1, <1>2, <1>3 DEF Core, EngineTypes, Idle, NothingForgotten, batchVars, tallyVars
<1>10. TriesKept' /\ ChargesKept' /\ PhasesKept'
  BY <1>1, <1>2, <1>3 DEF Core, TriesKept, ChargesKept, PhasesKept, batchVars, tallyVars
<1>11. QED
  BY <1>8, <1>9, <1>10 DEF Core

(* A request with questions left adds its next one behind all others.      *)
LEMMA TurnTaken ==
  ASSUME Core, TakeTurn, queues[turn] # <<>>
  PROVE  Core'
<1>0. PICK r \in DOMAIN counts : r = turn
  BY DEF Core, InRounds, TakeTurn
<1> DEFINE e == Head(queues[r])
<1>1. /\ pc = "interleave" /\ Fresh /\ EngineTypes /\ \E k \in Nat : Rounds(k)
      /\ \A i \in DOMAIN counts :
           /\ Len(queues[i]) <= counts[i]
           /\ \A n \in DOMAIN queues[i] :
                queues[i][n].q = <<i, Taken(i) + n>> /\ queues[i][n].attempt = 0
      /\ \A n \in DOMAIN pending : pending[n].attempt = 0
      /\ Asked(pending) = {q \in Questions : q[2] <= Taken(q[1])}
  BY DEF Core, InRounds, TakeTurn
<1>2. /\ UNCHANGED <<counts, pc, error, batchVars, tallyVars>>
      /\ pending' = Append(pending, e) /\ queues' = [queues EXCEPT ![r] = Tail(queues[r])]
      /\ turn' = IF r = Len(counts) THEN 1 ELSE r + 1
  BY <1>0 DEF TakeTurn
<1>3. PICK k \in Nat : Rounds(k)
  BY <1>1
<1>4. /\ Len(counts) \in Nat /\ DOMAIN counts = 1..Len(counts)
      /\ \A i \in DOMAIN counts : counts[i] \in Nat
      /\ \A q \in Questions : /\ q[1] \in DOMAIN counts /\ q[2] \in 1..counts[q[1]]
                             /\ q = <<q[1], q[2]>> /\ q \in Nat \X Nat
  BY <1>1, QuestionShape DEF EngineTypes
<1>5. /\ queues[r] \in Seq(Items) /\ e \in Items /\ e = queues[r][1]
      /\ Len(queues[r]) \in Nat \ {0} /\ DOMAIN queues[r] = 1..Len(queues[r])
      /\ Tail(queues[r]) \in Seq(Items) /\ Len(Tail(queues[r])) = Len(queues[r]) - 1
      /\ DOMAIN Tail(queues[r]) = 1..Len(queues[r])-1
      /\ \A n \in 1..Len(queues[r])-1 : Tail(queues[r])[n] = queues[r][n+1]
  BY <1>0, <1>1, LenProperties, HeadTailProperties, EmptySeq DEF EngineTypes
<1>6. Taken(r) = k
  <2>1. ~(r < turn)
    BY <1>0, <1>4
  <2>2. Reached(Taken(r), counts[r], k)
    BY <1>3, <2>1 DEF Rounds
  <2>3. Taken(r) # counts[r]
    BY <1>4, <1>5 DEF Taken
  <2>4. QED
    BY <2>2, <2>3 DEF Reached
<1>7. e.q = <<r, k + 1>> /\ e.attempt = 0 /\ e.q \in Questions
  <2>1. 1 \in DOMAIN queues[r]
    BY <1>5
  <2>2. e.q = <<r, Taken(r) + 1>> /\ e.attempt = 0
    BY <1>1, <1>5, <2>1
  <2>3. QED
    BY <1>5, <1>6, <2>2 DEF Items
<1>8. /\ counts' = counts /\ Questions' = Questions /\ Items' = Items /\ Fresh'
      /\ \A i : Tries(i)' = Tries(i)
      /\ DOMAIN queues' = DOMAIN counts /\ queues'[r] = Tail(queues[r])
      /\ \A i \in DOMAIN counts \ {r} : queues'[i] = queues[i]
  BY <1>1, <1>2 DEF Questions, Items, Fresh, Tries, batchVars, tallyVars, EngineTypes
<1>9. /\ Taken(r)' = k + 1
      /\ \A i \in DOMAIN counts \ {r} : Taken(i)' = Taken(i)
  <2>1. counts[r] - (Len(queues[r]) - 1) = (counts[r] - Len(queues[r])) + 1
    BY <1>4, <1>5
  <2>2. QED
    BY <1>5, <1>6, <1>8, <2>1 DEF Taken
<1>10. turn' \in DOMAIN counts' /\ \E j \in Nat : Rounds(j)'
  BY <1>0, <1>1, <1>2, <1>3, <1>8, <1>9, RoundsGoOn DEF Reached
<1>11. /\ pending \in Seq(Numbers) /\ e \in Numbers /\ Waiting = pending
       /\ Len(pending) \in Nat /\ DOMAIN pending = 1..Len(pending)
  BY <1>1, <1>5, ItemShape, SeqMonotonic, FreshWaiting, LenProperties DEF Fresh, EngineTypes
<1> HIDE DEF e
<1>12. \A q \in Questions : q[2] <= Taken(q[1]) => Earlier(q, e.q) /\ q # e.q
  <2>1. ASSUME NEW q \in Questions, q[2] <= Taken(q[1])  PROVE Earlier(q, e.q) /\ q # e.q
    <3>1. /\ Reached(Taken(q[1]), counts[q[1]], IF q[1] < r THEN k + 1 ELSE k)
          /\ q[1] \in Nat /\ q[2] \in Nat /\ r \in Nat /\ counts[q[1]] \in Nat
          /\ e.q[1] = r /\ e.q[2] = k + 1
      BY <1>0, <1>3, <1>4, <1>7 DEF Rounds
    <3>2. IF q[1] < r THEN q[2] <= k + 1 ELSE q[2] <= k
      <4>1. CASE q[1] < r
        BY <2>1, <3>1, <4>1 DEF Reached
      <4>2. CASE ~(q[1] < r)
        BY <2>1, <3>1, <4>2 DEF Reached
      <4>3. QED
        BY <4>1, <4>2
    <3>3. QED
      BY <3>1, <3>2 DEF Earlier
  <2>2. QED
    BY <2>1
<1>13. \A n \in DOMAIN pending :
         /\ Before(pending[n], e) /\ pending[n].q # e.q
         /\ pending[n].attempt = 0
  <2>1. ASSUME NEW n \in DOMAIN pending
        PROVE  /\ Before(pending[n], e) /\ pending[n].q # e.q /\ pending[n].attempt = 0
    <3>1. pending[n].q \in Asked(pending)
      BY DEF Asked
    <3>2. Earlier(pending[n].q, e.q) /\ pending[n].q # e.q
      BY <1>1, <1>12, <3>1
    <3>3. QED
      BY <1>1, <1>7, <3>2 DEF Before
  <2>2. QED
    BY <2>1
<1>14. /\ Len(pending') = Len(pending) + 1 /\ Line(pending')
       /\ Asked(pending') = Asked(pending) \cup {e.q}
       /\ \A n \in DOMAIN pending' :
            pending'[n] = e \/ \E m \in DOMAIN pending : pending'[n] = pending[m]
  <2>1. Line(pending)
    BY <1>11 DEF Core
  <2>2. \A n \in DOMAIN pending :
          /\ Before(pending[n], e) /\ pending[n].q # e.q
          /\ pending[n].attempt <= e.attempt + 1 /\ e.attempt <= pending[n].attempt + 1
          /\ e.attempt = pending[n].attempt + 1 => Earlier(e.q, pending[n].q)
          /\ pending[n].attempt = e.attempt + 1 => Earlier(pending[n].q, e.q)
    BY <1>7, <1>13
  <2>3. QED
    BY <1>2, <1>11, <2>1, <2>2, LongerLine
<1>15. pending' \in Seq(Items)
  BY <1>1, <1>2, <1>5, AppendProperties DEF EngineTypes, e
<1>16. EngineTypes'
  <2>1. \A i \in DOMAIN counts : queues'[i] \in Seq(Items)
    BY <1>1, <1>5, <1>8 DEF EngineTypes
  <2>2. QED
    BY <1>1, <1>2, <1>8, <1>15, <2>1 DEF EngineTypes, batchVars, tallyVars
<1>17. Waiting' = pending'
  BY <1>8, <1>15, FreshWaiting DEF Fresh, Waiting, Items
<1>18. InRounds'
  <2>1. ASSUME NEW i \in DOMAIN counts
        PROVE  /\ Len(queues'[i]) <= counts[i]
               /\ \A n \in DOMAIN queues'[i] :
                    queues'[i][n].q = <<i, Taken(i)' + n>> /\ queues'[i][n].attempt = 0
    <3>1. CASE i = r
      <4>1. Len(queues'[r]) <= counts[r]
        BY <1>1, <1>4, <1>5, <1>8
      <4>2. ASSUME NEW n \in DOMAIN queues'[r]
            PROVE  queues'[r][n].q = <<r, k + 1 + n>> /\ queues'[r][n].attempt = 0
        <5>1. n \in Nat /\ n + 1 \in DOMAIN queues[r] /\ queues'[r][n] = queues[r][n + 1]
          BY <1>5, <1>8, <4>2
        <5>2. k + 1 + n = k + (n + 1)
          BY <5>1
        <5>3. QED
          BY <1>1, <1>6, <5>1, <5>2
      <4>3. QED
        BY <1>9, <3>1, <4>1, <4>2
    <3>2. CASE i # r
      BY <1>1, <1>8, <1>9, <3>2
    <3>3. QED
      BY <3>1, <3>2
  <2>2. \A n \in DOMAIN pending' : pending'[n].attempt = 0
    BY <1>1, <1>7, <1>14
  <2>3. Asked(pending') = {q \in Questions : q[2] <= Taken(q[1])'}
    <3>1. ASSUME NEW q \in Questions
          PROVE  q[2] <= Taken(q[1])' <=> (q[2] <= Taken(q[1]) \/ q = e.q)
      <4>1. CASE q[1] = r
        BY <1>4, <1>6, <1>7, <1>9, <4>1
      <4>2. CASE q[1] # r
        BY <1>4, <1>7, <1>9, <4>2
      <4>3. QED
        BY <4>1, <4>2
    <3>2. QED
      BY <1>1, <1>7, <1>14, <3>1
  <2>4. QED
    BY <1>8, <1>10, <2>1, <2>2, <2>3 DEF InRounds
<1>19. Line(Waiting)' /\ Idle' /\ NothingForgotten' /\ PhasesKept'
  BY <1>1, <1>2, <1>14, <1>17 DEF Idle, NothingForgotten, PhasesKept
<1>20. TriesKept'
  <2>1. \A n \in DOMAIN pending' : pending'[n].attempt = 0
    BY <1>1, <1>7, <1>14
  <2>2. answers' = {} /\ tried' = {} /\ Retries \in Nat
    BY <1>8, ConfigAssumption DEF Fresh
  <2>3. QED
    BY <1>17, <2>1, <2>2 DEF TriesKept
<1>21. ChargesKept'
  BY <1>1, <1>2, <1>8 DEF Core, ChargesKept, tallyVars
<1>22. QED
  BY <1>16, <1>18, <1>19, <1>20, <1>21 DEF Core

(* When all queues are empty, every question waits in the deque.           *)
LEMMA InterleavedKeeps ==
  ASSUME Core, Interleaved
  PROVE  Core'
<1>1. /\ Fresh /\ EngineTypes /\ Line(Waiting) /\ TriesKept /\ ChargesKept
      /\ Asked(pending) = {q \in Questions : q[2] <= Taken(q[1])}
  BY DEF Core, InRounds, Interleaved
<1>2. /\ UNCHANGED <<error, lineVars, pending, batchVars, tallyVars>> /\ pc' = "fill"
      /\ \A i \in DOMAIN counts : queues[i] = <<>>
  BY <1>1 DEF Interleaved, EngineTypes
<1>3. /\ Questions' = Questions /\ Items' = Items /\ Waiting' = Waiting
      /\ \A i : Tries(i)' = Tries(i)
  BY <1>2 DEF Questions, Items, Waiting, Tries, lineVars, batchVars, tallyVars
<1>4. Waiting = pending /\ Waiting \in Seq(Numbers)
  BY <1>1, FreshWaiting, WaitingShape DEF Fresh, EngineTypes
<1>5. \A q \in Questions : q[2] <= Taken(q[1])
  <2>1. ASSUME NEW q \in Questions  PROVE q[2] <= Taken(q[1])
    <3>1. q[1] \in DOMAIN counts /\ q[2] \in 1..counts[q[1]] /\ counts[q[1]] \in Nat
      BY <1>1, QuestionShape DEF EngineTypes
    <3>2. Taken(q[1]) = counts[q[1]]
      BY <1>2, <3>1, EmptySeq DEF Taken
    <3>3. QED
      BY <3>1, <3>2
  <2>2. QED
    BY <2>1
<1>6. Asked(Waiting) = Questions
  BY <1>1, <1>4, <1>5
<1>7. EngineTypes' /\ Idle' /\ InRounds' /\ Line(Waiting)' /\ TriesKept'
  <2>1. EngineTypes'
    BY <1>1, <1>2, <1>3 DEF EngineTypes, Phases, lineVars, batchVars, tallyVars
  <2>2. Idle' /\ InRounds' /\ Line(Waiting)'
    BY <1>1, <1>2, <1>3 DEF Idle, InRounds
  <2>3. TriesKept'
    BY <1>1, <1>2, <1>3 DEF TriesKept, tallyVars, Interleaved
  <2>4. QED
    BY <2>1, <2>2, <2>3
<1>8. NothingForgotten' /\ PhasesKept'
  BY <1>1, <1>2, <1>3, <1>6 DEF NothingForgotten, PhasesKept, Fresh, Asked, Line, Once, batchVars,
                                tallyVars
<1>9. ChargesKept'
  <2>1. Len(Waiting) = Cardinality(Questions)
    BY <1>1, <1>4, <1>6, LineLength DEF Line
  <2>2. Cardinality(tried) = 0 /\ submitted = 0 /\ repairs = 0
    BY <1>1, FS_EmptySet DEF Fresh
  <2>3. Len(Waiting) \in Nat
    BY <1>4, LenProperties
  <2>4. QED
    BY <1>1, <1>2, <1>3, <2>1, <2>2, <2>3 DEF ChargesKept, lineVars, tallyVars
<1>10. QED
  BY <1>7, <1>8, <1>9 DEF Core

-----------------------------------------------------------------------------
(* Batches and their completions. *)

(* A call that raises before it looks at a completion changes nothing else.*)
LEMMA StopKeeps ==
  ASSUME Core, pc' = "raised", UNCHANGED <<lineVars, pending, batchVars, tallyVars>>
  PROVE  Core'
<1>1. /\ Questions' = Questions /\ Items' = Items /\ Waiting' = Waiting /\ counts' = counts
      /\ \A i : Tries(i)' = Tries(i)
  BY DEF Questions, Items, Waiting, Tries, lineVars, batchVars, tallyVars
<1>2. EngineTypes'
  BY <1>1 DEF Core, EngineTypes, Phases, lineVars, batchVars, tallyVars
<1>3. Line(Waiting)' /\ Idle' /\ InRounds' /\ NothingForgotten' /\ PhasesKept'
  BY <1>1 DEF Core, Idle, InRounds, NothingForgotten, PhasesKept
<1>4. TriesKept' /\ ChargesKept'
  BY <1>1 DEF Core, TriesKept, ChargesKept, tallyVars
<1>5. QED
  BY <1>2, <1>3, <1>4 DEF Core

(* To collect a batch changes nobody's place. *)
LEMMA FillKeeps ==
  ASSUME Core, Fill
  PROVE  Core'
<1>1. /\ pc = "fill" /\ pending # <<>> /\ EngineTypes /\ judged = 0
      /\ batch' = Append(batch, Head(pending)) /\ pending' = Tail(pending)
      /\ reserved' = reserved + Head(pending).size
      /\ UNCHANGED <<pc, error, lineVars, judged, tallyVars>>
  BY DEF Core, PhasesKept, Fill, CanAdd
<1>2. Questions' = Questions /\ Items' = Items /\ counts' = counts /\ \A i : Tries(i)' = Tries(i)
  BY <1>1 DEF Questions, Items, Tries, lineVars, tallyVars
<1>3. /\ pending \in Seq(Items) /\ batch \in Seq(Items) /\ Head(pending) \in Items
      /\ pending' \in Seq(Items) /\ batch' \in Seq(Items) /\ Len(batch') \in Nat
  BY <1>1, HeadTailProperties, AppendProperties, LenProperties DEF EngineTypes
<1>4. reserved' \in Nat
  <2>1. Head(pending) \in Numbers
    BY <1>1, <1>3, ItemShape
  <2>2. Head(pending).size \in Nat
    BY <2>1 DEF Numbers
  <2>3. QED
    BY <1>1, <2>2 DEF EngineTypes
<1>5. EngineTypes'
  BY <1>1, <1>2, <1>3, <1>4 DEF EngineTypes, lineVars, tallyVars
<1>6. Waiting' = Waiting
  <2>1. Waiting = Rest(batch, 0, pending) /\ Waiting' = Rest(batch', 0, pending')
    BY <1>1 DEF Waiting, Rest
  <2>2. QED
    BY <1>1, <1>3, <2>1, RestCollected
<1>7. Line(Waiting)' /\ Idle' /\ InRounds' /\ NothingForgotten' /\ PhasesKept'
  BY <1>1, <1>2, <1>6 DEF Core, Idle, InRounds, NothingForgotten, PhasesKept, tallyVars
<1>8. TriesKept' /\ ChargesKept'
  BY <1>1, <1>2, <1>6 DEF Core, TriesKept, ChargesKept, tallyVars
<1>9. QED
  BY <1>5, <1>7, <1>8 DEF Core

(* The batch is generated: its items are counted as submitted. *)
LEMMA GenerateKeeps ==
  ASSUME Core, Generate
  PROVE  Core'
<1>1. /\ pc = "fill" /\ pc' = "judge" /\ EngineTypes /\ judged = 0
      /\ submitted' = submitted + Len(batch) /\ submitted = Cardinality(tried)
      /\ UNCHANGED <<error, lineVars, pending, batchVars, answers, usage, repairs, tried>>
  BY DEF Core, PhasesKept, ChargesKept, Generate
<1>2. /\ Questions' = Questions /\ Items' = Items /\ Waiting' = Waiting /\ counts' = counts
      /\ \A i : Tries(i)' = Tries(i)
  BY <1>1 DEF Questions, Items, Waiting, Tries, lineVars, batchVars
<1>3. Len(batch) \in Nat
  BY <1>1, LenProperties DEF EngineTypes
<1>4. EngineTypes'
  BY <1>1, <1>2, <1>3 DEF EngineTypes, Phases, lineVars, batchVars
<1>5. Line(Waiting)' /\ Idle' /\ InRounds' /\ NothingForgotten' /\ PhasesKept'
  BY <1>1, <1>2 DEF Core, Idle, InRounds, NothingForgotten, PhasesKept
<1>6. TriesKept'
  BY <1>1, <1>2 DEF Core, TriesKept
<1>7. ChargesKept'
  BY <1>1, <1>2, <1>3 DEF Core, ChargesKept, EngineTypes, lineVars, batchVars
<1>8. QED
  BY <1>4, <1>5, <1>6, <1>7 DEF Core

(* Only finitely many attempts are looked at. *)
LEMMA TriesFinite ==
  ASSUME EngineTypes
  PROVE  IsFiniteSet(tried) /\ IsFiniteSet(Questions)
<1>1. IsFiniteSet(Questions)
  BY QuestionShape DEF EngineTypes
<1>2. IsFiniteSet(0..Retries)
  <2>1. 0 \in Int /\ Retries \in Int
    BY ConfigAssumption
  <2>2. QED
    BY <2>1, FS_Interval
<1>3. IsFiniteSet(Questions \X (0..Retries))
  BY <1>1, <1>2, FS_Product
<1>4. QED
  BY <1>1, <1>3, FS_Subset DEF EngineTypes

(* No attempt is charged twice: the one at the head was not looked at yet. *)
LEMMA Charging ==
  ASSUME Core, Judging, Charged, counts' = counts
  PROVE  /\ Waiting # <<>> /\ Job = Waiting[1] /\ Job \in Items
         /\ Cardinality(tried) \in Nat /\ Cardinality(tried') = Cardinality(tried) + 1
         /\ tried' = tried \cup {<<Job.q, Job.attempt>>}
         /\ tried' \subseteq Questions \X (0..Retries)
         /\ usage' \in [DOMAIN counts -> Nat]
         /\ \A i \in DOMAIN counts : usage'[i] = Cardinality(Tries(i)')
<1> DEFINE j == Job
           t == <<j.q, j.attempt>>
<1>1. /\ EngineTypes /\ pc = "judge" /\ judged < Len(batch) /\ TriesKept /\ ChargesKept
      /\ batch \in Seq(Items) /\ pending \in Seq(Items) /\ judged \in 0..Len(batch)
      /\ counts \in Workloads /\ tried \subseteq Questions \X (0..Retries)
      /\ usage \in [DOMAIN counts -> Nat]
  BY DEF Core, Judging, EngineTypes
<1>2. /\ Waiting # <<>> /\ Waiting[1] = j /\ j \in Items
      /\ Len(Waiting) \in Nat \ {0} /\ DOMAIN Waiting = 1..Len(Waiting)
  <2>1. Waiting = Rest(batch, judged, pending) /\ Waiting \in Seq(Items) /\ Len(batch) \in Nat
    BY <1>1, WaitingShape
  <2>2. Waiting # <<>> /\ Waiting[1] = j
    BY <1>1, <2>1, RestServed DEF Job
  <2>3. Len(Waiting) \in Nat \ {0} /\ DOMAIN Waiting = 1..Len(Waiting)
    BY <2>1, <2>2, EmptySeq, LenProperties
  <2>4. Waiting[1] \in Items
    BY <2>1, <2>3, ElementOfSeq
  <2>5. QED
    BY <2>2, <2>3, <2>4
<1>3. j.q \in Questions /\ j.attempt \in 0..Retries
  BY <1>2 DEF Items
<1>4. t \notin tried
  <2>1. 1 \in DOMAIN Waiting /\ j.attempt \in Nat
    BY <1>2, <1>3, ConfigAssumption
  <2>2. <<Waiting[1].q, j.attempt>> \in tried <=> j.attempt < Waiting[1].attempt
    BY <1>1, <1>3, <2>1 DEF TriesKept
  <2>3. QED
    BY <1>2, <2>1, <2>2
<1>5. IsFiniteSet(tried)
  BY <1>1, TriesFinite
<1>6. usage' = [usage EXCEPT ![j.q[1]] = @ + 1] /\ tried' = tried \cup {t}
  BY DEF Charged, Charge
<1>7. /\ Cardinality(tried') = Cardinality(tried) + 1 /\ Cardinality(tried) \in Nat
  BY <1>4, <1>5, <1>6, FS_AddElement, FS_CardinalityType
<1>8. j.q[1] \in DOMAIN counts
  BY <1>1, <1>3, QuestionShape
<1>9. tried' \subseteq Questions \X (0..Retries) /\ usage' \in [DOMAIN counts -> Nat]
  BY <1>1, <1>3, <1>6, <1>8
<1>10. ASSUME NEW i \in DOMAIN counts  PROVE usage'[i] = Cardinality(Tries(i)')
  <2>1. usage[i] = Cardinality(Tries(i)) /\ IsFiniteSet(Tries(i))
    <3>1. Tries(i) \in SUBSET tried
      BY DEF Tries
    <3>2. QED
      BY <1>1, <1>5, <3>1, FS_Subset DEF ChargesKept
  <2>2. t[1][1] = j.q[1]
    OBVIOUS
  <2>3. CASE i = j.q[1]
    <3>1. Tries(i)' = Tries(i) \cup {t} /\ t \notin Tries(i)
      BY <1>4, <1>6, <2>2, <2>3 DEF Tries
    <3>2. usage'[i] = usage[i] + 1
      BY <1>1, <1>6, <2>3
    <3>3. QED
      BY <2>1, <3>1, <3>2, FS_AddElement
  <2>4. CASE i # j.q[1]
    <3>1. Tries(i)' = Tries(i)
      BY <1>6, <2>2, <2>4 DEF Tries
    <3>2. usage'[i] = usage[i]
      BY <1>1, <1>6, <1>8, <2>4
    <3>3. QED
      BY <2>1, <3>1, <3>2
  <2>5. QED
    BY <2>3, <2>4
<1>11. QED
  BY <1>2, <1>6, <1>7, <1>9, <1>10

(* A call that raises for a completion has charged it and changes no more. *)
LEMMA RaiseKeeps ==
  ASSUME Core, Judging, Charged, pc' = "raised",
         UNCHANGED <<lineVars, pending, batchVars, answers, submitted, repairs>>
  PROVE  Core'
<1>1. counts' = counts /\ Questions' = Questions /\ Items' = Items /\ Waiting' = Waiting
  BY DEF Questions, Items, Waiting, lineVars, batchVars
<1>2. /\ tried' = tried \cup {<<Job.q, Job.attempt>>}
      /\ tried' \subseteq Questions \X (0..Retries)
      /\ usage' \in [DOMAIN counts -> Nat]
      /\ \A i \in DOMAIN counts : usage'[i] = Cardinality(Tries(i)')
  BY <1>1, Charging
<1>3. EngineTypes'
  BY <1>1, <1>2 DEF Core, EngineTypes, Phases, lineVars, batchVars
<1>4. Line(Waiting)' /\ Idle' /\ InRounds' /\ NothingForgotten' /\ PhasesKept'
  BY <1>1 DEF Core, Idle, InRounds, NothingForgotten, PhasesKept
<1>5. TriesKept' /\ ChargesKept'
  BY <1>1, <1>2 DEF Core, TriesKept, ChargesKept
<1>6. QED
  BY <1>3, <1>4, <1>5 DEF Core

(* A verified answer leaves the line. *)
LEMMA AcceptKeeps ==
  ASSUME Core, Accept
  PROVE  Core'
<1> DEFINE j == Job
<1>1. /\ pc = "judge" /\ pc' = "judge" /\ judged < Len(batch) /\ judged' = judged + 1
      /\ answers' = answers \cup {j.q} /\ Judging /\ Charged
      /\ UNCHANGED <<pc, error, lineVars, pending, batch, reserved, submitted, repairs>>
  BY DEF Accept, Judging
<1>2. /\ EngineTypes /\ Line(Waiting) /\ TriesKept /\ ChargesKept
      /\ {Waiting[n].q : n \in DOMAIN Waiting} = Questions \ answers
  BY <1>1 DEF Core, NothingForgotten
<1>3. counts' = counts /\ Questions' = Questions /\ Items' = Items
  BY <1>1 DEF Questions, Items, lineVars
<1>4. /\ Waiting # <<>> /\ j = Waiting[1] /\ j \in Items
      /\ Cardinality(tried) \in Nat /\ Cardinality(tried') = Cardinality(tried) + 1
      /\ tried' = tried \cup {<<j.q, j.attempt>>}
      /\ tried' \subseteq Questions \X (0..Retries)
      /\ usage' \in [DOMAIN counts -> Nat]
      /\ \A i \in DOMAIN counts : usage'[i] = Cardinality(Tries(i)')
  BY <1>1, <1>3, Charging
<1>5. /\ Waiting = Rest(batch, judged, pending) /\ Waiting \in Seq(Numbers)
      /\ Len(Waiting) = Len(batch) - judged + Len(pending)
      /\ Len(batch) \in Nat /\ Len(pending) \in Nat /\ judged \in Nat
  BY <1>2, WaitingShape
<1>6. Waiting' = Tail(Waiting)
  <2>1. Waiting' = Rest(batch, judged + 1, pending)
    BY <1>1 DEF Waiting, Rest
  <2>2. QED
    BY <1>1, <1>2, <1>5, <2>1, RestServed DEF EngineTypes
<1> HIDE DEF j
<1>7. /\ Len(Waiting') = Len(Waiting) - 1 /\ Line(Waiting')
      /\ Asked(Waiting') = Asked(Waiting) \ {j.q}
      /\ \A n \in DOMAIN Waiting' : \E m \in DOMAIN Waiting : m # 1 /\ Waiting'[n] = Waiting[m]
  BY <1>2, <1>4, <1>5, <1>6, ServedLine
<1>8. /\ j.q \in Questions /\ j.attempt \in 0..Retries /\ Retries \in Nat
      /\ 1 \in DOMAIN Waiting
  <2>1. 1 \in DOMAIN Waiting
    BY <1>4, <1>5, EmptySeq, LenProperties
  <2>2. QED
    BY <1>4, <2>1, ConfigAssumption DEF Items
<1>9. EngineTypes'
  BY <1>1, <1>2, <1>3, <1>4, <1>5, <1>8 DEF EngineTypes, lineVars
<1>10. NothingForgotten'
  <2>1. Asked(Waiting') = Questions' \ answers'
    BY <1>1, <1>2, <1>3, <1>7 DEF Asked
  <2>2. QED
    BY <1>7, <2>1 DEF NothingForgotten, Asked, Line, Once
<1>11. Line(Waiting)' /\ Idle' /\ InRounds' /\ PhasesKept'
  BY <1>1, <1>7 DEF Idle, InRounds, PhasesKept
<1>12. TriesKept'
  <2>1. ASSUME NEW q \in answers'  PROVE <<q, 0>> \in tried'
    <3>1. CASE q \in answers
      BY <1>2, <1>4, <3>1 DEF TriesKept
    <3>2. CASE q = j.q
      <4>1. CASE j.attempt = 0
        BY <1>4, <3>2, <4>1
      <4>2. CASE j.attempt # 0
        <5>1. 0 < j.attempt /\ 0 \in 0..Retries
          BY <1>8, <4>2
        <5>2. <<j.q, 0>> \in tried
          BY <1>1, <1>2, <1>4, <1>8, <5>1 DEF TriesKept
        <5>3. QED
          BY <1>4, <3>2, <5>2
      <4>3. QED
        BY <4>1, <4>2
    <3>3. QED
      BY <1>1, <3>1, <3>2
  <2>2. ASSUME NEW n \in DOMAIN Waiting', NEW k \in 0..Retries
        PROVE  <<Waiting'[n].q, k>> \in tried' <=> k < Waiting'[n].attempt
    <3>1. PICK m \in DOMAIN Waiting : m # 1 /\ Waiting'[n] = Waiting[m]
      BY <1>7
    <3>2. Waiting[m].q # j.q
      BY <1>2, <1>4, <1>8, <3>1 DEF Line, Once
    <3>3. <<Waiting[m].q, k>> \in tried <=> k < Waiting[m].attempt
      BY <1>1, <1>2 DEF TriesKept
    <3>4. QED
      BY <1>4, <3>1, <3>2, <3>3
  <2>3. QED
    BY <1>3, <2>1, <2>2 DEF TriesKept
<1>13. ChargesKept'
  <2>1. submitted' = Cardinality(tried') + Len(batch') - judged'
    BY <1>1, <1>2, <1>4, <1>5 DEF ChargesKept
  <2>2. Len(Waiting') + Cardinality(tried') = Cardinality(Questions') + repairs'
    BY <1>1, <1>2, <1>3, <1>4, <1>5, <1>7 DEF ChargesKept
  <2>3. QED
    BY <1>1, <1>3, <1>4, <2>1, <2>2 DEF ChargesKept
<1>14. QED
  BY <1>9, <1>10, <1>11, <1>12, <1>13 DEF Core

(* A repair goes to the end of the line, for its next attempt. *)
LEMMA RepairKeeps ==
  ASSUME Core, Repair
  PROVE  Core'
<1> DEFINE j == Job
<1>1. PICK size \in Sizes : Fits(size) /\ pending' = Append(pending, Item(j.q, size, j.attempt + 1))
  BY DEF Repair, Requeue
<1> DEFINE e == Item(j.q, size, j.attempt + 1)
<1>2. /\ pc = "judge" /\ pc' = "judge" /\ judged < Len(batch) /\ judged' = judged + 1
      /\ j.attempt < Retries /\ repairs' = repairs + 1 /\ Judging /\ Charged
      /\ UNCHANGED <<pc, error, lineVars, batch, reserved, answers, submitted>>
  BY DEF Repair, Judging, MayRetry
<1>3. /\ EngineTypes /\ Line(Waiting) /\ TriesKept /\ ChargesKept
      /\ {Waiting[n].q : n \in DOMAIN Waiting} = Questions \ answers
  BY <1>2 DEF Core, NothingForgotten
<1>4. counts' = counts /\ Questions' = Questions /\ Items' = Items
  BY <1>2 DEF Questions, Items, lineVars
<1>5. /\ Waiting # <<>> /\ j = Waiting[1] /\ j \in Items
      /\ Cardinality(tried) \in Nat /\ Cardinality(tried') = Cardinality(tried) + 1
      /\ tried' = tried \cup {<<j.q, j.attempt>>}
      /\ tried' \subseteq Questions \X (0..Retries)
      /\ usage' \in [DOMAIN counts -> Nat]
      /\ \A i \in DOMAIN counts : usage'[i] = Cardinality(Tries(i)')
  BY <1>2, <1>4, Charging
<1>6. /\ Waiting = Rest(batch, judged, pending) /\ Waiting \in Seq(Numbers)
      /\ Len(Waiting) = Len(batch) - judged + Len(pending)
      /\ Len(batch) \in Nat /\ Len(pending) \in Nat /\ judged \in Nat
  BY <1>3, WaitingShape
<1> HIDE DEF j
<1>7. /\ j.q \in Questions /\ j.attempt \in 0..Retries /\ Retries \in Nat
      /\ 1 \in DOMAIN Waiting /\ j.attempt + 1 \in 0..Retries
  <2>1. 1 \in DOMAIN Waiting
    BY <1>5, <1>6, EmptySeq, LenProperties
  <2>2. QED
    BY <1>2, <1>5, <2>1, ConfigAssumption DEF Items
<1>8. /\ e \in Items /\ e \in Numbers /\ e.q = j.q /\ e.attempt = j.attempt + 1
      /\ pending' = Append(pending, e)
  BY <1>1, <1>3, <1>7, ItemShape DEF Tokens
<1> HIDE DEF e
<1>9. Waiting' = Append(Tail(Waiting), e)
  <2>1. Waiting' = Rest(batch, judged + 1, Append(pending, e))
    BY <1>2, <1>8 DEF Waiting, Rest
  <2>2. /\ batch \in Seq(Items) /\ pending \in Seq(Items) /\ judged \in 0..Len(batch)
        /\ judged + 1 \in 0..Len(batch)
    BY <1>2, <1>3, <1>6 DEF EngineTypes
  <2>3. Rest(batch, judged + 1, pending) = Tail(Waiting)
    BY <1>2, <1>6, <2>2, RestServed
  <2> DEFINE k == judged + 1
  <2>4. k \in 0..Len(batch) /\ e \in Items
    BY <1>8, <2>2
  <2> HIDE DEF k
  <2>5. Rest(batch, k, Append(pending, e)) = Append(Rest(batch, k, pending), e)
    BY <2>2, <2>4, RestJoined
  <2>6. QED
    BY <2>1, <2>3, <2>5 DEF k
<1>10. /\ Len(Waiting') = Len(Waiting) /\ Line(Waiting') /\ Asked(Waiting') = Asked(Waiting)
       /\ \A n \in DOMAIN Waiting' :
            Waiting'[n] = e \/ \E m \in DOMAIN Waiting : m # 1 /\ Waiting'[n] = Waiting[m]
  BY <1>3, <1>5, <1>6, <1>8, <1>9, RequeuedLine
<1>11. EngineTypes'
  <2>1. pending' \in Seq(Items)
    BY <1>3, <1>8, AppendProperties DEF EngineTypes
  <2>2. QED
    BY <1>2, <1>3, <1>4, <1>5, <1>6, <2>1 DEF EngineTypes, lineVars
<1>12. NothingForgotten'
  <2>1. Asked(Waiting') = Questions' \ answers'
    BY <1>2, <1>3, <1>4, <1>10 DEF Asked
  <2>2. QED
    BY <1>10, <2>1 DEF NothingForgotten, Asked, Line, Once
<1>13. Line(Waiting)' /\ Idle' /\ InRounds' /\ PhasesKept'
  BY <1>2, <1>10 DEF Idle, InRounds, PhasesKept
<1>14. TriesKept'
  <2>1. \A q \in answers' : <<q, 0>> \in tried'
    BY <1>2, <1>3, <1>5 DEF TriesKept
  <2>2. ASSUME NEW n \in DOMAIN Waiting', NEW k \in 0..Retries
        PROVE  <<Waiting'[n].q, k>> \in tried' <=> k < Waiting'[n].attempt
    <3>1. CASE Waiting'[n] = e
      <4>1. <<j.q, k>> \in tried <=> k < j.attempt
        BY <1>2, <1>3, <1>5, <1>7 DEF TriesKept
      <4>2. k < j.attempt + 1 <=> (k < j.attempt \/ k = j.attempt)
        BY <1>7
      <4>3. QED
        BY <1>5, <1>8, <3>1, <4>1, <4>2
    <3>2. CASE \E m \in DOMAIN Waiting : m # 1 /\ Waiting'[n] = Waiting[m]
      <4>1. PICK m \in DOMAIN Waiting : m # 1 /\ Waiting'[n] = Waiting[m]
        BY <3>2
      <4>2. Waiting[m].q # j.q
        BY <1>3, <1>5, <1>7, <4>1 DEF Line, Once
      <4>3. <<Waiting[m].q, k>> \in tried <=> k < Waiting[m].attempt
        BY <1>2, <1>3 DEF TriesKept
      <4>4. QED
        BY <1>5, <4>1, <4>2, <4>3
    <3>3. QED
      BY <1>10, <3>1, <3>2
  <2>3. QED
    BY <1>4, <2>1, <2>2 DEF TriesKept
<1>15. ChargesKept'
  <2>1. submitted' = Cardinality(tried') + Len(batch') - judged'
    BY <1>2, <1>3, <1>5, <1>6 DEF ChargesKept
  <2>2. Len(Waiting') + Cardinality(tried') = Cardinality(Questions') + repairs'
    <3>1. Len(Waiting) + Cardinality(tried) = Cardinality(Questions) + repairs
      BY <1>2, <1>3 DEF ChargesKept
    <3>2. Cardinality(Questions) \in Nat /\ repairs \in Nat
      BY <1>3, TriesFinite, FS_CardinalityType DEF EngineTypes
    <3>3. /\ Len(Waiting') = Len(Waiting) /\ Cardinality(tried') = Cardinality(tried) + 1
          /\ Cardinality(Questions') = Cardinality(Questions) /\ repairs' = repairs + 1
      BY <1>2, <1>4, <1>5, <1>10
    <3>4. Len(Waiting) \in Nat /\ Cardinality(tried) \in Nat
      BY <1>5, <1>6, LenProperties
    <3>5. QED
      BY <3>1, <3>2, <3>3, <3>4
  <2>3. QED
    BY <1>2, <1>4, <1>5, <2>1, <2>2 DEF ChargesKept
<1>16. QED
  BY <1>11, <1>12, <1>13, <1>14, <1>15 DEF Core

(* The next batch is collected from the deque alone. *)
LEMMA NextBatchKeeps ==
  ASSUME Core, NextBatch
  PROVE  Core'
<1>1. /\ pc = "judge" /\ pc' = "fill" /\ judged = Len(batch) /\ EngineTypes
      /\ batch' = <<>> /\ reserved' = 0 /\ judged' = 0
      /\ UNCHANGED <<error, lineVars, pending, tallyVars>>
  BY DEF Core, NextBatch
<1>2. Questions' = Questions /\ Items' = Items /\ counts' = counts /\ \A i : Tries(i)' = Tries(i)
  BY <1>1 DEF Questions, Items, Tries, lineVars, tallyVars
<1>3. /\ batch \in Seq(Items) /\ pending \in Seq(Items) /\ Len(batch) \in Nat
      /\ <<>> \in Seq(Items) /\ Len(<<>>) = 0
  BY <1>1, LenProperties, EmptySeq DEF EngineTypes
<1>4. Waiting' = Waiting
  <2>1. SubSeq(batch, Len(batch) + 1, Len(batch)) = <<>> /\ SubSeq(<<>>, 0 + 1, Len(<<>>)) = <<>>
    BY <1>3, SubSeqEmpty
  <2>2. Waiting = <<>> \o pending
    BY <1>1, <2>1 DEF Waiting
  <2>3. Waiting' = <<>> \o pending
    BY <1>1, <2>1 DEF Waiting
  <2>4. QED
    BY <2>2, <2>3
<1>5. EngineTypes'
  BY <1>1, <1>2, <1>3 DEF EngineTypes, Phases, lineVars, tallyVars
<1>6. Line(Waiting)' /\ Idle' /\ InRounds' /\ NothingForgotten' /\ PhasesKept'
  BY <1>1, <1>2, <1>4 DEF Core, Idle, InRounds, NothingForgotten, PhasesKept, tallyVars
<1>7. TriesKept'
  BY <1>1, <1>2, <1>4 DEF Core, TriesKept, tallyVars
<1>8. ChargesKept'
  <2>1. submitted = Cardinality(tried)
    <3>1. Cardinality(tried) \in Nat
      BY <1>1, TriesFinite, FS_CardinalityType
    <3>2. QED
      BY <1>1, <1>3, <3>1 DEF Core, ChargesKept
  <2>2. QED
    BY <1>1, <1>2, <1>4, <2>1 DEF Core, ChargesKept, tallyVars
<1>9. QED
  BY <1>5, <1>6, <1>7, <1>8 DEF Core

(* A call returns when nobody waits: every question has its answer. *)
LEMMA ReturnKeeps ==
  ASSUME Core, Return
  PROVE  Core'
<1>1. /\ pc = "fill" /\ pc' = "returned" /\ pending = <<>> /\ batch = <<>> /\ judged = 0
      /\ EngineTypes /\ answers \subseteq Questions
      /\ UNCHANGED <<error, lineVars, pending, batchVars, tallyVars>>
  BY DEF Core, PhasesKept, EngineTypes, Return
<1>2. /\ Questions' = Questions /\ Items' = Items /\ Waiting' = Waiting /\ counts' = counts
      /\ \A i : Tries(i)' = Tries(i)
  BY <1>1 DEF Questions, Items, Waiting, Tries, lineVars, batchVars, tallyVars
<1>3. Waiting = <<>>
  BY <1>1, FreshWaiting DEF EngineTypes
<1>4. answers = Questions
  <2>1. Questions \ answers = Asked(Waiting)
    BY <1>1 DEF Core, NothingForgotten, Asked
  <2>2. Questions \ answers = {}
    BY <1>3, <2>1, EmptyLine
  <2>3. QED
    BY <1>1, <2>2
<1>5. EngineTypes'
  BY <1>1, <1>2 DEF EngineTypes, Phases, lineVars, batchVars, tallyVars
<1>6. Line(Waiting)' /\ Idle' /\ InRounds' /\ NothingForgotten' /\ PhasesKept'
  BY <1>1, <1>2, <1>3, <1>4 DEF Core, Idle, InRounds, NothingForgotten, PhasesKept, tallyVars
<1>7. TriesKept' /\ ChargesKept'
  BY <1>1, <1>2 DEF Core, TriesKept, ChargesKept, tallyVars
<1>8. QED
  BY <1>5, <1>6, <1>7 DEF Core

(* No step of a call upsets the line or the tallies. *)
LEMMA CoreStep == Core /\ [Next]_vars => Core'
<1> SUFFICES ASSUME Core, [Next]_vars  PROVE Core'
  OBVIOUS
<1>1. ASSUME Refuse  PROVE Core'
  BY <1>1, StopKeeps DEF Refuse, Raise
<1>2. ASSUME Compile  PROVE Core'
  <2>1. CASE pc' = "interleave"
    BY <1>2, <2>1, CompileKeeps
  <2>2. CASE pc' # "interleave"
    <3>1. pc' = "raised" /\ UNCHANGED <<lineVars, pending, batchVars, tallyVars>>
      BY <1>2, <2>2 DEF Compile, Raise, lineVars
    <3>2. QED
      BY <3>1, StopKeeps
  <2>3. QED
    BY <2>1, <2>2
<1>3. ASSUME TakeTurn  PROVE Core'
  BY <1>3, TurnPassed, TurnTaken
<1>4. ASSUME Interleaved  PROVE Core'
  BY <1>4, InterleavedKeeps
<1>5. ASSUME Fill  PROVE Core'
  BY <1>5, FillKeeps
<1>6. ASSUME Generate  PROVE Core'
  BY <1>6, GenerateKeeps
<1>7. ASSUME GenerateFails  PROVE Core'
  BY <1>7, StopKeeps DEF GenerateFails, Raise
<1>8. ASSUME Accept  PROVE Core'
  BY <1>8, AcceptKeeps
<1>9. ASSUME Repair  PROVE Core'
  BY <1>9, RepairKeeps
<1>10. ASSUME RepairOversized  PROVE Core'
  BY <1>10, RaiseKeeps DEF RepairOversized, Raise
<1>11. ASSUME Exhaust  PROVE Core'
  BY <1>11, RaiseKeeps DEF Exhaust, Raise
<1>12. ASSUME NextBatch  PROVE Core'
  BY <1>12, NextBatchKeeps
<1>13. ASSUME Return  PROVE Core'
  BY <1>13, ReturnKeeps
<1>14. ASSUME UNCHANGED vars  PROVE Core'
  <2>1. /\ Questions' = Questions /\ Items' = Items /\ Waiting' = Waiting
        /\ \A i : Tries(i)' = Tries(i) /\ Taken(i)' = Taken(i)
    BY <1>14 DEF vars, Questions, Items, Waiting, Tries, Taken
  <2>2. EngineTypes' /\ Idle' /\ Line(Waiting)' /\ NothingForgotten' /\ PhasesKept'
    BY <1>14, <2>1 DEF vars, Core, EngineTypes, Idle, Fresh, NothingForgotten, PhasesKept
  <2>3. InRounds'
    BY <1>14, <2>1 DEF vars, Core, InRounds, Fresh, Rounds
  <2>4. TriesKept' /\ ChargesKept'
    BY <1>14, <2>1 DEF vars, Core, TriesKept, ChargesKept
  <2>5. QED
    BY <2>2, <2>3, <2>4 DEF Core
<1>15. QED
  BY <1>1, <1>2, <1>3, <1>4, <1>5, <1>6, <1>7, <1>8, <1>9, <1>10, <1>11, <1>12, <1>13, <1>14
     DEF Next, Judge, Ended

-----------------------------------------------------------------------------
(* Budgets. *)

(* One more item brings the running totals to its size more.               *)
LEMMA LongerTotal ==
  ASSUME NEW b \in Seq(Items), NEW n \in Nat, AddUpTo(b, n), NEW e \in Items, e.size \in Nat
  PROVE  AddUpTo(Append(b, e), n + e.size)
<1> DEFINE l == Len(b)
           c == Append(b, e)
           m == n + e.size
<1>1. /\ l \in Nat /\ DOMAIN b = 1..l /\ Len(c) = l + 1 /\ DOMAIN c = 1..l+1
      /\ c[l+1] = e /\ \A k \in 1..l : c[k] = b[k]
  BY LenProperties, AppendProperties
<1> HIDE DEF c, l
<1>2. PICK total \in [0..l -> 0..n] :
        /\ total[0] = 0 /\ total[l] = n
        /\ \A k \in DOMAIN b : total[k] = total[k-1] + b[k].size
  BY DEF AddUpTo, l
<1>3. m \in Nat /\ n <= m
  OBVIOUS
<1> DEFINE longer == [k \in 0..l+1 |-> IF k = l + 1 THEN m ELSE total[k]]
<1>4. /\ longer \in [0..l+1 -> 0..m] /\ longer[0] = 0 /\ longer[l+1] = m /\ longer[l] = n
      /\ \A k \in 0..l : longer[k] = total[k]
  BY <1>1, <1>2, <1>3
<1> HIDE DEF longer
<1>5. ASSUME NEW k \in DOMAIN c  PROVE longer[k] = longer[k-1] + c[k].size
  <2>1. CASE k = l + 1
    <3>1. k - 1 = l
      BY <1>1, <2>1
    <3>2. QED
      BY <1>1, <1>4, <2>1, <3>1
  <2>2. CASE k # l + 1
    <3>1. k \in 1..l /\ k \in 0..l /\ k - 1 \in 0..l
      BY <1>1, <2>2
    <3>2. QED
      BY <1>1, <1>2, <1>4, <3>1
  <2>3. QED
    BY <2>1, <2>2
<1>6. AddUpTo(c, m)
  BY <1>1, <1>4, <1>5 DEF AddUpTo
<1>7. QED
  BY <1>6 DEF c

(* An empty batch comes to nothing. *)
LEMMA NoTotal ==
  ASSUME NEW n \in Nat, AddUpTo(<<>>, n)
  PROVE  n = 0
BY EmptySeq DEF AddUpTo

(* The code stops collecting before a budget is passed, and never with an  *)
(* empty batch: an item that was compiled fits a batch of its own.         *)
LEMMA BudgetStep == Core /\ BatchWithinBudgets /\ [Next]_vars => BatchWithinBudgets'
<1> SUFFICES ASSUME Core, BatchWithinBudgets, [Next]_vars  PROVE BatchWithinBudgets'
  OBVIOUS
<1>1. EngineTypes /\ PhasesKept
  BY DEF Core
<1>2. /\ batch \in Seq(Items) /\ pending \in Seq(Items) /\ reserved \in Nat
      /\ Len(batch) \in Nat
  BY <1>1, LenProperties DEF EngineTypes
<1>3. /\ MaxBatchQuestions \in Nat \ {0} /\ MaxBatchTokens \in Nat \ {0}
      /\ Sizes \subseteq Nat \ {0}
  BY ConfigAssumption, WorkAssumption
<1>4. /\ AddUpTo(batch, reserved) /\ reserved <= MaxBatchTokens
      /\ Len(batch) <= MaxBatchQuestions
      /\ pc = "judge" => batch # <<>>
  BY DEF BatchWithinBudgets
<1>5. ASSUME pending # <<>>
      PROVE  Head(pending) \in Items /\ Head(pending).size \in Nat
             /\ Head(pending).size <= MaxBatchTokens
  <2>1. Head(pending) \in Items
    BY <1>2, <1>5, HeadTailProperties
  <2>2. Head(pending).size \in Tokens
    BY <2>1 DEF Items
  <2>3. QED
    BY <1>3, <2>1, <2>2 DEF Tokens, Fits
<1>6. ASSUME UNCHANGED <<batch, reserved>>, pc' = "judge" => pc = "judge"
      PROVE  BatchWithinBudgets'
  BY <1>4, <1>6 DEF BatchWithinBudgets
<1>7. ASSUME Fill  PROVE BatchWithinBudgets'
  <2>1. /\ pc = "fill" /\ pc' = "fill" /\ pending # <<>> /\ Len(batch) < MaxBatchQuestions
        /\ reserved + Head(pending).size <= MaxBatchTokens
        /\ batch' = Append(batch, Head(pending)) /\ reserved' = reserved + Head(pending).size
    BY <1>7 DEF Fill, CanAdd, FitsBudget
  <2>2. AddUpTo(batch', reserved')
    BY <1>2, <1>4, <1>5, <2>1, LongerTotal
  <2>3. Len(batch') = Len(batch) + 1
    BY <1>2, <1>5, <2>1, AppendProperties
  <2>4. QED
    BY <1>2, <1>3, <2>1, <2>2, <2>3 DEF BatchWithinBudgets
<1>8. ASSUME Generate  PROVE BatchWithinBudgets'
  <2>1. UNCHANGED <<batch, reserved>> /\ ~CanAdd /\ (batch # <<>> \/ pending # <<>>)
    BY <1>8 DEF Generate, batchVars
  <2>2. batch # <<>>
    <3>1. ASSUME batch = <<>>  PROVE CanAdd
      <4>1. reserved = 0 /\ Len(batch) = 0
        BY <1>2, <1>4, <3>1, NoTotal, EmptySeq
      <4>2. pending # <<>>
        BY <2>1, <3>1
      <4>3. QED
        BY <1>3, <1>5, <4>1, <4>2 DEF CanAdd, FitsBudget
    <3>2. QED
      BY <2>1, <3>1
  <2>3. QED
    BY <1>4, <2>1, <2>2 DEF BatchWithinBudgets
<1>9. ASSUME NextBatch  PROVE BatchWithinBudgets'
  <2>1. batch' = <<>> /\ reserved' = 0 /\ pc' = "fill"
    BY <1>9 DEF NextBatch
  <2>2. AddUpTo(<<>>, 0)
    <3> DEFINE total == [k \in 0..Len(<<>>) |-> 0]
    <3>1. Len(<<>>) = 0 /\ DOMAIN <<>> = {}
      BY EmptySeq
    <3>2. total \in [0..Len(<<>>) -> 0..0] /\ total[0] = 0 /\ total[Len(<<>>)] = 0
      BY <3>1
    <3> HIDE DEF total
    <3>3. QED
      BY <3>1, <3>2 DEF AddUpTo
  <2>3. QED
    BY <1>3, <2>1, <2>2, EmptySeq DEF BatchWithinBudgets
<1>10. ASSUME \/ Refuse \/ Compile \/ TakeTurn \/ Interleaved \/ GenerateFails \/ Judge
              \/ Return \/ UNCHANGED vars
       PROVE  BatchWithinBudgets'
  <2>1. ASSUME Refuse \/ Compile  PROVE BatchWithinBudgets'
    BY <1>6, <2>1 DEF Refuse, Compile, Raise, batchVars
  <2>2. ASSUME TakeTurn \/ Interleaved  PROVE BatchWithinBudgets'
    BY <1>6, <2>2 DEF TakeTurn, Interleaved, batchVars
  <2>3. ASSUME GenerateFails \/ Return  PROVE BatchWithinBudgets'
    BY <1>6, <2>3 DEF GenerateFails, Return, Raise, batchVars
  <2>4. ASSUME Judge  PROVE BatchWithinBudgets'
    <3>1. UNCHANGED <<batch, reserved>> /\ pc = "judge"
      BY <2>4 DEF Judge, Accept, Repair, RepairOversized, Exhaust, Judging, batchVars
    <3>2. QED
      BY <1>6, <3>1
  <2>5. ASSUME UNCHANGED vars  PROVE BatchWithinBudgets'
    BY <1>6, <2>5 DEF vars
  <2>6. QED
    BY <1>10, <2>1, <2>2, <2>3, <2>4, <2>5
<1>11. QED
  BY <1>7, <1>8, <1>9, <1>10 DEF Next, Ended

-----------------------------------------------------------------------------
(* What a call guarantees. *)

(* The inductive invariant holds throughout every call. *)
THEOREM CallInvariance == Spec => []CallInv
<1>1. Init => CallInv
  BY EngineInit
<1>2. CallInv /\ [Next]_vars => CallInv'
  <2>1. CallInv <=> Core /\ BatchWithinBudgets
    BY DEF CallInv, Core
  <2>2. Core' /\ BatchWithinBudgets' => CallInv'
    BY DEF CallInv, Core
  <2>3. QED
    BY <2>1, <2>2, CoreStep, BudgetStep
<1>3. QED
  BY <1>1, <1>2, PTL DEF Spec

(* "No request owns the whole initial queue" (core.py:140): whatever the   *)
(* batches and the repairs, what waits is ordered by attempt, then by      *)
(* place in its request, then by request.                                  *)
THEOREM TurnsKept == Spec => []InTurn
<1>1. CallInv => InTurn
  BY DEF CallInv, Line, Sorted, InTurn
<1>2. QED
  BY <1>1, CallInvariance, PTL

(* No question is lost between deque, batch and repairs, and none is there *)
(* twice.                                                                  *)
THEOREM QuestionsKept == Spec => []NothingForgotten
<1>1. CallInv => NothingForgotten
  BY DEF CallInv
<1>2. QED
  BY <1>1, CallInvariance, PTL

(* Every batch the runtime sees is within both budgets and not empty.      *)
THEOREM BudgetsKept == Spec => []BatchWithinBudgets
<1>1. CallInv => BatchWithinBudgets
  BY DEF CallInv
<1>2. QED
  BY <1>1, CallInvariance, PTL

(* A call that returns has every answer, stayed within the retries, and    *)
(* charged each completion once to the request that caused it.             *)
THEOREM ReturnsComplete == Spec => []ReturnsEverything
<1>1. ASSUME CallInv  PROVE ReturnsEverything
  <2>1. SUFFICES ASSUME pc = "returned"
        PROVE  /\ answers = Questions
               /\ tried \subseteq Questions \X (0..Retries) /\ Questions \X {0} \subseteq tried
               /\ Cardinality(tried) = submitted
               /\ submitted = Cardinality(Questions) + repairs
               /\ \A i \in DOMAIN counts : usage[i] = Cardinality(Tries(i))
    BY DEF ReturnsEverything
  <2>2. /\ answers = Questions /\ Waiting = <<>> /\ EngineTypes /\ TriesKept /\ ChargesKept
        /\ tried \subseteq Questions \X (0..Retries)
    BY <1>1, <2>1 DEF CallInv, PhasesKept, EngineTypes
  <2>3. Questions \X {0} \subseteq tried
    BY <2>2 DEF TriesKept
  <2>4. Cardinality(tried) = submitted
    BY <2>1, <2>2 DEF ChargesKept
  <2>5. submitted = Cardinality(Questions) + repairs
    <3>1. Len(Waiting) = 0 /\ Cardinality(tried) \in Nat
      BY <2>2, EmptySeq, TriesFinite, FS_CardinalityType
    <3>2. QED
      BY <2>1, <2>2, <2>4, <3>1 DEF ChargesKept
  <2>6. \A i \in DOMAIN counts : usage[i] = Cardinality(Tries(i))
    BY <2>2 DEF ChargesKept
  <2>7. QED
    BY <2>2, <2>3, <2>4, <2>5, <2>6
<1>2. QED
  BY <1>1, CallInvariance, PTL
=============================================================================
