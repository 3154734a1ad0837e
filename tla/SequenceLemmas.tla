-------------------------- MODULE SequenceLemmas ---------------------------
(***************************************************************************)
(* What the proofs need to know of the queues of the models: how their     *)
(* sets of elements, their order and their lengths follow what is appended *)
(* to them, taken from their heads and removed from their middles.         *)
(***************************************************************************)
EXTENDS Integers, Sequences, FiniteSets, SequencesExt,
        SequenceTheorems, FiniteSetTheorems, WellFoundedInduction, TLAPS

-----------------------------------------------------------------------------
(* Sequences and the sets of their elements. *)

(* What a concatenation contains: the elements of both parts.              *)
LEMMA ConcatSet ==
  ASSUME NEW S, NEW s \in Seq(S), NEW t \in Seq(S)
  PROVE  ToSet(s \o t) = ToSet(s) \cup ToSet(t)
<1>1. Len(s \o t) = Len(s) + Len(t) /\ Len(s) \in Nat /\ Len(t) \in Nat
  BY ConcatProperties, LenProperties
<1>2. \A i \in 1..Len(s) : (s \o t)[i] = s[i]
  BY <1>1, ConcatProperties
<1>3. \A i \in 1..Len(t) : (s \o t)[Len(s) + i] = t[i]
  BY <1>1, ConcatProperties
<1>4. DOMAIN (s \o t) = 1..(Len(s)+Len(t)) /\ DOMAIN s = 1..Len(s) /\ DOMAIN t = 1..Len(t)
  BY <1>1, ConcatProperties, LenProperties
<1>5. ASSUME NEW x \in ToSet(s \o t)  PROVE x \in ToSet(s) \cup ToSet(t)
  <2>1. PICK i \in 1..(Len(s)+Len(t)) : x = (s \o t)[i]
    BY <1>4, <1>5 DEF ToSet
  <2>2. CASE i \in 1..Len(s)
    BY <1>2, <1>4, <2>1, <2>2 DEF ToSet
  <2>3. CASE i \notin 1..Len(s)
    <3>1. i - Len(s) \in 1..Len(t) /\ Len(s) + (i - Len(s)) = i
      BY <1>1, <2>1, <2>3
    <3>2. x = t[i - Len(s)]
      BY <1>3, <2>1, <3>1
    <3>3. QED
      BY <1>4, <3>1, <3>2 DEF ToSet
  <2>4. QED
    BY <2>2, <2>3
<1>6. ASSUME NEW x \in ToSet(s) \cup ToSet(t)  PROVE x \in ToSet(s \o t)
  <2>1. CASE x \in ToSet(s)
    <3>1. PICK i \in 1..Len(s) : x = s[i]
      BY <1>4, <2>1 DEF ToSet
    <3>2. i \in 1..(Len(s)+Len(t))
      BY <1>1
    <3>3. QED
      BY <1>2, <1>4, <3>1, <3>2 DEF ToSet
  <2>2. CASE x \in ToSet(t)
    <3>1. PICK i \in 1..Len(t) : x = t[i]
      BY <1>4, <2>2 DEF ToSet
    <3>2. Len(s) + i \in 1..(Len(s)+Len(t))
      BY <1>1
    <3>3. QED
      BY <1>3, <1>4, <3>1, <3>2 DEF ToSet
  <2>3. QED
    BY <1>6, <2>1, <2>2
<1>7. QED
  BY <1>5, <1>6

(* What a queue contains after an append: one element more.                *)
LEMMA AppendSet ==
  ASSUME NEW S, NEW s \in Seq(S), NEW e \in S
  PROVE  ToSet(Append(s, e)) = ToSet(s) \cup {e}
<1>1. Append(s, e) = s \o <<e>> /\ <<e>> \in Seq(S)
  BY AppendIsConcat
<1>2. ToSet(<<e>>) = {e}
  BY DEF ToSet
<1>3. ToSet(s \o <<e>>) = ToSet(s) \cup ToSet(<<e>>)
  BY <1>1, ConcatSet
<1>4. QED
  BY <1>1, <1>2, <1>3

(* An empty queue contains nothing.                                        *)
LEMMA EmptySet == ToSet(<<>>) = {}
BY DEF ToSet

(* The elements of a queue, by their places.                               *)
LEMMA SetOfSeq ==
  ASSUME NEW S, NEW s \in Seq(S)
  PROVE  ToSet(s) \subseteq S
BY LenProperties, ElementOfSeq DEF ToSet

(* Splitting a sequence in two loses nothing. *)
LEMMA Split ==
  ASSUME NEW S, NEW s \in Seq(S), NEW k \in 0..Len(s)
  PROVE  /\ SubSeq(s, 1, k) \in Seq(S) /\ SubSeq(s, k+1, Len(s)) \in Seq(S)
         /\ SubSeq(s, 1, k) \o SubSeq(s, k+1, Len(s)) = s
<1>1. Len(s) \in Nat /\ s \in [1..Len(s) -> S]
  BY LenProperties
<1>2. /\ \A i \in 1..k : s[i] \in S
      /\ \A i \in k+1..Len(s) : s[i] \in S
  BY <1>1
<1>3. SubSeq(s, 1, k) \in Seq(S) /\ SubSeq(s, k+1, Len(s)) \in Seq(S)
  BY <1>1, <1>2, SubSeqProperties
<1>4. SubSeq(s, 1, k) \o SubSeq(s, k+1, Len(s)) = SubSeq(s, 1, Len(s))
  <2>1. 1 \in 1..Len(s)+1 /\ k \in 1-1..Len(s) /\ Len(s) \in k..Len(s)
    BY <1>1
  <2>2. QED
    BY <2>1, ConcatAdjacentSubSeq
<1>5. QED
  BY <1>3, <1>4, SubSeqFull
(* Concatenation is associative. *)
LEMMA Associative ==
  ASSUME NEW S, NEW s \in Seq(S), NEW t \in Seq(S), NEW u \in Seq(S)
  PROVE  (s \o t) \o u = s \o (t \o u)
<1> DEFINE st == s \o t
           tu == t \o u
           l  == st \o u
           r  == s \o tu
<1>1. /\ st \in Seq(S) /\ Len(st) = Len(s) + Len(t)
      /\ \A i \in 1..Len(s) : st[i] = s[i]
      /\ \A i \in 1..Len(t) : st[Len(s) + i] = t[i]
  BY ConcatProperties, LenProperties
<1>2. /\ tu \in Seq(S) /\ Len(tu) = Len(t) + Len(u)
      /\ \A i \in 1..Len(t) : tu[i] = t[i]
      /\ \A i \in 1..Len(u) : tu[Len(t) + i] = u[i]
  BY ConcatProperties, LenProperties
<1>3. Len(s) \in Nat /\ Len(t) \in Nat /\ Len(u) \in Nat
  BY LenProperties
<1> HIDE DEF st, tu
<1>0. st \in Seq(S) /\ tu \in Seq(S)
  BY <1>1, <1>2
<1>4. /\ l \in Seq(S) /\ Len(l) = Len(st) + Len(u)
      /\ \A i \in 1..Len(st) : l[i] = st[i]
      /\ \A i \in 1..Len(u) : l[Len(st) + i] = u[i]
  BY <1>0, ConcatProperties
<1>5. /\ r \in Seq(S) /\ Len(r) = Len(s) + Len(tu)
      /\ \A i \in 1..Len(s) : r[i] = s[i]
      /\ \A i \in 1..Len(tu) : r[Len(s) + i] = tu[i]
  BY <1>0, ConcatProperties
<1> HIDE DEF l, r
<1>6. ASSUME NEW i \in 1..Len(l)  PROVE l[i] = r[i]
  <2>1. CASE i <= Len(s)
    BY <1>1, <1>2, <1>3, <1>4, <1>5, <2>1
  <2>2. CASE i > Len(s) /\ i <= Len(s) + Len(t)
    <3>1. i - Len(s) \in 1..Len(t) /\ i - Len(s) \in 1..Len(tu) /\ i \in 1..Len(st)
          /\ Len(s) + (i - Len(s)) = i
      BY <1>1, <1>2, <1>3, <2>2
    <3>2. l[i] = t[i - Len(s)]
      BY <1>1, <1>4, <3>1
    <3>3. r[i] = t[i - Len(s)]
      BY <1>2, <1>5, <3>1
    <3>4. QED
      BY <3>2, <3>3
  <2>3. CASE i > Len(s) + Len(t)
    <3>1. /\ i - Len(st) \in 1..Len(u) /\ i - Len(s) \in 1..Len(tu)
          /\ Len(s) + (i - Len(s)) = i /\ Len(st) + (i - Len(st)) = i
          /\ Len(t) + (i - Len(st)) = i - Len(s)
      BY <1>1, <1>2, <1>3, <1>4, <2>3
    <3>2. l[i] = u[i - Len(st)]
      BY <1>4, <3>1
    <3>3. r[i] = tu[i - Len(s)]
      BY <1>5, <3>1
    <3>4. tu[i - Len(s)] = u[i - Len(st)]
      BY <1>2, <3>1
    <3>5. QED
      BY <3>2, <3>3, <3>4
  <2>4. QED
    BY <1>1, <1>3, <2>1, <2>2, <2>3
<1>7. Len(l) = Len(r)
  BY <1>1, <1>2, <1>3, <1>4, <1>5
<1>8. l = r
  BY <1>4, <1>5, <1>6, <1>7, SeqEqual
<1>9. QED
  BY <1>8 DEF l, r, st, tu

(* A concatenation taken apart where it was put together. *)
LEMMA TakeApart ==
  ASSUME NEW S, NEW s \in Seq(S), NEW t \in Seq(S)
  PROVE  /\ SubSeq(s \o t, 1, Len(s)) = s
         /\ SubSeq(s \o t, Len(s) + 1, Len(s \o t)) = t
         /\ Len(s) <= Len(s \o t)
<1> DEFINE b == s \o t
           front == SubSeq(b, 1, Len(s))
           rest  == SubSeq(b, Len(s) + 1, Len(b))
<1>1. /\ b \in Seq(S) /\ Len(b) = Len(s) + Len(t)
      /\ \A i \in 1..Len(s) : b[i] = s[i]
      /\ \A i \in 1..Len(t) : b[Len(s) + i] = t[i]
      /\ Len(s) \in Nat /\ Len(t) \in Nat
  BY ConcatProperties, LenProperties
<1> HIDE DEF b
<1>2. \A i \in 1..Len(b) : b[i] \in S
  BY <1>1, ElementOfSeq
<1>3. /\ front \in Seq(S) /\ Len(front) = Len(s)
      /\ \A i \in 1..Len(s) : front[i] = b[i]
  <2>1. \A i \in 1..Len(s) : b[i] \in S
    BY <1>1, <1>2
  <2>2. Len(s) >= 1 - 1
    BY <1>1
  <2>3. QED
    BY <1>1, <2>1, <2>2, SubSeqProperties
<1>4. /\ rest \in Seq(S) /\ Len(rest) = Len(t)
      /\ \A i \in 1..Len(t) : rest[i] = b[Len(s) + i]
  <2>1. \A i \in Len(s)+1..Len(b) : b[i] \in S
    BY <1>1, <1>2
  <2>2. Len(s) + 1 \in Int /\ Len(b) \in Int /\ Len(b) >= (Len(s) + 1) - 1
    BY <1>1
  <2>3. /\ rest \in Seq(S)
        /\ Len(rest) = Len(b) - (Len(s) + 1) + 1
        /\ \A i \in 1..Len(rest) : rest[i] = b[Len(s) + 1 + i - 1]
    BY <1>1, <2>1, <2>2, SubSeqProperties
  <2>4. QED
    BY <1>1, <2>3
<1> HIDE DEF front, rest
<1>5. front = s
  BY <1>1, <1>3, SeqEqual
<1>6. rest = t
  BY <1>1, <1>4, SeqEqual
<1>7. Len(s) <= Len(b)
  BY <1>1
<1>8. QED
  BY <1>5, <1>6, <1>7 DEF front, rest, b

-----------------------------------------------------------------------------
(* Sequences without duplicates. *)

(* A new element at the end keeps them so. *)
LEMMA DistinctAppend ==
  ASSUME NEW S, NEW s \in Seq(S), NEW e \in S, IsInjective(s), e \notin ToSet(s)
  PROVE  IsInjective(Append(s, e))
<1>1. /\ DOMAIN s = 1..Len(s) /\ DOMAIN Append(s, e) = 1..Len(s)+1 /\ Len(s) \in Nat
      /\ Append(s, e)[Len(s)+1] = e
      /\ \A i \in 1..Len(s) : Append(s, e)[i] = s[i]
  BY AppendProperties, LenProperties
<1>2. \A i \in 1..Len(s) : s[i] # e
  BY <1>1 DEF ToSet
<1>3. SUFFICES ASSUME NEW i \in 1..Len(s)+1, NEW j \in 1..Len(s)+1,
                      Append(s, e)[i] = Append(s, e)[j]
               PROVE  i = j
  BY <1>1 DEF IsInjective
<1>4. CASE i = Len(s)+1 \/ j = Len(s)+1
  BY <1>1, <1>2, <1>3, <1>4
<1>5. CASE i # Len(s)+1 /\ j # Len(s)+1
  <2>1. i \in 1..Len(s) /\ j \in 1..Len(s)
    BY <1>1, <1>5
  <2>2. s[i] = s[j]
    BY <1>1, <1>3, <2>1
  <2>3. QED
    BY <1>1, <2>1, <2>2 DEF IsInjective
<1>6. QED
  BY <1>4, <1>5

(* Two parts of one share nothing. *)
LEMMA DistinctParts ==
  ASSUME NEW S, NEW s \in Seq(S), NEW t \in Seq(S), IsInjective(s \o t)
  PROVE  IsInjective(t) /\ ToSet(s) \cap ToSet(t) = {}
<1> DEFINE b == s \o t
<1>1. /\ DOMAIN b = 1..Len(s)+Len(t) /\ DOMAIN s = 1..Len(s) /\ DOMAIN t = 1..Len(t)
      /\ Len(s) \in Nat /\ Len(t) \in Nat
      /\ \A i \in 1..Len(s) : b[i] = s[i]
      /\ \A i \in 1..Len(t) : b[Len(s) + i] = t[i]
  BY ConcatProperties, LenProperties
<1>2. \A i, j \in 1..Len(s)+Len(t) : b[i] = b[j] => i = j
  BY <1>1 DEF IsInjective
<1> HIDE DEF b
<1>3. ASSUME NEW i \in 1..Len(t), NEW j \in 1..Len(t), t[i] = t[j]  PROVE i = j
  <2>1. Len(s) + i \in 1..Len(s)+Len(t) /\ Len(s) + j \in 1..Len(s)+Len(t)
    BY <1>1
  <2>2. b[Len(s) + i] = b[Len(s) + j]
    BY <1>1, <1>3
  <2>3. Len(s) + i = Len(s) + j
    BY <1>2, <2>1, <2>2
  <2>4. QED
    BY <1>1, <2>3
<1>4. ASSUME NEW i \in 1..Len(s), NEW j \in 1..Len(t), s[i] = t[j]  PROVE FALSE
  <2>1. i \in 1..Len(s)+Len(t) /\ Len(s) + j \in 1..Len(s)+Len(t) /\ i # Len(s) + j
    BY <1>1
  <2>2. b[i] = b[Len(s) + j]
    BY <1>1, <1>4
  <2>3. QED
    BY <1>2, <2>1, <2>2
<1>5. IsInjective(t)
  BY <1>1, <1>3 DEF IsInjective
<1>6. ToSet(s) \cap ToSet(t) = {}
  BY <1>1, <1>4 DEF ToSet
<1>7. QED
  BY <1>5, <1>6

(* It has as many elements as its length says. *)
LEMMA DistinctCount ==
  ASSUME NEW S, NEW s \in Seq(S), IsInjective(s)
  PROVE  IsFiniteSet(ToSet(s)) /\ Cardinality(ToSet(s)) = Len(s)
<1>1. DOMAIN s = 1..Len(s) /\ Len(s) \in Nat /\ s \in [1..Len(s) -> ToSet(s)]
  BY LenProperties DEF ToSet
<1>2. s \in Bijection(1..Len(s), ToSet(s))
  BY <1>1 DEF IsInjective, ToSet, Bijection, Injection, Surjection
<1>3. ExistsBijection(1..Len(s), ToSet(s))
  BY <1>2 DEF ExistsBijection
<1>4. QED
  BY <1>1, <1>3, FS_NatBijection, FS_CountingElements

-----------------------------------------------------------------------------
(* Taking one element out: deque.remove(). *)

(* The first occurrence of an element is taken out, the rest keeps its     *)
(* order.                                                                  *)
LEMMA RemoveOne ==
  ASSUME NEW S, NEW s \in Seq(S), NEW k \in 1..Len(s)
  PROVE  LET t == RemoveAt(s, k)
         IN  /\ t \in Seq(S) /\ Len(t) = Len(s) - 1
             /\ \A i \in 1..Len(t) : t[i] = IF i < k THEN s[i] ELSE s[i+1]
<1> DEFINE u == SubSeq(s, 1, k-1)
           v == SubSeq(s, k+1, Len(s))
<1>1. Len(s) \in Nat
  BY LenProperties
<1>2. u \in Seq(S) /\ Len(u) = k - 1 /\ \A i \in 1..k-1 : u[i] = s[i]
  BY <1>1, SubSeqProperties
<1>3. v \in Seq(S) /\ Len(v) = Len(s) - k /\ \A i \in 1..Len(s)-k : v[i] = s[k+i]
  BY <1>1, SubSeqProperties
<1> HIDE DEF u, v
<1>4. /\ u \o v \in Seq(S) /\ Len(u \o v) = Len(s) - 1
      /\ \A i \in 1..Len(s)-1 : (u \o v)[i] = IF i < k THEN s[i] ELSE s[i+1]
  <2>1. /\ u \o v \in Seq(S) /\ Len(u \o v) = (k - 1) + (Len(s) - k)
        /\ \A i \in 1..Len(u)+Len(v) : (u \o v)[i] = IF i <= Len(u) THEN u[i] ELSE v[i - Len(u)]
    <3>1. u \in Seq(S) /\ v \in Seq(S) /\ Len(u) = k - 1 /\ Len(v) = Len(s) - k
      BY <1>2, <1>3
    <3>2. /\ u \o v \in Seq(S) /\ Len(u \o v) = Len(u) + Len(v)
          /\ \A i \in 1..Len(u)+Len(v) :
               (u \o v)[i] = IF i <= Len(u) THEN u[i] ELSE v[i - Len(u)]
      BY <3>1, ConcatProperties
    <3>3. QED
      BY <3>1, <3>2
  <2>2. ASSUME NEW i \in 1..Len(s)-1
        PROVE  (u \o v)[i] = IF i < k THEN s[i] ELSE s[i+1]
    <3>1. CASE i < k
      BY <1>1, <1>2, <1>3, <2>1, <3>1
    <3>2. CASE ~(i < k)
      <4>1. (u \o v)[i] = v[i - (k - 1)] /\ i - (k - 1) \in 1..Len(s)-k
        BY <1>1, <1>2, <1>3, <2>1, <3>2
      <4>2. k + (i - (k - 1)) = i + 1
        BY <1>1
      <4>3. QED
        BY <1>3, <3>2, <4>1, <4>2
    <3>3. QED
      BY <3>1, <3>2
  <2>3. QED
    BY <1>1, <2>1, <2>2
<1>5. QED
  BY <1>4 DEF RemoveAt, u, v

(* The place of the first occurrence. *)
LEMMA FirstPlace ==
  ASSUME NEW S, NEW s \in Seq(S), NEW e, \E i \in 1..Len(s) : s[i] = e
  PROVE  \E k \in 1..Len(s) : s[k] = e /\ RemoveFirst(s, e) = RemoveAt(s, k)
<1> DEFINE I == {i \in 1..Len(s) : s[i] = e}
<1>1. \E k \in I : \A i \in I : k <= i
  <2>1. I \subseteq Nat /\ I # {}
    BY LenProperties
  <2>2. IsWellFoundedOn(OpToRel(<, Nat), Nat)
    BY NatLessThanWellFounded
  <2>3. PICK k \in I : \A i \in I : <<i, k>> \notin OpToRel(<, Nat)
    BY <2>1, <2>2, WFMin
  <2>4. ASSUME NEW i \in I  PROVE k <= i
    <3>1. i \in Nat /\ k \in Nat
      BY <2>1, <2>3
    <3>2. <<i, k>> \notin OpToRel(<, Nat)
      BY <2>3
    <3>3. ~(i < k)
      BY <3>1, <3>2 DEF OpToRel
    <3>4. QED
      BY <3>1, <3>3
  <2>5. QED
    BY <2>4
<1>2. I # {} /\ Min(I) \in I
  BY <1>1 DEF Min
<1>3. RemoveFirst(s, e) = RemoveAt(s, Min(I))
  BY <1>2 DEF RemoveFirst, SelectInSeq
<1>4. QED
  BY <1>2, <1>3

(* What is left comes from different places of what there was. *)
From(t, s) ==
  \E g \in [1..Len(t) -> 1..Len(s)] :
    /\ \A i, j \in 1..Len(t) : g[i] = g[j] => i = j
    /\ \A i \in 1..Len(t) : t[i] = s[g[i]]

(* Taking out one element leaves the others, and it goes if it was alone.  *)
LEMMA RemoveAtFrom ==
  ASSUME NEW S, NEW s \in Seq(S), NEW k \in 1..Len(s)
  PROVE  LET t == RemoveAt(s, k)
         IN  /\ t \in Seq(S) /\ Len(t) = Len(s) - 1 /\ From(t, s)
             /\ (\A i \in 1..Len(s) : s[i] = s[k] => i = k) => \A i \in 1..Len(t) : t[i] # s[k]
<1> DEFINE t == RemoveAt(s, k)
           g == [i \in 1..Len(t) |-> IF i < k THEN i ELSE i + 1]
<1>1. Len(s) \in Nat
  BY LenProperties
<1>2. /\ t \in Seq(S) /\ Len(t) = Len(s) - 1
      /\ \A i \in 1..Len(t) : t[i] = IF i < k THEN s[i] ELSE s[i+1]
  BY RemoveOne
<1> HIDE DEF t
<1>3. g \in [1..Len(t) -> 1..Len(s)] /\ \A i \in 1..Len(t) : g[i] # k
  BY <1>1, <1>2
<1>4. \A i, j \in 1..Len(t) : g[i] = g[j] => i = j
  BY <1>1, <1>2
<1>5. \A i \in 1..Len(t) : t[i] = s[g[i]]
  BY <1>1, <1>2
<1>6. From(t, s)
  BY <1>3, <1>4, <1>5 DEF From
<1>7. ASSUME \A i \in 1..Len(s) : s[i] = s[k] => i = k, NEW i \in 1..Len(t)
      PROVE  t[i] # s[k]
  BY <1>3, <1>5, <1>7
<1>8. QED
  BY <1>2, <1>6, <1>7 DEF t

(* deque.remove() of an element that is there once, if at all. *)
LEMMA RemoveFirstFrom ==
  ASSUME NEW S, NEW s \in Seq(S), NEW e,
         \A i, j \in 1..Len(s) : s[i] = e /\ s[j] = e => i = j
  PROVE  LET t == RemoveFirst(s, e)
         IN  t \in Seq(S) /\ From(t, s) /\ \A i \in 1..Len(t) : t[i] # e
<1>1. CASE \E i \in 1..Len(s) : s[i] = e
  <2>1. PICK k \in 1..Len(s) : s[k] = e /\ RemoveFirst(s, e) = RemoveAt(s, k)
    BY <1>1, FirstPlace
  <2>2. \A i \in 1..Len(s) : s[i] = s[k] => i = k
    BY <2>1
  <2>3. QED
    BY <2>1, <2>2, RemoveAtFrom
<1>2. CASE ~\E i \in 1..Len(s) : s[i] = e
  <2> DEFINE g == [i \in 1..Len(s) |-> i]
  <2>1. g \in [1..Len(s) -> 1..Len(s)] /\ \A i \in 1..Len(s) : g[i] = i
    OBVIOUS
  <2>2. From(s, s)
    BY <2>1 DEF From
  <2>3. RemoveFirst(s, e) = s
    BY <1>2 DEF RemoveFirst
  <2>4. QED
    BY <1>2, <2>2, <2>3
<1>3. QED
  BY <1>1, <1>2

(* Whatever is taken out, nothing comes in, and the head stays the head    *)
(* unless it is what is taken out.                                         *)
LEMMA RemoveFirstHead ==
  ASSUME NEW S, NEW s \in Seq(S), NEW e
  PROVE  LET t == RemoveFirst(s, e)
         IN  /\ t \in Seq(S) /\ ToSet(t) \subseteq ToSet(s)
             /\ s # <<>> /\ Head(s) # e => t # <<>> /\ Head(t) = Head(s)
<1>1. Len(s) \in Nat /\ DOMAIN s = 1..Len(s)
  BY LenProperties
<1>2. CASE \E i \in 1..Len(s) : s[i] = e
  <2> DEFINE t == RemoveFirst(s, e)
  <2>1. PICK k \in 1..Len(s) : s[k] = e /\ t = RemoveAt(s, k)
    BY <1>2, FirstPlace
  <2>2. /\ t \in Seq(S) /\ Len(t) = Len(s) - 1
        /\ \A i \in 1..Len(t) : t[i] = IF i < k THEN s[i] ELSE s[i+1]
    BY <2>1, RemoveOne
  <2> HIDE DEF t
  <2>3. DOMAIN t = 1..Len(t)
    BY <2>2, LenProperties
  <2>4. \A i \in 1..Len(t) : t[i] \in ToSet(s)
    BY <1>1, <2>2 DEF ToSet
  <2>5. ToSet(t) \subseteq ToSet(s)
    BY <2>3, <2>4 DEF ToSet
  <2>6. ASSUME s # <<>>, Head(s) # e  PROVE t # <<>> /\ Head(t) = Head(s)
    <3>1. k # 1 /\ Len(t) >= 1
      BY <1>1, <2>1, <2>2, <2>6
    <3>2. t[1] = s[1]
      BY <1>1, <2>1, <2>2, <3>1
    <3>3. QED
      BY <2>2, <2>6, <3>1, <3>2
  <2>7. QED
    BY <2>2, <2>5, <2>6 DEF t
<1>3. CASE ~\E i \in 1..Len(s) : s[i] = e
  BY <1>3 DEF RemoveFirst
<1>4. QED
  BY <1>2, <1>3
=============================================================================
