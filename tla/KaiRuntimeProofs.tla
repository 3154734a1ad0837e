-------------------------- MODULE KaiRuntimeProofs --------------------------
(***************************************************************************)
(* Proofs about KaiRuntime: what evaluate_batch does with any call of any  *)
(* shape, for any bounds, and what the start of the runtime does with the  *)
(* artifact cache, for any processes, payloads and faults.                 *)
(***************************************************************************)
EXTENDS KaiBatch, ArtifactCache, SequenceLemmas

-----------------------------------------------------------------------------
(* The entries of a call. *)

(* An entry is a row of an admitted request, and there are finitely many.  *)
LEMMA EntryShape ==
  ASSUME requests \in Calls
  PROVE  /\ \A e \in Entries : /\ e.i \in DOMAIN requests /\ Admissible(requests[e.i])
                               /\ e.k \in DOMAIN requests[e.i] /\ e = Entry(e.i, e.k)
                               /\ e.i \in Nat /\ e.k \in Nat /\ e.size \in Nat \ {0}
                               /\ e.size = requests[e.i][e.k].size /\ e.size <= MaxInput
         /\ \A i \in DOMAIN requests : Admissible(requests[i]) =>
              \A k \in DOMAIN requests[i] :
                 Entry(i, k) \in Entries /\ Entry(i, k).i = i /\ Entry(i, k).k = k
         /\ IsFiniteSet(Entries)
<1> DEFINE Row == [type : Types, size : Nat \ {0}]
           Admitted == {j \in DOMAIN requests : Admissible(requests[j])}
           Rows(i) == {Entry(i, k) : k \in DOMAIN requests[i]}
<1>1. /\ Len(requests) \in Nat /\ DOMAIN requests = 1..Len(requests)
      /\ \A i \in DOMAIN requests : requests[i] \in Seq(Row)
  BY CallsAssumption, LenProperties, ElementOfSeq
<1>2. ASSUME NEW i \in DOMAIN requests
      PROVE  /\ Len(requests[i]) \in Nat /\ DOMAIN requests[i] = 1..Len(requests[i])
             /\ \A k \in DOMAIN requests[i] : requests[i][k] \in Row
  <2> HIDE DEF Row
  <2>1. requests[i] \in Seq(Row)
    BY <1>1
  <2>2. QED
    BY <2>1, LenProperties, ElementOfSeq
<1>3. ASSUME NEW e \in Entries
      PROVE  /\ e.i \in DOMAIN requests /\ Admissible(requests[e.i])
             /\ e.k \in DOMAIN requests[e.i] /\ e = Entry(e.i, e.k)
             /\ e.i \in Nat /\ e.k \in Nat /\ e.size \in Nat \ {0}
             /\ e.size = requests[e.i][e.k].size /\ e.size <= MaxInput
  <2>0. PICK i \in Admitted : e \in {Entry(i, k) : k \in DOMAIN requests[i]}
    BY DEF Entries
  <2>1. PICK k \in DOMAIN requests[i] : e = Entry(i, k)
    BY <2>0
  <2>2. e.i = i /\ e.k = k /\ e.size = requests[i][k].size
    BY <2>1 DEF Entry
  <2>3. i \in Nat /\ k \in Nat /\ requests[i][k] \in Row
    BY <1>1, <1>2
  <2>4. requests[i][k].size <= MaxInput
    BY DEF Admissible
  <2>5. QED
    BY <2>1, <2>2, <2>3, <2>4
<1>4. ASSUME NEW i \in DOMAIN requests, Admissible(requests[i]), NEW k \in DOMAIN requests[i]
      PROVE  Entry(i, k) \in Entries /\ Entry(i, k).i = i /\ Entry(i, k).k = k
  BY <1>4 DEF Entries, Entry
<1>5. IsFiniteSet(Entries)
  <2>1. ASSUME NEW i \in DOMAIN requests  PROVE IsFiniteSet(Rows(i))
    <3> DEFINE f == [k \in DOMAIN requests[i] |-> Entry(i, k)]
    <3>1. f \in Surjection(DOMAIN requests[i], Rows(i))
      BY DEF Surjection
    <3>2. IsFiniteSet(DOMAIN requests[i])
      BY <1>2, FS_Interval
    <3>3. QED
      BY <3>1, <3>2, FS_Surjection
  <2> DEFINE g == [i \in Admitted |-> Rows(i)]
             All == {Rows(i) : i \in Admitted}
  <2>2. g \in Surjection(Admitted, All)
    BY DEF Surjection
  <2>3. IsFiniteSet(DOMAIN requests)
    BY <1>1, FS_Interval
  <2>4. IsFiniteSet(Admitted)
    BY <2>3, FS_Subset
  <2>5. IsFiniteSet(All)
    BY <2>2, <2>4, FS_Surjection
  <2>6. IsFiniteSet(UNION All)
    BY <2>1, <2>5, FS_UNION
  <2>7. QED
    BY <2>6 DEF Entries
<1>6. QED
  BY <1>3, <1>4, <1>5

(* No entry runs before itself. *)
LEMMA NotBeforeItself ==
  ASSUME requests \in Calls, NEW e \in Entries
  PROVE  ~RunsBefore(e, e)
<1>1. e.i \in Nat /\ e.k \in Nat /\ e.size \in Nat
  BY EntryShape
<1>2. QED
  BY <1>1 DEF RunsBefore, Shorter, AskedBefore

InOrder(s) == \A m, n \in DOMAIN s : m < n => RunsBefore(s[m], s[n])

(* What is in order contains nothing twice. *)
LEMMA OrderDistinct ==
  ASSUME requests \in Calls, NEW s \in Seq(Entries), InOrder(s)
  PROVE  IsInjective(s)
<1>1. DOMAIN s = 1..Len(s) /\ Len(s) \in Nat /\ \A n \in DOMAIN s : s[n] \in Entries
  BY LenProperties, ElementOfSeq
<1>2. ASSUME NEW m \in DOMAIN s, NEW n \in DOMAIN s, s[m] = s[n], m # n  PROVE FALSE
  <2>1. RunsBefore(s[m], s[n]) \/ RunsBefore(s[n], s[m])
    <3>1. m < n \/ n < m
      BY <1>1, <1>2
    <3>2. QED
      BY <3>1 DEF InOrder
  <2>2. QED
    BY <1>1, <1>2, <2>1, NotBeforeItself
<1>3. QED
  BY <1>2 DEF IsInjective

(* A row of a request has a length. *)
LEMMA RowShape ==
  ASSUME requests \in Calls, NEW i \in DOMAIN requests, NEW k \in DOMAIN requests[i]
  PROVE  requests[i][k].size \in Nat \ {0}
<1> DEFINE Row == [type : Types, size : Nat \ {0}]
<1>1. requests[i] \in Seq(Row)
  BY CallsAssumption, LenProperties, ElementOfSeq
<1> HIDE DEF Row
<1>2. requests[i][k] \in Row
  BY <1>1, LenProperties, ElementOfSeq
<1>3. QED
  BY <1>2 DEF Row

(* Entries have finitely many tokens. *)
LEMMA TokensFinite ==
  ASSUME requests \in Calls, NEW S \in SUBSET Entries
  PROVE  IsFiniteSet(TokensOf(S))
<1>1. IsFiniteSet(Entries)
  BY EntryShape
<1>2. IsFiniteSet(1..MaxInput)
  <2>1. 1 \in Int /\ MaxInput \in Int
    BY BatchAssumption
  <2>2. QED
    BY <2>1, FS_Interval
<1>3. IsFiniteSet(Entries \X (1..MaxInput))
  BY <1>1, <1>2, FS_Product
<1>4. TokensOf(S) \in SUBSET (Entries \X (1..MaxInput))
  BY DEF TokensOf
<1>5. QED
  BY <1>3, <1>4, FS_Subset

(* The tokens of disjoint sets of entries add up. *)
LEMMA TokensAddUp ==
  ASSUME requests \in Calls, NEW S \in SUBSET Entries, NEW T \in SUBSET Entries, S \cap T = {}
  PROVE  /\ Cardinality(TokensOf(S)) \in Nat /\ Cardinality(TokensOf(T)) \in Nat
         /\ Cardinality(TokensOf(S \cup T)) = Cardinality(TokensOf(S)) + Cardinality(TokensOf(T))
<1>2. IsFiniteSet(TokensOf(S)) /\ IsFiniteSet(TokensOf(T))
  BY TokensFinite
<1>3. TokensOf(S \cup T) = TokensOf(S) \cup TokensOf(T) /\ TokensOf(S) \cap TokensOf(T) = {}
  BY DEF TokensOf
<1>4. Cardinality(TokensOf(S) \cap TokensOf(T)) = 0
  BY <1>3, FS_EmptySet
<1> DEFINE A == TokensOf(S)
           B == TokensOf(T)
<1>5. IsFiniteSet(A) /\ IsFiniteSet(B) /\ Cardinality(A \cap B) = 0
  BY <1>2, <1>4
<1> HIDE DEF A, B
<1>6. Cardinality(A) \in Nat /\ Cardinality(B) \in Nat
  BY <1>5, FS_CardinalityType
<1>7. Cardinality(A \cup B) = Cardinality(A) + Cardinality(B) - Cardinality(A \cap B)
  BY <1>5, FS_Union
<1>8. Cardinality(A \cup B) = Cardinality(A) + Cardinality(B)
  BY <1>5, <1>6, <1>7
<1>9. QED
  BY <1>3, <1>6, <1>8 DEF A, B

-----------------------------------------------------------------------------
(* The inductive invariant: what was scored and what is left are the two   *)
(* parts of the call, and the first is what was charged.                   *)

OwnOutcome(good) ==
  [i \in DOMAIN requests |-> IF Admissible(requests[i]) THEN good ELSE "input_error"]

Of(entries, i) == {e \in entries : e.i = i}

CallTypes ==
  /\ requests \in Calls /\ left \in Seq(Entries) /\ scored \subseteq Entries
  /\ usage \in [DOMAIN requests -> Nat]

Parted ==
  /\ pc = "admit" => left = <<>> /\ scored = {}
  /\ scored \cap ToSet(left) = {}
  /\ pc = "run" => scored \cup ToSet(left) = Entries

Charged == \A i \in DOMAIN requests : usage[i] = Cardinality(TokensOf(Of(scored, i)))

Fates ==
  /\ pc = "run" => outcome = OwnOutcome("response")
  /\ pc = "returned" =>
       \/ outcome = OwnOutcome("engine_error")
       \/ outcome = OwnOutcome("response") /\ scored = Entries

BatchInv == CallTypes /\ InOrder(left) /\ Parted /\ Charged /\ Fates /\ WithinBounds

(* A call begins with nothing scored and nothing charged. *)
LEMMA BatchInit == Init => BatchInv
<1> SUFFICES ASSUME Init  PROVE BatchInv
  OBVIOUS
<1> USE DEF Init
<1>1. <<>> \in Seq(Entries) /\ DOMAIN <<>> = {} /\ ToSet(<<>>) = {}
  BY EmptySeq, EmptySet
<1>2. CallTypes /\ InOrder(left) /\ Parted /\ Fates /\ WithinBounds
  BY <1>1 DEF CallTypes, InOrder, Parted, Fates, WithinBounds
<1>3. Charged
  <2>1. \A i : TokensOf(Of(scored, i)) = {}
    BY DEF TokensOf, Of
  <2>2. QED
    BY <2>1, FS_EmptySet DEF Charged
<1>4. QED
  BY <1>2, <1>3 DEF BatchInv

(* Admission puts every entry into the line, and none twice. *)
LEMMA AdmitKeeps ==
  ASSUME BatchInv, Admit
  PROVE  BatchInv'
<1>1. PICK order \in [1..Cardinality(Entries) -> Entries] :
        (\A m, n \in DOMAIN order : m < n => RunsBefore(order[m], order[n])) /\ left' = order
  BY DEF Admit
<1>2. /\ pc = "admit" /\ pc' = "run" /\ outcome' = OwnOutcome("response")
      /\ UNCHANGED <<requests, physical, scored, usage>>
      /\ requests \in Calls /\ CallTypes /\ Charged /\ WithinBounds /\ scored = {}
  BY DEF Admit, OwnOutcome, BatchInv, CallTypes, Parted
<1>3. IsFiniteSet(Entries) /\ Cardinality(Entries) \in Nat
  BY <1>2, EntryShape, FS_CardinalityType
<1>4. order \in Seq(Entries) /\ Len(order) = Cardinality(Entries)
  <2>1. \A n \in Nat : \A f \in [1..n -> Entries] : f \in Seq(Entries) /\ Len(f) = n
    OBVIOUS
  <2>2. QED
    BY <1>3, <2>1
<1>5. InOrder(order) /\ IsInjective(order)
  BY <1>1, <1>2, <1>4, OrderDistinct DEF InOrder
<1>6. ToSet(order) = Entries
  <2>1. ToSet(order) \in SUBSET Entries /\ Cardinality(ToSet(order)) = Cardinality(Entries)
    BY <1>4, <1>5, SetOfSeq, DistinctCount
  <2>2. QED
    BY <1>3, <2>1, FS_Subset
<1>7. Entries' = Entries /\ \A a, b : RunsBefore(a, b)' <=> RunsBefore(a, b)
  BY <1>2 DEF Entries, Entry, RunsBefore, TypeBefore
<1>8. InOrder(left)'
  BY <1>1, <1>2, <1>5 DEF InOrder, RunsBefore, TypeBefore, Entries, Entry
<1>9. CallTypes' /\ Parted'
  BY <1>1, <1>2, <1>4, <1>6, <1>7 DEF CallTypes, Parted
<1>10. Charged' /\ Fates' /\ WithinBounds'
  BY <1>2 DEF Charged, Of, TokensOf, Fates, OwnOutcome, WithinBounds
<1>11. QED
  BY <1>8, <1>9, <1>10 DEF BatchInv

(* The last of the rows that fit is the longest of them, so that all of    *)
(* them fit at its length.                                                 *)
LEMMA FitIsEnough ==
  ASSUME CallTypes, InOrder(left), NEW n \in 1..Len(left), Fit(n), NEW j \in 1..n
  PROVE  left[j].type = left[1].type /\ n * left[j].size <= BatchTokens /\ n <= BatchSize
<1>1. /\ Len(left) \in Nat /\ n \in Nat \ {0} /\ DOMAIN left = 1..Len(left)
      /\ j \in DOMAIN left /\ n \in DOMAIN left /\ 1 \in DOMAIN left
      /\ \A m \in DOMAIN left : left[m] \in Entries
  BY LenProperties, ElementOfSeq DEF CallTypes
<1>2. /\ left[j].size \in Nat /\ left[n].size \in Nat /\ left[j].size <= MaxInput
      /\ left[n].size <= MaxInput
  BY <1>1, EntryShape DEF CallTypes
<1>3. MaxInput \in Nat /\ BatchTokens \in Nat /\ MaxInput <= BatchTokens
  BY BatchAssumption, TokensAssumption
<1>4. /\ n <= BatchSize
      /\ \A m \in 2..n : left[m].type = left[1].type /\ m * left[m].size <= BatchTokens
  BY DEF Fit
<1>5. left[j].type = left[1].type /\ left[n].type = left[1].type
  <2>1. (j = 1 \/ j \in 2..n) /\ (n = 1 \/ n \in 2..n)
    BY <1>1
  <2>2. QED
    BY <1>4, <2>1
<1>6. n * left[n].size <= BatchTokens
  <2>1. CASE n = 1
    BY <1>2, <1>3, <2>1
  <2>2. CASE n # 1
    BY <1>1, <1>4, <2>2
  <2>3. QED
    BY <2>1, <2>2
<1>7. left[j].size <= left[n].size
  <2>1. CASE j = n
    BY <1>2, <2>1
  <2>2. CASE j # n
    <3>1. RunsBefore(left[j], left[n])
      BY <1>1, <2>2 DEF InOrder
    <3>2. QED
      BY <1>2, <1>5, <3>1 DEF RunsBefore, Shorter
  <2>3. QED
    BY <2>1, <2>2
<1>8. \A a, b, c \in Nat : a <= b => c * a <= c * b
  OBVIOUS
<1>9. n * left[j].size <= n * left[n].size
  BY <1>1, <1>2, <1>7, <1>8
<1>10. \A a, b, c \in Int : a <= b /\ b <= c => a <= c
  OBVIOUS
<1>11. n * left[j].size \in Int /\ n * left[n].size \in Int
  BY <1>1, <1>2
<1>12. QED
  BY <1>3, <1>4, <1>5, <1>6, <1>9, <1>10, <1>11

(* A physical batch leaves the line, and its tokens are charged. *)
LEMMA RunKeeps ==
  ASSUME BatchInv, Run
  PROVE  BatchInv'
<1>1. PICK n \in 1..Len(left) : Fit(n) /\ physical' = SubSeq(left, 1, n) /\ left' = Rest(n)
  BY DEF Run
<1>2. /\ pc = "run" /\ scored' = scored \cup ToSet(physical')
      /\ usage' = [i \in DOMAIN requests |->
                     usage[i] + Cardinality(TokensOf(Of(ToSet(physical'), i)))]
      /\ UNCHANGED <<requests, pc, outcome>>
      /\ CallTypes /\ InOrder(left) /\ Parted /\ Charged /\ Fates
  BY DEF Run, BatchInv, Of
<1> DEFINE b == SubSeq(left, 1, n)
           r == SubSeq(left, n + 1, Len(left))
<1>3. /\ left \in Seq(Entries) /\ Len(left) \in Nat /\ DOMAIN left = 1..Len(left)
      /\ n \in 0..Len(left) /\ n \in Nat \ {0}
  BY <1>2, LenProperties DEF CallTypes
<1>4. b \in Seq(Entries) /\ r \in Seq(Entries) /\ b \o r = left
  BY <1>3, Split
<1>5. /\ Len(b) = n /\ DOMAIN b = 1..n /\ \A m \in 1..n : b[m] = left[m]
      /\ DOMAIN r = 1..Len(left)-n /\ \A m \in 1..Len(left)-n : r[m] = left[n + m]
  <2>1. /\ \A m \in 1..n : left[m] \in Entries
        /\ \A m \in n+1..Len(left) : left[m] \in Entries
    BY <1>3, ElementOfSeq
  <2>2. /\ Len(b) = n /\ \A m \in 1..Len(b) : b[m] = left[1 + m - 1]
    BY <1>3, <2>1, SubSeqProperties
  <2>3. Len(r) = IF n + 1 <= Len(left) THEN Len(left) - (n + 1) + 1 ELSE 0
    BY <1>3, <2>1, SubSeqProperties
  <2>4. \A m \in 1..Len(left)-(n+1)+1 : r[m] = left[(n + 1) + m - 1]
    BY <1>3, <2>1, SubSeqProperties
  <2> HIDE DEF b, r
  <2>5. DOMAIN b = 1..Len(b) /\ DOMAIN r = 1..Len(r)
    BY <1>4, LenProperties
  <2>6. Len(r) = Len(left) - n /\ Len(left) - (n + 1) + 1 = Len(left) - n
    <3>1. Len(left) \in Nat /\ n \in Nat /\ n <= Len(left)
      BY <1>3
    <3>2. n + 1 <= Len(left) \/ n = Len(left)
      BY <3>1
    <3>3. Len(left) - (n + 1) + 1 = Len(left) - n /\ (n = Len(left) => Len(left) - n = 0)
      BY <3>1
    <3>4. n + 1 <= Len(left) => Len(r) = Len(left) - (n + 1) + 1
      BY <2>3
    <3>5. ~(n + 1 <= Len(left)) => Len(r) = 0
      BY <2>3
    <3>6. CASE n + 1 <= Len(left)
      BY <3>3, <3>4, <3>6
    <3>7. CASE n = Len(left)
      <4>1. ~(n + 1 <= Len(left))
        BY <3>1, <3>7
      <4>2. QED
        BY <3>3, <3>5, <3>7, <4>1
    <3>8. QED
      BY <3>2, <3>6, <3>7
  <2>7. \A m \in 1..n : 1 + m - 1 = m
    BY <1>3
  <2>8. \A m \in 1..Len(left)-n : (n + 1) + m - 1 = n + m
    BY <1>3
  <2>9. QED
    BY <2>2, <2>4, <2>5, <2>6, <2>7, <2>8
<1>6. physical' = b /\ left' = r
  BY <1>1 DEF Rest
<1> HIDE DEF b, r
<1>7. IsInjective(left)
  BY <1>2, <1>3, OrderDistinct DEF CallTypes
<1>8. ToSet(left) = ToSet(b) \cup ToSet(r) /\ ToSet(b) \cap ToSet(r) = {}
  <2>1. IsInjective(b \o r) /\ ToSet(b \o r) = ToSet(b) \cup ToSet(r)
    BY <1>4, <1>7, ConcatSet
  <2>2. ToSet(b) \cap ToSet(r) = {}
    BY <1>4, <2>1, DistinctParts
  <2>3. QED
    BY <1>4, <2>1, <2>2
<1>9. ToSet(b) \subseteq Entries /\ ToSet(b) \cap scored = {}
  BY <1>2, <1>4, <1>8, SetOfSeq DEF Parted
<1>10. Entries' = Entries
  BY <1>2 DEF Entries, Entry
<1>11. ASSUME NEW i \in DOMAIN requests
       PROVE  /\ usage'[i] \in Nat /\ usage'[i] = Cardinality(TokensOf(Of(scored', i)))
  <2> DEFINE S == Of(scored, i)
             T == Of(ToSet(b), i)
  <2>1. /\ S \in SUBSET Entries /\ T \in SUBSET Entries /\ S \cap T = {}
        /\ Of(scored', i) = S \cup T
    BY <1>2, <1>6, <1>9 DEF Of, CallTypes
  <2>2. usage'[i] = usage[i] + Cardinality(TokensOf(T)) /\ usage[i] = Cardinality(TokensOf(S))
    BY <1>2, <1>6 DEF Charged
  <2> HIDE DEF S, T
  <2>3. /\ Cardinality(TokensOf(S)) \in Nat /\ Cardinality(TokensOf(T)) \in Nat
        /\ Cardinality(TokensOf(S \cup T)) = Cardinality(TokensOf(S)) + Cardinality(TokensOf(T))
    BY <1>2, <2>1, TokensAddUp DEF CallTypes
  <2>4. QED
    BY <2>1, <2>2, <2>3
<1>12. CallTypes'
  <2>1. usage' \in [DOMAIN requests -> Nat]
    BY <1>2, <1>11
  <2>2. QED
    BY <1>2, <1>4, <1>6, <1>9, <1>10, <2>1 DEF CallTypes
<1>13. InOrder(left)'
  <2>1. ASSUME NEW l \in DOMAIN r, NEW m \in DOMAIN r, l < m  PROVE RunsBefore(r[l], r[m])
    <3>1. l \in 1..Len(left)-n /\ m \in 1..Len(left)-n
      BY <1>5
    <3>2. /\ n + l \in 1..Len(left) /\ n + m \in 1..Len(left) /\ n + l < n + m
      BY <1>3, <2>1, <3>1
    <3>3. r[l] = left[n + l] /\ r[m] = left[n + m]
      BY <1>5, <3>1
    <3>4. QED
      BY <1>2, <1>3, <3>2, <3>3 DEF InOrder
  <2>2. InOrder(r)
    BY <2>1 DEF InOrder
  <2>3. QED
    BY <1>2, <1>6, <2>2 DEF InOrder, RunsBefore, TypeBefore, Entries, Entry
<1>14. Parted'
  BY <1>2, <1>6, <1>8, <1>9, <1>10 DEF Parted
<1>15. Charged'
  BY <1>2, <1>11 DEF Charged, Of, TokensOf
<1>16. Fates'
  BY <1>2 DEF Fates, OwnOutcome
<1>17. WithinBounds'
  <2>1. ASSUME NEW e \in ToSet(b)
        PROVE  e.type = b[1].type /\ Len(b) * e.size <= BatchTokens
    <3>1. PICK j \in 1..n : e = left[j]
      BY <1>5 DEF ToSet
    <3>2. left[j].type = left[1].type /\ n * left[j].size <= BatchTokens
      BY <1>1, <1>2, FitIsEnough
    <3>3. b[1] = left[1]
      BY <1>3, <1>5
    <3>4. QED
      BY <1>5, <3>1, <3>2, <3>3
  <2>2. Len(b) <= BatchSize
    BY <1>1, <1>5 DEF Fit
  <2>3. QED
    BY <1>6, <2>1, <2>2 DEF WithinBounds
<1>18. QED
  BY <1>12, <1>13, <1>14, <1>15, <1>16, <1>17 DEF BatchInv

(* A call that ends changes no more than the outcomes. *)
LEMMA EndKeeps ==
  ASSUME BatchInv, pc' # "admit", pc' # "run",
         UNCHANGED <<requests, left, physical, scored, usage>>, Fates'
  PROVE  BatchInv'
<1>1. CallTypes' /\ InOrder(left)'
  BY DEF BatchInv, CallTypes, InOrder, RunsBefore, TypeBefore, Entries, Entry
<1>2. Parted' /\ Charged' /\ WithinBounds'
  BY DEF BatchInv, Parted, Charged, Of, TokensOf, WithinBounds
<1>3. QED
  BY <1>1, <1>2 DEF BatchInv

(* Every step of a call keeps the invariant. *)
LEMMA BatchStep == BatchInv /\ [Next]_vars => BatchInv'
<1> SUFFICES ASSUME BatchInv, [Next]_vars  PROVE BatchInv'
  OBVIOUS
<1>1. ASSUME Refuse \/ RunRaises  PROVE BatchInv'
  <2>1. /\ pc' = "raised" /\ UNCHANGED <<requests, left, physical, scored, usage>>
    BY <1>1 DEF Refuse, RunRaises
  <2>2. Fates'
    BY <2>1 DEF Fates
  <2>3. QED
    BY <2>1, <2>2, EndKeeps
<1>2. ASSUME Admit  PROVE BatchInv'
  BY <1>2, AdmitKeeps
<1>3. ASSUME Run  PROVE BatchInv'
  BY <1>3, RunKeeps
<1>4. ASSUME RunFails  PROVE BatchInv'
  <2>1. /\ pc = "run" /\ pc' = "returned"
        /\ outcome' = [i \in DOMAIN requests |-> IF Spoiled(i) THEN "engine_error" ELSE outcome[i]]
        /\ UNCHANGED <<requests, left, physical, scored, usage>>
    BY <1>4 DEF RunFails
  <2>2. outcome = OwnOutcome("response")
    BY <2>1 DEF BatchInv, Fates
  <2>3. outcome' = OwnOutcome("engine_error")
    BY <2>1, <2>2 DEF OwnOutcome, Spoiled
  <2>4. Fates'
    BY <2>1, <2>3 DEF Fates, OwnOutcome
  <2>5. QED
    BY <2>1, <2>4, EndKeeps
<1>5. ASSUME Return  PROVE BatchInv'
  <2>1. /\ pc = "run" /\ left = <<>> /\ pc' = "returned"
        /\ UNCHANGED <<requests, outcome, left, physical, scored, usage>>
    BY <1>5 DEF Return
  <2>2. scored = Entries /\ outcome = OwnOutcome("response")
    BY <2>1, EmptySet DEF BatchInv, Parted, Fates
  <2>3. Fates'
    BY <2>1, <2>2 DEF Fates, OwnOutcome, Entries, Entry
  <2>4. QED
    BY <2>1, <2>3, EndKeeps
<1>6. ASSUME UNCHANGED vars  PROVE BatchInv'
  <2>1. CallTypes' /\ InOrder(left)'
    BY <1>6 DEF vars, BatchInv, CallTypes, InOrder, RunsBefore, TypeBefore, Entries, Entry
  <2>2. Parted'
    BY <1>6 DEF vars, BatchInv, Parted, Entries, Entry
  <2>3. Charged'
    BY <1>6 DEF vars, BatchInv, Charged, Of, TokensOf
  <2>4. WithinBounds'
    BY <1>6 DEF vars, BatchInv, WithinBounds
  <2>5. Fates'
    BY <1>6 DEF vars, BatchInv, Fates, OwnOutcome, Entries, Entry
  <2>6. QED
    BY <2>1, <2>2, <2>3, <2>4, <2>5 DEF BatchInv
<1>7. QED
  BY <1>1, <1>2, <1>3, <1>4, <1>5, <1>6 DEF Next, Ended

-----------------------------------------------------------------------------
(* What a call guarantees. *)

(* What was scored, what is left, what was charged and what the requests   *)
(* are told agree throughout every call.                                   *)
THEOREM BatchInvariance == Spec => []BatchInv
<1>1. QED
  BY BatchInit, BatchStep, PTL DEF Spec

(* No physical batch is larger than the runtime was configured for.        *)
THEOREM BatchesWithinBounds == Spec => []WithinBounds
<1>1. BatchInv => WithinBounds
  BY DEF BatchInv
<1>2. QED
  BY <1>1, BatchInvariance, PTL

(* Requests are refused for their own sake only, and the others are scored *)
(* completely or share one error.                                          *)
THEOREM OneFateForAll == Spec => []OneFate
<1>1. ASSUME BatchInv  PROVE OneFate
  <2>1. SUFFICES ASSUME pc = "returned"
        PROVE  /\ \A i \in DOMAIN requests :
                    outcome[i] = "input_error"
                      <=> \E k \in DOMAIN requests[i] : requests[i][k].size > MaxInput
               /\ Cardinality({outcome[i] : i \in DOMAIN requests} \ {"input_error"}) <= 1
               /\ \A i \in DOMAIN requests : outcome[i] = "response" => Complete(i)
    BY DEF OneFate
  <2>2. PICK good \in {"response", "engine_error"} :
          outcome = OwnOutcome(good) /\ (good = "response" => scored = Entries)
    BY <1>1, <2>1 DEF BatchInv, Fates
  <2>3. requests \in Calls
    BY <1>1 DEF BatchInv, CallTypes
  <2>4. ASSUME NEW i \in DOMAIN requests
        PROVE  outcome[i] = "input_error"
                 <=> \E k \in DOMAIN requests[i] : requests[i][k].size > MaxInput
    <3>1. outcome[i] = "input_error" <=> ~Admissible(requests[i])
      BY <2>2 DEF OwnOutcome
    <3>2. \A k \in DOMAIN requests[i] : requests[i][k].size \in Nat /\ MaxInput \in Nat
      BY <2>3, RowShape, BatchAssumption
    <3>3. QED
      BY <3>1, <3>2 DEF Admissible
  <2>5. Cardinality({outcome[i] : i \in DOMAIN requests} \ {"input_error"}) <= 1
    <3> DEFINE S == {outcome[i] : i \in DOMAIN requests} \ {"input_error"}
    <3>1. S \in SUBSET {good}
      BY <2>2 DEF OwnOutcome
    <3> HIDE DEF S
    <3>2. IsFiniteSet({good}) /\ Cardinality({good}) = 1
      BY FS_Singleton
    <3>3. Cardinality(S) <= 1
      BY <3>1, <3>2, FS_Subset
    <3>4. QED
      BY <3>3 DEF S
  <2>6. ASSUME NEW i \in DOMAIN requests, outcome[i] = "response"  PROVE Complete(i)
    <3>1. scored = Entries /\ Admissible(requests[i])
      BY <2>2, <2>6 DEF OwnOutcome
    <3>2. QED
      BY <2>3, <3>1, EntryShape DEF Complete
  <2>7. QED
    BY <2>4, <2>5, <2>6
<1>2. QED
  BY <1>1, BatchInvariance, PTL

(* Who gets a response is charged every token of its rows once.            *)
THEOREM UsageAlwaysExact == Spec => []UsageExact
<1>1. ASSUME BatchInv  PROVE UsageExact
  <2>1. SUFFICES ASSUME pc = "returned", NEW i \in DOMAIN requests, outcome[i] = "response"
        PROVE  usage[i] = Cardinality({t \in (DOMAIN requests[i]) \X (1..MaxInput) :
                                        t[2] <= requests[i][t[1]].size})
    BY DEF UsageExact
  <2>2. scored = Entries /\ Admissible(requests[i]) /\ requests \in Calls
    BY <1>1, <2>1 DEF BatchInv, Fates, OwnOutcome, CallTypes
  <2> DEFINE P == {t \in (DOMAIN requests[i]) \X (1..MaxInput) : t[2] <= requests[i][t[1]].size}
             T == TokensOf(Of(Entries, i))
             f == [t \in T |-> <<t[1].k, t[2]>>]
  <2>3. usage[i] = Cardinality(T)
    BY <1>1, <2>2 DEF BatchInv, Charged
  <2>4. ASSUME NEW t \in T
        PROVE  /\ f[t] \in P /\ t = <<Entry(i, f[t][1]), f[t][2]>>
    <3>1. /\ t[1] \in Entries /\ t[1].i = i /\ t[2] \in 1..MaxInput /\ t[2] <= t[1].size
          /\ t = <<t[1], t[2]>>
      BY DEF TokensOf, Of
    <3>2. /\ t[1].k \in DOMAIN requests[i] /\ t[1] = Entry(i, t[1].k)
          /\ t[1].size = requests[i][t[1].k].size
      BY <2>2, <3>1, EntryShape
    <3>3. QED
      BY <3>1, <3>2
  <2>5. ASSUME NEW p \in P  PROVE \E t \in T : f[t] = p
    <3>1. p[1] \in DOMAIN requests[i] /\ p[2] \in 1..MaxInput /\ p = <<p[1], p[2]>>
          /\ p[2] <= requests[i][p[1]].size
      OBVIOUS
    <3>2. /\ Entry(i, p[1]) \in Entries /\ Entry(i, p[1]).i = i /\ Entry(i, p[1]).k = p[1]
          /\ Entry(i, p[1]).size = requests[i][p[1]].size
      BY <2>2, <3>1, EntryShape DEF Entry
    <3>3. <<Entry(i, p[1]), p[2]>> \in T
      BY <3>1, <3>2 DEF TokensOf, Of
    <3>4. f[<<Entry(i, p[1]), p[2]>>] = p
      BY <3>1, <3>2, <3>3
    <3>5. QED
      BY <3>3, <3>4
  <2>6. f \in [T -> P]
    BY <2>4
  <2> HIDE DEF f, T, P
  <2>7. f \in Bijection(T, P)
    <3>1. f \in Injection(T, P)
      BY <2>4, <2>6 DEF Injection, IsInjective
    <3>2. f \in Surjection(T, P)
      BY <2>5, <2>6 DEF Surjection
    <3>3. QED
      BY <3>1, <3>2 DEF Bijection
  <2>8. IsFiniteSet(T)
    <3>1. Of(Entries, i) \in SUBSET Entries
      BY DEF Of
    <3>2. QED
      BY <2>2, <3>1, TokensFinite DEF T
  <2>9. Cardinality(P) = Cardinality(T)
    BY <2>7, <2>8, FS_Bijection DEF ExistsBijection
  <2>10. QED
    BY <2>3, <2>9 DEF P
<1>2. QED
  BY <1>1, BatchInvariance, PTL

-----------------------------------------------------------------------------
(* The start of the runtime: the artifact cache. *)

States == {"down", "looking", "fetching", "verifying", "executing", "exporting", "loaded", "failed"}

CacheTypes ==
  /\ disk \in [Files -> {"absent", "good", "bad"}]
  /\ litter \subseteq {"bytecode", "stray"}
  /\ proc \in [Processes -> States]
  /\ todo \in [Processes -> SUBSET Files]
  /\ package \in [Processes -> {"none", "partial", "whole"}]

(* A start has to verify everything; what it has verified stays good.      *)
VerifiedStays ==
  \A p \in Processes :
    /\ proc[p] \in {"looking", "fetching"} => todo[p] = Files
    /\ proc[p] = "verifying" => \A f \in Files \ todo[p] : disk[f] = "good"

CacheInv == CacheTypes /\ VerifiedStays /\ OnlyReviewed

-----------------------------------------------------------------------------
(* The inductive invariant holds at first. *)
LEMMA CacheInitInv == CacheInit => CacheInv
  BY SMT DEF CacheInit, Files, OnlyReviewed, CacheInv, CacheTypes, VerifiedStays, States

(* Types are kept: each step gives a process one of the states. *)
LEMMA CacheTypesKept == CacheInv /\ [CacheNext]_cacheVars => CacheTypes'
<1> SUFFICES ASSUME CacheInv, [CacheNext]_cacheVars PROVE CacheTypes'
  OBVIOUS
<1> USE DEF CacheInv, CacheTypes, States, Goto, diskVars, envVars
<1>1. ASSUME NEW p \in Processes,
             \/ Start(p) \/ Misconfigured(p)
             \/ Step(p) \/ Stop(p) \/ Crash(p)
      PROVE  CacheTypes'
  <2>1. CASE Start(p)
    BY <2>1, SMT DEF Start
  <2>2. CASE Misconfigured(p)
    BY <2>2, SMT DEF Misconfigured
  <2>3. CASE Look(p)
    BY <2>3, SMT DEF Look
  <2>4. CASE Fetch(p)
    BY <2>4, SMT DEF Fetch
  <2>5. CASE Fetched(p)
    BY <2>5, SMT DEF Fetched
  <2>6. CASE Unreachable(p)
    BY <2>6, SMT DEF Unreachable
  <2>7. CASE Verify(p)
    BY <2>7, SMT DEF Verify
  <2>8. CASE Verified(p)
    BY <2>8, SMT DEF Verified
  <2>9. CASE Execute(p)
    BY <2>9, SMT DEF Execute, Forgotten
  <2>10. CASE Export(p)
    BY <2>10, SMT DEF Export
  <2>11. CASE Stop(p)
    BY <2>11, SMT DEF Stop
  <2>12. CASE Crash(p)
    BY <2>12, SMT DEF Crash
  <2> QED
    BY <1>1, <2>1, <2>2, <2>3, <2>4, <2>5, <2>6, <2>7, <2>8, <2>9, <2>10, <2>11, <2>12
       DEF Step
<1>2. CASE Outage \/ Repaired \/ UNCHANGED cacheVars
  <2>1. UNCHANGED <<disk, litter, proc, todo, package>>
    BY <1>2 DEF Outage, Repaired, cacheVars
  <2> QED
    BY <2>1
<1>3. CASE Damage
  <2>1. UNCHANGED <<proc, todo, package>>
    BY <1>3 DEF Damage
  <2>2. CASE /\ \E f \in Files, s \in {"absent", "bad"} : disk' = [disk EXCEPT ![f] = s]
             /\ UNCHANGED litter
    BY <2>1, <2>2
  <2>3. CASE litter' = litter \cup {"stray"} /\ UNCHANGED disk
    BY <2>1, <2>3
  <2> QED
    BY <1>3, <2>2, <2>3 DEF Damage
<1> QED
  BY <1>1, <1>2, <1>3 DEF CacheNext

(* The invariant is kept by a step of one process that changes no file:    *)
(* the other processes keep what they had.                                 *)
LEMMA StartKeeps ==
  ASSUME CacheInv, CacheTypes', NEW p \in Processes,
         \/ Start(p) \/ Misconfigured(p) \/ Look(p) \/ Fetched(p)
         \/ Unreachable(p) \/ Verify(p) \/ Verified(p) \/ Execute(p)
         \/ Export(p) \/ Stop(p) \/ Crash(p)
  PROVE  (VerifiedStays /\ OnlyReviewed)'
<1> USE DEF OnlyReviewed, AllGood, Goto, CacheInv, CacheTypes, VerifiedStays,
            States
<1>1. CASE Start(p)
  BY <1>1, SMT DEF Start, diskVars, envVars
<1>2. CASE Misconfigured(p)
  BY <1>2, SMT DEF Misconfigured, diskVars, envVars
<1>3. CASE Look(p)
  BY <1>3, SMT DEF Look, diskVars, envVars
<1>4. CASE Fetched(p)
  BY <1>4, SMT DEF Fetched, diskVars, envVars
<1>5. CASE Unreachable(p)
  BY <1>5, SMT DEF Unreachable, diskVars, envVars
<1>6. CASE Verify(p)
  BY <1>6, SMT DEF Verify, diskVars, envVars
<1>7. CASE Verified(p)
  BY <1>7, SMT DEF Verified, Unexpected, diskVars, envVars
<1>8. CASE Execute(p)
  BY <1>8, SMT DEF Execute, Forgotten, diskVars, envVars
<1>9. CASE Export(p)
  BY <1>9, SMT DEF Export, diskVars, envVars
<1>10. CASE Stop(p)
  BY <1>10, SMT DEF Stop, diskVars, envVars
<1>11. CASE Crash(p)
  BY <1>11, SMT DEF Crash, diskVars, envVars
<1> QED
  BY <1>1, <1>2, <1>3, <1>4, <1>5, <1>6, <1>7, <1>8, <1>9, <1>10, <1>11

(* Files only change for the better while somebody reads them. *)
LEMMA FilesKeep ==
  ASSUME CacheInv, CacheTypes',
         (\E p \in Processes : Fetch(p)) \/ Outage \/ Repaired \/ Damage
  PROVE  (VerifiedStays /\ OnlyReviewed)'
<1> USE DEF CacheInv, CacheTypes, VerifiedStays, OnlyReviewed, AllGood, States
<1>1. CASE \E p \in Processes : Fetch(p)
  BY <1>1, SMT DEF Fetch, envVars
<1>2. CASE Outage \/ Repaired
  BY <1>2, SMT DEF Outage, Repaired, diskVars
<1>3. CASE Damage
  BY <1>3, SMT DEF Damage, Reading
<1> QED
  BY <1>1, <1>2, <1>3

(* Every step keeps the inductive invariant. *)
LEMMA CacheStep == CacheInv /\ [CacheNext]_cacheVars => CacheInv'
<1> SUFFICES ASSUME CacheInv, [CacheNext]_cacheVars PROVE CacheInv'
  OBVIOUS
<1>1. CacheTypes'
  BY CacheTypesKept
<1>2. CASE CacheNext
  BY <1>1, <1>2, StartKeeps, FilesKeep DEF CacheNext, Step, CacheInv
<1>3. CASE UNCHANGED cacheVars
  BY <1>3 DEF cacheVars, CacheInv, CacheTypes, VerifiedStays, OnlyReviewed, AllGood
<1> QED
  BY <1>2, <1>3

(* Types are correct, and what a start has verified stays good until it is *)
(* done: nobody but a download writes files then, and it only repairs.     *)
THEOREM CacheInvariance == CacheSpec => []CacheInv
<1>1. CacheInit => CacheInv
  BY CacheInitInv
<1>2. CacheInv /\ [CacheNext]_cacheVars => CacheInv'
  BY CacheStep
<1> QED
  BY <1>1, <1>2, PTL DEF CacheSpec

(* Nothing is executed or exported from a directory that is not complete   *)
(* and correct, and no half package is left behind.                        *)
THEOREM AlwaysReviewed == CacheSpec => []OnlyReviewed
<1>1. CacheInv => OnlyReviewed
  BY DEF CacheInv
<1> QED
  BY <1>1, CacheInvariance, PTL

(* A complete directory is enough for every start. *)
THEOREM CachedIsEnough == CacheSpec => CachedStartsOffline
<1> DEFINE Offline ==
      AllGood => \A p \in Processes :
        /\ proc[p] = "looking" => proc'[p] # "fetching"
        /\ proc[p] = "verifying" => proc'[p] # "failed"
<1>1. CacheInv /\ [CacheNext]_cacheVars => [Offline]_cacheVars
  <2> SUFFICES ASSUME CacheInv, CacheNext, AllGood, NEW p \in Processes
               PROVE  /\ proc[p] = "looking" => proc'[p] # "fetching"
                      /\ proc[p] = "verifying" => proc'[p] # "failed"
    OBVIOUS
  <2> USE DEF CacheInv, CacheTypes, AllGood, Goto
  <2>1. CASE \E q \in Processes : \/ Start(q) \/ Misconfigured(q) \/ Execute(q)
                                  \/ Export(q) \/ Stop(q) \/ Crash(q)
    BY <2>1, SMT DEF Start, Misconfigured, Execute, Export, Stop, Crash
  <2>2. CASE \E q \in Processes : Look(q)
    BY <2>2, SMT DEF Look, Cached, Files
  <2>3. CASE \E q \in Processes : Fetch(q) \/ Fetched(q) \/ Unreachable(q)
    BY <2>3, SMT DEF Fetch, Fetched, Unreachable
  <2>4. CASE \E q \in Processes : Verify(q)
    BY <2>4, SMT DEF Verify, Due, Files
  <2>5. CASE \E q \in Processes : Verified(q)
    <3>1. Unexpected = {}
      BY DEF Unexpected
    <3> QED
      BY <2>5, <3>1, SMT DEF Verified
  <2>6. CASE Outage \/ Repaired \/ Damage
    BY <2>6, SMT DEF Outage, Repaired, Damage
  <2> QED
    BY <2>1, <2>2, <2>3, <2>4, <2>5, <2>6 DEF CacheNext, Step
<1> QED
  BY <1>1, CacheInvariance, PTL DEF CacheSpec, CachedStartsOffline
=============================================================================
