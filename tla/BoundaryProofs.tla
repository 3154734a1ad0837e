--------------------------- MODULE BoundaryProofs ---------------------------
(***************************************************************************)
(* The admission counter of BoundaryMiddleware, for any number of calls    *)
(* and places.  The inductive invariant adds to the type that a place is   *)
(* only held by calls that went through Admit.                             *)
(***************************************************************************)
EXTENDS Boundary, FiniteSetTheorems, TLAPS

USE CallsAssumption, LimitAssumption

Stages == {"new", "rejecting", "reading", "refusing body", "app", "done"}

Shape ==
  /\ stage \in [Calls -> Stages]
  /\ status \in [Calls -> Statuses]
  /\ admitted \subseteq Limited
  /\ active \in 0..MaxRequests
  /\ \A c \in admitted : stage[c] # "new"

IInv == Shape /\ PlacesBalanced

(* The calls in progress are finitely many: their number is a natural.     *)
LEMMA FinitelyMany ==
  ASSUME admitted \subseteq Limited
  PROVE  IsFiniteSet(InProgress) /\ Cardinality(InProgress) \in Nat
<1>1. InProgress \subseteq Calls
  BY DEF InProgress
<1>2. IsFiniteSet(InProgress)
  BY <1>1, FS_Subset
<1> QED
  BY <1>2, FS_CardinalityType

(* A step that ends no admitted call and admits none keeps the count. *)
LEMMA CountKept ==
  ASSUME IInv, admitted' = admitted, active' = active,
         \A d \in admitted : stage'[d] = "done" <=> stage[d] = "done"
  PROVE  PlacesBalanced'
<1>1. InProgress' = InProgress
  BY DEF InProgress
<1> QED
  BY <1>1 DEF IInv, PlacesBalanced

(* Every way a call can end gives back its place, and no other. *)
LEMMA Ending ==
  ASSUME IInv, NEW c \in Calls, stage[c] # "done", stage[c] # "new",
         Goto(c, "done"), Release(c), admitted' = admitted,
         status' \in [Calls -> Statuses]
  PROVE  IInv'
<1>1. /\ stage' \in [Calls -> Stages]
      /\ stage'[c] = "done"
      /\ \A d \in Calls \ {c} : stage'[d] = stage[d]
  BY DEF IInv, Shape, Goto, Stages
<1>2. \A d \in admitted : stage'[d] # "new"
  BY <1>1 DEF IInv, Shape
<1>3. CASE c \in admitted
  <2>1. InProgress' = InProgress \ {c} /\ c \in InProgress
    BY <1>1, <1>3 DEF InProgress, IInv, Shape
  <2>2. /\ Cardinality(InProgress') = Cardinality(InProgress) - 1
        /\ Cardinality(InProgress') \in Nat
    <3>1. IsFiniteSet(InProgress) /\ IsFiniteSet(InProgress \ {c})
      BY FinitelyMany, FS_RemoveElement DEF IInv, Shape
    <3>2. Cardinality(InProgress \ {c}) = Cardinality(InProgress) - 1
      BY <2>1, <3>1, FS_RemoveElement
    <3> QED
      BY <2>1, <3>1, <3>2, FS_CardinalityType
  <2>3. active' = active - 1
    BY <1>3 DEF Release
  <2>4. PlacesBalanced'
    BY <2>2, <2>3 DEF IInv, PlacesBalanced
  <2>5. active' \in 0..MaxRequests
    BY <2>2, <2>3, <2>4 DEF IInv, Shape, PlacesBalanced
  <2> QED
    BY <1>1, <1>2, <2>4, <2>5 DEF IInv, Shape
<1>4. CASE c \notin admitted
  <2>1. active' = active
    BY <1>4 DEF Release
  <2>2. \A d \in admitted : stage'[d] = "done" <=> stage[d] = "done"
    BY <1>1, <1>4 DEF IInv, Shape
  <2> QED
    BY <1>1, <1>2, <2>1, <2>2, CountKept DEF IInv, Shape
<1> QED
  BY <1>3, <1>4

(* A step of an unfinished call that leaves the counter alone and does not *)
(* end the call.                                                           *)
LEMMA Passing ==
  ASSUME IInv, NEW c \in Calls, NEW s \in Stages \ {"new", "done"}, stage[c] # "done",
         Goto(c, s), admitted' = admitted, active' = active,
         status' \in [Calls -> Statuses]
  PROVE  IInv'
<1>1. /\ stage' \in [Calls -> Stages]
      /\ stage'[c] = s
      /\ \A d \in Calls \ {c} : stage'[d] = stage[d]
  BY DEF IInv, Shape, Goto
<1>2. \A d \in admitted : stage'[d] # "new" /\ (stage'[d] = "done" <=> stage[d] = "done")
  BY <1>1 DEF IInv, Shape
<1> QED
  BY <1>1, <1>2, CountKept DEF IInv, Shape

(* A new call takes a place. *)
LEMMA Admitting ==
  ASSUME IInv, NEW c \in Calls, Admit(c)
  PROVE  IInv'
<1>1. /\ stage' \in [Calls -> Stages]
      /\ stage'[c] = "reading"
      /\ \A d \in Calls \ {c} : stage'[d] = stage[d]
  BY DEF IInv, Shape, Admit, Goto, Stages
<1>2. c \notin admitted /\ c \in Limited /\ admitted' = admitted \cup {c}
  BY DEF IInv, Shape, Admit
<1>3. InProgress' = InProgress \cup {c} /\ c \notin InProgress
  BY <1>1, <1>2 DEF InProgress, IInv, Shape
<1>4. Cardinality(InProgress') = Cardinality(InProgress) + 1
  BY <1>3, FinitelyMany, FS_AddElement DEF IInv, Shape
<1>5. active' = active + 1 /\ active < MaxRequests /\ status' = status
  BY DEF Admit, HasPlace
<1>6. \A d \in admitted' : stage'[d] # "new"
  BY <1>1, <1>2 DEF IInv, Shape
<1> QED
  BY <1>1, <1>2, <1>4, <1>5, <1>6 DEF IInv, Shape, PlacesBalanced

(* At the start no call is in progress and the counter is zero.            *)
LEMMA InitInv == BoundaryInit => IInv
<1> SUFFICES ASSUME BoundaryInit PROVE IInv
  OBVIOUS
<1>1. InProgress = {}
  BY DEF BoundaryInit, InProgress
<1>2. Cardinality(InProgress) = 0
  BY <1>1, FS_EmptySet
<1> QED
  BY <1>2 DEF BoundaryInit, IInv, Shape, PlacesBalanced, Stages, Statuses

(* send() notes a status that the metrics know. *)
LEMMA StatusTyped ==
  ASSUME IInv, NEW c, NEW code \in Statuses, Start(c, code)
  PROVE  status' \in [Calls -> Statuses]
  BY DEF IInv, Shape, Start

(* The steps before and at the gate (authentication, admission, 529) keep  *)
(* the invariant.                                                          *)
LEMMA GateStep ==
  ASSUME IInv, NEW c \in Calls, Gate(c)
  PROVE  IInv'
<1> USE DEF Stages
<1>0. status \in [Calls -> Statuses]
  BY DEF IInv, Shape
<1>1. CASE Unauthorized(c)
  <2>1. /\ Goto(c, "rejecting") /\ Start(c, 401)
        /\ stage[c] # "done" /\ admitted' = admitted /\ active' = active
    BY <1>1 DEF Unauthorized, Reject
  <2>2. status' \in [Calls -> Statuses]
    <3>1. 401 \in Statuses
      BY DEF Statuses
    <3> QED
      BY <2>1, <3>1, StatusTyped
  <2> QED
    BY <2>1, <2>2, Passing
<1>2. CASE PassThrough(c)
  BY <1>0, <1>2, Passing DEF PassThrough
<1>3. CASE Overloaded(c)
  <2>1. /\ Goto(c, "rejecting") /\ Start(c, 529)
        /\ stage[c] # "done" /\ admitted' = admitted /\ active' = active
    BY <1>3 DEF Overloaded, Reject
  <2>2. status' \in [Calls -> Statuses]
    <3>1. 529 \in Statuses
      BY DEF Statuses
    <3> QED
      BY <2>1, <3>1, StatusTyped
  <2> QED
    BY <2>1, <2>2, Passing
<1>4. CASE Admit(c)
  BY <1>4, Admitting
<1>5. CASE TooLarge(c)
  <2>1. /\ Goto(c, "refusing body") /\ Start(c, 413)
        /\ stage[c] # "done" /\ admitted' = admitted /\ active' = active
    BY <1>5 DEF TooLarge
  <2>2. status' \in [Calls -> Statuses]
    <3>1. 413 \in Statuses
      BY DEF Statuses
    <3> QED
      BY <2>1, <3>1, StatusTyped
  <2> QED
    BY <2>1, <2>2, Passing
<1>6. CASE BodyTimeout(c)
  <2>1. /\ Goto(c, "rejecting") /\ Start(c, 408)
        /\ stage[c] # "done" /\ admitted' = admitted /\ active' = active
    BY <1>6 DEF BodyTimeout, Reject, Timed
  <2>2. status' \in [Calls -> Statuses]
    <3>1. 408 \in Statuses
      BY DEF Statuses
    <3> QED
      BY <2>1, <3>1, StatusTyped
  <2> QED
    BY <2>1, <2>2, Passing
<1>7. CASE BodyComplete(c)
  BY <1>0, <1>7, Passing DEF BodyComplete
<1>8. CASE Disconnect(c)
  BY <1>0, <1>8, Ending DEF Disconnect
<1>9. CASE Rejected(c)
  BY <1>0, <1>9, Ending DEF Rejected
<1>10. CASE Torn(c)
  BY <1>0, <1>10, Ending DEF Torn
<1> QED
  BY <1>1, <1>2, <1>3, <1>4, <1>5, <1>6, <1>7, <1>8, <1>9, <1>10 DEF Gate

(* Every step of the middleware, and a stutter, keeps the invariant.       *)
LEMMA InvStep == IInv /\ [BoundaryNext]_bvars => IInv'
<1> SUFFICES ASSUME IInv, [BoundaryNext]_bvars PROVE IInv'
  OBVIOUS
<1>1. ASSUME NEW c \in Calls, Gate(c) PROVE IInv'
  BY <1>1, GateStep
<1>2. ASSUME NEW c \in Calls, NEW code \in {200, 500}, AppEnds(c, code) PROVE IInv'
  <2>1. status' \in [Calls -> Statuses]
    BY <1>2 DEF IInv, Shape, AppEnds, Start, Statuses
  <2> QED
    BY <1>2, <2>1, Ending DEF AppEnds
<1>3. CASE UNCHANGED bvars
  BY <1>3 DEF bvars, IInv, Shape, PlacesBalanced, InProgress
<1> QED
  BY <1>1, <1>2, <1>3 DEF BoundaryNext, AllDone

(* The inductive invariant holds throughout: types, an exact counter, and  *)
(* places held only by calls past admission.                               *)
THEOREM BoundaryInvariance == BoundarySpec => []IInv
  BY InitInv, InvStep, PTL DEF BoundarySpec

(* The counter never leaves 0..max_requests. *)
THEOREM BoundaryTypeCorrect == BoundarySpec => []BoundaryTypeOK
<1>1. IInv => BoundaryTypeOK
  BY DEF IInv, Shape, BoundaryTypeOK, Stages
<1> QED
  BY <1>1, BoundaryInvariance, PTL

(* However its calls end, the middleware leaks no place. *)
THEOREM PlacesAlwaysBalanced == BoundarySpec => []PlacesBalanced
<1>1. IInv => PlacesBalanced
  BY DEF IInv
<1> QED
  BY <1>1, BoundaryInvariance, PTL

(* A 529 of the middleware always means max_requests calls in progress. *)
THEOREM OverloadAlwaysReal == BoundarySpec => OverloadIsReal
<1> DEFINE Real == \A c \in Calls : status'[c] = 529 /\ status[c] # 529 =>
                     Cardinality(InProgress) = MaxRequests
<1>1. IInv /\ [BoundaryNext]_bvars => [Real]_bvars
  <2> SUFFICES ASSUME IInv, BoundaryNext, NEW c \in Calls,
                      status'[c] = 529, status[c] # 529
               PROVE  Cardinality(InProgress) = MaxRequests
    BY DEF bvars
  <2>1. status \in [Calls -> Statuses]
    BY DEF IInv, Shape
  <2>2. ASSUME NEW d \in Calls, NEW code, Start(d, code) PROVE code = 529
    BY <2>1, <2>2 DEF Start
  <2>3. status' # status
    OBVIOUS
  <2>4. PICK d \in Calls : Gate(d) \/ AppEnds(d, 200) \/ AppEnds(d, 500)
    BY <2>3 DEF BoundaryNext, AllDone, bvars
  <2>5. ~Start(d, 200) /\ ~Start(d, 500) /\ ~Start(d, 401) /\ ~Start(d, 408) /\ ~Start(d, 413)
    <3>1. ASSUME NEW code \in {200, 500, 401, 408, 413}, Start(d, code) PROVE FALSE
      BY <2>2, <3>1
    <3> QED
      BY <3>1
  <2>6. ~(Unauthorized(d) \/ TooLarge(d) \/ BodyTimeout(d) \/ AppEnds(d, 200) \/ AppEnds(d, 500))
    BY <2>5 DEF Unauthorized, TooLarge, BodyTimeout, AppEnds, Reject
  <2>7. ~(PassThrough(d) \/ Admit(d) \/ BodyComplete(d) \/ Disconnect(d) \/ Rejected(d) \/ Torn(d))
    BY <2>3 DEF PassThrough, Admit, BodyComplete, Disconnect, Rejected, Torn
  <2>8. Overloaded(d)
    BY <2>4, <2>6, <2>7 DEF Gate
  <2> QED
    BY <2>8 DEF Overloaded, IInv, Shape, PlacesBalanced
<1> QED
  BY <1>1, BoundaryInvariance, PTL DEF BoundarySpec, OverloadIsReal
=============================================================================
