----------------------------- MODULE MCKaiBatch -----------------------------
(***************************************************************************)
(* Instances of KaiBatch for TLC: every call of up to two requests of up   *)
(* to two rows, every one of a single request with four, and some that are *)
(* too large.                                                              *)
(***************************************************************************)
EXTENDS KaiBatch

TwoTypes == {"Noul", "Score"}
Rows == [type : TwoTypes, size : 1..4]
SmallRequests == [1..1 -> Rows] \cup [1..2 -> Rows]
SmallCalls ==
  {<<>>} \cup [1..1 -> SmallRequests] \cup [1..2 -> SmallRequests]
         \cup [1..1 -> [1..4 -> Rows]]
         \cup [1..3 -> [1..1 -> Rows]]
         \cup {<<<<r>>, <<r>>, <<r, r, r>>>> : r \in Rows}
         \cup {<<<<r>>, <<r>>, <<r>>, <<r>>>> : r \in Rows}
=============================================================================
