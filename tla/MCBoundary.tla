----------------------------- MODULE MCBoundary -----------------------------
(***************************************************************************)
(* Instances of Boundary for TLC.                                          *)
(***************************************************************************)
EXTENDS Boundary, TLC

CONSTANTS c1, c2, c3, c4, c5

FiveCalls == {c1, c2, c3, c4, c5}
FourInference == {c1, c2, c3, c4}

(* c5 is for another route. *)
InferenceSymmetry == Permutations(FourInference)
=============================================================================
