------------------------- MODULE MCGenerationServer -------------------------
(***************************************************************************)
(* Instances of GenerationServer for TLC: r1 asks two questions, r2 one,   *)
(* which may be about images.                                              *)
(***************************************************************************)
EXTENDS GenerationServer, TLC

CONSTANTS r1, r2, q1, q2, q3

TwoRequests == {r1, r2}
OneOfVision == {r2}
TwoAndOne   == [r \in {r1, r2} |-> IF r = r1 THEN {q1, q2} ELSE {q3}]

(* The questions of r1 are interchangeable. *)
QuestionSymmetry == Permutations({q1, q2})
=============================================================================
