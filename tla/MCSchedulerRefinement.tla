----------------------- MODULE MCSchedulerRefinement -----------------------
(***************************************************************************)
(* Instance of SchedulerRefinement for TLC: four calls, one malformed and  *)
(* one that names another model, against a queue and batches that are      *)
(* smaller than the calls.                                                 *)
(***************************************************************************)
EXTENDS SchedulerRefinement

CONSTANTS r1, r2, r3, r4

FourRequests == {r1, r2, r3, r4}
OneMalformed == {r1}
OneForeign   == {r4}
=============================================================================
