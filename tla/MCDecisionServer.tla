-------------------------- MODULE MCDecisionServer --------------------------
(***************************************************************************)
(* Instances of DecisionServer for TLC.                                    *)
(***************************************************************************)
EXTENDS DecisionServer

CONSTANTS r1, r2, r3

ThreeRequests == {r1, r2, r3}

=============================================================================
