-------------------------- MODULE MCDecisionEngine --------------------------
(***************************************************************************)
(* Instances of DecisionEngine for TLC.  A batch holds two items or four   *)
(* tokens.  Where it is the tighter limit, prompts take two to five, so    *)
(* that five is oversized, two of two fill a batch, and three and two do   *)
(* not go together; where the model takes three only, four is too long.    *)
(***************************************************************************)
EXTENDS DecisionEngine

SmallWorkloads == {<<>>, <<1>>, <<3>>, <<1, 2>>, <<2, 1>>, <<1, 1, 1>>, <<2, 2>>, <<1, 1, 1, 1>>}
=============================================================================
