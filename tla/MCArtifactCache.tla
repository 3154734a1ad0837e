--------------------------- MODULE MCArtifactCache ---------------------------
(***************************************************************************)
(* Instance of ArtifactCache for TLC: two servers that download and one    *)
(* process that is given their directory.                                  *)
(***************************************************************************)
EXTENDS ArtifactCache

CONSTANTS server, other, local, code, weights, manifest

ThreeProcesses == {server, other, local}
OneGiven       == {local}
TwoPayloads    == {code, weights}
=============================================================================
