----------------------------- MODULE MCSessions -----------------------------
(***************************************************************************)
(* Instance of Sessions for TLC.                                           *)
(***************************************************************************)
EXTENDS Sessions

CONSTANTS c1, c2, c3, x1, g1

ThreeChats == {c1, c2, c3}
OneReset   == {x1}
OneRead    == {g1}
=============================================================================
