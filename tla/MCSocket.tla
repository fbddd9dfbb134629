------------------------------ MODULE MCSocket ------------------------------
(***************************************************************************)
(* Instances of Socket for TLC.                                            *)
(***************************************************************************)
EXTENDS Socket

CONSTANTS r, c, d
=============================================================================
