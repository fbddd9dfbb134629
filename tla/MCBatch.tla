------------------------------ MODULE MCBatch ------------------------------
(***************************************************************************)
(* Instances of MessageBatch for TLC.                                      *)
(***************************************************************************)
EXTENDS MessageBatch
=============================================================================
