------------------------------ MODULE MCSleep ------------------------------
(***************************************************************************)
(* Instances of SleepWakeup for TLC.                                       *)
(***************************************************************************)
EXTENDS SleepWakeup, TLC

CONSTANTS t1, t2, k1, k2

\* Every task sleeps on a token of its own.
OwnToken == t1 :> k1 @@ t2 :> k2
=============================================================================
