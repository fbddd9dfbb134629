------------------------------ MODULE MCBuffer ------------------------------
(***************************************************************************)
(* Instances of SocketBuffer for TLC.                                      *)
(***************************************************************************)
EXTENDS SocketBuffer

\* A separator of two bytes that may lie across two messages, and overlap
\* with itself.
Newlines == <<1, 1>>
=============================================================================
