----------------------------- MODULE ByteStream -----------------------------
(***************************************************************************)
(* What the reader of a socket is promised: the bytes come out in the      *)
(* order they went in, in pieces or in lines, each once.  A stream that    *)
(* was broken off promises nothing.                                        *)
(***************************************************************************)
EXTENDS Naturals, Sequences

CONSTANT Sep   \* The separator of lines.

VARIABLES
  unread,   \* The bytes that have come and were not read.
  got,      \* The bytes read last.
  broken

vars == <<unread, got, broken>>

Init == unread = << >> /\ got = << >> /\ broken = FALSE

\* A line starts at the front of s and ends before position n + 1.
LineEnds(s, n) ==
  /\ SubSeq(s, n + 1, n + Len(Sep)) = Sep
  /\ \A k \in 0 .. n - 1 : SubSeq(s, k + 1, k + Len(Sep)) # Sep

Arrive ==
  /\ Len(unread') >= Len(unread)
  /\ SubSeq(unread', 1, Len(unread)) = unread
  /\ UNCHANGED <<got, broken>>

Read ==
  \E n \in 0 .. Len(unread) :
    /\ got' = SubSeq(unread, 1, n)
    /\ unread' = SubSeq(unread, n + 1, Len(unread))
    /\ UNCHANGED broken

ReadLine ==
  \E n \in 0 .. Len(unread) - Len(Sep) :
    /\ LineEnds(unread, n)
    /\ got' = SubSeq(unread, 1, n)
    /\ unread' = SubSeq(unread, n + Len(Sep) + 1, Len(unread))
    /\ UNCHANGED broken

Break == broken' = TRUE

Next == broken \/ Arrive \/ Read \/ ReadLine \/ Break

Spec == Init /\ [][Next]_vars
=============================================================================
