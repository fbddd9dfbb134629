---------------------------- MODULE FifoMailbox ----------------------------
(***************************************************************************)
(* What a service's mailbox promises: messages are handed to the script in *)
(* the order they were sent, each once, any number at a time.  Only what   *)
(* arrives before the script has registered its callback may be discarded. *)
(***************************************************************************)
EXTENDS Naturals, Sequences

VARIABLES
  queue,      \* The messages sent and not handed over yet.
  delivered,  \* The messages handed to the script, in order.
  started     \* The script has registered its callback.

vars == <<queue, delivered, started>>

Init == queue = << >> /\ delivered = << >> /\ started = FALSE

Send ==
  /\ Len(queue') = Len(queue) + 1
  /\ SubSeq(queue', 1, Len(queue)) = queue
  /\ UNCHANGED <<delivered, started>>

Start == started' = TRUE /\ UNCHANGED <<queue, delivered>>

\* The first n messages leave the queue.
Takes(n) == queue' = SubSeq(queue, n + 1, Len(queue))

Deliver ==
  \E n \in 1 .. Len(queue) :
    /\ started
    /\ Takes(n)
    /\ delivered' = delivered \o SubSeq(queue, 1, n)
    /\ UNCHANGED started

Discard ==
  \E n \in 1 .. Len(queue) :
    /\ ~started
    /\ Takes(n)
    /\ UNCHANGED <<delivered, started>>

Next == Send \/ Start \/ Deliver \/ Discard

Spec == Init /\ [][Next]_vars
=============================================================================
