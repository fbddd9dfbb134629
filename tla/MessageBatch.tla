---------------------------- MODULE MessageBatch ----------------------------
(***************************************************************************)
(* How messages reach the JavaScript of a service (src/lib.rs, the         *)
(* dispatch of src/mod_skynet.rs, dispatch_message of index.ts).           *)
(*                                                                         *)
(* The host copies the messages of a round one behind the other into a     *)
(* buffer that it shares with the script, and calls the script once, with  *)
(* the number of bytes.  The buffer is replaced when it is too small; a    *)
(* bit of the number tells the script to look at the new one.              *)
(***************************************************************************)
EXTENDS Integers, Sequences, FiniteSets

CONSTANTS
  Size,       \* The sizes of message payloads.
  HeadSize,   \* message_head_sz: the bytes of a message's head.
  FlushSize,  \* A buffer with more bytes than this is handed over at once.
  NewBit,     \* The value of the bit that announces a new buffer.
  MaxRound,   \* The most messages of a round.
  MaxSent,    \* Bound: the ordinary messages sent to the service.
  MaxInbox    \* Bound: the messages in the mailbox.

ASSUME SizeAssumption ==
  /\ Size \subseteq Nat
  /\ HeadSize \in Nat \ {0}
  /\ FlushSize \in Nat
  /\ NewBit \in Nat \ {0}
  /\ MaxRound \in Nat \ {0}
  /\ MaxSent \in Nat
  /\ MaxInbox \in Nat

VARIABLES
  inbox,      \* The mailbox: [kind, id, sz].
  sent,       \* The ordinary messages sent so far.
  inRound,    \* A worker is between the two calls of dispatch_th_cb.
  remainder_message,
  cap,        \* The size of the shared buffer, 0 before the first.
  content,    \* Its messages, from offset 0: [id, at].
  bs_offset,
  bs_flag,
  view,       \* The buffer the script looks at: "none", "current" or "old".
  old,        \* The messages of the buffer that an "old" view shows.
  cb,         \* The script has registered its callback.
  delivered,  \* History: the messages dispatched by the script, in order.
  lost,       \* History: how many were handed over before there was a callback.
  last        \* History: the kind of the message dispatched last.

hostVars   == <<inRound, remainder_message>>
bufferVars == <<cap, content, bs_offset, bs_flag>>
scriptVars == <<view, old, delivered, lost>>
vars == <<inbox, sent, hostVars, bufferVars, scriptVars, cb, last>>

Kind  == {"ordinary", "async"}
Entry == [id : Nat, at : Nat]

TypeOK ==
  /\ inbox \in Seq([kind : Kind, id : Nat, sz : Size])
  /\ sent \in Nat
  /\ inRound \in BOOLEAN
  /\ remainder_message \in Nat
  /\ cap \in Nat
  /\ content \in Seq(Entry)
  /\ bs_offset \in Nat
  /\ bs_flag \in {0, 1}
  /\ view \in {"none", "current", "old"}
  /\ old \in Seq(Entry)
  /\ cb \in BOOLEAN
  /\ delivered \in Seq(Nat)
  /\ lost \in Nat
  /\ last \in Kind

Init ==
  /\ inbox = << >>
  /\ sent = 0
  /\ inRound = FALSE
  /\ remainder_message = 0
  /\ cap = 0
  /\ content = << >>
  /\ bs_offset = 0
  /\ bs_flag = 0
  /\ view = "none"
  /\ old = << >>
  /\ cb = FALSE
  /\ delivered = << >>
  /\ lost = 0
  /\ last = "ordinary"

-----------------------------------------------------------------------------

\* A message arrives: an ordinary one, or the PTYPE_DENO_ASYNC with which a
\* waker asks for the event loop to be polled.
Send(kind, sz) ==
  /\ sent < MaxSent
  /\ Len(inbox) < MaxInbox
  /\ sent' = sent + IF kind = "ordinary" THEN 1 ELSE 0
  /\ inbox' = Append(inbox, [kind |-> kind, id |-> sent', sz |-> sz])
  /\ UNCHANGED <<hostVars, bufferVars, scriptVars, cb, last>>

\* get_shared_bs: the buffer serves when it has this many bytes.
Fits(bytes) == cap # 0 /\ cap >= bytes

\* The messages copied since the script was last called.
Batch == IF bs_offset = 0 THEN << >> ELSE content

\* Faulty variant of CallWord: a new buffer is never announced.
CallWordBare(bytes, flag) == IF flag \in {0, 1} THEN bytes ELSE 0

\* The number of bytes that the script is called with, and the bit that tells
\* it of a new buffer.
CallWord(bytes, flag) ==
  IF flag = 1 /\ (bytes \div NewBit) % 2 = 0 THEN bytes + NewBit ELSE bytes

\* How many messages the loop of dispatch_message finds in mem: those whose
\* heads end within the bytes it was told of.
Dispatched(mem, bytes) ==
  CHOOSE n \in 0 .. Len(mem) :
    /\ \A k \in 1 .. n : mem[k].at + HeadSize <= bytes
    /\ n < Len(mem) => mem[n + 1].at + HeadSize > bytes

\* Faulty variant of Copy: the batch is not copied into a new buffer.
CopyFresh(m) ==
  LET end == bs_offset + HeadSize + m.sz
  IN  /\ content' = Append(IF Fits(end) THEN Batch ELSE << >>, [id |-> m.id, at |-> bs_offset])
      /\ cap' = IF Fits(end) THEN cap ELSE end * 2
      /\ old' = IF ~Fits(end) /\ view = "current" THEN content ELSE old

\* Copy m behind the messages of the batch.  A buffer that is too small is
\* replaced by one of twice the size needed, with the batch copied over; the
\* script goes on looking at the old one until it is told.
Copy(m) ==
  LET end   == bs_offset + HeadSize + m.sz
      stale == ~Fits(end) /\ view = "current"
  IN  /\ content' = Append(Batch, [id |-> m.id, at |-> bs_offset])
      /\ cap' = IF Fits(end) THEN cap ELSE end * 2
      /\ old' = IF stale THEN content ELSE old

\* The view and the flag after m was copied.
ViewAfter(m) ==
  IF ~Fits(bs_offset + HeadSize + m.sz) /\ view = "current" THEN "old" ELSE view

\* Faulty variants of FlagAfter: the flag counts the replacements, or tells
\* only of the last message.
FlagCounts(m) == IF Fits(bs_offset + HeadSize + m.sz) THEN bs_flag ELSE bs_flag + 1
FlagOfLast(m) == IF Fits(bs_offset + HeadSize + m.sz) THEN 0 ELSE 1

FlagAfter(m) == IF Fits(bs_offset + HeadSize + m.sz) THEN bs_flag ELSE 1

\* dispatch_message: look at the new buffer if told to, or if there is none
\* yet, and dispatch what is in it.
CallScript(word, viewed) ==
  LET fresh == viewed = "none" \/ word \div NewBit # 0
      mem   == IF fresh \/ viewed = "current" THEN content' ELSE old'
      n     == Dispatched(mem, word % NewBit)
  IN  /\ view' = IF fresh THEN "current" ELSE viewed
      /\ delivered' = delivered \o [k \in 1 .. n |-> mem[k].id]
      /\ UNCHANGED lost

\* Faulty variant of Hold: the last message of a round may be held as well.
HoldLast(m, remainder) ==
  LET end == bs_offset + HeadSize + m.sz
  IN  /\ remainder >= 0 /\ end <= FlushSize
      /\ bs_offset' = end
      /\ bs_flag' = FlagAfter(m)
      /\ view' = ViewAfter(m)
      /\ UNCHANGED <<delivered, lost>>

\* The batch goes on: m is not the last message of the round.
Hold(m, remainder) ==
  LET end == bs_offset + HeadSize + m.sz
  IN  /\ remainder # 0 /\ end <= FlushSize
      /\ bs_offset' = end
      /\ bs_flag' = FlagAfter(m)
      /\ view' = ViewAfter(m)
      /\ UNCHANGED <<delivered, lost>>

\* The batch is handed over; without a callback it is gone.
Flush(m, remainder) ==
  LET end == bs_offset + HeadSize + m.sz
  IN  /\ remainder = 0 \/ end > FlushSize
      /\ bs_offset' = 0
      /\ bs_flag' = 0
      /\ \/ cb /\ CallScript(CallWord(end, FlagAfter(m)), ViewAfter(m))
         \/ /\ ~cb
            /\ lost' = lost + Len(content')
            /\ view' = ViewAfter(m)
            /\ UNCHANGED delivered

\* dispatch_impl for a message: the event loop is polled, in which the script
\* may register its callback (skynet.start), or the message is copied.
DispatchImpl(m, remainder) ==
  /\ last' = m.kind
  /\ \/ /\ m.kind = "async"
        /\ cb' \in {cb, TRUE}
        /\ UNCHANGED <<bufferVars, scriptVars>>
     \/ /\ m.kind = "ordinary"
        /\ Copy(m)
        /\ Hold(m, remainder) \/ Flush(m, remainder)
        /\ UNCHANGED cb

\* dispatch_th_cb, before the round
RoundBegin ==
  /\ ~inRound
  /\ \E n \in 1 .. MaxRound : n <= Len(inbox) /\ remainder_message' = n
  /\ inRound' = TRUE
  /\ UNCHANGED <<inbox, sent, bufferVars, scriptVars, cb, last>>

\* dispatch_cb, for a message of the round
RoundDispatch ==
  /\ inRound
  /\ remainder_message > 0
  /\ remainder_message' = remainder_message - 1
  /\ DispatchImpl(Head(inbox), remainder_message - 1)
  /\ inbox' = Tail(inbox)
  /\ UNCHANGED <<sent, inRound>>

\* dispatch_th_cb, after the round
RoundEnd ==
  /\ inRound
  /\ remainder_message = 0
  /\ inRound' = FALSE
  /\ UNCHANGED <<inbox, sent, remainder_message, bufferVars, scriptVars, cb, last>>

\* Faulty variant of SingleDispatch: the buffer waits for a message of a round.
SingleDispatchHeld ==
  /\ ~inRound
  /\ inbox # << >>
  /\ DispatchImpl(Head(inbox), 1)
  /\ inbox' = Tail(inbox)
  /\ UNCHANGED <<sent, hostVars>>

\* dispatch_cb, for a message outside of rounds
SingleDispatch ==
  /\ ~inRound
  /\ inbox # << >>
  /\ DispatchImpl(Head(inbox), 0)
  /\ inbox' = Tail(inbox)
  /\ UNCHANGED <<sent, hostVars>>

Host == RoundBegin \/ RoundDispatch \/ RoundEnd \/ SingleDispatch

Next == Host \/ \E kind \in Kind, sz \in Size : Send(kind, sz)

Spec == Init /\ [][Next]_vars

\* Workers serve every mailbox that is not empty and finish their rounds.
FairSpec == Spec /\ WF_vars(Host)

-----------------------------------------------------------------------------
(***************************************************************************)
(* Properties.                                                             *)
(***************************************************************************)

\* The bytes of a call never reach the bit that announces a new buffer.
FlagFits == \A sz \in Size : FlushSize + HeadSize + sz < NewBit

\* The script dispatches the messages in the order they were sent, none
\* twice and none left out, after those that came before its callback:
\* whatever was copied, replaced and flagged in between.
DeliveredInOrder == \A k \in 1 .. Len(delivered) : delivered[k] = lost + k

\* A buffer that the script does not look at yet is always announced by the
\* next call (bs_flag survives until then).
StaleViewFlagged == view = "old" => bs_flag = 1

\* After a round messages wait in the buffer only if the round ended with a
\* PTYPE_DENO_ASYNC, which does not hand the buffer over.
HeldBehindAsync == ~inRound /\ bs_offset > 0 => last = "async"

\* Every message reaches the script, or is discarded before there is a
\* callback, or waits in the buffer, behind a PTYPE_DENO_ASYNC that ended its
\* round, for the next ordinary message (dispatch_impl).
EveryMessageHandled ==
  \A k \in 1 .. MaxSent :
    (sent >= k) ~> \/ lost + Len(delivered) >= k
                   \/ ~inRound /\ last = "async" /\ lost + Len(delivered) + Len(Batch) >= k

\* The positions of the ordinary messages of the inbox, those up to position i
\* and the position of the k-th.
Ordinary == {i \in DOMAIN inbox : inbox[i].kind = "ordinary"}
UpTo(i)  == {j \in Ordinary : j <= i}
Place(k) == CHOOSE i \in Ordinary : Cardinality(UpTo(i)) = k

\* The messages that the script has not been called for, in order.
Pending ==
  [k \in 1 .. Len(Batch) |-> Batch[k].id]
    \o [k \in 1 .. Cardinality(Ordinary) |-> inbox[Place(k)].id]

Mailbox == INSTANCE FifoMailbox WITH queue <- Pending, started <- cb

\* The shared buffer, its replacement and the rounds implement a mailbox.
ImplementsFifoMailbox == Mailbox!Spec

=============================================================================
