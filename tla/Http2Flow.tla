----------------------------- MODULE Http2Flow ------------------------------
(***************************************************************************)
(* The flow control of ts/lib/x/grpc_basic/http2/flow.ts, with what        *)
(* stream.ts, conn.ts, client.ts and server.ts add to it: a connection     *)
(* with one call, whose client writes one message and whose server answers *)
(* with any number of them.                                                *)
(*                                                                         *)
(* A frame that may not be sent yet waits in the queue of the stream.      *)
(* What the stream may send waits in its output until the connection       *)
(* forwards it.  Bytes come in units, numbered in the order they are       *)
(* written.                                                                *)
(*                                                                         *)
(* Flow looks at the output as at an array, readableState.buffer[0]; but   *)
(* that is a BufferList (std/node/_stream/readable.ts:52), so that it sees *)
(* nothing there: read(limit) does not split frames and does not heed the  *)
(* limit (flow.ts:215), and no frame is found to be marked as the last.    *)
(* The messages are taken from the event data_frame, so that nobody reads  *)
(* the stream, and its buffer only fills.  No settings are sent.  The      *)
(* window of a connection is never restored: the client hands frames to    *)
(* _receive and passes by _write, which would count them and would take a  *)
(* WINDOW_UPDATE; the one that the server sends has no effect and is left  *)
(* out.  A part of a message is written with the whole message behind its  *)
(* header (frames.ts:379 takes the buffer under the slice), so that what   *)
(* follows the part is read as frames that nobody sent; that is left out.  *)
(* That node's streams call _read and _send as long as there is something  *)
(* to do is taken for granted.                                             *)
(***************************************************************************)
EXTENDS Integers, Sequences, SequencesExt

CONSTANTS
  Window,     \* INITIAL_WINDOW_SIZE
  MaxFrame,   \* The longest DATA frame (16384).
  Room,       \* What a stream keeps that nobody reads (highWaterMark).
  MaxBytes    \* Bound: what each end writes.

VARIABLES
  written,   \* The sizes of the messages that the user has written.
  sending,   \* Whether its write is pending (_sendMore).
  finished,  \* sentEndStream
  queue,     \* The stream's _queue,
  output,    \*   output buffer,
  window,    \*   and _window.
  connWindow, \* The connection's _window.
  thrown,    \* Whether its assertion has failed (conn.ts:340).
  garbled,   \* Whether this end has lost its place in what it reads.
  wire,      \* The frames on their way from this end.
  input,     \* The frames that were written to the stream and not yet taken.
  kept,      \* The bytes in the stream's buffer.
  held,      \* Those of the frame that did not fit (_receiveMore).
  ended,     \* The _ended of the stream's flow.
  received,  \* Its _received.
  arrived    \* The bytes that the user was told of (data_frame).

sendVars == <<written, sending, finished, queue, output, window>>
connVars == <<connWindow, wire, thrown, garbled>>
takeVars == <<kept, held, ended, received>>
flowVars == <<sendVars, connVars, takeVars, input, arrived>>

Client == 1
Server == 2
End == {Client, Server}
Peer(e) == 3 - e

\* Frames are written to the stream, and taken by it, in one turn.
Calm(e) == input[e] = << >> \/ held[e] > 0

Data(from, n, end) ==
  [type |-> "DATA", from |-> from, size |-> n, end |-> end, part |-> FALSE]
WindowUpdate(n) == [type |-> "WINDOW_UPDATE", size |-> n]

Init ==
  /\ written = [e \in End |-> << >>] /\ arrived = [e \in End |-> 0]
  /\ sending = [e \in End |-> FALSE] /\ finished = [e \in End |-> FALSE]
  /\ queue = [e \in End |-> << >>] /\ output = [e \in End |-> << >>]
  /\ window = [e \in End |-> Window] /\ connWindow = [e \in End |-> Window]
  /\ thrown = FALSE /\ garbled = [e \in End |-> FALSE]
  /\ wire = [e \in End |-> << >>] /\ input = [e \in End |-> << >>]
  /\ kept = [e \in End |-> 0] /\ held = [e \in End |-> 0]
  /\ ended = [e \in End |-> FALSE] /\ received = [e \in End |-> 0]

-----------------------------------------------------------------------------
(* What a Flow sends, be it a stream or the connection.                    *)

RECURSIVE SumOf(_)
SumOf(sizes) == IF sizes = << >> THEN 0 ELSE Head(sizes) + SumOf(Tail(sizes))
TotalOf(e) == SumOf(written[e])

Min2(a, b) == IF a < b THEN a ELSE b

\* _push: the frame goes to the output, or the part of it that the window and
\* the size of a frame allow; rest is what is left of it.
Pushed(f, out, win) ==
  LET max == Min2(win, MaxFrame)
  IN  CASE f.type # "DATA" -> [rest |-> << >>, out |-> Append(out, f), win |-> win]
        [] f.type = "DATA" /\ f.size <= max ->
             [rest |-> << >>, out |-> Append(out, f), win |-> win - f.size]
        [] f.type = "DATA" /\ f.size > max /\ win <= 0 -> [rest |-> <<f>>, out |-> out, win |-> win]
        [] f.type = "DATA" /\ f.size > max /\ win > 0 ->
             [rest |-> <<[f EXCEPT !.from = @ + max, !.size = @ - max, !.part = TRUE]>>,
              out |-> Append(out, [f EXCEPT !.size = max, !.part = TRUE]), win |-> win - max]

RECURSIVE Drained(_, _, _)

\* The loop of _read: up to the first frame that is not pushed as a whole.
Drained(q, out, win) ==
  IF q = << >> THEN [queue |-> q, out |-> out, win |-> win]
  ELSE LET p == Pushed(Head(q), out, win)
       IN  IF p.rest = << >> THEN Drained(Tail(q), p.out, p.win)
           ELSE [queue |-> p.rest \o Tail(q), out |-> p.out, win |-> p.win]

-----------------------------------------------------------------------------
(* A stream sends.                                                         *)

\* push: behind what is in the queue.
Push(e, f) ==
  LET p == Pushed(f, output[e], window[e])
  IN  IF queue[e] = << >>
        THEN /\ queue' = [queue EXCEPT ![e] = p.rest]
             /\ output' = [output EXCEPT ![e] = p.out]
             /\ window' = [window EXCEPT ![e] = p.win]
        ELSE /\ queue' = [queue EXCEPT ![e] = Append(@, f)]
             /\ UNCHANGED <<output, window>>

\* _read, with _send: the user's next write, or what the queue has and the
\* window allows.
Read(e) ==
  \/ /\ queue[e] = << >> /\ sending[e] /\ Calm(e)
     /\ sending' = [sending EXCEPT ![e] = FALSE]
     /\ UNCHANGED <<written, finished, queue, output, window, takeVars, connVars,
                    input, arrived>>
  \/ /\ queue[e] # << >> /\ window[e] > 0 /\ Calm(e)
     /\ LET d == Drained(queue[e], output[e], window[e])
        IN  /\ queue' = [queue EXCEPT ![e] = d.queue]
            /\ output' = [output EXCEPT ![e] = d.out]
            /\ window' = [window EXCEPT ![e] = d.win]
     /\ UNCHANGED <<written, sending, finished, takeVars, connVars, input, arrived>>

\* The client writes one message; the server writes from the first DATA on, and
\* waits for each write.
Write(e, n) ==
  /\ ~sending[e] /\ ~finished[e] /\ Calm(e)
  /\ TotalOf(e) + n <= MaxBytes
  /\ IF e = Client THEN written[e] = << >> ELSE arrived[e] > 0
  /\ Push(e, Data(TotalOf(e) + 1, n, FALSE))
  /\ written' = [written EXCEPT ![e] = Append(@, n)]
  /\ sending' = [sending EXCEPT ![e] = TRUE]
  /\ UNCHANGED <<finished, takeVars, connVars, input, arrived>>

\* _finishing of the client, when its message has been written; the trailers of
\* the server, which need not wait for that.  Both go behind what is queued.
Finish(e) ==
  /\ ~finished[e] /\ written[e] # << >> /\ Calm(e)
  /\ e = Client => ~sending[e]
  /\ finished' = [finished EXCEPT ![e] = TRUE]
  /\ Push(e, Data(TotalOf(e) + 1, 0, TRUE))
  /\ UNCHANGED <<written, sending, takeVars, connVars, input, arrived>>

-----------------------------------------------------------------------------
(* The connection forwards.                                                *)

RECURSIVE Forwarded(_, _, _)

\* The loop of _send, with the push of the connection, whose own queue is empty
\* until it asserts in vain that a frame was pushed as a whole.
Forwarded(frames, out, win) ==
  IF frames = << >> THEN [left |-> << >>, out |-> out, win |-> win, thrown |-> FALSE]
  ELSE LET p == Pushed(Head(frames), out, win)
       IN  IF p.rest = << >> THEN Forwarded(Tail(frames), p.out, p.win)
           ELSE [left |-> p.rest \o Tail(frames), out |-> p.out, win |-> p.win, thrown |-> TRUE]

\* _send, from its timer.
Forward(e) ==
  /\ output[e] # << >> /\ Calm(e)
  /\ LET d == Forwarded(output[e], wire[e], connWindow[e])
     IN  /\ output' = [output EXCEPT ![e] = d.left]
         /\ wire' = [wire EXCEPT ![e] = d.out]
         /\ connWindow' = [connWindow EXCEPT ![e] = d.win]
         /\ thrown' = d.thrown
         /\ UNCHANGED garbled
  /\ UNCHANGED <<written, sending, finished, queue, window, takeVars, input, arrived>>

\* _receive of the connection: it writes the frame to the stream, which tells
\* its user of DATA at once.  Of the parts of a message only the first is read
\* as what it is.
Receive(e) ==
  /\ wire[Peer(e)] # << >> /\ Calm(e) /\ ~garbled[e]
  /\ LET f == Head(wire[Peer(e)])
     IN  /\ input' = [input EXCEPT ![e] = Append(@, f)]
         /\ arrived' = [arrived EXCEPT ![e] = @ + IF f.type = "DATA" THEN f.size ELSE 0]
         /\ garbled' = [garbled EXCEPT ![e] = f.type = "DATA" /\ f.part]
  /\ wire' = [wire EXCEPT ![Peer(e)] = Tail(@)]
  /\ UNCHANGED <<sendVars, takeVars, connWindow, thrown>>

-----------------------------------------------------------------------------
(* A stream receives.                                                      *)

\* _write of the stream's flow, with _receive: DATA is counted when the buffer
\* has room for more, and what follows waits until then.
Take(e) ==
  /\ input[e] # << >> /\ held[e] = 0
  /\ input' = [input EXCEPT ![e] = Tail(@)]
  /\ LET f == Head(input[e])
         full == kept[e] + f.size
     IN  \/ /\ f.type = "WINDOW_UPDATE"
            /\ window' = [window EXCEPT ![e] = @ + f.size]
            /\ UNCHANGED takeVars
         \/ /\ f.type = "DATA"
            /\ kept' = [kept EXCEPT ![e] = full]
            /\ ended' = [ended EXCEPT ![e] = @ \/ f.end]
            /\ received' = [received EXCEPT ![e] = IF full < Room THEN @ + f.size ELSE @]
            /\ held' = [held EXCEPT ![e] = IF full < Room THEN @ ELSE f.size]
            /\ UNCHANGED window
  /\ UNCHANGED <<written, sending, finished, queue, output, connVars, arrived>>

\* Faulty variant of Restore: what was acknowledged is counted again.
RestoreAgain(e) ==
  /\ received[e] > 0 /\ ~ended[e] /\ Calm(e)
  /\ Push(e, WindowUpdate(received[e]))
  /\ UNCHANGED <<written, sending, finished, takeVars, connVars, input, arrived>>

\* _restoreWindow of the stream: the update waits behind the DATA in the queue.
Restore(e) ==
  /\ received[e] > 0 /\ ~ended[e] /\ Calm(e)
  /\ Push(e, WindowUpdate(received[e]))
  /\ received' = [received EXCEPT ![e] = 0]
  /\ UNCHANGED <<written, sending, finished, kept, held, ended, connVars, input, arrived>>

-----------------------------------------------------------------------------

\* What follows a failed assertion is left out.
Progress ==
  /\ ~thrown
  /\ \E e \in End : Read(e) \/ Forward(e) \/ Restore(e) \/ Receive(e) \/ Take(e)

Next ==
  \/ Progress
  \/ /\ ~thrown
     /\ \E e \in End :
          \/ \E n \in 1 .. MaxBytes : Write(e, n)
          \/ Finish(e)

Spec == Init /\ [][Next]_flowVars

\* Node's streams and timers go on as long as there is something to do.
FairSpec == Spec /\ WF_flowVars(Progress)

-----------------------------------------------------------------------------
(* Properties.                                                             *)

RECURSIVE Sum(_)
Sum(q) == IF q = << >> THEN 0 ELSE Head(q).size + Sum(Tail(q))

IsData(f) == f.type = "DATA"
IsUpdate(f) == f.type = "WINDOW_UPDATE"

\* Every byte of the window of a stream is in the sender's hands, on its way,
\* or on its way back: no update is lost or given twice.  The connection's
\* window is what was not yet forwarded of the first Window bytes.
WindowsAddUp ==
  \A e \in End :
    LET f == Peer(e)
    IN  /\ window[e] >= 0 /\ connWindow[e] >= 0
        /\ window[e] + Sum(SelectSeq(output[e] \o wire[e] \o input[f], IsData))
             + held[f] + received[f]
             + Sum(SelectSeq(queue[f] \o output[f] \o wire[f] \o input[e], IsUpdate)) = Window
        /\ connWindow[e] + Sum(SelectSeq(wire[e], IsData)) + arrived[f] = Window

\* The bytes on their way follow those that have arrived, in order, and go up
\* to the last one that was written; only the last frame ends the stream.
BytesFollow ==
  \A e \in End :
    LET way == SelectSeq(wire[e] \o output[e] \o queue[e], IsData)
        before(i) == arrived[Peer(e)] + Sum(SubSeq(way, 1, i - 1))
    IN  /\ \A i \in DOMAIN way : way[i].from = before(i) + 1 /\ (way[i].end => i = Len(way))
        /\ before(Len(way) + 1) = TotalOf(e)
        /\ ended[Peer(e)] => finished[e] /\ way = << >>

\* Only a message that is too long for a frame or for what is left of the
\* connection's window is cut into parts, and only the latter fails the
\* assertion of conn.ts:340.
TooMuch == \E e \in End : TotalOf(e) > Window
Failures ==
  /\ thrown => TooMuch
  /\ \A e \in End : garbled[e] => TooMuch \/ \E n \in Range(written[Peer(e)]) : n > MaxFrame

FlowSafe == WindowsAddUp /\ BytesFollow /\ Failures

\* What an end writes arrives, unless one of these failures comes first.
Underway == \E e \in End : arrived[Peer(e)] < TotalOf(e)
Arrives == \/ TooMuch
           \/ \E e \in End : garbled[e]
           \/ \A e \in End : arrived[Peer(e)] = TotalOf(e)
=============================================================================
