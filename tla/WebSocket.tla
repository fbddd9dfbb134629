----------------------------- MODULE WebSocket -----------------------------
(***************************************************************************)
(* ts/lib/skynet/http/websocket.ts: the two ends of a connection, each the *)
(* WS_OBJ of a service.  The server runs the loop of accept(), the client  *)
(* calls read(); write(), ping() and close() belong to both and are called *)
(* by other tasks whenever they like.  An end may also be foreign: a peer  *)
(* of another make, which fragments messages and puts a payload into PINGs.*)
(*                                                                         *)
(* A frame crosses the wire as a header, a key if it is masked, and its    *)
(* payload; the reader takes as many items as it believes are due.         *)
(***************************************************************************)
EXTENDS Naturals, Sequences, FiniteSets

CONSTANTS
  Small,         \* 126: from here on the length does not fit the header's 7 bits.
  MaxFrameSize,  \* MAX_FRAME_SIZE
  MaxSends,      \* Bound: tasks send while fewer frames than these were sent,
  MaxFrames      \* and foreign ends while fewer than these were.

End == {"client", "server"}
Peer(e) == IF e = "client" THEN "server" ELSE "client"
Control == {"CLOSE", "PING", "PONG"}

VARIABLES
  foreign,   \* The ends that are not this code.
  wire,      \* What is on its way to each end.
  sock,      \* Whether an end still has its socket.
  is_close,  \* WS_OBJ.is_close; ws_pool has lost the WS_OBJ.
  reader,    \* [pc, head, count, buffer]: _read_frame and the loop around it.
  sent,      \* The lengths of the messages an end has sent.
  open,      \* The length of its unfinished message, 0 if there is none.
  frames,    \* How many frames tasks and foreign ends have sent.
  lost,      \* Whether what it writes cannot all be read: it has masked a frame of
             \* Small bytes or more, or one came with its answer to the handshake.
  got,       \* The messages an end was given.
  pongs,     \* The payloads of the PONGs an end has answered with.
  closes,    \* Calls of the CLOSE handler of the server.
  result     \* How accept(), connect() or the last read() ended.

vars == <<foreign, wire, sock, is_close, reader, sent, open, frames,
          lost, got, pongs, closes, result>>

\* A byte of payload: whose it is (the number of the message, 0 for a control
\* frame), and whether it is masked.
Byte(n, masked) == [own |-> n, masked |-> masked]
Bytes(n, masked, len) == [i \in 1 .. len |-> Byte(n, masked)]
Unmasked(s) == [i \in DOMAIN s |-> [s[i] EXCEPT !.masked = ~ @]]
Key == Byte(0, TRUE)
NoHead == [fin |-> FALSE, op |-> "FRAME", mask |-> FALSE, len |-> 0]
IsHead(x) == "op" \in DOMAIN x

Init ==
  /\ foreign \in {{}, {"client"}, {"server"}}
  /\ wire = [e \in End |-> << >>]
  /\ sock = [e \in End |-> TRUE]
  /\ is_close = [e \in End |-> FALSE]
  /\ reader = [e \in End |->
       [pc |-> IF e \in foreign THEN "off" ELSE "handshake",
        head |-> NoHead, count |-> 0, buffer |-> << >>]]
  /\ sent = [e \in End |-> << >>]
  /\ open = [e \in End |-> 0]
  /\ frames = 0
  /\ lost = [e \in End |-> FALSE]
  /\ got = [e \in End |-> << >>]
  /\ pongs = << >>
  /\ closes = 0
  /\ result = [e \in End |-> "none"]

-----------------------------------------------------------------------------
(* _write_frame.  The mask bit is set in the short header only.            *)

Frame(op, fin, payload, masked) ==
  LET len == Len(payload)
  IN  << [fin |-> fin, op |-> op, mask |-> masked /\ len < Small, len |-> len] >>
      \o IF masked THEN <<Key>> \o Unmasked(payload) ELSE payload

Deliver(e, items) ==
  wire' = [wire EXCEPT ![Peer(e)] = IF sock[Peer(e)] THEN @ \o items ELSE @]

Pc(e, pc) == reader' = [reader EXCEPT ![e].pc = pc]

-----------------------------------------------------------------------------
(* write, ping, close: called by whoever has the id.                       *)

\* The entry in ws_pool stands from the start.  The server's has the socket's id,
\* which its application knows; the client's is what connect() returns.
HasId(e) ==
  /\ e \notin foreign /\ ~ is_close[e]
  /\ e = "client" => reader[e].pc \notin {"handshake", "answered"} /\ result[e] # "refused"

\* write() and ping() fail with the socket; the caller may try again.
Write(e) ==
  \E len \in 1 .. Small, masked \in BOOLEAN :
    /\ HasId(e) /\ sock[e] /\ frames < MaxSends
    /\ sent' = [sent EXCEPT ![e] = Append(@, len)]
    /\ frames' = frames + 1
    /\ lost' = [lost EXCEPT ![e] = @ \/ (masked /\ len >= Small)]
    /\ Deliver(e, Frame("TEXT", TRUE, Bytes(Len(sent[e]) + 1, FALSE, len), masked))
    /\ UNCHANGED <<foreign, sock, is_close, reader, open, got, pongs, closes, result>>

Ping(e) ==
  /\ HasId(e) /\ sock[e] /\ frames < MaxSends
  /\ frames' = frames + 1
  /\ Deliver(e, Frame("PING", TRUE, << >>, FALSE))
  /\ UNCHANGED <<foreign, sock, is_close, reader, sent, open, lost, got, pongs, closes, result>>

\* _close_websocket; socket.close closes the socket of e.
CloseWebsocket(e) ==
  /\ is_close' = [is_close EXCEPT ![e] = TRUE]
  /\ sock' = [sock EXCEPT ![e] = FALSE]

Close(e) ==
  /\ HasId(e)
  /\ IF sock[e] THEN Deliver(e, Frame("CLOSE", TRUE, << >>, FALSE)) ELSE UNCHANGED wire
  /\ CloseWebsocket(e)
  /\ UNCHANGED <<foreign, reader, sent, open, frames, lost, got, pongs, closes, result>>

-----------------------------------------------------------------------------
(* A foreign end, which waits for the handshake to be over.                *)

Speaks(e) == e \in foreign /\ sock[e] /\ reader[Peer(e)].pc \notin {"handshake", "answered"}

ForeignData(e) ==
  \E fin \in BOOLEAN, len \in 1 .. 2 :
    LET n == Len(sent[e]) + 1
    IN  /\ Speaks(e) /\ frames < MaxFrames
        /\ frames' = frames + 1
        /\ Deliver(e, Frame(IF open[e] = 0 THEN "TEXT" ELSE "FRAME", fin, Bytes(n, FALSE, len), FALSE))
        /\ IF fin
           THEN /\ sent' = [sent EXCEPT ![e] = Append(@, open[e] + len)]
                /\ open' = [open EXCEPT ![e] = 0]
           ELSE /\ open' = [open EXCEPT ![e] = @ + len]
                /\ UNCHANGED sent
        /\ UNCHANGED <<foreign, sock, is_close, reader, lost, got, pongs, closes, result>>

ForeignControl(e) ==
  \E op \in Control, len \in 0 .. 1 :
    /\ Speaks(e) /\ frames < MaxFrames
    /\ frames' = frames + 1
    /\ Deliver(e, Frame(op, TRUE, Bytes(0, FALSE, len), FALSE))
    /\ UNCHANGED <<foreign, sock, is_close, reader, sent, open, lost, got, pongs, closes, result>>

ForeignGone(e) ==
  /\ e \in foreign /\ sock[e]
  /\ sock' = [sock EXCEPT ![e] = FALSE]
  /\ UNCHANGED <<foreign, wire, is_close, reader, sent, open, frames, lost, got, pongs, closes, result>>

-----------------------------------------------------------------------------
(* accept(): the end of _resolve_accept, by return or by an error.         *)

Accepted(err, told) ==
  /\ IF is_close["server"] THEN UNCHANGED <<is_close, sock>> ELSE CloseWebsocket("server")
  /\ closes' = closes + told + IF err = "SOCKET_ERROR" THEN 1 ELSE 0
  /\ result' = [result EXCEPT !["server"] =
       IF err \in {"none", "SOCKET_ERROR"} THEN "true" ELSE "false"]
  /\ Pc("server", "done")

\* A read of the client rejects: connect() and read() pass the error on.
Rejected(e, err) ==
  /\ result' = [result EXCEPT ![e] = err]
  /\ Pc(e, "done")
  /\ UNCHANGED <<is_close, sock, closes>>

Fails(e, err) == IF e = "server" THEN Accepted(err, 0) ELSE Rejected(e, err)

-----------------------------------------------------------------------------
(* _read_handshake and _write_handshake.  A refused client has an entry in *)
(* ws_pool and a socket that nobody knows of.                              *)

\* The server answers with 101.  What it wrote before, request() of the client
\* takes for the beginning of the status line (internal.ts:208) and drops.
HandshakeOk ==
  /\ \A e \in End \ foreign : reader[e].pc = "handshake"
  /\ sock["server"]
  /\ reader' = [e \in End |-> IF e \in foreign THEN reader[e]
                              ELSE [reader[e] EXCEPT !.pc = IF e = "server" THEN "loop" ELSE "answered"]]
  /\ IF "server" \in foreign \/ wire["client"] = << >>
     THEN UNCHANGED <<wire, lost>>
     ELSE /\ wire' = [wire EXCEPT !["client"] = << >>]
          /\ lost' = [lost EXCEPT !["server"] = TRUE]
  /\ UNCHANGED <<foreign, sock, is_close, sent, open, frames, got, pongs, closes, result>>

\* The client reads it with whatever has come with it, and keeps none of that
\* (internal.ts:240-241).
Connected ==
  /\ reader["client"].pc = "answered"
  /\ Pc("client", "idle")
  /\ \/ UNCHANGED <<wire, lost>>
     \/ \E n \in 1 .. Len(wire["client"]) :
          /\ "server" \notin foreign
          /\ wire' = [wire EXCEPT !["client"] = SubSeq(@, n + 1, Len(@))]
          /\ lost' = [lost EXCEPT !["server"] = TRUE]
  /\ UNCHANGED <<foreign, sock, is_close, sent, open, frames, got, pongs, closes, result>>

\* A header that comes twice is an array, and throws.
ServerRefuses ==
  /\ reader["server"].pc = "handshake"
  /\ \/ Accepted("none", 1)
     \/ Accepted("assertion", 0)
     \/ (~ sock["client"] \/ ~ sock["server"]) /\ Accepted("SOCKET_ERROR", 0)
  /\ UNCHANGED <<foreign, wire, sent, open, frames, lost, got, pongs>>

ClientRefused ==
  /\ reader["client"].pc = "handshake"
  /\ ~ sock["server"] \/ "server" \in foreign
  /\ Rejected("client", "refused")
  /\ UNCHANGED <<foreign, wire, sent, open, frames, lost, got, pongs>>

-----------------------------------------------------------------------------
(* _read_frame.                                                            *)

ReadCall ==  \* read(id) of the client
  /\ reader["client"].pc = "idle" /\ ~ is_close["client"]
  /\ reader' = [reader EXCEPT !["client"].pc = "header", !["client"].count = 0]
  /\ UNCHANGED <<foreign, wire, sock, is_close, sent, open, frames, lost, got, pongs, closes, result>>

LoopTop ==   \* the head of the loop of _resolve_accept
  /\ reader["server"].pc = "loop"
  /\ IF is_close["server"] THEN Accepted("none", 1)
     ELSE Pc("server", "header") /\ UNCHANGED <<sock, is_close, closes, result>>
  /\ UNCHANGED <<foreign, wire, sent, open, frames, lost, got, pongs>>

Need(e) == IF reader[e].pc = "header" THEN 1
           ELSE reader[e].head.len + IF reader[e].head.mask THEN 1 ELSE 0

ReadHeader(e) ==
  LET x == Head(wire[e])
  IN  /\ reader[e].pc = "header" /\ wire[e] # << >>
      /\ wire' = [wire EXCEPT ![e] = Tail(@)]
      /\ IF ~ IsHead(x)
         THEN Pc(e, "garbled") /\ UNCHANGED <<sock, is_close, closes, result>>
         ELSE IF e = "server" /\ x.len > MaxFrameSize
         THEN Accepted("too large", 0)
         ELSE /\ reader' = [reader EXCEPT ![e].head = x,
                              ![e].pc = IF x.len = 0 /\ ~ x.mask THEN "frame" ELSE "payload"]
              /\ UNCHANGED <<sock, is_close, closes, result>>
      /\ UNCHANGED <<foreign, sent, open, frames, lost, got, pongs>>

ReadPayload(e) ==
  LET head == reader[e].head
      key  == IF head.mask THEN 1 ELSE 0
      raw  == SubSeq(wire[e], 1 + key, head.len + key)
  IN  /\ reader[e].pc = "payload" /\ Len(wire[e]) >= Need(e)
      /\ wire' = [wire EXCEPT ![e] = SubSeq(@, Need(e) + 1, Len(@))]
      /\ reader' = [reader EXCEPT ![e].pc = "frame",
           ![e].buffer = SubSeq(@, 1, reader[e].count) \o IF head.mask THEN Unmasked(raw) ELSE raw]
      /\ UNCHANGED <<foreign, sock, is_close, sent, open, frames, lost, got, pongs, closes, result>>

\* The socket has ended with less than is due; or this end has closed it, and
\* socket.read no longer knows it or suspend() refuses to wait.
ReadFails(e) ==
  /\ reader[e].pc \in {"header", "payload"}
  /\ \E err \in {"SOCKET_ERROR", "assertion"} :
       /\ IF err = "assertion" THEN ~ sock[e]
          ELSE Len(wire[e]) < Need(e) /\ (~ sock[e] \/ ~ sock[Peer(e)])
       /\ Fails(e, err)
  /\ UNCHANGED <<foreign, wire, sent, open, frames, lost, got, pongs>>

-----------------------------------------------------------------------------
(* What the loop of _resolve_accept, and that of read(), does with a frame.*)

\* Faulty variant of Counted: the fragments before the last one are forgotten.
CountedLast(e) == reader[e].head.len

Counted(e) == reader[e].count + reader[e].head.len

CloseFrame(e) ==
  /\ reader[e].pc = "frame" /\ reader[e].head.op = "CLOSE"
  /\ IF e = "server"
     THEN IF sock[e] THEN Deliver(e, Frame("CLOSE", TRUE, << >>, FALSE)) /\ Accepted("none", 1)
          ELSE UNCHANGED wire /\ Accepted("SOCKET_ERROR", 0)
     ELSE /\ UNCHANGED wire
          /\ IF is_close[e]
             THEN Rejected(e, "assertion")
             ELSE /\ CloseWebsocket(e) /\ Pc(e, "done")
                  /\ result' = [result EXCEPT ![e] = "closed"]
                  /\ UNCHANGED closes
  /\ UNCHANGED <<foreign, sent, open, frames, lost, got, pongs>>

Again(e, count) ==
  reader' = [reader EXCEPT ![e].count = count,
                           ![e].pc = IF e = "server" THEN "loop" ELSE "header"]

PingFrame(e) ==
  LET echo == SubSeq(reader[e].buffer, 1, reader[e].head.len)
  IN  /\ reader[e].pc = "frame" /\ reader[e].head.op = "PING"
      /\ IF sock[e]
         THEN /\ Deliver(e, Frame("PONG", TRUE, echo, FALSE))
              /\ pongs' = IF reader[e].head.len = 0 THEN pongs
                          ELSE Append(pongs, [payload |-> echo, count |-> reader[e].count])
              /\ Again(e, Counted(e))
              /\ UNCHANGED <<sock, is_close, closes, result>>
         ELSE Fails(e, "SOCKET_ERROR") /\ UNCHANGED <<wire, pongs>>
      /\ UNCHANGED <<foreign, sent, open, frames, lost, got>>

PongFrame(e) ==
  /\ reader[e].pc = "frame" /\ reader[e].head.op = "PONG"
  /\ Again(e, Counted(e))
  /\ UNCHANGED <<foreign, wire, sock, is_close, sent, open, frames, lost, got, pongs, closes, result>>

DataFrame(e) ==
  /\ reader[e].pc = "frame" /\ reader[e].head.op \notin Control
  /\ IF e = "server" /\ Counted(e) > MaxFrameSize
     THEN Accepted("too large", 0) /\ UNCHANGED got
     ELSE /\ IF reader[e].head.fin
             THEN /\ got' = [got EXCEPT ![e] = Append(@, SubSeq(reader[e].buffer, 1, Counted(e)))]
                  /\ reader' = [reader EXCEPT ![e].count = 0, ![e].buffer = << >>,
                                  ![e].pc = IF e = "server" THEN "loop" ELSE "idle"]
             ELSE Again(e, Counted(e)) /\ UNCHANGED got
          /\ UNCHANGED <<sock, is_close, closes, result>>
  /\ UNCHANGED <<foreign, wire, sent, open, frames, lost, pongs>>

-----------------------------------------------------------------------------
Next ==
  \/ HandshakeOk \/ Connected \/ ServerRefuses \/ ClientRefused \/ ReadCall \/ LoopTop
  \/ \E e \in End :
       \/ Write(e) \/ Ping(e) \/ Close(e)
       \/ ForeignData(e) \/ ForeignControl(e) \/ ForeignGone(e)
       \/ ReadHeader(e) \/ ReadPayload(e) \/ ReadFails(e)
       \/ CloseFrame(e) \/ PingFrame(e) \/ PongFrame(e) \/ DataFrame(e)

Spec == Init /\ [][Next]_vars

\* The accepting task goes on when what it waits for has come.
Progress ==
  \/ ServerRefuses \/ LoopTop \/ ReadHeader("server") \/ ReadPayload("server")
  \/ ReadFails("server") \/ CloseFrame("server") \/ PingFrame("server")
  \/ PongFrame("server") \/ DataFrame("server")

FairSpec == Spec /\ WF_vars(Progress)

-----------------------------------------------------------------------------
(* Properties.                                                             *)

\* Every message reaches the other end whole, once and in order, however it
\* was cut, among whatever control frames, and whoever closes meanwhile: the
\* bytes of the message itself are all there, unmasked.  Bytes of control
\* frames that came before its last fragment are counted into it
\* (websocket.ts:329).  A masked frame of Small bytes or more (websocket.ts:242)
\* puts the reader out of step, and what comes with the answer to the handshake or
\* before it is dropped (internal.ts:240-241, 208): lost.
MessagesArrive ==
  \A e \in End \ foreign : ~ lost[Peer(e)] =>
    /\ reader[e].pc # "garbled"
    /\ \A i \in DOMAIN got[e] :
         /\ i <= Len(sent[Peer(e)])
         /\ Cardinality({k \in DOMAIN got[e][i] : got[e][i][k] = Byte(i, FALSE)}) = sent[Peer(e)][i]
         /\ \A k \in DOMAIN got[e][i] : got[e][i][k] \in {Byte(i, FALSE), Byte(0, FALSE)}

\* A PONG brings back the payload of its PING, unless the PING came inside a
\* message or after another control frame with a payload: then it brings back
\* what the buffer begins with (websocket.ts:336).
PongEchoes ==
  \A i \in DOMAIN pongs : pongs[i].count = 0 =>
    \A k \in DOMAIN pongs[i].payload : pongs[i].payload[k] = Byte(0, FALSE)

\* The server's application learns of the end of a connection exactly once,
\* by the CLOSE handler or by the result of accept(), whoever closes first;
\* then the connection is closed and gone from ws_pool.
EndIsToldOnce ==
  /\ closes = IF result["server"] = "true" THEN 1 ELSE 0
  /\ result["server"] # "none" => is_close["server"] /\ ~ sock["server"]

\* accept() ends when the client is gone, whatever lies unread.
ClientGone == ~ sock["client"] /\ ~ lost["client"]
AcceptEnded == result["server"] # "none" \/ "server" \in foreign
WebSocketSafe == MessagesArrive /\ PongEchoes /\ EndIsToldOnce
=============================================================================
