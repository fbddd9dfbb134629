-------------------------------- MODULE Tls --------------------------------
(***************************************************************************)
(* One end of a TLS connection: the functions tls_* of                     *)
(* ts/lib/skynet/http/helper.ts over the operations of src/mod_tls.rs,     *)
(* which move bytes between the socket and OpenSSL's two memory BIOs.      *)
(* OpenSSL and the peer are external.  A message of the handshake, a       *)
(* record and an alert are one item; part of one is as good as none.       *)
(***************************************************************************)
EXTENDS Naturals, Sequences, SequencesExt

CONSTANTS
  Total,    \* Bound: bytes the peer sends.
  Header,   \* How many of them the reader reads before it knows the length.
  Block     \* What a read of unknown length asks for: 128.

VARIABLES
  role,       \* "client" | "server"
  version,    \* "1.2" | "1.3"
  peer,       \* How far the peer is: what it is to receive next.
  sent,       \* Bytes the peer has sent.
  coming,     \* Items on their way from the peer.
  arrived,    \* Items in the socket's buffer.
  ended,      \* Whether the peer has closed the connection.
  in_bio, out_bio,
  expected,   \* SSL: the next message of the handshake, "none" when it is over.
  pending,    \* SSL_pending: the bytes of the current record.
  handshake,  \* TlsContext.handshake
  pc,         \* "start" | "init" | "write" | "some" | "exact" | "done" | "failed"
  wire,       \* Items that were written to the socket.
  got         \* The plain bytes that were read.

tlsVars == <<role, version, peer, sent, coming, arrived, ended, in_bio, out_bio,
             expected, pending, handshake, pc, wire, got>>
peerVars == <<role, version, peer, sent, coming, ended>>
sslVars == <<in_bio, out_bio, expected, pending>>

Item(kind) == [kind |-> kind, bytes |-> << >>]
Record(from, to) == [kind |-> "record", bytes |-> [i \in 1 .. to - from + 1 |-> from + i - 1]]

Init ==
  /\ role \in {"client", "server"} /\ version \in {"1.2", "1.3"}
  /\ peer = IF role = "client" THEN "hello" ELSE "server hello"
  /\ coming = IF role = "client" THEN << >> ELSE <<Item("hello")>>
  /\ sent = 0 /\ arrived = << >> /\ ended = FALSE
  /\ in_bio = << >> /\ out_bio = << >>
  /\ expected = IF role = "client" THEN "start" ELSE "hello"
  /\ pending = << >> /\ handshake = FALSE
  /\ pc = IF role = "client" THEN "start" ELSE "init"
  /\ wire = << >> /\ got = << >>

-----------------------------------------------------------------------------
(* The peer and the network.                                               *)

PeerAnswers(kind) ==
  CASE kind = "hello" -> <<"server hello">>
    [] kind = "server hello" -> <<"finished">>
    [] kind = "finished" /\ role = "client" ->
         IF version = "1.2" THEN <<"server finished">> ELSE <<"ticket">>
    [] OTHER -> << >>

\* The peer takes what it expects; a server of TLS 1.3 and a client of either
\* version may send at the end of the handshake what they like.
PeerReceives ==
  /\ wire # << >> /\ ~ ended
  /\ LET kind == Head(wire).kind
         answers == PeerAnswers(kind)
     IN  /\ coming' = coming \o [i \in DOMAIN answers |-> Item(answers[i])]
         /\ peer' = CASE kind = "hello" -> "finished"
                      [] kind = "server hello" ->
                           IF version = "1.2" THEN "server finished" ELSE "none"
                      [] OTHER -> "none"
  /\ wire' = Tail(wire)
  /\ UNCHANGED <<role, version, sent, ended, arrived, sslVars, handshake, pc, got>>

PeerSends ==
  /\ peer = "none" /\ ~ ended /\ sent < Total
  /\ \E n \in sent + 1 .. Total :
       sent' = n /\ coming' = Append(coming, Record(sent + 1, n))
  /\ UNCHANGED <<role, version, peer, ended, arrived, sslVars, handshake, pc, wire, got>>

\* With a close_notify, or without.
PeerCloses ==
  /\ peer = "none" /\ ~ ended /\ ended' = TRUE
  /\ coming' \in {coming, Append(coming, Item("close_notify"))}
  /\ UNCHANGED <<role, version, peer, sent, arrived, sslVars, handshake, pc, wire, got>>

Arrive ==
  /\ \E n \in 1 .. Len(coming) :
       /\ arrived' = arrived \o SubSeq(coming, 1, n)
       /\ coming' = SubSeq(coming, n + 1, Len(coming))
  /\ UNCHANGED <<role, version, peer, sent, ended, sslVars, handshake, pc, wire, got>>

-----------------------------------------------------------------------------
(* OpenSSL.                                                                *)

\* SSL_do_handshake with what in_bio holds: what it expects then, and writes.
RECURSIVE DoHandshake(_)
DoHandshake(s) ==
  IF s.expected = "start"
  THEN [s EXCEPT !.expected = "server hello", !.out = Append(@, Item("hello"))]
  ELSE IF s.expected = "none" \/ s.in = << >> \/ Head(s.in).kind # s.expected THEN s
  ELSE LET next == IF role = "client"
                   THEN IF s.expected = "server hello" /\ version = "1.2"
                        THEN "server finished" ELSE "none"
                   ELSE IF s.expected = "hello" THEN "finished" ELSE "none"
           says == CASE s.expected = "hello" -> <<Item("server hello")>>
                     [] s.expected = "server hello" -> <<Item("finished")>>
                     [] s.expected = "finished" ->
                          <<Item(IF version = "1.2" THEN "server finished" ELSE "ticket")>>
                     [] OTHER -> << >>
       IN  DoHandshake([expected |-> next, in |-> Tail(s.in), out |-> s.out \o says])

\* SSL_read of up to n bytes, again and again as op_tls_ssl_read does, until it
\* wants more input or meets the end (then what was read is lost).
RECURSIVE SslRead(_, _)
SslRead(s, n) ==
  IF n = 0 THEN s
  ELSE IF s.pending # << >>
  THEN SslRead([s EXCEPT !.pending = Tail(@), !.read = Append(@, Head(s.pending))], n - 1)
  ELSE IF s.in = << >> THEN s
  ELSE CASE Head(s.in).kind = "close_notify" -> [s EXCEPT !.error = TRUE]
         [] Head(s.in).kind = "record" ->
              SslRead([s EXCEPT !.in = Tail(@), !.pending = Head(s.in).bytes], n)
         [] OTHER -> SslRead([s EXCEPT !.in = Tail(@)], n)

-----------------------------------------------------------------------------
(* helper.ts                                                               *)

\* write(bio_read): out_bio goes to the socket.
Flush(out) == wire' = wire \o out /\ out_bio' = << >>

\* tls_init_requestfunc, up to its loop.
HelloStep ==
  LET s == DoHandshake([expected |-> expected, in |-> in_bio, out |-> out_bio])
  IN  /\ pc = "start" /\ pc' = "init"
      /\ expected' = s.expected /\ Flush(s.out)
      /\ UNCHANGED <<peerVars, arrived, in_bio, pending, handshake, got>>

\* A turn of the loops of both init functions: read, bio_write, handshake.  The
\* operation gives no size when the handshake is over, and nothing is written
\* then; but the server writes what is there behind its loop.
InitStep ==
  LET s == DoHandshake([expected |-> expected, in |-> in_bio \o arrived, out |-> out_bio])
      over == s.expected = "none"
  IN  /\ pc = "init" /\ arrived # << >>
      /\ arrived' = << >> /\ in_bio' = s.in /\ expected' = s.expected
      /\ handshake' = over
      /\ pc' = IF ~ over THEN "init" ELSE IF role = "client" THEN "write" ELSE "some"
      /\ IF over /\ role = "client" THEN out_bio' = s.out /\ UNCHANGED wire ELSE Flush(s.out)
      /\ UNCHANGED <<peerVars, pending, got>>

\* tls_writefunc: the client's request.
WriteStep ==
  /\ pc = "write" /\ pc' = "some"
  /\ Flush(Append(out_bio, Item("request")))
  /\ UNCHANGED <<peerVars, arrived, in_bio, expected, pending, handshake, got>>

\* tls_readfunc: ssl_read; if it gave nothing, read and bio_write (whose own
\* SSL_read of no bytes opens the next record).
Wanted == IF pc = "some" THEN Block ELSE Total - Len(got)
\* Faulty variant of Open: the read that opens a record takes a byte of it.
OpenAndTake(in) ==
  LET rest == SelectSeq(in, LAMBDA x : x.kind # "ticket")
  IN  IF pending = << >> /\ rest # << >> /\ Head(rest).kind = "record"
      THEN [in |-> Tail(rest), pending |-> Tail(Head(rest).bytes)]
      ELSE [in |-> rest, pending |-> pending]

Open(in) ==
  LET rest == SelectSeq(in, LAMBDA x : x.kind # "ticket")
  IN  IF pending = << >> /\ rest # << >> /\ Head(rest).kind = "record"
      THEN [in |-> Tail(rest), pending |-> Head(rest).bytes]
      ELSE [in |-> rest, pending |-> pending]

ReadStep ==
  LET s == SslRead([in |-> in_bio, pending |-> pending, read |-> << >>, error |-> FALSE], Wanted)
      all == got \o s.read
  IN  /\ pc \in {"some", "exact"}
      /\ IF s.error THEN pc' = "failed" /\ UNCHANGED <<arrived, in_bio, pending, got>>
         ELSE IF s.read # << >>
         THEN /\ in_bio' = s.in /\ pending' = s.pending /\ got' = all
              /\ pc' = IF Len(all) = Total THEN "done"
                       ELSE IF Len(all) < Header THEN "some" ELSE "exact"
              /\ UNCHANGED arrived
         ELSE IF arrived # << >>
         THEN LET o == Open(s.in \o arrived)
              IN  /\ in_bio' = o.in /\ pending' = o.pending /\ arrived' = << >>
                  /\ UNCHANGED <<pc, got>>
         ELSE /\ ended /\ coming = << >>
              /\ pc' = "failed" /\ UNCHANGED <<arrived, in_bio, pending, got>>
      /\ UNCHANGED <<peerVars, out_bio, expected, handshake, wire>>

Next ==
  \/ PeerReceives \/ PeerSends \/ PeerCloses \/ Arrive
  \/ HelloStep \/ InitStep \/ WriteStep \/ ReadStep

Spec == Init /\ [][Next]_tlsVars
\* The peer answers and the network delivers; it need not send.
Progress == PeerReceives \/ Arrive \/ HelloStep \/ InitStep \/ WriteStep \/ ReadStep
FairSpec == Spec /\ WF_tlsVars(Progress)

-----------------------------------------------------------------------------
(* Properties.                                                             *)

\* What is read is what was sent, and all of it unless bytes are missing, with
\* one exception: a read of unknown length that finds the peer's close_notify
\* behind the last bytes fails, and they are lost (mod_tls.rs:475).
ReadsAreWhole ==
  /\ \A i \in DOMAIN got : got[i] = i
  /\ pc = "failed" => sent < Total \/ Len(got) < Header
  /\ ended /\ coming = << >> /\ sent = Total /\ Len(got) >= Header => pc \in {"exact", "done"}

\* The handshake ends at both ends, although the last message of a client of
\* TLS 1.3 stays in out_bio until it writes its request.
HandshakeOver == pc \notin {"start", "init", "write"} /\ peer = "none"
=============================================================================
