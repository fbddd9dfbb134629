---------------------------- MODULE HttpMessage ----------------------------
(***************************************************************************)
(* The messages of ts/lib/skynet/http: what request (internal.ts) and      *)
(* write_response (httpd.ts) write, and the parsers recvheader, chunksize, *)
(* readcrln and recvchunkedbody that request and read_request read them    *)
(* with.  The bytes arrive cut anywhere, and the connection may end        *)
(* anywhere.  A start line, a header and a chunk size are one byte each; a *)
(* header may be longer than LIMIT all the same.  The writers write no     *)
(* chunk size of 128 bytes, which chunksize would refuse (internal.ts:105).*)
(***************************************************************************)
EXTENDS Naturals, Sequences, SequencesExt, FiniteSetsExt

CONSTANT MaxBody   \* Bound: characters of a body.

CRLF == <<"\r", "\n">>
Digits == <<"1", "2", "3", "4", "5", "6", "7", "8", "9">>
Digit(n) == IF n = 0 THEN "0" ELSE Digits[n]
Value(d) == IF d = "0" THEN 0 ELSE CHOOSE n \in DOMAIN Digits : Digits[n] = d

\* A character of the body is one byte, or two; it may be part of a separator.
Char == {"x", "\r", "\n", "u"}
Utf8(c) == IF c = "u" THEN <<"u1", "u2">> ELSE <<c>>
Encoded(chars) == FlattenSeq([i \in DOMAIN chars |-> Utf8(chars[i])])
Plain(chars) == \A i \in DOMAIN chars : chars[i] # "u"

\* long: the header is longer than LIMIT, whatever body follows.  bodylimit: what a server has passed to
\* read_request, 0 for none; request passes none.
Messages ==
  [side : {"client", "server"}, code : {"200", "204"}, chunked : BOOLEAN, long : BOOLEAN,
   chars : SeqOf(Char, MaxBody), cut : 0 .. MaxBody, bodylimit : 0 .. 1]

-----------------------------------------------------------------------------
(* The writers.  The sizes they announce count characters.                 *)

\* write_response with a string, request with a content
Whole(m) ==
  <<m.code>> \o CRLF \o <<Digit(Len(m.chars))>> \o CRLF \o CRLF \o Encoded(m.chars)

ChunkOf(chars) ==
  IF chars = << >> THEN << >> ELSE CRLF \o <<Digit(Len(chars))>> \o CRLF \o Encoded(chars)

\* write_response with a function, which gives the body in two parts
Chunked(m) ==
  <<m.code>> \o CRLF \o <<"chunked">> \o CRLF
    \o ChunkOf(SubSeq(m.chars, 1, m.cut)) \o ChunkOf(SubSeq(m.chars, m.cut + 1, Len(m.chars)))
    \o CRLF \o <<"0">> \o CRLF \o CRLF

-----------------------------------------------------------------------------
VARIABLES
  message,   \* What was sent, and who reads it.
  coming,    \* Its bytes that have not arrived.
  arrived,   \* The bytes in the socket's buffer.
  ended,     \* The connection: "no", "closed" behind all bytes, or "broken" off.
  stage,     \* Where the reader stands.
  fresh,     \* Whether recvheader has not read anything yet.
  rest,      \* header or body: the bytes in hand.
  sz,        \* The size that was announced.
  body       \* result_buf

messageVars == <<message, coming, arrived, ended, stage, fresh, rest, sz, body>>

Init ==
  /\ message \in {m \in Messages : /\ m.cut <= Len(m.chars) /\ (m.chunked \/ m.cut = 0)
                                   /\ m.code = "204" => m.chars = << >> /\ ~ m.chunked
                                   /\ m.side = "client" => m.bodylimit = 0
                                   /\ m.long => m.chars = << >> /\ m.bodylimit = 0}
  /\ coming = IF message.chunked THEN Chunked(message) ELSE Whole(message)
  /\ arrived = << >> /\ ended = "no"
  /\ stage = "header" /\ fresh = TRUE /\ rest = << >> /\ sz = 0 /\ body = << >>

Arrive ==
  \E n \in 1 .. Len(coming) :
    /\ arrived' = arrived \o SubSeq(coming, 1, n)
    /\ coming' = SubSeq(coming, n + 1, Len(coming))
    /\ UNCHANGED <<message, ended, stage, fresh, rest, sz, body>>

\* The end is noticed behind the last byte.
Close ==
  /\ ended = "no" /\ coming = << >> /\ ended' = "closed"
  /\ UNCHANGED <<message, coming, arrived, stage, fresh, rest, sz, body>>

\* A connection that breaks before all of it has arrived.
Break ==
  /\ ended = "no" /\ coming # << >> /\ ended' = "broken" /\ coming' = << >>
  /\ UNCHANGED <<message, arrived, stage, fresh, rest, sz, body>>

-----------------------------------------------------------------------------
(* The readers.                                                            *)

\* buffer_find: the first place of dst in s, 0 if there is none.
Find(s, dst) ==
  LET at == {i \in 1 .. Len(s) - Len(dst) + 1 : SubSeq(s, i, i + Len(dst) - 1) = dst}
  IN  IF at = {} THEN 0 ELSE Min(at)
Drop(s, n) == SubSeq(s, n + 1, Len(s))

\* read() takes what there is, read(n) waits for n bytes.
ReadSome ==
  IF arrived # << >>
  THEN rest' = rest \o arrived /\ arrived' = << >> /\ fresh' = FALSE /\ UNCHANGED stage
  ELSE ended # "no" /\ stage' = "failed" /\ UNCHANGED <<rest, arrived, fresh>>
ReadExact(n, next) ==
  IF Len(arrived) >= n
  THEN rest' = rest \o SubSeq(arrived, 1, n) /\ arrived' = Drop(arrived, n) /\ stage' = next
  ELSE ended # "no" /\ stage' = "failed" /\ UNCHANGED <<rest, arrived>>

TooLarge(size) == message.bodylimit # 0 /\ size > message.bodylimit

\* After the header: how request and read_request find the body.
BodyStage(header) ==
  IF "chunked" \in header THEN "chunksize"
  ELSE IF \E n \in 1 .. 9 : Digit(n) \in header /\ TooLarge(n) THEN "failed"
  ELSE IF \E n \in 1 .. 9 : Digit(n) \in header THEN "length"
  ELSE IF message.side = "server" \/ "204" \in header THEN "done"
  ELSE "all"

Parsed(header, tail) ==
  /\ rest' = tail
  /\ sz' = IF \E n \in 1 .. 9 : Digit(n) \in header
           THEN CHOOSE n \in 1 .. 9 : Digit(n) \in header ELSE 0
  /\ stage' = IF stage = "trailer" THEN "done" ELSE BodyStage(header)
  /\ UNCHANGED <<arrived, fresh>>

\* What was read has not ended and is more than LIMIT.
TooLong ==
  /\ message.long /\ stage = "header" /\ ~ fresh
  /\ stage' = "failed" /\ UNCHANGED <<rest, arrived, fresh>>

\* recvheader, of a message or of the trailer behind its chunks.  An empty
\* header is looked for first only in what recvheader was called with.
Recvheader ==
  LET end   == Find(rest, CRLF \o CRLF)
      empty == IsPrefix(CRLF, rest)
  IN  /\ stage \in {"header", "trailer"}
      /\ IF end > 0 /\ ~ (fresh /\ empty)
         THEN Parsed(ToSet(SubSeq(rest, 1, end - 1)), Drop(rest, end + 3))
         ELSE IF empty THEN Parsed({}, Drop(rest, 2))
         ELSE UNCHANGED sz /\ (ReadSome \/ TooLong)
      /\ UNCHANGED <<message, coming, ended, body>>

Chunksize ==
  LET index == Find(rest, CRLF)
  IN  /\ stage = "chunksize"
      /\ IF index > 0
         THEN /\ sz' = Value(rest[index - 1])
              /\ rest' = Drop(rest, index + 1)
              /\ fresh' = TRUE
              /\ stage' = IF sz' = 0 THEN "trailer"
                          ELSE IF TooLarge(Len(body) + sz') THEN "failed" ELSE "chunk"
              /\ UNCHANGED arrived
         ELSE ReadSome /\ UNCHANGED sz
      /\ UNCHANGED <<message, coming, ended, body>>

\* Faulty variant of ReadSized: all that is in hand is taken for the body.
ReadSizedAll ==
  /\ stage \in {"chunk", "length"}
  /\ IF Len(rest) >= sz
     THEN /\ body' = body \o rest /\ rest' = << >>
          /\ stage' = IF stage = "chunk" THEN "crln" ELSE "done"
          /\ UNCHANGED arrived
     ELSE ReadExact(sz - Len(rest), stage) /\ UNCHANGED body
  /\ UNCHANGED <<message, coming, ended, fresh, sz>>

\* A chunk, or a body of a known length: what is in hand, then the remainder.
ReadSized ==
  /\ stage \in {"chunk", "length"}
  /\ IF Len(rest) >= sz
     THEN /\ body' = body \o SubSeq(rest, 1, sz)
          /\ rest' = Drop(rest, sz)
          /\ stage' = IF stage = "chunk" THEN "crln" ELSE "done"
          /\ UNCHANGED arrived
     ELSE ReadExact(sz - Len(rest), stage) /\ UNCHANGED body
  /\ UNCHANGED <<message, coming, ended, fresh, sz>>

Readcrln ==
  /\ stage = "crln"
  /\ IF Len(rest) < 2 THEN ReadExact(2 - Len(rest), stage)
     ELSE /\ IF IsPrefix(CRLF, rest)
             THEN rest' = Drop(rest, 2) /\ stage' = "chunksize"
             ELSE stage' = "failed" /\ UNCHANGED rest
          /\ UNCHANGED arrived
  /\ UNCHANGED <<message, coming, ended, fresh, sz, body>>

\* request without a length, or with that of an empty body: socket.readall,
\* which does not wait for the end but takes what there is.
Readall ==
  /\ stage = "all"
  /\ body' = rest \o arrived /\ arrived' = << >> /\ stage' = "done"
  /\ UNCHANGED <<message, coming, ended, fresh, rest, sz>>

Read == Recvheader \/ Chunksize \/ ReadSized \/ Readcrln \/ Readall
Next == Arrive \/ Close \/ Break \/ Read

Spec == Init /\ [][Next]_messageVars

-----------------------------------------------------------------------------
(* Properties.                                                             *)

\* However its bytes are cut, a message is read as it was written or not at
\* all: one that breaks off is never taken for a whole one, neither is the
\* body's own text taken for a separator, and no body is longer than its limit.
\* A content-length counts characters (httpd.ts:117): of a body with others
\* than ASCII only its first bytes are read; a chunk of such characters is refused.
DoneIsWhole ==
  stage = "done" =>
    /\ body = SubSeq(Encoded(message.chars), 1, Len(message.chars))
    /\ ~ TooLarge(Len(body))

\* Only a message that breaks off, is too long or has such chunks is refused.
FailedIsBroken ==
  stage = "failed" =>
    \/ ended = "broken" \/ message.long \/ TooLarge(Len(message.chars))
    \/ ~ Plain(message.chars)

BodyIsWhole == DoneIsWhole /\ FailedIsBroken
=============================================================================
