-------------------------------- MODULE Grpc --------------------------------
(***************************************************************************)
(* Calls of ts/lib/x/grpc_basic: a client (client.ts) and a server         *)
(* (server.ts) with one connection, a stream for each call (stream.ts),    *)
(* and the connections that forward the frames of the streams (conn.ts).   *)
(*                                                                         *)
(* Header blocks are compressed when they are written to a stream, and the *)
(* table of the connection with them; the frames of the streams are        *)
(* forwarded later, one of each stream in turn.  Windows are left out (see *)
(* Http2Flow), and frames come as they were sent (see Http2Frames).  A     *)
(* connection that is lost is left out: nothing in the client looks at it, *)
(* and its calls wait for ever.                                            *)
(***************************************************************************)
EXTENDS Hpack, SequencesExt

CONSTANTS
  MaxCalls,      \* Bound: the calls; call c is the c-th stream of the client.
  MaxResponses   \* Bound: the responses of a streamed call.

Call == 1 .. MaxCalls

VARIABLES
  kind,       \* Of each call: "none", "unary" or "stream".
  state,      \* [client, server] of each call's stream.
  output,     \* The frames of each stream that were not forwarded.
  bucket,     \* The streams of the server's connection, in the order they came.
  wire,       \* The frames on their way to the client and to the server.
  encoder,    \* The tables of the Compressors
  decoder,    \*   and of the Decompressors.
  reading,    \* Whether the loop of readFrames goes on.
  handler,    \* Of each call at the server: "none", "called", "streaming", "ended".
  responses,  \* How many it has written.
  given,      \* How many responses the client got.
  outcome,    \* What the handler's trailers say,
  result,     \*   and how the call ended for the client; "none" until then.
  blocks,     \* History: the blocks that were compressed,
  decoded,    \*   those that were decompressed, by each side.
  overtaken   \* History: a block was decompressed before an earlier one.

grpcVars == <<kind, state, output, bucket, wire, encoder, decoder, reading, handler,
              responses, given, outcome, result, blocks, decoded, overtaken>>

Side == {"client", "server"}
Other(s) == IF s = "client" THEN "server" ELSE "client"
OK == "0"
UNKNOWN == "2"

\* What a handler throws: an error that is none of grpc, one with a long code, one
\* whose message has a % that is not of an encoding, and one whose code is 0.
Errors == {UNKNOWN, "long", "percent", "zero"}

Init ==
  /\ kind = [c \in Call |-> "none"] /\ handler = [c \in Call |-> "none"]
  /\ state = [s \in Side |-> [c \in Call |-> "IDLE"]]
  /\ output = [s \in Side |-> [c \in Call |-> << >>]]
  /\ bucket = << >>
  /\ wire = [s \in Side |-> << >>]
  /\ encoder = [s \in Side |-> << >>] /\ decoder = [s \in Side |-> << >>]
  /\ reading = [s \in Side |-> TRUE]
  /\ responses = [c \in Call |-> 0] /\ given = [c \in Call |-> 0]
  /\ outcome = [c \in Call |-> "none"] /\ result = [c \in Call |-> "none"]
  /\ blocks = [s \in Side |-> 0] /\ decoded = [s \in Side |-> 0] /\ overtaken = FALSE

-----------------------------------------------------------------------------
(* The states of a stream.                                                 *)

\* _transition: the state after a frame is sent or received.
After(st, sending, f) ==
  CASE st = "IDLE" /\ f.type = "HEADERS" ->
         IF ~f.end THEN "OPEN"
         ELSE IF sending THEN "HALF_CLOSED_LOCAL" ELSE "HALF_CLOSED_REMOTE"
    [] st = "OPEN" ->
         IF ~f.end THEN "OPEN"
         ELSE IF sending THEN "HALF_CLOSED_LOCAL" ELSE "HALF_CLOSED_REMOTE"
    [] st = "HALF_CLOSED_LOCAL" /\ ~sending ->
         IF f.end THEN "CLOSED" ELSE "HALF_CLOSED_LOCAL"
    [] st = "HALF_CLOSED_REMOTE" /\ sending ->
         IF f.end THEN "CLOSED" ELSE "HALF_CLOSED_REMOTE"
    [] OTHER -> "ILLEGAL"

AfterAll(st, sending, frames) ==
  LET after[k \in 0 .. Len(frames)] ==
        IF k = 0 THEN st ELSE After(after[k - 1], sending, frames[k])
  IN  after[Len(frames)]

Headers(c, headers, block, n, end) ==
  [type |-> "HEADERS", call |-> c, headers |-> headers, block |-> block, n |-> n, end |-> end]
Data(c, end) == [type |-> "DATA", call |-> c, end |-> end]

\* _pushUpstream of frames to the stream of c.
Send(s, c, frames) ==
  /\ output' = [output EXCEPT ![s][c] = @ \o frames]
  /\ state' = [state EXCEPT ![s][c] = AfterAll(@, TRUE, frames)]

-----------------------------------------------------------------------------
(* The client calls.                                                       *)

Path(c) == <<"/a", "/b", "/c">>[c]
RequestHeaders(c) == <<<<":path", Path(c)>>, <<"content-type", "grpc">>>>

\* _callUnary, _callStream, up to the await: HEADERS, the request, and the end
\* of the stream, which follows in the same turn.
CallOf(c, k) ==
  /\ kind[c] = "none" /\ \A d \in 1 .. c - 1 : kind[d] # "none"
  /\ kind' = [kind EXCEPT ![c] = k]
  /\ LET z == Compressed(RequestHeaders(c), encoder["client"])
         n == blocks["client"] + 1
     IN  /\ encoder' = [encoder EXCEPT !["client"] = z.table]
         /\ blocks' = [blocks EXCEPT !["client"] = n]
         /\ Send("client", c, <<Headers(c, RequestHeaders(c), z.block, n, FALSE),
                                Data(c, FALSE), Data(c, TRUE)>>)
  /\ UNCHANGED <<bucket, wire, decoder, reading, handler, responses, given, outcome,
                 result, decoded, overtaken>>

-----------------------------------------------------------------------------
(* The server answers.                                                     *)

ResponseHeaders == <<<<":status", "200">>, <<"content-type", "grpc">>>>
Trailers(code) == <<<<"grpc-status", IF code = "zero" THEN OK ELSE code>>>>

\* The frames of the header sets in hs, with the data between them.
HeadersAndData(c, first, n, code) ==
  LET start == IF first THEN Compressed(ResponseHeaders, encoder["server"])
               ELSE [block |-> << >>, table |-> encoder["server"]]
      last == IF code = "none" THEN [block |-> << >>, table |-> start.table]
              ELSE Compressed(Trailers(code), start.table)
      at == blocks["server"]
      k == at + IF first THEN 1 ELSE 0
  IN  /\ encoder' = [encoder EXCEPT !["server"] = last.table]
      /\ blocks' = [blocks EXCEPT !["server"] = k + IF code = "none" THEN 0 ELSE 1]
      /\ Send("server", c,
              (IF first THEN <<Headers(c, ResponseHeaders, start.block, at + 1, FALSE)>> ELSE << >>)
              \o [i \in 1 .. n |-> Data(c, FALSE)]
              \o (IF code = "none" THEN << >>
                  ELSE <<Headers(c, Trailers(code), last.block, k + 1, TRUE)>>))
      /\ responses' = [responses EXCEPT ![c] = @ + n]
      /\ outcome' = [outcome EXCEPT ![c] = code]
      /\ UNCHANGED <<kind, bucket, wire, decoder, reading, given, result, decoded, overtaken>>

\* handleStream of a unary call: all of the answer in one turn.
Answer(c) ==
  /\ handler[c] = "called" /\ kind[c] = "unary"
  /\ handler' = [handler EXCEPT ![c] = "ended"]
  /\ HeadersAndData(c, TRUE, 1, OK)

\* The handler throws, or there is none (sendError).
Fail(c, code) ==
  /\ handler[c] \in {"called", "streaming"}
  /\ handler' = [handler EXCEPT ![c] = "ended"]
  /\ HeadersAndData(c, FALSE, 0, code)

\* The response cannot be encoded: the HEADERS have been sent.
EncodeFails(c) ==
  /\ handler[c] = "called" /\ kind[c] = "unary"
  /\ handler' = [handler EXCEPT ![c] = "ended"]
  /\ HeadersAndData(c, TRUE, 0, UNKNOWN)

\* A streamed call: the HEADERS, a response, the end of the generator.
Stream(c) ==
  /\ handler[c] = "called" /\ kind[c] = "stream"
  /\ handler' = [handler EXCEPT ![c] = "streaming"]
  /\ HeadersAndData(c, TRUE, 0, "none")

Respond(c) ==
  /\ handler[c] = "streaming" /\ responses[c] < MaxResponses
  /\ HeadersAndData(c, FALSE, 1, "none")
  /\ UNCHANGED handler

EndStream(c) ==
  /\ handler[c] = "streaming"
  /\ handler' = [handler EXCEPT ![c] = "ended"]
  /\ HeadersAndData(c, FALSE, 0, OK)

-----------------------------------------------------------------------------
(* The connections.                                                        *)

\* The streams of a connection in the order they were made.
Bucket(s) == IF s = "client" THEN [c \in Call |-> c] ELSE bucket

\* _send: a frame of each stream in turn, until there is none.
Forward(s) ==
  LET out(k) == output[s][Bucket(s)[k]]
      round(i) == FlattenSeq([k \in DOMAIN Bucket(s) |->
                                IF i <= Len(out(k)) THEN <<out(k)[i]>> ELSE << >>])
      rounds == CHOOSE n \in {Len(output[s][c]) : c \in Call} :
                  \A c \in Call : Len(output[s][c]) <= n
  IN  /\ \E c \in Call : output[s][c] # << >>
      /\ wire' = [wire EXCEPT ![Other(s)] = @ \o FlattenSeq([i \in 1 .. rounds |-> round(i)])]
      /\ output' = [output EXCEPT ![s] = [c \in Call |-> << >>]]
      /\ UNCHANGED <<kind, state, bucket, encoder, decoder, reading, handler, responses,
                     given, outcome, result, blocks, decoded, overtaken>>

\* What the client makes of a frame of c: the first DATA of a unary call ends
\* it, trailers end it else.
Status(headers) ==
  LET found == {i \in DOMAIN headers : headers[i][1] = "grpc-status"}
  IN  IF found = {} THEN "unknown" ELSE headers[CHOOSE i \in found : TRUE][2]

\* raiseErrorFrom: the message is decoded, which throws where it was not encoded.
\* Trailers end a call without an error only where it is streamed.
Raised(c, status) ==
  CASE status = "percent" -> "URIError"
    [] status = OK /\ kind[c] = "unary" -> "zero"
    [] OTHER -> status

Heard(c, f, headers) ==
  IF result[c] # "none" THEN UNCHANGED <<given, result>>
  ELSE IF f.type = "DATA"
    THEN /\ given' = [given EXCEPT ![c] = @ + 1]
         /\ result' = IF kind[c] = "unary" THEN [result EXCEPT ![c] = OK] ELSE result
    ELSE /\ result' = IF f.end THEN [result EXCEPT ![c] = Raised(c, Status(headers))] ELSE result
         /\ UNCHANGED given

\* What the server makes of it: the first DATA calls the handler.
Called(c, f) ==
  handler' = IF f.type = "DATA" /\ handler[c] = "none"
               THEN [handler EXCEPT ![c] = "called"] ELSE handler

Arrived(s, f, headers) ==
  /\ state' = [state EXCEPT ![s][f.call] = After(@, FALSE, f)]
  /\ IF s = "client"
       THEN Heard(f.call, f, headers) /\ UNCHANGED <<handler, bucket>>
       ELSE /\ Called(f.call, f)
            /\ bucket' = IF f.call \in Range(bucket) THEN bucket ELSE Append(bucket, f.call)
            /\ UNCHANGED <<given, result>>

\* readFrames: a header block is decompressed first; where that throws, the
\* loop ends, and nobody reads any more.
Read(s) ==
  /\ wire[s] # << >> /\ reading[s]
  /\ wire' = [wire EXCEPT ![s] = Tail(@)]
  /\ LET f == Head(wire[s])
         z == Decompressed(f.block, decoder[s])
     IN  IF f.type = "DATA"
           THEN Arrived(s, f, << >>) /\ UNCHANGED <<decoder, reading, decoded, overtaken>>
           ELSE /\ decoder' = [decoder EXCEPT ![s] = z.table]
                /\ decoded' = [decoded EXCEPT ![s] = @ + 1]
                /\ overtaken' = (overtaken \/ f.n # decoded[s] + 1)
                /\ reading' = [reading EXCEPT ![s] = z.ok]
                /\ IF z.ok THEN Arrived(s, f, z.headers)
                   ELSE UNCHANGED <<state, handler, bucket, given, result>>
  /\ UNCHANGED <<kind, output, encoder, responses, outcome, blocks>>

-----------------------------------------------------------------------------

Next ==
  \/ \E c \in Call, k \in {"unary", "stream"} : CallOf(c, k)
  \/ \E s \in Side : Forward(s) \/ Read(s)
  \/ \E c \in Call : \/ Answer(c) \/ EncodeFails(c) \/ Stream(c) \/ Respond(c) \/ EndStream(c)
                     \/ \E code \in Errors : Fail(c, code)

Spec == Init /\ [][Next]_grpcVars

-----------------------------------------------------------------------------
(* Properties.                                                             *)

\* No frame of c is on its way, or ever will be.
Quiet(c) ==
  /\ handler[c] = "ended"
  /\ \A s \in Side : output[s][c] = << >> /\ wire[s] = << >> /\ reading[s]

\* No frame is illegal where it is sent or comes, and both ends agree on what
\* is over: in the end a stream is closed on both sides.
StatesAgree ==
  \A c \in Call, s \in Side :
    /\ state[s][c] # "ILLEGAL"
    /\ Quiet(c) => state[s][c] = "CLOSED"

\* A table is in step with the one at the other end whenever no block is under
\* way, and a block that is read in turn can be read.
InStep(s) ==
  /\ reading[s]
  /\ decoded[s] = blocks[Other(s)] => decoder[s] = encoder[Other(s)]

\* The requests are in step always.  The answers are, as long as no block was
\* forwarded before one that was compressed earlier (what the index then points
\* at may not be there, and hpack.ts:293 throws).
TablesInStep ==
  /\ InStep("server")
  /\ ~overtaken => InStep("client")

\* How the client must take what the handler of c did: an error with a bare % is
\* another (client.ts:29), and one of code 0 is none for a streamed call.
Told(c) ==
  CASE outcome[c] = "percent" -> "URIError"
    [] outcome[c] = "zero" /\ kind[c] = "stream" -> OK
    [] OTHER -> outcome[c]

\* A call ends as its handler did, with all that it responded; every call does,
\* when nothing is left to be sent.
EndsAsTold ==
  \A c \in Call :
    /\ given[c] <= responses[c]
    /\ ~overtaken =>
         /\ result[c] # "none" => result[c] = Told(c) /\ given[c] = responses[c]
         /\ Quiet(c) => result[c] # "none"

\* Blocks are overtaken only where two calls are answered at the same time.
OvertakenTogether ==
  overtaken => \E c, d \in Call : c # d /\ handler[c] # "none" /\ handler[d] # "none"

GrpcSafe == StatesAgree /\ TablesInStep /\ EndsAsTold /\ OvertakenTogether
=============================================================================
