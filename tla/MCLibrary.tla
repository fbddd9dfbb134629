----------------------------- MODULE MCLibrary -----------------------------
(***************************************************************************)
(* Instances for TLC of the modules that stand on the sockets, on the core *)
(* or on nothing: WebSocket, HttpClient, HttpMessage, Tls, Mysql,          *)
(* MongoCursor, LuaSeri, Bson, DnsMessage, Inspector, ServiceStart,        *)
(* ChannelConnect, Http2Flow, Http2Frames and Grpc.  They share no state,  *)
(* so a behaviour is one of any of them: "which" names it and never        *)
(* changes, and its variables are kept in v1, v2 and so on.  LibraryParts  *)
(* has those of the modules about which there are proofs.                  *)
(***************************************************************************)
EXTENDS LibraryParts

CONSTANTS
  MaxBody,                                               \* HttpMessage
  Total, Header, Block,                                  \* Tls
  Base, MAX_COOKIE, MAX_DEPTH, Chunk, MaxUnits, MaxNumber,  \* LuaSeri, Bson
  MaxTtl, MaxRecords, MaxQueries, MaxNow,                \* DnsMessage
  Window, MaxFrame, Room, MaxBytes,                      \* Http2Flow
  MaxPayload,                                            \* Http2Frames
  Limit, Long, MaxResponses                              \* Grpc, Hpack

HM == INSTANCE HttpMessage WITH
  message <- v1, coming <- v2, arrived <- v3, ended <- v4, stage <- v5,
  fresh <- v6, rest <- v7, sz <- v8, body <- v9
TL == INSTANCE Tls WITH
  role <- v1, version <- v2, peer <- v3, sent <- v4, coming <- v5,
  arrived <- v6, ended <- v7, in_bio <- v8, out_bio <- v9, expected <- v10,
  pending <- v11, handshake <- v12, pc <- v13, wire <- v14, got <- v15
LS == INSTANCE LuaSeri WITH value <- v1, stream <- v2, step <- v3, back <- v4
BS == INSTANCE Bson WITH value <- v1, stream <- v2, step <- v3, back <- v4
DM == INSTANCE DnsMessage WITH
  hosts <- v1, clock <- v2, cached <- v3, asked <- v4, count <- v5,
  chunk <- v6, suffixes <- v7, section <- v8, answer <- v9, queries <- v10,
  told <- v11, result <- v12
HF == INSTANCE Http2Flow WITH
  written <- v1, sending <- v2, finished <- v3, queue <- v4, output <- v5,
  window <- v6, connWindow <- v7, thrown <- v8, garbled <- v9, wire <- v10,
  input <- v11, kept <- v12, held <- v13, ended <- v14, received <- v15,
  arrived <- v16
FR == INSTANCE Http2Frames WITH
  role <- v1, sent <- v2, coming <- v3, chunk <- v4, buffer <- v5, size <- v6,
  frame <- v7, got <- v8, status <- v9

\* A static table that has one of the headers whole, and the name of another.
StaticTable == <<<<":status", "200">>, <<"content-type", "">>>>
GR == INSTANCE Grpc WITH
  Static <- StaticTable,
  kind <- v1, state <- v2, output <- v3, bucket <- v4, wire <- v5,
  encoder <- v6, decoder <- v7, reading <- v8, handler <- v9, responses <- v10,
  given <- v11, outcome <- v12, result <- v13, blocks <- v14, decoded <- v15,
  overtaken <- v16

\* The variables that a module does not use, from the first such on.
From15 == <<v15, v16>>
From14 == <<v14, From15>>
From13 == <<v13, From14>>
From11 == <<v11, v12, From13>>
From10 == <<v10, From11>>
From5 == <<v5, v6, v7, v8, v9, From10>>
allVars == <<which, v1, v2, v3, v4, From5>>

Unused15 == v15 = 0 /\ v16 = 0
Unused14 == v14 = 0 /\ Unused15
Unused13 == v13 = 0 /\ Unused14
Unused11 == v11 = 0 /\ v12 = 0 /\ Unused13
Unused10 == v10 = 0 /\ Unused11
Unused5 == v5 = 0 /\ v6 = 0 /\ v7 = 0 /\ v8 = 0 /\ v9 = 0 /\ Unused10

Init ==
  \/ which = "websocket" /\ WS!Init /\ Unused14
  \/ which = "http client" /\ HC!Init /\ Unused13
  \/ which = "http message" /\ HM!Init /\ Unused10
  \/ which = "tls" /\ TL!Init /\ v16 = 0
  \/ which = "mysql" /\ MY!Init /\ Unused10
  \/ which = "mongo" /\ MO!Init /\ Unused15
  \/ which = "lua" /\ LS!Init /\ Unused5
  \/ which = "inspector" /\ VI!Init /\ v16 = 0
  \/ which = "service" /\ SS!Init /\ Unused11
  \/ which = "connect" /\ CC!Init /\ v16 = 0
  \/ which = "bson" /\ BS!Init /\ Unused5
  \/ which = "dns message" /\ DM!Init /\ Unused13
  \/ which = "http2 flow" /\ HF!Init
  \/ which = "http2 frames" /\ FR!Init /\ Unused10
  \/ which = "grpc" /\ GR!Init

Next ==
  \/ which = "websocket" /\ WS!Next /\ UNCHANGED <<which, From14>>
  \/ which = "http client" /\ HC!Next /\ UNCHANGED <<which, From13>>
  \/ which = "http message" /\ HM!Next /\ UNCHANGED <<which, From10>>
  \/ which = "tls" /\ TL!Next /\ UNCHANGED <<which, v16>>
  \/ which = "mysql" /\ MY!Next /\ UNCHANGED <<which, From10>>
  \/ which = "mongo" /\ MO!Next /\ UNCHANGED <<which, From15>>
  \/ which = "lua" /\ LS!Next /\ UNCHANGED <<which, From5>>
  \/ which = "inspector" /\ VI!Next /\ UNCHANGED <<which, v16>>
  \/ which = "service" /\ SS!Next /\ UNCHANGED <<which, From11>>
  \/ which = "connect" /\ CC!Next /\ UNCHANGED <<which, v16>>
  \/ which = "bson" /\ BS!Next /\ UNCHANGED <<which, From5>>
  \/ which = "dns message" /\ DM!Next /\ UNCHANGED <<which, From13>>
  \/ which = "http2 flow" /\ HF!Next /\ UNCHANGED which
  \/ which = "http2 frames" /\ FR!Next /\ UNCHANGED <<which, From10>>
  \/ which = "grpc" /\ GR!Next /\ UNCHANGED which

\* Only one of the modules runs, so this is the fairness of each of them.
Progress ==
  \/ which = "websocket" /\ WS!Progress /\ UNCHANGED <<which, From14>>
  \/ which = "http client" /\ HC!Progress /\ UNCHANGED <<which, From13>>
  \/ which = "tls" /\ TL!Progress /\ UNCHANGED <<which, v16>>
  \/ which = "inspector" /\ VI!Progress /\ UNCHANGED <<which, v16>>
  \/ which = "service" /\ SS!Progress /\ UNCHANGED <<which, From11>>
  \/ which = "connect" /\ CC!Progress /\ UNCHANGED <<which, v16>>
  \/ which = "http2 flow" /\ HF!Progress /\ UNCHANGED which

FairSpec == Init /\ [][Next]_allVars /\ WF_allVars(Progress)

-----------------------------------------------------------------------------
(* The properties of the other modules, under the names they have there.   *)

\* A message of HTTP is read as it was written or not at all.
BodyIsWhole == which = "http message" => HM!BodyIsWhole

\* What is read from a TLS connection is what was sent, to the last byte.
ReadsAreWhole == which = "tls" => TL!ReadsAreWhole

\* decode gives back what encode was given, for Lua and for BSON, and refuses
\* what was cut short.
ValuesComeBack ==
  /\ which = "lua" => LS!ValuesComeBack
  /\ which = "bson" => BS!DocumentsComeBack

\* resolve() returns what the server last told, within its time, or throws.
ResolvedAsTold == which = "dns message" => DM!ResolvedAsTold

\* No window of HTTP/2 is lost or given twice, the bytes of a stream stay in
\* order, and every frame of it is forwarded.
FlowSafe == which = "http2 flow" => HF!FlowSafe

\* The frames that a connection reads are those that were written, however the
\* bytes are cut into pieces.
FramesComeBack == which = "http2 frames" => FR!FramesComeBack

\* The ends of a connection agree on the state of its streams and on the table
\* of headers, and every call ends as its handler did, unless header blocks
\* were forwarded in an order they were not compressed in.
GrpcSafe == which = "grpc" => GR!GrpcSafe

\* What the modules wait for comes: accept() ends, a request with a timeout
\* ends, a handshake is over, a paused service goes on, a service that starts
\* is reported, a channel's connection is made or fails, the bytes of a stream
\* arrive.
Waits ==
  CASE which = "websocket" -> WS!ClientGone
    [] which = "http client" -> HC!Timed
    [] which = "tls" -> TRUE
    [] which = "inspector" -> VI!AllLeave
    [] which = "service" -> SS!Starts
    [] which = "connect" -> CC!Waiting
    [] which = "http2 flow" -> HF!Underway
    [] OTHER -> FALSE
Served ==
  CASE which = "websocket" -> WS!AcceptEnded
    [] which = "http client" -> HC!RequestEnded
    [] which = "tls" -> TL!HandshakeOver
    [] which = "inspector" -> VI!GoesOn
    [] which = "service" -> SS!LauncherTold
    [] which = "connect" -> CC!Heard
    [] which = "http2 flow" -> HF!Arrives
    [] OTHER -> TRUE
WaitsEnd == Waits ~> Served
=============================================================================
