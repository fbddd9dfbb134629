---------------------------- MODULE Http2Frames -----------------------------
(***************************************************************************)
(* The frames of ts/lib/x/grpc_basic/http2/frames.ts: what a peer writes   *)
(* and what the Deserializer makes of it, whatever the reads cut it into.  *)
(*                                                                         *)
(* Bytes come in cells: a field, a unit of data or one of padding.  The    *)
(* common header has two, the length and the rest.  The peer is one of     *)
(* this library or another, so that it may pad, or send frames that are    *)
(* refused.                                                                *)
(***************************************************************************)
EXTENDS Integers, Sequences, SequencesExt

CONSTANT MaxPayload  \* MAX_PAYLOAD_SIZE

VARIABLES
  role,     \* Whose Deserializer it is.
  sent,     \* The frames that the peer sends.
  coming,   \* The cells that have not arrived.
  chunk,    \* What is left of the last read.
  buffer,   \* _buffer, up to _cursor;
  size,     \*   how many cells it holds.
  frame,    \* _frame; NoFrame while waiting for a header.
  got,      \* The frames that were yielded.
  status    \* "open", or "broken" when decode has thrown.

framesVars == <<role, sent, coming, chunk, buffer, size, frame, got, status>>

HeaderSize == 2
NoFrame == [type |-> "none"]

\* Settings that are known, and one that is not.
Known == {"SETTINGS_ENABLE_PUSH", "SETTINGS_INITIAL_WINDOW_SIZE"}

-----------------------------------------------------------------------------
(* What a peer sends.                                                      *)

Frame(type, flags, fields, data) ==
  [type |-> type, flags |-> flags, fields |-> fields, data |-> data, pad |-> 0]

Text == <<"a", "b">>
DataOf(n) == SubSeq(Text, 1, n)

Padded(f, n) == [f EXCEPT !.flags = @ \cup {"PADDED"}, !.pad = n]

DataFrames ==
  LET plain == {Frame("DATA", flags, << >>, DataOf(n)) : flags \in {{}, {"END_STREAM"}}, n \in 0 .. 2}
  IN  plain \cup {Padded(f, n) : f \in plain, n \in 0 .. 1}

HeaderFrames ==
  LET plain == {Frame("HEADERS", {"END_HEADERS"}, << >>, DataOf(n)) : n \in 1 .. 2}
      prior == {[f EXCEPT !.flags = @ \cup {"PRIORITY"}, !.fields = <<"dependency", "weight">>] :
                  f \in plain}
  IN  plain \cup prior \cup {Padded(f, 1) : f \in plain \cup prior}

SettingsFrames ==
  {Frame("SETTINGS", {"ACK"}, << >>, << >>), Frame("SETTINGS", {"ACK"}, <<"unknown", 1>>, << >>)}
  \cup {Frame("SETTINGS", {}, fields, << >>) :
          fields \in {<< >>} \cup {<<s, 1>> : s \in Known \cup {"unknown"}}
                     \cup {<<"SETTINGS_INITIAL_WINDOW_SIZE", 1, "SETTINGS_INITIAL_WINDOW_SIZE", 2>>}}

ControlFrames ==
  {Frame("RST_STREAM", {}, <<code>>, << >>) : code \in {"CANCEL", "unknown"}}
  \cup {Frame("GOAWAY", {}, <<"last_stream", code>>, << >>) : code \in {"CANCEL", "unknown"}}
  \cup {Frame("WINDOW_UPDATE", {}, <<n>>, << >>) : n \in 0 .. 1}
  \cup {Frame("PING", {}, << >>, <<"a">>), Frame("BLOCKED", {}, << >>, <<"a">>)}
  \cup {Frame(type, {}, << >>, << >>) : type \in {"RST_STREAM", "WINDOW_UPDATE", "PING", "BLOCKED"}}

OtherFrames ==
  LET promises == {Frame("PUSH_PROMISE", {}, <<"stream">>, DataOf(n)) : n \in 0 .. 1}
  IN  promises \cup {Padded(f, 1) : f \in promises}
      \cup {Frame("PRIORITY", {}, <<"dependency", "weight">>, << >>),
            Frame("CONTINUATION", {"END_HEADERS"}, << >>, DataOf(2)),
            Frame("ORIGIN", {}, << >>, DataOf(1))}
      \cup {Frame("ALTSVC", {}, <<n>>, DataOf(1)) : n \in 0 .. 2}
      \cup {Frame(type, {}, << >>, << >>) :
              type \in {"PUSH_PROMISE", "PRIORITY", "CONTINUATION", "ALTSVC"}}

Frames == DataFrames \cup HeaderFrames \cup SettingsFrames \cup ControlFrames \cup OtherFrames

\* SerializerFrames, with the padding that only another library adds.
Payload(f) ==
  (IF "PADDED" \in f.flags THEN <<f.pad>> ELSE << >>)
  \o f.fields \o f.data \o [i \in 1 .. f.pad |-> "padding"]

\* encode: the common header and the payload.
Encoded(f) == <<Len(Payload(f)), [type |-> f.type, flags |-> f.flags]>> \o Payload(f)

\* The PRELUDE of a client; read as a header it announces too much.
Prelude == <<MaxPayload + 1, [type |-> "PRI", flags |-> {}]>>

\* All that the peer writes.
Written ==
  (IF role = "SERVER" THEN Prelude ELSE << >>)
  \o FlattenSeq([i \in DOMAIN sent |-> Encoded(sent[i])])

Init ==
  /\ role \in {"CLIENT", "SERVER"}
  /\ sent \in {<<f>> : f \in Frames} \cup {<<f, g>> : f \in Frames, g \in DataFrames}
  /\ coming = Written
  /\ chunk = << >> /\ buffer = << >> /\ size = HeaderSize /\ frame = NoFrame
  /\ got = << >> /\ status = "open"

-----------------------------------------------------------------------------
(* What decode makes of a payload: a frame, or none where it throws.       *)

Refused == {}
Taken(f, fields, data) == {[type |-> f.type, flags |-> f.flags, fields |-> fields, data |-> data]}

\* DATA, HEADERS: padding is taken off at both ends.
Unpadded(f, cells, offset, pad) == SubSeq(cells, offset + 1, Len(cells) - pad)

DataPayload(f, cells) ==
  LET padded == "PADDED" \in f.flags
      pad == IF padded THEN cells[1] ELSE 0
  IN  IF (padded /\ cells = << >>) \/ (pad > 0 /\ pad >= Len(cells) - 1) THEN Refused
      ELSE Taken(f, << >>, Unpadded(f, cells, IF padded THEN 1 ELSE 0, pad))

\* The fields between the length of the padding and the data.
Heading(f) ==
  IF f.type = "PUSH_PROMISE" THEN 1 ELSE IF "PRIORITY" \in f.flags THEN 2 ELSE 0

\* HEADERS, PUSH_PROMISE
HeadersPayload(f, cells) ==
  LET padded == IF "PADDED" \in f.flags THEN 1 ELSE 0
      offset == padded + Heading(f)
      pad == IF padded = 1 THEN cells[1] ELSE 0
  IN  IF Len(cells) < offset \/ Len(cells) - offset < pad THEN Refused
      ELSE Taken(f, SubSeq(cells, padded + 1, offset), Unpadded(f, cells, offset, pad))

\* ALTSVC: the length of the origin, the origin and the value.
AltsvcPayload(f, cells) ==
  IF cells = << >> \/ Len(cells) - 1 < cells[1] THEN Refused
  ELSE Taken(f, <<cells[1]>>, Tail(cells))

\* SETTINGS: those that are known, the last value of each.
SettingsPayload(f, cells) ==
  LET ids == {i \in DOMAIN cells : i % 2 = 1}
      known == {cells[i] : i \in ids} \cap Known
      last(name) == CHOOSE i \in ids : cells[i] = name /\ \A j \in ids : cells[j] = name => j <= i
  IN  IF \/ "ACK" \in f.flags /\ cells # << >>
         \/ Len(cells) % 2 # 0
         \/ role = "CLIENT" /\ "SETTINGS_ENABLE_PUSH" \in known
        THEN Refused
        ELSE Taken(f, [name \in known |-> cells[last(name) + 1]], << >>)

\* An error that is not known is taken for an INTERNAL_ERROR.
ErrorOf(code) == IF code = "unknown" THEN "INTERNAL_ERROR" ELSE code

PayloadOf(f, cells) ==
  CASE f.type = "DATA" -> DataPayload(f, cells)
    [] f.type \in {"HEADERS", "PUSH_PROMISE"} -> HeadersPayload(f, cells)
    [] f.type = "PRIORITY" ->
         IF Len(cells) < 2 THEN Refused ELSE Taken(f, SubSeq(cells, 1, 2), << >>)
    [] f.type = "CONTINUATION" -> Taken(f, << >>, cells)
    [] f.type = "ALTSVC" -> AltsvcPayload(f, cells)
    [] f.type = "ORIGIN" -> Taken(f, << >>, << >>)
    [] f.type = "SETTINGS" -> SettingsPayload(f, cells)
    [] f.type = "RST_STREAM" ->
         IF cells = << >> THEN Refused ELSE Taken(f, <<ErrorOf(cells[1])>>, << >>)
    [] f.type = "PING" -> IF Len(cells) # 1 THEN Refused ELSE Taken(f, << >>, cells)
    [] f.type = "GOAWAY" ->
         IF Len(cells) # 2 THEN Refused ELSE Taken(f, <<cells[1], ErrorOf(cells[2])>>, << >>)
    [] f.type = "WINDOW_UPDATE" ->
         IF Len(cells) # 1 \/ cells[1] = 0 THEN Refused ELSE Taken(f, cells, << >>)

-----------------------------------------------------------------------------
(* decode                                                                  *)

\* A read of the socket brings some of the cells.  The server takes the
\* PRELUDE off a read that starts with it (server.ts).
Arrive(n) ==
  /\ status = "open" /\ chunk = << >>
  /\ n <= Len(coming)
  /\ LET whole == role = "SERVER" /\ Len(coming) = Len(Written) /\ n >= Len(Prelude)
     IN  chunk' = SubSeq(coming, IF whole THEN Len(Prelude) + 1 ELSE 1, n)
  /\ coming' = SubSeq(coming, n + 1, Len(coming))
  /\ UNCHANGED <<role, sent, buffer, size, frame, got, status>>

\* The payload is there: the frame is yielded, ignored or refused, and the
\* next header waited for.
Yield(f, cells) ==
  /\ size' = HeaderSize /\ frame' = NoFrame /\ buffer' = << >>
  /\ IF f.type = "BLOCKED" THEN UNCHANGED <<got, status>>
     ELSE LET taken == PayloadOf(f, cells)
          IN  IF taken = Refused THEN status' = "broken" /\ UNCHANGED got
              ELSE got' = got \o SetToSeq(taken) /\ UNCHANGED status

\* Faulty variant of Decode: a header whose payload is empty waits for more.
DecodeLater ==
  /\ status = "open" /\ chunk # << >>
  /\ LET n == IF Len(chunk) < size - Len(buffer) THEN Len(chunk) ELSE size - Len(buffer)
         cells == buffer \o SubSeq(chunk, 1, n)
     IN  /\ chunk' = SubSeq(chunk, n + 1, Len(chunk))
         /\ CASE Len(cells) < size -> buffer' = cells /\ UNCHANGED <<size, frame, got, status>>
              [] Len(cells) = size /\ frame = NoFrame ->
                   IF cells[1] > MaxPayload
                     THEN status' = "broken" /\ UNCHANGED <<buffer, size, frame, got>>
                     ELSE /\ buffer' = << >> /\ size' = cells[1] /\ frame' = cells[2]
                          /\ UNCHANGED <<got, status>>
              [] Len(cells) = size /\ frame # NoFrame -> Yield(frame, cells)
  /\ UNCHANGED <<role, sent, coming>>

\* A round of decode: cells are copied until the buffer is full; a header
\* without payload is a frame at once.
Decode ==
  /\ status = "open" /\ chunk # << >>
  /\ LET n == IF Len(chunk) < size - Len(buffer) THEN Len(chunk) ELSE size - Len(buffer)
         cells == buffer \o SubSeq(chunk, 1, n)
     IN  /\ chunk' = SubSeq(chunk, n + 1, Len(chunk))
         /\ CASE Len(cells) < size -> buffer' = cells /\ UNCHANGED <<size, frame, got, status>>
              [] Len(cells) = size /\ frame = NoFrame ->
                   IF cells[1] > MaxPayload
                     THEN status' = "broken" /\ UNCHANGED <<buffer, size, frame, got>>
                     ELSE IF cells[1] = 0 THEN Yield(cells[2], << >>)
                     ELSE /\ buffer' = << >> /\ size' = cells[1] /\ frame' = cells[2]
                          /\ UNCHANGED <<got, status>>
              [] Len(cells) = size /\ frame # NoFrame -> Yield(frame, cells)
  /\ UNCHANGED <<role, sent, coming>>

Next == Decode \/ \E n \in 1 .. Len(coming) : Arrive(n)

Spec == Init /\ [][Next]_framesVars

-----------------------------------------------------------------------------
(* Properties.                                                             *)

\* What the frame means that was sent.
Settings(fields) ==
  LET names == {fields[i] : i \in {j \in DOMAIN fields : j % 2 = 1}} \cap Known
  IN  [name \in names |-> fields[Len(fields)]]
Meaning(f) ==
  [type |-> f.type, flags |-> f.flags, data |-> IF f.type = "ORIGIN" THEN << >> ELSE f.data,
   fields |-> CASE f.type = "SETTINGS" -> Settings(f.fields)
                [] f.type \in {"RST_STREAM", "GOAWAY"} ->
                     [f.fields EXCEPT ![Len(f.fields)] = IF @ = "unknown" THEN "INTERNAL_ERROR" ELSE @]
                [] OTHER -> f.fields]

\* A frame that no peer may send; and one that it may, padded DATA without any
\* data, for which decode finds no room (frames.ts:439).
Illegal(f) ==
  \/ /\ f.type \in {"RST_STREAM", "WINDOW_UPDATE", "PING", "PRIORITY", "PUSH_PROMISE", "ALTSVC"}
     /\ Payload(f) = << >>
  \/ f.type = "ALTSVC" /\ f.fields[1] > Len(f.data)
  \/ f.type = "WINDOW_UPDATE" /\ f.fields = <<0>>
  \/ f.type = "SETTINGS" /\ "ACK" \in f.flags /\ f.fields # << >>
  \/ f.type = "SETTINGS" /\ role = "CLIENT" /\ f.fields # << >>
       /\ f.fields[1] = "SETTINGS_ENABLE_PUSH"
  \/ Len(Payload(f)) > MaxPayload
OnlyPadding(f) == f.type = "DATA" /\ f.pad > 0 /\ f.data = << >>
Stops(f) == Illegal(f) \/ OnlyPadding(f)

Legal == SelectSeq(sent, LAMBDA f : f.type # "BLOCKED")

\* The frames are yielded as they were sent, each once and in order, and a
\* frame with its last cell; reading stops at one that is refused, or at a
\* PRELUDE that was read in two pieces.
FramesComeBack ==
  /\ Len(got) <= Len(Legal)
  /\ \A i \in DOMAIN got : got[i] = Meaning(Legal[i]) /\ ~Stops(Legal[i])
  /\ status = "broken" /\ got # << >> => Stops(Legal[Len(got) + 1])
  /\ status = "broken" /\ role = "CLIENT" => Stops(Legal[Len(got) + 1])
  /\ status = "open" /\ coming = << >> /\ chunk = << >> => Len(got) = Len(Legal)
=============================================================================
