------------------------------ MODULE LuaSeri ------------------------------
(***************************************************************************)
(* ts/lib/skynet/lua_seri.ts: what encode writes of a value, and what      *)
(* decode makes of it or of a stream that was cut short.                   *)
(***************************************************************************)
EXTENDS Pack

CONSTANTS
  MAX_COOKIE,  \* From this length on, a length does not fit the first byte: 32.
  MAX_DEPTH,
  MaxUnits,    \* Bound: code units of a string.
  MaxNumber    \* Bound: numbers go from -MaxNumber to MaxNumber.

Nil == [type |-> "nil"]

RECURSIVE Nested(_, _)
Nested(v, depth) == IF depth = 0 THEN v ELSE Array(<<Nested(v, depth - 1)>>)

Samples == {Nil, Number(1), Number(-1), String(<<"a">>), Object(<< >>)}
Values ==
  {[type |-> t, n |-> n] : t \in {"number", "bigint"}, n \in -MaxNumber .. MaxNumber}
    \cup {[type |-> "userdata", n |-> n] : n \in {0, 1, Qword - 1}}
    \cup {[type |-> "boolean", b |-> b] : b \in BOOLEAN}
    \cup {String(s) : s \in SeqOf(Unit, MaxUnits)}
    \cup {Array(items) : items \in SeqOf(Samples, MAX_COOKIE)}
    \cup {Object(<< <<String(<<"a">>), v>>, <<String(<<"e">>), w>> >>) : v, w \in Samples}
    \cup {Nested(v, d) : v \in {Nil, Array(<< >>)}, d \in 0 .. MAX_DEPTH + 1}

-----------------------------------------------------------------------------
(* encoder                                                                 *)

Head1(type, subtype) == << <<type, subtype>> >>

EncodeNumber(v) ==
  IF v = 0 THEN Head1("number", 0)
  ELSE IF v < -(Dword \div 2) \/ v > Dword \div 2 THEN Head1("number", 6) \o EncodeUint(v, 8)
  ELSE IF v < 0 THEN Head1("number", 4) \o EncodeUint(v, 4)
  ELSE IF v < Base THEN Head1("number", 1) \o EncodeUint(v, 1)
  ELSE IF v < Word THEN Head1("number", 2) \o EncodeUint(v, 2)
  ELSE Head1("number", 4) \o EncodeUint(v, 4)

EncodeString(s) ==
  LET bytes == Encoded(s)
      len   == Len(bytes)
  IN  (IF len < MAX_COOKIE THEN Head1("short", len)
       ELSE IF len < Word THEN Head1("long", 2) \o EncodeUint(len, 2)
       ELSE Head1("long", 4) \o EncodeUint(len, 4)) \o bytes

\* Faulty variant of ArrayHead: the mark of a long array is written as its length.
ArrayHeadFull(n) ==
  IF n >= MAX_COOKIE - 1
  THEN Head1("table", MAX_COOKIE - 1) \o EncodeNumber(MAX_COOKIE - 1)
  ELSE Head1("table", n)

ArrayHead(n) ==
  IF n >= MAX_COOKIE - 1 THEN Head1("table", MAX_COOKIE - 1) \o EncodeNumber(n)
  ELSE Head1("table", n)

RECURSIVE TooDeep(_, _)
TooDeep(v, depth) ==
  \/ depth > MAX_DEPTH
  \/ v.type = "array" /\ \E i \in DOMAIN v.items : TooDeep(v.items[i], depth + 1)
  \/ v.type = "object" /\ \E i \in DOMAIN v.fields : TooDeep(v.fields[i][2], depth + 1)

RECURSIVE Encode(_)
Encode(v) ==
  CASE v.type = "nil" -> Head1("nil", 0)
    [] v.type = "boolean" -> Head1("boolean", IF v.b THEN 1 ELSE 0)
    [] v.type = "number" -> EncodeNumber(v.n)
    [] v.type = "bigint" -> Head1("number", 6) \o EncodeBigint(v.n, 8)
    [] v.type = "userdata" -> Head1("userdata", 0) \o EncodeBigint(v.n, 8)
    [] v.type = "string" -> EncodeString(v.s)
    [] v.type = "array" ->
         ArrayHead(Len(v.items)) \o FlattenSeq([i \in DOMAIN v.items |-> Encode(v.items[i])])
           \o Head1("nil", 0)
    [] v.type = "object" ->
         Head1("table", 0)
           \o FlattenSeq([i \in DOMAIN v.fields |->
                            Encode(v.fields[i][1]) \o Encode(v.fields[i][2])])
           \o Head1("nil", 0)

-----------------------------------------------------------------------------
(* decoder.  A result is the value and where it ends, or Throws.           *)

Throws == [v |-> [type |-> "throws"], pos |-> -1]
At(v, pos) == [v |-> v, pos |-> pos]
Failed(r) == r.pos = -1

\* read_u8, read_i32, read_i64 and so on: ensure_read_size, then n bytes.
Read(s, pos, n, v) == IF Len(s) - pos + 1 < n THEN Throws ELSE At(v, pos + n)

DecodeNumber(s, pos, subtype) ==
  LET n == CASE subtype = 0 -> 0 [] subtype = 1 -> 1 [] subtype = 2 -> 2
             [] subtype = 4 -> 4 [] subtype = 6 -> 8
  IN  IF Failed(Read(s, pos, n, Nil)) THEN Throws
      ELSE LET u == DecodeUint(s, pos, n)
           IN  At(CASE n = 4 -> Number(Uncomplement32(u))
                    [] n = 8 -> BigInt(UncomplementBigint(u))
                    [] OTHER -> Number(u), pos + n)

ReadString(s, pos, len) ==
  IF Failed(Read(s, pos, len, Nil)) THEN Throws
  ELSE At(String(Utf8Read(SubSeq(s, pos, pos + len - 1))), pos + len)

RECURSIVE DecodeOne(_, _), DecodeItems(_, _, _, _), DecodeFields(_, _, _)

\* The items of an array, and the nil behind it (decode takes keys there, too,
\* which encode does not write).
DecodeItems(s, pos, n, items) ==
  IF n > 0
  THEN LET r == DecodeOne(s, pos)
       IN  IF Failed(r) THEN Throws ELSE DecodeItems(s, r.pos, n - 1, Append(items, r.v))
  ELSE Read(s, pos, 1, Array(items))

DecodeFields(s, pos, fields) ==
  IF pos > Len(s) THEN Throws
  ELSE IF s[pos][1] = "nil" THEN At(Object(fields), pos + 1)
  ELSE LET k == DecodeOne(s, pos)
           v == IF Failed(k) THEN Throws ELSE DecodeOne(s, k.pos)
       IN  IF Failed(v) THEN Throws ELSE DecodeFields(s, v.pos, Append(fields, <<k.v, v.v>>))

DecodeTable(s, pos, subtype) ==
  LET len == IF subtype >= MAX_COOKIE - 1 THEN DecodeOne(s, pos) ELSE At(Number(subtype), pos)
  IN  IF Failed(len) THEN Throws
      ELSE IF len.v.n > 0 THEN DecodeItems(s, len.pos, len.v.n, << >>)
      ELSE DecodeFields(s, len.pos, << >>)

DecodeOne(s, pos) ==
  IF pos > Len(s) THEN Throws
  ELSE LET type == s[pos][1]
           subtype == s[pos][2]
       IN  CASE type = "nil" -> At(Nil, pos + 1)
             [] type = "boolean" -> At([type |-> type, b |-> subtype = 1], pos + 1)
             [] type = "number" -> DecodeNumber(s, pos + 1, subtype)
             [] type = "userdata" ->
                  IF Failed(Read(s, pos + 1, 8, Nil)) THEN Throws
                  ELSE At([type |-> type, n |-> DecodeUint(s, pos + 1, 8)], pos + 9)
             [] type = "short" -> ReadString(s, pos + 1, subtype)
             [] type = "long" ->
                  IF Failed(Read(s, pos + 1, subtype, Nil)) THEN Throws
                  ELSE ReadString(s, pos + 1 + subtype, DecodeUint(s, pos + 1, subtype))
             [] type = "table" -> DecodeTable(s, pos + 1, subtype)

-----------------------------------------------------------------------------
VARIABLES
  value,   \* What is packed.
  stream,  \* encode's result, or what has come of it.
  step,    \* "encode" | "decode" | "cut" | "refused" | "done"
  back     \* decode's result.

seriVars == <<value, stream, step, back>>

Init == value \in Values /\ stream = << >> /\ step = "encode" /\ back = Throws

Pack ==
  /\ step = "encode"
  /\ IF TooDeep(value, 0) THEN step' = "refused" /\ UNCHANGED stream
     ELSE step' = "decode" /\ stream' = Encode(value)
  /\ UNCHANGED <<value, back>>

\* A message that ends too early (none, of no bytes, decodes to nothing).
Cut ==
  /\ step = "decode" /\ step' = "cut"
  /\ \E n \in 1 .. Len(stream) - 1 : stream' = SubSeq(stream, 1, n)
  /\ UNCHANGED <<value, back>>

Unpack ==
  /\ step \in {"decode", "cut"}
  /\ back' = DecodeOne(stream, 1)
  /\ step' = IF step = "cut" THEN "cut off" ELSE "done"
  /\ UNCHANGED <<value, stream>>

Next == Pack \/ Cut \/ Unpack
Spec == Init /\ [][Next]_seriVars

-----------------------------------------------------------------------------
(* Properties.                                                             *)

\* What comes back of a value: itself, except that integers of more than a
\* double word come back as bigints, an empty array as an empty object, and the
\* following do not come back at all: integers from -2^31 to -1 and 2^31, all of
\* which come back as -1 (pack.ts:420), and negative bigints (pack.ts:148).
RECURSIVE SameBack(_, _)
SameBack(v, w) ==
  CASE v.type = "number" ->
         w = IF v.n > Dword \div 2 \/ v.n < -(Dword \div 2) THEN BigInt(v.n)
             ELSE IF v.n < 0 \/ v.n = Dword \div 2 THEN Number(-1) ELSE v
    [] v.type = "bigint" -> w.type = "bigint" /\ (v.n >= 0 <=> w = v)
    [] v.type = "string" -> (w = v) = ~ StaleTail(v.s)
    [] v.type = "array" /\ v.items = << >> -> w = Object(<< >>)
    [] v.type = "array" /\ v.items # << >> ->
         /\ w.type = "array" /\ Len(w.items) = Len(v.items)
         /\ \A i \in DOMAIN v.items : SameBack(v.items[i], w.items[i])
    [] v.type = "object" ->
         /\ w.type = "object" /\ Len(w.fields) = Len(v.fields)
         /\ \A i \in DOMAIN v.fields : v.fields[i][1] = w.fields[i][1]
                                       /\ SameBack(v.fields[i][2], w.fields[i][2])
    [] OTHER -> w = v

\* decode reads what encode has written to its last byte and gives the value
\* back with the exceptions above, and refuses a stream that was cut short.
ValuesComeBack ==
  /\ step = "done" => back.pos = Len(stream) + 1 /\ SameBack(value, back.v)
  /\ step = "cut off" => back = Throws
=============================================================================
