-------------------------------- MODULE Bson --------------------------------
(***************************************************************************)
(* ts/lib/skynet/skynet/db/mongo/bson.ts: what encode and encode_order     *)
(* write of a document, and what decode makes of it.  Of the items of a    *)
(* stream (Pack), "type" is the byte before a key and "nul" the one behind *)
(* a text or a document.  Numbers that are no integers are left out.       *)
(***************************************************************************)
EXTENDS Pack

CONSTANTS
  MAX_DEPTH,
  MaxUnits,   \* Bound: code units of a string.
  MaxNumber   \* Bound: numbers go from -MaxNumber to MaxNumber.

Null == [type |-> "null"]
Text == {"code", "symbol", "dbpointer"}  \* Classes that hold a string.
Key == {<< >>, <<"a">>, <<"e">>}

RECURSIVE Nested(_, _)
Nested(v, depth) ==
  IF depth = 0 THEN v
  ELSE IF depth % 2 = 0 THEN Array(<<Nested(v, depth - 1)>>)
  ELSE Object(<< <<(<<"a">>), Nested(v, depth - 1)>> >>)

Samples ==
  {Null, Number(1), Number(-1), String(<<"e", "a">>), Object(<< >>), Array(<< >>)}
Scalars ==
  {[type |-> t, n |-> n] : t \in {"number", "bigint"}, n \in -MaxNumber .. MaxNumber}
    \cup {[type |-> t, n |-> n] : t \in {"date", "timestamp"}, n \in {-1, 0, 1, MaxNumber}}
    \cup {[type |-> "boolean", b |-> b] : b \in BOOLEAN}
    \cup {[type |-> t] : t \in {"null", "undefined", "minkey", "maxkey", "function"}}
    \cup {[type |-> "binary", n |-> n] : n \in 0 .. 2} \cup {[type |-> "oid", id |-> "id"]}
    \cup {[type |-> "regexp", s |-> s, options |-> o] : s, o \in Key}
    \cup {[type |-> t, s |-> s] : t \in {"string"} \cup Text, s \in SeqOf(Unit, MaxUnits)}
Fields(v, w) == << <<(<<"a">>), v>>, <<(<<"e">>), w>> >>
Documents ==
  {<< <<k, v>> >> : k \in Key, v \in Scalars}
    \cup {Fields(v, w) : v, w \in Samples}
    \cup {<< <<(<<"a">>), Array(items)>> >> : items \in SeqOf(Samples, 2)}
    \cup {Fields([type |-> t, s |-> <<"a">>, fields |-> Fields(v, v)], Null) :
            t \in {"map", "scope"}, v \in Samples}
    \cup {<< <<(<<"a">>), Nested(v, d)>> >> : v \in {Null, Array(<< >>)}, d \in 0 .. MAX_DEPTH + 1}

-----------------------------------------------------------------------------
(* encode                                                                  *)

Nul == << <<"nul", 0>> >>
AppendKey(k, t) == << <<"type", t>> >> \o Encoded(k) \o Nul
AppendText(s) == EncodeUint(Len(Encoded(s)) + 1, 4) \o Encoded(s) \o Nul

\* The length of a document counts itself and the byte behind it.
Document(body) == EncodeUint(Len(body) + 5, 4) \o body \o Nul

RECURSIVE Refused(_, _)
Refused(v, depth) ==
  \/ depth > MAX_DEPTH \/ v.type = "function"
  \/ v.type = "array" /\ \E i \in DOMAIN v.items : Refused(v.items[i], depth + 1)
  \/ v.type \in {"object", "map"} /\ \E i \in DOMAIN v.fields : Refused(v.fields[i][2], depth + 1)
  \/ v.type = "scope" /\ \E i \in DOMAIN v.fields : Refused(v.fields[i][2], 1)

AppendNumber(n) ==
  IF n \in -(Dword \div 2) .. Dword \div 2 - 1 THEN <<"int", EncodeUint(n, 4)>>
  ELSE <<"long", EncodeUint(n, 8)>>

RECURSIVE AppendOne(_, _), Appended(_)
Appended(fields) ==
  FlattenSeq([i \in DOMAIN fields |-> AppendOne(fields[i][1], fields[i][2])])

\* append_one, and the encode of the classes that stand for the other types.
\* The key of an item of an array is its index, which decode does not look at.
AppendOne(k, v) ==
  LET is(t, bytes) == AppendKey(k, t) \o bytes
  IN  CASE v.type = "number" -> LET a == AppendNumber(v.n) IN is(a[1], a[2])
        [] v.type = "bigint" -> is("long", EncodeBigint(v.n, 8))
        [] v.type = "boolean" -> is("boolean", EncodeUint(IF v.b THEN 1 ELSE 0, 1))
        [] v.type \in {"string", "code", "symbol"} -> is(v.type, AppendText(v.s))
        [] v.type = "date" -> is("date", EncodeUint(v.n, 8))
        [] v.type = "binary" ->
             is("binary", EncodeUint(v.n, 4) \o Nul \o [i \in 1 .. v.n |-> <<"data", 0>>])
        [] v.type \in {"null", "undefined"} -> is("null", << >>)
        [] v.type \in {"minkey", "maxkey"} -> is(v.type, << >>)
        [] v.type = "oid" -> is("oid", << <<"oid", v.id>> >>)
        [] v.type = "regexp" -> is("regexp", Encoded(v.s) \o Nul \o Encoded(v.options) \o Nul)
        [] v.type = "timestamp" -> is("timestamp", EncodeBigint(v.n, 8))
        [] v.type = "dbpointer" -> is("dbpointer", AppendText(v.s) \o << <<"oid", "id">> >>)
        [] v.type = "scope" -> is("scope", AppendText(v.s) \o Document(Appended(v.fields)))
        [] v.type \in {"object", "map"} -> is("object", Document(Appended(v.fields)))
        [] v.type = "array" ->
             is("array", Document(Appended([i \in DOMAIN v.items |-> << <<"a">>, v.items[i] >>])))

-----------------------------------------------------------------------------
(* decode.  A result is the value and where it ends.                       *)

At(v, pos) == [v |-> v, pos |-> pos]

\* What stands before the next zero; cstring() takes each byte for a character.
Cstring(s, pos) ==
  LET end == CHOOSE i \in pos .. Len(s) :
               s[i] = Nul[1] /\ \A j \in pos .. i - 1 : s[j] # Nul[1]
  IN  At([i \in 1 .. end - pos |-> s[pos + i - 1][1]], end + 1)
Utf8Cstr(s, pos) ==
  LET end == Cstring(s, pos).pos IN At(Utf8Read(SubSeq(s, pos, end - 2)), end)

\* utf8_str takes a text with the zero behind it, unpack_string without.
Utf8Str(s, pos) ==
  LET n == DecodeUint(s, pos, 4) IN At(Utf8Read(SubSeq(s, pos + 4, pos + 3 + n)), pos + 4 + n)
UnpackString(s, pos) ==
  LET n == DecodeUint(s, pos, 4) IN At(Utf8Read(SubSeq(s, pos + 4, pos + 2 + n)), pos + 4 + n)

RECURSIVE UnpackOne(_, _, _), UnpackDict(_, _, _)

\* unpack_dict behind the size, which it does not use: up to a zero, or to the
\* last byte of all, which decode leaves out.
UnpackDict(s, pos, fields) ==
  IF pos >= Len(s) THEN At(fields, pos)
  ELSE IF s[pos] = Nul[1] THEN At(fields, pos + 1)
  ELSE LET key == Cstring(s, pos + 1)
           r == UnpackOne(s[pos][2], s, key.pos)
       IN  UnpackDict(s, r.pos, Append(fields, <<key.v, r.v>>))

UnpackOne(t, s, pos) ==
  LET of(r) == At([type |-> t, s |-> r.v], r.pos)
      number(n) == At(Number(DecodeUint(s, pos, n)), pos + n)
  IN  CASE t = "int" -> number(4)
        [] t = "long" -> number(8)
        [] t = "date" -> At([type |-> t, n |-> DecodeUint(s, pos, 8)], pos + 8)
        [] t = "timestamp" ->
             At([type |-> t, n |-> UncomplementBigint(DecodeUint(s, pos, 8))], pos + 8)
        [] t = "boolean" -> At([type |-> t, b |-> DecodeUint(s, pos, 1) # 0], pos + 1)
        [] t \in {"null", "minkey", "maxkey"} -> At([type |-> t], pos)
        [] t = "string" -> of(UnpackString(s, pos))
        [] t \in {"code", "symbol"} -> of(Utf8Str(s, pos))
        [] t = "dbpointer" -> LET r == of(Utf8Str(s, pos)) IN At(r.v, r.pos + 1)
        [] t = "oid" -> At([type |-> t, id |-> s[pos][2]], pos + 1)
        [] t = "binary" ->
             LET n == DecodeUint(s, pos, 4) IN At([type |-> t, n |-> n], pos + 5 + n)
        [] t = "regexp" ->
             LET r == Utf8Cstr(s, pos)
                 o == Utf8Cstr(s, r.pos)
             IN  At([type |-> t, s |-> r.v, options |-> o.v], o.pos)
        [] t = "scope" ->
             LET r == Utf8Str(s, pos)
                 d == UnpackDict(s, r.pos + 4, << >>)
             IN  At([type |-> t, s |-> r.v, fields |-> d.v], d.pos)
        [] t = "object" -> LET d == UnpackDict(s, pos + 4, << >>) IN At(Object(d.v), d.pos)
        [] t = "array" ->
             LET d == UnpackDict(s, pos + 4, << >>)
             IN  At(Array([i \in DOMAIN d.v |-> d.v[i][2]]), d.pos)

-----------------------------------------------------------------------------
VARIABLES
  value,   \* The fields of a document.
  stream,  \* encode's result.
  step,    \* "encode", "decode", "refused" or "done".
  back     \* decode's result.

bsonVars == <<value, stream, step, back>>

Init == value \in Documents /\ stream = << >> /\ step = "encode" /\ back = At(<< >>, 0)

Encode ==
  /\ step = "encode"
  /\ IF \E i \in DOMAIN value : Refused(value[i][2], 0)
       THEN step' = "refused" /\ UNCHANGED stream
       ELSE step' = "decode" /\ stream' = Document(Appended(value))
  /\ UNCHANGED <<value, back>>

Decode ==
  /\ step = "decode" /\ step' = "done"
  /\ back' = UnpackDict(stream, 5, << >>)
  /\ UNCHANGED <<value, stream>>

Next == Encode \/ Decode
Spec == Init /\ [][Next]_bsonVars

-----------------------------------------------------------------------------
(* Properties.                                                             *)

\* Of a text that is read with the zero behind it.
WithNul(s, t) == t = Append(s, "nul") <=> ~ StaleTail(Append(s, "nul"))

\* What comes back of a value: itself, except that a Map comes back as an
\* object, undefined as null, a bigint as a number, and the following do not
\* come back at all: negative integers, which lose their sign (bson.ts:191,
\* 194), dates before 1970 (bson.ts:203), negative bigints and timestamps
\* (pack.ts:148), and the text of data_code, data_symbol, data_dbpointer and
\* data_code_w_scope, which comes back with a zero behind it (bson.ts:294).
RECURSIVE SameBack(_, _), SameFields(_, _)
SameBack(v, w) ==
  CASE v.type = "number" ->
         w = Number(IF v.n >= 0 THEN v.n ELSE v.n + (IF v.n >= -(Dword \div 2) THEN Dword ELSE Qword))
    [] v.type = "bigint" -> w.type = "number" /\ (w.n = v.n <=> v.n >= 0)
    [] v.type \in {"date", "timestamp"} -> w.type = v.type /\ (w = v <=> v.n >= 0)
    [] v.type = "string" -> w = v <=> ~ StaleTail(v.s)
    [] v.type \in Text -> w.type = v.type /\ WithNul(v.s, w.s)
    [] v.type = "scope" -> w.type = "scope" /\ WithNul(v.s, w.s) /\ SameFields(v.fields, w.fields)
    [] v.type = "undefined" -> w = Null
    [] v.type = "array" ->
         /\ w.type = "array" /\ Len(w.items) = Len(v.items)
         /\ \A i \in DOMAIN v.items : SameBack(v.items[i], w.items[i])
    [] v.type \in {"object", "map"} -> w.type = "object" /\ SameFields(v.fields, w.fields)
    [] OTHER -> w = v

\* A key comes back if all its characters are ASCII (pack.ts:379).
SameFields(f, g) ==
  /\ Len(g) = Len(f)
  /\ \A i \in DOMAIN f : SameBack(f[i][2], g[i][2])
                         /\ (g[i][1] = f[i][1] <=> "e" \notin ToSet(f[i][1]))

\* The lengths in a document are those of what decode finds, which does not
\* look at them; the server does.
LengthsTell ==
  /\ DecodeUint(stream, 1, 4) = Len(stream)
  /\ \A i \in DOMAIN stream :
       stream[i] \in {<<"type", "object">>, <<"type", "array">>} =>
         LET pos == Cstring(stream, i + 1).pos
         IN  DecodeUint(stream, pos, 4) = UnpackDict(stream, pos + 4, << >>).pos - pos

\* A document comes back whole, with the exceptions above, and its lengths are
\* right at every depth.
DocumentsComeBack ==
  step = "done" => back.pos = Len(stream) /\ SameFields(value, back.v) /\ LengthsTell
=============================================================================
