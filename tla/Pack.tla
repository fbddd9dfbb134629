-------------------------------- MODULE Pack --------------------------------
(***************************************************************************)
(* The parts of ts/lib/skynet/pack.ts and utf8.ts that lua_seri.ts and     *)
(* bson.ts rest on.  An item of a stream is a byte: a digit of a number, a *)
(* byte of a character, the first of which tells how many follow, or a     *)
(* mark that the serialisation sets.                                       *)
(***************************************************************************)
EXTENDS Integers, Sequences, SequencesExt

CONSTANTS
  Base,   \* The values of a byte: 256.
  Chunk   \* utf8.read flushes its chunk at this many code units: 8192.

Word == Base * Base
Dword == Word * Word
Qword == Dword * Dword

\* Code units of one and two bytes, and surrogates: a high one before a low one
\* makes four bytes with it, any other three.
Unit == {"a", "e", "high", "low"}

\* The values of the script that both can carry.
Number(n) == [type |-> "number", n |-> n]
BigInt(n) == [type |-> "bigint", n |-> n]
String(s) == [type |-> "string", s |-> s]
Array(items) == [type |-> "array", items |-> items]
Object(fields) == [type |-> "object", fields |-> fields]

Bytes(f(_), n) == [i \in 1 .. n |-> <<"byte", f(i)>>]

\* encode_uint: the value is floored and its remainder stored in a byte.
EncodeUint(v, n) ==
  LET digit(i) == (v \div Base ^ (i - 1)) % Base IN Bytes(digit, n)

\* encode_bigint: / and % of a negative BigInt go towards zero.
EncodeBigint(v, n) ==
  LET abs == IF v < 0 THEN -v ELSE v
      digit(i) == LET d == (abs \div Base ^ (i - 1)) % Base
                  IN  (IF v < 0 THEN -d ELSE d) % Base
  IN  Bytes(digit, n)

DecodeUint(s, pos, n) ==
  FoldLeft(LAMBDA r, i : r * Base + s[pos + n - i][2], 0, [i \in 1 .. n |-> i])

\* uncomplement(v, 32): 1 << 32 is 1, so boundary is 1 and mask 0.
Uncomplement32(v) == IF v >= Dword \div 2 THEN -1 + (v % 1) ELSE v
UncomplementBigint(v) == IF v >= Qword \div 2 THEN -Qword + v ELSE v

\* utf8.write
Encoded(s) ==
  LET paired(i) == s[i] = "high" /\ i < Len(s) /\ s[i + 1] = "low"
      more(n) == [i \in 1 .. n |-> <<"cont", 0>>]
      unit(i) == IF paired(i) THEN << <<"pair", 0>> >> \o more(3)
                 ELSE IF i > 1 /\ paired(i - 1) THEN << >>
                 ELSE << <<s[i], 0>> >>
                        \o more(CASE s[i] = "a" -> 0 [] s[i] = "e" -> 1 [] OTHER -> 2)
  IN  FlattenSeq([i \in DOMAIN s |-> unit(i)])

\* utf8.read: chunk is written from its start again after each flush, which
\* takes all of it.
Utf8Read(bytes) ==
  LET put(r, u) ==
        [r EXCEPT !.chunk = IF r.i < Len(@) THEN [@ EXCEPT ![r.i + 1] = u] ELSE Append(@, u),
                  !.i = @ + 1]
      flush(r) == IF r.i > Chunk - 1 THEN [chunk |-> r.chunk, i |-> 0, parts |-> r.parts \o r.chunk]
                  ELSE r
      next(r, b) == flush(IF b[1] = "pair" THEN put(put(r, "high"), "low") ELSE put(r, b[1]))
      end == FoldLeft(next, [chunk |-> << >>, i |-> 0, parts |-> << >>],
                      SelectSeq(bytes, LAMBDA b : b[1] # "cont"))
  IN  end.parts \o SubSeq(end.chunk, 1, end.i)

\* The chunks of 8192 units a string is read in: an earlier one that ends in a
\* pair is a unit longer, and its last unit is given out again with a later one.
RECURSIVE ChunkEnds(_)
ChunkEnds(s) ==
  IF Len(s) < Chunk THEN << >>
  ELSE LET n == IF s[Chunk] = "high" /\ Len(s) > Chunk /\ s[Chunk + 1] = "low"
                THEN Chunk + 1 ELSE Chunk
       IN  <<n>> \o ChunkEnds(SubSeq(s, n + 1, Len(s)))
StaleTail(s) ==
  LET n == ChunkEnds(s) IN \E i, j \in DOMAIN n : i < j /\ n[i] > n[j]
=============================================================================
