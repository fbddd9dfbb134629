---------------------------- MODULE Mysql_proofs ----------------------------
(***************************************************************************)
(* Proof about Mysql as LibraryParts has it: every call returns what its   *)
(* own answer says.  An answer does not say how long it is.  What a server *)
(* sends is taken apart into one or two results, or the two lists of       *)
(* prepare (Answered); the response function is shown to read such an      *)
(* answer packet by packet, and to end with its last one (AnswerStep,      *)
(* PrepareStep); and the answers of the calls in the queue are shown to    *)
(* lie one behind the other on their way (Arranged).                       *)
(***************************************************************************)
EXTENDS LibraryParts, SequencesExt, FiniteSetTheorems, SequenceTheorems, TLAPS

Pairs == Int \X Int
RowsRead == Seq([1 .. 2 -> Int] \cup Pairs)
Packets == [type : {"OK", "EOF", "DATA", "ERR"}, more : {0, 1}, count : Pairs,
            row : {<< >>} \cup Pairs]
Said == [packets : Seq(Packets),
         outcome : [how : {"ok", "error"}, value : Seq(Seq(Pairs))],
         torn : BOOLEAN]

\* A row as it is to be read: binary rows whose first column is NULL or a
\* MEDIUMINT are not.
Read(kind, rd, r) ==
  CASE kind = "query" -> rd = MY!TextRow(r)
    [] kind = "execute" -> r[1] \notin {MY!Null, MY!Medium} => rd = r
    [] OTHER -> rd = r
Fits(kind, rd, rows) ==
  /\ rd \in RowsRead /\ Len(rd) = Len(rows)
  /\ \A j \in 1 .. Len(rows) : Read(kind, rd[j], rows[j])

Heading == MY!Count("DATA", <<2, 0>>)

\* The n packets of P behind the first b are a result with these rows; more:
\* whether another follows.
IsResult(kind, P, b, n, rows, more) ==
  \/ n = 1 /\ P[b + 1] = MY!Ok(more) /\ rows = MY!Done
  \/ /\ kind \in {"query", "execute"}
     /\ n = 5 + Len(rows)
     /\ \A j \in 1 .. Len(rows) : rows[j] \in MY!Cells(1) \X MY!Cells(2)
     /\ P[b + 1] = Heading
     /\ P[b + 2] = MY!Field /\ P[b + 3] = MY!Field /\ P[b + 4] = MY!Eof(0)
     /\ \A j \in 1 .. Len(rows) : P[b + 4 + j] = MY!Row(rows[j], kind)
     /\ P[b + n] = MY!Eof(more)

\* The first n packets of an answer are the result that another follows; its last
\* one, or an error, is behind them.
Plan(kind, a, n, rows, last) ==
  LET P == a.packets
      said == a.outcome
  IN  /\ n \in 0 .. Len(P) - 1 /\ rows \in Seq(Pairs) /\ last \in Seq(Pairs)
      /\ n > 0 => IsResult(kind, P, 0, n, rows, 1)
      /\ \/ /\ said.how = "ok" /\ kind # "prepare"
            /\ said.value = IF n > 0 THEN <<rows, last>> ELSE <<last>>
            /\ IsResult(kind, P, n, Len(P) - n, last, 0)
         \/ /\ said.how = "error" /\ said.value = << >> /\ (kind = "prepare" => n = 0)
            /\ Len(P) = n + 1 /\ P[n + 1] = MY!Packet("ERR")

\* The response function has read d packets of a result, behind others.
Within(kind, d, before, rows) ==
  \/ d = 0 /\ pc = "first" /\ left = 0 /\ value = before
  \/ /\ d \in 1 .. 3 /\ pc = "fields"
     /\ left = IF kind = "execute" THEN d - 1 ELSE 3 - d
     /\ value = Append(before, << >>)
  \/ /\ d > 3 /\ pc = "rows" /\ left = 0
     /\ \E rd \in RowsRead :
          /\ Len(rd) = d - 4 /\ value = Append(before, rd)
          /\ \A j \in 1 .. d - 4 : Read(kind, rd[j], rows[j])

\* The response function has read c packets of an answer.
Follows(kind, a, c, n, rows, last) ==
  \/ c < n /\ Within(kind, c, << >>, rows)
  \/ /\ c >= n
     /\ \E before \in Seq(RowsRead) :
          /\ Len(before) = IF n > 0 THEN 1 ELSE 0
          /\ n > 0 => Fits(kind, before[1], rows)
          /\ Within(kind, c - n, before, last)

\* The answer of prepare: p parameters, f columns; the list of the columns begins
\* behind From(p).
From(p) == IF p > 0 THEN p + 2 ELSE 1
PreparePlan(a, p, f) ==
  LET P == a.packets
  IN  /\ p \in Nat /\ f \in Nat
      /\ a.outcome = MY!Outcome("ok", << << <<p, f>> >> >>)
      /\ Len(P) = IF f > 0 THEN From(p) + f + 1 ELSE From(p)
      /\ P[1] = MY!Count("OK", <<p, f>>)
      /\ p > 0 => (\A j \in 2 .. p + 1 : P[j] = MY!Field) /\ P[p + 2] = MY!Eof(0)
      /\ f > 0 => /\ \A j \in 1 .. f : P[From(p) + j] = MY!Field
                  /\ P[From(p) + f + 1] = MY!Eof(0)
PrepareFollows(c, p, f) ==
  \/ c = 0 /\ pc = "first" /\ left = 0 /\ value = << >>
  \/ /\ p > 0 /\ c \in 1 .. p + 1 /\ pc = "params"
     /\ value = << << <<c - 1, f>> >> >>
  \/ /\ f > 0 /\ c \in From(p) .. From(p) + f /\ pc = "columns"
     /\ value = << << <<p, c - From(p)>> >> >>

Answered(kind, a) ==
  \/ \E n, rows, last : Plan(kind, a, n, rows, last)
  \/ kind = "prepare" /\ \E p, f : PreparePlan(a, p, f)

\* Call k is being answered, and c packets of its answer are read.
At(k, c) ==
  LET kind == calls[k].kind
      a == calls[k].answer
  IN  /\ c \in 0 .. Len(a.packets) - 1
      /\ \/ \E n, rows, last : Plan(kind, a, n, rows, last) /\ Follows(kind, a, c, n, rows, last)
         \/ kind = "prepare" /\ \E p, f : PreparePlan(a, p, f) /\ PrepareFollows(c, p, f)

PacketsOf(i) == calls[queue[i]].answer.packets

\* The answers of the calls in the queue are on their way one behind the other,
\* that of place i behind off[i]; c packets of the first one are read.
Arranged(c, off) ==
  /\ off \in [1 .. Len(queue) + 1 -> Int]
  /\ off[1] = 0 - c /\ off[Len(queue) + 1] = Len(coming)
  /\ \A i \in 1 .. Len(queue) :
       /\ off[i + 1] = off[i] + Len(PacketsOf(i)) /\ off[i + 1] <= Len(coming)
       /\ \A j \in 1 .. Len(PacketsOf(i)) :
            off[i] + j >= 1 => coming[off[i] + j].packet = PacketsOf(i)[j]

MysqlTypes ==
  /\ calls \in Seq([kind : MY!Kind, seq : Int, answer : Said])
  /\ \A k \in 1 .. Len(calls) : calls[k].answer.torn \/ calls[k].kind = "close"
                                \/ Answered(calls[k].kind, calls[k].answer)
  /\ queue \in Seq(1 .. Len(calls))
  /\ \A i, j \in 1 .. Len(queue) : i < j => queue[i] < queue[j]
  /\ \A i \in 1 .. Len(queue) : calls[queue[i]].kind # "close" /\ PacketsOf(i) # << >>
  /\ coming \in Seq([packet : Packets, no : Int])
  /\ linked \in BOOLEAN /\ (linked \/ coming = << >>)
  /\ packet_no \in Int
  /\ (\E S : results \in Seq(S)) /\ Len(results) = Len(calls)

\* Nothing that is torn has been read.
Clear == ~ MY!Torn(IF queue = << >> THEN Len(calls) ELSE queue[1])

Aligned ==
  IF queue = << >> THEN pc = "first" /\ left = 0 /\ value = << >> /\ coming = << >>
  ELSE \E c \in Nat : /\ At(queue[1], c)
                      /\ linked => \E off : Arranged(c, off)

MysqlInv == MysqlTypes /\ MY!AnswersAreOwn /\ (Clear => Aligned)

\* What the response function of a call makes of one packet.
Taken(kind, p) ==
  CASE pc = "first" -> MY!First(kind, p)
    [] pc = "fields" -> MY!FieldPacket(kind, p)
    [] pc = "rows" -> MY!RowPacket(kind, p)
    [] OTHER -> MY!PreparePacket(p)

\* What is returned is what was said.
SaidSo(kind, said, v) ==
  /\ Len(v) = Len(said.value)
  /\ \A i \in 1 .. Len(said.value) : Fits(kind, v[i], said.value[i])

\* The alternatives of SaysSo, of a call and what it returned.
CutShort(call, res) ==
  /\ call.kind = "prepare" /\ call.answer.outcome.how = "ok"
  /\ \A i \in 1 .. 2 : res.value[1][1][i] <= call.answer.outcome.value[1][1][i]
SaysAll(call, res) ==
  LET said == call.answer.outcome
  IN  /\ res.how = said.how /\ Len(res.value) = Len(said.value)
      /\ \A i \in DOMAIN said.value :
           /\ Len(res.value[i]) = Len(said.value[i])
           /\ \A j \in DOMAIN said.value[i] : Read(call.kind, res.value[i][j], said.value[i][j])

\* Call number n + 1 is one of this kind, with answer a, which arrives as q.
Asks(kind, n, a, q) ==
  /\ kind # "close" => a.packets # << >> /\ (a.torn \/ Answered(kind, a))
  /\ kind = "close" => a.packets = << >>
  /\ calls'[n + 1].kind = kind /\ calls'[n + 1].answer = a
  /\ Len(q) = Len(a.packets)
  /\ \A j \in 1 .. Len(a.packets) : q[j].packet = a.packets[j]
  /\ coming' = coming \o q

\* Two sequences joined, place by place.
LEMMA JoinPlaces ==
  ASSUME NEW S, NEW p \in Seq(S), NEW q \in Seq(S), NEW P, P = p \o q
  PROVE  /\ P \in Seq(S) /\ Len(P) = Len(p) + Len(q)
         /\ \A j \in 1 .. Len(p) : P[j] = p[j]
         /\ \A j \in 1 .. Len(q) : P[Len(p) + j] = q[j]
<1>1. /\ P \in Seq(S) /\ Len(P) = Len(p) + Len(q)
      /\ \A j \in 1 .. Len(p) + Len(q) : P[j] = IF j <= Len(p) THEN p[j] ELSE q[j - Len(p)]
  BY ConcatProperties
<1>2. Len(p) \in Nat /\ Len(q) \in Nat
  OBVIOUS
<1>3. \A j \in 1 .. Len(p) : P[j] = p[j]
  BY <1>1, <1>2
<1>4. ASSUME NEW j \in 1 .. Len(q) PROVE P[Len(p) + j] = q[j]
  <2>1. /\ Len(p) + j \in 1 .. Len(p) + Len(q) /\ ~ Len(p) + j <= Len(p)
        /\ (Len(p) + j) - Len(p) = j
    BY <1>2
  <2> QED
    BY <1>1, <2>1
<1> QED
  BY <1>1, <1>3, <1>4

\* The same, of two sequences whose lengths have names.
LEMMA JoinAt ==
  ASSUME NEW S, NEW p \in Seq(S), NEW q \in Seq(S), NEW P, P = p \o q,
         NEW m \in Nat, NEW n \in Nat, m = Len(p), n = Len(q)
  PROVE  /\ P \in Seq(S) /\ Len(P) = m + n
         /\ \A j \in 1 .. m : P[j] = p[j]
         /\ \A j \in 1 .. n : P[m + j] = q[j]
<1>1. P \in Seq(S) /\ Len(P) = m + n
  BY ConcatProperties
<1>2. ASSUME NEW j \in 1 .. m PROVE P[j] = p[j]
  BY ConcatProperties
<1>3. ASSUME NEW j \in 1 .. n PROVE P[m + j] = q[j]
  <2>1. m + j \in 1 .. Len(p) + Len(q) /\ ~ m + j <= Len(p) /\ (m + j) - Len(p) = j
    OBVIOUS
  <2>2. \A k \in 1 .. Len(p) + Len(q) : P[k] = IF k <= Len(p) THEN p[k] ELSE q[k - Len(p)]
    BY ConcatProperties
  <2>3. P[m + j] = q[(m + j) - Len(p)]
    BY <2>1, <2>2
  <2> QED
    BY <2>1, <2>3
<1> QED
  BY <1>1, <1>2, <1>3

\* Two sequences of one element joined.
LEMMA TwoOnes ==
  ASSUME NEW S, NEW x \in S, NEW y \in S
  PROVE  <<x>> \o <<y>> = <<x, y>>
<1>1. PICK p, q, P : p = <<x>> /\ q = <<y>> /\ P = p \o q
  OBVIOUS
<1>2. p \in Seq(S) /\ q \in Seq(S) /\ Len(p) = 1 /\ Len(q) = 1 /\ p[1] = x /\ q[1] = y
  BY <1>1
<1>3. P = p \o q
  BY <1>1
<1>4. p \in Seq(S) /\ q \in Seq(S)
  BY <1>2
<1>5. /\ P \in Seq(S) /\ Len(P) = Len(p) + Len(q)
      /\ \A j \in 1 .. Len(p) : P[j] = p[j]
      /\ \A j \in 1 .. Len(q) : P[Len(p) + j] = q[j]
  BY <1>3, <1>4, JoinPlaces
<1>6. Len(P) = 2 /\ P[1] = x /\ P[2] = y
  BY <1>2, <1>5
<1>7. PICK t : t = <<x, y>>
  OBVIOUS
<1>8. t \in Seq(S) /\ Len(t) = 2 /\ t[1] = x /\ t[2] = y
  BY <1>7
<1>9. \A j \in 1 .. Len(P) : P[j] = t[j]
  BY <1>6, <1>8
<1>10. P = t
  BY <1>5, <1>6, <1>8, <1>9, SeqEqual
<1> QED
  BY <1>1, <1>7, <1>10

\* The packets a server sends.
LEMMA PacketFacts ==
  /\ \A n \in {0, 1} :
       /\ MY!Ok(n) \in Packets /\ MY!Ok(n).type = "OK" /\ MY!Ok(n).more = n
       /\ MY!Eof(n) \in Packets /\ MY!Eof(n).type = "EOF" /\ MY!Eof(n).more = n
  /\ MY!Field \in Packets /\ MY!Field.type = "DATA"
  /\ MY!Packet("ERR") \in Packets /\ MY!Packet("ERR").type = "ERR"
  /\ \A p, f \in Int, t \in {"OK", "DATA"} :
       LET x == MY!Count(t, <<p, f>>)
       IN  x \in Packets /\ x.type = t /\ x.count = <<p, f>>
  /\ \A r \in MY!Cells(1) \X MY!Cells(2) : \A kind :
       /\ MY!Row(r, kind) \in Packets /\ MY!Row(r, kind).row = r
       /\ MY!Row(r, kind).type \in {"OK", "DATA"}
<1>1. \A t \in {"OK", "EOF", "DATA", "ERR"} :
        MY!Packet(t) \in Packets
        /\ MY!Packet(t) = [type |-> t, more |-> 0, count |-> <<0, 0>>, row |-> << >>]
  BY DEF MY!Packet, Packets, Pairs
<1>2. \A r \in MY!Cells(1) \X MY!Cells(2) : r \in Pairs
  BY DEF MY!Cells, MY!Null, MY!Empty, MY!Medium, Pairs
<1>3. ASSUME NEW r \in MY!Cells(1) \X MY!Cells(2), NEW kind
      PROVE  /\ MY!Row(r, kind) \in Packets /\ MY!Row(r, kind).row = r
             /\ MY!Row(r, kind).type \in {"OK", "DATA"}
  <2>1. PICK t \in {"OK", "DATA"} : MY!Row(r, kind) = [MY!Packet(t) EXCEPT !.row = r]
    BY DEF MY!Row
  <2> QED
    BY <1>1, <1>2, <2>1 DEF Packets
<1>4. \A p, f \in Int, t \in {"OK", "DATA"} :
       LET x == MY!Count(t, <<p, f>>)
       IN  x \in Packets /\ x.type = t /\ x.count = <<p, f>>
  BY <1>1 DEF Packets, Pairs, MY!Count
<1>5. \A n \in {0, 1} :
       /\ MY!Ok(n) \in Packets /\ MY!Ok(n).type = "OK" /\ MY!Ok(n).more = n
       /\ MY!Eof(n) \in Packets /\ MY!Eof(n).type = "EOF" /\ MY!Eof(n).more = n
  BY <1>1 DEF MY!Ok, MY!Eof, Packets
<1>6. \A r \in MY!Cells(1) \X MY!Cells(2) : \A kind :
        /\ MY!Row(r, kind) \in Packets /\ MY!Row(r, kind).row = r
        /\ MY!Row(r, kind).type \in {"OK", "DATA"}
  BY <1>3
<1>7. /\ MY!Field \in Packets /\ MY!Field.type = "DATA"
      /\ MY!Packet("ERR") \in Packets /\ MY!Packet("ERR").type = "ERR"
  BY <1>1 DEF MY!Field
<1> QED
  BY <1>4, <1>5, <1>6, <1>7

\* U is R between the four elements of H before it and the one of z behind it.
Framed(U, H, R, z) ==
  /\ Len(U) = 5 + Len(R)
  /\ U[1] = H[1] /\ U[2] = H[2] /\ U[3] = H[3] /\ U[4] = H[4]
  /\ \A j \in 1 .. Len(R) : U[4 + j] = R[j]
  /\ U[5 + Len(R)] = z[1]

LEMMA FramedFacts ==
  ASSUME NEW S, NEW H \in Seq(S), Len(H) = 4, NEW R \in Seq(S), NEW z \in Seq(S), Len(z) = 1,
         NEW U, U = (H \o R) \o z
  PROVE  U \in Seq(S) /\ Framed(U, H, R, z)
<1> DEFINE HR == H \o R
           T == HR \o z
<1>1. Len(R) \in Nat
  OBVIOUS
<1>2. /\ HR \in Seq(S) /\ Len(HR) = 4 + Len(R)
      /\ \A j \in 1 .. 4 + Len(R) : HR[j] = IF j <= 4 THEN H[j] ELSE R[j - 4]
  <2>1. /\ HR \in Seq(S) /\ Len(HR) = Len(H) + Len(R)
        /\ \A j \in 1 .. Len(H) + Len(R) : HR[j] = IF j <= Len(H) THEN H[j] ELSE R[j - Len(H)]
    BY ConcatProperties
  <2> QED
    BY <2>1
<1>3. /\ HR[1] = H[1] /\ HR[2] = H[2] /\ HR[3] = H[3] /\ HR[4] = H[4]
      /\ \A j \in 1 .. Len(R) : HR[4 + j] = R[j]
  <2>1. HR[1] = H[1] /\ HR[2] = H[2] /\ HR[3] = H[3] /\ HR[4] = H[4]
    BY <1>1, <1>2
  <2>2. ASSUME NEW j \in 1 .. Len(R) PROVE HR[4 + j] = R[j]
    <3>1. 4 + j \in 1 .. 4 + Len(R) /\ ~ 4 + j <= 4 /\ (4 + j) - 4 = j
      BY <1>1
    <3> QED
      BY <1>2, <3>1
  <2> QED
    BY <2>1, <2>2
<1> HIDE DEF HR
<1>4. /\ T \in Seq(S) /\ Len(T) = 5 + Len(R)
      /\ \A j \in 1 .. 5 + Len(R) : T[j] = IF j <= 4 + Len(R) THEN HR[j] ELSE z[j - (4 + Len(R))]
  <2>1. /\ T \in Seq(S) /\ Len(T) = Len(HR) + Len(z)
        /\ \A j \in 1 .. Len(HR) + Len(z) :
             T[j] = IF j <= Len(HR) THEN HR[j] ELSE z[j - Len(HR)]
    BY <1>2, ConcatProperties
  <2>2. Len(HR) + Len(z) = 5 + Len(R)
    BY <1>1, <1>2
  <2> QED
    BY <1>2, <2>1, <2>2
<1> HIDE DEF T
<1>5. T[1] = H[1] /\ T[2] = H[2] /\ T[3] = H[3] /\ T[4] = H[4]
  BY <1>1, <1>3, <1>4
<1>6. ASSUME NEW j \in 1 .. Len(R) PROVE T[4 + j] = R[j]
  <2>1. 4 + j \in 1 .. 5 + Len(R) /\ 4 + j <= 4 + Len(R)
    BY <1>1
  <2> QED
    BY <1>3, <1>4, <2>1
<1>7. T[5 + Len(R)] = z[1]
  <2>1. /\ 5 + Len(R) \in 1 .. 5 + Len(R) /\ ~ 5 + Len(R) <= 4 + Len(R)
        /\ (5 + Len(R)) - (4 + Len(R)) = 1
    BY <1>1
  <2> QED
    BY <1>4, <2>1
<1> QED
  <2>1. U = T
    BY DEF T, HR
  <2> QED
    BY <1>4, <1>5, <1>6, <1>7, <2>1 DEF Framed

\* The packet of a row.
LEMMA RowFacts ==
  \A r \in Pairs : \A kind : MY!Row(r, kind) \in Packets
<1> SUFFICES ASSUME NEW r \in Pairs, NEW kind
             PROVE  MY!Row(r, kind) \in Packets
  OBVIOUS
<1>1. PICK t \in {"OK", "DATA"} : MY!Row(r, kind) = [MY!Packet(t) EXCEPT !.row = r]
  BY DEF MY!Row
<1>2. MY!Packet(t) = [type |-> t, more |-> 0, count |-> <<0, 0>>, row |-> << >>]
  BY DEF MY!Packet
<1> QED
  BY <1>1, <1>2 DEF Packets, Pairs

\* The packets of a table.
LEMMA TablePackets ==
  ASSUME NEW rows \in Seq(Pairs), NEW kind, NEW last \in Packets,
         NEW T, T = MY!Table(rows, kind, last)
  PROVE  /\ T \in Seq(Packets) /\ Len(T) = 5 + Len(rows)
         /\ T[1] = Heading
         /\ T[2] = MY!Field /\ T[3] = MY!Field /\ T[4] = MY!Eof(0)
         /\ \A j \in 1 .. Len(rows) : T[4 + j] = MY!Row(rows[j], kind)
         /\ T[5 + Len(rows)] = last
<1> DEFINE h == Heading
           R == [i \in DOMAIN rows |-> MY!Row(rows[i], kind)]
<1>1. h \in Packets /\ MY!Field \in Packets /\ MY!Eof(0) \in Packets
  <2>1. 2 \in Int /\ 0 \in Int /\ "DATA" \in {"OK", "DATA"}
    OBVIOUS
  <2> QED
    BY <2>1, PacketFacts DEF Heading
<1>2. \A j \in 1 .. Len(rows) : MY!Row(rows[j], kind) \in Packets
  <2>1. \A j \in 1 .. Len(rows) : rows[j] \in Pairs
    BY ElementOfSeq
  <2> QED
    BY <2>1, RowFacts
<1>3. Len(rows) \in Nat /\ DOMAIN rows = 1 .. Len(rows)
  BY LenProperties
<1>4. R \in Seq(Packets) /\ Len(R) = Len(rows)
  <2>1. R \in [1 .. Len(rows) -> Packets]
    BY <1>2, <1>3
  <2> QED
    BY <1>3, <2>1
<1>5. \A j \in 1 .. Len(rows) : R[j] = MY!Row(rows[j], kind)
  BY <1>3
<1>6. T = (<<h, MY!Field, MY!Field, MY!Eof(0)>> \o R) \o <<last>>
  BY DEF MY!Table, Heading, MY!Count
<1> DEFINE f == MY!Field
           e == MY!Eof(0)
           H == <<h, f, f, e>>
           z == <<last>>
<1>7. h \in Packets /\ f \in Packets /\ e \in Packets
  BY <1>1
<1> HIDE DEF h, R, f, e
<1>8. /\ H \in Seq(Packets) /\ Len(H) = 4
      /\ H[1] = h /\ H[2] = f /\ H[3] = f /\ H[4] = e
  BY <1>7
<1>9. z \in Seq(Packets) /\ Len(z) = 1 /\ z[1] = last
  OBVIOUS
<1>10. T = (H \o R) \o z
  BY <1>6 DEF f, e
<1> HIDE DEF H, z
<1>11. /\ T \in Seq(Packets) /\ Len(T) = 5 + Len(R)
       /\ T[1] = h /\ T[2] = f /\ T[3] = f /\ T[4] = e
       /\ \A j \in 1 .. Len(R) : T[4 + j] = R[j]
       /\ T[5 + Len(R)] = last
  <2>1. T \in Seq(Packets) /\ Framed(T, H, R, z)
    BY <1>4, <1>8, <1>9, <1>10, FramedFacts
  <2> QED
    BY <1>8, <1>9, <2>1 DEF Framed
<1> QED
  BY <1>4, <1>5, <1>11 DEF h, f, e

\* The packets of a table that is read to its end.
LEMMA TableFacts ==
  ASSUME NEW rows \in MY!Rows, NEW kind, NEW last \in Packets,
         NEW T, T = MY!Table(rows, kind, last)
  PROVE  /\ T \in Seq(Packets) /\ Len(T) = 5 + Len(rows) /\ rows \in Seq(Pairs)
         /\ \A j \in 1 .. Len(rows) : rows[j] \in MY!Cells(1) \X MY!Cells(2)
         /\ T[1] = Heading
         /\ T[2] = MY!Field /\ T[3] = MY!Field /\ T[4] = MY!Eof(0)
         /\ \A j \in 1 .. Len(rows) : T[4 + j] = MY!Row(rows[j], kind)
         /\ T[5 + Len(rows)] = last
<1>1. /\ rows \in Seq(MY!Cells(1) \X MY!Cells(2)) /\ rows \in Seq(Pairs)
      /\ \A j \in 1 .. Len(rows) : rows[j] \in MY!Cells(1) \X MY!Cells(2)
  <2>1. \A r \in MY!Cells(1) \X MY!Cells(2) : r \in Pairs
    BY DEF MY!Cells, MY!Null, MY!Empty, MY!Medium, Pairs
  <2>2. CASE rows = << >>
    BY <2>2
  <2>3. CASE \E r \in MY!Cells(1) \X MY!Cells(2) : rows = <<r>>
    BY <2>1, <2>3
  <2> QED
    BY <2>2, <2>3 DEF MY!Rows
<1> QED
  BY <1>1, TablePackets

\* A result further on in a sequence of packets.
LEMMA ResultShift ==
  ASSUME NEW kind, NEW P, NEW Q, NEW b \in Nat, NEW rows \in Seq(Pairs), NEW more,
         NEW n \in Nat,
         IsResult(kind, P, 0, n, rows, more),
         \A j \in 1 .. n : Q[b + j] = P[j]
  PROVE  IsResult(kind, Q, b, n, rows, more)
<1>1. Len(rows) \in Nat
  OBVIOUS
<1>2. CASE n = 1 /\ P[1] = MY!Ok(more) /\ rows = MY!Done
  <2>1. Q[b + 1] = P[1]
    BY <1>2
  <2> QED
    BY <1>2, <2>1 DEF IsResult
<1>3. CASE ~ (n = 1 /\ P[1] = MY!Ok(more) /\ rows = MY!Done)
  <2>1. /\ kind \in {"query", "execute"}
        /\ n = 5 + Len(rows)
        /\ \A j \in 1 .. Len(rows) : rows[j] \in MY!Cells(1) \X MY!Cells(2)
        /\ P[1] = Heading
        /\ P[2] = MY!Field /\ P[3] = MY!Field /\ P[4] = MY!Eof(0)
        /\ \A j \in 1 .. Len(rows) : P[4 + j] = MY!Row(rows[j], kind)
        /\ P[n] = MY!Eof(more)
    <3>1. /\ kind \in {"query", "execute"}
          /\ n = 5 + Len(rows)
          /\ \A j \in 1 .. Len(rows) : rows[j] \in MY!Cells(1) \X MY!Cells(2)
          /\ P[0 + 1] = Heading
          /\ P[0 + 2] = MY!Field /\ P[0 + 3] = MY!Field /\ P[0 + 4] = MY!Eof(0)
          /\ \A j \in 1 .. Len(rows) : P[0 + 4 + j] = MY!Row(rows[j], kind)
          /\ P[0 + n] = MY!Eof(more)
      <4>1. 0 + 1 = 1
        OBVIOUS
      <4>2. ~ (n = 1 /\ P[0 + 1] = MY!Ok(more) /\ rows = MY!Done)
        BY <1>3, <4>1
      <4> QED
        BY <4>2 DEF IsResult
    <3>2. 0 + 1 = 1 /\ 0 + 2 = 2 /\ 0 + 3 = 3 /\ 0 + 4 = 4 /\ 0 + n = n
      OBVIOUS
    <3>3. \A j \in 1 .. Len(rows) : P[4 + j] = MY!Row(rows[j], kind)
      BY <1>1, <3>1, <3>2
    <3> QED
      BY <3>1, <3>2, <3>3
  <2>2. Q[b + 1] = P[1] /\ Q[b + 2] = P[2] /\ Q[b + 3] = P[3] /\ Q[b + 4] = P[4] /\ Q[b + n] = P[n]
    <3>1. 1 \in 1 .. n /\ 2 \in 1 .. n /\ 3 \in 1 .. n /\ 4 \in 1 .. n /\ n \in 1 .. n
      BY <1>1, <2>1
    <3> QED
      BY <3>1
  <2>3. \A j \in 1 .. Len(rows) : Q[b + 4 + j] = MY!Row(rows[j], kind)
    <3> TAKE j \in 1 .. Len(rows)
    <3>1. 4 + j \in 1 .. n /\ b + 4 + j = b + (4 + j)
      BY <1>1, <2>1
    <3> QED
      BY <2>1, <3>1
  <2> QED
    BY <2>1, <2>2, <2>3 DEF IsResult
<1> QED
  BY <1>2, <1>3

\* What a server answers: every answer is one that Plan or PreparePlan describes.
LEMMA AnswerParts ==
  ASSUME NEW P \in Seq(Packets), NEW v \in Seq(Seq(Pairs))
  PROVE  LET a == MY!Answer(P, v)
         IN  /\ a \in Said /\ a.packets = P /\ ~ a.torn
             /\ a.outcome.how = "ok" /\ a.outcome.value = v
<1> DEFINE o == [how |-> "ok", value |-> v]
           a == MY!Answer(P, v)
<1>1. o \in [how : {"ok", "error"}, value : Seq(Seq(Pairs))] /\ o.how = "ok" /\ o.value = v
  OBVIOUS
<1>2. a = [packets |-> P, outcome |-> o, torn |-> FALSE]
  BY DEF MY!Answer, MY!Outcome
<1> HIDE DEF o, a
<1>3. a.torn = FALSE /\ a.torn \in BOOLEAN
  BY <1>2
<1>4. a \in Said /\ a.packets = P /\ a.outcome = o
  BY <1>1, <1>2 DEF Said
<1> QED
  BY <1>1, <1>3, <1>4 DEF a

\* An error.
LEMMA ErrorFacts ==
  /\ MY!Error \in Said /\ MY!Error.packets # << >>
  /\ \A kind : Plan(kind, MY!Error, 0, << >>, << >>)
<1> DEFINE e == MY!Packet("ERR")
<1>1. e \in Packets
  BY PacketFacts
<1> HIDE DEF e
<1> DEFINE s == <<e>>
<1>2. s \in Seq(Packets) /\ Len(s) = 1 /\ s[1] = e /\ << >> \in Seq(Seq(Pairs))
      /\ << >> \in Seq(Pairs) /\ s # << >>
  BY <1>1
<1> HIDE DEF s
<1> DEFINE a == MY!Answer(s, << >>)
<1>3. a \in Said /\ a.packets = s /\ a.outcome.value = << >>
  BY <1>2, AnswerParts
<1>4. MY!Error = [a EXCEPT !.outcome.how = "error"]
  BY DEF MY!Error, e, s
<1> HIDE DEF a
<1>5. /\ MY!Error \in Said /\ MY!Error.packets = s
      /\ MY!Error.outcome.how = "error" /\ MY!Error.outcome.value = << >>
  BY <1>3, <1>4 DEF Said
<1>6. ASSUME NEW kind PROVE Plan(kind, MY!Error, 0, << >>, << >>)
  <2>1. 0 \in 0 .. 1 - 1 /\ 0 + 1 = 1 /\ ~ 0 > 0
    OBVIOUS
  <2> QED
    BY <1>2, <1>5, <2>1 DEF Plan, e
<1> QED
  BY <1>2, <1>5, <1>6

\* A result without rows.
LEMMA OkFacts ==
  ASSUME NEW kind, NEW more \in {0, 1}
  PROVE  LET a == MY!Answer(<<MY!Ok(more)>>, <<MY!Done>>)
         IN  /\ a \in Said /\ Len(a.packets) = 1 /\ a.outcome.how = "ok" /\ ~ a.torn
             /\ a.outcome.value = <<MY!Done>> /\ MY!Done \in Seq(Pairs)
             /\ IsResult(kind, a.packets, 0, 1, MY!Done, more)
<1> DEFINE e == MY!Ok(more)
           d == MY!Done
<1>1. e \in Packets
  BY PacketFacts
<1>2. d \in Seq(Pairs)
  BY DEF MY!Done, Pairs
<1> HIDE DEF e, d
<1> DEFINE s == <<e>>
           v == <<d>>
<1>3. s \in Seq(Packets) /\ v \in Seq(Seq(Pairs)) /\ Len(s) = 1 /\ s[1] = e
  BY <1>1, <1>2
<1> HIDE DEF s, v
<1> DEFINE a == MY!Answer(s, v)
<1>4. a \in Said /\ a.packets = s /\ ~ a.torn /\ a.outcome.how = "ok" /\ a.outcome.value = v
  BY <1>3, AnswerParts
<1>5. IsResult(kind, a.packets, 0, 1, d, more)
  <2>1. 0 + 1 = 1
    OBVIOUS
  <2> QED
    BY <1>3, <1>4, <2>1 DEF IsResult, e, d
<1> QED
  BY <1>2, <1>3, <1>4, <1>5 DEF e, d, s, v

\* A result with rows.
LEMMA TableAnswer ==
  ASSUME NEW kind \in {"query", "execute"}, NEW rows \in MY!Rows, NEW more \in {0, 1}
  PROVE  LET a == MY!Answer(MY!Table(rows, kind, MY!Eof(more)), <<rows>>)
         IN  /\ a \in Said /\ Len(a.packets) = 5 + Len(rows) /\ a.outcome.how = "ok" /\ ~ a.torn
             /\ a.outcome.value = <<rows>> /\ rows \in Seq(Pairs)
             /\ IsResult(kind, a.packets, 0, Len(a.packets), rows, more)
<1> DEFINE T == MY!Table(rows, kind, MY!Eof(more))
<1>1. PICK e \in Packets : e = MY!Eof(more)
  BY PacketFacts
<1>2. /\ T \in Seq(Packets) /\ Len(T) = 5 + Len(rows) /\ rows \in Seq(Pairs)
      /\ \A j \in 1 .. Len(rows) : rows[j] \in MY!Cells(1) \X MY!Cells(2)
      /\ T[1] = Heading
      /\ T[2] = MY!Field /\ T[3] = MY!Field /\ T[4] = MY!Eof(0)
      /\ \A j \in 1 .. Len(rows) : T[4 + j] = MY!Row(rows[j], kind)
      /\ T[5 + Len(rows)] = MY!Eof(more)
  <2>1. PICK U : U = MY!Table(rows, kind, e)
    OBVIOUS
  <2>2. U = T
    BY <1>1, <2>1
  <2> HIDE DEF T
  <2>3. /\ U \in Seq(Packets) /\ Len(U) = 5 + Len(rows) /\ rows \in Seq(Pairs)
        /\ \A j \in 1 .. Len(rows) : rows[j] \in MY!Cells(1) \X MY!Cells(2)
        /\ U[1] = Heading
        /\ U[2] = MY!Field /\ U[3] = MY!Field /\ U[4] = MY!Eof(0)
        /\ \A j \in 1 .. Len(rows) : U[4 + j] = MY!Row(rows[j], kind)
        /\ U[5 + Len(rows)] = e
    BY <1>1, <2>1, TableFacts
  <2> QED
    BY <1>1, <2>2, <2>3
<1> HIDE DEF T
<1>3. IsResult(kind, T, 0, Len(T), rows, more)
  <2>1. Len(rows) \in Nat
    BY <1>2
  <2>2. 0 + 1 = 1 /\ 0 + 2 = 2 /\ 0 + 3 = 3 /\ 0 + 4 = 4 /\ 0 + (5 + Len(rows)) = 5 + Len(rows)
    BY <2>1
  <2>3. \A j \in 1 .. Len(rows) : T[0 + 4 + j] = MY!Row(rows[j], kind)
    BY <1>2, <2>2
  <2> QED
    BY <1>2, <2>2, <2>3 DEF IsResult
<1> DEFINE a == MY!Answer(T, <<rows>>)
<1>4. <<rows>> \in Seq(Seq(Pairs))
  BY <1>2
<1>5. a \in Said /\ a.packets = T /\ ~ a.torn /\ a.outcome.how = "ok" /\ a.outcome.value = <<rows>>
  BY <1>2, <1>4, AnswerParts, ZenonT(40)
<1> QED
  BY <1>2, <1>3, <1>5 DEF T

\* One result, behind which there may be another.
LEMMA ResultFacts ==
  ASSUME NEW kind \in {"query", "execute"}, NEW more \in {0, 1},
         NEW a \in MY!Result(kind, more)
  PROVE  /\ a \in Said /\ Len(a.packets) > 0 /\ a.outcome.how = "ok" /\ ~ a.torn
         /\ \E rows \in Seq(Pairs) :
              a.outcome.value = <<rows>>
              /\ IsResult(kind, a.packets, 0, Len(a.packets), rows, more)
<1>1. CASE a = MY!Answer(<<MY!Ok(more)>>, <<MY!Done>>)
  <2>1. /\ a \in Said /\ Len(a.packets) = 1 /\ a.outcome.how = "ok" /\ ~ a.torn
        /\ a.outcome.value = <<MY!Done>> /\ MY!Done \in Seq(Pairs)
        /\ IsResult(kind, a.packets, 0, 1, MY!Done, more)
    BY <1>1, OkFacts
  <2> QED
    BY <2>1
<1>2. ASSUME NEW rows \in MY!Rows,
             a = MY!Answer(MY!Table(rows, kind, MY!Eof(more)), <<rows>>)
      PROVE  /\ a \in Said /\ Len(a.packets) > 0 /\ a.outcome.how = "ok" /\ ~ a.torn
             /\ rows \in Seq(Pairs) /\ a.outcome.value = <<rows>>
             /\ IsResult(kind, a.packets, 0, Len(a.packets), rows, more)
  <2>1. /\ a \in Said /\ Len(a.packets) = 5 + Len(rows) /\ a.outcome.how = "ok" /\ ~ a.torn
        /\ a.outcome.value = <<rows>> /\ rows \in Seq(Pairs)
        /\ IsResult(kind, a.packets, 0, Len(a.packets), rows, more)
    BY <1>2, TableAnswer
  <2>2. Len(rows) \in Nat
    BY <2>1
  <2> QED
    BY <2>1, <2>2
<1> QED
  BY <1>1, <1>2 DEF MY!Result

\* A result whose rows end with an error.
LEMMA TornFacts ==
  ASSUME NEW kind
  PROVE  LET a == MY!TornResult(kind)
         IN  a \in Said /\ Len(a.packets) > 0 /\ a.torn
<1>1. PICK e \in Packets : e = MY!Packet("ERR")
  BY PacketFacts
<1>2. PICK r : r = << <<1, 2>> >> /\ r \in MY!Rows /\ Len(r) = 1
  <2>1. <<1, 2>> \in MY!Cells(1) \X MY!Cells(2)
    BY DEF MY!Cells
  <2>2. << <<1, 2>> >> \in MY!Rows
    BY <2>1 DEF MY!Rows
  <2>3. Len(<< <<1, 2>> >>) = 1
    OBVIOUS
  <2> QED
    BY <2>2, <2>3
<1>3. PICK T : T = MY!Table(r, kind, e)
  OBVIOUS
<1>4. T \in Seq(Packets) /\ Len(T) = 5 + Len(r)
  <2>1. e \in Packets /\ r \in MY!Rows
    BY <1>1, <1>2
  <2> QED
    BY <1>3, <2>1, TableFacts
<1>5. PICK v \in Seq(Seq(Pairs)) : v = << >>
  <2>1. << >> \in Seq(Seq(Pairs))
    OBVIOUS
  <2> QED
    BY <2>1
<1>6. PICK b : b = MY!Answer(T, v)
  OBVIOUS
<1>7. b \in Said /\ b.packets = T
  BY <1>4, <1>5, <1>6, AnswerParts
<1>8. PICK a : a = [b EXCEPT !.torn = TRUE]
  OBVIOUS
<1>9. a \in Said /\ a.packets = T /\ a.torn
  BY <1>7, <1>8 DEF Said
<1>10. a = MY!TornResult(kind)
  BY <1>1, <1>2, <1>3, <1>5, <1>6, <1>8 DEF MY!TornResult
<1>11. Len(a.packets) > 0
  <2>1. Len(T) > 0
    BY <1>2, <1>4
  <2>2. a.packets = T
    BY <1>9
  <2> QED
    BY <2>1, <2>2
<1> QED
  BY <1>9, <1>10, <1>11

\* A result with a row that cannot be read.
LEMMA UnsupportedFacts ==
  LET a == MY!UnsupportedResult
  IN  a \in Said /\ Len(a.packets) > 0 /\ a.torn
<1>1. PICK e \in Packets : e = MY!Eof(0)
  BY PacketFacts
<1>2. PICK r \in Seq(Pairs) : r = << <<1, MY!Unsupported>>, <<1, 2>> >> /\ Len(r) = 2
  <2>1. <<1, MY!Unsupported>> \in Pairs /\ <<1, 2>> \in Pairs
    BY DEF MY!Unsupported, Pairs
  <2>2. PICK x \in Pairs, y \in Pairs : x = <<1, MY!Unsupported>> /\ y = <<1, 2>>
    BY <2>1
  <2>3. <<x, y>> \in Seq(Pairs) /\ Len(<<x, y>>) = 2
    OBVIOUS
  <2>4. <<x, y>> = << <<1, MY!Unsupported>>, <<1, 2>> >>
    BY <2>2
  <2> QED
    BY <2>3, <2>4, Zenon
<1>3. PICK T : T = MY!Table(r, "execute", e)
  OBVIOUS
<1>4. T \in Seq(Packets) /\ Len(T) = 5 + Len(r)
  BY <1>3, TablePackets
<1>5. PICK v \in Seq(Seq(Pairs)) : v = << >>
  <2>1. << >> \in Seq(Seq(Pairs))
    OBVIOUS
  <2> QED
    BY <2>1
<1>6. PICK b : b = MY!Answer(T, v)
  OBVIOUS
<1>7. b \in Said /\ b.packets = T
  BY <1>4, <1>5, <1>6, AnswerParts
<1>8. PICK a : a = [b EXCEPT !.torn = TRUE]
  OBVIOUS
<1>9. a \in Said /\ a.packets = T /\ a.torn
  BY <1>7, <1>8 DEF Said
<1>10. a = MY!UnsupportedResult
  BY <1>1, <1>2, <1>3, <1>5, <1>6, <1>8 DEF MY!UnsupportedResult
<1>11. Len(a.packets) > 0
  <2>1. Len(T) > 0
    BY <1>2, <1>4
  <2>2. a.packets = T
    BY <1>9
  <2> QED
    BY <2>1, <2>2
<1> QED
  BY <1>9, <1>10, <1>11

\* The last result of an answer, or what stands for it.
LEMMA LastFacts ==
  ASSUME NEW kind \in {"query", "execute"}, NEW b \in MY!LastResult(kind)
  PROVE  /\ b \in Said /\ Len(b.packets) > 0
         /\ b.torn \/ \E last \in Seq(Pairs) : Plan(kind, b, 0, << >>, last)
<1>1. CASE b = MY!Error
  <2>1. b \in Said /\ b.packets # << >> /\ Plan(kind, b, 0, << >>, << >>)
    BY <1>1, ErrorFacts
  <2>2. Len(b.packets) > 0
    <3>1. b.packets \in Seq(Packets)
      BY <2>1 DEF Said
    <3> QED
      BY <2>1, <3>1
  <2>3. << >> \in Seq(Pairs)
    OBVIOUS
  <2> QED
    BY <2>1, <2>2, <2>3
<1>2. CASE b = MY!TornResult(kind)
  BY <1>2, TornFacts
<1>3. CASE b = MY!UnsupportedResult
  BY <1>3, UnsupportedFacts
<1>4. CASE b \in MY!Result(kind, 0)
  <2>1. PICK more \in {0, 1} : more = 0
    OBVIOUS
  <2>2. /\ b \in Said /\ Len(b.packets) > 0 /\ b.outcome.how = "ok" /\ ~ b.torn
        /\ \E rows \in Seq(Pairs) :
             b.outcome.value = <<rows>> /\ IsResult(kind, b.packets, 0, Len(b.packets), rows, more)
    BY <1>4, <2>1, ResultFacts
  <2>3. PICK last \in Seq(Pairs) : b.outcome.value = <<last>>
                                   /\ IsResult(kind, b.packets, 0, Len(b.packets), last, 0)
    BY <2>1, <2>2
  <2>4. Len(b.packets) \in Nat
    BY <2>2 DEF Said
  <2>5. Plan(kind, b, 0, << >>, last)
    <3>1. 0 \in 0 .. Len(b.packets) - 1 /\ Len(b.packets) - 0 = Len(b.packets) /\ ~ 0 > 0
      BY <2>2, <2>4
    <3>2. kind # "prepare" /\ << >> \in Seq(Pairs)
      OBVIOUS
    <3> QED
      BY <2>2, <2>3, <3>1, <3>2 DEF Plan
  <2> QED
    BY <2>2, <2>5
<1> QED
  BY <1>1, <1>2, <1>3, <1>4 DEF MY!LastResult

\* An answer of two results.
LEMMA BothFacts ==
  ASSUME NEW kind \in {"query", "execute"}, NEW a \in Said, NEW b \in Said, NEW c,
         NEW rows \in Seq(Pairs), a.outcome.value = <<rows>>, Len(a.packets) > 0,
         IsResult(kind, a.packets, 0, Len(a.packets), rows, 1),
         Len(b.packets) > 0,
         b.torn \/ \E last \in Seq(Pairs) : Plan(kind, b, 0, << >>, last),
         c = MY!Followed(a, b)
  PROVE  /\ c \in Said /\ Len(c.packets) > 0
         /\ c.torn \/ Answered(kind, c)
<1>1. PICK v : v = IF b.outcome.how = "ok" THEN a.outcome.value \o b.outcome.value ELSE << >>
  OBVIOUS
<1>2. c = [packets |-> a.packets \o b.packets, outcome |-> [how |-> b.outcome.how, value |-> v],
            torn |-> b.torn]
  BY <1>1 DEF MY!Followed, MY!Outcome
<1>3. PICK p, q, P : p = a.packets /\ q = b.packets /\ P = p \o q
  OBVIOUS
<1>4. p \in Seq(Packets) /\ q \in Seq(Packets)
  BY <1>3 DEF Said
<1>5. PICK m, n \in Nat : m = Len(p) /\ n = Len(q)
  BY <1>4
<1>6. m > 0 /\ n > 0
  BY <1>3, <1>5
<1>7. P = p \o q /\ m = Len(p) /\ n = Len(q)
  BY <1>3, <1>5
<1>8. P \in Seq(Packets) /\ Len(P) = m + n
  BY <1>4, <1>7, JoinAt
<1>9. \A j \in 1 .. m : P[j] = p[j]
  BY <1>4, <1>7, JoinAt
<1>10. \A j \in 1 .. n : P[m + j] = q[j]
  BY <1>4, <1>7, JoinAt
<1>11. /\ c.packets = P /\ c.torn = b.torn /\ c.outcome.how = b.outcome.how
       /\ c.outcome.value = IF b.outcome.how = "ok" THEN <<rows>> \o b.outcome.value ELSE << >>
  <2>1. PICK t \in BOOLEAN : t = b.torn
    BY DEF Said
  <2>2. c = [packets |-> P, outcome |-> [how |-> b.outcome.how, value |-> v], torn |-> t]
    BY <1>3, <1>2, <2>1
  <2>3. c.packets = P /\ c.torn = t /\ c.outcome.how = b.outcome.how /\ c.outcome.value = v
    BY <2>2
  <2> QED
    BY <1>1, <2>1, <2>3
<1>12. c \in Said
  <2>1. <<rows>> \o b.outcome.value \in Seq(Seq(Pairs))
    BY DEF Said
  <2>2. v \in Seq(Seq(Pairs))
    BY <1>1, <2>1
  <2>3. b.outcome.how \in {"ok", "error"} /\ b.torn \in BOOLEAN
    BY DEF Said
  <2>4. c = [packets |-> P, outcome |-> [how |-> b.outcome.how, value |-> v], torn |-> b.torn]
    BY <1>3, <1>2
  <2> QED
    BY <1>8, <2>2, <2>3, <2>4 DEF Said
<1>13. Len(c.packets) > 0
  <2>1. m + n > 0
    BY <1>6, <1>5
  <2>2. c.packets = P
    BY <1>11
  <2> QED
    BY <1>8, <2>1, <2>2
<1>14. ASSUME NEW last \in Seq(Pairs), Plan(kind, b, 0, << >>, last)
      PROVE  Plan(kind, c, m, rows, last)
  <2>1. IsResult(kind, P, 0, m, rows, 1)
    <3>1. \A j \in 1 .. m : P[0 + j] = p[j]
      BY <1>6, <1>9
    <3> QED
      BY <1>3, <1>5, <3>1, ResultShift, ZenonT(40)
  <2>2. m \in 0 .. Len(P) - 1 /\ m > 0 /\ Len(P) - m = n /\ ~ 0 > 0 /\ n - 0 = n
    BY <1>6, <1>8, <1>5
  <2>3. CASE b.outcome.how = "ok"
    <3>1. IsResult(kind, q, 0, n, last, 0) /\ b.outcome.value = <<last>> /\ kind # "prepare"
      <4>1. /\ IsResult(kind, b.packets, 0, Len(b.packets) - 0, last, 0)
            /\ b.outcome.value = <<last>> /\ kind # "prepare"
        BY <1>14, <2>2, <2>3 DEF Plan
      <4>2. b.packets = q /\ Len(q) - 0 = n
        BY <1>3, <1>5
      <4> QED
        BY <4>1, <4>2
    <3>2. IsResult(kind, P, m, n, last, 0)
      BY <1>10, <3>1, ResultShift
    <3>3. c.outcome.value = <<rows, last>>
      <4>1. <<rows>> \o <<last>> = <<rows, last>>
        BY TwoOnes
      <4> QED
        BY <1>11, <2>3, <3>1, <4>1
    <3> QED
      BY <1>11, <2>1, <2>2, <2>3, <3>1, <3>2, <3>3 DEF Plan
  <2>4. CASE b.outcome.how = "error"
    <3>1. b.outcome.value = << >> /\ n = 0 + 1 /\ q[0 + 1] = MY!Packet("ERR")
      <4>1. /\ b.outcome.value = << >> /\ Len(b.packets) = 0 + 1
            /\ b.packets[0 + 1] = MY!Packet("ERR")
        BY <1>14, <2>4 DEF Plan
      <4> QED
        BY <1>3, <1>5, <4>1
    <3>2. 0 + 1 = 1 /\ 1 \in 1 .. n
      BY <3>1
    <3>3. P[m + 1] = MY!Packet("ERR") /\ Len(P) = m + 1
      BY <1>8, <1>10, <3>1, <3>2
    <3>4. c.outcome.value = << >> /\ c.outcome.how = "error" /\ kind # "prepare"
      BY <1>11, <2>4, <3>1
    <3> QED
      BY <1>11, <2>1, <2>2, <3>3, <3>4 DEF Plan
  <2> QED
    BY <2>3, <2>4 DEF Said
<1> QED
  BY <1>11, <1>12, <1>13, <1>14 DEF Answered

\* The list of fields of prepare.
LEMMA FieldsFacts ==
  ASSUME NEW n \in Nat, NEW F, F = MY!Fields(n)
  PROVE  /\ F \in Seq(Packets) /\ Len(F) = IF n > 0 THEN n + 1 ELSE 0
         /\ \A j \in 1 .. n : F[j] = MY!Field
         /\ n > 0 => F[n + 1] = MY!Eof(0)
<1>1. CASE n = 0
  <2>1. F = << >>
    BY <1>1 DEF MY!Fields
  <2>2. F \in Seq(Packets) /\ Len(F) = 0
    BY <2>1
  <2> QED
    BY <1>1, <2>2
<1>2. CASE n > 0
  <2>1. PICK g, z : g = [i \in 1 .. n |-> MY!Field] /\ z = <<MY!Eof(0)>>
    OBVIOUS
  <2>2. MY!Field \in Packets /\ MY!Eof(0) \in Packets
    BY PacketFacts
  <2>3. g \in Seq(Packets) /\ Len(g) = n /\ \A j \in 1 .. n : g[j] = MY!Field
    BY <2>1, <2>2
  <2>4. z \in Seq(Packets) /\ Len(z) = 1 /\ z[1] = MY!Eof(0)
    BY <2>1, <2>2
  <2>5. n # 0
    BY <1>2
  <2>6. F = g \o z
    BY <2>1, <2>5 DEF MY!Fields
  <2>7. g \in Seq(Packets) /\ z \in Seq(Packets)
    BY <2>3, <2>4
  <2>8. /\ F \in Seq(Packets) /\ Len(F) = Len(g) + Len(z)
        /\ \A j \in 1 .. Len(g) : F[j] = g[j]
        /\ \A j \in 1 .. Len(z) : F[Len(g) + j] = z[j]
    BY <2>6, <2>7, JoinPlaces
  <2> QED
    BY <1>2, <2>3, <2>4, <2>8
<1> QED
  BY <1>1, <1>2

\* The answer of prepare.
LEMMA PreparedFacts ==
  ASSUME NEW p \in 0 .. 2, NEW f \in 0 .. 1
  PROVE  LET a == MY!Prepared(p, f)
         IN  a \in Said /\ Len(a.packets) > 0 /\ PreparePlan(a, p, f)
<1>1. PICK h, F, G : h = <<MY!Count("OK", <<p, f>>)>> /\ F = MY!Fields(p) /\ G = MY!Fields(f)
  OBVIOUS
<1>2. p \in Nat /\ f \in Nat /\ p \in Int /\ f \in Int /\ "OK" \in {"OK", "DATA"}
  OBVIOUS
<1>3. h \in Seq(Packets) /\ Len(h) = 1 /\ h[1] = MY!Count("OK", <<p, f>>)
  <2>1. MY!Count("OK", <<p, f>>) \in Packets
    BY <1>2, PacketFacts
  <2> QED
    BY <1>1, <2>1
<1>4. F = MY!Fields(p) /\ G = MY!Fields(f)
  BY <1>1
<1>5. /\ F \in Seq(Packets) /\ Len(F) = IF p > 0 THEN p + 1 ELSE 0
      /\ \A j \in 1 .. p : F[j] = MY!Field
      /\ p > 0 => F[p + 1] = MY!Eof(0)
  BY <1>2, <1>4, FieldsFacts
<1>6. /\ G \in Seq(Packets) /\ Len(G) = IF f > 0 THEN f + 1 ELSE 0
      /\ \A j \in 1 .. f : G[j] = MY!Field
      /\ f > 0 => G[f + 1] = MY!Eof(0)
  BY <1>2, <1>4, FieldsFacts
<1>7. PICK H, P : H = h \o F /\ P = H \o G
  OBVIOUS
<1>8. h \in Seq(Packets) /\ F \in Seq(Packets) /\ G \in Seq(Packets) /\ H = h \o F
  BY <1>3, <1>5, <1>6, <1>7
<1>9. /\ H \in Seq(Packets) /\ Len(H) = Len(h) + Len(F)
      /\ \A j \in 1 .. Len(h) : H[j] = h[j]
      /\ \A j \in 1 .. Len(F) : H[Len(h) + j] = F[j]
  BY <1>8, JoinPlaces
<1>10. H \in Seq(Packets) /\ P = H \o G
  BY <1>7, <1>9
<1>11. /\ P \in Seq(Packets) /\ Len(P) = Len(H) + Len(G)
       /\ \A j \in 1 .. Len(H) : P[j] = H[j]
       /\ \A j \in 1 .. Len(G) : P[Len(H) + j] = G[j]
  BY <1>8, <1>10, JoinPlaces
<1>12. Len(H) = From(p) /\ From(p) \in Nat /\ From(p) >= 1
  BY <1>2, <1>3, <1>5, <1>9 DEF From
<1>13. P[1] = MY!Count("OK", <<p, f>>)
  <2>1. 1 \in 1 .. Len(H) /\ 1 \in 1 .. Len(h)
    BY <1>3, <1>12
  <2> QED
    BY <1>3, <1>9, <1>11, <2>1
<1>14. ASSUME p > 0
       PROVE  (\A j \in 2 .. p + 1 : P[j] = MY!Field) /\ P[p + 2] = MY!Eof(0)
  <2>1. Len(F) = p + 1 /\ Len(H) = p + 2
    BY <1>5, <1>12, <1>14 DEF From
  <2>2. ASSUME NEW j \in 2 .. p + 1 PROVE P[j] = MY!Field
    <3>1. j - 1 \in 1 .. p /\ j - 1 \in 1 .. Len(F) /\ 1 + (j - 1) = j /\ j \in 1 .. Len(H)
      BY <1>2, <2>1
    <3>2. H[j] = F[j - 1]
      BY <1>3, <1>9, <3>1
    <3> QED
      BY <1>5, <1>11, <3>1, <3>2
  <2>3. P[p + 2] = MY!Eof(0)
    <3>1. p + 1 \in 1 .. Len(F) /\ 1 + (p + 1) = p + 2 /\ p + 2 \in 1 .. Len(H)
      BY <1>2, <2>1
    <3>2. H[p + 2] = F[p + 1]
      BY <1>3, <1>9, <3>1
    <3> QED
      BY <1>5, <1>11, <1>14, <3>1, <3>2
  <2> QED
    BY <2>2, <2>3
<1>15. ASSUME f > 0
       PROVE  (\A j \in 1 .. f : P[From(p) + j] = MY!Field) /\ P[From(p) + f + 1] = MY!Eof(0)
  <2>1. Len(G) = f + 1
    BY <1>6, <1>15
  <2>2. ASSUME NEW j \in 1 .. f PROVE P[From(p) + j] = MY!Field
    <3>1. j \in 1 .. Len(G)
      BY <1>2, <2>1
    <3> QED
      BY <1>6, <1>11, <1>12, <3>1
  <2>3. P[From(p) + f + 1] = MY!Eof(0)
    <3>1. f + 1 \in 1 .. Len(G) /\ From(p) + f + 1 = From(p) + (f + 1)
      BY <1>2, <1>12, <2>1
    <3> QED
      BY <1>6, <1>11, <1>12, <1>15, <3>1
  <2> QED
    BY <2>2, <2>3
<1>16. Len(P) = IF f > 0 THEN From(p) + f + 1 ELSE From(p)
  BY <1>2, <1>6, <1>11, <1>12
<1>17. PICK v : v = << << <<p, f>> >> >>
  OBVIOUS
<1>18. v \in Seq(Seq(Pairs))
  <2>1. <<p, f>> \in Pairs
    BY <1>2 DEF Pairs
  <2> QED
    BY <1>17, <2>1
<1>19. PICK a : a = MY!Answer(P, v)
  OBVIOUS
<1>20. a \in Said /\ a.packets = P /\ a.outcome = MY!Outcome("ok", v)
  <2>1. a.outcome = MY!Outcome("ok", v)
    BY <1>19 DEF MY!Answer
  <2>2. P \in Seq(Packets)
    BY <1>11
  <2> QED
    BY <1>18, <1>19, <2>1, <2>2, AnswerParts
<1>21. a = MY!Prepared(p, f)
  <2>1. MY!Prepared(p, f) = MY!Answer((h \o F) \o G, v)
    BY <1>1, <1>17 DEF MY!Prepared, MY!Count
  <2> QED
    BY <1>7, <1>19, <2>1
<1>22. Len(a.packets) > 0
  BY <1>2, <1>12, <1>16, <1>20
<1>23. PreparePlan(a, p, f)
  BY <1>2, <1>13, <1>14, <1>15, <1>16, <1>17, <1>20 DEF PreparePlan
<1> QED
  BY <1>20, <1>21, <1>22, <1>23

\* Whatever a server answers.
LEMMA AnswersFacts ==
  ASSUME NEW kind \in MY!Kind, NEW a \in MY!Answers(kind)
  PROVE  /\ a \in Said
         /\ kind # "close" => a.packets # << >> /\ (a.torn \/ Answered(kind, a))
         /\ kind = "close" => a.packets = << >>
<1>1. ASSUME NEW k \in {"query", "execute"}, NEW x \in MY!Results(k)
      PROVE  x \in Said /\ Len(x.packets) > 0 /\ (x.torn \/ Answered(k, x))
  <2>1. ASSUME NEW y \in MY!LastResult(k)
        PROVE  /\ y \in Said /\ Len(y.packets) > 0
               /\ y.torn \/ \E last \in Seq(Pairs) : Plan(k, y, 0, << >>, last)
    BY <2>1, LastFacts
  <2>2. CASE x \in MY!LastResult(k)
    BY <2>1, <2>2 DEF Answered
  <2>3. CASE x \notin MY!LastResult(k)
    <3>1. PICK r \in MY!Result(k, 1), b \in MY!LastResult(k) :
            x = MY!Followed(r, b)
      BY <2>3 DEF MY!Results
    <3>2. PICK more \in {0, 1} : more = 1
      OBVIOUS
    <3>3. /\ r \in Said /\ Len(r.packets) > 0
          /\ \E rows \in Seq(Pairs) :
               r.outcome.value = <<rows>> /\ IsResult(k, r.packets, 0, Len(r.packets), rows, more)
      BY <3>1, <3>2, ResultFacts
    <3>4. PICK rows \in Seq(Pairs) :
            r.outcome.value = <<rows>> /\ IsResult(k, r.packets, 0, Len(r.packets), rows, 1)
      BY <3>2, <3>3
    <3>5. /\ b \in Said /\ Len(b.packets) > 0
          /\ b.torn \/ \E last \in Seq(Pairs) : Plan(k, b, 0, << >>, last)
      BY <2>1, <3>1
    <3> QED
      BY <3>1, <3>3, <3>4, <3>5, BothFacts
  <2> QED
    BY <2>2, <2>3
<1>2. ASSUME NEW x \in Said, Len(x.packets) > 0 PROVE x.packets # << >>
  BY <1>2 DEF Said
<1>3. CASE kind \in {"query", "execute"}
  <2>1. a \in MY!Results(kind)
    BY <1>3 DEF MY!Answers
  <2> QED
    BY <1>1, <1>2, <1>3, <2>1
<1>4. CASE kind = "prepare"
  <2>1. a = MY!Error \/ \E p \in 0 .. 2, f \in 0 .. 1 : a = MY!Prepared(p, f)
    BY <1>4 DEF MY!Answers
  <2>2. CASE a = MY!Error
    BY <1>4, <2>2, ErrorFacts DEF Answered
  <2>3. ASSUME NEW p \in 0 .. 2, NEW f \in 0 .. 1, a = MY!Prepared(p, f)
        PROVE  a \in Said /\ Len(a.packets) > 0 /\ PreparePlan(a, p, f)
    BY <2>3, PreparedFacts
  <2> QED
    BY <1>2, <1>4, <2>1, <2>2, <2>3 DEF Answered
<1>5. CASE kind \in {"ping", "reset"}
  <2>1. a = MY!Error \/ a = MY!Answer(<<MY!Ok(0)>>, <<MY!Done>>)
    BY <1>5 DEF MY!Answers
  <2>2. CASE a = MY!Error
    BY <1>5, <2>2, ErrorFacts DEF Answered
  <2>3. CASE a = MY!Answer(<<MY!Ok(0)>>, <<MY!Done>>)
    <3>1. PICK more \in {0, 1} : more = 0
      OBVIOUS
    <3>2. a = MY!Answer(<<MY!Ok(more)>>, <<MY!Done>>)
      BY <2>3, <3>1
    <3>3. /\ a \in Said /\ Len(a.packets) = 1 /\ a.outcome.how = "ok"
          /\ a.outcome.value = <<MY!Done>> /\ MY!Done \in Seq(Pairs)
          /\ IsResult(kind, a.packets, 0, 1, MY!Done, more)
      BY <3>2, OkFacts
    <3>4. Plan(kind, a, 0, << >>, MY!Done)
      <4>1. 0 \in 0 .. Len(a.packets) - 1 /\ Len(a.packets) - 0 = 1 /\ ~ 0 > 0
        BY <3>3
      <4>2. kind # "prepare" /\ << >> \in Seq(Pairs)
        BY <1>5
      <4>3. IsResult(kind, a.packets, 0, Len(a.packets) - 0, MY!Done, 0)
        BY <3>1, <3>3, <4>1
      <4> QED
        BY <3>3, <4>1, <4>2, <4>3 DEF Plan
    <3>5. Len(a.packets) > 0
      BY <3>3
    <3> QED
      BY <1>2, <1>5, <3>3, <3>4, <3>5 DEF Answered
  <2> QED
    BY <2>1, <2>2, <2>3
<1>6. CASE kind = "close"
  <2>1. a = MY!Answer(<< >>, << >>)
    BY <1>6 DEF MY!Answers
  <2>2. << >> \in Seq(Packets) /\ << >> \in Seq(Seq(Pairs))
    OBVIOUS
  <2> QED
    BY <1>6, <2>1, <2>2, AnswerParts
<1> QED
  BY <1>3, <1>4, <1>5, <1>6 DEF MY!Kind

-----------------------------------------------------------------------------
\* The sequence that has the places of another and one more.
LEMMA OneMore ==
  ASSUME NEW S, NEW s \in Seq(S), NEW n \in Nat, n = Len(s), NEW y \in S,
         NEW w \in [1 .. n + 1 -> S],
         \A j \in 1 .. n + 1 : w[j] = IF j = n + 1 THEN y ELSE s[j]
  PROVE  w = Append(s, y)
<1>1. w \in Seq(S) /\ Len(w) = n + 1
  OBVIOUS
<1>2. PICK u : u = Append(s, y)
  OBVIOUS
<1>3. u \in Seq(S) /\ Len(u) = n + 1 /\ \A j \in 1 .. n + 1 : u[j] = IF j = n + 1 THEN y ELSE s[j]
  BY <1>2
<1>4. \A j \in 1 .. Len(w) : w[j] = u[j]
  BY <1>1, <1>3
<1>5. w = u
  BY <1>1, <1>3, <1>4, SeqEqual
<1> QED
  BY <1>2, <1>5

\* A row as it is read.
LEMMA DecodedFacts ==
  ASSUME NEW kind \in {"query", "execute"}, NEW r \in MY!Cells(1) \X MY!Cells(2)
  PROVE  /\ MY!Decoded(kind, r) \in [1 .. 2 -> Int] \cup Pairs
         /\ Read(kind, MY!Decoded(kind, r), r)
<1>1. r # << >> /\ r[1] \in Int /\ r[2] \in Int /\ r = <<r[1], r[2]>>
  BY DEF MY!Cells, MY!Null, MY!Empty, MY!Medium
<1>2. CASE kind = "query"
  <2>1. MY!Decoded(kind, r) = MY!TextRow(r)
    BY <1>1, <1>2 DEF MY!Decoded
  <2>2. MY!TextRow(r) \in [1 .. 2 -> Int]
    <3>1. \A i \in 1 .. 2 : r[i] \in Int
      BY <1>1
    <3> QED
      BY <3>1 DEF MY!TextRow, MY!Null, MY!Empty, MY!Medium
  <2> QED
    BY <1>2, <2>1, <2>2 DEF Read
<1>3. CASE kind = "execute"
  <2>1. MY!Decoded(kind, r) = MY!BinaryRow(r)
    BY <1>1, <1>3 DEF MY!Decoded
  <2>2. MY!BinaryRow(r) \in Pairs
    BY <1>1 DEF MY!BinaryRow, MY!Null, MY!Past, Pairs
  <2>3. r[1] \notin {MY!Null, MY!Medium} => MY!BinaryRow(r) = r
    BY <1>1 DEF MY!BinaryRow
  <2> QED
    BY <1>3, <2>1, <2>2, <2>3 DEF Read
<1> QED
  BY <1>2, <1>3

\* A packet behind d of the n packets of a result: the result goes on, or it ends
\* and is put behind the results before.
ReadOn(kind, d, n, before, rows, more) ==
  \/ d + 1 < n /\ Within(kind, d + 1, before, rows)' /\ UNCHANGED <<queue, results>>
  \/ /\ d + 1 = n
     /\ \E rd : /\ Fits(kind, rd, rows)
                /\ IF more = 1 THEN MY!Goto("first", 0, Append(before, rd))
                   ELSE MY!Finish("ok", Append(before, rd))

\* One packet of a result: what is read of it grows, or the result is whole.
LEMMA ResultStep ==
  ASSUME NEW kind \in MY!Kind, kind # "prepare", NEW P, NEW b \in Nat, NEW n \in Nat,
         NEW rows \in Seq(Pairs), NEW more \in {0, 1}, IsResult(kind, P, b, n, rows, more),
         NEW d \in 0 .. n - 1, NEW before \in Seq(RowsRead), Within(kind, d, before, rows),
         NEW p, p = P[b + d + 1], Taken(kind, p)
  PROVE  ReadOn(kind, d, n, before, rows, more)
<1> SUFFICES
      \/ d + 1 < n /\ Within(kind, d + 1, before, rows)' /\ UNCHANGED <<queue, results>>
      \/ /\ d + 1 = n
         /\ \E rd : /\ Fits(kind, rd, rows)
                    /\ IF more = 1 THEN MY!Goto("first", 0, Append(before, rd))
                       ELSE MY!Finish("ok", Append(before, rd))
  BY DEF ReadOn
<1>1. << >> \in RowsRead /\ MY!Done \in RowsRead
  BY DEF RowsRead, MY!Done, Pairs
<1>2. CASE n = 1 /\ P[b + 1] = MY!Ok(more) /\ rows = MY!Done
  <2>1. d = 0 /\ b + d + 1 = b + 1
    BY <1>2
  <2>2. pc = "first" /\ value = before
    BY <2>1 DEF Within
  <2>3. p.type = "OK" /\ p.more = more
    BY <1>2, <2>1, PacketFacts
  <2>4. MY!First(kind, p)
    BY <2>2 DEF Taken
  <2>5. IF more = 1 THEN MY!Goto("first", 0, Append(before, MY!Done))
        ELSE MY!Finish("ok", Append(before, MY!Done))
    BY <2>2, <2>3, <2>4 DEF MY!First
  <2>6. Fits(kind, MY!Done, rows)
    <3>1. Len(MY!Done) = 1 /\ MY!Done[1] = <<-1, -1>>
      BY DEF MY!Done
    <3>2. Read(kind, <<-1, -1>>, <<-1, -1>>)
      BY DEF Read, MY!TextRow, MY!Null
    <3> QED
      BY <1>1, <1>2, <3>1, <3>2 DEF Fits
  <2> QED
    BY <1>2, <2>1, <2>5, <2>6
<1>3. CASE ~ (n = 1 /\ P[b + 1] = MY!Ok(more) /\ rows = MY!Done)
  <2>1. /\ kind \in {"query", "execute"}
        /\ n = 5 + Len(rows)
        /\ \A j \in 1 .. Len(rows) : rows[j] \in MY!Cells(1) \X MY!Cells(2)
        /\ P[b + 1] = Heading
        /\ P[b + 2] = MY!Field /\ P[b + 3] = MY!Field /\ P[b + 4] = MY!Eof(0)
        /\ \A j \in 1 .. Len(rows) : P[b + 4 + j] = MY!Row(rows[j], kind)
        /\ P[b + n] = MY!Eof(more)
    BY <1>3 DEF IsResult
  <2>2. Len(rows) \in Nat
    OBVIOUS
  <2>3. Heading.type = "DATA" /\ Heading.count = <<2, 0>>
    <3>1. 2 \in Int /\ 0 \in Int /\ "DATA" \in {"OK", "DATA"}
      OBVIOUS
    <3> QED
      BY <3>1, PacketFacts DEF Heading
  <2>4. /\ MY!Field.type = "DATA" /\ MY!Eof(0).type = "EOF"
        /\ MY!Eof(more).type = "EOF" /\ MY!Eof(more).more = more
    BY PacketFacts
  <2>5. CASE d = 0
    <3>1. b + d + 1 = b + 1 /\ d + 1 = 1
      BY <2>5
    <3>2. p = Heading /\ pc = "first" /\ value = before
      BY <2>1, <2>5, <3>1 DEF Within
    <3>3. MY!First(kind, p)
      BY <3>2 DEF Taken
    <3>4. MY!Goto("fields", IF kind = "execute" THEN 0 ELSE p.count[1], Append(value, << >>))
      BY <2>1, <2>3, <3>2, <3>3 DEF MY!First
    <3>5. Within(kind, 1, before, rows)'
      BY <2>3, <3>2, <3>4 DEF Within, MY!Goto
    <3> QED
      BY <2>1, <2>2, <3>1, <3>4, <3>5 DEF MY!Goto
  <2>6. CASE d \in 1 .. 2
    <3>1. /\ pc = "fields" /\ value = Append(before, << >>)
          /\ left = IF kind = "execute" THEN d - 1 ELSE 3 - d
      BY <2>6 DEF Within
    <3>2. p = MY!Field
      <4>1. CASE d = 1
        BY <2>1, <4>1
      <4>2. CASE d = 2
        BY <2>1, <4>2
      <4> QED
        BY <2>6, <4>1, <4>2
    <3>3. MY!FieldPacket(kind, p)
      BY <3>1 DEF Taken
    <3>4. MY!Goto("fields", IF kind = "execute" THEN left + 1 ELSE left - 1, value)
      BY <2>4, <2>6, <3>1, <3>2, <3>3 DEF MY!FieldPacket
    <3>5. Within(kind, d + 1, before, rows)'
      BY <2>6, <3>1, <3>4 DEF Within, MY!Goto
    <3>6. d + 1 < n
      BY <2>1, <2>2, <2>6
    <3> QED
      BY <3>4, <3>5, <3>6 DEF MY!Goto
  <2>7. CASE d = 3
    <3>1. /\ pc = "fields" /\ value = Append(before, << >>)
          /\ left = IF kind = "execute" THEN 2 ELSE 0
      BY <2>7 DEF Within
    <3>2. p = MY!Eof(0) /\ d + 1 = 4
      BY <2>1, <2>7
    <3>3. MY!FieldPacket(kind, p)
      BY <3>1 DEF Taken
    <3>4. MY!Goto("rows", 0, value)
      BY <2>4, <3>1, <3>2, <3>3 DEF MY!FieldPacket
    <3>5. Within(kind, 4, before, rows)'
      <4>1. Len(<< >>) = 4 - 4 /\ \A j \in 1 .. 4 - 4 : Read(kind, << >>[j], rows[j])
        OBVIOUS
      <4>2. pc' = "rows" /\ left' = 0 /\ value' = Append(before, << >>)
        BY <3>1, <3>4 DEF MY!Goto
      <4> QED
        BY <1>1, <4>1, <4>2 DEF Within
    <3>6. 4 < n
      BY <2>1, <2>2
    <3> QED
      BY <3>2, <3>4, <3>5, <3>6 DEF MY!Goto
  <2>8. CASE d > 3
    <3>1. /\ pc = "rows"
          /\ \E rd \in RowsRead :
               /\ Len(rd) = d - 4 /\ value = Append(before, rd)
               /\ \A j \in 1 .. d - 4 : Read(kind, rd[j], rows[j])
      BY <2>8 DEF Within
    <3>2. PICK rd \in RowsRead :
            /\ Len(rd) = d - 4 /\ value = Append(before, rd)
            /\ \A j \in 1 .. d - 4 : Read(kind, rd[j], rows[j])
      BY <3>1
    <3>3. MY!RowPacket(kind, p)
      BY <3>1 DEF Taken
    <3>4. CASE d + 1 = n
      <4>1. b + d + 1 = b + n /\ d - 4 = Len(rows)
        <5>1. d = 4 + Len(rows)
          BY <2>1, <2>2, <3>4
        <5> QED
          BY <2>2, <3>4, <5>1
      <4>2. p = MY!Eof(more)
        BY <2>1, <4>1
      <4>3. IF more = 1 THEN MY!Goto("first", 0, value) ELSE MY!Finish("ok", value)
        BY <2>4, <3>3, <4>2 DEF MY!RowPacket
      <4>4. Fits(kind, rd, rows)
        BY <3>2, <4>1 DEF Fits
      <4> QED
        BY <3>2, <3>4, <4>3, <4>4
    <3>5. CASE d + 1 # n
      <4>1. d - 3 \in 1 .. Len(rows) /\ b + d + 1 = b + 4 + (d - 3) /\ d + 1 < n
        BY <2>1, <2>2, <2>8, <3>5
      <4>2. PICK r \in MY!Cells(1) \X MY!Cells(2) : r = rows[d - 3]
        BY <2>1, <4>1
      <4>3. p = MY!Row(r, kind)
        BY <2>1, <4>1, <4>2
      <4>4. p.type # "EOF" /\ p.row = r
        BY <4>3, PacketFacts
      <4>5. PICK x : x = MY!Decoded(kind, r)
        OBVIOUS
      <4>6. x \in [1 .. 2 -> Int] \cup Pairs /\ Read(kind, x, r)
        BY <2>1, <4>5, DecodedFacts
      <4>7. MY!Goto("rows", 0, [value EXCEPT ![Len(value)] = Append(@, x)])
        <5>1. DOMAIN r = 1 .. 2 /\ r[1] # MY!Unsupported /\ r[2] # MY!Unsupported
          BY DEF MY!Cells, MY!Null, MY!Empty, MY!Medium, MY!Unsupported
        <5>2. ~ \E i \in DOMAIN p.row : p.row[i] = MY!Unsupported
          BY <4>4, <5>1
        <5> QED
          BY <3>3, <4>4, <4>5, <5>2 DEF MY!RowPacket
      <4>8. PICK more_rd : more_rd = Append(rd, x)
        OBVIOUS
      <4>9. /\ more_rd \in RowsRead /\ Len(more_rd) = d - 3 /\ more_rd[d - 3] = x
            /\ \A j \in 1 .. d - 4 : more_rd[j] = rd[j]
        BY <2>8, <3>2, <4>6, <4>8, SMTT(40) DEF RowsRead
      <4>10. value' = Append(before, more_rd)
        <5>1. PICK v, w : v = value /\ w = value'
          OBVIOUS
        <5>2. PICK m \in Nat : m = Len(before)
          OBVIOUS
        <5>3. /\ v \in Seq(RowsRead) /\ Len(v) = m + 1 /\ v[m + 1] = rd
              /\ \A j \in 1 .. m : v[j] = before[j]
          <6>1. v = Append(before, rd)
            BY <3>2, <5>1
          <6> QED
            BY <5>2, <6>1
        <5>4. v \in [1 .. m + 1 -> RowsRead]
          <6>1. v \in [1 .. Len(v) -> RowsRead]
            BY <5>3, LenProperties
          <6> QED
            BY <5>3, <6>1
        <5>5. w = [v EXCEPT ![m + 1] = more_rd]
          BY <4>7, <4>8, <5>1, <5>3 DEF MY!Goto
        <5>6. /\ w \in [1 .. m + 1 -> RowsRead]
              /\ \A j \in 1 .. m + 1 : w[j] = IF j = m + 1 THEN more_rd ELSE before[j]
          <6>1. more_rd \in RowsRead
            BY <4>9
          <6>2. \A j \in 1 .. m + 1 : j # m + 1 => v[j] = before[j]
            BY <5>3
          <6> QED
            BY <5>4, <5>5, <6>1, <6>2
        <5>7. w = Append(before, more_rd)
          BY <4>9, <5>2, <5>6, OneMore
        <5> QED
          BY <5>1, <5>7
      <4>11. \A j \in 1 .. (d + 1) - 4 : Read(kind, more_rd[j], rows[j])
        <5> TAKE j \in 1 .. (d + 1) - 4
        <5>1. CASE j = d - 3
          BY <4>2, <4>6, <4>9, <5>1
        <5>2. CASE j # d - 3
          <6>1. j \in 1 .. d - 4
            BY <2>8, <5>2
          <6> QED
            BY <3>2, <4>9, <6>1
        <5> QED
          BY <5>1, <5>2
      <4>12. Within(kind, d + 1, before, rows)'
        <5>1. pc' = "rows" /\ left' = 0 /\ value' = Append(before, more_rd)
          BY <4>7, <4>10 DEF MY!Goto
        <5>2. d + 1 > 3 /\ Len(more_rd) = (d + 1) - 4
          BY <2>8, <4>9
        <5> QED
          BY <4>9, <4>11, <5>1, <5>2 DEF Within
      <4> QED
        BY <4>1, <4>7, <4>12 DEF MY!Goto
    <3> QED
      BY <3>4, <3>5
  <2> QED
    BY <2>5, <2>6, <2>7, <2>8
<1> QED
  BY <1>2, <1>3

\* One packet of an answer: it is read further, or the call returns what it says.
LEMMA AnswerStep ==
  ASSUME NEW kind \in MY!Kind, NEW a \in Said, NEW n, NEW rows, NEW last,
         Plan(kind, a, n, rows, last), NEW c \in 0 .. Len(a.packets) - 1,
         Follows(kind, a, c, n, rows, last), NEW p, p = a.packets[c + 1], Taken(kind, p)
  PROVE  \/ /\ c + 1 < Len(a.packets) /\ Follows(kind, a, c + 1, n, rows, last)'
            /\ UNCHANGED <<queue, results>>
         \/ /\ c + 1 = Len(a.packets)
            /\ \E v : SaidSo(kind, a.outcome, v) /\ MY!Finish(a.outcome.how, v)
<1>1. PICK P \in Seq(Packets), m \in Nat : P = a.packets /\ m = Len(P)
  BY DEF Said
<1>2. PICK said : said = a.outcome
  OBVIOUS
<1>3. /\ n \in 0 .. m - 1 /\ rows \in Seq(Pairs) /\ last \in Seq(Pairs)
      /\ n > 0 => IsResult(kind, P, 0, n, rows, 1)
      /\ \/ /\ said.how = "ok" /\ kind # "prepare"
            /\ said.value = IF n > 0 THEN <<rows, last>> ELSE <<last>>
            /\ IsResult(kind, P, n, m - n, last, 0)
         \/ /\ said.how = "error" /\ said.value = << >> /\ (kind = "prepare" => n = 0)
            /\ m = n + 1 /\ P[n + 1] = MY!Packet("ERR")
  BY <1>1, <1>2 DEF Plan
<1>4. c \in 0 .. m - 1 /\ p = P[c + 1] /\ c \in Nat
  BY <1>1
<1>5. CASE c < n
  <2>1. n > 0 /\ kind # "prepare" /\ c \in 0 .. n - 1 /\ n \in Nat
    BY <1>3, <1>4, <1>5
  <2>2. Within(kind, c, << >>, rows)
    BY <1>3, <1>4, <1>5 DEF Follows
  <2>3. PICK z \in Seq(RowsRead), more \in {0, 1} : z = << >> /\ more = 1
    <3>1. << >> \in Seq(RowsRead)
      OBVIOUS
    <3> QED
      BY <3>1
  <2>4. p = P[0 + c + 1] /\ 0 \in Nat
    BY <1>4
  <2>5. IsResult(kind, P, 0, n, rows, more) /\ Within(kind, c, z, rows)
    BY <1>3, <2>1, <2>2, <2>3
  <2>6. ReadOn(kind, c, n, z, rows, more)
    BY <1>3, <2>1, <2>4, <2>5, ResultStep
  <2>7. \/ c + 1 < n /\ Within(kind, c + 1, z, rows)' /\ UNCHANGED <<queue, results>>
        \/ /\ c + 1 = n
           /\ \E rd : /\ Fits(kind, rd, rows)
                      /\ IF more = 1 THEN MY!Goto("first", 0, Append(z, rd))
                         ELSE MY!Finish("ok", Append(z, rd))
    BY <2>6 DEF ReadOn
  <2>8. CASE c + 1 < n /\ Within(kind, c + 1, z, rows)' /\ UNCHANGED <<queue, results>>
    <3>1. Follows(kind, a, c + 1, n, rows, last)'
      BY <2>3, <2>8 DEF Follows
    <3>2. c + 1 < m
      BY <1>3, <1>4, <2>8
    <3> QED
      BY <1>1, <2>8, <3>1, <3>2
  <2>9. ASSUME NEW rd, c + 1 = n, Fits(kind, rd, rows), MY!Goto("first", 0, Append(<< >>, rd))
        PROVE  Follows(kind, a, c + 1, n, rows, last)' /\ UNCHANGED <<queue, results>>
    <3>1. PICK before : before = Append(<< >>, rd)
      OBVIOUS
    <3>2. rd \in RowsRead
      BY <2>9 DEF Fits
    <3>3. before \in Seq(RowsRead) /\ Len(before) = 1 /\ before[1] = rd
      BY <3>1, <3>2
    <3>4. Within(kind, 0, before, last)'
      BY <2>9, <3>1 DEF Within, MY!Goto
    <3>5. (c + 1) - n = 0 /\ c + 1 >= n
      BY <1>4, <2>1, <2>9
    <3>6. /\ before \in Seq(RowsRead) /\ Len(before) = IF n > 0 THEN 1 ELSE 0
          /\ n > 0 => Fits(kind, before[1], rows)
          /\ Within(kind, (c + 1) - n, before, last)'
      BY <2>1, <2>9, <3>3, <3>4, <3>5
    <3> QED
      BY <2>9, <3>5, <3>6 DEF Follows, MY!Goto
  <2>10. CASE c + 1 = n /\ \E rd : Fits(kind, rd, rows) /\ MY!Goto("first", 0, Append(<< >>, rd))
    <3>1. c + 1 < Len(a.packets)
      BY <1>1, <1>3, <1>4, <2>10
    <3> QED
      BY <2>9, <2>10, <3>1
  <2> QED
    BY <2>3, <2>7, <2>8, <2>10
<1>6. CASE c >= n
  <2>1. PICK before \in Seq(RowsRead) :
          /\ Len(before) = IF n > 0 THEN 1 ELSE 0
          /\ n > 0 => Fits(kind, before[1], rows)
          /\ Within(kind, c - n, before, last)
    BY <1>3, <1>4, <1>6 DEF Follows
  <2>2. /\ n \in Nat /\ m - n \in Nat /\ c - n \in 0 .. (m - n) - 1 /\ n + (c - n) + 1 = c + 1
        /\ (c - n) + 1 = (c + 1) - n /\ c + 1 >= n
    BY <1>3, <1>4, <1>6
  <2>3. CASE said.how = "ok"
    <3>1. /\ kind # "prepare" /\ IsResult(kind, P, n, m - n, last, 0)
          /\ said.value = IF n > 0 THEN <<rows, last>> ELSE <<last>>
      BY <1>3, <2>3
    <3>2. PICK more \in {0, 1} : more = 0
      OBVIOUS
    <3>3. p = P[n + (c - n) + 1] /\ IsResult(kind, P, n, m - n, last, more)
      BY <1>4, <2>2, <3>1, <3>2
    <3>4. ReadOn(kind, c - n, m - n, before, last, more)
      BY <1>3, <2>1, <2>2, <3>1, <3>3, ResultStep
    <3>5. \/ /\ (c - n) + 1 < m - n /\ Within(kind, (c - n) + 1, before, last)'
             /\ UNCHANGED <<queue, results>>
          \/ /\ (c - n) + 1 = m - n
             /\ \E rd : /\ Fits(kind, rd, last)
                        /\ IF more = 1 THEN MY!Goto("first", 0, Append(before, rd))
                           ELSE MY!Finish("ok", Append(before, rd))
      BY <3>4 DEF ReadOn
    <3>6. \/ /\ (c - n) + 1 < m - n /\ Within(kind, (c - n) + 1, before, last)'
             /\ UNCHANGED <<queue, results>>
          \/ /\ (c - n) + 1 = m - n
             /\ \E rd : Fits(kind, rd, last) /\ MY!Finish("ok", Append(before, rd))
      BY <3>2, <3>5
    <3>7. CASE /\ (c - n) + 1 < m - n /\ Within(kind, (c - n) + 1, before, last)'
               /\ UNCHANGED <<queue, results>>
      <4>1. Within(kind, (c + 1) - n, before, last)'
        BY <2>2, <3>7
      <4>2. Follows(kind, a, c + 1, n, rows, last)'
        BY <2>1, <2>2, <4>1 DEF Follows
      <4>3. c + 1 < m
        BY <1>3, <1>4, <3>7
      <4> QED
        BY <1>1, <3>7, <4>2, <4>3
    <3>8. ASSUME NEW rd, (c - n) + 1 = m - n, Fits(kind, rd, last),
                 MY!Finish("ok", Append(before, rd))
          PROVE  c + 1 = m /\ \E v : SaidSo(kind, said, v) /\ MY!Finish(said.how, v)
      <4>1. c + 1 = m
        BY <1>3, <1>4, <3>8
      <4>2. PICK v : v = Append(before, rd)
        OBVIOUS
      <4>3. rd \in RowsRead
        BY <3>8 DEF Fits
      <4>4. SaidSo(kind, said, v)
        <5>1. CASE n > 0
          <6>1. Len(v) = 2 /\ v[1] = before[1] /\ v[2] = rd
            <7>1. Len(before) = 1
              BY <2>1, <5>1
            <7>2. v \in Seq(RowsRead) /\ Len(v) = Len(before) + 1 /\ v[Len(before) + 1] = rd
                  /\ \A j \in 1 .. Len(before) : v[j] = before[j]
              BY <2>1, <4>2, <4>3, AppendProperties
            <7>3. 1 \in 1 .. Len(before)
              BY <7>1
            <7> QED
              BY <7>1, <7>2, <7>3
          <6>2. said.value = <<rows, last>>
            BY <3>1, <5>1
          <6>3. Len(said.value) = 2 /\ said.value[1] = rows /\ said.value[2] = last
            BY <6>2
          <6>4. Fits(kind, v[1], said.value[1]) /\ Fits(kind, v[2], said.value[2])
            BY <2>1, <3>8, <5>1, <6>1, <6>3
          <6> QED
            BY <6>1, <6>3, <6>4 DEF SaidSo
        <5>2. CASE ~ n > 0
          <6>1. Len(v) = 1 /\ v[1] = rd
            BY <2>1, <4>2, <4>3, <5>2
          <6>2. said.value = <<last>>
            BY <3>1, <5>2
          <6>3. Len(said.value) = 1 /\ said.value[1] = last
            BY <6>2
          <6>4. Fits(kind, v[1], said.value[1])
            BY <3>8, <6>1, <6>3
          <6> QED
            BY <6>1, <6>3, <6>4 DEF SaidSo
        <5> QED
          BY <5>1, <5>2
      <4> QED
        BY <2>3, <3>8, <4>1, <4>2, <4>4
    <3> QED
      BY <1>1, <1>2, <3>6, <3>7, <3>8
  <2>4. CASE said.how = "error"
    <3>1. said.value = << >> /\ m = n + 1 /\ P[n + 1] = MY!Packet("ERR")
      BY <1>3, <2>4
    <3>2. c = n /\ c - n = 0
      BY <1>3, <1>4, <1>6, <3>1
    <3>3. pc = "first"
      BY <2>1, <3>2 DEF Within
    <3>4. p.type = "ERR"
      BY <1>4, <3>1, <3>2, PacketFacts
    <3>5. MY!First(kind, p)
      BY <3>3 DEF Taken
    <3>6. MY!Finish("error", << >>)
      BY <3>4, <3>5 DEF MY!First
    <3>7. SaidSo(kind, said, << >>)
      BY <3>1 DEF SaidSo
    <3> QED
      BY <1>1, <1>2, <2>4, <3>1, <3>2, <3>6, <3>7
  <2> QED
    BY <1>3, <2>3, <2>4
<1> QED
  BY <1>3, <1>4, <1>5, <1>6

\* What prepare returns.
LEMMA NumbersFacts ==
  ASSUME NEW x \in Int, NEW y \in Int, NEW v, v = << << <<x, y>> >> >>
  PROVE  /\ v \in Seq(RowsRead) /\ v[1][1][1] = x /\ v[1][1][2] = y
         /\ v[1][1] = <<x, y>> /\ Len(v) = 1 /\ Len(v[1]) = 1
<1>1. PICK r : r = <<x, y>>
  OBVIOUS
<1>2. r \in Pairs /\ r[1] = x /\ r[2] = y
  BY <1>1 DEF Pairs
<1>3. PICK s : s = <<r>>
  OBVIOUS
<1>4. s \in RowsRead /\ s[1] = r /\ Len(s) = 1
  BY <1>2, <1>3 DEF RowsRead
<1>5. v = <<s>>
  BY <1>1, <1>3
<1>6. v \in Seq(RowsRead) /\ v[1] = s /\ Len(v) = 1
  BY <1>4, <1>5
<1> QED
  BY <1>1, <1>2, <1>4, <1>6

\* One packet of the answer of prepare.
LEMMA PrepareStep ==
  ASSUME NEW a \in Said, NEW p, NEW f, PreparePlan(a, p, f),
         NEW c \in 0 .. Len(a.packets) - 1, PrepareFollows(c, p, f),
         NEW q, q = a.packets[c + 1], Taken("prepare", q)
  PROVE  \/ /\ c + 1 < Len(a.packets) /\ PrepareFollows(c + 1, p, f)'
            /\ UNCHANGED <<queue, results>>
         \/ c + 1 = Len(a.packets) /\ MY!Finish("ok", << << <<p, f>> >> >>)
<1>1. PICK P \in Seq(Packets), m \in Nat : P = a.packets /\ m = Len(P)
  BY DEF Said
<1>2. PICK g \in Nat : g = From(p)
  <2>1. p \in Nat
    BY DEF PreparePlan
  <2> QED
    BY <2>1 DEF From
<1>3. /\ p \in Nat /\ f \in Nat
      /\ m = (IF f > 0 THEN g + f + 1 ELSE g)
      /\ P[1] = MY!Count("OK", <<p, f>>)
      /\ p > 0 => (\A j \in 2 .. p + 1 : P[j] = MY!Field) /\ P[p + 2] = MY!Eof(0)
      /\ f > 0 => /\ \A j \in 1 .. f : P[g + j] = MY!Field
                  /\ P[g + f + 1] = MY!Eof(0)
  BY <1>1, <1>2 DEF PreparePlan
<1>4. c \in 0 .. m - 1 /\ q = P[c + 1] /\ c \in Nat
  BY <1>1
<1>5. MY!Field.type = "DATA" /\ MY!Eof(0).type = "EOF"
  BY PacketFacts
<1>6. CASE c = 0 /\ pc = "first" /\ left = 0 /\ value = << >>
  <2>1. q.type = "OK" /\ q.count = <<p, f>>
    <3>1. p \in Int /\ f \in Int /\ "OK" \in {"OK", "DATA"} /\ q = MY!Count("OK", <<p, f>>)
      BY <1>3, <1>4, <1>6
    <3> QED
      BY <3>1, PacketFacts
  <2>2. MY!First("prepare", q)
    BY <1>6 DEF Taken
  <2>3. MY!Columns(0, p, f)
    BY <2>1, <2>2 DEF MY!First
  <2>4. CASE p > 0
    <3>1. MY!Goto("params", 0, << << <<0, f>> >> >>)
      BY <2>3, <2>4 DEF MY!Columns
    <3>2. c + 1 = 1 /\ 1 - 1 = 0 /\ 1 \in 1 .. p + 1 /\ 1 < m
      BY <1>2, <1>3, <1>6, <2>4 DEF From
    <3>3. PrepareFollows(1, p, f)'
      BY <1>2, <2>4, <3>1, <3>2 DEF PrepareFollows, MY!Goto
    <3> QED
      BY <1>1, <3>1, <3>2, <3>3 DEF MY!Goto
  <2>5. CASE ~ p > 0 /\ f > 0
    <3>1. MY!Goto("columns", 0, << << <<0, 0>> >> >>)
      BY <2>3, <2>5 DEF MY!Columns
    <3>2. p = 0 /\ g = 1 /\ c + 1 = 1 /\ 1 - g = 0 /\ 1 \in g .. g + f /\ 1 < m
      BY <1>2, <1>3, <1>6, <2>5 DEF From
    <3>3. PrepareFollows(1, p, f)'
      BY <1>2, <2>5, <3>1, <3>2 DEF PrepareFollows, MY!Goto
    <3> QED
      BY <1>1, <3>1, <3>2, <3>3 DEF MY!Goto
  <2>6. CASE ~ p > 0 /\ ~ f > 0
    <3>1. MY!Finish("ok", << << <<0, 0>> >> >>)
      BY <2>3, <2>6 DEF MY!Columns
    <3>2. p = 0 /\ f = 0 /\ c + 1 = m
      BY <1>2, <1>3, <1>6, <2>6 DEF From
    <3> QED
      BY <1>1, <3>1, <3>2
  <2> QED
    BY <2>4, <2>5, <2>6
<1>7. CASE p > 0 /\ c \in 1 .. p + 1 /\ pc = "params" /\ value = << << <<c - 1, f>> >> >>
  <2>1. value[1][1][1] = c - 1 /\ value[1][1][2] = f
    <3>1. PICK v : v = value
      OBVIOUS
    <3>2. c - 1 \in Int /\ f \in Int /\ v = << << <<c - 1, f>> >> >>
      BY <1>3, <1>4, <1>7, <3>1
    <3> QED
      BY <3>1, <3>2, NumbersFacts
  <2>2. MY!PreparePacket(q)
    BY <1>7 DEF Taken
  <2>3. CASE c < p + 1
    <3>1. q = MY!Field
      <4>1. c + 1 \in 2 .. p + 1
        BY <1>3, <1>4, <1>7, <2>3
      <4> QED
        BY <1>3, <1>4, <1>7, <4>1
    <3>2. MY!Goto("params", 0, << << <<(c - 1) + 1, f>> >> >>)
      BY <1>5, <1>7, <2>1, <2>2, <3>1 DEF MY!PreparePacket
    <3>3. (c - 1) + 1 = (c + 1) - 1 /\ c + 1 \in 1 .. p + 1 /\ c + 1 < m
      BY <1>2, <1>3, <1>4, <1>7, <2>3 DEF From
    <3>4. PrepareFollows(c + 1, p, f)'
      BY <1>2, <1>7, <3>2, <3>3 DEF PrepareFollows, MY!Goto
    <3> QED
      BY <1>1, <3>2, <3>3, <3>4 DEF MY!Goto
  <2>4. CASE c = p + 1
    <3>1. q = MY!Eof(0) /\ c - 1 = p /\ c + 1 = g
      BY <1>2, <1>3, <1>4, <1>7, <2>4 DEF From
    <3>2. MY!Columns(p, 0, f)
      BY <1>5, <1>7, <2>1, <2>2, <3>1 DEF MY!PreparePacket
    <3>3. CASE f > 0
      <4>1. MY!Goto("columns", 0, << << <<p, 0>> >> >>)
        BY <3>2, <3>3 DEF MY!Columns
      <4>2. (c + 1) - g = 0 /\ c + 1 \in g .. g + f /\ c + 1 < m
        BY <1>3, <1>4, <3>1, <3>3
      <4>3. PrepareFollows(c + 1, p, f)'
        BY <1>2, <3>3, <4>1, <4>2 DEF PrepareFollows, MY!Goto
      <4> QED
        BY <1>1, <4>1, <4>2, <4>3 DEF MY!Goto
    <3>4. CASE ~ f > 0
      <4>1. MY!Finish("ok", << << <<p, 0>> >> >>)
        BY <3>2, <3>4 DEF MY!Columns
      <4>2. f = 0 /\ c + 1 = m
        BY <1>3, <3>1, <3>4
      <4> QED
        BY <1>1, <4>1, <4>2
    <3> QED
      BY <3>3, <3>4
  <2> QED
    BY <1>3, <1>4, <1>7, <2>3, <2>4
<1>8. CASE /\ f > 0 /\ c \in g .. g + f /\ pc = "columns"
           /\ value = << << <<p, c - g>> >> >>
  <2>1. value[1][1][1] = p /\ value[1][1][2] = c - g
    <3>1. PICK v : v = value
      OBVIOUS
    <3>2. p \in Int /\ c - g \in Int /\ v = << << <<p, c - g>> >> >>
      BY <1>3, <1>4, <1>8, <3>1
    <3> QED
      BY <3>1, <3>2, NumbersFacts
  <2>2. MY!PreparePacket(q)
    BY <1>8 DEF Taken
  <2>3. CASE c < g + f
    <3>1. q = MY!Field
      <4>1. (c - g) + 1 \in 1 .. f /\ g + ((c - g) + 1) = c + 1
        BY <1>3, <1>4, <1>8, <2>3
      <4> QED
        BY <1>3, <1>4, <1>8, <4>1
    <3>2. MY!Goto("columns", 0, << << <<p, (c - g) + 1>> >> >>)
      BY <1>5, <1>8, <2>1, <2>2, <3>1 DEF MY!PreparePacket
    <3>3. (c - g) + 1 = (c + 1) - g /\ c + 1 \in g .. g + f /\ c + 1 < m
      <4>1. m = g + f + 1
        BY <1>3, <1>8
      <4>2. f \in Nat /\ c \in Nat /\ c \in g .. g + f /\ c < g + f
        BY <1>3, <1>4, <1>8, <2>3
      <4> QED
        BY <4>1, <4>2
    <3>4. PrepareFollows(c + 1, p, f)'
      BY <1>2, <1>8, <3>2, <3>3 DEF PrepareFollows, MY!Goto
    <3> QED
      BY <1>1, <3>2, <3>3, <3>4 DEF MY!Goto
  <2>4. CASE c = g + f
    <3>1. q = MY!Eof(0) /\ c - g = f /\ c + 1 = m
      BY <1>3, <1>4, <1>8, <2>4
    <3>2. MY!Finish("ok", value)
      BY <1>5, <1>8, <2>2, <3>1 DEF MY!PreparePacket
    <3>3. value = << << <<p, f>> >> >>
      BY <1>8, <3>1
    <3> QED
      BY <1>1, <3>1, <3>2, <3>3
  <2> QED
    BY <1>3, <1>4, <1>8, <2>3, <2>4
<1> QED
  BY <1>2, <1>6, <1>7, <1>8 DEF PrepareFollows

\* The first packet on its way is the next one of the first call's answer.
LEMMA HeadPacket ==
  ASSUME MysqlTypes, queue # << >>, coming # << >>, NEW c \in Nat, NEW k, k = queue[1],
         At(k, c), NEW off, Arranged(c, off)
  PROVE  /\ k \in 1 .. Len(calls) /\ Head(queue) = k /\ calls[k].answer \in Said
         /\ calls[k].kind \in MY!Kind
         /\ c \in 0 .. Len(calls[k].answer.packets) - 1
         /\ Head(coming).packet = calls[k].answer.packets[c + 1]
<1>1. /\ queue \in Seq(1 .. Len(calls)) /\ calls \in Seq([kind : MY!Kind, seq : Int, answer : Said])
      /\ coming \in Seq([packet : Packets, no : Int])
  BY DEF MysqlTypes
<1>2. k \in 1 .. Len(calls) /\ Head(queue) = k /\ 1 \in 1 .. Len(queue)
  BY <1>1
<1>3. calls[k].answer \in Said /\ calls[k].kind \in MY!Kind
  <2>1. calls[k] \in [kind : MY!Kind, seq : Int, answer : Said]
    BY <1>1, <1>2, ElementOfSeq
  <2> QED
    BY <2>1
<1>4. PICK P \in Seq(Packets), m \in Nat : P = calls[k].answer.packets /\ m = Len(P)
  BY <1>3 DEF Said
<1>5. c \in 0 .. m - 1
  BY <1>4 DEF At
<1>6. PacketsOf(1) = P
  BY <1>4 DEF PacketsOf
<1>7. /\ off[1] = 0 - c
      /\ \A j \in 1 .. m : off[1] + j >= 1 => coming[off[1] + j].packet = P[j]
  BY <1>2, <1>4, <1>6 DEF Arranged
<1>8. c + 1 \in 1 .. m /\ off[1] + (c + 1) = 1
  BY <1>5, <1>7
<1>9. coming[1].packet = P[c + 1]
  BY <1>7, <1>8
<1>10. Head(coming) = coming[1]
  BY <1>1
<1> QED
  BY <1>2, <1>3, <1>4, <1>5, <1>9, <1>10

\* One packet of the first call's answer.
LEMMA PacketStep ==
  ASSUME MysqlTypes, NEW c \in Nat, NEW k, k = queue[1],
         At(k, c), NEW off, Arranged(c, off), MY!RecvPacket
  PROVE  LET a == calls[k].answer
         IN  \/ /\ c + 1 < Len(a.packets) /\ At(k, c + 1)' /\ UNCHANGED <<queue, results>>
             \/ /\ c + 1 = Len(a.packets)
                /\ \E v : SaidSo(calls[k].kind, a.outcome, v) /\ MY!Finish(a.outcome.how, v)
<1>1. queue # << >> /\ coming # << >>
  BY DEF MY!RecvPacket
<1>2. /\ k \in 1 .. Len(calls) /\ Head(queue) = k /\ calls[k].answer \in Said
      /\ calls[k].kind \in MY!Kind
      /\ c \in 0 .. Len(calls[k].answer.packets) - 1
      /\ Head(coming).packet = calls[k].answer.packets[c + 1]
  BY <1>1, HeadPacket
<1>3. PICK kind, a, p :
        kind \in MY!Kind /\ a \in Said /\ kind = calls[k].kind /\ a = calls[k].answer /\ p = Head(coming).packet
  BY <1>2
<1>4. c \in 0 .. Len(a.packets) - 1 /\ p = a.packets[c + 1]
  BY <1>2, <1>3
<1>5. Taken(kind, p)
  BY <1>2, <1>3 DEF MY!RecvPacket, Taken
<1>6. calls' = calls
  BY DEF MY!RecvPacket
<1>7. \/ \E n, rows, last : Plan(kind, a, n, rows, last) /\ Follows(kind, a, c, n, rows, last)
      \/ kind = "prepare" /\ \E x, f : PreparePlan(a, x, f) /\ PrepareFollows(c, x, f)
  BY <1>3 DEF At
<1>8. ASSUME NEW n, NEW rows, NEW last, Plan(kind, a, n, rows, last),
             Follows(kind, a, c, n, rows, last)
      PROVE  \/ /\ c + 1 < Len(a.packets) /\ At(k, c + 1)' /\ UNCHANGED <<queue, results>>
             \/ /\ c + 1 = Len(a.packets)
                /\ \E v : SaidSo(kind, a.outcome, v) /\ MY!Finish(a.outcome.how, v)
  <2>1. \/ /\ c + 1 < Len(a.packets) /\ Follows(kind, a, c + 1, n, rows, last)'
           /\ UNCHANGED <<queue, results>>
        \/ /\ c + 1 = Len(a.packets)
           /\ \E v : SaidSo(kind, a.outcome, v) /\ MY!Finish(a.outcome.how, v)
    BY <1>3, <1>4, <1>5, <1>8, AnswerStep
  <2>2. ASSUME c + 1 < Len(a.packets), Follows(kind, a, c + 1, n, rows, last)'
        PROVE  At(k, c + 1)'
    <3>1. c + 1 \in 0 .. Len(a.packets) - 1
      <4>1. Len(a.packets) \in Nat
        BY DEF Said
      <4> QED
        BY <2>2, <4>1
    <3> QED
      BY <1>3, <1>6, <1>8, <2>2, <3>1 DEF At
  <2> QED
    BY <2>1, <2>2
<1>9. ASSUME NEW x, NEW f, kind = "prepare", PreparePlan(a, x, f), PrepareFollows(c, x, f)
      PROVE  \/ /\ c + 1 < Len(a.packets) /\ At(k, c + 1)' /\ UNCHANGED <<queue, results>>
             \/ /\ c + 1 = Len(a.packets)
                /\ \E v : SaidSo(kind, a.outcome, v) /\ MY!Finish(a.outcome.how, v)
  <2>1. Taken("prepare", p)
    BY <1>5, <1>9
  <2>2. \/ /\ c + 1 < Len(a.packets) /\ PrepareFollows(c + 1, x, f)'
           /\ UNCHANGED <<queue, results>>
        \/ c + 1 = Len(a.packets) /\ MY!Finish("ok", << << <<x, f>> >> >>)
    BY <1>3, <1>4, <1>9, <2>1, PrepareStep
  <2>3. ASSUME c + 1 < Len(a.packets), PrepareFollows(c + 1, x, f)'
        PROVE  At(k, c + 1)'
    <3>1. c + 1 \in 0 .. Len(a.packets) - 1
      <4>1. Len(a.packets) \in Nat
        BY DEF Said
      <4> QED
        BY <2>3, <4>1
    <3> QED
      BY <1>3, <1>6, <1>9, <2>3, <3>1 DEF At
  <2>4. PICK v : v = << << <<x, f>> >> >>
    OBVIOUS
  <2>5. x \in Int /\ f \in Int /\ a.outcome = MY!Outcome("ok", v)
    BY <1>9, <2>4 DEF PreparePlan
  <2>6. /\ v \in Seq(RowsRead) /\ v[1][1] = <<x, f>> /\ Len(v) = 1 /\ Len(v[1]) = 1
    BY <2>4, <2>5, NumbersFacts
  <2>7. a.outcome.how = "ok" /\ a.outcome.value = v
    BY <2>5 DEF MY!Outcome
  <2>8. SaidSo(kind, a.outcome, v)
    <3>1. Read(kind, v[1][1], v[1][1])
      BY <1>9 DEF Read
    <3>2. Fits(kind, v[1], v[1])
      BY <2>6, <3>1 DEF Fits
    <3> QED
      BY <2>6, <2>7, <3>2, SMTT(40) DEF SaidSo
  <2> QED
    BY <2>2, <2>3, <2>4, <2>7, <2>8
<1> QED
  BY <1>3, <1>7, <1>8, <1>9

\* What a packet does to the calls: nothing, or the first one returns.
LEMMA Shape ==
  ASSUME MY!RecvPacket
  PROVE  \/ UNCHANGED <<queue, results>>
         \/ \E how, v : MY!Finish(how, v)
<1>1. PICK kind, p : Taken(kind, p)
  BY DEF MY!RecvPacket, Taken
<1>2. ASSUME NEW n, NEW x, NEW f, MY!Columns(n, x, f)
      PROVE  UNCHANGED <<queue, results>> \/ \E how, v : MY!Finish(how, v)
  BY <1>2 DEF MY!Columns, MY!Goto
<1>3. CASE pc = "first"
  <2>1. MY!First(kind, p)
    BY <1>1, <1>3 DEF Taken
  <2> QED
    BY <1>2, <2>1 DEF MY!First, MY!Goto
<1>4. CASE pc = "fields"
  <2>1. MY!FieldPacket(kind, p)
    BY <1>1, <1>4 DEF Taken
  <2> QED
    BY <2>1 DEF MY!FieldPacket, MY!Goto
<1>5. CASE pc = "rows"
  <2>1. MY!RowPacket(kind, p)
    BY <1>1, <1>5 DEF Taken
  <2> QED
    BY <2>1 DEF MY!RowPacket, MY!Goto
<1>6. CASE pc \notin {"first", "fields", "rows"}
  <2>1. MY!PreparePacket(p)
    BY <1>1, <1>6 DEF Taken
  <2> QED
    BY <1>2, <2>1 DEF MY!PreparePacket, MY!Goto
<1> QED
  BY <1>3, <1>4, <1>5, <1>6

\* The tail of a sequence.
LEMMA TailFacts ==
  ASSUME NEW S, NEW s \in Seq(S), s # << >>, NEW t, t = Tail(s)
  PROVE  /\ t \in Seq(S) /\ Len(t) = Len(s) - 1
         /\ \A j \in 1 .. Len(t) : t[j] = s[j + 1] /\ j + 1 \in 1 .. Len(s)
<1>1. t \in Seq(S) /\ Len(t) = Len(s) - 1 /\ \A j \in 1 .. Len(s) - 1 : t[j] = s[j + 1]
  BY HeadTailProperties
<1>2. Len(s) \in Nat
  OBVIOUS
<1>3. \A j \in 1 .. Len(s) - 1 : j + 1 \in 1 .. Len(s)
  BY <1>2
<1> QED
  BY <1>1, <1>3

\* What the return of the first call changes.
LEMMA FinishFacts ==
  ASSUME MysqlTypes, queue # << >>, NEW how, NEW v, MY!Finish(how, v), NEW k, k = queue[1]
  PROVE  /\ k \in 1 .. Len(calls)
         /\ queue' \in Seq(1 .. Len(calls)) /\ Len(queue') = Len(queue) - 1
         /\ \A j \in 1 .. Len(queue') : queue'[j] = queue[j + 1] /\ j + 1 \in 1 .. Len(queue)
         /\ (\E S : results' \in Seq(S)) /\ Len(results') = Len(calls)
         /\ results'[k] = MY!Outcome(how, v)
         /\ \A i \in 1 .. Len(calls) : i # k => results'[i] = results[i]
         /\ pc' = "first" /\ left' = 0 /\ value' = << >>
<1>1. queue \in Seq(1 .. Len(calls)) /\ Len(results) = Len(calls)
  BY DEF MysqlTypes
<1>2. k \in 1 .. Len(calls) /\ Head(queue) = k
  BY <1>1
<1>3. PICK q : q = queue'
  OBVIOUS
<1>4. q = Tail(queue)
  BY <1>3 DEF MY!Finish
<1>5. /\ q \in Seq(1 .. Len(calls)) /\ Len(q) = Len(queue) - 1
      /\ \A j \in 1 .. Len(q) : q[j] = queue[j + 1] /\ j + 1 \in 1 .. Len(queue)
  BY <1>1, <1>4, TailFacts
<1>6. PICK S : results \in Seq(S)
  BY DEF MysqlTypes
<1>7. PICK n \in Nat : n = Len(calls)
  <2>1. Len(calls) \in Nat
    BY DEF MysqlTypes
  <2> QED
    BY <2>1
<1>8. results \in [1 .. n -> S]
  <2>1. results \in [1 .. Len(results) -> S]
    BY <1>6, LenProperties
  <2> QED
    BY <1>1, <1>7, <2>1
<1>9. PICK x : x = MY!Outcome(how, v)
  OBVIOUS
<1>10. results' = [results EXCEPT ![k] = x]
  BY <1>2, <1>9 DEF MY!Finish
<1>11. results \in [1 .. n -> S \cup {x}] /\ k \in 1 .. n
  BY <1>2, <1>7, <1>8
<1>12. /\ results' \in [1 .. n -> S \cup {x}] /\ results'[k] = x
       /\ \A i \in 1 .. n : i # k => results'[i] = results[i]
  BY <1>10, <1>11
<1>13. results' \in Seq(S \cup {x}) /\ Len(results') = n
  BY <1>12
<1>14. pc' = "first" /\ left' = 0 /\ value' = << >>
  BY DEF MY!Finish
<1> QED
  BY <1>2, <1>3, <1>5, <1>7, <1>9, <1>12, <1>13, <1>14

\* The types after a step that adds no call.
LEMMA TypesKept ==
  ASSUME MysqlTypes, calls' = calls,
         \/ UNCHANGED <<queue, results>>
         \/ queue # << >> /\ \E how, v : MY!Finish(how, v),
         coming' \in Seq([packet : Packets, no : Int]),
         linked' \in BOOLEAN, linked' \/ coming' = << >>, packet_no' \in Int
  PROVE  MysqlTypes'
<1>1. \A i : calls'[i] = calls[i]
  OBVIOUS
<1>2. CASE UNCHANGED <<queue, results>>
  <2>1. \A i : PacketsOf(i)' = PacketsOf(i)
    BY <1>2 DEF PacketsOf
  <2> QED
    BY <1>2, <2>1 DEF MysqlTypes
<1>3. ASSUME NEW how, NEW v, queue # << >>, MY!Finish(how, v)
      PROVE  MysqlTypes'
  <2>1. PICK k : k = queue[1]
    OBVIOUS
  <2>2. /\ queue' \in Seq(1 .. Len(calls)) /\ Len(queue') = Len(queue) - 1
        /\ \A j \in 1 .. Len(queue') : queue'[j] = queue[j + 1] /\ j + 1 \in 1 .. Len(queue)
        /\ (\E S : results' \in Seq(S)) /\ Len(results') = Len(calls)
    BY <1>3, <2>1, FinishFacts
  <2>3. \A i, j \in 1 .. Len(queue') : i < j => queue'[i] < queue'[j]
    <3> SUFFICES ASSUME NEW i \in 1 .. Len(queue'), NEW j \in 1 .. Len(queue'), i < j
                 PROVE  queue'[i] < queue'[j]
      OBVIOUS
    <3>1. i + 1 < j + 1 /\ i + 1 \in 1 .. Len(queue) /\ j + 1 \in 1 .. Len(queue)
      BY <2>2
    <3>2. queue[i + 1] < queue[j + 1]
      BY <3>1 DEF MysqlTypes
    <3> QED
      BY <2>2, <3>2
  <2>4. ASSUME NEW i \in 1 .. Len(queue')
        PROVE  calls'[queue'[i]].kind # "close" /\ PacketsOf(i)' # << >>
    <3>1. queue'[i] = queue[i + 1] /\ i + 1 \in 1 .. Len(queue)
      BY <2>2
    <3>2. calls[queue[i + 1]].kind # "close" /\ PacketsOf(i + 1) # << >>
      BY <3>1 DEF MysqlTypes
    <3> QED
      BY <3>1, <3>2 DEF PacketsOf
  <2>5. /\ calls' \in Seq([kind : MY!Kind, seq : Int, answer : Said])
        /\ \A i \in 1 .. Len(calls') : calls'[i].answer.torn \/ calls'[i].kind = "close"
                                       \/ Answered(calls'[i].kind, calls'[i].answer)
    BY DEF MysqlTypes
  <2>6. queue' \in Seq(1 .. Len(calls')) /\ Len(results') = Len(calls')
    BY <2>2
  <2> QED
    BY <2>2, <2>3, <2>4, <2>5, <2>6 DEF MysqlTypes
<1> QED
  BY <1>2, <1>3

\* What a call returned, in two parts.
LEMMA SaysParts ==
  ASSUME NEW k
  PROVE  /\ MY!SaysSo(k) <=> (~ linked /\ CutShort(calls[k], results[k])) \/ SaysAll(calls[k], results[k])
         /\ MY!SaysSo(k)' <=> \/ ~ linked' /\ CutShort(calls'[k], results'[k])
                            \/ SaysAll(calls'[k], results'[k])
<1>1. MY!SaysSo(k) <=> (~ linked /\ CutShort(calls[k], results[k])) \/ SaysAll(calls[k], results[k])
  BY DEF MY!SaysSo, CutShort, SaysAll, Read
<1>2. MY!SaysSo(k)' <=> \/ ~ linked' /\ CutShort(calls'[k], results'[k])
                       \/ SaysAll(calls'[k], results'[k])
  BY DEF MY!SaysSo, CutShort, SaysAll, Read
<1> QED
  BY <1>1, <1>2

\* Nobody's answer changes what another call returned.
LEMMA OwnKept ==
  ASSUME MysqlTypes, MY!AnswersAreOwn, calls' = calls,
         ~ linked => ~ linked',
         \/ UNCHANGED <<queue, results>>
         \/ \E how, v, k :
              /\ queue # << >> /\ k = queue[1] /\ MY!Finish(how, v)
              /\ how \in {"ok", "error"} /\ ~ MY!Torn(k) => MY!SaysSo(k)'
  PROVE  MY!AnswersAreOwn'
<1>1. \A i : MY!Torn(i)' = MY!Torn(i)
  BY DEF MY!Torn
<1>2. ASSUME NEW i, results'[i] = results[i], MY!SaysSo(i) PROVE MY!SaysSo(i)'
  BY <1>2, SaysParts
<1>3. \E S : results \in Seq(S) /\ Len(results) = Len(calls)
  BY DEF MysqlTypes
<1>4. CASE UNCHANGED <<queue, results>>
  BY <1>1, <1>2, <1>4 DEF MY!AnswersAreOwn
<1>5. ASSUME NEW how, NEW v, NEW k, queue # << >>, k = queue[1], MY!Finish(how, v),
             how \in {"ok", "error"} /\ ~ MY!Torn(k) => MY!SaysSo(k)'
      PROVE  MY!AnswersAreOwn'
  <2>1. /\ k \in 1 .. Len(calls) /\ (\E S : results' \in Seq(S)) /\ Len(results') = Len(calls)
        /\ results'[k] = MY!Outcome(how, v)
        /\ \A i \in 1 .. Len(calls) : i # k => results'[i] = results[i]
    BY <1>5, FinishFacts
  <2>2. DOMAIN results' = 1 .. Len(calls)
    BY <2>1
  <2>3. DOMAIN results = 1 .. Len(calls)
    BY <1>3
  <2> SUFFICES ASSUME NEW i \in 1 .. Len(calls),
                      results'[i].how \in {"ok", "error"}, ~ MY!Torn(i)'
               PROVE  MY!SaysSo(i)'
    BY <2>2 DEF MY!AnswersAreOwn
  <2>4. CASE i = k
    <3>1. results'[i].how = how
      BY <2>1, <2>4 DEF MY!Outcome
    <3> QED
      BY <1>1, <1>5, <2>4, <3>1
  <2>5. CASE i # k
    BY <1>1, <1>2, <2>1, <2>3, <2>5 DEF MY!AnswersAreOwn
  <2> QED
    BY <2>4, <2>5
<1> QED
  BY <1>4, <1>5

\* What is returned as it was said is the call's own answer.
LEMMA SaysIt ==
  ASSUME MysqlTypes, NEW k \in 1 .. Len(calls), calls' = calls, NEW v,
         SaidSo(calls[k].kind, calls[k].answer.outcome, v),
         results'[k] = MY!Outcome(calls[k].answer.outcome.how, v)
  PROVE  MY!SaysSo(k)'
<1>1. PICK kind, said : kind = calls[k].kind /\ said = calls[k].answer.outcome
  OBVIOUS
<1>2. calls[k] \in [kind : MY!Kind, seq : Int, answer : Said]
  BY ElementOfSeq DEF MysqlTypes
<1>3. said.value \in Seq(Seq(Pairs))
  BY <1>1, <1>2 DEF Said
<1>4. results'[k].how = said.how /\ results'[k].value = v
  BY <1>1 DEF MY!Outcome
<1>5. /\ Len(v) = Len(said.value)
      /\ \A i \in 1 .. Len(said.value) : Fits(kind, v[i], said.value[i])
  BY <1>1 DEF SaidSo
<1>6. ASSUME NEW i \in DOMAIN said.value
      PROVE  /\ Len(v[i]) = Len(said.value[i])
             /\ \A j \in DOMAIN said.value[i] : Read(kind, v[i][j], said.value[i][j])
  <2>1. i \in 1 .. Len(said.value) /\ said.value[i] \in Seq(Pairs)
    BY <1>3, ElementOfSeq
  <2>2. Fits(kind, v[i], said.value[i])
    BY <1>5, <2>1
  <2>3. DOMAIN said.value[i] = 1 .. Len(said.value[i])
    BY <2>1
  <2> QED
    BY <2>2, <2>3 DEF Fits
<1>7. \A i \in DOMAIN said.value :
        /\ Len(v[i]) = Len(said.value[i])
        /\ \A j \in DOMAIN said.value[i] :
             LET r == said.value[i][j]
             IN  CASE kind = "query" -> v[i][j] = MY!TextRow(r)
                   [] kind = "execute" -> r[1] \notin {MY!Null, MY!Medium} => v[i][j] = r
                   [] OTHER -> v[i][j] = r
  BY <1>6 DEF Read
<1>8. calls'[k].kind = kind /\ calls'[k].answer.outcome = said
  BY <1>1
<1> QED
  BY <1>4, <1>5, <1>7, <1>8 DEF MY!SaysSo

\* A call whose answer is the next to be read.
LEMMA Starts ==
  ASSUME NEW k, NEW kind, NEW a \in Said, a.packets # << >>, Answered(kind, a),
         calls'[k].kind = kind, calls'[k].answer = a,
         pc' = "first", left' = 0, value' = << >>
  PROVE  At(k, 0)'
<1>1. PICK m \in Nat : m = Len(a.packets) /\ m > 0
  <2>1. a.packets \in Seq(Packets)
    BY DEF Said
  <2> QED
    BY <2>1
<1>2. 0 \in 0 .. Len(a.packets) - 1
  BY <1>1
<1>3. ASSUME NEW n, NEW rows, NEW last, Plan(kind, a, n, rows, last)
      PROVE  Follows(kind, a, 0, n, rows, last)'
  <2>1. n \in 0 .. m - 1
    BY <1>1, <1>3 DEF Plan
  <2>2. Within(kind, 0, << >>, rows)' /\ Within(kind, 0, << >>, last)'
    BY DEF Within
  <2>3. CASE 0 < n
    BY <2>2, <2>3 DEF Follows
  <2>4. CASE n = 0
    <3>1. << >> \in Seq(RowsRead) /\ Len(<< >>) = 0 /\ 0 - n = 0 /\ 0 >= n /\ ~ n > 0
      BY <2>4
    <3> QED
      BY <2>2, <3>1 DEF Follows
  <2> QED
    BY <2>1, <2>3, <2>4
<1>4. ASSUME NEW p, NEW f
      PROVE  PrepareFollows(0, p, f)'
  BY DEF PrepareFollows
<1> QED
  BY <1>2, <1>3, <1>4 DEF At, Answered

-----------------------------------------------------------------------------
\* The calls in the queue.
LEMMA QueueFacts ==
  ASSUME MysqlTypes, NEW i \in 1 .. Len(queue)
  PROVE  /\ queue[i] \in 1 .. Len(calls) /\ calls[queue[i]].answer \in Said
         /\ calls[queue[i]].kind \in MY!Kind
         /\ PacketsOf(i) \in Seq(Packets) /\ Len(PacketsOf(i)) \in Nat /\ Len(PacketsOf(i)) > 0
<1>1. queue[i] \in 1 .. Len(calls)
  BY ElementOfSeq DEF MysqlTypes
<1>2. calls[queue[i]] \in [kind : MY!Kind, seq : Int, answer : Said]
  BY <1>1, ElementOfSeq DEF MysqlTypes
<1>3. PICK P : P = PacketsOf(i)
  OBVIOUS
<1>4. P \in Seq(Packets)
  BY <1>2, <1>3 DEF Said, PacketsOf
<1>5. P # << >>
  BY <1>3 DEF MysqlTypes
<1>6. Len(P) \in Nat /\ Len(P) > 0
  BY <1>4, <1>5
<1> QED
  BY <1>1, <1>2, <1>3, <1>4, <1>6

\* A packet is read of the first answer, which goes on.
LEMMA ArrangedOn ==
  ASSUME MysqlTypes, NEW c \in Nat, NEW off, Arranged(c, off), coming # << >>,
         calls' = calls, queue' = queue, coming' = Tail(coming)
  PROVE  \E o : Arranged(c + 1, o)'
<1>1. PICK n \in Nat, m \in Nat : n = Len(queue) /\ m = Len(coming)
  BY DEF MysqlTypes
<1>2. PICK w : w = coming'
  OBVIOUS
<1>3. /\ Len(w) = m - 1 /\ m > 0
      /\ \A j \in 1 .. m - 1 : w[j] = coming[j + 1]
  <2>1. w = Tail(coming) /\ coming \in Seq([packet : Packets, no : Int])
    BY <1>2 DEF MysqlTypes
  <2>2. Len(w) = Len(coming) - 1 /\ \A j \in 1 .. Len(w) : w[j] = coming[j + 1]
    BY <2>1, TailFacts
  <2>3. m > 0
    BY <1>1, <2>1
  <2> QED
    BY <1>1, <2>2, <2>3
<1>4. /\ off \in [1 .. n + 1 -> Int] /\ off[1] = 0 - c /\ off[n + 1] = m
      /\ \A i \in 1 .. n :
           /\ off[i + 1] = off[i] + Len(PacketsOf(i)) /\ off[i + 1] <= m
           /\ \A j \in 1 .. Len(PacketsOf(i)) :
                off[i] + j >= 1 => coming[off[i] + j].packet = PacketsOf(i)[j]
  BY <1>1 DEF Arranged
<1>5. PICK o : o = [i \in 1 .. n + 1 |-> off[i] - 1]
  OBVIOUS
<1>6. /\ o \in [1 .. n + 1 -> Int] /\ o[1] = 0 - (c + 1) /\ o[n + 1] = m - 1
      /\ \A i \in 1 .. n + 1 : o[i] = off[i] - 1
  BY <1>4, <1>5
<1>7. ASSUME NEW i \in 1 .. n
      PROVE  /\ o[i + 1] = o[i] + Len(PacketsOf(i)) /\ o[i + 1] <= m - 1
             /\ \A j \in 1 .. Len(PacketsOf(i)) :
                  o[i] + j >= 1 => w[o[i] + j].packet = PacketsOf(i)[j]
  <2>1. i \in 1 .. Len(queue) /\ i + 1 \in 1 .. n + 1 /\ i \in 1 .. n + 1
    BY <1>1
  <2>2. Len(PacketsOf(i)) \in Nat
    BY <2>1, QueueFacts
  <2>3. PICK x \in Nat : x = Len(PacketsOf(i))
    BY <2>2
  <2>4. PICK P : P = PacketsOf(i) /\ x = Len(P)
    BY <2>3
  <2>5. off[i] \in Int /\ off[i + 1] \in Int /\ o[i] = off[i] - 1 /\ o[i + 1] = off[i + 1] - 1
    BY <1>4, <1>6, <2>1
  <2>6. off[i + 1] = off[i] + x /\ off[i + 1] <= m
    BY <1>4, <2>4
  <2>7. ASSUME NEW j \in 1 .. x, o[i] + j >= 1 PROVE w[o[i] + j].packet = P[j]
    <3>1. o[i] + j \in 1 .. m - 1 /\ (o[i] + j) + 1 = off[i] + j /\ off[i] + j >= 1
      BY <2>5, <2>6, <2>7, SMTT(40)
    <3>2. w[o[i] + j] = coming[off[i] + j]
      BY <1>3, <3>1
    <3>3. coming[off[i] + j].packet = P[j]
      BY <1>4, <2>4, <3>1
    <3> QED
      BY <3>2, <3>3
  <2> QED
    BY <2>4, <2>5, <2>6, <2>7
<1>8. \A i : PacketsOf(i)' = PacketsOf(i)
  BY DEF PacketsOf
<1>9. Len(queue') = n /\ Len(coming') = m - 1
  BY <1>1, <1>2, <1>3
<1>10. Arranged(c + 1, o)'
  BY <1>2, <1>6, <1>7, <1>8, <1>9 DEF Arranged
<1> QED
  BY <1>10

\* The last packet of the first answer is read.
LEMMA ArrangedNext ==
  ASSUME MysqlTypes, queue # << >>, NEW c \in Nat, NEW off, Arranged(c, off), coming # << >>,
         c + 1 = Len(PacketsOf(1)),
         calls' = calls, queue' = Tail(queue), coming' = Tail(coming)
  PROVE  \E o : Arranged(0, o)'
<1>1. PICK n \in Nat, m \in Nat : n + 1 = Len(queue) /\ m + 1 = Len(coming)
  <2>1. /\ Len(queue) \in Nat /\ Len(coming) \in Nat /\ Len(queue) > 0 /\ Len(coming) > 0
    BY DEF MysqlTypes
  <2>2. Len(queue) - 1 \in Nat /\ Len(coming) - 1 \in Nat
        /\ (Len(queue) - 1) + 1 = Len(queue) /\ (Len(coming) - 1) + 1 = Len(coming)
    BY <2>1
  <2> QED
    BY <2>2
<1>2. PICK w, q : w = coming' /\ q = queue'
  OBVIOUS
<1>3. /\ Len(w) = m /\ \A j \in 1 .. m : w[j] = coming[j + 1]
  <2>1. w = Tail(coming) /\ coming \in Seq([packet : Packets, no : Int])
    BY <1>2 DEF MysqlTypes
  <2>2. Len(w) = Len(coming) - 1 /\ \A j \in 1 .. Len(w) : w[j] = coming[j + 1]
    BY <2>1, TailFacts
  <2> QED
    BY <1>1, <2>2
<1>4. /\ Len(q) = n /\ \A j \in 1 .. n : q[j] = queue[j + 1]
  <2>1. q = Tail(queue) /\ queue \in Seq(1 .. Len(calls))
    BY <1>2 DEF MysqlTypes
  <2>2. Len(q) = Len(queue) - 1 /\ \A j \in 1 .. Len(q) : q[j] = queue[j + 1]
    BY <2>1, TailFacts
  <2> QED
    BY <1>1, <2>2
<1>5. /\ off \in [1 .. n + 2 -> Int] /\ off[1] = 0 - c /\ off[n + 2] = m + 1
      /\ \A i \in 1 .. n + 1 :
           /\ off[i + 1] = off[i] + Len(PacketsOf(i)) /\ off[i + 1] <= m + 1
           /\ \A j \in 1 .. Len(PacketsOf(i)) :
                off[i] + j >= 1 => coming[off[i] + j].packet = PacketsOf(i)[j]
  <2>1. (n + 1) + 1 = n + 2
    OBVIOUS
  <2> QED
    BY <1>1, <2>1 DEF Arranged
<1>6. PICK o : o = [i \in 1 .. n + 1 |-> off[i + 1] - 1]
  OBVIOUS
<1>7. /\ o \in [1 .. n + 1 -> Int] /\ o[1] = 0 /\ o[n + 1] = m
      /\ \A i \in 1 .. n + 1 : o[i] = off[i + 1] - 1
  <2>1. \A i \in 1 .. n + 1 : i + 1 \in 1 .. n + 2
    OBVIOUS
  <2>2. o \in [1 .. n + 1 -> Int] /\ \A i \in 1 .. n + 1 : o[i] = off[i + 1] - 1
    BY <1>5, <1>6, <2>1, SMTT(40)
  <2>3. off[1 + 1] = off[1] + Len(PacketsOf(1))
    BY <1>5
  <2>4. o[1] = 0
    BY <1>5, <2>2, <2>3
  <2>5. o[n + 1] = m
    BY <1>5, <2>2
  <2> QED
    BY <2>2, <2>4, <2>5
<1>8. ASSUME NEW i \in 1 .. n
      PROVE  /\ o[i + 1] = o[i] + Len(PacketsOf(i + 1)) /\ o[i + 1] <= m
             /\ \A j \in 1 .. Len(PacketsOf(i + 1)) :
                  o[i] + j >= 1 => w[o[i] + j].packet = PacketsOf(i + 1)[j]
  <2>1. i + 1 \in 1 .. Len(queue)
    BY <1>1
  <2>2. Len(PacketsOf(i + 1)) \in Nat
    BY <2>1, QueueFacts
  <2>3. PICK x \in Nat : x = Len(PacketsOf(i + 1))
    BY <2>2
  <2>4. PICK P : P = PacketsOf(i + 1) /\ x = Len(P)
    BY <2>3
  <2>5. i + 1 \in 1 .. n + 2 /\ (i + 1) + 1 \in 1 .. n + 2
    OBVIOUS
  <2>6. off[i + 1] \in Int /\ off[(i + 1) + 1] \in Int
    BY <1>5, <2>5
  <2>7. PICK y \in Int, z \in Int : y = off[i + 1] /\ z = off[(i + 1) + 1]
    BY <2>6
  <2>8. o[i] = y - 1 /\ o[i + 1] = z - 1
    BY <1>7, <2>7, SMTT(40)
  <2>9. i + 1 \in 1 .. n + 1
    OBVIOUS
  <2>10. z = y + x /\ z <= m + 1
    BY <1>5, <2>4, <2>7, <2>9
  <2>11. ASSUME NEW j \in 1 .. x, o[i] + j >= 1 PROVE w[o[i] + j].packet = P[j]
    <3>1. o[i] + j \in 1 .. m /\ (o[i] + j) + 1 = y + j /\ y + j >= 1
      BY <2>8, <2>10, <2>11
    <3>2. w[o[i] + j] = coming[y + j]
      BY <1>3, <3>1
    <3>3. coming[y + j].packet = P[j]
      BY <1>5, <2>4, <2>7, <2>9, <3>1
    <3> QED
      BY <3>2, <3>3
  <2> QED
    BY <2>4, <2>8, <2>10, <2>11
<1>9. \A i \in 1 .. n : PacketsOf(i)' = PacketsOf(i + 1)
  BY <1>2, <1>4 DEF PacketsOf
<1>10. Len(queue') = n /\ Len(coming') = m
  BY <1>2, <1>3, <1>4
<1>11. Arranged(0, o)'
  <2>1. o[1] = 0 - 0
    BY <1>7
  <2>2. ASSUME NEW i \in 1 .. n
        PROVE  /\ o[i + 1] = o[i] + Len(PacketsOf(i)') /\ o[i + 1] <= m
               /\ \A j \in 1 .. Len(PacketsOf(i)') :
                    o[i] + j >= 1 => w[o[i] + j].packet = (PacketsOf(i)')[j]
    BY <1>8, <1>9
  <2> QED
    BY <1>2, <1>7, <1>10, <2>1, <2>2 DEF Arranged
<1> QED
  BY <1>11

\* The packets of an answer, numbered.
LEMMA NumberedFacts ==
  ASSUME NEW P \in Seq(Packets), NEW s \in Int, NEW q, q = MY!Numbered(P, s)
  PROVE  /\ q \in Seq([packet : Packets, no : Int]) /\ Len(q) = Len(P)
         /\ \A j \in 1 .. Len(P) : q[j].packet = P[j]
<1>1. PICK n \in Nat : n = Len(P)
  OBVIOUS
<1>2. DOMAIN P = 1 .. n /\ \A j \in 1 .. n : P[j] \in Packets
  BY <1>1
<1>3. q = [j \in 1 .. n |-> [packet |-> P[j], no |-> s + j]]
  BY <1>2 DEF MY!Numbered
<1>4. q \in [1 .. n -> [packet : Packets, no : Int]] /\ \A j \in 1 .. n : q[j].packet = P[j]
  <2>1. \A j \in 1 .. n : [packet |-> P[j], no |-> s + j] \in [packet : Packets, no : Int]
    BY <1>2
  <2> QED
    BY <1>3, <2>1
<1>5. q \in Seq([packet : Packets, no : Int]) /\ Len(q) = n
  <2>1. PICK R : R = [packet : Packets, no : Int]
    OBVIOUS
  <2>2. q \in [1 .. n -> R]
    BY <1>4, <2>1
  <2>3. q \in Seq(R) /\ Len(q) = n
    BY <2>2
  <2> QED
    BY <2>1, <2>3
<1> QED
  BY <1>1, <1>4, <1>5

\* An answer joins what is on its way.
LEMMA ComingJoined ==
  ASSUME coming \in Seq([packet : Packets, no : Int]), NEW q \in Seq([packet : Packets, no : Int]),
         NEW w, w = coming \o q
  PROVE  /\ w \in Seq([packet : Packets, no : Int])
         /\ Len(w) = Len(coming) + Len(q)
         /\ \A j \in 1 .. Len(coming) : w[j] = coming[j]
         /\ \A j \in 1 .. Len(q) : w[Len(coming) + j] = q[j]
<1>1. PICK R, s : R = [packet : Packets, no : Int] /\ s = coming
  OBVIOUS
<1>2. s \in Seq(R) /\ q \in Seq(R)
  BY <1>1
<1>3. w = s \o q
  BY <1>1
<1>4. /\ w \in Seq(R) /\ Len(w) = Len(s) + Len(q)
      /\ \A j \in 1 .. Len(s) : w[j] = s[j]
      /\ \A j \in 1 .. Len(q) : w[Len(s) + j] = q[j]
  BY <1>2, <1>3, JoinPlaces
<1> QED
  BY <1>1, <1>4

\* A call joins the queue, and its answer what is on its way.
LEMMA ArrangedMore ==
  ASSUME MysqlTypes, NEW c \in Nat, NEW off, Arranged(c, off),
         NEW P \in Seq(Packets), NEW q \in Seq([packet : Packets, no : Int]), Len(q) = Len(P),
         \A j \in 1 .. Len(P) : q[j].packet = P[j],
         coming' = coming \o q, NEW k, queue' = Append(queue, k),
         \A i \in 1 .. Len(queue) : PacketsOf(i)' = PacketsOf(i),
         NEW g, g = Len(queue) + 1, PacketsOf(g)' = P
  PROVE  \E o : Arranged(c, o)'
<1>1. PICK n \in Nat, m \in Nat : n = Len(queue) /\ m = Len(coming)
  BY DEF MysqlTypes
<1>2. PICK l \in Nat : l = Len(P)
  OBVIOUS
<1>3. PICK w : w = coming' /\ l = Len(P)
  BY <1>2
<1>4. /\ Len(w) = m + l
      /\ \A j \in 1 .. m : w[j] = coming[j]
      /\ \A j \in 1 .. l : w[m + j] = q[j]
  <2>1. w = coming \o q
    BY <1>3
  <2>2. /\ Len(w) = Len(coming) + Len(q)
        /\ \A j \in 1 .. Len(coming) : w[j] = coming[j]
        /\ \A j \in 1 .. Len(q) : w[Len(coming) + j] = q[j]
    <3>1. coming \in Seq([packet : Packets, no : Int])
      BY DEF MysqlTypes
    <3> QED
      BY <2>1, <3>1, ComingJoined
  <2> QED
    BY <1>1, <1>3, <2>2
<1>5. /\ off \in [1 .. n + 1 -> Int] /\ off[1] = 0 - c /\ off[n + 1] = m
      /\ \A i \in 1 .. n :
           /\ off[i + 1] = off[i] + Len(PacketsOf(i)) /\ off[i + 1] <= m
           /\ \A j \in 1 .. Len(PacketsOf(i)) :
                off[i] + j >= 1 => coming[off[i] + j].packet = PacketsOf(i)[j]
  BY <1>1 DEF Arranged
<1>6. PICK o : o = [i \in 1 .. n + 2 |-> IF i = n + 2 THEN m + l ELSE off[i]]
  OBVIOUS
<1>7. /\ o \in [1 .. n + 2 -> Int] /\ o[n + 2] = m + l
      /\ \A i \in 1 .. n + 1 : o[i] = off[i]
  <2>1. \A i \in 1 .. n + 2 : i # n + 2 => i \in 1 .. n + 1
    OBVIOUS
  <2> QED
    BY <1>5, <1>6, <2>1
<1>8. o[1] = 0 - c /\ o[n + 1] = m
  BY <1>5, <1>7
<1>9. ASSUME NEW i \in 1 .. n
      PROVE  /\ o[i + 1] = o[i] + Len(PacketsOf(i)) /\ o[i + 1] <= m + l
             /\ \A j \in 1 .. Len(PacketsOf(i)) :
                  o[i] + j >= 1 => w[o[i] + j].packet = PacketsOf(i)[j]
  <2>1. i \in 1 .. Len(queue) /\ i + 1 \in 1 .. n + 1 /\ i \in 1 .. n + 1
    BY <1>1
  <2>2. Len(PacketsOf(i)) \in Nat
    BY <2>1, QueueFacts
  <2>3. PICK x \in Nat : x = Len(PacketsOf(i))
    BY <2>2
  <2>4. off[i] \in Int /\ off[i + 1] \in Int /\ o[i] = off[i] /\ o[i + 1] = off[i + 1]
    BY <1>5, <1>7, <2>1
  <2>5. off[i + 1] = off[i] + x /\ off[i + 1] <= m
    BY <1>5, <2>3
  <2>6. ASSUME NEW j \in 1 .. x, o[i] + j >= 1 PROVE w[o[i] + j].packet = PacketsOf(i)[j]
    <3>1. off[i] + j \in 1 .. m /\ off[i] + j >= 1
      BY <2>4, <2>5, <2>6
    <3>2. coming[off[i] + j].packet = PacketsOf(i)[j]
      BY <1>5, <2>3, <3>1
    <3> QED
      BY <1>4, <2>4, <3>1, <3>2
  <2> QED
    BY <2>3, <2>4, <2>5, <2>6
<1>10. \A j \in 1 .. l : w[m + j].packet = P[j]
  BY <1>3, <1>4
<1>11. ASSUME NEW i \in 1 .. n + 1
       PROVE  /\ o[i + 1] = o[i] + Len(PacketsOf(i)') /\ o[i + 1] <= m + l
              /\ \A j \in 1 .. Len(PacketsOf(i)') :
                   o[i] + j >= 1 => w[o[i] + j].packet = (PacketsOf(i)')[j]
  <2>1. CASE i \in 1 .. n
    <3>1. PacketsOf(i)' = PacketsOf(i)
      BY <1>1, <2>1
    <3> QED
      BY <1>9, <2>1, <3>1
  <2>2. CASE i = n + 1
    <3>1. PacketsOf(i)' = P /\ Len(P) = l
      BY <1>1, <1>3, <2>2
    <3>2. o[i] = m /\ o[i + 1] = m + l
      BY <1>7, <1>8, <2>2
    <3> QED
      BY <1>10, <3>1, <3>2
  <2> QED
    BY <2>1, <2>2
<1>12. Len(queue') = n + 1 /\ Len(coming') = m + l
  <2>1. PICK z : z = queue' /\ z = Append(queue, k)
    OBVIOUS
  <2>2. queue \in Seq((1 .. Len(calls)) \cup {k})
    <3>1. queue \in [1 .. Len(queue) -> 1 .. Len(calls)]
      BY LenProperties DEF MysqlTypes
    <3>2. queue \in [1 .. n -> (1 .. Len(calls)) \cup {k}]
      BY <1>1, <3>1
    <3> QED
      BY <3>2
  <2>3. Len(z) = n + 1
    BY <1>1, <2>1, <2>2, AppendProperties
  <2> QED
    BY <1>3, <1>4, <2>1, <2>3
<1>13. Arranged(c, o)'
  <2>1. (n + 1) + 1 = n + 2
    OBVIOUS
  <2>2. /\ o \in [1 .. Len(queue') + 1 -> Int] /\ o[Len(queue') + 1] = Len(coming')
    BY <1>7, <1>12, <2>1
  <2> QED
    BY <1>3, <1>8, <1>11, <1>12, <2>2 DEF Arranged
<1> QED
  BY <1>13

\* What a call adds.
LEMMA CallFacts ==
  ASSUME MysqlTypes, NEW kind \in MY!Kind, MY!Call(kind), NEW n, n = Len(calls)
  PROVE  /\ n \in Nat /\ linked
         /\ calls' \in Seq([kind : MY!Kind, seq : Int, answer : Said]) /\ Len(calls') = n + 1
         /\ \A i \in 1 .. n : calls'[i] = calls[i]
         /\ \E a \in Said, q \in Seq([packet : Packets, no : Int]) : Asks(kind, n, a, q)
         /\ queue' = IF kind = "close" THEN queue ELSE Append(queue, n + 1)
         /\ (\E S : results' \in Seq(S)) /\ Len(results') = n + 1
         /\ \A i \in 1 .. n : results'[i] = results[i]
         /\ results'[n + 1].how \in {"written", "pending"}
         /\ packet_no' \in Int /\ UNCHANGED <<linked, pc, left, value>>
<1>1. PICK seq : seq = IF kind \in {"reset", "close"} THEN packet_no + 1 ELSE 0
  OBVIOUS
<1>2. PICK a \in MY!Answers(kind) :
        /\ calls' = Append(calls, [kind |-> kind, seq |-> seq, answer |-> a])
        /\ coming' = coming \o MY!Numbered(a.packets, seq)
  BY <1>1 DEF MY!Call
<1>3. /\ linked
      /\ queue' = IF kind = "close" THEN queue ELSE Append(queue, n + 1)
      /\ results' = Append(results, MY!Outcome(IF kind = "close" THEN "written" ELSE "pending", << >>))
      /\ packet_no' = seq /\ UNCHANGED <<linked, pc, left, value>>
  BY <1>1 DEF MY!Call, MY!respVars
<1>4. seq \in Int
  BY <1>1 DEF MysqlTypes
<1>5. /\ a \in Said
      /\ kind # "close" => a.packets # << >> /\ (a.torn \/ Answered(kind, a))
      /\ kind = "close" => a.packets = << >>
  BY AnswersFacts
<1>6. PICK R, x : R = [kind : MY!Kind, seq : Int, answer : Said]
                  /\ x = [kind |-> kind, seq |-> seq, answer |-> a]
  OBVIOUS
<1>7. x \in R /\ x.kind = kind /\ x.answer = a
  BY <1>4, <1>5, <1>6
<1>8. PICK s, t : s = calls /\ t = calls'
  OBVIOUS
<1>9. s \in Seq(R) /\ t = Append(s, x) /\ n = Len(s)
  BY <1>2, <1>6, <1>8 DEF MysqlTypes
<1>10. n \in Nat /\ t \in Seq(R) /\ Len(t) = n + 1 /\ t[n + 1] = x /\ \A i \in 1 .. n : t[i] = s[i]
  BY <1>7, <1>9
<1>11. PICK P \in Seq(Packets) : P = a.packets
  BY <1>5 DEF Said
<1>12. PICK q : q = MY!Numbered(P, seq)
  OBVIOUS
<1>13. /\ q \in Seq([packet : Packets, no : Int]) /\ Len(q) = Len(P)
       /\ \A j \in 1 .. Len(P) : q[j].packet = P[j]
  BY <1>4, <1>12, NumberedFacts
<1>14. PICK how : how = IF kind = "close" THEN "written" ELSE "pending"
  OBVIOUS
<1>15. PICK o : o = MY!Outcome(how, << >>)
  OBVIOUS
<1>16. o.how \in {"written", "pending"}
  BY <1>14, <1>15 DEF MY!Outcome
<1>17. PICK r, u, S : r = results /\ u = results' /\ r \in Seq(S)
  BY DEF MysqlTypes
<1>18. u = Append(r, o) /\ Len(r) = n
  BY <1>3, <1>14, <1>15, <1>17 DEF MysqlTypes
<1>19. r \in [1 .. n -> S]
  <2>1. r \in [1 .. Len(r) -> S]
    BY <1>17, LenProperties
  <2> QED
    BY <1>18, <2>1
<1>20. r \in Seq(S \cup {o})
  <2>1. r \in [1 .. n -> S \cup {o}]
    BY <1>19
  <2> QED
    BY <1>10, <2>1
<1>21. u \in Seq(S \cup {o}) /\ Len(u) = n + 1 /\ u[n + 1] = o /\ \A i \in 1 .. n : u[i] = r[i]
  BY <1>10, <1>18, <1>20, AppendProperties
<1>22. /\ (\E T : results' \in Seq(T)) /\ Len(results') = n + 1
       /\ \A i \in 1 .. n : results'[i] = results[i]
       /\ results'[n + 1].how \in {"written", "pending"}
  BY <1>16, <1>17, <1>21
<1>23. /\ calls' \in Seq(R) /\ Len(calls') = n + 1 /\ calls'[n + 1].kind = kind
       /\ calls'[n + 1].answer = a
       /\ \A i \in 1 .. n : calls'[i] = calls[i]
  BY <1>7, <1>8, <1>10
<1>24. coming' = coming \o q
  BY <1>2, <1>11, <1>12
<1>25. Asks(kind, n, a, q)
  BY <1>5, <1>11, <1>13, <1>23, <1>24 DEF Asks
<1> QED
  BY <1>3, <1>4, <1>5, <1>6, <1>10, <1>13, <1>22, <1>23, <1>25

\* A call joins the queue.
LEMMA QueueMore ==
  ASSUME MysqlTypes, NEW n \in Nat, n = Len(calls), NEW s, s = Append(queue, n + 1),
         NEW m \in Nat, m = Len(queue)
  PROVE  /\ queue \in Seq(1 .. n + 1) /\ s \in Seq(1 .. n + 1)
         /\ Len(s) = m + 1 /\ s[m + 1] = n + 1 /\ \A i \in 1 .. m : s[i] = queue[i]
<1>1. queue \in [1 .. m -> 1 .. n]
  <2>1. queue \in [1 .. Len(queue) -> 1 .. Len(calls)]
    BY LenProperties DEF MysqlTypes
  <2> QED
    BY <2>1
<1>2. queue \in Seq(1 .. n + 1)
  <2>1. \A i \in 1 .. m : queue[i] \in 1 .. n + 1
    BY <1>1
  <2>2. queue \in [1 .. m -> 1 .. n + 1]
    BY <1>1, <2>1
  <2> QED
    BY <2>2
<1>3. n + 1 \in 1 .. n + 1
  OBVIOUS
<1>4. /\ s \in Seq(1 .. n + 1) /\ Len(s) = m + 1 /\ s[m + 1] = n + 1
      /\ \A i \in 1 .. m : s[i] = queue[i]
  BY <1>2, <1>3, AppendProperties
<1> QED
  BY <1>2, <1>4

\* The types after a call.
LEMMA CallTypes ==
  ASSUME MysqlTypes, NEW kind \in MY!Kind, MY!Call(kind)
  PROVE  MysqlTypes'
<1>1. PICK n, m : n = Len(calls) /\ m = Len(queue)
  OBVIOUS
<1>2. n \in Nat /\ m \in Nat
  BY <1>1 DEF MysqlTypes
<1>3. /\ linked
      /\ calls' \in Seq([kind : MY!Kind, seq : Int, answer : Said]) /\ Len(calls') = n + 1
      /\ \A i \in 1 .. n : calls'[i] = calls[i]
      /\ queue' = IF kind = "close" THEN queue ELSE Append(queue, n + 1)
      /\ (\E S : results' \in Seq(S)) /\ Len(results') = n + 1
      /\ packet_no' \in Int /\ linked' = linked
  BY <1>1, CallFacts
<1>4. PICK a \in Said, q \in Seq([packet : Packets, no : Int]) : Asks(kind, n, a, q)
  BY <1>1, CallFacts
<1>5. /\ kind # "close" => a.packets # << >> /\ (a.torn \/ Answered(kind, a))
      /\ calls'[n + 1].kind = kind /\ calls'[n + 1].answer = a
      /\ coming' = coming \o q
  BY <1>4 DEF Asks
<1>6. ASSUME NEW i \in 1 .. n + 1
      PROVE  calls'[i].answer.torn \/ calls'[i].kind = "close" \/ Answered(calls'[i].kind, calls'[i].answer)
  <2>1. CASE i \in 1 .. n
    BY <1>1, <1>3, <2>1 DEF MysqlTypes
  <2>2. CASE i = n + 1
    BY <1>5, <2>2
  <2> QED
    BY <1>2, <2>1, <2>2
<1>7. coming' \in Seq([packet : Packets, no : Int])
  <2>1. PICK w : w = coming'
    OBVIOUS
  <2>2. coming \in Seq([packet : Packets, no : Int]) /\ w = coming \o q
    BY <1>5, <2>1 DEF MysqlTypes
  <2>3. w \in Seq([packet : Packets, no : Int])
    BY <2>2, ComingJoined
  <2> QED
    BY <2>1, <2>3
<1>8. \A i \in 1 .. m : /\ queue[i] \in 1 .. n /\ calls'[queue[i]] = calls[queue[i]]
                        /\ calls[queue[i]].kind # "close" /\ calls[queue[i]].answer.packets # << >>
  <2> TAKE i \in 1 .. m
  <2>1. queue[i] \in 1 .. n
    BY <1>1, QueueFacts
  <2>2. calls[queue[i]].kind # "close" /\ PacketsOf(i) # << >>
    BY <1>1 DEF MysqlTypes
  <2> QED
    BY <1>3, <2>1, <2>2 DEF PacketsOf
<1>9. /\ queue' \in Seq(1 .. n + 1)
      /\ \A i, j \in 1 .. Len(queue') : i < j => queue'[i] < queue'[j]
      /\ \A i \in 1 .. Len(queue') : calls'[queue'[i]].kind # "close" /\ PacketsOf(i)' # << >>
  <2>1. PICK s : s = Append(queue, n + 1)
    OBVIOUS
  <2>2. /\ queue \in Seq(1 .. n + 1) /\ s \in Seq(1 .. n + 1)
        /\ Len(s) = m + 1 /\ s[m + 1] = n + 1 /\ \A i \in 1 .. m : s[i] = queue[i]
    BY <1>1, <1>2, <2>1, QueueMore
  <2>3. CASE kind = "close"
    <3>1. queue' = queue
      BY <1>3, <2>3
    <3>2. \A i, j \in 1 .. m : i < j => queue[i] < queue[j]
      BY <1>1 DEF MysqlTypes
    <3>3. \A i \in 1 .. m : PacketsOf(i)' = calls'[queue[i]].answer.packets
      BY <3>1 DEF PacketsOf
    <3>4. Len(queue') = m
      BY <1>1, <3>1
    <3>5. ASSUME NEW i \in 1 .. m
          PROVE  calls'[queue[i]].kind # "close" /\ PacketsOf(i)' # << >>
      BY <1>8, <3>3
    <3>6. \A i \in 1 .. Len(queue') : calls'[queue'[i]].kind # "close" /\ PacketsOf(i)' # << >>
      BY <3>1, <3>4, <3>5
    <3>7. \A i, j \in 1 .. Len(queue') : i < j => queue'[i] < queue'[j]
      BY <3>1, <3>2, <3>4
    <3> QED
      BY <2>2, <3>1, <3>6, <3>7
  <2>4. CASE kind # "close"
    <3>1. queue' = s
      BY <1>3, <2>1, <2>4
    <3>2. ASSUME NEW i \in 1 .. m + 1, NEW j \in 1 .. m + 1, i < j
          PROVE  s[i] < s[j]
      <4>1. i \in 1 .. m /\ s[i] = queue[i] /\ queue[i] \in 1 .. n
        BY <1>2, <1>8, <2>2, <3>2
      <4>2. CASE j \in 1 .. m
        BY <1>1, <2>2, <3>2, <4>1, <4>2 DEF MysqlTypes
      <4>3. CASE j = m + 1
        BY <1>2, <2>2, <4>1, <4>3
      <4> QED
        BY <1>2, <4>2, <4>3
    <3>3. ASSUME NEW i \in 1 .. m + 1
          PROVE  calls'[s[i]].kind # "close" /\ calls'[s[i]].answer.packets # << >>
      <4>1. CASE i \in 1 .. m
        BY <1>8, <2>2, <4>1
      <4>2. CASE i = m + 1
        BY <1>5, <2>2, <2>4, <4>2
      <4> QED
        BY <1>2, <4>1, <4>2
    <3>4. Len(queue') = m + 1
      BY <2>2, <3>1
    <3> QED
      BY <2>2, <3>1, <3>2, <3>3, <3>4 DEF PacketsOf
  <2> QED
    BY <2>3, <2>4
<1> QED
  BY <1>3, <1>6, <1>7, <1>9 DEF MysqlTypes

\* How far an answer is read, when nothing is.
LEMMA PlaceKept ==
  ASSUME NEW k, NEW c, At(k, c), calls'[k] = calls[k], pc' = pc, left' = left, value' = value
  PROVE  At(k, c)'
<1>1. ASSUME NEW kind, NEW d, NEW before, NEW rows, Within(kind, d, before, rows)
      PROVE  Within(kind, d, before, rows)'
  BY <1>1 DEF Within
<1>2. ASSUME NEW kind, NEW a, NEW n, NEW rows, NEW last, Follows(kind, a, c, n, rows, last)
      PROVE  Follows(kind, a, c, n, rows, last)'
  BY <1>1, <1>2 DEF Follows
<1>3. ASSUME NEW p, NEW f, PrepareFollows(c, p, f)
      PROVE  PrepareFollows(c, p, f)'
  BY <1>3 DEF PrepareFollows
<1> QED
  BY <1>2, <1>3 DEF At

\* A call changes nothing of what others returned.
LEMMA CallOwn ==
  ASSUME MysqlTypes, MY!AnswersAreOwn, NEW kind \in MY!Kind, MY!Call(kind)
  PROVE  MY!AnswersAreOwn'
<1>1. PICK n : n = Len(calls)
  OBVIOUS
<1>2. /\ n \in Nat /\ linked
      /\ \A i \in 1 .. n : calls'[i] = calls[i]
      /\ (\E S : results' \in Seq(S)) /\ Len(results') = n + 1
      /\ \A i \in 1 .. n : results'[i] = results[i]
      /\ results'[n + 1].how \in {"written", "pending"}
  BY <1>1, CallFacts
<1>3. DOMAIN results' = 1 .. n + 1 /\ DOMAIN results = 1 .. n
  BY <1>1, <1>2 DEF MysqlTypes
<1> SUFFICES ASSUME NEW i \in 1 .. n + 1,
                    results'[i].how \in {"ok", "error"}, ~ MY!Torn(i)'
             PROVE  MY!SaysSo(i)'
  BY <1>3 DEF MY!AnswersAreOwn
<1>4. i \in 1 .. n
  BY <1>2
<1>5. ~ MY!Torn(i)
  BY <1>2, <1>4 DEF MY!Torn
<1>6. MY!SaysSo(i)
  BY <1>2, <1>3, <1>4, <1>5 DEF MY!AnswersAreOwn
<1>7. SaysAll(calls[i], results[i])
  BY <1>2, <1>6, SaysParts
<1>8. SaysAll(calls'[i], results'[i])
  BY <1>2, <1>4, <1>7
<1> QED
  BY <1>8, SaysParts

\* No call but the first in the queue can be torn.
LEMMA CallClear ==
  ASSUME MysqlTypes, NEW kind \in MY!Kind, MY!Call(kind), Clear', NEW n, n = Len(calls)
  PROVE  Clear /\ (queue = << >> => ~ calls'[n + 1].answer.torn)
<1>1. /\ n \in Nat /\ Len(calls') = n + 1
      /\ \A i \in 1 .. n : calls'[i] = calls[i]
      /\ queue' = IF kind = "close" THEN queue ELSE Append(queue, n + 1)
  BY CallFacts
<1>2. PICK m \in Nat : m = Len(queue)
  BY DEF MysqlTypes
<1>3. PICK s : s = Append(queue, n + 1)
  OBVIOUS
<1>4. /\ s \in Seq(1 .. n + 1)
      /\ Len(s) = m + 1 /\ s[m + 1] = n + 1 /\ \A i \in 1 .. m : s[i] = queue[i]
  BY <1>1, <1>2, <1>3, QueueMore
<1>5. s # << >>
  BY <1>2, <1>4
<1>6. CASE queue = << >>
  <2>1. m = 0
    BY <1>2, <1>6
  <2>2. MY!Torn(n + 1)' => ~ Clear'
    <3>1. CASE kind = "close"
      BY <1>1, <1>6, <3>1 DEF Clear
    <3>2. CASE kind # "close"
      <4>1. queue' = s /\ queue'[1] = n + 1
        BY <1>1, <1>3, <1>4, <2>1, <3>2
      <4> QED
        BY <1>5, <4>1 DEF Clear
    <3> QED
      BY <3>1, <3>2
  <2>3. \A i \in 1 .. n + 1 : ~ calls'[i].answer.torn
    BY <2>2 DEF MY!Torn
  <2>4. ~ MY!Torn(n)
    BY <1>1, <2>3 DEF MY!Torn
  <2>5. n + 1 \in 1 .. n + 1
    BY <1>1
  <2> QED
    BY <1>6, <2>3, <2>4, <2>5 DEF Clear
<1>7. CASE queue # << >>
  <2>1. 1 \in 1 .. m
    <3>1. Len(queue) # 0
      BY <1>7 DEF MysqlTypes
    <3> QED
      BY <1>2, <3>1
  <2>2. PICK k \in 1 .. n : k = queue[1]
    BY <1>2, <2>1, QueueFacts
  <2>3. queue' # << >> /\ queue'[1] = k
    BY <1>1, <1>3, <1>4, <1>5, <1>7, <2>1, <2>2
  <2>4. ~ MY!Torn(k)'
    BY <2>3 DEF Clear
  <2>5. \A i \in 1 .. k : i \in 1 .. n
    BY <1>1
  <2>6. ~ MY!Torn(k)
    BY <1>1, <2>4, <2>5 DEF MY!Torn
  <2> QED
    BY <1>7, <2>2, <2>6 DEF Clear
<1> QED
  BY <1>6, <1>7

\* What is on its way still belongs to the queue after a call.
LEMMA CallAligned ==
  ASSUME MysqlTypes, Clear => Aligned, NEW kind \in MY!Kind, MY!Call(kind), Clear'
  PROVE  Aligned'
<1>1. PICK n : n = Len(calls)
  OBVIOUS
<1>2. Aligned /\ (queue = << >> => ~ calls'[n + 1].answer.torn)
  BY <1>1, CallClear
<1>3. /\ n \in Nat /\ linked
      /\ \A i \in 1 .. n : calls'[i] = calls[i]
      /\ queue' = IF kind = "close" THEN queue ELSE Append(queue, n + 1)
      /\ UNCHANGED <<linked, pc, left, value>>
  BY <1>1, CallFacts
<1>4. PICK m \in Nat : m = Len(queue)
  BY DEF MysqlTypes
<1>5. PICK s : s = Append(queue, n + 1)
  OBVIOUS
<1>6. /\ queue \in Seq(1 .. n + 1) /\ s \in Seq(1 .. n + 1)
      /\ Len(s) = m + 1 /\ s[m + 1] = n + 1 /\ \A i \in 1 .. m : s[i] = queue[i]
  <2>1. n \in Nat /\ n = Len(calls)
    BY <1>1, <1>3
  <2> QED
    BY <1>4, <1>5, <2>1, QueueMore
<1>7. PICK a \in Said, q \in Seq([packet : Packets, no : Int]) : Asks(kind, n, a, q)
  BY <1>1, CallFacts
<1>8. PICK P \in Seq(Packets) : P = a.packets
  BY <1>7 DEF Said
<1>9. /\ kind # "close" => P # << >> /\ (a.torn \/ Answered(kind, a))
      /\ kind = "close" => P = << >>
      /\ calls'[n + 1].kind = kind /\ calls'[n + 1].answer = a
      /\ Len(q) = Len(P)
      /\ \A j \in 1 .. Len(P) : q[j].packet = P[j]
      /\ coming' = coming \o q
  BY <1>7, <1>8 DEF Asks
<1>10. s # << >>
  BY <1>4, <1>6
<1>11. ASSUME kind = "close" PROVE queue' = queue /\ coming' = coming
  <2>1. q = << >>
    BY <1>9, <1>11
  <2>2. coming \in Seq([packet : Packets, no : Int])
    BY DEF MysqlTypes
  <2>3. coming \o << >> = coming
    BY <2>2
  <2> QED
    BY <1>3, <1>9, <1>11, <2>1, <2>3
<1>12. \A i \in 1 .. m : queue[i] \in 1 .. n /\ calls'[queue[i]] = calls[queue[i]]
  BY <1>1, <1>3, <1>4, QueueFacts
<1>13. \A i \in 1 .. m : queue'[i] = queue[i]
  BY <1>3, <1>5, <1>6
<1>14. \A i \in 1 .. m : PacketsOf(i)' = PacketsOf(i)
  BY <1>12, <1>13 DEF PacketsOf
<1>15. ASSUME NEW c \in Nat, NEW off, Arranged(c, off), kind # "close"
       PROVE  \E o : Arranged(c, o)'
  <2>1. queue' = s
    BY <1>3, <1>5, <1>15
  <2>2. PICK g : g = m + 1
    OBVIOUS
  <2>3. PacketsOf(g)' = P
    BY <1>8, <1>9, <1>6, <2>1, <2>2 DEF PacketsOf
  <2>4. PICK k : k = n + 1
    OBVIOUS
  <2>5. /\ queue' = Append(queue, k) /\ g = Len(queue) + 1
        /\ \A i \in 1 .. Len(queue) : PacketsOf(i)' = PacketsOf(i)
    BY <1>4, <1>5, <1>14, <2>1, <2>2, <2>4
  <2>6. /\ Len(q) = Len(P)
        /\ \A j \in 1 .. Len(P) : q[j].packet = P[j]
        /\ coming' = coming \o q
    BY <1>9
  <2> QED
    BY <1>15, <2>3, <2>5, <2>6, ArrangedMore
<1>16. CASE queue = << >>
  <2>1. m = 0
    BY <1>4, <1>16
  <2>2. pc = "first" /\ left = 0 /\ value = << >> /\ coming = << >>
    BY <1>2, <1>16 DEF Aligned
  <2>3. CASE kind = "close"
    BY <1>3, <1>11, <1>16, <2>2, <2>3 DEF Aligned
  <2>4. CASE kind # "close"
    <3>1. PICK k : k = n + 1
      OBVIOUS
    <3>2. queue' = s /\ queue'[1] = k
      BY <1>3, <1>5, <1>6, <2>1, <2>4, <3>1
    <3>3. a.packets # << >> /\ Answered(kind, a)
      BY <1>2, <1>8, <1>9, <1>16, <2>4
    <3>4. calls'[k].kind = kind /\ calls'[k].answer = a /\ pc' = "first" /\ left' = 0 /\ value' = << >>
      BY <1>3, <1>9, <2>2, <3>1
    <3>5. At(k, 0)'
      BY <3>3, <3>4, Starts
    <3>6. PICK off : off = [i \in 1 .. 1 |-> 0]
      OBVIOUS
    <3>7. Arranged(0, off)
      <4>1. Len(queue) = 0 /\ Len(coming) = 0
        BY <1>4, <2>1, <2>2
      <4>2. off \in [1 .. 1 -> Int] /\ off[1] = 0
        BY <3>6
      <4> QED
        BY <4>1, <4>2 DEF Arranged
    <3>8. \E o : Arranged(0, o)'
      BY <1>15, <2>4, <3>7
    <3>9. queue' # << >>
      BY <1>10, <3>2
    <3> QED
      BY <3>2, <3>5, <3>8, <3>9 DEF Aligned
  <2> QED
    BY <2>3, <2>4
<1>17. CASE queue # << >>
  <2>1. PICK c, off : c \in Nat /\ At(queue[1], c) /\ Arranged(c, off)
    BY <1>2, <1>3, <1>17 DEF Aligned
  <2>2. 1 \in 1 .. m
    <3>1. Len(queue) # 0
      BY <1>17 DEF MysqlTypes
    <3> QED
      BY <1>4, <3>1
  <2>3. PICK k : k = queue[1]
    OBVIOUS
  <2>4. calls'[k] = calls[k] /\ queue'[1] = k
    BY <1>12, <1>13, <2>2, <2>3
  <2>5. At(k, c)'
    <3>1. At(k, c)
      BY <2>1, <2>3
    <3> QED
      BY <1>3, <2>4, <3>1, PlaceKept
  <2>6. queue' # << >>
    BY <1>3, <1>5, <1>10, <1>17
  <2>7. \E o : Arranged(c, o)'
    <3>1. CASE kind = "close"
      <4>1. Arranged(c, off)'
        BY <1>4, <1>11, <1>14, <2>1, <3>1 DEF Arranged
      <4> QED
        BY <4>1
    <3>2. CASE kind # "close"
      BY <1>15, <2>1, <3>2
    <3> QED
      BY <3>1, <3>2
  <2> QED
    BY <2>1, <2>4, <2>5, <2>6, <2>7 DEF Aligned
<1> QED
  BY <1>16, <1>17

-----------------------------------------------------------------------------
\* A call returns: nothing torn has been read before, and the next one starts.
LEMMA NextStarts ==
  ASSUME MysqlTypes, queue # << >>, calls' = calls, NEW how, NEW v, MY!Finish(how, v), Clear'
  PROVE  /\ Clear
         /\ queue' = Tail(queue) /\ pc' = "first" /\ left' = 0 /\ value' = << >>
         /\ queue' # << >> => At(queue[1], 0)'
<1>1. PICK k : k = queue[1]
  OBVIOUS
<1>2. /\ k \in 1 .. Len(calls)
      /\ queue' \in Seq(1 .. Len(calls)) /\ Len(queue') = Len(queue) - 1
      /\ \A j \in 1 .. Len(queue') : queue'[j] = queue[j + 1] /\ j + 1 \in 1 .. Len(queue)
      /\ pc' = "first" /\ left' = 0 /\ value' = << >>
  BY <1>1, FinishFacts
<1>3. queue' = Tail(queue)
  BY DEF MY!Finish
<1>4. PICK n \in Nat : n = Len(calls)
  <2>1. Len(calls) \in Nat
    BY DEF MysqlTypes
  <2> QED
    BY <2>1
<1>5. ASSUME NEW i \in 1 .. n, k <= i, ~ MY!Torn(i)' PROVE Clear
  <2>1. \A x \in 1 .. k : x \in 1 .. i
    BY <1>2, <1>4, <1>5
  <2>2. ~ MY!Torn(k)
    BY <1>5, <2>1 DEF MY!Torn
  <2> QED
    BY <1>1, <2>2 DEF Clear
<1>6. CASE queue' = << >>
  <2>1. ~ MY!Torn(n)'
    BY <1>4, <1>6 DEF Clear, MY!Torn
  <2>2. n \in 1 .. n /\ k <= n
    BY <1>2, <1>4
  <2> QED
    BY <1>2, <1>3, <1>5, <1>6, <2>1, <2>2
<1>7. CASE queue' # << >>
  <2>1. 1 \in 1 .. Len(queue')
    BY <1>2, <1>7
  <2>2. queue'[1] = queue[2] /\ 2 \in 1 .. Len(queue) /\ 1 \in 1 .. Len(queue)
    <3>1. queue'[1] = queue[1 + 1] /\ 1 + 1 \in 1 .. Len(queue)
      BY <1>2, <2>1
    <3>2. Len(queue) \in Nat
      BY DEF MysqlTypes
    <3> QED
      BY <3>1, <3>2
  <2>3. PICK i : i = queue[2]
    OBVIOUS
  <2>4. i \in 1 .. n /\ calls[i].answer \in Said
    BY <1>4, <2>2, <2>3, QueueFacts
  <2>5. k < i
    BY <1>1, <2>2, <2>3 DEF MysqlTypes
  <2>6. ~ MY!Torn(i)'
    BY <1>7, <2>2, <2>3 DEF Clear
  <2>7. Clear
    BY <1>2, <1>4, <1>5, <2>4, <2>5, <2>6
  <2>8. ~ calls[i].answer.torn
    <3>1. i \in 1 .. i
      BY <2>4
    <3> QED
      BY <2>6, <3>1 DEF MY!Torn
  <2>9. calls[i].kind # "close" /\ calls[i].answer.packets # << >>
    BY <2>2, <2>3 DEF MysqlTypes, PacketsOf
  <2>10. Answered(calls[i].kind, calls[i].answer)
    BY <1>4, <2>4, <2>8, <2>9 DEF MysqlTypes
  <2>11. PICK kind, a : kind = calls[i].kind /\ a = calls[i].answer
    OBVIOUS
  <2>12. /\ a \in Said /\ a.packets # << >> /\ Answered(kind, a)
         /\ calls'[i].kind = kind /\ calls'[i].answer = a
    BY <2>4, <2>9, <2>10, <2>11
  <2>13. At(i, 0)'
    BY <1>2, <2>12, Starts
  <2>14. At(queue[1], 0)'
    BY <2>2, <2>3, <2>13
  <2> QED
    BY <1>2, <1>3, <2>7, <2>14
<1> QED
  BY <1>6, <1>7

\* A packet is read.
LEMMA RecvInv ==
  ASSUME MysqlInv, MY!RecvPacket
  PROVE  MysqlInv'
<1>1. MysqlTypes /\ MY!AnswersAreOwn /\ (Clear => Aligned)
  BY DEF MysqlInv
<1>2. /\ queue # << >> /\ coming # << >> /\ coming' = Tail(coming)
      /\ packet_no' = Head(coming).no /\ calls' = calls /\ linked' = linked
  BY DEF MY!RecvPacket
<1>3. linked
  BY <1>1, <1>2 DEF MysqlTypes
<1>4. PICK k : k = queue[1]
  OBVIOUS
<1>5. coming' \in Seq([packet : Packets, no : Int]) /\ packet_no' \in Int
  <2>1. PICK R, s, t : R = [packet : Packets, no : Int] /\ s = coming /\ t = coming'
    OBVIOUS
  <2>2. s \in Seq(R) /\ s # << >> /\ t = Tail(s)
    BY <1>1, <1>2, <2>1 DEF MysqlTypes
  <2>3. t \in Seq(R)
    BY <2>2, TailFacts
  <2>4. Head(s) \in R
    BY <2>2, HeadTailProperties
  <2> QED
    BY <1>2, <2>1, <2>3, <2>4
<1>6. UNCHANGED <<queue, results>> \/ \E how, v : MY!Finish(how, v)
  BY Shape
<1>7. MysqlTypes'
  <2>1. linked' \in BOOLEAN /\ linked'
    BY <1>2, <1>3
  <2> QED
    BY <1>1, <1>2, <1>5, <1>6, <2>1, TypesKept
<1>8. ASSUME Clear
      PROVE  \E c, off :
               /\ c \in Nat
               /\ Arranged(c, off)
               /\ LET a == calls[k].answer
                  IN  \/ /\ c + 1 < Len(a.packets) /\ At(k, c + 1)' /\ UNCHANGED <<queue, results>>
                      \/ /\ c + 1 = Len(a.packets)
                         /\ \E v : SaidSo(calls[k].kind, a.outcome, v) /\ MY!Finish(a.outcome.how, v)
  <2>1. PICK c, off : c \in Nat /\ At(queue[1], c) /\ Arranged(c, off)
    BY <1>1, <1>2, <1>3, <1>8 DEF Aligned
  <2>2. At(k, c)
    BY <1>4, <2>1
  <2>3. LET a == calls[k].answer
        IN  \/ /\ c + 1 < Len(a.packets) /\ At(k, c + 1)' /\ UNCHANGED <<queue, results>>
            \/ /\ c + 1 = Len(a.packets)
               /\ \E v : SaidSo(calls[k].kind, a.outcome, v) /\ MY!Finish(a.outcome.how, v)
    BY <1>1, <1>4, <2>1, <2>2, PacketStep
  <2> QED
    BY <2>1, <2>3
<1>9. MY!AnswersAreOwn'
  <2>1. CASE Clear
    <3>1. CASE UNCHANGED <<queue, results>>
      BY <1>1, <1>2, <3>1, OwnKept
    <3>2. ASSUME NEW v, SaidSo(calls[k].kind, calls[k].answer.outcome, v),
                 MY!Finish(calls[k].answer.outcome.how, v)
          PROVE  MY!AnswersAreOwn'
      <4>1. PICK how : how = calls[k].answer.outcome.how
        OBVIOUS
      <4>2. MY!Finish(how, v)
        BY <3>2, <4>1
      <4>3. k \in 1 .. Len(calls) /\ results'[k] = MY!Outcome(how, v)
        BY <1>1, <1>2, <1>4, <4>2, FinishFacts
      <4>4. MY!SaysSo(k)'
        BY <1>1, <1>2, <3>2, <4>1, <4>3, SaysIt
      <4> QED
        BY <1>1, <1>2, <1>4, <4>2, <4>4, OwnKept
    <3> QED
      BY <1>8, <2>1, <3>1, <3>2
  <2>2. CASE ~ Clear
    <3>1. MY!Torn(k)
      BY <1>2, <1>4, <2>2 DEF Clear
    <3> QED
      BY <1>1, <1>2, <1>4, <1>6, <3>1, OwnKept
  <2> QED
    BY <2>1, <2>2
<1>10. ASSUME Clear' PROVE Aligned'
  <2>1. Clear
    <3>1. CASE UNCHANGED <<queue, results>>
      <4>1. \A i : MY!Torn(i)' = MY!Torn(i)
        BY <1>2 DEF MY!Torn
      <4>2. ~ MY!Torn(k)'
        BY <1>2, <1>4, <1>10, <3>1 DEF Clear
      <4> QED
        BY <1>2, <1>4, <4>1, <4>2 DEF Clear
    <3>2. ASSUME NEW how, NEW v, MY!Finish(how, v) PROVE Clear
      BY <1>1, <1>2, <1>10, <3>2, NextStarts
    <3> QED
      BY <1>6, <3>1, <3>2
  <2>2. PICK c, off :
          /\ c \in Nat
          /\ Arranged(c, off)
          /\ LET a == calls[k].answer
             IN  \/ /\ c + 1 < Len(a.packets) /\ At(k, c + 1)' /\ UNCHANGED <<queue, results>>
                 \/ /\ c + 1 = Len(a.packets)
                    /\ \E v : SaidSo(calls[k].kind, a.outcome, v) /\ MY!Finish(a.outcome.how, v)
    BY <1>8, <2>1
  <2>3. CASE At(k, c + 1)' /\ UNCHANGED <<queue, results>>
    <3>1. \E o : Arranged(c + 1, o)'
      BY <1>1, <1>2, <2>2, <2>3, ArrangedOn
    <3>2. c + 1 \in Nat /\ queue'[1] = k /\ queue' # << >>
      BY <1>2, <1>4, <2>2, <2>3
    <3> QED
      BY <2>3, <3>1, <3>2 DEF Aligned
  <2>4. ASSUME NEW how, NEW v, MY!Finish(how, v), c + 1 = Len(calls[k].answer.packets)
        PROVE  Aligned'
    <3>1. /\ queue' = Tail(queue) /\ pc' = "first" /\ left' = 0 /\ value' = << >>
          /\ queue' # << >> => At(queue[1], 0)'
      BY <1>1, <1>2, <1>10, <2>4, NextStarts
    <3>2. c + 1 = Len(PacketsOf(1))
      BY <1>4, <2>4 DEF PacketsOf
    <3>3. PICK o : Arranged(0, o)'
      BY <1>1, <1>2, <2>2, <3>1, <3>2, ArrangedNext
    <3>4. CASE queue' = << >>
      <4>1. o[1] = 0 /\ o[1] = Len(coming')
        BY <3>3, <3>4 DEF Arranged
      <4>2. coming' = << >>
        BY <1>5, <4>1
      <4> QED
        BY <3>1, <3>4, <4>2 DEF Aligned
    <3>5. CASE queue' # << >>
      BY <3>1, <3>3, <3>5 DEF Aligned
    <3> QED
      BY <3>4, <3>5
  <2> QED
    BY <2>2, <2>3, <2>4
<1> QED
  BY <1>7, <1>9, <1>10 DEF MysqlInv

\* The connection is lost while an answer is read: prepare may return early.
LEMMA FailsInv ==
  ASSUME MysqlInv, MY!RecvFails
  PROVE  MysqlInv'
<1>1. MysqlTypes /\ MY!AnswersAreOwn /\ (Clear => Aligned)
  BY DEF MysqlInv
<1>2. /\ queue # << >> /\ ~ linked /\ coming = << >>
      /\ calls' = calls /\ coming' = coming /\ linked' = linked /\ packet_no' = packet_no
  BY DEF MY!RecvFails
<1>3. PICK k : k = queue[1]
  OBVIOUS
<1>4. \E how, v :
        /\ MY!Finish(how, v)
        /\ how = "failed" \/ /\ how = "ok" /\ pc \in {"params", "columns"}
                             /\ v = IF pc = "columns" THEN value ELSE << << <<value[1][1][1], 0>> >> >>
  BY DEF MY!RecvFails
<1>5. PICK how, v :
        /\ MY!Finish(how, v)
        /\ how = "failed" \/ /\ how = "ok" /\ pc \in {"params", "columns"}
                             /\ v = IF pc = "columns" THEN value ELSE << << <<value[1][1][1], 0>> >> >>
  BY <1>4
<1>6. k \in 1 .. Len(calls) /\ results'[k] = MY!Outcome(how, v)
  BY <1>1, <1>2, <1>3, <1>5, FinishFacts
<1>7. MysqlTypes'
  <2>1. /\ coming' \in Seq([packet : Packets, no : Int]) /\ packet_no' \in Int
        /\ linked' \in BOOLEAN /\ coming' = << >>
    BY <1>1, <1>2 DEF MysqlTypes
  <2> QED
    BY <1>1, <1>2, <1>5, <2>1, TypesKept
<1>8. ASSUME how \in {"ok", "error"}, ~ MY!Torn(k)
      PROVE  MY!SaysSo(k)'
  <2>1. /\ how = "ok" /\ pc \in {"params", "columns"}
        /\ v = IF pc = "columns" THEN value ELSE << << <<value[1][1][1], 0>> >> >>
    BY <1>5, <1>8
  <2>2. PICK c \in Nat : At(k, c)
    BY <1>1, <1>2, <1>3, <1>8 DEF Clear, Aligned
  <2>3. PICK kind, a : kind = calls[k].kind /\ a = calls[k].answer
    OBVIOUS
  <2>4. \/ \E n, rows, last : Plan(kind, a, n, rows, last) /\ Follows(kind, a, c, n, rows, last)
        \/ kind = "prepare" /\ \E x, f : PreparePlan(a, x, f) /\ PrepareFollows(c, x, f)
    BY <2>2, <2>3 DEF At
  <2>5. ASSUME NEW n, NEW rows, NEW last, Follows(kind, a, c, n, rows, last)
        PROVE  FALSE
    BY <2>1, <2>5 DEF Follows, Within
  <2>6. PICK x, f : kind = "prepare" /\ PreparePlan(a, x, f) /\ PrepareFollows(c, x, f)
    BY <2>4, <2>5
  <2>7. x \in Nat /\ f \in Nat /\ a.outcome = MY!Outcome("ok", << << <<x, f>> >> >>)
    BY <2>6 DEF PreparePlan
  <2>8. PICK y \in Int, z \in Int : y <= x /\ z <= f /\ v = << << <<y, z>> >> >>
    <3>1. CASE pc = "params"
      <4>1. c \in 1 .. x + 1 /\ value = << << <<c - 1, f>> >> >>
        BY <2>6, <3>1 DEF PrepareFollows
      <4>2. PICK u : u = value
        OBVIOUS
      <4>3. c - 1 \in Int /\ f \in Int /\ u = << << <<c - 1, f>> >> >>
        BY <2>7, <4>1, <4>2
      <4>4. u[1][1][1] = c - 1
        BY <4>3, NumbersFacts
      <4>5. v = << << <<c - 1, 0>> >> >>
        BY <2>1, <3>1, <4>2, <4>4
      <4> QED
        BY <2>7, <4>1, <4>5
    <3>2. CASE pc = "columns"
      <4>1. c \in From(x) .. From(x) + f /\ v = << << <<x, c - From(x)>> >> >>
        BY <2>1, <2>6, <3>2 DEF PrepareFollows
      <4>2. PICK g \in Nat : g = From(x)
        BY <2>7 DEF From
      <4>3. c - g \in Int /\ c - g <= f /\ x \in Int /\ x <= x
        BY <2>7, <4>1, <4>2
      <4> QED
        BY <4>1, <4>2, <4>3
    <3> QED
      BY <2>1, <3>1, <3>2
  <2>9. v[1][1][1] = y /\ v[1][1][2] = z
    BY <2>8, NumbersFacts
  <2>10. PICK w : w = << << <<x, f>> >> >>
    OBVIOUS
  <2>11. w[1][1][1] = x /\ w[1][1][2] = f
    <3>1. x \in Int /\ f \in Int
      BY <2>7
    <3> QED
      BY <2>10, <3>1, NumbersFacts
  <2>12. a.outcome.how = "ok" /\ a.outcome.value = w
    BY <2>7, <2>10 DEF MY!Outcome
  <2>13. results'[k].value = v
    BY <1>6 DEF MY!Outcome
  <2>14. \A i \in 1 .. 2 : v[1][1][i] <= w[1][1][i]
    BY <2>8, <2>9, <2>11
  <2>15. calls'[k].kind = "prepare" /\ calls'[k].answer = a
    BY <1>2, <2>3, <2>6
  <2>16. CutShort(calls'[k], results'[k])
    BY <2>12, <2>13, <2>14, <2>15 DEF CutShort
  <2> QED
    BY <1>2, <2>16, SaysParts
<1>9. MY!AnswersAreOwn'
  BY <1>1, <1>2, <1>3, <1>5, <1>8, OwnKept
<1>10. ASSUME Clear' PROVE Aligned'
  <2>1. /\ queue' = Tail(queue) /\ pc' = "first" /\ left' = 0 /\ value' = << >>
        /\ queue' # << >> => At(queue[1], 0)'
    BY <1>1, <1>2, <1>5, <1>10, NextStarts
  <2> QED
    BY <1>2, <2>1 DEF Aligned
<1> QED
  BY <1>7, <1>9, <1>10 DEF MysqlInv

\* The connection is lost, with what was on its way.
LEMMA BreakInv ==
  ASSUME MysqlInv, MY!Break
  PROVE  MysqlInv'
<1>1. MysqlTypes /\ MY!AnswersAreOwn /\ (Clear => Aligned)
  BY DEF MysqlInv
<1>2. /\ ~ linked' /\ linked' = FALSE /\ coming' = << >>
      /\ UNCHANGED <<calls, queue, packet_no, pc, left, value, results>>
  BY DEF MY!Break, MY!respVars
<1>3. MysqlTypes'
  <2>1. << >> \in Seq([packet : Packets, no : Int])
    OBVIOUS
  <2>2. /\ coming' \in Seq([packet : Packets, no : Int]) /\ packet_no' \in Int
        /\ linked' \in BOOLEAN /\ coming' = << >>
    BY <1>1, <1>2, <2>1 DEF MysqlTypes
  <2> QED
    BY <1>1, <1>2, <2>2, TypesKept
<1>4. MY!AnswersAreOwn'
  BY <1>1, <1>2, OwnKept
<1>5. ASSUME Clear' PROVE Aligned'
  <2>1. Clear
    BY <1>2, <1>5 DEF Clear, MY!Torn
  <2>2. CASE queue = << >>
    BY <1>1, <1>2, <2>1, <2>2 DEF Aligned
  <2>3. CASE queue # << >>
    <3>1. PICK c \in Nat : At(queue[1], c)
      BY <1>1, <2>1, <2>3 DEF Aligned
    <3>2. PICK k : k = queue[1]
      OBVIOUS
    <3>3. At(k, c)'
      BY <1>2, <3>1, <3>2, PlaceKept
    <3>4. At(queue[1], c)'
      BY <1>2, <3>2, <3>3
    <3> QED
      BY <1>2, <2>3, <3>4 DEF Aligned
  <2> QED
    BY <2>2, <2>3
<1> QED
  BY <1>3, <1>4, <1>5 DEF MysqlInv

\* Only the number of the next packet changes, or nothing.
LEMMA NumberInv ==
  ASSUME MysqlInv, packet_no' \in Int,
         UNCHANGED <<calls, queue, coming, linked, pc, left, value, results>>
  PROVE  MysqlInv'
<1>1. MysqlTypes /\ MY!AnswersAreOwn /\ (Clear => Aligned)
  BY DEF MysqlInv
<1>2. MysqlTypes'
  <2>1. /\ coming' \in Seq([packet : Packets, no : Int])
        /\ linked' \in BOOLEAN /\ (linked' \/ coming' = << >>)
    BY <1>1 DEF MysqlTypes
  <2> QED
    BY <1>1, <2>1, TypesKept
<1>3. MY!AnswersAreOwn'
  BY <1>1, OwnKept
<1>4. ASSUME Clear' PROVE Aligned'
  <2>1. Clear
    BY <1>4 DEF Clear, MY!Torn
  <2>2. CASE queue = << >>
    BY <1>1, <2>1, <2>2 DEF Aligned
  <2>3. CASE queue # << >>
    <3>1. PICK c \in Nat : At(queue[1], c) /\ (linked => \E off : Arranged(c, off))
      BY <1>1, <2>1, <2>3 DEF Aligned
    <3>2. PICK k : k = queue[1]
      OBVIOUS
    <3>3. At(k, c)'
      BY <3>1, <3>2, PlaceKept
    <3>4. At(queue[1], c)'
      BY <3>2, <3>3
    <3>5. \A i : PacketsOf(i)' = PacketsOf(i)
      BY DEF PacketsOf
    <3>6. ASSUME NEW off, Arranged(c, off) PROVE Arranged(c, off)'
      BY <3>5, <3>6 DEF Arranged
    <3>7. linked' => \E off : Arranged(c, off)'
      BY <3>1, <3>6
    <3> QED
      BY <2>3, <3>4, <3>7 DEF Aligned
  <2> QED
    BY <2>2, <2>3
<1> QED
  BY <1>2, <1>3, <1>4 DEF MysqlInv

\* The invariant at the start.
LEMMA MysqlFirst ==
  ASSUME MY!Init
  PROVE  MysqlInv
<1>1. /\ calls = << >> /\ queue = << >> /\ coming = << >> /\ linked = TRUE /\ packet_no = 2
      /\ pc = "first" /\ left = 0 /\ value = << >> /\ results = << >>
  BY DEF MY!Init
<1>2. MysqlTypes
  <2>1. << >> \in Seq([kind : MY!Kind, seq : Int, answer : Said]) /\ Len(calls) = 0
        /\ << >> \in Seq([packet : Packets, no : Int]) /\ << >> \in Seq({}) /\ Len(queue) = 0
        /\ Len(results) = 0
    BY <1>1
  <2>2. << >> \in Seq(1 .. 0)
    OBVIOUS
  <2> QED
    BY <1>1, <2>1, <2>2 DEF MysqlTypes
<1>3. MY!AnswersAreOwn
  <2>1. DOMAIN results = {}
    BY <1>1
  <2> QED
    BY <2>1 DEF MY!AnswersAreOwn
<1>4. Aligned
  BY <1>1 DEF Aligned
<1> QED
  BY <1>2, <1>3, <1>4 DEF MysqlInv

\* What is on its way belongs to calls that wait.
LEMMA MysqlInvSafe ==
  ASSUME MysqlInv
  PROVE  MY!MysqlSafe
<1>1. MysqlTypes /\ MY!AnswersAreOwn /\ (Clear => Aligned)
  BY DEF MysqlInv
<1>2. ASSUME linked, ~ MY!Torn(Len(calls))
      PROVE  queue = << >> <=> coming = << >>
  <2>1. CASE queue = << >>
    BY <1>1, <1>2, <2>1 DEF Clear, Aligned
  <2>2. CASE queue # << >>
    <3>1. 1 \in 1 .. Len(queue)
      <4>1. Len(queue) \in Nat /\ Len(queue) # 0
        BY <1>1, <2>2 DEF MysqlTypes
      <4> QED
        BY <4>1
    <3>2. PICK k \in 1 .. Len(calls) : k = queue[1]
      BY <1>1, <3>1, QueueFacts
    <3>3. Len(calls) \in Nat
      BY <1>1 DEF MysqlTypes
    <3>4. \A i \in 1 .. k : i \in 1 .. Len(calls)
      BY <3>3
    <3>5. ~ MY!Torn(k)
      BY <1>2, <3>4 DEF MY!Torn
    <3>6. PICK c, off : c \in Nat /\ At(queue[1], c) /\ Arranged(c, off)
      BY <1>1, <1>2, <2>2, <3>2, <3>5 DEF Clear, Aligned
    <3>7. c \in 0 .. Len(PacketsOf(1)) - 1
      BY <3>6 DEF At, PacketsOf
    <3>8. off[1] = 0 - c /\ off[1 + 1] = off[1] + Len(PacketsOf(1)) /\ off[1 + 1] <= Len(coming)
      BY <3>1, <3>6 DEF Arranged
    <3>9. Len(PacketsOf(1)) \in Nat
      BY <1>1, <3>1, QueueFacts
    <3>10. coming # << >>
      <4>1. Len(coming) \in Nat
        BY <1>1 DEF MysqlTypes
      <4>2. Len(coming) > 0
        BY <3>7, <3>8, <3>9, <4>1
      <4> QED
        BY <4>2
    <3> QED
      BY <2>2, <3>10
  <2> QED
    BY <2>1, <2>2
<1> QED
  BY <1>1, <1>2 DEF MY!MysqlSafe, MY!NothingLeftOver

\* Every call of the MySQL client returns what its own answer says, and takes all
\* of its packets, whatever calls it is sent between and wherever the connection
\* ends: up to the first answer that has an error amid its rows, or a row of a type
\* that cannot be read.  For any number of calls.
THEOREM MysqlCorrect ==
  MY!Spec => []MysqlSafe
<1>1. MY!Init => MysqlInv
  BY MysqlFirst
<1>2. MysqlInv /\ [MY!Next]_MY!mysqlVars => MysqlInv'
  <2> SUFFICES ASSUME MysqlInv, [MY!Next]_MY!mysqlVars
               PROVE  MysqlInv'
    OBVIOUS
  <2>1. ASSUME NEW kind \in MY!Kind, MY!Call(kind)
        PROVE  MysqlInv'
    <3>1. MysqlTypes /\ MY!AnswersAreOwn /\ (Clear => Aligned)
      BY DEF MysqlInv
    <3>2. MysqlTypes' /\ MY!AnswersAreOwn'
      BY <2>1, <3>1, CallTypes, CallOwn
    <3>3. Clear' => Aligned'
      BY <2>1, <3>1, CallAligned
    <3> QED
      BY <3>2, <3>3 DEF MysqlInv
  <2>2. CASE MY!RefusedExecute
    <3>1. packet_no' \in Int /\ UNCHANGED <<calls, queue, coming, linked, pc, left, value, results>>
      BY <2>2 DEF MY!RefusedExecute, MY!respVars
    <3> QED
      BY <3>1, NumberInv
  <2>3. CASE MY!RecvPacket
    BY <2>3, RecvInv
  <2>4. CASE MY!Break
    BY <2>4, BreakInv
  <2>5. CASE MY!RecvFails
    BY <2>5, FailsInv
  <2>6. CASE UNCHANGED MY!mysqlVars
    <3>1. packet_no' \in Int /\ UNCHANGED <<calls, queue, coming, linked, pc, left, value, results>>
      BY <2>6 DEF MY!mysqlVars, MysqlInv, MysqlTypes
    <3> QED
      BY <3>1, NumberInv
  <2> QED
    BY <2>1, <2>2, <2>3, <2>4, <2>5, <2>6 DEF MY!Next
<1>3. MysqlInv => MysqlSafe
  BY MysqlInvSafe DEF MysqlSafe
<1> QED
  BY <1>1, <1>2, <1>3, PTL DEF MY!Spec
=============================================================================
