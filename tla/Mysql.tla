------------------------------- MODULE Mysql -------------------------------
(***************************************************************************)
(* ts/lib/skynet/skynet/db/mysql.ts: the commands of a client, the packets *)
(* a server answers them with, and the response functions that take them   *)
(* off the channel one after the other.  Commands are written as soon as   *)
(* they are called; nothing but the form of an answer tells where it ends. *)
(* A result set has two columns.                                           *)
(***************************************************************************)
EXTENDS Integers, Sequences

CONSTANT MaxCalls   \* Bound: calls of a connection.

\* The value of column i is i, of the first also an empty string or a MEDIUMINT;
\* a value of an Unsupported type is one that _binary_parse has no function for
\* (DECIMAL, DATE, TIME, YEAR, JSON; in the first column a NULL of that type too);
\* Past is what is read where no value begins.  Integers are not negative: their
\* sign is dropped (mysql.ts:926).
Null == 0
Medium == 6
Unsupported == 7
Empty == 8
Past == 9
Cells(i) == {Null, i} \cup (IF i = 1 THEN {Empty, Medium} ELSE {})

-----------------------------------------------------------------------------
(* What a server answers: the packets and what they mean.  The type is     *)
(* what _recv_packet makes of the first byte: a row of the text protocol   *)
(* begins with its first cell, one of the binary protocol with a zero;     *)
(* more is the bit of its status that tells whether another result follows.*)

Packet(t) == [type |-> t, more |-> 0, count |-> <<0, 0>>, row |-> << >>]
Ok(more) == [Packet("OK") EXCEPT !.more = more]
Eof(more) == [Packet("EOF") EXCEPT !.more = more]
Count(t, n) == [Packet(t) EXCEPT !.count = n]
Field == Packet("DATA")
Row(r, kind) ==
  [Packet(IF kind = "execute" \/ r[1] = Empty THEN "OK" ELSE "DATA") EXCEPT !.row = r]

Rows == {<< >>} \cup {<<r>> : r \in Cells(1) \X Cells(2)}
Table(rows, kind, last) ==
  <<Count("DATA", <<2, 0>>), Field, Field, Eof(0)>>
    \o [i \in DOMAIN rows |-> Row(rows[i], kind)] \o << last >>

\* What a call returns: the results with their rows; a badresult; or it throws.
Outcome(how, value) == [how |-> how, value |-> value]
Done == << <<-1, -1>> >>   \* A result without rows.

Answer(packets, value) ==
  [packets |-> packets, outcome |-> Outcome("ok", value), torn |-> FALSE]
Error == [Answer(<<Packet("ERR")>>, << >>) EXCEPT !.outcome.how = "error"]
\* A result whose rows end with an error.
TornResult(kind) ==
  [Answer(Table(<< <<1, 2>> >>, kind, Packet("ERR")), << >>) EXCEPT !.torn = TRUE]
\* A result with a row that cannot be read, and another behind it.
UnsupportedResult ==
  [Answer(Table(<< <<1, Unsupported>>, <<1, 2>> >>, "execute", Eof(0)), << >>) EXCEPT !.torn = TRUE]

\* One result; its last packet tells whether another follows.
Result(kind, more) ==
  {Answer(<<Ok(more)>>, <<Done>>)}
    \cup {Answer(Table(rows, kind, Eof(more)), <<rows>>) : rows \in Rows}
LastResult(kind) ==
  Result(kind, 0) \cup {Error, TornResult(kind)}
    \cup (IF kind = "execute" THEN {UnsupportedResult} ELSE {})
\* One result and what follows it: of an error, only the error is returned.
Followed(a, b) ==
  LET said == IF b.outcome.how = "ok" THEN a.outcome.value \o b.outcome.value ELSE << >>
  IN  [packets |-> a.packets \o b.packets, outcome |-> Outcome(b.outcome.how, said), torn |-> b.torn]
Results(kind) ==
  LastResult(kind)
    \cup {Followed(a, b) :
            a \in {x \in Result(kind, 1) : x.outcome.value \in {<<Done>>, << << <<1, 2>> >> >>}},
            b \in {x \in LastResult(kind) : Len(x.packets) < 6}}

Fields(n) == IF n = 0 THEN << >> ELSE [i \in 1 .. n |-> Field] \o <<Eof(0)>>
Prepared(p, f) ==
  Answer(<<Count("OK", <<p, f>>)>> \o Fields(p) \o Fields(f), << << <<p, f>> >> >>)

Kind == {"query", "execute", "prepare", "ping", "reset", "close"}
Answers(kind) ==
  CASE kind \in {"query", "execute"} -> Results(kind)
    [] kind = "prepare" -> {Error} \cup {Prepared(p, f) : p \in 0 .. 2, f \in 0 .. 1}
    [] kind = "close" -> {Answer(<< >>, << >>)}
    [] OTHER -> {Error, Answer(<<Ok(0)>>, <<Done>>)}

-----------------------------------------------------------------------------
VARIABLES
  calls,      \* Every call: [kind, seq, answer], seq the number on its packet.
  queue,      \* The calls whose answers are still to be read.
  coming,       \* The packets on their way, each with its number.
  linked,         \* Whether the connection stands.
  packet_no,
  pc,         \* Where the response function of the first call stands.
  left,       \* Fields still to be read; of execute, fields read.
  value,      \* What it has read; of prepare, the numbers of columns.
  results     \* What the calls have returned.

mysqlVars == <<calls, queue, coming, linked, packet_no, pc, left, value, results>>
respVars == <<pc, left, value>>

Numbered(packets, seq) ==
  [i \in DOMAIN packets |-> [packet |-> packets[i], no |-> seq + i]]

\* _mysql_login has answered the greeting, 0, with 1; the server's OK was 2.
Init ==
  /\ calls = << >> /\ queue = << >> /\ coming = << >> /\ linked = TRUE
  /\ packet_no = 2
  /\ pc = "first" /\ left = 0 /\ value = << >>
  /\ results = << >>

\* query, prepare, execute and ping set packet_no to -1 before _compose_packet
\* counts it up, stmt_reset and stmt_close do not.
Call(kind) ==
  LET seq == IF kind \in {"reset", "close"} THEN packet_no + 1 ELSE 0
  IN  /\ linked /\ Len(calls) < MaxCalls
      /\ \E a \in Answers(kind) :
           /\ calls' = Append(calls, [kind |-> kind, seq |-> seq, answer |-> a])
           /\ coming' = coming \o Numbered(a.packets, seq)
      /\ queue' = IF kind = "close" THEN queue ELSE Append(queue, Len(calls) + 1)
      /\ results' = Append(results, Outcome(IF kind = "close" THEN "written" ELSE "pending", << >>))
      /\ packet_no' = seq
      /\ UNCHANGED <<linked, respVars>>

\* _compose_stmt_execute throws at an argument it has no type for.
RefusedExecute ==
  /\ packet_no' = -1
  /\ UNCHANGED <<calls, queue, coming, linked, respVars, results>>

-----------------------------------------------------------------------------
(* The response functions, one packet a step.                              *)

TextRow(r) == [i \in 1 .. 2 |-> IF r[i] = Null THEN Empty ELSE r[i]]

\* The bitmap's bit of the first column is skipped (field_index > 2): a value is
\* read for it even if the row has none, the next column's or what is behind.  Of
\* a MEDIUMINT's four bytes three are read, and the next value begins in it.
BinaryRow(r) ==
  << IF r[1] # Null THEN r[1] ELSE IF r[2] # Null THEN r[2] ELSE Past,
     IF r[1] \notin {Null, Medium} \/ r[2] = Null THEN r[2] ELSE Past >>

\* A packet of another answer taken for a row has no cells.
Decoded(kind, r) ==
  IF r = << >> THEN << >> ELSE IF kind = "execute" THEN BinaryRow(r) ELSE TextRow(r)

Goto(next, n, v) == pc' = next /\ left' = n /\ value' = v /\ UNCHANGED <<queue, results>>
Finish(how, v) ==
  /\ results' = [results EXCEPT ![Head(queue)] = Outcome(how, v)]
  /\ queue' = Tail(queue)
  /\ pc' = "first" /\ left' = 0 /\ value' = << >>

\* _read_prepare_result: the list of the parameters, then that of the columns.
Columns(n, p, f) ==
  IF p > 0 THEN Goto("params", 0, << << <<0, f>> >> >>)
  ELSE IF f > 0 THEN Goto("columns", 0, << << <<n, 0>> >> >>)
  ELSE Finish("ok", << << <<n, 0>> >> >>)

First(kind, p) ==
  IF p.type = "ERR" THEN Finish("error", << >>)
  ELSE IF kind = "prepare"
  THEN IF p.type = "OK" THEN Columns(0, p.count[1], p.count[2]) ELSE Finish("failed", << >>)
  ELSE IF p.type = "OK"
  THEN IF p.more = 1 THEN Goto("first", 0, Append(value, Done)) ELSE Finish("ok", Append(value, Done))
  ELSE IF p.type = "EOF" THEN Finish("error", << >>)
  ELSE Goto("fields", IF kind = "execute" THEN 0 ELSE p.count[1], Append(value, << >>))

\* Faulty variant of FieldPacket: the last field is taken for the EOF.
FieldPacketShort(kind, p) ==
  IF kind = "execute"
  THEN IF p.type # "EOF" THEN Goto("fields", left + 1, value)
       ELSE IF left > 0 THEN Goto("rows", 0, value) ELSE Finish("ok", value)
  ELSE IF left > 1 THEN Goto("fields", left - 1, value) ELSE Goto("rows", 0, value)

\* _read_result counts the fields and checks them, _read_execute_result takes
\* whatever comes before an EOF for one, and ends if there was none.
FieldPacket(kind, p) ==
  IF kind = "execute"
  THEN IF p.type # "EOF" THEN Goto("fields", left + 1, value)
       ELSE IF left > 0 THEN Goto("rows", 0, value) ELSE Finish("ok", value)
  ELSE IF p.type = (IF left > 0 THEN "DATA" ELSE "EOF")
  THEN IF left > 0 THEN Goto("fields", left - 1, value) ELSE Goto("rows", 0, value)
  ELSE Finish("error", << >>)

\* Everything but an EOF is a row, an ERR too.  At a value that it cannot read
\* _parse_row_data_binary throws, and _execute_resp returns [false, message]: the
\* packets behind it, its EOF too, are left to the next function.
RowPacket(kind, p) ==
  IF p.type = "EOF"
  THEN IF p.more = 1 THEN Goto("first", 0, value) ELSE Finish("ok", value)
  ELSE IF kind = "execute" /\ \E i \in DOMAIN p.row : p.row[i] = Unsupported
  THEN Finish("failed", << >>)
  ELSE Goto("rows", 0, [value EXCEPT ![Len(value)] = Append(@, Decoded(kind, p.row))])

PreparePacket(p) ==
  LET n == value[1][1][1]
      f == value[1][1][2]
  IN  IF p.type = "DATA"
      THEN Goto(pc, 0, << << IF pc = "params" THEN <<n + 1, f>> ELSE <<n, f + 1>> >> >>)
      ELSE IF pc = "params" THEN Columns(n, 0, f) ELSE Finish("ok", value)

RecvPacket ==
  /\ coming # << >> /\ queue # << >>
  /\ LET p == Head(coming).packet
         kind == calls[Head(queue)].kind
     IN  CASE pc = "first" -> First(kind, p)
           [] pc = "fields" -> FieldPacket(kind, p)
           [] pc = "rows" -> RowPacket(kind, p)
           [] OTHER -> PreparePacket(p)
  /\ coming' = Tail(coming)
  /\ packet_no' = Head(coming).no
  /\ UNCHANGED <<calls, linked>>

\* The connection is lost, and what has not been read of it (what is read of
\* its end after the loss might as well be read before it).  The function that
\* reads fails (prepare takes the end for the end of its lists), the channel
\* fails the others.
Break ==
  /\ linked /\ linked' = FALSE /\ coming' = << >>
  /\ UNCHANGED <<calls, queue, packet_no, respVars, results>>
RecvFails ==
  /\ ~ linked /\ coming = << >> /\ queue # << >>
  /\ CASE pc = "params" -> Finish("ok", << << <<value[1][1][1], 0>> >> >>)
       [] pc = "columns" -> Finish("ok", value)
       [] OTHER -> Finish("failed", << >>)
  /\ UNCHANGED <<calls, coming, linked, packet_no>>

Next ==
  \/ \E kind \in Kind : Call(kind)
  \/ RefusedExecute \/ RecvPacket \/ Break \/ RecvFails

Spec == Init /\ [][Next]_mysqlVars

-----------------------------------------------------------------------------
(* Properties.                                                             *)

\* An error among the rows (mysql.ts:614, 969) is taken for a row, and what
\* follows it for more of them; and a row with a value of an unsupported type
\* (mysql.ts:922-925) ends its call with the rest of the answer unread (1002,
\* 1020), on a connection that stands: from there on answers go to the wrong calls.
Torn(k) == \E i \in 1 .. k : calls[i].answer.torn

\* Every call returns what its own answer says, however answers are cut by the
\* end of the connection and whatever calls they are read between: but for the
\* text protocol's NULL, which is an empty string, for binary rows whose first
\* column is NULL (mysql.ts:909) or a MEDIUMINT (mysql.ts:887-889), and for
\* prepare, which takes the end of the connection for the end of its lists.
SaysSo(k) ==
  LET said == calls[k].answer.outcome
      got == results[k]
  IN  \/ calls[k].kind = "prepare" /\ ~ linked /\ said.how = "ok"
         /\ \A i \in 1 .. 2 : got.value[1][1][i] <= said.value[1][1][i]
      \/ /\ got.how = said.how /\ Len(got.value) = Len(said.value)
         /\ \A i \in DOMAIN said.value :
              /\ Len(got.value[i]) = Len(said.value[i])
              /\ \A j \in DOMAIN said.value[i] :
                   LET r == said.value[i][j]
                   IN  CASE calls[k].kind = "query" -> got.value[i][j] = TextRow(r)
                         [] calls[k].kind = "execute" ->
                              r[1] \notin {Null, Medium} => got.value[i][j] = r
                         [] OTHER -> got.value[i][j] = r
AnswersAreOwn ==
  \A k \in DOMAIN results :
    results[k].how \in {"ok", "error"} /\ ~ Torn(k) => SaysSo(k)

\* And it takes all of it: no call waits for a packet that does not come, and
\* no packet is left for a call of later.
NothingLeftOver ==
  linked /\ ~ Torn(Len(calls)) => (queue = << >> <=> coming = << >>)

MysqlSafe == AnswersAreOwn /\ NothingLeftOver
=============================================================================
