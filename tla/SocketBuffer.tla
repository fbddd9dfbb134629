---------------------------- MODULE SocketBuffer ----------------------------
(***************************************************************************)
(* The bytes of a socket between the DATA messages of the core and the one *)
(* task that reads it: read, readline and readall of                       *)
(* ts/lib/skynet/skynet/socket/index.ts.                                   *)
(*                                                                         *)
(* The messages are kept as a list of nodes, of which the first may be     *)
(* read in part.  A reader that needs more waits; each message that comes  *)
(* is looked through, from where the last search ended, for what it needs. *)
(***************************************************************************)
EXTENDS Integers, Sequences

CONSTANTS
  Byte,         \* The values of bytes; 0 is that of fresh memory.
  Sep,          \* The separator that readline is called with.
  buffer_limit, \* limit(): 0 for none.
  MaxBlock,     \* Bound: the bytes of a message.
  MaxBytes      \* Bound: the bytes in the buffer.

ASSUME BufferAssumption ==
  /\ 0 \in Byte
  /\ Sep \in Seq(Byte) \ {<< >>}
  /\ {buffer_limit, MaxBlock, MaxBytes} \subseteq Nat

VARIABLES
  node,                \* The buffers of the nodes from sb.head to sb.tail.
  offset,              \* The bytes of the first that were read.
  size,
  connected,
  reader,              \* "idle", "waiting" or "woken".
  want,                \* What it reads: [op, sz].
  read_required,       \* Whether s.read_required is set (to what want says).
  read_required_skip,
  got,                 \* What it read last: [ok, bytes].
  freed                \* History: the buffer was thrown away.

nodeVars == <<node, offset, size>>
vars == <<nodeVars, connected, reader, want, read_required, read_required_skip, got, freed>>

Block == UNION {[1 .. n -> Byte] : n \in 1 .. MaxBlock}

TypeOK ==
  /\ node \in Seq(Block)
  /\ {offset, size, read_required_skip} \subseteq Nat
  /\ connected \in BOOLEAN
  /\ reader \in {"idle", "waiting", "woken"}
  /\ want \in [op : {"some", "exact", "line"}, sz : 0 .. MaxBytes]
  /\ read_required \in BOOLEAN
  /\ got \in [ok : BOOLEAN, bytes : Seq(Byte)]
  /\ freed \in BOOLEAN
  /\ node = << >> => offset = 0

Init ==
  /\ node = << >>
  /\ offset = 0
  /\ size = 0
  /\ connected = TRUE
  /\ reader = "idle"
  /\ want = [op |-> "some", sz |-> 0]
  /\ read_required = FALSE
  /\ read_required_skip = 0
  /\ got = [ok |-> TRUE, bytes |-> << >>]
  /\ freed = FALSE

-----------------------------------------------------------------------------
(***************************************************************************)
(* The list of nodes.                                                      *)
(***************************************************************************)

\* Faulty variant of Pop: the offset stays when the node that it is in goes.
RECURSIVE PopKeepingOffset(_, _, _)
PopKeepingOffset(nd, off, sz) ==
  IF nd = << >> THEN [node |-> << >>, offset |-> off, ok |-> FALSE]
  ELSE LET bytes == Len(Head(nd)) - off
       IN  CASE sz < bytes -> [node |-> nd, offset |-> off + sz, ok |-> TRUE]
             [] sz = bytes -> [node |-> Tail(nd), offset |-> off, ok |-> TRUE]
             [] OTHER      -> PopKeepingOffset(Tail(nd), 0, sz - bytes)

\* _pop_message: what is left of nd, of which off bytes are read, after sz
\* more.  It asserts (ok) that there are as many.
RECURSIVE Pop(_, _, _)
Pop(nd, off, sz) ==
  IF nd = << >> THEN [node |-> << >>, offset |-> 0, ok |-> FALSE]
  ELSE LET bytes == Len(Head(nd)) - off
       IN  CASE sz < bytes -> [node |-> nd, offset |-> off + sz, ok |-> TRUE]
             [] sz = bytes -> [node |-> Tail(nd), offset |-> 0, ok |-> TRUE]
             [] OTHER      -> Pop(Tail(nd), 0, sz - bytes)

\* Faulty variant of Fetch: the bytes read of the first node count again.
RECURSIVE FetchFromStart(_, _, _, _)
FetchFromStart(nd, off, sz, skip) ==
  IF nd = << >> THEN << >>
  ELSE LET bytes == Len(Head(nd)) - off
           take  == IF sz - skip < bytes THEN sz - skip ELSE bytes
       IN  SubSeq(Head(nd), 1, take)
             \o IF bytes >= sz THEN << >> ELSE FetchFromStart(Tail(nd), 0, sz - bytes, skip)

\* _pop_message: the first sz - skip bytes.
RECURSIVE Fetch(_, _, _, _)
Fetch(nd, off, sz, skip) ==
  IF nd = << >> THEN << >>
  ELSE LET bytes == Len(Head(nd)) - off
           take  == IF sz - skip < bytes THEN sz - skip ELSE bytes
       IN  SubSeq(Head(nd), off + 1, off + take)
             \o IF bytes >= sz THEN << >> ELSE Fetch(Tail(nd), 0, sz - bytes, skip)

\* _read_all: the bytes behind the first skip.
RECURSIVE Peek(_, _, _)
Peek(nd, off, skip) ==
  IF nd = << >> THEN << >>
  ELSE LET pack_sz == Len(Head(nd)) - off
       IN  SubSeq(Head(nd), off + skip + 1, Len(Head(nd)))
             \o Peek(Tail(nd), 0, IF skip > pack_sz THEN skip - pack_sz ELSE 0)

\* _read_all, which goes by the size: memory that no node fills stays zero.
ReadAll(nd, off, sz, skip) ==
  LET bytes == Peek(nd, off, skip)
  IN  [k \in 1 .. (IF sz > skip THEN sz - skip ELSE 0) |->
         IF k <= Len(bytes) THEN bytes[k] ELSE 0]

\* Where a separator may start in a message of sz bytes.
CheckEnd(sz) == IF sz >= Len(Sep) THEN sz - Len(Sep) + 1 ELSE 0

\* _read_line: where separators start at or behind skip.
SepAt(nd, off, sz, skip) ==
  LET msg == ReadAll(nd, off, sz, skip)
  IN  {i + skip : i \in {j \in 0 .. CheckEnd(Len(msg)) - 1 :
                           nd # << >> /\ SubSeq(msg, j + 1, j + Len(Sep)) = Sep}}

First(S) == CHOOSE i \in S : \A j \in S : i <= j

\* Faulty variant of SkipAfter: a separator across two messages is missed.
SkipAll(sz, skip) == skip + (IF sz > skip THEN sz - skip ELSE 0)

\* _read_line: how far a search without success has come.
SkipAfter(sz, skip) == skip + CheckEnd(IF sz > skip THEN sz - skip ELSE 0)

-----------------------------------------------------------------------------
(***************************************************************************)
(* Messages of the core.                                                   *)
(***************************************************************************)

\* _buffer_free: the nodes go, the size stays.
BufferFree ==
  /\ node' = << >>
  /\ offset' = 0
  /\ freed' = TRUE

Wake ==
  /\ reader' = IF reader = "waiting" THEN "woken" ELSE reader
  /\ read_required' = FALSE

\* DATA for a reader that waits for a number of bytes ...
DataSome ==
  /\ read_required
  /\ want.op \in {"some", "exact"}
  /\ IF size' >= want.sz THEN Wake ELSE UNCHANGED <<reader, read_required>>
  /\ UNCHANGED <<read_required_skip, freed>>

\* ... for one that waits for a line ...
DataLine ==
  /\ read_required
  /\ want.op = "line"
  /\ IF SepAt(node', offset, size', read_required_skip) # {}
       THEN Wake /\ read_required_skip' = 0
       ELSE /\ read_required_skip' = SkipAfter(size', read_required_skip)
            /\ UNCHANGED <<reader, read_required>>
  /\ UNCHANGED freed

Overflows(sz) == buffer_limit # 0 /\ sz > buffer_limit

Data(msg) ==
  /\ connected
  /\ size + Len(msg) <= MaxBytes
  /\ size' = size + Len(msg)
  /\ \/ /\ Overflows(size')
        /\ ~(read_required /\ want.op \in {"some", "exact"})
        /\ BufferFree
        /\ UNCHANGED <<reader, read_required, read_required_skip>>
     \/ /\ node' = Append(node, msg)
        /\ UNCHANGED offset
        /\ \/ DataSome
           \/ ~Overflows(size') /\ DataLine
           \/ /\ ~Overflows(size') /\ ~read_required
              /\ UNCHANGED <<reader, read_required, read_required_skip, freed>>
  /\ UNCHANGED <<connected, want, got>>

\* CLOSE or ERROR: the reader is woken, but read_required stays.
Down ==
  /\ connected
  /\ connected' = FALSE
  /\ reader' = IF reader = "waiting" THEN "woken" ELSE reader
  /\ UNCHANGED <<nodeVars, want, read_required, read_required_skip, got, freed>>

\* shutdown(): messages and the CLOSE are still to come.
Shutdown ==
  /\ BufferFree
  /\ UNCHANGED <<size, connected, reader, want, read_required, read_required_skip, got>>

-----------------------------------------------------------------------------
(***************************************************************************)
(* The reader.                                                             *)
(***************************************************************************)

\* _read_all takes everything.
TakeAll(ok) ==
  /\ got' = [ok |-> ok, bytes |-> ReadAll(node, offset, size, 0)]
  /\ node' = << >>
  /\ offset' = 0
  /\ size' = 0

\* _pop_message; if its assertion fails, the nodes are gone all the same.
Take(sz, skip) ==
  LET left == Pop(node, offset, sz)
  IN  /\ node' = left.node
      /\ offset' = left.offset
      /\ IF left.ok
           THEN /\ got' = [ok |-> TRUE, bytes |-> Fetch(node, offset, sz, skip)]
                /\ size' = size - sz
           ELSE UNCHANGED <<got, size>>

\* The lines that readline finds at once.
Lines == SepAt(node, offset, size, read_required_skip)

TakeLine == Take(First(Lines) + Len(Sep), Len(Sep))

\* What satisfies the reader without waiting.
Satisfied(w) ==
  CASE w.op = "some"  -> size > 0
    [] w.op = "exact" -> size >= w.sz
    [] w.op = "line"  -> Lines # {}

TakeWanted(w) ==
  \/ w.op = "some" /\ TakeAll(TRUE)
  \/ w.op = "exact" /\ Take(w.sz, 0)
  \/ w.op = "line" /\ TakeLine

\* read(sz), read() with sz = 0, readline(), up to the suspension.
Read(w) ==
  /\ reader = "idle"
  /\ \/ /\ Satisfied(w)
        /\ TakeWanted(w)
        /\ UNCHANGED <<reader, want, read_required>>
     \/ /\ ~Satisfied(w)
        /\ ~connected
        /\ TakeAll(FALSE)
        /\ UNCHANGED <<reader, want, read_required>>
     \/ /\ ~Satisfied(w)
        /\ connected
        /\ reader' = "waiting"
        /\ want' = w
        /\ read_required' = TRUE
        /\ UNCHANGED <<nodeVars, got>>
  /\ UNCHANGED <<connected, read_required_skip, freed>>

\* readall(), which waits only while the socket is connecting: it is not, once
\* connect has returned its id.
Readall ==
  /\ reader = "idle"
  /\ TakeAll(TRUE)
  /\ UNCHANGED <<connected, reader, want, read_required, read_required_skip, freed>>

\* Faulty variant of Fails: read gives up whatever has come.
FailsDown(w) == ~connected

\* When the suspended reader gives up: readline if the socket is down, read
\* if it has not got what it wants.
Fails(w) == IF w.op = "line" THEN ~connected ELSE ~Satisfied(w)

\* The suspension ends.  A readline that finds no line throws.
Resume ==
  /\ reader = "woken"
  /\ reader' = "idle"
  /\ \/ Fails(want) /\ TakeAll(FALSE)
     \/ ~Fails(want) /\ Satisfied(want) /\ TakeWanted(want)
     \/ ~Fails(want) /\ ~Satisfied(want) /\ UNCHANGED <<nodeVars, got>>
  /\ UNCHANGED <<connected, want, read_required, read_required_skip, freed>>

Wants ==
  [op : {"some", "line"}, sz : {0}] \cup [op : {"exact"}, sz : 1 .. MaxBytes]

Next ==
  \/ \E msg \in Block : Data(msg)
  \/ Down
  \/ Shutdown
  \/ \E w \in Wants : Read(w)
  \/ Readall
  \/ Resume

Spec == Init /\ [][Next]_vars

-----------------------------------------------------------------------------
(***************************************************************************)
(* Properties.                                                             *)
(***************************************************************************)

Unread == Peek(node, offset, 0)

\* A reader waits only for what is not there: no search, resumed at
\* read_required_skip, has missed a separator (_read_line), and no message
\* has left a reader asleep that has enough (DATA).
WaitsForMissing ==
  reader = "waiting" /\ ~freed =>
    CASE want.op = "some"  -> Unread = << >>
      [] want.op = "exact" -> Len(Unread) < want.sz
      [] want.op = "line"  ->
           \A i \in 0 .. Len(Unread) - Len(Sep) : SubSeq(Unread, i + 1, i + Len(Sep)) # Sep

\* The state of the buffer while a reader waits on it.
BufferInv == TypeOK /\ WaitsForMissing

\* Whoever was woken finds what it was woken for: while the socket is
\* connected its read succeeds, and a read of sz bytes that are there returns
\* the first sz, although more may have come, and the CLOSE too (read,
\* readline, _pop_buffer).
WokenReadsSucceed ==
  [][reader = "woken" /\ reader' = "idle" /\ ~freed =>
       LET exact == want.op = "exact" /\ Len(Unread) >= want.sz
       IN  /\ connected \/ exact => got'.ok
           /\ exact => got'.bytes = SubSeq(Unread, 1, want.sz)]_vars

\* _pop_message finds the bytes that the size promises, as it asserts of the
\* current node.
PopFindsNodes == node # << >> => \A sz \in 1 .. size : Pop(node, offset, sz).ok

Stream == INSTANCE ByteStream WITH unread <- Unread, got <- got.bytes, broken <- freed

\* Nodes, offset and the peeking searches implement a stream of bytes, until
\* the buffer is thrown away (shutdown, buffer_limit).
ImplementsByteStream == Stream!Spec

=============================================================================
