---------------------------- MODULE MongoCursor ----------------------------
(***************************************************************************)
(* MongoCursor of ts/lib/skynet/skynet/db/mongo/index.ts: a caller that    *)
(* asks has_next() and next() in turn, and tries again when has_next()     *)
(* throws.  The server keeps a cursor of its own for each query until it   *)
(* is exhausted, killed, or forgotten.                                     *)
(***************************************************************************)
EXTENDS Naturals, Sequences, FiniteSets

CONSTANTS
  MaxDocs,    \* Bound: documents that match the query.
  MaxLoss,    \* Bound: requests that fail, cursors that are forgotten.
  MaxAnswers  \* Bound: answers of the server.

Undefined == 0

VARIABLES
  docs,       \* How many documents match.
  amount,     \* What limit() was called with, 0 if it was not.
  pc,         \* "idle" | "query" | "get_more" | "answered" | "kill" | "next" | "ended"
  cursors,    \* The server's cursors: [id, at], at the document that comes next.
  answers,    \* How many answers there have been.
  reply,      \* The answer of the server: [results, cursor_id].
  losses,
  _data, _ptr, _eof, _cursor, _limit,
  given,      \* What next() has returned.
  unkilled    \* History: the kill at the end of the limit has failed.

cursorVars == <<docs, amount, pc, cursors, answers, reply, losses,
                _data, _ptr, _eof, _cursor, _limit, given, unkilled>>
clientVars == <<_data, _ptr, _eof, _cursor, _limit>>

NoData == << Undefined >>
NoReply == [results |-> << >>, cursor_id |-> 0]

Init ==
  /\ docs \in 0 .. MaxDocs /\ amount \in 0 .. MaxDocs
  /\ pc = "idle" /\ cursors = {} /\ answers = 0 /\ reply = NoReply /\ losses = 0
  /\ _data = NoData /\ _ptr = Undefined /\ _eof = FALSE /\ _cursor = 0 /\ _limit = amount
  /\ given = << >> /\ unkilled = FALSE

-----------------------------------------------------------------------------
(* The client.                                                             *)

HasNext ==
  /\ pc = "idle"
  /\ IF _ptr # Undefined THEN pc' = "next" /\ UNCHANGED <<_data, _eof>>
     ELSE IF _eof THEN pc' = "ended" /\ UNCHANGED <<_data, _eof>>
     ELSE IF _data = NoData THEN pc' = "query" /\ UNCHANGED <<_data, _eof>>
     ELSE IF _cursor # 0 THEN pc' = "get_more" /\ UNCHANGED <<_data, _eof>>
     ELSE pc' = "ended" /\ _eof' = TRUE /\ _data' = NoData
  /\ UNCHANGED <<docs, amount, cursors, answers, reply, losses, _ptr, _cursor, _limit,
                 given, unkilled>>

\* The limit counts while the server has a cursor, which is killed at its end.
Answered ==
  LET left == IF _limit > Len(reply.results) THEN _limit - Len(reply.results) ELSE 0
  IN  /\ pc = "answered"
      /\ pc' = IF reply.cursor_id # 0 /\ _limit # 0 /\ left = 0 THEN "kill" ELSE "next"
      /\ _data' = reply.results /\ _ptr' = 1
      /\ _limit' = IF reply.cursor_id # 0 THEN left ELSE _limit
      /\ _cursor' = reply.cursor_id
      /\ UNCHANGED <<docs, amount, cursors, answers, reply, losses, _eof, given, unkilled>>

\* close(), awaited by has_next(), sends the kill, which has no answer; it may
\* throw when the server has it, and then the client keeps its _cursor.
Close ==
  /\ pc = "kill" /\ cursors' = {c \in cursors : c.id # _cursor}
  /\ \/ pc' = "next" /\ _cursor' = 0 /\ UNCHANGED <<losses, unkilled>>
     \/ /\ losses < MaxLoss /\ losses' = losses + 1
        /\ pc' = "idle" /\ unkilled' = TRUE /\ UNCHANGED _cursor
  /\ UNCHANGED <<docs, amount, answers, reply, _data, _ptr, _eof, _limit, given>>

\* Faulty variant of NextDocument: the last document of a batch is left out.
NextDocumentEarly ==
  /\ pc = "next" /\ pc' = "idle"
  /\ given' = Append(given, IF _data = << >> THEN Undefined ELSE _data[_ptr])
  /\ _ptr' = IF _ptr + 1 >= Len(_data) THEN Undefined ELSE _ptr + 1
  /\ UNCHANGED <<docs, amount, cursors, answers, reply, losses, _data, _eof, _cursor, _limit,
                 unkilled>>

\* Of an empty batch next() returns what an array has behind its end.
NextDocument ==
  /\ pc = "next" /\ pc' = "idle"
  /\ given' = Append(given, IF _data = << >> THEN Undefined ELSE _data[_ptr])
  /\ _ptr' = IF _ptr + 1 > Len(_data) THEN Undefined ELSE _ptr + 1
  /\ UNCHANGED <<docs, amount, cursors, answers, reply, losses, _data, _eof, _cursor, _limit,
                 unkilled>>

-----------------------------------------------------------------------------
(* The server.                                                             *)

\* A batch from document at on, of no more than the limit; the server keeps the
\* cursor as long as there is more, and may keep it when there is not.
Batch(id, at) ==
  \E to \in at .. docs + 1 :
    /\ _limit # 0 => to - at <= _limit
    /\ \E keep \in {TRUE, to <= docs} :
         /\ cursors' = {c \in cursors : c.id # id}
                         \cup (IF keep THEN {[id |-> id, at |-> to]} ELSE {})
         /\ reply' = [results |-> [i \in 1 .. to - at |-> at + i - 1],
                      cursor_id |-> IF keep THEN id ELSE 0]

\* op_reply looks at REPLY_QUERYFAILURE only: the answer for a cursor that the
\* server does not know is an empty batch.
ServerAnswers ==
  /\ answers < MaxAnswers /\ answers' = answers + 1
  /\ \/ pc = "query" /\ Batch(answers', 1)
     \/ /\ pc = "get_more"
        /\ IF \E c \in cursors : c.id = _cursor
           THEN \E c \in cursors : c.id = _cursor /\ Batch(_cursor, c.at)
           ELSE reply' = NoReply /\ UNCHANGED cursors
  /\ pc' = "answered"
  /\ UNCHANGED <<docs, amount, losses, clientVars, given, unkilled>>

\* The request fails, before the server has it or after; has_next() throws.
RequestFails ==
  /\ pc \in {"query", "get_more", "answered", "kill"}
  /\ losses < MaxLoss /\ losses' = losses + 1
  /\ pc' = "idle" /\ unkilled' = (unkilled \/ pc = "kill")
  /\ UNCHANGED <<docs, amount, cursors, answers, reply, clientVars, given>>

Forget ==
  /\ \E c \in cursors : cursors' = cursors \ {c}
  /\ losses < MaxLoss /\ losses' = losses + 1
  /\ UNCHANGED <<docs, amount, pc, answers, reply, clientVars, given, unkilled>>

Next == HasNext \/ Answered \/ Close \/ NextDocument \/ ServerAnswers \/ RequestFails \/ Forget
Spec == Init /\ [][Next]_cursorVars

-----------------------------------------------------------------------------
(* Properties.                                                             *)

\* The documents that were given.
Documents == {given[i] : i \in DOMAIN given} \ {Undefined}

\* No document is given twice and none out of order, whatever fails and is tried
\* again; none is left out unless a request failed or a cursor was forgotten;
\* and no more than the limit, unless the kill at its end failed: has_next() has
\* set _limit to 0 and _ptr before it awaits close() (mongo/index.ts:446-447), so
\* the retry goes on, and asks the _cursor that was kept for more without a limit.
InOrder ==
  /\ \A i, j \in DOMAIN given :
       i < j /\ given[i] # Undefined /\ given[j] # Undefined => given[i] < given[j]
  /\ Documents \subseteq 1 .. docs
  /\ losses = 0 => \E n \in 0 .. docs : Documents = 1 .. n
  /\ amount # 0 /\ ~unkilled => Cardinality(Documents) <= amount

\* At the end everything was given, or as much as the limit, and the server has
\* no cursor left; of failures that is not so: the retry of an answered
\* get_more goes on behind the documents of the lost answer.
EndIsComplete ==
  pc = "ended" /\ losses = 0 =>
    /\ Documents = 1 .. docs \/ (amount # 0 /\ Cardinality(Documents) = amount)
    /\ cursors = {}

\* has_next() promises a document that does not exist for an empty batch only.
PromiseIsKept == pc = "next" /\ _data # << >> => _ptr \in 1 .. Len(_data)

\* What a cursor gives, however batches are cut and whatever fails.
CursorSafe == InOrder /\ EndIsComplete /\ PromiseIsKept
=============================================================================
