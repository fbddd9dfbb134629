------------------------------ MODULE Channel ------------------------------
(***************************************************************************)
(* Requests over one connection that is made again when it was lost: the   *)
(* class Channel of ts/lib/skynet/skynet/socket/channel.ts, without auth.  *)
(*                                                                         *)
(* Requests are paired with answers either by their order, each with a     *)
(* function that reads its answer, or by a session (by_session).  A        *)
(* dispatcher (dispatch_by_order, dispatch_by_session) reads the answers   *)
(* of a connection; the next connection waits for its end.                 *)
(*                                                                         *)
(* A token, a session and a reading function are each named by their       *)
(* request.  Tasks interleave where they await.                            *)
(***************************************************************************)
EXTENDS Integers, Sequences, SequencesExt

CONSTANTS
  MaxReq,     \* Bound: the calls of request() and connect(true).
  Connector,  \* Of these, the calls of connect(true).
  MaxConn,    \* Bound: the connections made.
  MaxClose    \* Bound: the calls of close() and change_host().

ASSUME ChannelAssumption ==
  /\ Connector \subseteq 1 .. MaxReq
  /\ {MaxReq, MaxConn, MaxClose} \subseteq Nat

\* Tasks, in the order in which they call; the token 0 is the close signal.
Req == 1 .. MaxReq
NoReq == 0

Conn == 1 .. MaxConn
NoConn == 0

VARIABLES
  by_session,  \* Whether it has a _response function.
  closed,      \* _closed
  socket,      \* _socket
  connecting,  \* _connecting: who waits for the connection (if connector is set).
  connector,   \* The task that connects, or NoReq.
  dispatcher,  \* The dispatcher: [at, func, token, conn, answer].
  request,     \* _request
  thread,      \* _thread: by order, or in the order of sessions.
  wait_response,
  pc,          \* Where each task is.
  outcome,     \* What it was told: [is, answer].
  conn,        \* The state of each connection.
  wire,        \* The requests written to it that the server has not answered.
  answers,     \* The answers on the way from it.
  buffer,      \* The answers that have come and were not read.
  turn,        \* "dispatch" (messages) or "drain" (resumptions).
  nextConn,
  closes,
  asserted,    \* History: skynet.wakeup was called for a token that nobody waits for.
  left         \* History: a dispatcher ended its loop with requests in its queues.

pairVars == <<request, thread, wait_response>>
connVars == <<conn, wire, answers, buffer, nextConn>>
otherVars == <<by_session, closes, turn>>
vars == <<closed, socket, connecting, connector, dispatcher, pairVars, pc, outcome, connVars,
          otherVars, asserted, left>>

NoOutcome == [is |-> "none", answer |-> NoReq]
NoDispatcher == [at |-> "none", func |-> NoReq, token |-> NoReq, conn |-> NoConn,
                 answer |-> NoReq]
Popping == [NoDispatcher EXCEPT !.at = "pop"]

dispatch_thread == dispatcher.at # "none"

PC == {"idle", "queued", "asking", "opening", "opened", "refused", "draining", "awake", "rejoin", "ready",
       "waiting", "woken", "done"}

\* Where a task is about to resume.
Due == {"opened", "refused", "awake", "rejoin", "ready", "woken"}

TypeOK ==
  /\ {by_session, closed} \subseteq BOOLEAN
  /\ socket \in Conn \cup {NoConn}
  /\ connecting \in Seq(Req)
  /\ connector \in Req \cup {NoReq}
  /\ dispatcher \in [at : {"none", "pop", "asleep", "read", "got"},
                     func : Req \cup {NoReq}, token : Req \cup {NoReq},
                     conn : Conn \cup {NoConn}, answer : Req \cup {NoReq}]
  /\ request \in Seq(Req \cup {NoReq})
  /\ thread \in Seq(Req \cup {NoReq})
  /\ wait_response \in BOOLEAN
  /\ wait_response <=> dispatcher.at = "asleep"
  /\ pc \in [Req -> PC]
  /\ outcome \in [Req -> [is : {"none", "ok", "error"}, answer : Req \cup {NoReq}]]
  /\ conn \in [Conn -> {"none", "opening", "up", "broken", "down"}]
  /\ wire \in [Conn -> Seq(Req)]
  /\ answers \in [Conn -> Seq(Req)]
  /\ buffer \in [Conn -> Seq(Req)]
  /\ turn \in {"dispatch", "drain"}
  /\ nextConn \in 1 .. MaxConn + 1
  /\ closes \in 0 .. MaxClose
  /\ {asserted, left} \subseteq BOOLEAN

Init ==
  /\ by_session \in BOOLEAN
  /\ closed = FALSE
  /\ socket = NoConn
  /\ connecting = << >>
  /\ connector = NoReq
  /\ dispatcher = NoDispatcher
  /\ request = << >>
  /\ thread = << >>
  /\ wait_response = FALSE
  /\ pc = [r \in Req |-> "idle"]
  /\ outcome = [r \in Req |-> NoOutcome]
  /\ conn = [n \in Conn |-> "none"]
  /\ wire = [n \in Conn |-> << >>]
  /\ answers = [n \in Conn |-> << >>]
  /\ buffer = [n \in Conn |-> << >>]
  /\ turn = "dispatch"
  /\ nextConn = 1
  /\ closes = 0
  /\ asserted = FALSE
  /\ left = FALSE
-----------------------------------------------------------------------------

\* close_channel_socket: the CLOSE of the core is still to come, or has come,
\* and then socket.close() throws away what was not read.
CloseSocket ==
  /\ socket' = NoConn
  /\ buffer' = [n \in Conn |-> IF n = socket /\ conn[n] = "down" THEN << >> ELSE buffer[n]]
  /\ conn' = [n \in Conn |-> IF n = socket /\ conn[n] = "up" THEN "broken" ELSE conn[n]]

\* skynet.wakeup(token) finds somebody who waits.
Awaited(token) == token # NoReq /\ pc[token] \in {"waiting", "woken"}

\* The tasks of S are woken with an error, and those of T go on to be at.
Fail(S) ==
  /\ pc' = [r \in Req |-> IF r \in S THEN "woken" ELSE pc[r]]
  /\ outcome' = [r \in Req |-> IF r \in S THEN [is |-> "error", answer |-> NoReq] ELSE outcome[r]]

Told(r, is) ==
  /\ pc' = [pc EXCEPT ![r] = "done"]
  /\ outcome' = [outcome EXCEPT ![r] = [is |-> is, answer |-> NoReq]]

\* The tokens that wakeup_all reaches: it fails at one that is not awaited.
Reached(queue) ==
  {queue[i] : i \in {j \in DOMAIN queue : \A k \in 1 .. j : Awaited(queue[k])}}

\* Faulty variant of Cleared: _request is not emptied.
ClearedKeepingRequests ==
  /\ thread' = IF \A i \in DOMAIN thread : Awaited(thread[i]) THEN << >> ELSE thread
  /\ asserted' = (asserted \/ \E i \in DOMAIN thread : ~Awaited(thread[i]))
  /\ UNCHANGED <<request, wait_response, left>>

\* What wakeup_all leaves of the queues: it does not come to clear _thread if
\* a wakeup fails.
Cleared ==
  /\ request' = IF by_session THEN request ELSE << >>
  /\ thread' = IF \A i \in DOMAIN thread : Awaited(thread[i]) THEN << >> ELSE thread
  /\ asserted' = (asserted \/ \E i \in DOMAIN thread : ~Awaited(thread[i]))
  /\ UNCHANGED <<wait_response, left>>

\* push_response
Push(func, token) ==
  /\ thread' = Append(thread, token)
  /\ IF by_session
       THEN UNCHANGED <<request, wait_response, dispatcher>>
       ELSE /\ request' = Append(request, func)
            /\ wait_response' = FALSE
            /\ dispatcher' = IF wait_response THEN Popping ELSE dispatcher

\* term_dispatch_thread
TermDispatchThread ==
  IF ~by_session /\ dispatch_thread
    THEN Push(NoReq, NoReq)
    ELSE UNCHANGED <<pairVars, dispatcher>>

-----------------------------------------------------------------------------
(***************************************************************************)
(* request(), connect()                                                    *)
(***************************************************************************)

Opening == nextConn - 1

Disconnected == socket # NoConn /\ conn[socket] = "down"

Goes(r, from, to) ==
  /\ pc[r] = from
  /\ pc' = [pc EXCEPT ![r] = to]
  /\ UNCHANGED outcome

\* block_connect of a task when connections need not be made.
Enter(r) ==
  /\ Goes(r, "idle", "ready")
  /\ \/ socket # NoConn /\ ~Disconnected
     \/ socket = NoConn /\ closed /\ r \notin Connector
  /\ closed' = (closed /\ r \notin Connector)
  /\ UNCHANGED <<socket, connecting, connector, dispatcher, pairVars, connVars, otherVars, asserted, left>>

\* Whether block_connect finds no connection.
Unconnected(r) == Disconnected \/ (socket = NoConn /\ (~closed \/ r \in Connector))

\* It waits for the task that connects ...
Queue(r) ==
  /\ Unconnected(r)
  /\ connector # NoReq
  /\ Goes(r, "idle", "queued")
  /\ connecting' = Append(connecting, r)
  /\ closed' = (closed /\ r \notin Connector)
  /\ CloseSocket
  /\ UNCHANGED <<connector, dispatcher, pairVars, wire, answers, nextConn, otherVars, asserted, left>>

\* ... or connects, up to the await of socket.open.
Open(r) ==
  /\ Unconnected(r)
  /\ connector = NoReq
  /\ nextConn \in Conn
  /\ Goes(r, "idle", "asking")
  /\ connector' = r
  /\ connecting' = << >>
  /\ nextConn' = nextConn + 1
  /\ closed' = (closed /\ r \notin Connector)
  /\ CloseSocket
  /\ UNCHANGED <<dispatcher, pairVars, wire, answers, otherVars, asserted, left>>

\* The core's CONNECT or ERROR.
ConnectArrives(r) ==
  /\ turn = "dispatch"
  /\ Goes(r, "opening", "opened")
  /\ conn' = [conn EXCEPT ![Opening] = "up"]
  /\ UNCHANGED <<closed, socket, connecting, connector, dispatcher, pairVars, wire, answers, buffer,
                 nextConn, otherVars, asserted, left>>

ErrorArrives(r) ==
  /\ turn = "dispatch"
  /\ Goes(r, "opening", "refused")
  /\ UNCHANGED <<closed, socket, connecting, connector, dispatcher, pairVars, connVars, otherVars,
                 asserted, left>>

\* Faulty variant of Join: the others are not woken.
JoinSilent(r) ==
  /\ connector' = NoReq
  /\ connecting' = << >>
  /\ pc' = [pc EXCEPT ![r] = "rejoin"]
  /\ UNCHANGED outcome

\* The end of block_connect's try: the others are woken.
Join(r) ==
  /\ connector' = NoReq
  /\ connecting' = << >>
  /\ pc' = [q \in Req |-> IF q = r \/ q \in ToSet(connecting) THEN "rejoin" ELSE pc[q]]
  /\ UNCHANGED outcome

\* The connection is taken into use, with a dispatcher.
Attach(r) ==
  /\ socket' = Opening
  /\ dispatcher' = IF by_session
                     THEN [NoDispatcher EXCEPT !.at = "read", !.conn = Opening]
                     ELSE Popping
  /\ Join(r)

\* The dispatcher of the last connection is told to end, and waited for.
Opens(r) ==
  /\ turn = "drain"
  /\ pc[r] = "opened"
  /\ \/ /\ ~dispatch_thread
        /\ Attach(r)
        /\ UNCHANGED pairVars
     \/ /\ dispatch_thread
        /\ TermDispatchThread
        /\ Goes(r, "opened", "draining")
        /\ UNCHANGED <<socket, connecting, connector>>
  /\ UNCHANGED <<closed, connVars, otherVars, asserted, left>>

\* sleep(1)
TimerArrives(r) ==
  /\ turn = "dispatch"
  /\ Goes(r, "draining", "awake")
  /\ UNCHANGED <<closed, socket, connecting, connector, dispatcher, pairVars, connVars, otherVars,
                 asserted, left>>

Drains(r) ==
  /\ turn = "drain"
  /\ pc[r] = "awake"
  /\ \/ /\ ~dispatch_thread
        /\ Attach(r)
     \/ /\ dispatch_thread
        /\ Goes(r, "awake", "draining")
        /\ UNCHANGED <<socket, connecting, connector, dispatcher>>
  /\ UNCHANGED <<closed, pairVars, connVars, otherVars, asserted, left>>

OpenFails(r) ==
  /\ turn = "drain"
  /\ pc[r] = "refused"
  /\ Join(r)
  /\ UNCHANGED <<closed, socket, dispatcher, pairVars, connVars, otherVars, asserted, left>>

\* block_connect looks again.
Rejoin(r) ==
  /\ turn = "drain"
  /\ pc[r] = "rejoin"
  /\ \/ /\ (socket # NoConn /\ ~Disconnected) \/ (socket = NoConn /\ closed)
        /\ Goes(r, "rejoin", "ready")
        /\ UNCHANGED <<socket, conn, buffer>>
     \/ /\ Disconnected \/ (socket = NoConn /\ ~closed)
        /\ Told(r, "error")
        /\ CloseSocket
  /\ UNCHANGED <<closed, connecting, connector, dispatcher, pairVars, wire, answers, nextConn,
                 otherVars, asserted, left>>

\* request(): the write and wait_for_response, up to its await.
Write(r) ==
  /\ turn = "drain"
  /\ r \notin Connector
  /\ socket # NoConn
  /\ conn[socket] = "up"
  /\ Goes(r, "ready", "waiting")
  /\ wire' = [wire EXCEPT ![socket] = Append(@, r)]
  /\ Push(r, r)
  /\ UNCHANGED <<closed, socket, connecting, connector, conn, answers, buffer, nextConn, otherVars, asserted, left>>

\* sock_err: the core refuses the write.
WriteFails(r) ==
  /\ turn = "drain"
  /\ r \notin Connector
  /\ pc[r] = "ready"
  /\ socket # NoConn => conn[socket] # "up"
  /\ CloseSocket
  /\ pc' = [q \in Req |-> IF q = r THEN "done" ELSE IF q \in Reached(thread) THEN "woken" ELSE pc[q]]
  /\ outcome' = [q \in Req |-> IF q \in Reached(thread) \cup {r}
                                 THEN [is |-> "error", answer |-> NoReq]
                                 ELSE outcome[q]]
  /\ Cleared
  /\ UNCHANGED <<closed, connecting, connector, dispatcher, wire, answers, nextConn, otherVars>>

ConnectReturns(r) ==
  /\ turn = "drain"
  /\ r \in Connector
  /\ Goes(r, "ready", "done")
  /\ UNCHANGED <<closed, socket, connecting, connector, dispatcher, pairVars, connVars, otherVars,
                 asserted, left>>

\* wait_for_response, after the await.
Resume(r) ==
  /\ turn = "drain"
  /\ Goes(r, "woken", "done")
  /\ UNCHANGED <<closed, socket, connecting, connector, dispatcher, pairVars, connVars, otherVars,
                 asserted, left>>

-----------------------------------------------------------------------------
(***************************************************************************)
(* The dispatcher.                                                         *)
(***************************************************************************)

\* Faulty variant of Pop: the last request is taken for the next answer.
PopLast ==
  /\ turn = "drain"
  /\ dispatcher.at = "pop"
  /\ request # << >> /\ thread # << >>
  /\ Last(thread) # NoReq
  /\ request' = Front(request)
  /\ thread' = Front(thread)
  /\ dispatcher' = [NoDispatcher EXCEPT !.at = "read", !.func = Last(request), !.token = Last(thread),
                                         !.conn = socket]
  /\ UNCHANGED <<closed, socket, connecting, connector, wait_response, pc, outcome, connVars,
                 otherVars, asserted, left>>

\* pop_response
Pop ==
  /\ turn = "drain"
  /\ dispatcher.at = "pop"
  /\ request # << >> /\ thread # << >>
  /\ Head(thread) # NoReq
  /\ request' = Tail(request)
  /\ thread' = Tail(thread)
  /\ dispatcher' = [NoDispatcher EXCEPT !.at = "read", !.func = Head(request), !.token = Head(thread),
                                         !.conn = socket]
  /\ UNCHANGED <<closed, socket, connecting, connector, wait_response, pc, outcome, connVars,
                 otherVars, asserted, left>>

\* The close signal: the other requests fail and the dispatcher ends.
PopTerm ==
  /\ turn = "drain"
  /\ dispatcher.at = "pop"
  /\ request # << >> /\ thread # << >>
  /\ Head(thread) = NoReq
  /\ LET rest == Tail(thread)
     IN  /\ Fail(Reached(rest))
         /\ request' = << >>
         /\ thread' = IF \A i \in DOMAIN rest : Awaited(rest[i]) THEN << >> ELSE rest
         /\ asserted' = (asserted \/ \E i \in DOMAIN rest : ~Awaited(rest[i]))
  /\ dispatcher' = NoDispatcher
  /\ UNCHANGED <<closed, socket, connecting, connector, wait_response, connVars, otherVars, left>>

PopWaits ==
  /\ turn = "drain"
  /\ dispatcher.at = "pop"
  /\ request = << >> \/ thread = << >>
  /\ wait_response' = TRUE
  /\ dispatcher' = [dispatcher EXCEPT !.at = "asleep"]
  /\ UNCHANGED <<closed, socket, connecting, connector, request, thread, pc, outcome, connVars,
                 otherVars, asserted, left>>

Readable(n) == n # NoConn /\ buffer[n] # << >>

\* The function, or _response, has read an answer.
Reads ==
  /\ turn = "drain"
  /\ dispatcher.at = "read"
  /\ Readable(dispatcher.conn)
  /\ buffer' = [buffer EXCEPT ![dispatcher.conn] = Tail(@)]
  /\ dispatcher' = [dispatcher EXCEPT !.at = "got", !.answer = Head(buffer[dispatcher.conn])]
  /\ UNCHANGED <<closed, socket, connecting, connector, pairVars, pc, outcome, conn, wire, answers,
                 nextConn, otherVars, asserted, left>>

\* The dispatcher goes on as long as there is a connection; queue is what is
\* left of _thread.
Loops(queue) ==
  /\ dispatcher' = IF socket = NoConn THEN NoDispatcher
                   ELSE IF by_session
                          THEN [NoDispatcher EXCEPT !.at = "read", !.conn = socket]
                          ELSE Popping
  /\ left' = (left \/ (socket = NoConn /\ queue # << >>))

Answer(r, a) ==
  /\ pc' = [pc EXCEPT ![r] = "woken"]
  /\ outcome' = [outcome EXCEPT ![r] = [is |-> "ok", answer |-> a]]

\* dispatch_by_order
AnswerByOrder ==
  /\ turn = "drain"
  /\ ~by_session
  /\ dispatcher.at = "got"
  /\ Awaited(dispatcher.token)
  /\ Answer(dispatcher.token, dispatcher.answer)
  /\ Loops(thread)
  /\ UNCHANGED <<closed, socket, connecting, connector, pairVars, connVars, otherVars, asserted>>

\* ... for a token that nobody waits for: the second wakeup, in the catch,
\* ends the dispatcher.
AnswerUnawaited ==
  /\ turn = "drain"
  /\ ~by_session
  /\ dispatcher.at = "got"
  /\ ~Awaited(dispatcher.token)
  /\ CloseSocket
  /\ dispatcher' = NoDispatcher
  /\ asserted' = TRUE
  /\ UNCHANGED <<closed, connecting, connector, pairVars, pc, outcome, wire, answers, nextConn,
                 otherVars, left>>

\* dispatch_by_session: an answer says whose it is.
AnswerBySession ==
  /\ turn = "drain"
  /\ by_session
  /\ dispatcher.at = "got"
  /\ LET a == dispatcher.answer
     IN  \/ /\ \E i \in DOMAIN thread : thread[i] = a /\ thread' = RemoveAt(thread, i)
            /\ Answer(a, a)
         \/ a \notin ToSet(thread) /\ UNCHANGED <<thread, pc, outcome>>
  /\ Loops(thread')
  /\ UNCHANGED <<closed, socket, connecting, connector, request, wait_response, connVars, otherVars,
                 asserted>>

\* The connection fails while an answer is read.
ReadFails ==
  /\ turn = "drain"
  /\ dispatcher.at = "read"
  /\ dispatcher.conn # NoConn => conn[dispatcher.conn] = "down"
  /\ CloseSocket
  /\ dispatcher' = NoDispatcher
  /\ IF by_session \/ Awaited(dispatcher.token)
       THEN /\ Fail(Reached(thread) \cup ({dispatcher.token} \ {NoReq}))
            /\ Cleared
       ELSE /\ asserted' = TRUE
            /\ UNCHANGED <<pairVars, pc, outcome, left>>
  /\ UNCHANGED <<closed, connecting, connector, wire, answers, nextConn, otherVars>>

-----------------------------------------------------------------------------
(***************************************************************************)
(* close(), change_host(), and the connections.                            *)
(***************************************************************************)

Close ==
  /\ ~closed
  /\ closes < MaxClose
  /\ closes' = closes + 1
  /\ TermDispatchThread
  /\ closed' = TRUE
  /\ CloseSocket
  /\ UNCHANGED <<connecting, connector, pc, outcome, wire, answers, nextConn, by_session, turn,
                 asserted, left>>

ChangeHost ==
  /\ ~closed
  /\ closes < MaxClose
  /\ closes' = closes + 1
  /\ CloseSocket
  /\ UNCHANGED <<closed, connecting, connector, dispatcher, pairVars, pc, outcome, wire, answers,
                 nextConn, by_session, turn, asserted, left>>

\* The peer: it answers, by order or as it likes, and may go.
Serve(n) ==
  /\ conn[n] = "up"
  /\ \E i \in DOMAIN wire[n] :
       /\ ~by_session => i = 1
       /\ answers' = [answers EXCEPT ![n] = Append(@, wire[n][i])]
       /\ wire' = [wire EXCEPT ![n] = RemoveAt(@, i)]
  /\ UNCHANGED <<closed, socket, connecting, connector, dispatcher, pairVars, pc, outcome, conn,
                 buffer, nextConn, otherVars, asserted, left>>

ConnGoes(n, from, to) ==
  /\ conn[n] = from
  /\ conn' = [conn EXCEPT ![n] = to]
  /\ UNCHANGED <<closed, socket, connecting, connector, dispatcher, pairVars, pc, outcome, wire,
                 answers, buffer, nextConn, otherVars, asserted, left>>

Breaks(n) == ConnGoes(n, "up", "broken")

\* The core's DATA and CLOSE, in order.
DataArrives(n) ==
  /\ turn = "dispatch"
  /\ answers[n] # << >>
  /\ answers' = [answers EXCEPT ![n] = Tail(@)]
  /\ buffer' = [buffer EXCEPT ![n] = Append(@, Head(answers[n]))]
  /\ UNCHANGED <<closed, socket, connecting, connector, dispatcher, pairVars, pc, outcome, conn,
                 wire, nextConn, otherVars, asserted, left>>

CloseArrives(n) ==
  /\ turn = "dispatch"
  /\ answers[n] = << >>
  /\ ConnGoes(n, "broken", "down")

\* The messages of a turn are dispatched; then what was settled resumes.
TurnSettles ==
  /\ turn = "dispatch"
  /\ turn' = "drain"
  /\ UNCHANGED <<closed, socket, connecting, connector, dispatcher, pairVars, pc, outcome, connVars,
                 by_session, closes, asserted, left>>

\* The core's reply to what a turn asked for comes in a later one.
TurnEnds ==
  /\ turn = "drain"
  /\ \A r \in Req : pc[r] \notin Due
  /\ dispatcher.at \notin {"pop", "got"}
  /\ dispatcher.at = "read" =>
       ~Readable(dispatcher.conn) /\ dispatcher.conn # NoConn /\ conn[dispatcher.conn] # "down"
  /\ turn' = "dispatch"
  /\ pc' = [r \in Req |-> IF pc[r] = "asking" THEN "opening" ELSE pc[r]]
  /\ UNCHANGED <<closed, socket, connecting, connector, dispatcher, pairVars, outcome, connVars,
                 by_session, closes, asserted, left>>

-----------------------------------------------------------------------------

Enters(r) ==
  /\ \A q \in 1 .. r - 1 : pc[q] # "idle"
  /\ Enter(r) \/ Queue(r) \/ Open(r)

Messages(r) == ConnectArrives(r) \/ ErrorArrives(r) \/ TimerArrives(r)

Continues(r) ==
  \/ Opens(r)
  \/ OpenFails(r)
  \/ Drains(r)
  \/ Rejoin(r)
  \/ Write(r)
  \/ WriteFails(r)
  \/ ConnectReturns(r)
  \/ Resume(r)

Dispatches ==
  \/ Pop
  \/ PopTerm
  \/ PopWaits
  \/ Reads
  \/ AnswerByOrder
  \/ AnswerUnawaited
  \/ AnswerBySession
  \/ ReadFails

Next ==
  \/ \E r \in Req : Enters(r) \/ Messages(r) \/ Continues(r)
  \/ Dispatches
  \/ Close
  \/ ChangeHost
  \/ \E n \in Conn : Serve(n) \/ Breaks(n) \/ DataArrives(n) \/ CloseArrives(n)
  \/ TurnSettles
  \/ TurnEnds

Spec == Init /\ [][Next]_vars

\* Turns are worked off, the mailbox is served, the core settles what it was
\* asked to open, and the server answers.
FairSpec ==
  /\ Spec
  /\ SF_vars(\E r \in Req : ConnectArrives(r) \/ ErrorArrives(r))
  /\ SF_vars(\E r \in Req : TimerArrives(r))
  /\ SF_vars(\E n \in Conn : DataArrives(n))
  /\ SF_vars(\E n \in Conn : CloseArrives(n))
  /\ WF_vars(\E r \in Req : Continues(r))
  /\ WF_vars(Dispatches)
  /\ WF_vars(\E n \in Conn : Serve(n))
  /\ WF_vars(TurnSettles \/ TurnEnds)

-----------------------------------------------------------------------------
(***************************************************************************)
(* Properties.                                                             *)
(***************************************************************************)

\* Until one of two things goes wrong: a wakeup fails, so that wakeup_all does
\* not come to clear _thread; or the connection is closed while the dispatcher
\* delivers an answer, so that it ends without wakeup_all.
InStep == ~asserted /\ ~left

\* A request that succeeds gets its own answer, over whatever connections
\* (dispatch_by_order, dispatch_by_session).
AnswerIsOwn == InStep => \A r \in Req : outcome[r].is = "ok" => outcome[r].answer = r

\* The queues of functions and of tokens go in step, and so does what the
\* dispatcher has taken from them (push_response, wakeup_all).
QueuesAligned ==
  InStep /\ ~by_session => request = thread /\ dispatcher.func = dispatcher.token

\* A waiting request is known to a dispatcher: none is left behind by a
\* connection that has gone (wakeup_all).
WaitingIsHeld ==
  InStep => \A r \in Req : pc[r] = "waiting" =>
    dispatch_thread /\ (r \in ToSet(thread) \/ r = dispatcher.token)

\* The queues of the channel are in step, and everyone who waits is in them.
ChannelInv == TypeOK /\ QueuesAligned /\ WaitingIsHeld

\* skynet.wakeup is called with tokens that somebody waits for (index.ts).
WakeupIsAwaited == ~asserted

\* The requests come to an end: they are not made without limit, and so none
\* may wait for ever (request, block_connect).
RequestEnds ==
  (\E r \in Req : pc[r] \notin {"idle", "done"}) ~>
    ((\A r \in Req : pc[r] \in {"idle", "done"}) \/ ~InStep)

=============================================================================
