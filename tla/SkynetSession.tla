--------------------------- MODULE SkynetSession ---------------------------
(***************************************************************************)
(* Requests and responses between services: the session bookkeeping of     *)
(* ts/lib/skynet/skynet/index.ts.                                          *)
(*                                                                         *)
(* A service is one JavaScript thread.  It takes the messages of its       *)
(* mailbox one at a time; a handler that awaits leaves the thread to the   *)
(* next message, so any number of handlers and of outgoing calls are open  *)
(* at once.  Who is waiting for whom is recorded only in the maps          *)
(* session_id_callback, watching_request, watching_response, unresponse.   *)
(* The mailboxes, the sessions they allocate and the fate of the messages  *)
(* of a dead service belong to the skynet core, which is external.         *)
(***************************************************************************)
EXTENDS Integers, Sequences, FiniteSets

CONSTANTS
  Service,       \* The handles of the services.
  NoAddr,        \* An absent entry of a map from sessions to addresses.
  Named,         \* The services that callers address by name, not by handle.
  CanCall,       \* Pairs <<caller, callee>> of services.
  MayExit,       \* Bound: the services that call exit().
  FirstSession,  \* The first session that the core will allocate to each service.
  MaxCalls,      \* Bound: the calls that each service makes.
  MaxSession,    \* Bound: the largest session.
  MaxBatch       \* The most messages a worker hands to a service in a round.

CallId  == 1 .. MaxCalls
Session == 1 .. MaxSession
Key     == 0 .. MaxSession     \* 0 is the null key of a call whose send failed.
NoCall  == 0

ASSUME ServiceAssumption ==
  /\ NoAddr \notin Service
  /\ Named \subseteq Service
  /\ CanCall \subseteq Service \X Service
  /\ MayExit \subseteq Service

ASSUME BoundAssumption ==
  /\ MaxCalls \in Nat \ {0}
  /\ MaxSession \in Nat \ {0}
  /\ MaxBatch \in Nat \ {0}
  /\ FirstSession \in [Service -> Session]
  /\ \A s \in Service : FirstSession[s] + MaxCalls <= MaxSession + 1

VARIABLES
  status,               \* The life of a service, from the core's side.
  rest,                 \* Messages of the round left when the service exited.
  mailbox,              \* The messages waiting for each service, in order.
  nextSession,          \* The next session the core allocates to a service.
  call,                 \* The activations of _yield_call.
  session_id_callback,  \* session -> the call whose promise it settles.
  watching_request,     \* session of a call -> the service called.
  watching_response,    \* session of a request -> the service that asked.
  unresponse,           \* The closures of response() that are not used yet.
  handler,              \* The activations of dispatch_message_impl.
  tail,                 \* ERROR dispatches whose await has not resumed, by session.
  excused               \* History: requests that exit() or an equal session has lost.

coreVars   == <<status, rest, mailbox>>
callerVars == <<nextSession, call, session_id_callback, watching_request>>
calleeVars == <<watching_response, unresponse, handler, tail, excused>>
vars       == <<coreVars, callerVars, calleeVars>>

Request   == Service \X Session
Message   == [type : {"REQUEST", "RESPONSE", "ERROR"}, session : Key, source : Service]
CallState == {"idle", "waiting", "resolved", "rejected", "returned", "failed"}
CallFrame == [state : CallState, session : Key, addr : Service \cup {NoAddr}]

(***************************************************************************)
(* A handler is "running" until it answers (ret, or response for later);   *)
(* "answered" until it ends; then "done".  One that ends unanswered either *)
(* returned ("forgot") or threw ("threw"); a request that no protocol      *)
(* handles is "refused".                                                   *)
(***************************************************************************)
HandlerState == {"none", "running", "answered", "done", "forgot", "threw", "refused"}

NoFrame == [state |-> "idle", session |-> 0, addr |-> NoAddr]

TypeOK ==
  /\ status \in [Service -> {"up", "reporting", "exiting", "gone"}]
  /\ rest \in [Service -> Nat]
  /\ mailbox \in [Service -> Seq(Message)]
  /\ nextSession \in [Service -> Nat]
  /\ call \in [Service -> [CallId -> CallFrame]]
  /\ session_id_callback \in [Service -> [Key -> CallId \cup {NoCall}]]
  /\ watching_request \in [Service -> [Key -> Service \cup {NoAddr}]]
  /\ watching_response \in [Service -> [Session -> Service \cup {NoAddr}]]
  /\ unresponse \in [Service -> SUBSET Request]
  /\ handler \in [Service -> [Request -> HandlerState]]
  /\ tail \in [Service -> [Session -> Nat]]
  /\ excused \in [Service -> SUBSET Request]

Init ==
  /\ status = [s \in Service |-> "up"]
  /\ rest = [s \in Service |-> 0]
  /\ mailbox = [s \in Service |-> << >>]
  /\ nextSession = FirstSession
  /\ call = [s \in Service |-> [i \in CallId |-> NoFrame]]
  /\ session_id_callback = [s \in Service |-> [n \in Key |-> NoCall]]
  /\ watching_request = [s \in Service |-> [n \in Key |-> NoAddr]]
  /\ watching_response = [s \in Service |-> [n \in Session |-> NoAddr]]
  /\ unresponse = [s \in Service |-> {}]
  /\ handler = [s \in Service |-> [r \in Request |-> "none"]]
  /\ tail = [s \in Service |-> [n \in Session |-> 0]]
  /\ excused = [s \in Service |-> {}]

-----------------------------------------------------------------------------
(***************************************************************************)
(* The core: sends, which fail once the destination has retired its        *)
(* handle, and the round of messages a worker takes from a mailbox.        *)
(***************************************************************************)

Accepts(x) == status[x] \in {"up", "reporting"}

\* The service's JavaScript may run; inside exit() it runs nothing else.
Runs(s) == status[s] \in {"up", "exiting"}

\* box after a send of m to x
Posted(box, x, m) ==
  IF Accepts(x) THEN [box EXCEPT ![x] = Append(@, m)] ELSE box

Post(x, m) == mailbox' = Posted(mailbox, x, m)

\* mailbox after s has taken its first message
Popped(s) == [mailbox EXCEPT ![s] = Tail(@)]

\* Faulty variant of Takes: no account of where the round ends.
TakesPastRound(s) ==
  /\ mailbox[s] # << >>
  /\ status[s] \in {"up", "exiting"}
  /\ rest' = [rest EXCEPT ![s] = IF status[s] = "exiting" THEN @ - 1 ELSE @]
  /\ UNCHANGED status

\* s takes its first message for dispatch.  After exit() a service still
\* dispatches the rest of the round it was handed.
Takes(s) ==
  /\ mailbox[s] # << >>
  /\ \/ status[s] = "up" /\ UNCHANGED rest
     \/ status[s] = "exiting" /\ rest[s] > 0 /\ rest' = [rest EXCEPT ![s] = @ - 1]
  /\ UNCHANGED status

\* A retired service is gone once its round is over.
Retire(s) ==
  /\ status[s] = "exiting"
  /\ rest[s] = 0
  /\ status' = [status EXCEPT ![s] = "gone"]
  /\ UNCHANGED <<rest, mailbox, callerVars, calleeVars>>

\* The mailbox of a service that is gone is dropped: the source of each
\* message is told, with an ERROR of session 0, that the service is down.
DropMessage(s) ==
  /\ status[s] = "gone"
  /\ mailbox[s] # << >>
  /\ mailbox' = Posted(Popped(s), Head(mailbox[s]).source,
                       [type |-> "ERROR", session |-> 0, source |-> s])
  /\ UNCHANGED <<status, rest, callerVars, calleeVars>>

-----------------------------------------------------------------------------
(***************************************************************************)
(* The caller: call and _yield_call.                                       *)
(***************************************************************************)

Idle(c, i) == call[c][i].state = "idle" /\ \A j \in CallId : j < i => call[c][j].state # "idle"

\* call(): send the request, record who is called, await the promise.
\* A send that fails gives the session null, and the call waits all the same.
Call(c, d) ==
  \E i \in CallId :
    LET n == IF Accepts(d) THEN nextSession[c] ELSE 0 IN
    /\ Runs(c)
    /\ <<c, d>> \in CanCall
    /\ Idle(c, i)
    /\ nextSession' = [nextSession EXCEPT ![c] = @ + 1]
    /\ Post(d, [type |-> "REQUEST", session |-> n, source |-> c])
    /\ session_id_callback' = [session_id_callback EXCEPT ![c][n] = i]
    /\ watching_request' = [watching_request EXCEPT ![c][n] = d]
    /\ call' = [call EXCEPT ![c][i] = [state |-> "waiting", session |-> n, addr |-> d]]
    /\ UNCHANGED <<status, rest, calleeVars>>

\* The await of _yield_call resumes: finally takes the call off the books.
Continue(c, i) ==
  LET n == call[c][i].session
  IN  /\ Runs(c)
      /\ \/ /\ call[c][i].state = "resolved"
            /\ call' = [call EXCEPT ![c][i].state = "returned"]
         \/ /\ call[c][i].state = "rejected"
            /\ call' = [call EXCEPT ![c][i].state = "failed"]
      /\ watching_request' = [watching_request EXCEPT ![c][n] = NoAddr]
      /\ session_id_callback' = [session_id_callback EXCEPT ![c][n] = NoCall]
      /\ UNCHANGED <<coreVars, nextSession, calleeVars>>

\* Faulty variant of DispatchResponse: the entry of a settled promise stays.
DispatchResponseKeepingEntry(s) ==
  LET m == Head(mailbox[s])
      i == session_id_callback[s][m.session]
  IN  /\ Takes(s)
      /\ m.type = "RESPONSE"
      /\ mailbox' = Popped(s)
      /\ call' = IF i = NoCall THEN call ELSE [call EXCEPT ![s][i].state = "resolved"]
      /\ UNCHANGED <<session_id_callback, nextSession, watching_request, calleeVars>>

\* A RESPONSE settles the promise of its session.  With no such session the
\* dispatch throws, and that is all.
DispatchResponse(s) ==
  LET m == Head(mailbox[s])
      i == session_id_callback[s][m.session]
  IN  /\ Takes(s)
      /\ m.type = "RESPONSE"
      /\ mailbox' = Popped(s)
      /\ \/ i = NoCall /\ UNCHANGED <<session_id_callback, call>>
         \/ /\ i # NoCall
            /\ session_id_callback' = [session_id_callback EXCEPT ![s][m.session] = NoCall]
            /\ call' = [call EXCEPT ![s][i].state = "resolved"]
      /\ UNCHANGED <<nextSession, watching_request, calleeVars>>

-----------------------------------------------------------------------------
(***************************************************************************)
(* _error_dispatch: an ERROR of a session fails one call, an ERROR of      *)
(* session 0 every call to a service that is down.                         *)
(***************************************************************************)

\* Faulty variant of Reject: the entries of the rejected promises stay.
RejectKeepingEntry(s, K) ==
  LET failed == {session_id_callback[s][n] : n \in K} \ {NoCall}
  IN  /\ UNCHANGED session_id_callback
      /\ call' = [call EXCEPT ![s] = [i \in CallId |->
                    IF i \in failed THEN [@[i] EXCEPT !.state = "rejected"] ELSE @[i]]]

\* The promises of the sessions K of s are rejected.
Reject(s, K) ==
  LET failed == {session_id_callback[s][n] : n \in K} \ {NoCall}
  IN  /\ session_id_callback' = [session_id_callback EXCEPT ![s] =
                                   [n \in Key |-> IF n \in K THEN NoCall ELSE @[n]]]
      /\ call' = [call EXCEPT ![s] = [i \in CallId |->
                    IF i \in failed THEN [@[i] EXCEPT !.state = "rejected"] ELSE @[i]]]

\* Faulty variant of IgnoreRet: one lost answer clears the whole map.
IgnoreAllRets(s, K) ==
  watching_response' = [watching_response EXCEPT ![s] =
                          IF K = {} THEN @ ELSE [n \in Session |-> NoAddr]]

\* ignoreret of the sessions K.  The sessions of an ERROR are the service's
\* own; the keys of watching_response are those of other services.
IgnoreRet(s, K) ==
  watching_response' = [watching_response EXCEPT ![s] =
                          [n \in Session |-> IF n \in K THEN NoAddr ELSE @[n]]]

\* A service's own sessions are ignored in the place of its callers': of the
\* requests that have such a session and no answer, nobody keeps account then.
IgnoreOwn(s, K) ==
  /\ IgnoreRet(s, K)
  /\ excused' = [excused EXCEPT ![s] = @ \cup
                   {r \in Request : r[2] \in K /\ handler[s][r] \in {"running", "threw"}}]

\* The sessions of s that wait for x.  A call by name records the name,
\* which never equals the handle x.
WaitingFor(s, x) == {n \in Key : watching_request[s][n] = x /\ x \notin Named}

\* _error_dispatch(0, x)
SourceDown(s, x) ==
  LET K == WaitingFor(s, x)
  IN  /\ unresponse' = [unresponse EXCEPT ![s] = {r \in @ : r[1] # x}]
      /\ watching_request' = [watching_request EXCEPT ![s] =
                                [n \in Key |-> IF n \in K THEN NoAddr ELSE @[n]]]
      /\ Reject(s, K)
      /\ IgnoreOwn(s, K)

\* _error_dispatch(n, x) for n # 0.  The ERROR is dispatched as a request
\* is: its session enters watching_response, is deleted here, and is deleted
\* once more when the await of dispatch_message_impl resumes.
DispatchError(s) ==
  LET m == Head(mailbox[s])
  IN  /\ Takes(s)
      /\ m.type = "ERROR"
      /\ mailbox' = Popped(s)
      /\ \/ /\ m.session = 0
            /\ SourceDown(s, m.source)
            /\ UNCHANGED tail
         \/ /\ m.session # 0
            /\ Reject(s, {m.session})
            /\ IgnoreOwn(s, {m.session})
            /\ tail' = [tail EXCEPT ![s][m.session] = @ + 1]
            /\ UNCHANGED <<watching_request, unresponse>>
      /\ UNCHANGED <<nextSession, handler>>

ErrorTail(s, n) ==
  /\ Runs(s)
  /\ tail[s][n] > 0
  /\ tail' = [tail EXCEPT ![s][n] = @ - 1]
  /\ IgnoreOwn(s, {n})
  /\ UNCHANGED <<coreVars, callerVars, unresponse, handler>>

\* term(): the application learned that x is down.
Term(s, x) ==
  /\ Runs(s)
  /\ ~Accepts(x)
  /\ SourceDown(s, x)
  /\ UNCHANGED <<coreVars, nextSession, handler, tail>>

-----------------------------------------------------------------------------
(***************************************************************************)
(* The callee: dispatch_message_impl, ret and response.                    *)
(***************************************************************************)

\* The requests of other services with the session of r whose handlers at s
\* are in one of the states S.
Beside(s, r, S) == {q \in Request : q # r /\ q[2] = r[2] /\ handler[s][q] \in S}

\* A request is dispatched: its session enters watching_response and the
\* handler starts.  With no protocol for it the caller gets an ERROR.  There is
\* one entry for a session: it is taken from requests that are unanswered, and
\* will go when a handler that is beside this one ends.
DispatchRequest(s) ==
  LET m == Head(mailbox[s])
      r == <<m.source, m.session>>
      lost == ~ Accepts(s) \/ Beside(s, r, {"running", "answered"}) # {}
  IN  /\ Takes(s)
      /\ m.type = "REQUEST"
      /\ \/ /\ watching_response' = [watching_response EXCEPT ![s][m.session] = m.source]
            /\ handler' = [handler EXCEPT ![s][r] = "running"]
            /\ excused' = [excused EXCEPT ![s] = @ \cup (IF lost THEN {r} ELSE {})
                                                 \cup Beside(s, r, {"running", "threw"})]
            /\ mailbox' = Popped(s)
         \/ /\ handler' = [handler EXCEPT ![s][r] = "refused"]
            /\ mailbox' = Posted(Popped(s), m.source,
                                 [type |-> "ERROR", session |-> m.session, source |-> s])
            /\ UNCHANGED <<watching_response, excused>>
      /\ UNCHANGED <<callerVars, unresponse, tail>>

\* ret(): answer the request, with an ERROR when the answer is too large.
Ret(s, r) ==
  /\ Runs(s)
  /\ handler[s][r] = "running"
  /\ handler' = [handler EXCEPT ![s][r] = "answered"]
  /\ IgnoreRet(s, {r[2]})
  /\ \E type \in {"RESPONSE", "ERROR"} :
       Post(r[1], [type |-> type, session |-> r[2], source |-> s])
  /\ UNCHANGED <<status, rest, callerVars, unresponse, tail, excused>>

\* response(): the closure answers later.  It asserts that the session is
\* watched; when it is not, the assertion ends the handler.
Response(s, r) ==
  /\ Runs(s)
  /\ handler[s][r] = "running"
  /\ IF watching_response[s][r[2]] # NoAddr
       THEN /\ handler' = [handler EXCEPT ![s][r] = "answered"]
            /\ IgnoreRet(s, {r[2]})
            /\ unresponse' = [unresponse EXCEPT ![s] = @ \cup {r}]
       ELSE /\ handler' = [handler EXCEPT ![s][r] = "threw"]
            /\ UNCHANGED <<watching_response, unresponse>>
  /\ UNCHANGED <<coreVars, callerVars, tail, excused>>

\* The closure is used: RESPONSE, or ERROR if not ok or too large.  A closure
\* that is no longer in unresponse does nothing.
Respond(s, r) ==
  /\ Runs(s)
  /\ r \in unresponse[s]
  /\ unresponse' = [unresponse EXCEPT ![s] = @ \ {r}]
  /\ \E type \in {"RESPONSE", "ERROR"} :
       Post(r[1], [type |-> type, session |-> r[2], source |-> s])
  /\ UNCHANGED <<status, rest, callerVars, watching_response, handler, tail, excused>>

\* The handler's promise resolves: a session that is still watched is
\* taken for a forgotten answer.
HandlerReturn(s, r) ==
  /\ Runs(s)
  /\ \/ handler[s][r] = "running" /\ handler' = [handler EXCEPT ![s][r] = "forgot"]
     \/ handler[s][r] = "answered" /\ handler' = [handler EXCEPT ![s][r] = "done"]
  /\ IgnoreRet(s, {r[2]})
  /\ UNCHANGED <<coreVars, callerVars, unresponse, tail, excused>>

\* The handler's promise rejects: nothing after the await runs.
HandlerThrow(s, r) ==
  /\ Runs(s)
  /\ \/ handler[s][r] = "running" /\ handler' = [handler EXCEPT ![s][r] = "threw"]
     \/ handler[s][r] = "answered" /\ handler' = [handler EXCEPT ![s][r] = "done"]
  /\ UNCHANGED <<coreVars, callerVars, watching_response, unresponse, tail, excused>>

-----------------------------------------------------------------------------
(***************************************************************************)
(* exit(): the reports, in the order of the code.  The other services run  *)
(* while it sends them.                                                    *)
(***************************************************************************)

Watched(s)  == {n \in Session : watching_response[s][n] # NoAddr}
Awaited(s)  == {watching_request[s][n] : n \in Key} \ {NoAddr}

ExitBegin(s) ==
  /\ s \in MayExit
  /\ status[s] = "up"
  /\ status' = [status EXCEPT ![s] = "reporting"]
  /\ UNCHANGED <<rest, mailbox, callerVars, calleeVars>>

\* An ERROR of its session to each source that calls me.
ReportCaller(s) ==
  \E n \in Watched(s) :
    /\ status[s] = "reporting"
    /\ Post(watching_response[s][n], [type |-> "ERROR", session |-> n, source |-> s])
    /\ IgnoreRet(s, {n})
    /\ UNCHANGED <<status, rest, callerVars, unresponse, handler, tail, excused>>

\* Faulty variant of ReportDeferred: the closures are dropped unused.
ReportDeferredNever(s) ==
  /\ status[s] = "reporting"
  /\ unresponse[s] # {}
  /\ unresponse' = [unresponse EXCEPT ![s] = {}]
  /\ UNCHANGED <<coreVars, callerVars, watching_response, handler, tail, excused>>

\* resp(false) of each closure that is not used yet.
ReportDeferred(s) ==
  \E r \in unresponse[s] :
    /\ status[s] = "reporting"
    /\ Watched(s) = {}
    /\ Post(r[1], [type |-> "ERROR", session |-> r[2], source |-> s])
    /\ unresponse' = [unresponse EXCEPT ![s] = @ \ {r}]
    /\ UNCHANGED <<status, rest, callerVars, watching_response, handler, tail, excused>>

\* Faulty variant of ReportCallee: the session of the call instead of 0.
ReportCalleeOwnSession(s) ==
  \E n \in Key :
    /\ watching_request[s][n] # NoAddr
    /\ status[s] = "reporting"
    /\ Post(watching_request[s][n], [type |-> "ERROR", session |-> n, source |-> s])
    /\ watching_request' = [watching_request EXCEPT ![s][n] = NoAddr]
    /\ UNCHANGED <<status, rest, nextSession, call, session_id_callback, calleeVars>>

\* One ERROR of session 0 to each service that I call.
ReportCallee(s) ==
  \E x \in Awaited(s) :
    /\ status[s] = "reporting"
    /\ Watched(s) = {}
    /\ unresponse[s] = {}
    /\ Post(x, [type |-> "ERROR", session |-> 0, source |-> s])
    /\ watching_request' = [watching_request EXCEPT ![s] =
                              [n \in Key |-> IF @[n] = x THEN NoAddr ELSE @[n]]]
    /\ UNCHANGED <<status, rest, nextSession, call, session_id_callback, calleeVars>>

\* Faulty variant of ExitEnd: the handle is retired before the reports.
ExitEndEarly(s) ==
  /\ status[s] = "reporting"
  /\ status' = [status EXCEPT ![s] = "exiting"]
  /\ UNCHANGED <<rest, mailbox, callerVars, calleeVars>>

\* skynet_rt.exit(): the handle is retired.
ExitEnd(s) ==
  /\ status[s] = "reporting"
  /\ Watched(s) = {}
  /\ unresponse[s] = {}
  /\ Awaited(s) = {}
  /\ status' = [status EXCEPT ![s] = "exiting"]
  /\ \E k \in 0 .. MaxBatch - 1 :
       /\ k <= Len(mailbox[s])
       /\ rest' = [rest EXCEPT ![s] = k]
  /\ UNCHANGED <<mailbox, callerVars, calleeVars>>

-----------------------------------------------------------------------------

Dispatch(s) == DispatchResponse(s) \/ DispatchError(s) \/ DispatchRequest(s)

Report(s) == ReportCaller(s) \/ ReportDeferred(s) \/ ReportCallee(s) \/ ExitEnd(s)

Handle(s, r) ==
  \/ Ret(s, r) \/ Response(s, r) \/ Respond(s, r)
  \/ HandlerReturn(s, r) \/ HandlerThrow(s, r)

Next ==
  \E s \in Service :
    \/ Dispatch(s)
    \/ Report(s)
    \/ ExitBegin(s)
    \/ Retire(s)
    \/ DropMessage(s)
    \/ \E d \in Service : Call(s, d) \/ Term(s, d)
    \/ \E i \in CallId : Continue(s, i)
    \/ \E n \in Session : ErrorTail(s, n)
    \/ \E r \in Request : Handle(s, r)

Spec == Init /\ [][Next]_vars

\* What the scheduler owes: mailboxes are served and dropped, awaits resume,
\* and exit() goes through.  Nothing is assumed of the application.
Fairness ==
  \A s \in Service :
    /\ WF_vars(Dispatch(s))
    /\ WF_vars(Report(s))
    /\ WF_vars(Retire(s))
    /\ WF_vars(DropMessage(s))
    /\ \A i \in CallId : WF_vars(Continue(s, i))

FairSpec == Spec /\ Fairness

-----------------------------------------------------------------------------
(***************************************************************************)
(* Properties.                                                             *)
(***************************************************************************)

\* A call of c that was sent and is not settled, while c has not exited.
Waiting(c, i) ==
  /\ status[c] = "up"
  /\ call[c][i].state = "waiting"
  /\ call[c][i].session # 0

\* A message that will settle the call i of c is in c's mailbox.
Decides(m, c, i) ==
  LET f == call[c][i]
  IN  /\ m.type # "REQUEST"
      /\ m.source = f.addr
      /\ m.session = f.session \/ (m.session = 0 /\ m.type = "ERROR" /\ f.addr \notin Named)

Coming(c, i) == \E k \in 1 .. Len(mailbox[c]) : Decides(mailbox[c][k], c, i)

\* The request is still in the mailbox of d.
Asked(c, n, d) ==
  \E k \in 1 .. Len(mailbox[d]) :
    mailbox[d][k] = [type |-> "REQUEST", session |-> n, source |-> c]

\* d will answer r, or report to its source when it exits.
Owed(d, r) ==
  /\ Accepts(d)
  /\ watching_response[d][r[2]] = r[1] \/ r \in unresponse[d]

\* The maps of a caller agree with its open calls: a promise is registered
\* exactly while it is unsettled, the callee stays watched so that its death
\* reaches the call, and a finished call leaves nothing behind.
\* (session_id_callback, watching_request: _yield_call, _error_dispatch.)
CallBookkeeping ==
  \A c \in Service, i \in CallId :
    LET f == call[c][i]
    IN  f.session # 0 =>
          /\ session_id_callback[c][f.session] = i <=> f.state = "waiting"
          /\ Waiting(c, i) => watching_request[c][f.session] = f.addr
          /\ f.state \in {"returned", "failed"} => watching_request[c][f.session] = NoAddr

\* dispatch_message_impl settles a promise by the session alone, whatever
\* the source of the message: only the service called may have sent it.
ReplyFromCallee ==
  \A c \in Service : \A k \in 1 .. Len(mailbox[c]) :
    LET m == mailbox[c][k]
        i == session_id_callback[c][m.session]
    IN  m.type # "REQUEST" /\ m.session # 0 /\ i # NoCall => call[c][i].addr = m.source

\* A call that waits is never orphaned: its request is in the callee's
\* mailbox, or the callee has it on the books that ret, response and exit()
\* answer from, or the answer is on its way.  Excepted are the requests that
\* a handler forgot (logged), those dispatched after exit(), those that were
\* sent by name to a mailbox that was dropped, and those that were at the callee
\* together with another of the same session (index.ts:214), or with an ERROR
\* for a call of its own of the same session (index.ts:98).
NoCallOrphaned ==
  \A c \in Service, i \in CallId :
    Waiting(c, i) =>
      LET d == call[c][i].addr
          r == <<c, call[c][i].session>>
      IN  \/ Asked(c, r[2], d)
          \/ Coming(c, i)
          \/ Owed(d, r)
          \/ handler[d][r] = "forgot"
          \/ r \in excused[d]
          \/ d \in Named /\ status[d] = "gone"

\* A handler that has not answered yet may call response(): its assertion
\* that the session is watched holds (index.ts:408).  The code does not keep it.
ResponseHasSession ==
  \A s \in Service, r \in Request :
    status[s] = "up" /\ handler[s][r] = "running" => watching_response[s][r[2]] # NoAddr

\* What it keeps: the session is watched until the handler answers, and for the
\* source of the request, unless another request of the same session, or an
\* ERROR for a call of the service's own, comes while the handler runs.
SessionIsKept ==
  \A s \in Service, r \in Request :
    status[s] = "up" /\ handler[s][r] = "running" /\ r \notin excused[s]
      => watching_response[s][r[2]] = r[1]

\* Every call to a service that is gone comes to an end (unless the caller
\* exits too): exit() and the dropped mailbox leave nobody waiting but whom
\* NoCallOrphaned excepts.
GoneCalleeSettles ==
  \A c \in Service, i \in CallId, d \in Service \ Named :
    LET r == <<c, call[c][i].session>>
    IN  /\ Waiting(c, i)
        /\ call[c][i].addr = d
        /\ status[d] = "gone"
        /\ handler[d][r] # "forgot"
        /\ r \notin excused[d]
        ~> call[c][i].state \in {"returned", "failed"} \/ status[c] # "up"

=============================================================================
