-------------------------------- MODULE Dns --------------------------------
(***************************************************************************)
(* The resolver of ts/lib/skynet/skynet/dns.ts: a name is asked of one     *)
(* server after the other, over UDP with an id and a timer for each query, *)
(* and over TCP where the answer was truncated.  Names that are known from *)
(* the cache or the hosts file, and the wire format, are left out.         *)
(*                                                                         *)
(* Every resolver asks for a name of its own.  A turn dispatches messages; *)
(* then what they settled resumes.                                         *)
(***************************************************************************)
EXTENDS Integers, Sequences, SequencesExt

CONSTANTS
  MaxResolver, \* Bound: the calls of resolve().
  MaxServer,   \* The name servers.
  MaxBatch,    \* Bound: the messages dispatched in a turn.
  Retiree,     \* Bound: the servers whose sockets are retired.
  Truncator,   \* Bound: the servers that may answer that the answer is truncated.
  MAX_TID

ASSUME DnsAssumption ==
  /\ {MaxResolver, MaxServer, MaxBatch, MAX_TID} \subseteq Nat \ {0}
  /\ Retiree \cup Truncator \subseteq 1 .. MaxServer

Resolver == 1 .. MaxResolver
Nobody == 0

\* What resolve() may have returned, besides an answer.
Pending == 0
Fails == -1
Throws == -2

Server == 1 .. MaxServer
Tid == 1 .. MAX_TID

VARIABLES
  next_tid,
  pool,     \* request_pool: whose query an id is.
  servers,  \* dns_servers
  udp,      \* The socket of a server: "closed", or its retire is "fresh" or "expired".
  alive,    \* Its check_alive().
  timers,   \* The timers of the queries in progress: [tid, of, tcp].
  checks,   \* The ones that have fired, whose check() is to resume.
  sent,     \* The queries sent over the sockets of udp: [tid, of, to].
  pc,
  list,     \* The servers not yet placed; the first is being asked.
  good, bad,  \* valid_nameserver: before and after valid_amount.
  tid,
  req,      \* The REQUEST in progress: [result, error].
  fd,       \* Its TCP connection.
  read,     \* What has come over it: nothing, the length, all.
  down,     \* Whether its CLOSE has come.
  outcome,  \* What resolve() returned.
  turn      \* The messages that may still be dispatched; none once the turn is worked off.

idVars == <<next_tid, pool, tid>>
serverVars == <<servers, udp, alive>>
timerVars == <<timers, checks>>
listVars == <<list, good, bad>>
tcpVars == <<fd, read, down>>
vars == <<idVars, serverVars, timerVars, sent, pc, listVars, req, tcpVars, outcome, turn>>

Errors == {"none", "truncated", "error", "timeout", "closed"}

NoRequest == [result |-> Nobody, error |-> "none"]

Timer == [tid : Tid, of : Resolver, tcp : BOOLEAN]

PC == {"idle", "select", "asked", "told", "select tcp", "asking", "opening", "opened",
       "refused", "header", "body", "done"}

TypeOK ==
  /\ next_tid \in Tid
  /\ pool \in [Tid -> Resolver \cup {Nobody}]
  /\ servers \in Seq(Server)
  /\ udp \in [Server -> {"closed", "fresh", "expired"}]
  /\ alive \in [Server -> {"none", "asleep", "due"}]
  /\ timers \subseteq Timer
  /\ checks \subseteq Timer
  /\ sent \subseteq [tid : Tid, of : Resolver, to : Server]
  /\ pc \in [Resolver -> PC]
  /\ {list, good, bad} \subseteq [Resolver -> Seq(Server)]
  /\ tid \in [Resolver -> Tid]
  /\ req \in [Resolver -> [result : Resolver \cup {Nobody}, error : Errors]]
  /\ fd \in [Resolver -> {"none", "open", "zero"}]
  /\ read \in [Resolver -> 0 .. 2]
  /\ down \in [Resolver -> BOOLEAN]
  /\ outcome \in [Resolver -> {Pending, Fails, Throws} \cup Resolver]
  /\ turn \in 0 .. MaxBatch
  /\ \A s \in Server : udp[s] = "closed" <=> alive[s] = "none"

Init ==
  /\ next_tid = 1
  /\ pool = [t \in Tid |-> Nobody]
  /\ servers = [s \in Server |-> s]
  /\ udp = [s \in Server |-> "closed"]
  /\ alive = [s \in Server |-> "none"]
  /\ timers = {}
  /\ checks = {}
  /\ sent = {}
  /\ pc = [r \in Resolver |-> "idle"]
  /\ list = [r \in Resolver |-> << >>]
  /\ good = [r \in Resolver |-> << >>]
  /\ bad = [r \in Resolver |-> << >>]
  /\ tid = [r \in Resolver |-> 1]
  /\ req = [r \in Resolver |-> NoRequest]
  /\ fd = [r \in Resolver |-> "none"]
  /\ read = [r \in Resolver |-> 0]
  /\ down = [r \in Resolver |-> FALSE]
  /\ outcome = [r \in Resolver |-> Pending]
  /\ turn = MaxBatch

-----------------------------------------------------------------------------

\* A message of the batch is dispatched.
Dispatched ==
  /\ turn > 0
  /\ turn' = turn - 1

\* The id that gen_tid returns: the first of the cycle that is free.
Slot(i) == ((i + next_tid - 1) % MAX_TID) + 1
NewTid ==
  LET free == {i \in 0 .. MAX_TID - 1 : pool[Slot(i)] = Nobody}
  IN  Slot(CHOOSE i \in free : \A j \in free : i <= j)

GenTid(r) ==
  /\ tid' = [tid EXCEPT ![r] = NewTid]
  /\ next_tid' = (NewTid % MAX_TID) + 1

SelectServer(s) ==
  /\ udp' = [udp EXCEPT ![s] = "fresh"]
  /\ alive' = [alive EXCEPT ![s] = IF @ = "none" THEN "asleep" ELSE @]

\* remote_resolve asks a server, up to the await of select_server.
Select(r, s, at) ==
  /\ GenTid(r)
  /\ SelectServer(s)
  /\ pc' = [pc EXCEPT ![r] = at]

Resolve(r) ==
  /\ Dispatched
  /\ pc[r] = "idle"
  /\ \A q \in 1 .. r - 1 : pc[q] # "idle"
  /\ list' = [list EXCEPT ![r] = servers]
  /\ Select(r, Head(servers), "select")
  /\ UNCHANGED <<pool, servers, timerVars, sent, good, bad, req, tcpVars, outcome>>

\* udp_query, up to its await.
UdpQuery(r) ==
  /\ turn = 0
  /\ pc[r] = "select"
  /\ sent' = sent \cup {[tid |-> tid[r], of |-> r, to |-> Head(list[r])]}
  /\ pool' = [pool EXCEPT ![tid[r]] = r]
  /\ timers' = timers \cup {[tid |-> tid[r], of |-> r, tcp |-> FALSE]}
  /\ pc' = [pc EXCEPT ![r] = "asked"]
  /\ UNCHANGED <<next_tid, serverVars, checks, listVars, tid, req, tcpVars, outcome, turn>>

\* The servers that are placed now: the one that was asked, and behind one
\* that answers all that need not be asked any more.
Placed(r, result) == IF result = Nobody THEN <<Head(list[r])>> ELSE list[r]

\* The rest of the loop of remote_resolve when a server was asked: the next
\* one is asked, or all are placed and resolve() returns.
Proceed(r, result, error) ==
  LET placed == Placed(r, result)
      rest == IF result = Nobody THEN Tail(list[r]) ELSE << >>
      good2 == IF error = "timeout" THEN good[r] ELSE good[r] \o placed
      bad2 == IF error = "timeout" THEN bad[r] \o placed ELSE bad[r]
  IN  /\ list' = [list EXCEPT ![r] = rest]
      /\ \/ /\ rest # << >>
            /\ good' = [good EXCEPT ![r] = good2]
            /\ bad' = [bad EXCEPT ![r] = bad2]
            /\ Select(r, Head(rest), "select")
            /\ UNCHANGED <<servers, outcome>>
         \/ /\ rest = << >>
            /\ good' = [good EXCEPT ![r] = << >>]
            /\ bad' = [bad EXCEPT ![r] = << >>]
            /\ servers' = good2 \o bad2
            /\ outcome' = [outcome EXCEPT ![r] = IF result = Nobody THEN Fails ELSE result]
            /\ pc' = [pc EXCEPT ![r] = "done"]
            /\ UNCHANGED <<next_tid, tid, udp, alive>>

\* Faulty variant of Forget: the id stays in the pool.
ForgetNothing(r) == UNCHANGED pool

\* request_pool.delete(tid)
Forget(r) == pool' = [pool EXCEPT ![tid[r]] = Nobody]

\* The timer of a query that is over runs on in the code and finds nothing,
\* since its id is not used again meanwhile.
TimerIsMoot(r) == timers' = {t \in timers : t.of # r}

\* udp_query, after its await.
UdpReturns(r) ==
  /\ turn = 0
  /\ pc[r] = "told"
  /\ Forget(r)
  /\ \/ /\ req[r].error = "truncated"
        /\ Select(r, Head(list[r]), "select tcp")
        /\ UNCHANGED <<servers, listVars, outcome>>
     \/ /\ req[r].error # "truncated"
        /\ Proceed(r, req[r].result, req[r].error)
  /\ req' = [req EXCEPT ![r] = NoRequest]
  /\ TimerIsMoot(r)
  /\ UNCHANGED <<checks, sent, tcpVars, turn>>

-----------------------------------------------------------------------------
(***************************************************************************)
(* tcp_query                                                               *)
(***************************************************************************)

Goes(r, from, to) ==
  /\ pc[r] = from
  /\ pc' = [pc EXCEPT ![r] = to]

\* Up to the await of socket.open.
TcpQuery(r) ==
  /\ turn = 0
  /\ Goes(r, "select tcp", "asking")
  /\ UNCHANGED <<idVars, serverVars, timerVars, sent, listVars, req, tcpVars, outcome, turn>>

ConnectArrives(r) ==
  /\ Dispatched
  /\ Goes(r, "opening", "opened")
  /\ UNCHANGED <<idVars, serverVars, timerVars, sent, listVars, req, tcpVars, outcome>>

ErrorArrives(r) ==
  /\ Dispatched
  /\ Goes(r, "opening", "refused")
  /\ UNCHANGED <<idVars, serverVars, timerVars, sent, listVars, req, tcpVars, outcome>>

\* socket.open throws, and so does resolve(): no other server is asked.
TcpFails(r) ==
  /\ turn = 0
  /\ Goes(r, "refused", "done")
  /\ outcome' = [outcome EXCEPT ![r] = Throws]
  /\ UNCHANGED <<idVars, serverVars, timerVars, sent, listVars, req, tcpVars, turn>>

TcpOpened(r) ==
  /\ turn = 0
  /\ Goes(r, "opened", "header")
  /\ pool' = [pool EXCEPT ![tid[r]] = r]
  /\ timers' = timers \cup {[tid |-> tid[r], of |-> r, tcp |-> TRUE]}
  /\ fd' = [fd EXCEPT ![r] = "open"]
  /\ UNCHANGED <<next_tid, serverVars, checks, sent, listVars, tid, req, read, down, outcome, turn>>

Reading == {"header", "body"}

\* The core's DATA and CLOSE.
DataArrives(r) ==
  /\ Dispatched
  /\ pc[r] \in Reading /\ ~down[r]
  /\ read[r] < 2
  /\ \E n \in read[r] + 1 .. 2 : read' = [read EXCEPT ![r] = n]
  /\ UNCHANGED <<idVars, serverVars, timerVars, sent, pc, listVars, req, fd, down, outcome>>

CloseArrives(r) ==
  /\ Dispatched
  /\ pc[r] \in Reading
  /\ ~down[r]
  /\ down' = [down EXCEPT ![r] = TRUE]
  /\ UNCHANGED <<idVars, serverVars, timerVars, sent, pc, listVars, req, fd, read, outcome>>

\* tcp_release, and what tcp_query returns.
Release(r, result, error) ==
  /\ Forget(r)
  /\ req' = [req EXCEPT ![r] = NoRequest]
  /\ fd' = [fd EXCEPT ![r] = "none"]
  /\ read' = [read EXCEPT ![r] = 0]
  /\ down' = [down EXCEPT ![r] = FALSE]
  /\ TimerIsMoot(r)
  /\ Proceed(r, result, error)
  /\ UNCHANGED <<checks, sent, turn>>

\* The length has come.  A connection that the timer has closed meanwhile is
\* not in the pool of sockets: the second read fails an assertion.
ReadHeader(r) ==
  /\ turn = 0
  /\ pc[r] = "header"
  /\ read[r] >= 1
  /\ \/ /\ fd[r] = "open"
        /\ pc' = [pc EXCEPT ![r] = "body"]
        /\ UNCHANGED outcome
     \/ /\ fd[r] = "zero"
        /\ pc' = [pc EXCEPT ![r] = "done"]
        /\ outcome' = [outcome EXCEPT ![r] = Throws]
  /\ UNCHANGED <<idVars, serverVars, timerVars, sent, listVars, req, tcpVars, turn>>

\* The answer has come: unpack_response, response.
ReadBody(r) ==
  /\ turn = 0
  /\ pc[r] = "body"
  /\ read[r] = 2
  /\ \E ok \in BOOLEAN :
       LET answer == IF pool[tid[r]] # r THEN req[r]
                     ELSE [result |-> IF ok THEN r ELSE Nobody, error |-> IF ok THEN "none" ELSE "error"]
       IN  Release(r, answer.result, answer.error)

\* The timer has thrown the buffer of a closed connection away: taking the
\* answer out of it fails an assertion.
ReadThrows(r) ==
  /\ turn = 0
  /\ Goes(r, "body", "done")
  /\ read[r] = 2 /\ down[r] /\ fd[r] = "zero"
  /\ outcome' = [outcome EXCEPT ![r] = Throws]
  /\ UNCHANGED <<idVars, serverVars, timerVars, sent, listVars, req, tcpVars, turn>>

\* The connection is closed before that.
ReadFails(r) ==
  /\ turn = 0
  /\ down[r]
  /\ \/ pc[r] = "header" /\ read[r] < 1
     \/ pc[r] = "body" /\ read[r] < 2
  /\ Release(r, Nobody, IF req[r].error = "none" THEN "closed" ELSE req[r].error)

-----------------------------------------------------------------------------
(***************************************************************************)
(* Answers over UDP, timers and turns.                                     *)
(***************************************************************************)

\* Faulty variant of Wakeup: who waits with a token is taken for one without.
WakeupNobody(r) == UNCHANGED pc

\* skynet.wakeup(req.token), for a query over UDP.
Wakeup(r) == pc' = [pc EXCEPT ![r] = IF @ = "asked" THEN "told" ELSE @]

\* An answer over UDP to any query that was sent: it may be late, come twice,
\* or not at all.  response()
Packet(p, error) ==
  /\ Dispatched
  /\ udp[p.to] # "closed"
  /\ pool[p.tid] # Nobody
  /\ LET r == pool[p.tid]
     IN  /\ req' = [req EXCEPT ![r] = [result |-> IF error = "none" THEN p.of ELSE Nobody,
                                       error |-> error]]
         /\ Wakeup(r)
  /\ UNCHANGED <<idVars, serverVars, timerVars, sent, listVars, tcpVars, outcome>>

TimerArrives(t) ==
  /\ Dispatched
  /\ timers' = timers \ {t}
  /\ checks' = checks \cup {t}
  /\ UNCHANGED <<idVars, serverVars, sent, pc, listVars, req, tcpVars, outcome>>

\* check(), after its sleep.
Check(t) ==
  /\ turn = 0
  /\ checks' = checks \ {t}
  /\ LET r == pool[t.tid]
     IN  \/ /\ r # Nobody
            /\ pool' = [pool EXCEPT ![t.tid] = Nobody]
            /\ req' = [req EXCEPT ![r].error = "timeout"]
            /\ Wakeup(r)
            /\ fd' = [fd EXCEPT ![t.of] = IF t.tcp THEN "zero" ELSE @]
         \/ r = Nobody /\ UNCHANGED <<pool, req, pc, fd>>
  /\ UNCHANGED <<next_tid, serverVars, timers, sent, listVars, tid, read, down, outcome, turn>>

\* The time to retire a server's socket has come: not within the turn that
\* has just put it off.
Expires(s) ==
  /\ Dispatched
  /\ \A r \in Resolver : pc[r] # "select"
  /\ udp[s] = "fresh"
  /\ udp' = [udp EXCEPT ![s] = "expired"]
  /\ UNCHANGED <<idVars, servers, alive, timerVars, sent, pc, listVars, req, tcpVars, outcome>>

AliveTimerArrives(s) ==
  /\ Dispatched
  /\ alive[s] = "asleep"
  /\ alive' = [alive EXCEPT ![s] = "due"]
  /\ UNCHANGED <<idVars, servers, udp, timerVars, sent, pc, listVars, req, tcpVars, outcome>>

\* check_alive, after its sleep.
CheckAlive(s) ==
  /\ turn = 0
  /\ alive[s] = "due"
  /\ alive' = [alive EXCEPT ![s] = IF udp[s] = "expired" THEN "none" ELSE "asleep"]
  /\ udp' = [udp EXCEPT ![s] = IF @ = "expired" THEN "closed" ELSE @]
  /\ sent' = {p \in sent : p.to = s => udp[s] # "expired"}
  /\ UNCHANGED <<idVars, servers, timerVars, pc, listVars, req, tcpVars, outcome, turn>>

\* The batch may be shorter.
TurnSettles ==
  /\ turn \in 1 .. MaxBatch - 1
  /\ turn' = 0
  /\ UNCHANGED <<idVars, serverVars, timerVars, sent, pc, listVars, req, tcpVars, outcome>>

\* Whether r is about to resume.
Due(r) ==
  \/ pc[r] \in {"select", "told", "select tcp", "opened", "refused"}
  \/ pc[r] = "header" /\ (read[r] >= 1 \/ down[r])
  \/ pc[r] = "body" /\ (read[r] = 2 \/ down[r])

\* The core's reply to what a turn asked for comes in a later one.
TurnEnds ==
  /\ turn = 0
  /\ checks = {}
  /\ \A r \in Resolver : ~Due(r)
  /\ \A s \in Server : alive[s] # "due"
  /\ turn' = MaxBatch
  /\ pc' = [r \in Resolver |-> IF pc[r] = "asking" THEN "opening" ELSE pc[r]]
  /\ UNCHANGED <<idVars, serverVars, timerVars, sent, listVars, req, tcpVars, outcome>>

-----------------------------------------------------------------------------

Continues(r) ==
  \/ UdpQuery(r)
  \/ UdpReturns(r)
  \/ TcpQuery(r)
  \/ TcpFails(r)
  \/ TcpOpened(r)
  \/ ReadHeader(r)
  \/ ReadBody(r) \/ ReadThrows(r)
  \/ ReadFails(r)

Answers ==
  \E p \in sent, error \in {"none", "truncated", "error"} :
    (error = "truncated" => p.to \in Truncator) /\ Packet(p, error)

Next ==
  \/ \E r \in Resolver :
       \/ Resolve(r) \/ Continues(r)
       \/ ConnectArrives(r) \/ ErrorArrives(r) \/ DataArrives(r) \/ CloseArrives(r)
  \/ Answers
  \/ \E t \in timers : TimerArrives(t)
  \/ \E t \in checks : Check(t)
  \/ \E s \in Retiree : Expires(s) \/ AliveTimerArrives(s) \/ CheckAlive(s)
  \/ TurnSettles
  \/ TurnEnds

Spec == Init /\ [][Next]_vars

Works ==
  \/ \E r \in Resolver : Continues(r)
  \/ \E t \in checks : Check(t)
  \/ \E s \in Retiree : CheckAlive(s)
  \/ TurnSettles
  \/ TurnEnds

\* What the core owes.
MustArrive ==
  \/ \E t \in timers : TimerArrives(t)
  \/ \E r \in Resolver : \/ ConnectArrives(r)
                         \/ ErrorArrives(r)
                         \/ fd[r] = "zero" /\ CloseArrives(r)

\* Turns are worked off, timers fire, and the core answers socket.open and
\* closes what it was asked to close; the servers need not answer.
FairSpec == Spec /\ WF_vars(Works) /\ SF_vars(MustArrive)

-----------------------------------------------------------------------------
(***************************************************************************)
(* Properties.                                                             *)
(***************************************************************************)

\* resolve() returns an answer for the name that was asked, though answers
\* are told apart by their ids alone and come late, twice or after a timeout
\* (response, gen_tid).
AnswerIsOwn == \A r \in Resolver : outcome[r] \in {Pending, Fails, Throws, r}

\* An id belongs to a query in progress, or is free; and a query that waits
\* for its answer over UDP can be found by it (request_pool).
PoolIsCurrent ==
  /\ \A t \in Tid : pool[t] # Nobody =>
       tid[pool[t]] = t /\ pc[pool[t]] \in {"asked", "told", "header", "body"}
  /\ \A r \in Resolver : pc[r] = "asked" => pool[tid[r]] = r

\* No server is lost or doubled, however the calls that sort the list they
\* started from overlap (remote_resolve, set_dns_servers).
ServersKept ==
  \A l \in {servers} \cup {good[r] \o bad[r] \o list[r] : r \in {q \in Resolver : list[q] # << >>}} :
    Len(l) = MaxServer /\ ToSet(l) = Server

\* A server that was selected has its socket when it is written to, as
\* udp_query asserts, though check_alive may close it at any time.
UdpIsOpen == \A r \in Resolver : pc[r] = "select" => udp[Head(list[r])] # "closed"

\* The books of the queries, of the sockets they are sent over and of the servers
\* agree, and answers go to those who asked.
DnsInv == TypeOK /\ AnswerIsOwn /\ PoolIsCurrent /\ UdpIsOpen /\ ServersKept

\* Every resolve() returns, whatever is lost.
ResolveEnds ==
  (\E r \in Resolver : pc[r] \notin {"idle", "done"}) ~>
    (\A r \in Resolver : pc[r] \in {"idle", "done"})
=============================================================================
