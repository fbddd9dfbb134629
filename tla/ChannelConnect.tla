--------------------------- MODULE ChannelConnect ---------------------------
(***************************************************************************)
(* How the class Channel of ts/lib/skynet/skynet/socket/channel.ts gets a  *)
(* connection that several tasks ask for: block_connect, try_connect,      *)
(* connect_once with its backup addresses, and the authentication, an      *)
(* application's function that sends requests over the new connection and  *)
(* may move the channel to another host.  Channel has what is sent over a  *)
(* connection once it is there.                                            *)
(*                                                                         *)
(* A channel without auth is one whose auth returns at once.  The dis-     *)
(* patcher only matters as something that ends when its connection does.   *)
(***************************************************************************)
EXTENDS Integers, Sequences, FiniteSets, SequencesExt

CONSTANTS
  MaxAddr,    \* The addresses are 1 .. MaxAddr.
  MaxBackup,  \* Bound: the backup addresses at a time.
  MaxTask,    \* Bound: the calls of request(), response() and connect().
  MaxFaults,  \* Bound: the opens that fail, connections lost, auths that throw.
  MaxMoves,   \* Bound: the calls of close(), change_host() and change_backup().
  MaxAsks     \* Bound: the requests of auth.

Addr == 1 .. MaxAddr
NoAddr == 0
Task == 1 .. MaxTask
NoTask == 0

\* What _backup can be: addresses in some order, none twice.
Backups == {b \in SeqOf(Addr, MaxBackup) : IsInjective(b)}

VARIABLES
  host,             \* _host and _port
  backup,           \* _backup
  closed,           \* _closed
  socket,           \* _socket: "none", "up", or "down" when the peer has closed it.
  peer,             \* The address it is connected to.
  connector,        \* Who connects, while _connecting is defined.
  task,             \* [at, once, told] of each call of block_connect.
  at,               \* Where the connector is.
  addr,             \* The address it connects to.
  addr_set,         \* The backup addresses this connect_once has listed ...
  addr_list,        \* ... and those of them that are still to be tried.
  dispatch_thread,  \* _dispatch_thread
  auth,             \* "none", "runs", "waits" (for an answer), "done", "failed" or "stuck".
  budget,           \* What may still happen.
  past              \* History: the addresses tried, and whether a change_host() was missed.

connectVars == <<host, backup, closed, socket, peer, connector, task, at, addr,
                 addr_set, addr_list, dispatch_thread, auth, budget, past>>
hostVars == <<host, backup, closed>>
wayVars == <<at, addr, addr_set, addr_list, past>>

Init ==
  /\ host \in Addr /\ backup \in Backups
  /\ closed = FALSE /\ socket = "none" /\ peer = NoAddr
  /\ connector = NoTask /\ at = "idle" /\ addr = NoAddr
  /\ task = [t \in Task |-> [at |-> "idle", once |-> FALSE, told |-> "none"]]
  /\ addr_set = {} /\ addr_list = << >>
  /\ dispatch_thread = FALSE /\ auth = "none"
  /\ budget = [faults |-> MaxFaults, moves |-> MaxMoves, asks |-> MaxAsks]
  /\ past = [tried |-> << >>, moved |-> FALSE]

Spend(what) == budget[what] > 0 /\ budget' = [budget EXCEPT ![what] = @ - 1]

\* close_channel_socket
CloseSocket == socket' = "none" /\ peer' = NoAddr

-----------------------------------------------------------------------------
(* block_connect.                                                          *)

Told(t, told) == task' = [task EXCEPT ![t].at = "done", ![t].told = told]

\* check_connect finds a connection - also one that auth is not done with - or
\* a closed channel, which connect() opens again.
Enter(t) ==
  /\ task[t].at = "idle"
  /\ \E reopen \in BOOLEAN :
       /\ closed' = (closed /\ ~ reopen)
       /\ \/ socket = "up" /\ Told(t, IF auth = "done" THEN "connected" ELSE "early")
          \/ socket = "none" /\ closed' /\ Told(t, "closed")
  /\ UNCHANGED <<host, backup, socket, peer, connector, wayVars, dispatch_thread, auth, budget>>

\* connect_once, up to the await of socket.open.
ConnectOnce(isClosed) ==
  /\ past' = [tried |-> << >>, moved |-> FALSE]
  /\ IF isClosed THEN at' = "over" /\ UNCHANGED <<addr, addr_set, addr_list>>
     ELSE at' = "opening" /\ addr' = host /\ addr_set' = ToSet(backup) /\ addr_list' = backup

\* There is none: the task waits for the one that connects, or connects.
Joins(t) ==
  /\ task[t].at = "idle"
  /\ \E reopen \in BOOLEAN :
       /\ reopen => closed
       /\ closed' = (closed /\ ~ reopen)
       /\ socket = "down" \/ (socket = "none" /\ ~ closed')
  /\ CloseSocket
  /\ \/ /\ connector # NoTask
        /\ task' = [task EXCEPT ![t].at = "waits"]
        /\ UNCHANGED <<connector, wayVars, auth>>
     \/ /\ connector = NoTask
        /\ \E once \in BOOLEAN :
             task' = [task EXCEPT ![t].at = "connects", ![t].once = once]
        /\ connector' = t /\ auth' = "none" /\ ConnectOnce(closed')
  /\ UNCHANGED <<host, backup, dispatch_thread, budget>>

\* The connector is back from try_connect and wakes those that wait.
Over ==
  /\ at = "over" /\ at' = "idle" /\ connector' = NoTask
  /\ task' = [t \in Task |-> IF task[t].at \in {"waits", "connects"}
                             THEN [task[t] EXCEPT !.at = "looks", !.once = FALSE] ELSE task[t]]
  /\ UNCHANGED <<hostVars, socket, peer, addr, addr_set, addr_list, past, dispatch_thread,
                 auth, budget>>

\* block_connect looks again.
Looks(t) ==
  /\ task[t].at = "looks"
  /\ \/ /\ socket = "up" /\ Told(t, IF auth = "done" THEN "connected" ELSE "unauthenticated")
        /\ UNCHANGED <<socket, peer>>
     \/ /\ socket = "none" /\ closed /\ Told(t, "closed")
        /\ UNCHANGED <<socket, peer>>
     \/ /\ socket = "down" \/ (socket = "none" /\ ~ closed)
        /\ Told(t, "error") /\ CloseSocket
  /\ UNCHANGED <<hostVars, connector, wayVars, dispatch_thread, auth, budget>>

-----------------------------------------------------------------------------
(* try_connect and connect_once.                                           *)

\* try_connect tries again after a sleep, if it is not to try once.
Retries ==
  /\ at = "threw" /\ ~ task[connector].once
  /\ ConnectOnce(closed)
  /\ UNCHANGED <<hostVars, socket, peer, connector, task, dispatch_thread, auth, budget>>

GivesUp ==
  /\ at = "threw" /\ task[connector].once /\ at' = "over"
  /\ UNCHANGED <<hostVars, socket, peer, connector, task, addr, addr_set, addr_list, past,
                 dispatch_thread, auth, budget>>

\* _next_addr, or connect_once throws.
NextAddr(queue) ==
  \/ /\ queue # << >> /\ at' = "opening"
     /\ addr' = Head(queue) /\ addr_list' = Tail(queue)
  \/ /\ queue = << >> /\ at' = "threw" /\ addr_list' = queue
     /\ UNCHANGED addr

\* socket.open throws.
OpenFails ==
  /\ at = "opening" /\ Spend("faults")
  /\ past' = [past EXCEPT !.tried = Append(@, addr)]
  /\ NextAddr(addr_list)
  /\ UNCHANGED <<hostVars, socket, peer, connector, task, addr_set, dispatch_thread, auth>>

\* The connection is open, and a change_host() made meanwhile is overwritten.
\* Tasks that were woken have looked before a message is dispatched.
Opened ==
  /\ at = "opening" /\ at' = "draining"
  /\ \A t \in Task : task[t].at # "looks"
  /\ host' = addr
  /\ past' = [tried |-> Append(past.tried, addr), moved |-> FALSE]
  /\ UNCHANGED <<backup, closed, socket, peer, connector, task, addr, addr_set, addr_list,
                 dispatch_thread, auth, budget>>

\* The dispatcher of the last connection has ended; auth begins.
Attach ==
  /\ at = "draining" /\ ~ dispatch_thread
  /\ at' = "auth" /\ auth' = "runs"
  /\ socket' = "up" /\ peer' = addr /\ dispatch_thread' = TRUE
  /\ UNCHANGED <<hostVars, connector, task, addr, addr_set, addr_list, past, budget>>

\* auth has returned: connect_once again if the connection is gone, as after a
\* change_host().
AuthReturned ==
  /\ at = "auth" /\ auth = "done"
  /\ IF socket = "none" THEN auth' = "none" /\ ConnectOnce(closed)
     ELSE at' = "over" /\ UNCHANGED <<auth, addr, addr_set, addr_list, past>>
  /\ UNCHANGED <<hostVars, socket, peer, connector, task, dispatch_thread, budget>>

\* Faulty variant of NewBackups: those on the list before are put there again.
NewBackupsAll == {backup}

\* _add_backup: what was not on the list before, in the order of _backup.
NewBackups ==
  {new \in Backups :
     /\ ToSet(new) = ToSet(backup) \ addr_set
     /\ \A i, j \in DOMAIN new : i < j =>
          \E k, l \in DOMAIN backup : k < l /\ backup[k] = new[i] /\ backup[l] = new[j]}

\* auth has thrown: on to the next address, of backups it may have changed.
AuthFailed ==
  /\ at = "auth" /\ auth = "failed" /\ auth' = "none"
  /\ CloseSocket
  /\ addr_set' = addr_set \cup ToSet(backup)
  /\ \E new \in NewBackups : NextAddr(addr_list \o new)
  /\ UNCHANGED <<hostVars, connector, task, past, dispatch_thread, budget>>

-----------------------------------------------------------------------------
(* auth, the dispatcher, the peer, and the application.                    *)

AuthGoes(from, to) ==
  /\ auth = from /\ auth' = to
  /\ UNCHANGED <<hostVars, connector, task, wayVars, dispatch_thread>>

\* request() or response() of auth goes through block_connect as well ...
AuthAsks ==
  /\ socket = "up" /\ Spend("asks") /\ AuthGoes("runs", "waits")
  /\ UNCHANGED <<socket, peer>>

\* ... and waits for the connection that waits for it.
AuthJoins ==
  /\ socket = "down" \/ (socket = "none" /\ ~ closed)
  /\ Spend("asks") /\ AuthGoes("runs", "stuck") /\ CloseSocket

\* On a closed channel a write fails, and an answer without a request is waited
\* for until a dispatcher ends.
AuthAsksClosed ==
  /\ socket = "none" /\ closed /\ Spend("asks")
  /\ \E to \in {"failed", "stuck"} : AuthGoes("runs", to)
  /\ UNCHANGED <<socket, peer>>

\* The answer may come with the CLOSE behind it.
AuthAnswered ==
  /\ dispatch_thread /\ AuthGoes("waits", "runs")
  /\ UNCHANGED <<socket, peer, budget>>

AuthReturns == AuthGoes("runs", "done") /\ UNCHANGED <<socket, peer, budget>>
AuthThrows == AuthGoes("runs", "failed") /\ Spend("faults") /\ UNCHANGED <<socket, peer>>

\* The dispatcher finds its connection gone; wakeup_all tells auth.
DispatcherEnds ==
  /\ dispatch_thread /\ socket # "up"
  /\ dispatch_thread' = FALSE /\ CloseSocket
  /\ auth' = IF auth = "waits" THEN "failed" ELSE auth
  /\ UNCHANGED <<hostVars, connector, task, wayVars, budget>>

PeerCloses ==
  /\ socket = "up" /\ socket' = "down" /\ Spend("faults")
  /\ UNCHANGED <<hostVars, peer, connector, task, wayVars, dispatch_thread, auth>>

Close ==
  /\ ~ closed /\ closed' = TRUE /\ Spend("moves")
  /\ CloseSocket
  /\ UNCHANGED <<host, backup, connector, task, wayVars, dispatch_thread, auth>>

\* change_host() closes a connection that is in use, but not one that is about
\* to be, nor that of a closed channel.
ChangeHost ==
  /\ \E a \in Addr \ {host} : host' = a
  /\ Spend("moves")
  /\ past' = [past EXCEPT !.moved = @ \/ at = "draining" \/ closed]
  /\ IF closed THEN UNCHANGED <<socket, peer>> ELSE CloseSocket
  /\ UNCHANGED <<backup, closed, connector, task, at, addr, addr_set, addr_list,
                 dispatch_thread, auth>>

ChangeBackup ==
  /\ \E b \in Backups \ {backup} : backup' = b
  /\ Spend("moves")
  /\ UNCHANGED <<host, closed, socket, peer, connector, task, wayVars, dispatch_thread, auth>>

-----------------------------------------------------------------------------
Continues ==
  \/ Over \/ Retries \/ GivesUp \/ Opened \/ Attach \/ AuthReturned \/ AuthFailed
  \/ \E t \in Task : Looks(t)

\* Calls are made in the order of their numbers.
Calls ==
  \E t \in Task :
    /\ \A s \in 1 .. t - 1 : task[s].at # "idle"
    /\ Enter(t) \/ Joins(t)

Next ==
  \/ Calls \/ Continues \/ OpenFails
  \/ AuthAsks \/ AuthJoins \/ AuthAsksClosed \/ AuthAnswered \/ AuthReturns \/ AuthThrows
  \/ DispatcherEnds \/ PeerCloses \/ Close \/ ChangeHost \/ ChangeBackup

Spec == Init /\ [][Next]_connectVars

\* What is settled resumes, opens end, auth returns and is answered, and a
\* dispatcher ends that is told to, or that reads from a lost connection.
Progress ==
  \/ Continues \/ AuthReturns \/ AuthAnswered
  \/ (at = "draining" \/ auth = "waits") /\ DispatcherEnds

-----------------------------------------------------------------------------
(* Properties.                                                             *)

\* Whoever waits for the connection finds it authenticated.  (Who enters while
\* auth runs does not wait: _socket is set before.)
AuthComesFirst == \A t \in Task : task[t].told # "unauthenticated"

\* The channel is connected to the host it names, also after backups and moves,
\* but for a change_host() on a closed channel or between socket.open and the
\* end of the last dispatcher.
HostIsPeer == socket # "none" /\ ~ past.moved => peer = host

\* connect_once fails only when it has tried the host and each backup it knew
\* of, the backups once each.
EachTriedOnce ==
  /\ at = "threw" => addr_set \subseteq ToSet(past.tried)
  /\ \A i, j \in 2 .. Len(past.tried) : past.tried[i] = past.tried[j] => i = j

\* skynet.assert(!this._socket), before a connection is taken into use.
NothingAttached == at \in {"opening", "draining", "threw"} => socket = "none"

ConnectSafe == AuthComesFirst /\ HostIsPeer /\ EachTriedOnce /\ NothingAttached

\* Everybody who waits for a connection hears of it, if auth does not wait for
\* the connection itself, which it does when it goes on after a loss.
Waiting == \E t \in Task : task[t].at \in {"waits", "connects", "looks"}
Heard == ~ Waiting \/ auth = "stuck"
=============================================================================
