----------------------------- MODULE HttpClient -----------------------------
(***************************************************************************)
(* connect of ts/lib/skynet/http/helper.ts and request of httpc.ts: one    *)
(* request, from the opening of its connection to its end.  The connection *)
(* is opened by an async function of its own (async_conn) while connect()  *)
(* sleeps; whichever comes first, the socket or the timer, the other must  *)
(* not leave the socket behind.  Continuations run in any order, which     *)
(* covers every order of the microtasks of a turn.                         *)
(***************************************************************************)
VARIABLES
  timed,      \* Whether the request has a timeout.
  https,      \* Whether it goes through TLS.
  caller,     \* Where request() stands.
  dial,       \* Where async_conn stands; "threw" is an unhandled rejection.
  fdKnown,    \* connect: fd is not 0
  drop_fd,
  nap,        \* The sleep of connect(): its token is known until it is over.
  napTimer,   \* Its timer: runs, in the mailbox, or gone with its callback.
  guard,      \* The timer that shuts the request down.
  finish,
  socket,     \* The socket itself.
  tls         \* Its TLS state.

clientVars == <<timed, https, caller, dial, fdKnown, drop_fd, nap, napTimer,
                guard, finish, socket, tls>>
connectVars == <<dial, fdKnown, drop_fd, nap, napTimer>>

Ended == {"answered", "failed", "init failed"}

Init ==
  /\ timed \in BOOLEAN /\ https \in BOOLEAN
  /\ caller = "connect"
  /\ dial = "opening" /\ socket = "opening"
  /\ fdKnown = FALSE /\ drop_fd = FALSE
  /\ nap = IF timed THEN "asleep" ELSE "over"
  /\ napTimer = IF timed THEN "runs" ELSE "gone"
  /\ guard = "none" /\ finish = FALSE /\ tls = "none"

-----------------------------------------------------------------------------
(* The socket and the timers, which belong to the skynet core.             *)

SocketEvent ==
  /\ \/ /\ socket = "opening" /\ socket' \in {"open", "refused"} /\ dial' = "opened"
     \/ /\ socket = "open" /\ socket' = "shut" /\ UNCHANGED dial
  /\ UNCHANGED <<timed, https, caller, fdKnown, drop_fd, nap, napTimer, guard, finish, tls>>

TimerEvent ==
  /\ \/ napTimer = "runs" /\ napTimer' = "mail" /\ UNCHANGED guard
     \/ guard = "runs" /\ guard' = "mail" /\ UNCHANGED napTimer
  /\ UNCHANGED <<timed, https, caller, dial, fdKnown, drop_fd, nap, finish, socket, tls>>

-----------------------------------------------------------------------------
(* connect.                                                                *)

\* The RESPONSE of the timer takes the callback away; a sleep that wakeup has
\* ended is not resumed again.
DispatchNapTimer ==
  /\ napTimer = "mail" /\ napTimer' = "gone"
  /\ nap' = IF nap = "asleep" THEN "settled" ELSE nap
  /\ UNCHANGED <<timed, https, caller, dial, fdKnown, drop_fd, guard, finish, socket, tls>>

\* async_conn goes on.  A socket.open that fails throws, and nobody is woken;
\* wakeup fails its assertions when the sleep is over, or its timer was
\* dispatched.
DialResumes ==
  /\ dial = "opened"
  /\ IF socket = "refused" THEN dial' = "threw" /\ UNCHANGED <<socket, fdKnown, nap>>
     ELSE /\ fdKnown' = TRUE
          /\ socket' = IF drop_fd THEN "closed" ELSE socket
          /\ IF drop_fd \/ ~ timed THEN dial' = "done" /\ UNCHANGED nap
             ELSE IF nap # "over" /\ napTimer # "gone"
             THEN dial' = "done" /\ nap' = "settled"
             ELSE dial' = "threw" /\ UNCHANGED nap
  /\ UNCHANGED <<timed, https, caller, drop_fd, napTimer, guard, finish, tls>>

NapEnds ==
  /\ nap = "settled" /\ nap' = "over"
  /\ UNCHANGED <<timed, https, caller, dial, fdKnown, drop_fd, napTimer, guard, finish, socket, tls>>

\* Faulty variant of ConnectReturns: async_conn is not told that it is late.
ConnectReturnsSilent ==
  /\ caller = "connect" /\ nap = "over" /\ (timed \/ dial \in {"done", "threw"})
  /\ drop_fd' = FALSE
  /\ IF ~ fdKnown THEN caller' = "failed" /\ UNCHANGED <<guard, tls>>
     ELSE /\ caller' = IF https THEN "init" ELSE "request"
          /\ tls' = IF https THEN "held" ELSE "none"
          /\ guard' = IF timed THEN "runs" ELSE "none"
  /\ UNCHANGED <<timed, https, dial, fdKnown, nap, napTimer, finish, socket>>

\* connect() returns fd, or throws with socket.open; request() goes on or throws.
ConnectReturns ==
  /\ caller = "connect" /\ nap = "over" /\ (timed \/ dial \in {"done", "threw"})
  /\ drop_fd' = (timed /\ ~ fdKnown)
  /\ IF ~ fdKnown THEN caller' = "failed" /\ UNCHANGED <<guard, tls>>
     ELSE /\ caller' = IF https THEN "init" ELSE "request"
          /\ tls' = IF https THEN "held" ELSE "none"
          /\ guard' = IF timed THEN "runs" ELSE "none"
  /\ UNCHANGED <<timed, https, dial, fdKnown, nap, napTimer, finish, socket>>

-----------------------------------------------------------------------------
(* request.                                                                *)

\* Faulty variant of DispatchGuard: finish is tested the wrong way round.
DispatchGuardFinished ==
  /\ guard = "mail" /\ guard' = "gone"
  /\ socket' = IF finish /\ socket = "open" THEN "shut" ELSE socket
  /\ UNCHANGED <<timed, https, caller, finish, tls, connectVars>>

DispatchGuard ==
  /\ guard = "mail" /\ guard' = "gone"
  /\ socket' = IF ~ finish /\ socket = "open" THEN "shut" ELSE socket
  /\ UNCHANGED <<timed, https, caller, finish, tls, connectVars>>

\* The TLS handshake; it stands before the try.
InitEnds ==
  /\ caller = "init"
  /\ caller' \in (IF socket = "open" THEN {"request"} ELSE {}) \cup {"init failed"}
  /\ UNCHANGED <<timed, https, guard, finish, socket, tls, connectVars>>

\* internal.request returns or throws; finally: the timer is disarmed, the
\* socket closed and the TLS state freed.
RequestEnds ==
  /\ caller = "request"
  /\ caller' \in {"answered", "failed"}
  /\ finish' = TRUE /\ socket' = "closed"
  /\ tls' = IF https THEN "freed" ELSE tls
  /\ UNCHANGED <<timed, https, guard, connectVars>>

Next ==
  \/ SocketEvent \/ TimerEvent \/ DispatchNapTimer \/ DialResumes \/ NapEnds
  \/ ConnectReturns \/ DispatchGuard \/ InitEnds \/ RequestEnds

Spec == Init /\ [][Next]_clientVars

\* The core's timers run out, what is dispatched and resumed comes in turn,
\* and a read of a socket that has ended fails.
Progress ==
  \/ TimerEvent \/ DispatchNapTimer \/ DialResumes \/ NapEnds \/ ConnectReturns
  \/ DispatchGuard \/ (socket # "open" /\ (InitEnds \/ RequestEnds))

FairSpec == Spec /\ WF_clientVars(Progress)

-----------------------------------------------------------------------------
(* Properties.                                                             *)

\* No socket is lost in the race of the connection with its timer: when
\* request() and async_conn are both over, the socket is closed or was never
\* opened, and the TLS state is freed; also when async_conn has thrown, be it
\* that wakeup failed (then connect() found fd set).  A TLS handshake that
\* fails (httpc.ts:71) is the exception: it stands before the try.
NoSocketLost ==
  caller \in Ended /\ dial # "opening" /\ dial # "opened" =>
    \/ socket \in {"closed", "refused"} /\ tls # "held"
    \/ caller = "init failed"

\* A request with a timeout ends, whatever the other side does; and one whose
\* handshake has failed does not keep its connection open for ever.
Timed == timed
RequestEnded == caller \in Ended /\ (guard # "none" => socket # "open")
=============================================================================
