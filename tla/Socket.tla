------------------------------- MODULE Socket -------------------------------
(***************************************************************************)
(* The life of a socket and the tasks that use it: open, read, block,      *)
(* close, abandon, lock and unlock, and the dispatch of the messages of    *)
(* the core, of ts/lib/skynet/skynet/socket/index.ts.                      *)
(*                                                                         *)
(* One task at a time may be suspended on the socket (suspend_token); a    *)
(* task that closes it meanwhile waits for that one (closing).  A token is *)
(* here the task that waits for it.                                        *)
(*                                                                         *)
(* Resumptions are explicit, since close() relies on their order.  In a    *)
(* turn of the script messages are dispatched, then the queue ready is     *)
(* worked off: the promise of a token resolves, so wait() resumes, then    *)
(* suspend(), then the operation, then the application.                    *)
(***************************************************************************)
EXTENDS Integers, Sequences, FiniteSets, SequencesExt

CONSTANTS
  Task,      \* The tasks that use the socket.
  Opener,    \* The one that opens it.
  Reader,    \* Those that call read and block.
  Closer,    \* Those that call close.
  Abandoner, \* Those that call abandon.
  Locker,    \* Those that call lock.
  NoTask,    \* No token.
  MaxOps,    \* Bound: the operations that a task calls.
  MaxSize    \* Bound: the bytes in the buffer.

ASSUME TaskAssumption ==
  /\ Opener \in Task
  /\ (Reader \cup Closer \cup Abandoner \cup Locker) \subseteq Task
  /\ NoTask \notin Task
  /\ {MaxOps, MaxSize} \subseteq Nat

VARIABLES
  core,          \* The core's socket: "none", "opening", "open", "closing" or "closed".
  mailbox,       \* Its messages, in order.
  turn,          \* "dispatch" or "drain".
  ready,         \* The continuations that are due: [task, at].
  pooled,        \* Whether socket_pool has the socket.
  connected, connecting,
  closing,       \* The token of the task that waits to close.
  suspend_token,
  read_required, \* The bytes that the reader wants, or Nothing.
  size,          \* The bytes in the buffer.
  lock,          \* The tasks in s.lock, the first of which has it.
  doing,         \* What each task is in the middle of.
  want,          \* The bytes that it reads.
  ops,           \* The operations that it may still call.
  held,          \* History: the tasks whose lock() has returned.
  late           \* History: the tasks that suspended before an earlier
                 \* suspension or close() had resumed.

socketVars == <<pooled, connected, connecting, closing, suspend_token, read_required, size, lock>>
taskVars == <<doing, want, ops, held, late>>
vars == <<core, mailbox, turn, ready, socketVars, taskVars>>

Nothing == -1

Doing == {"nothing", "open", "read", "block", "close", "wait to close", "lock", "fail"}

\* What ends with suspend(); the others end with skynet.wait().
Suspends == {"open", "read", "block", "close"}

Stage == {"wait", "suspend", "op", "app"}

Due(t, stages) == \E i \in DOMAIN ready : ready[i].task = t /\ ready[i].at \in stages

TypeOK ==
  /\ core \in {"none", "opening", "open", "closing", "closed"}
  /\ mailbox \in Seq({"CONNECT", "DATA", "CLOSE", "ERROR"})
  /\ turn \in {"dispatch", "drain"}
  /\ ready \in Seq([task : Task, at : Stage])
  /\ {pooled, connected, connecting} \subseteq BOOLEAN
  /\ {closing, suspend_token} \subseteq Task \cup {NoTask}
  /\ read_required \in Nat \cup {Nothing}
  /\ size \in Nat
  /\ lock \in Seq(Task)
  /\ doing \in [Task -> Doing]
  /\ want \in [Task -> Nat]
  /\ ops \in [Task -> 0 .. MaxOps]
  /\ held \subseteq Task
  /\ late \subseteq Task
  /\ \A i, j \in DOMAIN ready : ready[i].task = ready[j].task => i = j

Init ==
  /\ core = "none"
  /\ mailbox = << >>
  /\ turn = "dispatch"
  /\ ready = << >>
  /\ pooled = FALSE
  /\ connected = FALSE
  /\ connecting = FALSE
  /\ closing = NoTask
  /\ suspend_token = NoTask
  /\ read_required = Nothing
  /\ size = 0
  /\ lock = << >>
  /\ doing = [t \in Task |-> "nothing"]
  /\ want = [t \in Task |-> 0]
  /\ ops = [t \in Task |-> MaxOps]
  /\ held = {}
  /\ late = {}
-----------------------------------------------------------------------------
(***************************************************************************)
(* Suspension and resumption.                                              *)
(***************************************************************************)

Push(q, t, at) == Append(q, [task |-> t, at |-> at])

\* wakeup(s): the task that is suspended, if there is one, is due after q.
Wakeup(q) ==
  /\ suspend_token' = NoTask
  /\ ready' = IF suspend_token = NoTask THEN q ELSE Push(q, suspend_token, "wait")

\* A suspension or a close() that was ended is still to resume: the one may
\* yet end a close(), the other is about to take the socket away.
Unsettled ==
  \E u \in Task :
    \/ doing[u] \in Suspends /\ Due(u, {"wait", "suspend"})
    \/ doing[u] \in {"close", "wait to close"} /\ Due(u, Stage)

\* suspend(s), up to its await.
Suspend(t, q) ==
  /\ suspend_token' = t
  /\ ready' = q
  /\ late' = IF Unsettled THEN late \cup {t} ELSE late \ {t}

\* An async function returns, or throws, without having been suspended.
Returns(t, q) ==
  /\ ready' = Push(q, t, "app")
  /\ UNCHANGED <<suspend_token, late>>

\* The application runs: in a handler of this turn, or after the operation
\* that it awaited.
Runs(t) ==
  \/ turn = "dispatch" /\ doing[t] = "nothing" /\ ~Due(t, {"app"})
  \/ turn = "drain" /\ ready # << >> /\ Head(ready) = [task |-> t, at |-> "app"]

Rest == IF turn = "dispatch" THEN ready ELSE Tail(ready)

\* t calls an operation.
Calls(t) ==
  /\ Runs(t)
  /\ ops[t] > 0
  /\ ops' = [ops EXCEPT ![t] = @ - 1]

\* An id is used once open has returned it.
Known == core # "none" /\ ~connecting

Do(t, what) == doing' = [doing EXCEPT ![t] = what]

-----------------------------------------------------------------------------
(***************************************************************************)
(* Operations, up to their await.                                          *)
(***************************************************************************)

\* open, start, bind: _connect.
Open(t) ==
  /\ t = Opener
  /\ Calls(t)
  /\ core = "none"
  /\ core' = "opening"
  /\ pooled' = TRUE
  /\ connecting' = TRUE
  /\ Do(t, "open")
  /\ Suspend(t, Rest)
  /\ UNCHANGED <<mailbox, turn, connected, closing, read_required, size, lock, want, held>>

\* Faulty variant of Require: a reader suspends whoever is suspended.
RequireUnasserted(t, n, what) ==
  /\ read_required' = n
  /\ Suspend(t, Rest)
  /\ Do(t, what)
  /\ want' = [want EXCEPT ![t] = n]

\* A reader waits for n bytes.  Only a requirement other than 0 keeps a second
\* reader out; that a task is suspended is asserted after it was overwritten.
Require(t, n, what) ==
  \/ /\ read_required \notin {Nothing, 0}
     /\ Returns(t, Rest)
     /\ UNCHANGED <<read_required, doing, want>>
  \/ /\ read_required \in {Nothing, 0}
     /\ read_required' = n
     /\ \/ /\ suspend_token # NoTask
           /\ Returns(t, Rest)
           /\ UNCHANGED <<doing, want>>
        \/ /\ suspend_token = NoTask
           /\ Suspend(t, Rest)
           /\ Do(t, what)
           /\ want' = [want EXCEPT ![t] = n]

\* The bytes that a read of n finds: all of them for read().
Enough(n) == IF n = 0 THEN size > 0 ELSE size >= n

Left(n) == IF n = 0 \/ ~Enough(n) THEN 0 ELSE size - n

Read(t, n) ==
  /\ t \in Reader /\ Known
  /\ Calls(t)
  /\ \/ /\ ~pooled
        /\ Returns(t, Rest)
        /\ UNCHANGED <<size, read_required, doing, want>>
     \/ /\ pooled /\ (Enough(n) \/ ~connected)
        /\ size' = Left(n)
        /\ Returns(t, Rest)
        /\ UNCHANGED <<read_required, doing, want>>
     \/ /\ pooled /\ ~Enough(n) /\ connected
        /\ Require(t, n, "read")
        /\ UNCHANGED size
  /\ UNCHANGED <<core, mailbox, turn, pooled, connected, connecting, closing, lock, held>>

Block(t) ==
  /\ t \in Reader /\ Known
  /\ Calls(t)
  /\ \/ /\ ~pooled \/ ~connected
        /\ Returns(t, Rest)
        /\ UNCHANGED <<read_required, doing, want>>
     \/ /\ pooled /\ connected
        /\ Require(t, 0, "block")
  /\ UNCHANGED <<core, mailbox, turn, pooled, connected, connecting, closing, size, lock, held>>

\* The end of close: a socket whose lock is held stays in the pool.
Leave ==
  /\ connected' = FALSE
  /\ pooled' = (pooled /\ lock # << >>)

\* close of a connected socket: it waits for the CLOSE, or for the task that
\* is suspended.
CloseConnected(t) ==
  /\ core' = IF core = "open" THEN "closing" ELSE core
  /\ \/ /\ suspend_token = NoTask
        /\ Suspend(t, Rest)
        /\ Do(t, "close")
        /\ UNCHANGED closing
     \/ /\ suspend_token # NoTask /\ closing = NoTask
        /\ closing' = t
        /\ Do(t, "wait to close")
        /\ ready' = Rest
        /\ UNCHANGED <<suspend_token, late>>
     \/ /\ suspend_token # NoTask /\ closing # NoTask
        /\ Returns(t, Rest)
        /\ UNCHANGED <<closing, doing>>

Close(t) ==
  /\ t \in Closer /\ Known
  /\ Calls(t)
  /\ \/ /\ pooled /\ connected
        /\ CloseConnected(t)
        /\ UNCHANGED <<pooled, connected>>
     \/ /\ pooled /\ ~connected
        /\ Leave
        /\ Returns(t, Rest)
        /\ UNCHANGED <<core, closing, doing>>
     \/ /\ ~pooled
        /\ Returns(t, Rest)
        /\ UNCHANGED <<core, pooled, connected, closing, doing>>
  /\ UNCHANGED <<mailbox, turn, connecting, read_required, size, lock, want, held>>

Abandon(t) ==
  /\ t \in Abandoner /\ Known /\ pooled
  /\ Calls(t)
  /\ connected' = FALSE
  /\ pooled' = FALSE
  /\ Wakeup(Rest)
  /\ UNCHANGED <<core, mailbox, turn, connecting, closing, read_required, size, lock,
                 doing, want, held, late>>

\* lock of a socket that is gone fails an assertion.
Lock(t) ==
  /\ t \in Locker /\ Known /\ t \notin held
  /\ Calls(t)
  /\ \/ /\ ~pooled
        /\ ready' = Push(Rest, t, "app")
        /\ UNCHANGED <<lock, doing, held>>
     \/ /\ pooled
        /\ lock' = Append(lock, t)
        /\ \/ /\ lock = << >>
              /\ held' = held \cup {t}
              /\ ready' = Push(Rest, t, "app")
              /\ UNCHANGED doing
           \/ /\ lock # << >>
              /\ Do(t, "lock")
              /\ ready' = Rest
              /\ UNCHANGED held
  /\ UNCHANGED <<core, mailbox, turn, pooled, connected, connecting, closing, suspend_token,
                 read_required, size, want, late>>

\* unlock wakes the next task; it fails an assertion if the socket is gone.
Unlock(t) ==
  /\ t \in held
  /\ Runs(t)
  /\ held' = held \ {t}
  /\ lock' = IF pooled THEN Tail(lock) ELSE lock
  /\ ready' = IF pooled /\ Len(lock) > 1
                THEN Push(Push(Rest, lock[2], "wait"), t, "app")
                ELSE Push(Rest, t, "app")
  /\ UNCHANGED <<core, mailbox, turn, pooled, connected, connecting, closing, suspend_token,
                 read_required, size, doing, want, ops, late>>

\* The application does nothing more for now.
Rests(t) ==
  /\ turn = "drain"
  /\ Runs(t)
  /\ ready' = Rest
  /\ UNCHANGED <<core, mailbox, turn, socketVars, taskVars>>
-----------------------------------------------------------------------------
(***************************************************************************)
(* Continuations.                                                          *)
(***************************************************************************)

DueNow(t, at) == turn = "drain" /\ ready # << >> /\ Head(ready) = [task |-> t, at |-> at]

\* skynet.wait returns, to suspend() or to the operation.
WaitReturns(t) ==
  /\ DueNow(t, "wait")
  /\ ready' = Push(Tail(ready), t, IF doing[t] \in Suspends THEN "suspend" ELSE "op")
  /\ UNCHANGED <<core, mailbox, turn, socketVars, taskVars>>

\* Faulty variant of SuspendReturns: nobody is woken.
SuspendReturnsSilent(t) ==
  /\ DueNow(t, "suspend")
  /\ ready' = Push(Tail(ready), t, "op")
  /\ UNCHANGED <<core, mailbox, turn, socketVars, taskVars>>

\* suspend() wakes the task that waits to close; a second wakeup does nothing.
\* skynet.wakeup asserts that the token is awaited (ClosingIsAwaited): the
\* operation fails if it is not.
SuspendReturns(t) ==
  /\ DueNow(t, "suspend")
  /\ LET rest == Tail(ready)
         awaited == doing[closing] = "wait to close" /\ ~Due(closing, {"op"})
     IN  \/ /\ closing # NoTask
            /\ awaited
            /\ ready' = IF Due(closing, {"wait"})
                          THEN Push(rest, t, "op")
                          ELSE Push(Push(rest, closing, "wait"), t, "op")
            /\ UNCHANGED doing
         \/ /\ closing # NoTask
            /\ ~awaited
            /\ ready' = Push(rest, t, "op")
            /\ Do(t, "fail")
         \/ /\ closing = NoTask
            /\ ready' = Push(rest, t, "op")
            /\ UNCHANGED doing
  /\ UNCHANGED <<core, mailbox, turn, socketVars, want, ops, held, late>>

Resumes(t, what) ==
  /\ DueNow(t, "op")
  /\ doing[t] \in what
  /\ Do(t, "nothing")
  /\ ready' = Push(Tail(ready), t, "app")
  /\ UNCHANGED <<core, mailbox, turn, closing, suspend_token, read_required, lock, want, ops,
                 late>>

FailResumes(t) ==
  /\ Resumes(t, {"fail"})
  /\ UNCHANGED <<pooled, connected, connecting, size, held>>

OpenResumes(t) ==
  /\ Resumes(t, {"open"})
  /\ connecting' = FALSE
  /\ pooled' = (pooled /\ connected)
  /\ UNCHANGED <<connected, size, held>>

ReadResumes(t) ==
  /\ Resumes(t, {"read", "block"})
  /\ size' = IF doing[t] = "read" THEN Left(want[t]) ELSE size
  /\ UNCHANGED <<pooled, connected, connecting, held>>

CloseResumes(t) ==
  /\ Resumes(t, {"close", "wait to close"})
  /\ Leave
  /\ UNCHANGED <<connecting, size, held>>

LockResumes(t) ==
  /\ Resumes(t, {"lock"})
  /\ held' = held \cup {t}
  /\ UNCHANGED <<pooled, connected, connecting, size>>

-----------------------------------------------------------------------------
(***************************************************************************)
(* The messages of the core.                                               *)
(***************************************************************************)

Receive(type) ==
  /\ turn = "dispatch"
  /\ mailbox # << >>
  /\ Head(mailbox) = type
  /\ mailbox' = Tail(mailbox)
  /\ UNCHANGED <<core, turn, connecting, closing, lock, taskVars>>

Ignore == UNCHANGED <<ready, pooled, connected, suspend_token, read_required, size>>

Data ==
  /\ Receive("DATA")
  /\ \/ ~pooled /\ Ignore
     \/ /\ pooled
        /\ size' = size + 1
        /\ IF read_required # Nothing /\ size' >= read_required
             THEN read_required' = Nothing /\ Wakeup(ready)
             ELSE UNCHANGED <<read_required, suspend_token, ready>>
        /\ UNCHANGED <<pooled, connected>>

Connect ==
  /\ Receive("CONNECT")
  /\ \/ ~pooled /\ Ignore
     \/ /\ pooled
        /\ connected' = TRUE
        /\ Wakeup(ready)
        /\ UNCHANGED <<pooled, read_required, size>>

\* CLOSE and ERROR.  (The socket of an ERROR is no longer the core's, so that
\* _shutdown does nothing.)
Down ==
  /\ \/ Receive("CLOSE")
     \/ Receive("ERROR")
  /\ \/ ~pooled /\ Ignore
     \/ /\ pooled
        /\ connected' = FALSE
        /\ Wakeup(ready)
        /\ UNCHANGED <<pooled, read_required, size>>

\* The messages of a turn are dispatched; its continuations are.
TurnSettles ==
  /\ turn = "dispatch" /\ ready # << >>
  /\ turn' = "drain"
  /\ UNCHANGED <<core, mailbox, ready, socketVars, taskVars>>

TurnEnds ==
  /\ turn = "drain" /\ ready = << >>
  /\ turn' = "dispatch"
  /\ UNCHANGED <<core, mailbox, ready, socketVars, taskVars>>

\* The core's side of the socket: it opens or fails; data come; it is closed
\* by the peer, by an error or because close() asked for it.
CorePost(from, to, type) ==
  /\ core \in from
  /\ core' = to
  /\ mailbox' = Append(mailbox, type)
  /\ UNCHANGED <<turn, ready, socketVars, taskVars>>

CoreSettles ==
  \/ CorePost({"opening"}, "open", "CONNECT")
  \/ CorePost({"opening"}, "closed", "ERROR")

CoreData ==
  /\ size + Len(SelectSeq(mailbox, LAMBDA m : m = "DATA")) < MaxSize
  /\ CorePost({"open"}, "open", "DATA")

CoreBreaks ==
  \/ CorePost({"open"}, "closed", "CLOSE")
  \/ CorePost({"open"}, "closed", "ERROR")

CoreCloses == CorePost({"closing"}, "closed", "CLOSE")

-----------------------------------------------------------------------------

Application(t) ==
  \/ Open(t)
  \/ \E n \in 0 .. MaxSize : Read(t, n)
  \/ Block(t)
  \/ Close(t)
  \/ Abandon(t)
  \/ Lock(t)
  \/ Unlock(t)
  \/ Rests(t)

Continuation(t) ==
  \/ WaitReturns(t)
  \/ SuspendReturns(t)
  \/ FailResumes(t)
  \/ OpenResumes(t)
  \/ ReadResumes(t)
  \/ CloseResumes(t)
  \/ LockResumes(t)

Dispatch == Data \/ Connect \/ Down

Turn == TurnSettles \/ TurnEnds

Core == CoreSettles \/ CoreData \/ CoreBreaks \/ CoreCloses

Next ==
  \/ \E t \in Task : Application(t) \/ Continuation(t)
  \/ Dispatch
  \/ Turn
  \/ Core

Spec == Init /\ [][Next]_vars

\* The script comes to the end of its turns, the mailbox is served and the
\* core does what it was asked.
FairSpec ==
  /\ Spec
  /\ \A t \in Task : WF_vars(Continuation(t)) /\ WF_vars(turn = "drain" /\ Application(t))
  /\ SF_vars(Dispatch)
  /\ WF_vars(Turn)
  /\ WF_vars(CoreSettles)
  /\ WF_vars(CoreCloses)

-----------------------------------------------------------------------------
(***************************************************************************)
(* Properties.                                                             *)
(***************************************************************************)

Suspended(t) == doing[t] \in Suspends /\ ~Due(t, Stage)

\* A suspended task is found by the messages of the core: it is the one that
\* suspend_token names, and the socket is in the pool.  (A task that suspends
\* before an earlier one has resumed may lose the socket to a closer.)
SuspendedIsFound ==
  \A t \in Task \ late : Suspended(t) => pooled /\ suspend_token = t

\* suspend() wakes a token that somebody waits for, as skynet.wakeup asserts.
ClosingIsAwaited ==
  \A t \in Task \ late : DueNow(t, "suspend") /\ closing # NoTask =>
    doing[closing] = "wait to close" /\ ~Due(closing, {"op"})

\* The lock has one owner, and that is the first of those in line to ask for
\* it; while nobody has it, the first in line is about to (lock, unlock).
LockIsHandedOn ==
  pooled =>
    IF lock = << >> THEN held = {}
    ELSE \/ held = {Head(lock)}
         \/ held = {} /\ Due(Head(lock), {"wait", "op"})

\* A reader is not left waiting for bytes that have come (DATA, read).
ReaderIsServed ==
  \A t \in Task : Suspended(t) /\ doing[t] = "read" /\ suspend_token = t /\ read_required = want[t] =>
    ~Enough(want[t])

\* Suspended and closing tasks are known to those who have to wake them, the
\* lock has one owner and somebody to get it, and readers get what has come.
SocketInv ==
  TypeOK /\ SuspendedIsFound /\ ClosingIsAwaited /\ LockIsHandedOn /\ ReaderIsServed

\* Every close() comes to an end.
CloseEnds ==
  \A t \in Task : doing[t] \in {"close", "wait to close"} ~> doing[t] = "nothing" \/ t \in late

\* Nobody stays suspended on a socket that the core has closed.
ClosedEndsAll ==
  \A t \in Task : core = "closed" ~> ~Suspended(t) \/ t \in late

\* Whoever closes a socket and whoever is suspended on a closed one goes on.
SocketEnds == CloseEnds /\ ClosedEndsAll
=============================================================================
