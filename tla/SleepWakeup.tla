---------------------------- MODULE SleepWakeup ----------------------------
(***************************************************************************)
(* sleep, wait, wakeup and timeout of ts/lib/skynet/skynet/index.ts.       *)
(*                                                                         *)
(* A task that sleeps awaits a promise that two parties race to settle:    *)
(* the timer, whose RESPONSE comes through the mailbox, and wakeup.  The   *)
(* script dispatches the messages of a turn one after the other and only   *)
(* then resumes the tasks whose promises were settled, in that order.      *)
(* Timers and the allocation of sessions belong to the skynet core.        *)
(***************************************************************************)
EXTENDS Integers, Sequences, FiniteSets

CONSTANTS
  Task,       \* The tasks (async functions) of the service.
  Token,      \* The tokens they sleep on.
  TokenOf,    \* The token of each task.
  NoTask,     \* No entry in session_id_callback.
  Func,       \* The entry of a timeout(): a function to call.
  MaxSession  \* Bound: the sessions allocated.

Session == 1 .. MaxSession
NoSession == 0

ASSUME SleepAssumption ==
  /\ {NoTask, Func} \cap Task = {} /\ NoTask # Func
  /\ TokenOf \in [Task -> Token]
  /\ MaxSession \in Nat

VARIABLES
  turn,                 \* "idle", "dispatch" (messages) or "drain" (resumptions).
  nextSession,
  timer,                \* Sessions of the timers that run.
  mailbox,              \* Sessions of the timers' RESPONSEs, in order.
  session_id_callback,  \* session -> the task whose promise it settles.
  broken,               \* Sessions whose entry has the BREAK flag.
  sleep_session,        \* token -> session
  task,                 \* [state, session, kind] of each task.
  ready,                \* Tasks to resume, in the order they were settled.
  called                \* History: the sessions of the timeouts that were called, in order.

bookVars == <<session_id_callback, broken, sleep_session>>
vars == <<turn, nextSession, timer, mailbox, bookVars, task, ready, called>>

TaskState == {"awake", "asleep", "settled"}
Kind      == {"sleep", "wait"}

TypeOK ==
  /\ turn \in {"idle", "dispatch", "drain"}
  /\ nextSession \in Nat
  /\ timer \subseteq Session
  /\ mailbox \in Seq(Session)
  /\ session_id_callback \in [Session -> Task \cup {NoTask, Func}]
  /\ broken \subseteq Session
  /\ sleep_session \in [Token -> Session \cup {NoSession}]
  /\ task \in [Task -> [state : TaskState, session : Session \cup {NoSession}, kind : Kind]]
  /\ ready \in Seq(Task)
  /\ called \in Seq(Session)
  /\ turn = "idle" => ready = << >>

Init ==
  /\ turn = "idle"
  /\ nextSession = 1
  /\ timer = {}
  /\ mailbox = << >>
  /\ session_id_callback = [n \in Session |-> NoTask]
  /\ broken = {}
  /\ sleep_session = [k \in Token |-> NoSession]
  /\ task = [t \in Task |-> [state |-> "awake", session |-> NoSession, kind |-> "sleep"]]
  /\ ready = << >>
  /\ called = << >>

-----------------------------------------------------------------------------

\* A turn of the script: messages are dispatched, then the settled promises
\* are drained.
TurnBegin ==
  /\ turn = "idle"
  /\ turn' = "dispatch"
  /\ UNCHANGED <<nextSession, timer, mailbox, bookVars, task, ready, called>>

Drain ==
  /\ turn = "dispatch"
  /\ turn' = "drain"
  /\ UNCHANGED <<nextSession, timer, mailbox, bookVars, task, ready, called>>

TurnEnd ==
  /\ turn = "drain"
  /\ ready = << >>
  /\ turn' = "idle"
  /\ UNCHANGED <<nextSession, timer, mailbox, bookVars, task, ready, called>>

\* A timer of the core expires.
Expire(n) ==
  /\ n \in timer
  /\ timer' = timer \ {n}
  /\ mailbox' = Append(mailbox, n)
  /\ UNCHANGED <<turn, nextSession, bookVars, task, ready, called>>

\* The promise of t resolves; a promise that is settled stays as it is.
Resolve(t, n) ==
  IF task[t].state = "asleep" /\ task[t].session = n
    THEN /\ task' = [task EXCEPT ![t].state = "settled"]
         /\ ready' = Append(ready, t)
    ELSE UNCHANGED <<task, ready>>

\* sleep() or wait(), up to the await.
FallAsleep(t, kind) ==
  /\ turn # "idle"
  /\ task[t].state = "awake"
  /\ nextSession \in Session
  /\ nextSession' = nextSession + 1
  /\ timer' = IF kind = "sleep" THEN timer \cup {nextSession} ELSE timer
  /\ sleep_session' = [sleep_session EXCEPT ![TokenOf[t]] = nextSession]
  /\ session_id_callback' = [session_id_callback EXCEPT ![nextSession] = t]
  /\ task' = [task EXCEPT ![t] = [state |-> "asleep", session |-> nextSession, kind |-> kind]]
  /\ UNCHANGED <<turn, mailbox, broken, ready, called>>

\* timeout()
Timeout ==
  /\ turn # "idle"
  /\ nextSession \in Session
  /\ nextSession' = nextSession + 1
  /\ timer' = timer \cup {nextSession}
  /\ session_id_callback' = [session_id_callback EXCEPT ![nextSession] = Func]
  /\ UNCHANGED <<turn, mailbox, broken, sleep_session, task, ready, called>>

\* What the RESPONSE of timer n settles: the sleep of a task, or the call of
\* the function of a timeout().
Settle(n) ==
  IF session_id_callback[n] = Func
    THEN called' = Append(called, n) /\ UNCHANGED <<task, ready>>
    ELSE Resolve(session_id_callback[n], n) /\ UNCHANGED called

\* Faulty variant of DispatchTimer: the BREAK flag is read the wrong way.
DispatchTimerSwapped ==
  /\ turn = "dispatch"
  /\ mailbox # << >>
  /\ LET n == Head(mailbox)
     IN  /\ session_id_callback' = [session_id_callback EXCEPT ![n] = NoTask]
         /\ broken' = broken \ {n}
         /\ IF session_id_callback[n] # NoTask /\ n \in broken
              THEN Settle(n)
              ELSE UNCHANGED <<task, ready, called>>
  /\ mailbox' = Tail(mailbox)
  /\ UNCHANGED <<turn, nextSession, timer, sleep_session>>

\* dispatch_message_impl of a timer's RESPONSE: one whose sleep was broken
\* off resolves nothing, one that is not known throws.
DispatchTimer ==
  /\ turn = "dispatch"
  /\ mailbox # << >>
  /\ LET n == Head(mailbox)
     IN  /\ session_id_callback' = [session_id_callback EXCEPT ![n] = NoTask]
         /\ broken' = broken \ {n}
         /\ IF session_id_callback[n] # NoTask /\ n \notin broken
              THEN Settle(n)
              ELSE UNCHANGED <<task, ready, called>>
  /\ mailbox' = Tail(mailbox)
  /\ UNCHANGED <<turn, nextSession, timer, sleep_session>>

\* wakeup() reaches its assertion on response_func.
WakeupFinds(k, n) == turn # "idle" /\ n = sleep_session[k] /\ n # NoSession

\* Faulty variant of Wakeup: no BREAK flag is left for the timer.
WakeupWithoutBreak(k) ==
  \E n \in Session :
    /\ WakeupFinds(k, n)
    /\ session_id_callback[n] # NoTask
    /\ Resolve(session_id_callback[n], n)
    /\ UNCHANGED <<turn, nextSession, timer, mailbox, bookVars, called>>

\* wakeup(): settle the promise and leave the BREAK flag for the timer.
Wakeup(k) ==
  \E n \in Session :
    /\ WakeupFinds(k, n)
    /\ session_id_callback[n] # NoTask
    /\ Resolve(session_id_callback[n], n)
    /\ broken' = broken \cup {n}
    /\ UNCHANGED <<turn, nextSession, timer, mailbox, session_id_callback, sleep_session, called>>

\* The await of sleep() or wait() resumes: the token is free again, and wait
\* takes its session off the books.
Resume ==
  /\ turn = "drain"
  /\ ready # << >>
  /\ LET t == Head(ready)
     IN  /\ sleep_session' = [sleep_session EXCEPT ![TokenOf[t]] = NoSession]
         /\ task' = [task EXCEPT ![t].state = "awake"]
         /\ \/ /\ task[t].kind = "wait"
               /\ session_id_callback' = [session_id_callback EXCEPT ![task[t].session] = NoTask]
               /\ broken' = broken \ {task[t].session}
            \/ /\ task[t].kind = "sleep"
               /\ UNCHANGED <<session_id_callback, broken>>
  /\ ready' = Tail(ready)
  /\ UNCHANGED <<turn, nextSession, timer, mailbox, called>>

Script == TurnBegin \/ Drain \/ TurnEnd \/ DispatchTimer \/ Resume

Next ==
  \/ Script
  \/ \E n \in Session : Expire(n)
  \/ \E t \in Task, kind \in Kind : FallAsleep(t, kind)
  \/ Timeout
  \/ \E k \in Token : Wakeup(k)

Spec == Init /\ [][Next]_vars

\* Timers expire, their RESPONSEs are dispatched and the turns go on.  The
\* script may leave a message to the next turn, but not for ever.
FairSpec ==
  /\ Spec
  /\ \A n \in Session : WF_vars(Expire(n))
  /\ WF_vars(TurnBegin) /\ WF_vars(Drain) /\ WF_vars(TurnEnd) /\ WF_vars(Resume)
  /\ SF_vars(DispatchTimer)

-----------------------------------------------------------------------------
(***************************************************************************)
(* Properties.                                                             *)
(***************************************************************************)

\* A timer that comes after wakeup does not end a later sleep: a callback
\* that is not broken off belongs to the sleep that its task is in now.
StaleTimerHarmless ==
  \A n \in Session :
    LET t == session_id_callback[n]
    IN  t \in Task /\ n \notin broken => task[t].state = "asleep" /\ task[t].session = n

\* The timer of n runs, or its RESPONSE is in the mailbox.
Out(n) == n \in timer \/ \E k \in 1 .. Len(mailbox) : mailbox[k] = n

\* A sleeping task can be woken: wakeup finds its session and its callback,
\* and if it sleeps on a timer, the timer or its RESPONSE is still to come.
AsleepCanWake ==
  \A t \in Task :
    LET n == task[t].session
    IN  task[t].state = "asleep" =>
          /\ sleep_session[TokenOf[t]] = n
          /\ session_id_callback[n] = t
          /\ n \notin broken
          /\ task[t].kind = "sleep" => Out(n)

\* The function of a timeout() is called once, and until then its timer or the
\* RESPONSE of it is still to come; no wakeup breaks it off.
TimeoutOnce ==
  /\ \A n \in Session : session_id_callback[n] = Func =>
       Out(n) /\ n \notin broken /\ \A i \in DOMAIN called : called[i] # n
  /\ \A i, j \in DOMAIN called : called[i] = called[j] => i = j

\* Every sleep comes to an end, whoever wins the race, and every timeout()
\* calls its function.
SleepEnds ==
  /\ \A t \in Task :
       task[t].state = "asleep" /\ task[t].kind = "sleep" ~> task[t].state = "awake"
  /\ \A n \in Session :
       session_id_callback[n] = Func ~> \E i \in DOMAIN called : called[i] = n

\* Once nobody sleeps and no timer is out, sleep and wait leave nothing
\* behind in the maps.
NothingLeaks ==
  /\ \A t \in Task : task[t].state = "awake"
  /\ timer = {}
  /\ mailbox = << >>
  => /\ \A n \in Session : session_id_callback[n] = NoTask
     /\ \A k \in Token : sleep_session[k] = NoSession
     /\ broken = {}

\* Whoever sleeps can be woken, by what is meant for this sleep only, every
\* function is called once, and the maps are empty in the end.
SleepInv == TypeOK /\ StaleTimerHarmless /\ AsleepCanWake /\ TimeoutOnce /\ NothingLeaks
=============================================================================
