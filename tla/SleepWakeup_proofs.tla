------------------------- MODULE SleepWakeup_proofs -------------------------
(***************************************************************************)
(* Proofs about SleepWakeup, for any tasks and any number of sessions.     *)
(*                                                                         *)
(* A timer and wakeup race for one promise, and the loser comes later: in  *)
(* a turn in which the task may sleep again.  That it does no harm rests   *)
(* on what an entry of session_id_callback can still be about (Entries)    *)
(* and on sessions that are not allocated twice (Fresh).                   *)
(***************************************************************************)
EXTENDS SleepWakeup, SequenceTheorems, TLAPS

\* Every task sleeps on a token of its own (gen_token).
OwnTokens == \A t, u \in Task : TokenOf[t] = TokenOf[u] => t = u

\* Who is not awake has a session.
Sleeps(t, n) == task[t].state # "awake" /\ task[t].session = n

\* Sessions that are in use have been allocated.
Fresh ==
  /\ \A n \in Session : session_id_callback[n] # NoTask => n < nextSession
  /\ \A t \in Task : task[t].session # NoSession => task[t].session < nextSession
  /\ \A t \in Task : task[t].state # "awake" => task[t].session # NoSession
  /\ \A i \in DOMAIN called : called[i] < nextSession

\* An entry is that of the sleep its task is in; or it was broken off, and its
\* timer or the end of wait() will take it off the books.
Entries ==
  \A n \in Session :
    LET t == session_id_callback[n]
    IN  t \in Task =>
          \/ n \notin broken /\ task[t].state = "asleep" /\ task[t].session = n
          \/ n \in broken /\ Out(n)
          \/ n \in broken /\ task[t] = [state |-> "settled", session |-> n, kind |-> "wait"]

\* Only the sleep of a task is broken off, never the call of a function.
Breaks ==
  /\ \A n \in broken : session_id_callback[n] \in Task
  /\ \A t \in Task : task[t].session # NoSession => session_id_callback[task[t].session] # Func

\* Two tasks do not sleep with one session, and a token leads to who sleeps on it.
Sleepers ==
  /\ \A t, u \in Task, n \in Session : Sleeps(t, n) /\ Sleeps(u, n) => t = u
  /\ \A k \in Token : sleep_session[k] # NoSession =>
       \E t \in Task : TokenOf[t] = k /\ Sleeps(t, sleep_session[k])

\* Who is to resume is settled, and is to resume once.
Readied ==
  /\ \A i \in DOMAIN ready : task[ready[i]].state = "settled"
  /\ \A i, j \in DOMAIN ready : ready[i] = ready[j] => i = j

IInv ==
  TypeOK /\ Fresh /\ Entries /\ Breaks /\ Sleepers /\ Readied /\ AsleepCanWake /\ TimeoutOnce

-----------------------------------------------------------------------------
(***************************************************************************)
(* Queues.                                                                 *)
(***************************************************************************)

\* Something appended to a queue without it occurs once.
LEMMA AppendOnce ==
  ASSUME NEW S, NEW q \in Seq(S), NEW e \in S,
         \A i, j \in DOMAIN q : q[i] = q[j] => i = j,
         \A i \in DOMAIN q : q[i] # e
  PROVE  /\ Append(q, e) \in Seq(S)
         /\ \A i \in DOMAIN Append(q, e) : Append(q, e)[i] = e \/ \E j \in DOMAIN q : Append(q, e)[i] = q[j]
         /\ \A i, j \in DOMAIN Append(q, e) : Append(q, e)[i] = Append(q, e)[j] => i = j
  <1>1. /\ Append(q, e) \in Seq(S)
        /\ DOMAIN Append(q, e) = 1 .. Len(q) + 1
        /\ DOMAIN q = 1 .. Len(q)
        /\ Len(q) \in Nat
        /\ \A i \in 1 .. Len(q) : Append(q, e)[i] = q[i]
        /\ Append(q, e)[Len(q) + 1] = e
    BY AppendProperties, LenProperties
  <1>2. \A i \in 1 .. Len(q) + 1 : i = Len(q) + 1 \/ i \in 1 .. Len(q)
    BY <1>1
  <1> QED
    BY <1>1, <1>2

\* The rest of a queue has its elements, each as often, and not the first
\* one if that occurs once.
LEMMA TailOnce ==
  ASSUME NEW S, NEW q \in Seq(S), q # << >>
  PROVE  /\ Tail(q) \in Seq(S)
         /\ Head(q) \in S
         /\ DOMAIN Tail(q) = 1 .. Len(q) - 1
         /\ Len(q) \in Nat \ {0}
         /\ Head(q) = q[1]
         /\ \A i \in DOMAIN Tail(q) : Tail(q)[i] = q[i + 1]
  BY HeadTailProperties, LenProperties, EmptySeq

\* What is out stays out when a RESPONSE is taken, unless it is that one.
LEMMA OutAfterTail ==
  ASSUME TypeOK, mailbox # << >>, mailbox' = Tail(mailbox), UNCHANGED timer,
         NEW n \in Session, Out(n), n # Head(mailbox)
  PROVE  Out(n)'
  <1>1. /\ Len(mailbox) \in Nat \ {0} /\ Head(mailbox) = mailbox[1]
        /\ DOMAIN mailbox' = 1 .. Len(mailbox) - 1 /\ mailbox' \in Seq(Session)
        /\ \A i \in 1 .. Len(mailbox) - 1 : mailbox'[i] = mailbox[i + 1]
    BY TailOnce DEF TypeOK
  <1>2. ASSUME NEW k \in 1 .. Len(mailbox), mailbox[k] = n
        PROVE  Out(n)'
    <2>1. k # 1 /\ k - 1 \in 1 .. Len(mailbox) - 1 /\ mailbox'[k - 1] = n
      BY <1>1, <1>2
    <2>2. Len(mailbox') = Len(mailbox) - 1
      BY <1>1, LenProperties
    <2> QED
      BY <2>1, <2>2 DEF Out
  <1> QED
    BY <1>2 DEF Out

\* A timer that expires is out as before.
LEMMA OutAfterExpire ==
  ASSUME TypeOK, NEW m \in Session, timer' = timer \ {m}, mailbox' = Append(mailbox, m),
         NEW n \in Session, Out(n)
  PROVE  Out(n)'
  <1>1. /\ Len(mailbox) \in Nat /\ Len(mailbox') = Len(mailbox) + 1
        /\ \A i \in 1 .. Len(mailbox) : mailbox'[i] = mailbox[i]
        /\ mailbox'[Len(mailbox) + 1] = m
    BY AppendProperties, LenProperties DEF TypeOK
  <1> QED
    BY <1>1 DEF Out

-----------------------------------------------------------------------------
(***************************************************************************)
(* The steps.                                                              *)
(***************************************************************************)

LEMMA InitIInv == Init => IInv
  <1> SUFFICES ASSUME Init
               PROVE  IInv
    OBVIOUS
  <1> USE SleepAssumption DEF Init
  <1>1. TypeOK
    BY DEF TypeOK, TaskState, Kind, NoSession
  <1>2. Fresh /\ Entries /\ Breaks /\ Sleepers
    BY DEF Fresh, Entries, Breaks, Sleepers, Sleeps, NoSession, Session
  <1>3. Readied /\ AsleepCanWake /\ TimeoutOnce
    BY DEF Readied, AsleepCanWake, TimeoutOnce
  <1> QED
    BY <1>1, <1>2, <1>3 DEF IInv

\* A step that changes neither the maps nor the tasks.
LEMMA BooksKept ==
  ASSUME IInv, UNCHANGED <<nextSession, bookVars, task, ready, called>>,
         \A n \in Session : Out(n) => Out(n)', TypeOK'
  PROVE  IInv'
  <1> USE DEF IInv, bookVars
  <1>1. Fresh'
    BY DEF Fresh
  <1>2. Entries'
    BY DEF Entries
  <1>3. Breaks'
    BY DEF Breaks
  <1>4. Sleepers'
    BY DEF Sleepers, Sleeps
  <1>5. Readied'
    BY DEF Readied
  <1>6. AsleepCanWake'
    BY DEF AsleepCanWake, TypeOK, Session, NoSession, Fresh
  <1>7. TimeoutOnce'
    BY DEF TimeoutOnce
  <1> QED
    BY <1>1, <1>2, <1>3, <1>4, <1>5, <1>6, <1>7

\* The core: timers expire, turns begin and end.
LEMMA ExpireStep ==
  ASSUME IInv, NEW n \in Session, Expire(n)
  PROVE  IInv'
  <1> USE DEF Expire
  <1>1. TypeOK /\ TypeOK'
    BY AppendProperties DEF IInv, TypeOK, bookVars
  <1> QED
    BY <1>1, OutAfterExpire, BooksKept

LEMMA TurnStep ==
  ASSUME IInv, TurnBegin \/ Drain \/ TurnEnd
  PROVE  IInv'
  <1>1. TypeOK'
    BY DEF IInv, TypeOK, bookVars, TurnBegin, Drain, TurnEnd
  <1> QED
    BY <1>1, BooksKept DEF TurnBegin, Drain, TurnEnd, Out

\* sleep() and wait() take a session that nothing is about yet.
LEMMA FallAsleepStep ==
  ASSUME OwnTokens, IInv, NEW t \in Task, NEW kind \in Kind, FallAsleep(t, kind)
  PROVE  IInv'
  <1> USE DEF FallAsleep
  <1> PICK n \in Session : n = nextSession
    OBVIOUS
  <1>1. n \in Session /\ n \in Nat /\ n # NoSession /\ TokenOf[t] \in Token
    BY SleepAssumption DEF Session, NoSession
  <1>2. TypeOK /\ TypeOK'
    BY <1>1 DEF IInv, TypeOK, TaskState
  <1>3. session_id_callback[n] = NoTask /\ n \notin broken
    BY <1>1, SleepAssumption DEF IInv, Fresh, Breaks, Session
  <1>4. /\ t \notin {NoTask, Func}
        /\ task'[t] = [state |-> "asleep", session |-> n, kind |-> kind]
        /\ \A u \in Task : u # t => task'[u] = task[u]
        /\ \A m \in Session : session_id_callback'[m] = IF m = n THEN t ELSE session_id_callback[m]
        /\ \A k \in Token : sleep_session'[k] = IF k = TokenOf[t] THEN n ELSE sleep_session[k]
    BY <1>2, SleepAssumption DEF TypeOK
  <1>5. \A m \in Session : Out(m) => Out(m)'
    BY DEF Out
  <1>6. \A u \in Task : task[u].session # n
    BY <1>1, <1>2 DEF IInv, Fresh, TypeOK
  <1>7. Fresh'
    <2>1. \A m \in Session : m < n => m < nextSession'
      BY <1>1 DEF Session
    <2>2. n < nextSession' /\ nextSession' \in Nat
      BY <1>1
    <2>3. \A m \in Session : session_id_callback'[m] # NoTask => m < nextSession'
      BY <1>4, <2>1, <2>2 DEF IInv, Fresh
    <2>4. \A i \in DOMAIN called : called[i] < nextSession'
      <3>1. \A i \in DOMAIN called : called[i] \in Session
        BY <1>2, ElementOfSeq, LenProperties DEF TypeOK
      <3> QED
        BY <2>1, <3>1 DEF IInv, Fresh
    <2>5. \A u \in Task : /\ task'[u].session # NoSession => task'[u].session < nextSession'
                          /\ task'[u].state # "awake" => task'[u].session # NoSession
      <3>1. task'[t].session = n /\ n # NoSession
        BY <1>1, <1>4 DEF Session, NoSession
      <3>2. ASSUME NEW u \in Task, u # t
            PROVE  /\ task'[u].session # NoSession => task'[u].session < nextSession'
                   /\ task'[u].state # "awake" => task'[u].session # NoSession
        <4>1. task'[u] = task[u]
          BY <1>4, <3>2
        <4>2. /\ task[u].session # NoSession => task[u].session \in Session /\ task[u].session < n
              /\ task[u].state # "awake" => task[u].session # NoSession
          BY <1>1, <1>2 DEF IInv, Fresh, TypeOK
        <4> QED
          BY <4>1, <4>2, <2>1
      <3> QED
        BY <3>1, <3>2, <2>2
    <2> QED
      BY <2>3, <2>4, <2>5 DEF Fresh
  <1>8. Entries'
    BY <1>2, <1>3, <1>4, <1>5 DEF IInv, Entries, TypeOK
  <1>9. Breaks'
    BY <1>2, <1>3, <1>4, <1>6 DEF IInv, Breaks, TypeOK, Session, NoSession
  <1>10. Sleepers'
    BY <1>1, <1>2, <1>4, <1>6 DEF IInv, Sleepers, Sleeps, TypeOK
  <1>11. Readied'
    BY <1>2, <1>4 DEF IInv, Readied, TypeOK
  <1>12. AsleepCanWake'
    <2> SUFFICES ASSUME NEW u \in Task, task'[u].state = "asleep", NEW m, m = task'[u].session
                 PROVE  /\ sleep_session'[TokenOf[u]] = m
                        /\ session_id_callback'[m] = u
                        /\ m \notin broken'
                        /\ task'[u].kind = "sleep" => Out(m)'
      BY DEF AsleepCanWake, Out
    <2>1. CASE u = t
      BY <2>1, <1>1, <1>3, <1>4 DEF Out
    <2>2. CASE u # t
      <3>1. task'[u] = task[u] /\ task[u].session \in Session /\ task[u].session # n
        BY <2>2, <1>2, <1>4, <1>6 DEF IInv, Fresh, TypeOK
      <3>2. TokenOf[u] # TokenOf[t] /\ TokenOf[u] \in Token
        BY <2>2, SleepAssumption DEF OwnTokens
      <3> QED
        BY <3>1, <3>2, <1>4, <1>5 DEF IInv, AsleepCanWake
    <2> QED
      BY <2>1, <2>2
  <1>13. TimeoutOnce'
    BY <1>2, <1>4, <1>5 DEF IInv, TimeoutOnce, TypeOK
  <1> QED
    BY <1>2, <1>7, <1>8, <1>9, <1>10, <1>11, <1>12, <1>13 DEF IInv

\* timeout() does so too.
LEMMA TimeoutStep ==
  ASSUME IInv, Timeout
  PROVE  IInv'
  <1> USE DEF Timeout
  <1> PICK n \in Session : n = nextSession
    OBVIOUS
  <1>1. n \in Session /\ n \in Nat /\ n # NoSession
    BY DEF Session, NoSession
  <1>2. TypeOK /\ TypeOK'
    BY <1>1 DEF IInv, TypeOK
  <1>3. session_id_callback[n] = NoTask /\ n \notin broken
    BY <1>1, SleepAssumption DEF IInv, Fresh, Breaks, Session
  <1>4. /\ Func \notin Task /\ Func # NoTask
        /\ \A m \in Session : session_id_callback'[m] = IF m = n THEN Func ELSE session_id_callback[m]
    BY <1>2, SleepAssumption DEF TypeOK
  <1>5. \A m \in Session : Out(m) => Out(m)'
    BY DEF Out
  <1>6. \A u \in Task : task[u].session # n
    BY <1>1, <1>2 DEF IInv, Fresh, TypeOK
  <1>7. Fresh'
    <2>1. \A m \in Session : m < n => m < nextSession'
      BY <1>1 DEF Session
    <2>2. n < nextSession' /\ nextSession' \in Nat
      BY <1>1
    <2>3. \A m \in Session : session_id_callback'[m] # NoTask => m < nextSession'
      BY <1>4, <2>1, <2>2 DEF IInv, Fresh
    <2>4. \A i \in DOMAIN called : called[i] < nextSession'
      <3>1. \A i \in DOMAIN called : called[i] \in Session
        BY <1>2, ElementOfSeq, LenProperties DEF TypeOK
      <3> QED
        BY <2>1, <3>1 DEF IInv, Fresh
    <2>5. \A u \in Task : /\ task'[u].session # NoSession => task'[u].session < nextSession'
                          /\ task'[u].state # "awake" => task'[u].session # NoSession
      BY <1>1, <1>2, <1>4, <2>1, <2>2 DEF IInv, Fresh, TypeOK
    <2> QED
      BY <2>3, <2>4, <2>5 DEF Fresh
  <1>8. Entries'
    BY <1>2, <1>3, <1>4, <1>5 DEF IInv, Entries, TypeOK
  <1>9. Breaks'
    BY <1>2, <1>3, <1>4, <1>6 DEF IInv, Breaks, TypeOK, Session, NoSession
  <1>10. Sleepers'
    BY <1>2 DEF IInv, Sleepers, Sleeps, TypeOK
  <1>11. Readied'
    BY <1>2 DEF IInv, Readied, TypeOK
  <1>12. AsleepCanWake'
    <2> SUFFICES ASSUME NEW u \in Task, task[u].state = "asleep", NEW m, m = task[u].session
                 PROVE  /\ sleep_session[TokenOf[u]] = m
                        /\ session_id_callback'[m] = u
                        /\ m \notin broken
                        /\ task[u].kind = "sleep" => Out(m)'
      BY DEF AsleepCanWake, Out
    <2>1. m \in Session /\ m # n
      BY <1>2, <1>6 DEF IInv, Fresh, TypeOK
    <2> QED
      BY <2>1, <1>4, <1>5 DEF IInv, AsleepCanWake
  <1>13. TimeoutOnce'
    <2>1. Out(n)' /\ n \notin broken'
      BY <1>3 DEF Out
    <2>2. \A i \in DOMAIN called : called[i] # n
      BY <1>1, <1>2 DEF IInv, Fresh, TypeOK
    <2> QED
      BY <2>1, <2>2, <1>2, <1>4, <1>5 DEF IInv, TimeoutOnce, TypeOK
  <1> QED
    BY <1>2, <1>7, <1>8, <1>9, <1>10, <1>11, <1>12, <1>13 DEF IInv

\* A promise that is resolved: the task is ready to resume, once.
LEMMA ResolveFacts ==
  ASSUME IInv, NEW t \in Task, NEW n \in Session, Resolve(t, n)
  PROVE  /\ task' \in [Task -> [state : TaskState, session : Session \cup {NoSession}, kind : Kind]]
         /\ ready' \in Seq(Task)
         /\ \A u \in Task : /\ task'[u].session = task[u].session /\ task'[u].kind = task[u].kind
                            /\ task'[u].state = IF u = t /\ task[t].state = "asleep" /\ task[t].session = n
                                                  THEN "settled" ELSE task[u].state
         /\ Readied'
  <1>1. CASE task[t].state = "asleep" /\ task[t].session = n
    <2>1. /\ task' = [task EXCEPT ![t].state = "settled"] /\ ready' = Append(ready, t)
          /\ task \in [Task -> [state : TaskState, session : Session \cup {NoSession}, kind : Kind]]
          /\ ready \in Seq(Task)
      BY <1>1 DEF Resolve, IInv, TypeOK
    <2>2. /\ task' \in [Task -> [state : TaskState, session : Session \cup {NoSession}, kind : Kind]]
          /\ \A u \in Task : /\ task'[u].session = task[u].session /\ task'[u].kind = task[u].kind
                             /\ task'[u].state = IF u = t THEN "settled" ELSE task[u].state
      BY <2>1 DEF TaskState
    <2>3. \A i \in DOMAIN ready : ready[i] \in Task /\ ready[i] # t
      BY <1>1, <2>1, ElementOfSeq, LenProperties DEF IInv, Readied
    <2>4. /\ ready' \in Seq(Task)
          /\ \A i \in DOMAIN ready' : ready'[i] = t \/ \E j \in DOMAIN ready : ready'[i] = ready[j]
          /\ \A i, j \in DOMAIN ready' : ready'[i] = ready'[j] => i = j
      BY <2>1, <2>3, AppendOnce DEF IInv, Readied
    <2>5. ASSUME NEW i \in DOMAIN ready'
          PROVE  task'[ready'[i]].state = "settled"
      <3>1. CASE ready'[i] = t
        BY <3>1, <2>2
      <3>2. CASE \E j \in DOMAIN ready : ready'[i] = ready[j]
        BY <3>2, <2>2, <2>3 DEF IInv, Readied
      <3> QED
        BY <3>1, <3>2, <2>4
    <2>6. Readied'
      BY <2>4, <2>5 DEF Readied
    <2> QED
      BY <1>1, <2>2, <2>4, <2>6
  <1>2. CASE ~ (task[t].state = "asleep" /\ task[t].session = n)
    <2>1. UNCHANGED <<task, ready>>
      BY <1>2 DEF Resolve
    <2> QED
      BY <1>2, <2>1 DEF IInv, TypeOK, Readied
  <1> QED
    BY <1>1, <1>2

\* wakeup() breaks off the sleep that its token leads to.
LEMMA WakeupStep ==
  ASSUME IInv, NEW k \in Token, Wakeup(k)
  PROVE  IInv'
  <1>1. PICK n \in Session :
          /\ WakeupFinds(k, n) /\ session_id_callback[n] # NoTask
          /\ Resolve(session_id_callback[n], n)
          /\ broken' = broken \cup {n}
          /\ UNCHANGED <<turn, nextSession, timer, mailbox, session_id_callback, sleep_session, called>>
    BY DEF Wakeup
  <1>2. TypeOK
    BY DEF IInv
  <1>3. session_id_callback[n] # Func
    <2>1. PICK u \in Task : Sleeps(u, n)
      BY <1>1 DEF IInv, Sleepers, WakeupFinds, NoSession
    <2> QED
      BY <1>1, <2>1 DEF IInv, Breaks, Sleeps, WakeupFinds
  <1>4. PICK t \in Task : t = session_id_callback[n]
    BY <1>1, <1>2, <1>3 DEF TypeOK
  <1>5. /\ task' \in [Task -> [state : TaskState, session : Session \cup {NoSession}, kind : Kind]]
        /\ ready' \in Seq(Task)
        /\ \A u \in Task : /\ task'[u].session = task[u].session /\ task'[u].kind = task[u].kind
                           /\ task'[u].state = IF u = t /\ task[t].state = "asleep" /\ task[t].session = n
                                                 THEN "settled" ELSE task[u].state
        /\ Readied'
    BY <1>1, <1>4, ResolveFacts
  <1>6. TypeOK'
    BY <1>1, <1>2, <1>5 DEF TypeOK, WakeupFinds
  <1>7. \A m \in Session : Out(m) <=> Out(m)'
    BY <1>1 DEF Out
  <1>8. Fresh'
    BY <1>1, <1>5 DEF IInv, Fresh
  <1>9. Entries'
    <2> SUFFICES ASSUME NEW m \in Session, NEW u \in Task, u = session_id_callback[m]
                 PROVE  \/ m \notin broken' /\ task'[u].state = "asleep" /\ task'[u].session = m
                        \/ m \in broken' /\ Out(m)
                        \/ m \in broken' /\ task'[u] = [state |-> "settled", session |-> m, kind |-> "wait"]
      BY <1>1, <1>7 DEF Entries
    <2>1. \/ m \notin broken /\ task[u].state = "asleep" /\ task[u].session = m
          \/ m \in broken /\ Out(m)
          \/ m \in broken /\ task[u] = [state |-> "settled", session |-> m, kind |-> "wait"]
      BY DEF IInv, Entries
    <2>2. CASE m \notin broken /\ m = n
      <3>1. u = t /\ task[u].state = "asleep" /\ task[u].session = m /\ m \in broken'
        BY <2>1, <2>2, <1>1, <1>4
      <3>2. task[u].kind = "sleep" => Out(m)
        BY <3>1 DEF IInv, AsleepCanWake
      <3>3. task[u].kind = "wait" => task'[u] = [state |-> "settled", session |-> m, kind |-> "wait"]
        BY <3>1, <1>5, <2>2
      <3> QED
        BY <3>1, <3>2, <3>3, <1>2 DEF TypeOK, Kind
    <2>3. CASE m \notin broken /\ m # n
      BY <2>1, <2>3, <1>1, <1>5
    <2>4. CASE m \in broken /\ Out(m)
      BY <2>4, <1>1
    <2>5. CASE m \in broken /\ task[u] = [state |-> "settled", session |-> m, kind |-> "wait"]
      <3>1. task'[u].state = "settled" /\ task'[u].session = m /\ task'[u].kind = "wait"
        BY <2>5, <1>5
      <3>2. task'[u] = [state |-> "settled", session |-> m, kind |-> "wait"]
        BY <3>1, <1>5
      <3> QED
        BY <2>5, <3>2, <1>1
    <2> QED
      BY <2>1, <2>2, <2>3, <2>4, <2>5
  <1>10. Breaks'
    BY <1>1, <1>4, <1>5 DEF IInv, Breaks
  <1>11. Sleepers'
    <2>1. \A u \in Task : task'[u].state # "awake" <=> task[u].state # "awake"
      BY <1>5
    <2>2. \A u \in Task : \A m : Sleeps(u, m)' <=> Sleeps(u, m)
      BY <2>1, <1>5 DEF Sleeps
    <2>3. \A v, u \in Task, m \in Session : Sleeps(v, m)' /\ Sleeps(u, m)' => v = u
      BY <2>2 DEF IInv, Sleepers
    <2>4. ASSUME NEW l \in Token, sleep_session'[l] # NoSession
          PROVE  \E u \in Task : /\ TokenOf[u] = l
                                 /\ task'[u].state # "awake" /\ task'[u].session = sleep_session'[l]
      BY <2>1, <2>4, <1>1, <1>5 DEF IInv, Sleepers, Sleeps
    <2> QED
      BY <2>3, <2>4 DEF Sleepers, Sleeps
  <1>12. AsleepCanWake'
    <2> SUFFICES ASSUME NEW u \in Task, task'[u].state = "asleep", NEW m, m = task'[u].session
                 PROVE  /\ sleep_session'[TokenOf[u]] = m
                        /\ session_id_callback'[m] = u
                        /\ m \notin broken'
                        /\ task'[u].kind = "sleep" => Out(m)'
      BY DEF AsleepCanWake, Out
    <2>1. m = task[u].session /\ task[u].state = "asleep"
      BY <1>5
    <2>2. /\ sleep_session[TokenOf[u]] = m /\ session_id_callback[m] = u
          /\ m \notin broken
          /\ task[u].kind = "sleep" => Out(m)
      BY <2>1 DEF IInv, AsleepCanWake
    <2>3. m # n
      BY <2>1, <2>2, <1>4, <1>5
    <2>4. m \in Session
      BY <2>1, <1>2 DEF IInv, Fresh, TypeOK
    <2> QED
      BY <2>2, <2>3, <2>4, <1>1, <1>5, <1>7
  <1>13. TimeoutOnce'
    BY <1>1, <1>3, <1>7 DEF IInv, TimeoutOnce
  <1> QED
    BY <1>5, <1>6, <1>8, <1>9, <1>10, <1>11, <1>12, <1>13 DEF IInv

\* The RESPONSE of a timer settles the sleep that its task is in, or the call
\* of a function, or nothing.
LEMMA DispatchTimerStep ==
  ASSUME IInv, DispatchTimer
  PROVE  IInv'
  <1> USE DEF DispatchTimer
  <1>1. TypeOK
    BY DEF IInv
  <1>2. /\ mailbox' \in Seq(Session) /\ Head(mailbox) \in Session
    BY <1>1, TailOnce DEF TypeOK
  <1> PICK n \in Session : n = Head(mailbox)
    BY <1>2
  <1>3. /\ session_id_callback' \in [Session -> Task \cup {NoTask, Func}]
        /\ \A m \in Session : session_id_callback'[m] = IF m = n THEN NoTask ELSE session_id_callback[m]
        /\ broken' = broken \ {n}
    BY <1>1 DEF TypeOK
  <1>4. \A m \in Session : m # n /\ Out(m) => Out(m)'
    BY <1>1, OutAfterTail
  <1>5. NoTask \notin Task /\ Func \notin Task /\ Func # NoTask
    BY SleepAssumption
  \* What has become of the tasks.
  <1>6. /\ task' \in [Task -> [state : TaskState, session : Session \cup {NoSession}, kind : Kind]]
        /\ ready' \in Seq(Task)
        /\ \A u \in Task :
             /\ task'[u].session = task[u].session /\ task'[u].kind = task[u].kind
             /\ task'[u].state = IF task[u].state = "asleep" /\ task[u].session = n
                                   THEN "settled" ELSE task[u].state
        /\ Readied'
    <2>1. \A u \in Task : task[u].state = "asleep" /\ task[u].session = n =>
            session_id_callback[n] = u /\ n \notin broken
      BY DEF IInv, AsleepCanWake
    <2>2. CASE session_id_callback[n] # NoTask /\ n \notin broken /\ session_id_callback[n] # Func
      <3>1. session_id_callback[n] \in Task /\ Resolve(session_id_callback[n], n)
        BY <2>2, <1>1 DEF TypeOK, Settle
      <3>2. PICK t \in Task : t = session_id_callback[n]
        BY <3>1
      <3>3. /\ task' \in [Task -> [state : TaskState, session : Session \cup {NoSession}, kind : Kind]]
            /\ ready' \in Seq(Task)
            /\ \A u \in Task : /\ task'[u].session = task[u].session /\ task'[u].kind = task[u].kind
                               /\ task'[u].state = IF u = t /\ task[t].state = "asleep" /\ task[t].session = n
                                                     THEN "settled" ELSE task[u].state
            /\ Readied'
        BY <3>1, <3>2, ResolveFacts
      <3> QED
        BY <3>2, <3>3, <2>1
    <2>3. CASE ~ (session_id_callback[n] # NoTask /\ n \notin broken /\ session_id_callback[n] # Func)
      <3>1. UNCHANGED <<task, ready>>
        BY <2>3 DEF Settle
      <3>2. \A u \in Task : ~ (task[u].state = "asleep" /\ task[u].session = n)
        BY <2>1, <2>3, <1>5
      <3> QED
        BY <3>1, <3>2, <1>1 DEF TypeOK, IInv, Readied
    <2> QED
      BY <2>2, <2>3
  <1>7. /\ called' \in Seq(Session)
        /\ \A i \in DOMAIN called' : \/ called'[i] = n /\ session_id_callback[n] = Func
                                     \/ \E j \in DOMAIN called : called'[i] = called[j]
        /\ \A i, j \in DOMAIN called' : called'[i] = called'[j] => i = j
    <2>1. CASE called' = called
      BY <2>1, <1>1 DEF TypeOK, IInv, TimeoutOnce
    <2>2. CASE called' # called
      <3>1. called' = Append(called, n) /\ session_id_callback[n] = Func
        BY <2>2 DEF Settle
      <3>2. called \in Seq(Session) /\ \A i \in DOMAIN called : called[i] # n
        BY <3>1, <1>1 DEF TypeOK, IInv, TimeoutOnce
      <3> QED
        BY <3>1, <3>2, AppendOnce DEF IInv, TimeoutOnce
    <2> QED
      BY <2>1, <2>2
  <1>8. TypeOK'
    BY <1>1, <1>2, <1>3, <1>6, <1>7 DEF TypeOK
  <1>9. Fresh'
    <2>1. \A i \in DOMAIN called' : called'[i] < nextSession
      BY <1>5, <1>7 DEF IInv, Fresh
    <2>2. \A m \in Session : session_id_callback'[m] # NoTask => m < nextSession
      BY <1>3 DEF IInv, Fresh
    <2>3. \A u \in Task : /\ task'[u].session # NoSession => task'[u].session < nextSession
                          /\ task'[u].state # "awake" => task'[u].session # NoSession
      BY <1>6 DEF IInv, Fresh
    <2> QED
      BY <2>1, <2>2, <2>3 DEF Fresh
  <1>10. Entries'
    <2> SUFFICES ASSUME NEW m \in Session, NEW u \in Task, u = session_id_callback'[m]
                 PROVE  \/ m \notin broken' /\ task'[u].state = "asleep" /\ task'[u].session = m
                        \/ m \in broken' /\ Out(m)'
                        \/ m \in broken' /\ task'[u] = [state |-> "settled", session |-> m, kind |-> "wait"]
      BY DEF Entries
    <2>1. m # n /\ u = session_id_callback[m]
      BY <1>3, <1>5
    <2>2. m \in broken' <=> m \in broken
      BY <2>1, <1>3
    <2>3. CASE m \notin broken /\ task[u].state = "asleep" /\ task[u].session = m
      BY <2>1, <2>2, <2>3, <1>6
    <2>4. CASE m \in broken /\ Out(m)
      BY <2>1, <2>2, <2>4, <1>4
    <2>5. CASE m \in broken /\ task[u] = [state |-> "settled", session |-> m, kind |-> "wait"]
      <3>1. task'[u].state = "settled" /\ task'[u].session = m /\ task'[u].kind = "wait"
        BY <2>5, <1>6
      <3>2. task'[u] = [state |-> "settled", session |-> m, kind |-> "wait"]
        BY <3>1, <1>6
      <3> QED
        BY <3>2, <2>5, <2>2
    <2> QED
      BY <2>1, <2>3, <2>4, <2>5 DEF IInv, Entries
  <1>11. Breaks'
    BY <1>3, <1>5, <1>6, <1>1 DEF IInv, Breaks, TypeOK
  <1>12. Sleepers'
    <2>1. \A u \in Task : task'[u].state # "awake" <=> task[u].state # "awake"
      BY <1>6
    <2>2. \A u \in Task : \A m : Sleeps(u, m)' <=> Sleeps(u, m)
      BY <2>1, <1>6 DEF Sleeps
    <2>3. \A v, u \in Task, m \in Session : Sleeps(v, m)' /\ Sleeps(u, m)' => v = u
      BY <2>2 DEF IInv, Sleepers
    <2>4. ASSUME NEW l \in Token, sleep_session'[l] # NoSession
          PROVE  \E u \in Task : /\ TokenOf[u] = l
                                 /\ task'[u].state # "awake" /\ task'[u].session = sleep_session'[l]
      BY <2>1, <2>4, <1>6 DEF IInv, Sleepers, Sleeps
    <2> QED
      BY <2>3, <2>4 DEF Sleepers, Sleeps
  <1>13. AsleepCanWake'
    <2> SUFFICES ASSUME NEW u \in Task, task'[u].state = "asleep", NEW m, m = task'[u].session
                 PROVE  /\ sleep_session[TokenOf[u]] = m
                        /\ session_id_callback'[m] = u
                        /\ m \notin broken'
                        /\ task'[u].kind = "sleep" => Out(m)'
      BY DEF AsleepCanWake, Out
    <2>1. m = task[u].session /\ task[u].state = "asleep" /\ m # n
      BY <1>6
    <2>2. m \in Session
      BY <2>1, <1>1 DEF IInv, Fresh, TypeOK
    <2>3. /\ sleep_session[TokenOf[u]] = m /\ session_id_callback[m] = u
          /\ m \notin broken
          /\ task[u].kind = "sleep" => Out(m)
      BY <2>1 DEF IInv, AsleepCanWake
    <2> QED
      BY <2>1, <2>2, <2>3, <1>3, <1>4, <1>6
  <1>14. TimeoutOnce'
    <2> SUFFICES ASSUME NEW m \in Session, session_id_callback'[m] = Func
                 PROVE  Out(m)' /\ m \notin broken' /\ \A i \in DOMAIN called' : called'[i] # m
      BY <1>7 DEF TimeoutOnce
    <2>1. m # n /\ session_id_callback[m] = Func
      BY <1>3, <1>5
    <2> QED
      BY <2>1, <1>3, <1>4, <1>7 DEF IInv, TimeoutOnce
  <1> QED
    BY <1>6, <1>8, <1>9, <1>10, <1>11, <1>12, <1>13, <1>14 DEF IInv

\* The sleeper resumes and takes its sleep off the books; the timer of a sleep
\* that was broken off finds its entry still.
LEMMA ResumeStep ==
  ASSUME OwnTokens, IInv, Resume
  PROVE  IInv'
  <1> USE DEF Resume
  <1>1. TypeOK
    BY DEF IInv
  <1>2. /\ ready' \in Seq(Task) /\ Head(ready) \in Task
        /\ DOMAIN ready' = 1 .. Len(ready) - 1
        /\ DOMAIN ready = 1 .. Len(ready) /\ Len(ready) \in Nat \ {0} /\ Head(ready) = ready[1]
        /\ \A i \in DOMAIN ready' : ready'[i] = ready[i + 1]
    BY <1>1, TailOnce, LenProperties DEF TypeOK
  <1> PICK t \in Task : t = Head(ready)
    BY <1>2
  <1>3. /\ task[t].state = "settled" /\ task[t].session \in Session
        /\ TokenOf[t] \in Token
    <2>1. 1 \in DOMAIN ready /\ ready[1] = t
      BY <1>2
    <2>2. task[t].state = "settled"
      BY <2>1 DEF IInv, Readied
    <2>3. task[t].session \in Session
      BY <2>2, <1>1 DEF IInv, Fresh, TypeOK
    <2> QED
      BY <2>2, <2>3, SleepAssumption
  <1> PICK n \in Session : n = task[t].session
    BY <1>3
  <1>4. /\ task' \in [Task -> [state : TaskState, session : Session \cup {NoSession}, kind : Kind]]
        /\ task'[t].state = "awake" /\ task'[t].session = n
        /\ \A u \in Task : u # t => task'[u] = task[u]
    BY <1>1 DEF TypeOK, TaskState
  <1>5. /\ sleep_session' \in [Token -> Session \cup {NoSession}]
        /\ \A k \in Token : sleep_session'[k] = IF k = TokenOf[t] THEN NoSession ELSE sleep_session[k]
    BY <1>1, <1>3 DEF TypeOK
  <1>6. /\ session_id_callback' \in [Session -> Task \cup {NoTask, Func}]
        /\ \A m \in Session : session_id_callback'[m] =
             IF m = n /\ task[t].kind = "wait" THEN NoTask ELSE session_id_callback[m]
        /\ \A m \in Session : m \in broken' <=> m \in broken /\ ~ (m = n /\ task[t].kind = "wait")
        /\ broken' \subseteq Session
    <2>1. CASE task[t].kind = "wait"
      BY <2>1, <1>1 DEF TypeOK
    <2>2. CASE task[t].kind = "sleep"
      BY <2>2, <1>1 DEF TypeOK
    <2> QED
      BY <2>1, <2>2
  <1>7. NoTask \notin Task /\ Func \notin Task /\ Func # NoTask
    BY SleepAssumption
  <1>8. \A m \in Session : Out(m) <=> Out(m)'
    BY DEF Out
  <1>9. TypeOK'
    BY <1>1, <1>2, <1>4, <1>5, <1>6 DEF TypeOK
  <1>10. Fresh'
    <2>1. \A m \in Session : session_id_callback'[m] # NoTask => m < nextSession
      BY <1>6 DEF IInv, Fresh
    <2>2. \A u \in Task : /\ task'[u].session # NoSession => task'[u].session < nextSession
                          /\ task'[u].state # "awake" => task'[u].session # NoSession
      BY <1>4 DEF IInv, Fresh
    <2> QED
      BY <2>1, <2>2 DEF IInv, Fresh
  <1>11. Entries'
    <2> SUFFICES ASSUME NEW m \in Session, NEW u \in Task, u = session_id_callback'[m]
                 PROVE  \/ m \notin broken' /\ task'[u].state = "asleep" /\ task'[u].session = m
                        \/ m \in broken' /\ Out(m)'
                        \/ m \in broken' /\ task'[u] = [state |-> "settled", session |-> m, kind |-> "wait"]
      BY DEF Entries
    <2>1. u = session_id_callback[m] /\ ~ (m = n /\ task[t].kind = "wait")
      BY <1>6, <1>7
    <2>2. m \in broken' <=> m \in broken
      BY <2>1, <1>6
    <2>3. CASE m \notin broken /\ task[u].state = "asleep" /\ task[u].session = m
      BY <2>2, <2>3, <1>3, <1>4
    <2>4. CASE m \in broken /\ Out(m)
      BY <2>2, <2>4, <1>8
    <2>5. CASE m \in broken /\ task[u] = [state |-> "settled", session |-> m, kind |-> "wait"]
      BY <2>1, <2>2, <2>5, <1>4
    <2> QED
      BY <2>1, <2>3, <2>4, <2>5 DEF IInv, Entries
  <1>12. Breaks'
    <2>1. \A m \in broken' : session_id_callback'[m] \in Task
      BY <1>1, <1>6 DEF IInv, Breaks, TypeOK
    <2>2. \A u \in Task : task'[u].session = task[u].session
      BY <1>4
    <2>3. \A u \in Task : task[u].session # NoSession => session_id_callback'[task[u].session] # Func
      BY <1>1, <1>6, <1>7 DEF IInv, Breaks, TypeOK
    <2> QED
      BY <2>1, <2>2, <2>3 DEF Breaks
  <1>13. Sleepers'
    <2>1. \A u \in Task, m \in Session : Sleeps(u, m)' <=> u # t /\ Sleeps(u, m)
      BY <1>4 DEF Sleeps
    <2>2. \A v, u \in Task, m \in Session : Sleeps(v, m)' /\ Sleeps(u, m)' => v = u
      BY <2>1 DEF IInv, Sleepers
    <2>3. ASSUME NEW l \in Token, sleep_session'[l] # NoSession
          PROVE  \E u \in Task : /\ TokenOf[u] = l
                                 /\ task'[u].state # "awake" /\ task'[u].session = sleep_session'[l]
      <3>1. l # TokenOf[t] /\ sleep_session'[l] = sleep_session[l]
        BY <2>3, <1>5
      <3>2. PICK u \in Task : TokenOf[u] = l /\ Sleeps(u, sleep_session[l])
        BY <2>3, <3>1 DEF IInv, Sleepers
      <3>3. u # t /\ task'[u] = task[u]
        BY <3>1, <3>2, <1>4
      <3> QED
        BY <3>1, <3>2, <3>3 DEF Sleeps
    <2> QED
      BY <2>2, <2>3 DEF Sleepers, Sleeps
  <1>14. Readied'
    <2>1. \A i \in DOMAIN ready' : i + 1 \in DOMAIN ready /\ ready[i + 1] # t /\ ready[i + 1] \in Task
      <3>1. \A i \in DOMAIN ready' : i + 1 \in DOMAIN ready /\ 1 \in DOMAIN ready /\ i + 1 # 1
        BY <1>2
      <3>2. \A i \in DOMAIN ready : ready[i] \in Task
        BY <1>1, <1>2, ElementOfSeq DEF TypeOK
      <3>3. ready[1] = t
        BY <1>2
      <3> QED
        BY <3>1, <3>2, <3>3 DEF IInv, Readied
    <2>2. \A i \in DOMAIN ready' : task'[ready'[i]].state = "settled"
      BY <2>1, <1>2, <1>4 DEF IInv, Readied
    <2>3. \A i, j \in DOMAIN ready' : ready'[i] = ready'[j] => i = j
      BY <2>1, <1>2 DEF IInv, Readied
    <2> QED
      BY <2>2, <2>3 DEF Readied
  <1>15. AsleepCanWake'
    <2> SUFFICES ASSUME NEW u \in Task, task'[u].state = "asleep", NEW m, m = task'[u].session
                 PROVE  /\ sleep_session'[TokenOf[u]] = m
                        /\ session_id_callback'[m] = u
                        /\ m \notin broken'
                        /\ task'[u].kind = "sleep" => Out(m)'
      BY DEF AsleepCanWake, Out
    <2>1. u # t /\ task'[u] = task[u]
      BY <1>4
    <2>2. m \in Session
      BY <2>1, <1>1 DEF IInv, Fresh, TypeOK
    <2>3. m # n
      BY <2>1, <2>2, <1>3 DEF IInv, Sleepers, Sleeps
    <2>4. TokenOf[u] # TokenOf[t] /\ TokenOf[u] \in Token
      BY <2>1, SleepAssumption DEF OwnTokens
    <2>5. /\ sleep_session[TokenOf[u]] = m /\ session_id_callback[m] = u
          /\ m \notin broken
          /\ task[u].kind = "sleep" => Out(m)
      BY <2>1 DEF IInv, AsleepCanWake
    <2> QED
      BY <2>1, <2>2, <2>3, <2>4, <2>5, <1>5, <1>6, <1>8
  <1>16. TimeoutOnce'
    BY <1>6, <1>7, <1>8 DEF IInv, TimeoutOnce
  <1> QED
    BY <1>9, <1>10, <1>11, <1>12, <1>13, <1>14, <1>15, <1>16 DEF IInv

LEMMA NextIInv ==
  ASSUME OwnTokens
  PROVE  IInv /\ [Next]_vars => IInv'
  <1> SUFFICES ASSUME IInv, [Next]_vars
               PROVE  IInv'
    OBVIOUS
  <1>1. CASE Script
    BY <1>1, TurnStep, DispatchTimerStep, ResumeStep DEF Script
  <1>2. CASE \E n \in Session : Expire(n)
    BY <1>2, ExpireStep
  <1>3. CASE \E t \in Task, kind \in Kind : FallAsleep(t, kind)
    BY <1>3, FallAsleepStep
  <1>4. CASE Timeout
    BY <1>4, TimeoutStep
  <1>5. CASE \E k \in Token : Wakeup(k)
    BY <1>5, WakeupStep
  <1>6. CASE UNCHANGED vars
    <2>1. TypeOK'
      BY <1>6 DEF IInv, TypeOK, vars, bookVars
    <2> QED
      BY <1>6, <2>1, BooksKept DEF vars, bookVars, Out
  <1> QED
    BY <1>1, <1>2, <1>3, <1>4, <1>5, <1>6 DEF Next

-----------------------------------------------------------------------------
(***************************************************************************)
(* The theorems.                                                           *)
(***************************************************************************)

LEMMA Invariant ==
  ASSUME OwnTokens
  PROVE  Spec => []IInv
  BY InitIInv, NextIInv, PTL DEF Spec

\* Whoever wins the race for a promise, and however late the loser comes: a
\* sleeper can be woken, only what is meant for its sleep wakes it, a timeout
\* calls its function once, and the maps are empty in the end (sleep, wait,
\* wakeup, timeout, dispatch_message_impl).
THEOREM SleepCorrect ==
  ASSUME OwnTokens
  PROVE  Spec => []SleepInv
  <1>1. IInv => SleepInv
    <2> SUFFICES ASSUME IInv
                 PROVE  SleepInv
      OBVIOUS
    <2>1. StaleTimerHarmless
      BY DEF IInv, Entries, StaleTimerHarmless
    <2>2. NothingLeaks
      <3> SUFFICES ASSUME \A t \in Task : task[t].state = "awake", timer = {}, mailbox = << >>
                   PROVE  /\ \A n \in Session : session_id_callback[n] = NoTask
                          /\ \A k \in Token : sleep_session[k] = NoSession
                          /\ broken = {}
        BY DEF NothingLeaks
      <3>1. \A n \in Session : ~ Out(n)
        BY EmptySeq DEF Out
      <3>2. ASSUME NEW n \in Session, session_id_callback[n] \in Task
            PROVE  FALSE
        <4> PICK t \in Task : t = session_id_callback[n]
          BY <3>2
        <4>1. task[t].state = "awake"
          OBVIOUS
        <4>2. task[t] # [state |-> "settled", session |-> n, kind |-> "wait"]
          BY <4>1
        <4> QED
          BY <3>1, <4>1, <4>2 DEF IInv, Entries
      <3>3. \A n \in Session : session_id_callback[n] = NoTask
        BY <3>1, <3>2 DEF IInv, TypeOK, TimeoutOnce
      <3>4. broken = {}
        BY <3>2 DEF IInv, Breaks, TypeOK
      <3>5. \A k \in Token : sleep_session[k] = NoSession
        BY DEF IInv, Sleepers, Sleeps
      <3> QED
        BY <3>3, <3>4, <3>5
    <2> QED
      BY <2>1, <2>2 DEF IInv, SleepInv
  <1> QED
    BY <1>1, Invariant, PTL
=============================================================================
