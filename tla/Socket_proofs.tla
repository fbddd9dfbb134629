---------------------------- MODULE Socket_proofs ----------------------------
(***************************************************************************)
(* Proofs about Socket, for any tasks and any number of operations: who    *)
(* suspends on a socket is found by those who have to wake it, whoever     *)
(* closes the socket meanwhile is woken, the lock is handed on, and no     *)
(* reader waits for what has come.                                         *)
(*                                                                         *)
(* The steps of close() rest on the order of resumptions: the one that was *)
(* suspended resumes, and wakes the one that closes, before any that       *)
(* suspended later does (InOrder, ClosingWaits).                           *)
(***************************************************************************)
EXTENDS Socket, SequenceTheorems, TLAPS

Entry == [task : Task, at : Stage]

IsQueue(q) ==
  /\ q \in Seq(Entry)
  /\ \A i, j \in DOMAIN q : q[i].task = q[j].task => i = j

\* The stage at which each task is due in the queue q.
At(q) ==
  [t \in Task |-> IF \E i \in DOMAIN q : q[i].task = t
                    THEN q[CHOOSE i \in DOMAIN q : q[i].task = t].at
                    ELSE "none"]

stage == At(ready)

\* t is worked off before u.
Ahead(q, t, u) == \E i, j \in DOMAIN q : i < j /\ q[i].task = t /\ q[j].task = u

-----------------------------------------------------------------------------
(***************************************************************************)
(* The inductive invariant.                                                *)
(***************************************************************************)

\* Continuations are due of tasks that are in the middle of something, and
\* the application of those that are not.
Staged ==
  \A t \in Task :
    /\ stage[t] = "app" => doing[t] = "nothing"
    /\ stage[t] = "wait" => doing[t] \in Suspends \cup {"wait to close", "lock"}
    /\ stage[t] = "suspend" => doing[t] \in Suspends
    /\ stage[t] = "op" => doing[t] # "nothing"
    /\ doing[t] = "fail" => stage[t] = "op"

\* The token is that of the task that is suspended.
Tokened ==
  \A t \in Task : suspend_token = t <=> doing[t] \in Suspends /\ stage[t] = "none"

\* Before the socket is opened, and while it is, nothing else happens to it.
Untouched == closing = NoTask /\ lock = << >> /\ held = {}

Opened ==
  /\ core = "none" =>
       /\ Untouched /\ ~pooled /\ ~connecting /\ ~connected
       /\ mailbox = << >> /\ ready = << >>
       /\ \A t \in Task : doing[t] = "nothing"
  /\ connecting =>
       /\ Untouched /\ pooled /\ doing[Opener] = "open"
       /\ \A t \in Task \ {Opener} : doing[t] = "nothing"
  /\ \A t \in Task : doing[t] = "open" => t = Opener /\ connecting

\* The CONNECT comes first, and finds the task that opens the socket.
Connects ==
  /\ core = "opening" => mailbox = << >> /\ connecting /\ suspend_token = Opener
  /\ \A i \in DOMAIN mailbox : mailbox[i] = "CONNECT" =>
       i = 1 /\ connecting /\ suspend_token = Opener

\* A suspension or a close() of t was ended and is still to resume.
Ended(t) ==
  \/ doing[t] \in Suspends /\ stage[t] \in {"wait", "suspend"}
  \/ doing[t] \in {"close", "wait to close"} /\ stage[t] # "none"

\* A task that is suspended, and not late, may be woken by a message; and no
\* closer will take the socket away before.
Settled ==
  suspend_token # NoTask /\ suspend_token \notin late =>
    /\ pooled
    /\ doing[suspend_token] = "open" \/ connected
    /\ \A u \in Task : ~Ended(u)

\* The task whose suspend() has not yet returned, and that is not late.
Unreturned(t) ==
  t \notin late /\ doing[t] \in Suspends /\ stage[t] \in {"none", "wait", "suspend"}

\* Where the task that waits to close is.
ClosingWaits ==
  /\ \A t \in Task : doing[t] = "wait to close" => closing = t
  /\ closing # NoTask /\ connected => doing[closing] = "wait to close"
  /\ closing # NoTask => \A t \in Task : Unreturned(t) =>
       doing[closing] = "wait to close" /\ stage[closing] = "none"

Resuming(t) == doing[t] \in Suspends /\ stage[t] \in {"wait", "suspend"}

\* Tasks that are not late resume before those that suspended after them.
InOrder ==
  \A t, u \in Task : Resuming(t) /\ t \notin late /\ Resuming(u) /\ t # u =>
    \/ stage[t] = "suspend" /\ stage[u] = "wait"
    \/ stage[t] = stage[u] /\ Ahead(ready, t, u)

\* Those in line for the lock sleep until they are the first.
Locked ==
  pooled =>
    /\ \A i, j \in DOMAIN lock : lock[i] = lock[j] => i = j
    /\ \A t \in Task : doing[t] = "lock" => \E i \in DOMAIN lock : lock[i] = t
    /\ lock = << >> => held = {}
    /\ \A i \in DOMAIN lock : i > 1 => doing[lock[i]] = "lock" /\ stage[lock[i]] = "none"
    /\ lock # << >> =>
         \/ held = {lock[1]} /\ doing[lock[1]] # "lock"
         \/ held = {} /\ doing[lock[1]] = "lock" /\ stage[lock[1]] \in {"wait", "op"}

\* What the reader waits for has not come, unless another one has changed it.
Reading ==
  suspend_token # NoTask /\ doing[suspend_token] = "read" =>
    /\ read_required # Nothing
    /\ read_required = 0 => want[suspend_token] = 0
    /\ read_required = want[suspend_token] => ~Enough(want[suspend_token])

IInv ==
  /\ TypeOK /\ Staged /\ Tokened /\ Opened /\ Connects
  /\ Settled /\ ClosingWaits /\ InOrder /\ Locked /\ Reading

-----------------------------------------------------------------------------
(***************************************************************************)
(* The queue.                                                              *)
(***************************************************************************)

\* The length, the positions and the entries of a queue to which something is
\* appended.
LEMMA Appended ==
  ASSUME NEW S, NEW s \in Seq(S), NEW x \in S
  PROVE  /\ Append(s, x) \in Seq(S)
         /\ Len(s) \in Nat /\ DOMAIN s = 1 .. Len(s)
         /\ Len(Append(s, x)) = Len(s) + 1
         /\ DOMAIN Append(s, x) = 1 .. (Len(s) + 1)
         /\ \A i \in 1 .. Len(s) : Append(s, x)[i] = s[i] /\ s[i] \in S
         /\ Append(s, x)[Len(s) + 1] = x
<1>1. /\ Append(s, x) \in Seq(S)
      /\ Len(Append(s, x)) = Len(s) + 1
      /\ \A i \in 1 .. Len(s) : Append(s, x)[i] = s[i]
      /\ Append(s, x)[Len(s) + 1] = x
  BY AppendProperties
<1>2. Len(s) \in Nat /\ DOMAIN s = 1 .. Len(s)
  BY LenProperties
<1>3. DOMAIN Append(s, x) = 1 .. (Len(s) + 1)
  BY <1>1, LenProperties
<1>4. \A i \in 1 .. Len(s) : s[i] \in S
  BY ElementOfSeq
<1> QED
  BY <1>1, <1>2, <1>3, <1>4

\* The same of a queue from which the first is taken.
LEMMA Shortened ==
  ASSUME NEW S, NEW s \in Seq(S), s # << >>
  PROVE  /\ Tail(s) \in Seq(S)
         /\ Len(s) \in Nat \ {0} /\ DOMAIN s = 1 .. Len(s)
         /\ DOMAIN Tail(s) = 1 .. (Len(s) - 1) /\ Len(Tail(s)) = Len(s) - 1
         /\ Head(s) = s[1] /\ Head(s) \in S
         /\ \A i \in 1 .. (Len(s) - 1) : Tail(s)[i] = s[i + 1]
<1>1. /\ Tail(s) \in Seq(S) /\ Len(Tail(s)) = Len(s) - 1
      /\ \A i \in 1 .. Len(Tail(s)) : Tail(s)[i] = s[i + 1]
      /\ Head(s) \in S
  BY HeadTailProperties
<1>2. Len(s) \in Nat /\ Len(s) # 0 /\ DOMAIN s = 1 .. Len(s)
  BY LenProperties, EmptySeq
<1>3. DOMAIN Tail(s) = 1 .. (Len(s) - 1)
  BY <1>1, LenProperties
<1>4. Head(s) = s[1]
  OBVIOUS
<1> QED
  BY <1>1, <1>2, <1>3, <1>4

\* At reads a queue off correctly: an entry gives the stage of its task.
LEMMA AtEntry ==
  ASSUME NEW q, IsQueue(q), NEW i \in 1 .. Len(q)
  PROVE  q[i] \in Entry /\ At(q)[q[i].task] = q[i].at
<1>1. q \in Seq(Entry) /\ DOMAIN q = 1 .. Len(q)
  BY LenProperties DEF IsQueue
<1>2. q[i] \in Entry
  BY <1>1, ElementOfSeq
<1> DEFINE t == q[i].task
           j == CHOOSE k \in DOMAIN q : q[k].task = t
<1>3. t \in Task
  BY <1>2 DEF Entry
<1>4. j \in DOMAIN q /\ q[j].task = t
  BY <1>1
<1>5. j = i
  BY <1>1, <1>4 DEF IsQueue
<1>6. At(q)[t] = q[j].at
  BY <1>1, <1>3 DEF At
<1> QED
  BY <1>2, <1>5, <1>6

\* A task without an entry is at no stage.
LEMMA AtNone ==
  ASSUME NEW q, IsQueue(q), NEW t \in Task, \A i \in 1 .. Len(q) : q[i].task # t
  PROVE  At(q)[t] = "none"
<1>1. DOMAIN q = 1 .. Len(q)
  BY LenProperties DEF IsQueue
<1> QED
  BY <1>1 DEF At

\* A task that is at a stage has an entry.
LEMMA AtStage ==
  ASSUME NEW q, IsQueue(q), NEW t \in Task
  PROVE  /\ At(q)[t] \in Stage \cup {"none"}
         /\ At(q)[t] = "none" <=> \A i \in 1 .. Len(q) : q[i].task # t
         /\ At(q)[t] # "none" => \E i \in 1 .. Len(q) : q[i].task = t /\ q[i].at = At(q)[t]
<1>1. CASE \A i \in 1 .. Len(q) : q[i].task # t
  <2>1. At(q)[t] = "none"
    BY <1>1, AtNone
  <2> QED
    BY <1>1, <2>1
<1>2. CASE \E i \in 1 .. Len(q) : q[i].task = t
  <2>1. PICK i \in 1 .. Len(q) : q[i].task = t
    BY <1>2
  <2>2. q[i] \in Entry /\ At(q)[t] = q[i].at
    BY <2>1, AtEntry
  <2>3. q[i].at \in Stage /\ q[i].at # "none"
    BY <2>2 DEF Entry, Stage
  <2> QED
    BY <2>1, <2>2, <2>3
<1> QED
  BY <1>1, <1>2

LEMMA AtType ==
  ASSUME NEW q, IsQueue(q)
  PROVE  At(q) \in [Task -> Stage \cup {"none"}]
<1>1. \A t \in Task : At(q)[t] \in Stage \cup {"none"}
  BY AtStage
<1>2. DOMAIN At(q) = Task
  BY DEF At
<1>3. At(q) = [t \in Task |-> At(q)[t]]
  BY DEF At
<1> QED
  BY <1>1, <1>3

\* Pushing a task that is at no stage changes its stage alone, and leaves it
\* behind everyone else.
LEMMA Pushed ==
  ASSUME NEW q, IsQueue(q), NEW t \in Task, NEW s \in Stage, At(q)[t] = "none"
  PROVE  /\ IsQueue(Push(q, t, s))
         /\ At(Push(q, t, s)) = [At(q) EXCEPT ![t] = s]
         /\ \A u, v \in Task : Ahead(q, u, v) => Ahead(Push(q, t, s), u, v)
         /\ \A u \in Task : At(q)[u] # "none" => Ahead(Push(q, t, s), u, t)
<1> DEFINE e == [task |-> t, at |-> s]
           p == Push(q, t, s)
<1>1. q \in Seq(Entry) /\ e \in Entry /\ e.task = t /\ e.at = s
  BY DEF IsQueue, Entry
<1>2. p = Append(q, e)
  BY DEF Push
<1>3. /\ p \in Seq(Entry)
      /\ Len(q) \in Nat /\ DOMAIN q = 1 .. Len(q)
      /\ Len(p) = Len(q) + 1
      /\ DOMAIN p = 1 .. (Len(q) + 1)
      /\ \A i \in 1 .. Len(q) : p[i] = q[i]
      /\ p[Len(q) + 1] = e
  BY <1>1, <1>2, Appended
<1>4. \A i \in 1 .. Len(q) : q[i].task # t
  BY AtStage
<1>5. IsQueue(p)
  <2>1. \A i, j \in 1 .. Len(q) : q[i].task = q[j].task => i = j
    BY <1>3 DEF IsQueue
  <2>2. \A i, j \in 1 .. (Len(q) + 1) : p[i].task = p[j].task => i = j
    <3> SUFFICES ASSUME NEW i \in 1 .. (Len(q) + 1), NEW j \in 1 .. (Len(q) + 1),
                        p[i].task = p[j].task
                 PROVE  i = j
      OBVIOUS
    <3>1. i \in 1 .. Len(q) \/ i = Len(q) + 1
      BY <1>3
    <3>2. j \in 1 .. Len(q) \/ j = Len(q) + 1
      BY <1>3
    <3> HIDE DEF p, e
    <3> QED
      BY <3>1, <3>2, <2>1, <1>1, <1>3, <1>4
  <2> QED
    BY <1>3, <2>2 DEF IsQueue
<1>6. At(p)[t] = s
  <2>1. Len(q) + 1 \in 1 .. Len(p)
    BY <1>3
  <2>2. At(p)[p[Len(q) + 1].task] = p[Len(q) + 1].at
    BY <2>1, <1>5, AtEntry
  <2> QED
    BY <2>2, <1>3, <1>1
<1>7. ASSUME NEW u \in Task, u # t
      PROVE  At(p)[u] = At(q)[u]
  <2>1. CASE At(q)[u] = "none"
    <3>1. \A i \in 1 .. Len(q) : q[i].task # u
      BY <2>1, AtStage
    <3>2. \A i \in 1 .. Len(p) : p[i].task # u
      <4> SUFFICES ASSUME NEW i \in 1 .. Len(p)
                   PROVE  p[i].task # u
        OBVIOUS
      <4>1. i \in 1 .. Len(q) \/ i = Len(q) + 1
        BY <1>3
      <4> HIDE DEF p, e
      <4> QED
        BY <4>1, <3>1, <1>1, <1>3, <1>7
    <3>3. At(p)[u] = "none"
      BY <3>2, <1>5, AtNone
    <3> QED
      BY <2>1, <3>3
  <2>2. CASE At(q)[u] # "none"
    <3>1. PICK i \in 1 .. Len(q) : q[i].task = u /\ q[i].at = At(q)[u]
      BY <2>2, AtStage
    <3>2. i \in 1 .. Len(p) /\ p[i] = q[i]
      BY <1>3
    <3>3. At(p)[p[i].task] = p[i].at
      BY <3>2, <1>5, AtEntry
    <3> QED
      BY <3>1, <3>2, <3>3
  <2> QED
    BY <2>1, <2>2
<1>8. At(p) = [At(q) EXCEPT ![t] = s]
  <2>1. At(p) \in [Task -> Stage \cup {"none"}] /\ At(q) \in [Task -> Stage \cup {"none"}]
    BY <1>5, AtType
  <2> HIDE DEF p
  <2> QED
    BY <2>1, <1>6, <1>7
<1>9. ASSUME NEW u \in Task, NEW v \in Task, Ahead(q, u, v)
      PROVE  Ahead(p, u, v)
  <2>1. PICK i \in 1 .. Len(q), j \in 1 .. Len(q) : i < j /\ q[i].task = u /\ q[j].task = v
    BY <1>9, <1>3 DEF Ahead
  <2>2. i \in DOMAIN p /\ j \in DOMAIN p /\ p[i] = q[i] /\ p[j] = q[j]
    BY <1>3
  <2> HIDE DEF p
  <2> QED
    BY <2>1, <2>2 DEF Ahead
<1>10. ASSUME NEW u \in Task, At(q)[u] # "none"
       PROVE  Ahead(p, u, t)
  <2>1. PICK i \in 1 .. Len(q) : q[i].task = u
    BY <1>10, AtStage
  <2>2. i \in DOMAIN p /\ p[i] = q[i] /\ Len(q) + 1 \in DOMAIN p /\ i < Len(q) + 1
    BY <1>3
  <2>3. p[i].task = u /\ p[Len(q) + 1].task = t
    BY <2>1, <2>2, <1>1, <1>3
  <2> HIDE DEF p
  <2> QED
    BY <2>2, <2>3 DEF Ahead
<1> QED
  BY <1>5, <1>8, <1>9, <1>10

\* Taking the first changes its task's stage alone; nobody was ahead of it.
LEMMA Popped ==
  ASSUME NEW q, IsQueue(q), q # << >>, NEW t, NEW s, Head(q) = [task |-> t, at |-> s]
  PROVE  /\ t \in Task /\ s \in Stage
         /\ At(q)[t] = s
         /\ IsQueue(Tail(q))
         /\ At(Tail(q)) = [At(q) EXCEPT ![t] = "none"]
         /\ \A u, v \in Task \ {t} : Ahead(q, u, v) => Ahead(Tail(q), u, v)
         /\ \A u \in Task : ~Ahead(q, u, t)
<1> DEFINE p == Tail(q)
<1>1. /\ p \in Seq(Entry)
      /\ Len(q) \in Nat \ {0} /\ DOMAIN q = 1 .. Len(q)
      /\ DOMAIN p = 1 .. (Len(q) - 1) /\ Len(p) = Len(q) - 1
      /\ q[1] = [task |-> t, at |-> s] /\ q[1] \in Entry
      /\ \A i \in 1 .. (Len(q) - 1) : p[i] = q[i + 1]
  BY Shortened DEF IsQueue
<1>2. t \in Task /\ s \in Stage /\ q[1].task = t /\ q[1].at = s
  BY <1>1 DEF Entry
<1>3. At(q)[t] = s
  BY <1>1, <1>2, AtEntry
<1>4. \A i, j \in 1 .. Len(q) : q[i].task = q[j].task => i = j
  BY <1>1 DEF IsQueue
<1> HIDE DEF p
<1>5. IsQueue(p)
  <2>1. ASSUME NEW i \in 1 .. (Len(q) - 1), NEW j \in 1 .. (Len(q) - 1), p[i].task = p[j].task
        PROVE  i = j
    <3>1. i + 1 \in 1 .. Len(q) /\ j + 1 \in 1 .. Len(q)
      BY <1>1
    <3>2. q[i + 1].task = q[j + 1].task
      BY <1>1, <2>1
    <3>3. i + 1 = j + 1
      BY <3>1, <3>2, <1>4
    <3> QED
      BY <3>3
  <2> QED
    BY <1>1, <2>1 DEF IsQueue
<1>6. \A i \in 2 .. Len(q) : q[i].task # t /\ i - 1 \in 1 .. Len(p) /\ p[i - 1] = q[i]
  BY <1>1, <1>2, <1>4
<1>7. \A i \in 1 .. Len(p) : i + 1 \in 2 .. Len(q) /\ p[i] = q[i + 1]
  BY <1>1
<1>8. At(p)[t] = "none"
  BY <1>2, <1>5, <1>6, <1>7, AtNone
<1>9. ASSUME NEW u \in Task, u # t
      PROVE  At(p)[u] = At(q)[u]
  <2>1. CASE At(q)[u] = "none"
    <3>1. \A i \in 1 .. Len(q) : q[i].task # u
      BY <2>1, AtStage
    <3>2. \A i \in 1 .. Len(p) : i + 1 \in 1 .. Len(q)
      BY <1>1
    <3>3. \A i \in 1 .. Len(p) : p[i].task # u
      BY <3>1, <3>2, <1>7
    <3>4. At(p)[u] = "none"
      BY <3>3, <1>5, AtNone
    <3> QED
      BY <2>1, <3>4
  <2>2. CASE At(q)[u] # "none"
    <3>1. PICK i \in 1 .. Len(q) : q[i].task = u /\ q[i].at = At(q)[u]
      BY <2>2, AtStage
    <3>2. i \in 2 .. Len(q)
      BY <3>1, <1>1, <1>2, <1>9
    <3>3. i - 1 \in 1 .. Len(p) /\ p[i - 1] = q[i]
      BY <3>2, <1>6
    <3>4. At(p)[p[i - 1].task] = p[i - 1].at
      BY <3>3, <1>5, AtEntry
    <3> QED
      BY <3>1, <3>3, <3>4
  <2> QED
    BY <2>1, <2>2
<1>10. At(p) = [At(q) EXCEPT ![t] = "none"]
  <2>1. At(p) \in [Task -> Stage \cup {"none"}] /\ At(q) \in [Task -> Stage \cup {"none"}]
    BY <1>5, AtType
  <2> QED
    BY <2>1, <1>8, <1>9
<1>11. ASSUME NEW u \in Task \ {t}, NEW v \in Task \ {t}, Ahead(q, u, v)
       PROVE  Ahead(p, u, v)
  <2>1. PICK i \in 1 .. Len(q), j \in 1 .. Len(q) : i < j /\ q[i].task = u /\ q[j].task = v
    BY <1>11, <1>1 DEF Ahead
  <2>2. i \in 2 .. Len(q) /\ j \in 2 .. Len(q)
    BY <2>1, <1>1, <1>2
  <2>3. i - 1 \in DOMAIN p /\ j - 1 \in DOMAIN p /\ i - 1 < j - 1 /\ p[i - 1] = q[i] /\ p[j - 1] = q[j]
    BY <1>1, <1>6, <2>1, <2>2
  <2> QED
    BY <2>1, <2>3 DEF Ahead
<1>12. ASSUME NEW u \in Task, Ahead(q, u, t)
       PROVE  FALSE
  <2>1. PICK i \in 1 .. Len(q), j \in 1 .. Len(q) : i < j /\ q[j].task = t
    BY <1>12, <1>1 DEF Ahead
  <2>2. 1 \in 1 .. Len(q) /\ q[1].task = q[j].task
    BY <1>1, <1>2, <2>1
  <2>3. 1 = j
    BY <2>2, <1>4
  <2> QED
    BY <2>1, <2>3
<1> QED
  BY <1>2, <1>3, <1>5, <1>10, <1>11, <1>12 DEF p

-----------------------------------------------------------------------------
(***************************************************************************)
(* What a step does to the queue.                                          *)
(***************************************************************************)

LEMMA TypeFacts ==
  ASSUME TypeOK
  PROVE  /\ IsQueue(ready)
         /\ stage \in [Task -> Stage \cup {"none"}]
         /\ doing \in [Task -> Doing]
         /\ suspend_token \in Task \cup {NoTask} /\ closing \in Task \cup {NoTask}
         /\ late \subseteq Task /\ held \subseteq Task /\ lock \in Seq(Task)
<1>1. IsQueue(ready)
  BY DEF TypeOK, IsQueue, Entry
<1>2. stage \in [Task -> Stage \cup {"none"}]
  BY <1>1, AtType DEF stage
<1> QED
  BY <1>1, <1>2 DEF TypeOK

LEMMA LockFacts ==
  ASSUME TypeOK
  PROVE  /\ lock \in Seq(Task) /\ Len(lock) \in Nat /\ DOMAIN lock = 1 .. Len(lock)
         /\ \A i \in DOMAIN lock : lock[i] \in Task
         /\ lock # << >> => 1 \in DOMAIN lock
<1>1. lock \in Seq(Task)
  BY DEF TypeOK
<1>2. Len(lock) \in Nat /\ DOMAIN lock = 1 .. Len(lock)
  BY <1>1, LenProperties
<1>3. \A i \in DOMAIN lock : lock[i] \in Task
  BY <1>1, <1>2, ElementOfSeq
<1>4. lock # << >> => 1 \in DOMAIN lock
  BY <1>1, <1>2, EmptySeq
<1> QED
  BY <1>1, <1>2, <1>3, <1>4

\* A task is due at certain stages if its stage is one of them.
LEMMA DueIs ==
  ASSUME TypeOK, NEW t \in Task, NEW S \in SUBSET Stage
  PROVE  Due(t, S) <=> stage[t] \in S
<1>1. IsQueue(ready) /\ DOMAIN ready = 1 .. Len(ready)
  BY TypeFacts, LenProperties DEF IsQueue
<1>2. ASSUME Due(t, S)
      PROVE  stage[t] \in S
  <2>1. PICK i \in 1 .. Len(ready) : ready[i].task = t /\ ready[i].at \in S
    BY <1>1, <1>2 DEF Due
  <2>2. At(ready)[ready[i].task] = ready[i].at
    BY <1>1, AtEntry
  <2> QED
    BY <2>1, <2>2 DEF stage
<1>3. ASSUME stage[t] \in S
      PROVE  Due(t, S)
  <2>1. stage[t] # "none"
    BY <1>3 DEF Stage
  <2>2. PICK i \in 1 .. Len(ready) : ready[i].task = t /\ ready[i].at = stage[t]
    BY <1>1, <2>1, AtStage DEF stage
  <2> QED
    BY <1>1, <1>3, <2>2 DEF Due
<1> QED
  BY <1>2, <1>3

LEMMA DueFacts ==
  ASSUME TypeOK, NEW t \in Task
  PROVE  /\ Due(t, {"app"}) <=> stage[t] = "app"
         /\ Due(t, {"op"}) <=> stage[t] = "op"
         /\ Due(t, {"wait"}) <=> stage[t] = "wait"
         /\ Due(t, {"wait", "suspend"}) <=> stage[t] \in {"wait", "suspend"}
         /\ Due(t, {"wait", "op"}) <=> stage[t] \in {"wait", "op"}
         /\ Due(t, Stage) <=> stage[t] # "none"
<1>1. \A S \in SUBSET Stage : Due(t, S) <=> stage[t] \in S
  BY DueIs
<1>2. /\ {"app"} \in SUBSET Stage /\ {"op"} \in SUBSET Stage /\ {"wait"} \in SUBSET Stage
      /\ {"wait", "suspend"} \in SUBSET Stage /\ {"wait", "op"} \in SUBSET Stage
      /\ Stage \in SUBSET Stage
  BY DEF Stage
<1>3. stage[t] \in Stage \cup {"none"} /\ "none" \notin Stage
  BY TypeFacts DEF Stage
<1>4. /\ Due(t, {"app"}) <=> stage[t] \in {"app"}
      /\ Due(t, {"op"}) <=> stage[t] \in {"op"}
      /\ Due(t, {"wait"}) <=> stage[t] \in {"wait"}
      /\ Due(t, {"wait", "suspend"}) <=> stage[t] \in {"wait", "suspend"}
      /\ Due(t, {"wait", "op"}) <=> stage[t] \in {"wait", "op"}
      /\ Due(t, Stage) <=> stage[t] \in Stage
  BY <1>1, <1>2
<1> QED
  BY <1>3, <1>4

LEMMA UnsettledIs ==
  ASSUME TypeOK
  PROVE  Unsettled <=> \E u \in Task : Ended(u)
<1>1. \A u \in Task : /\ Due(u, {"wait", "suspend"}) <=> stage[u] \in {"wait", "suspend"}
                      /\ Due(u, Stage) <=> stage[u] # "none"
  BY DueFacts
<1> QED
  BY <1>1 DEF Unsettled, Ended

\* The stage of t becomes s; the others stay in order.
Moves(t, s) ==
  /\ IsQueue(ready')
  /\ At(ready') = [stage EXCEPT ![t] = s]
  /\ \A u, v \in Task \ {t} : Ahead(ready, u, v) => Ahead(ready', u, v)

\* The same, and t comes after all others.
Queues(t, s) ==
  /\ Moves(t, s)
  /\ \A u \in Task \ {t} : stage[u] # "none" => Ahead(ready', u, t)

\* The application of t runs, and is taken off the queue.
LEMMA RestIs ==
  ASSUME TypeOK, Staged, NEW t \in Task, Runs(t)
  PROVE  /\ doing[t] = "nothing"
         /\ stage[t] \in {"none", "app"}
         /\ IsQueue(Rest)
         /\ At(Rest) = [stage EXCEPT ![t] = "none"]
         /\ \A u, v \in Task \ {t} : Ahead(ready, u, v) => Ahead(Rest, u, v)
<1> USE TypeFacts
<1>1. CASE turn = "dispatch"
  <2>1. doing[t] = "nothing" /\ stage[t] # "app" /\ Rest = ready
    BY <1>1, DueFacts DEF Runs, Rest
  <2>2. stage[t] = "none"
    BY <2>1 DEF Staged, Stage, Suspends
  <2>3. [stage EXCEPT ![t] = "none"] = stage
    BY <2>2
  <2> QED
    BY <2>1, <2>2, <2>3 DEF stage
<1>2. CASE turn # "dispatch"
  <2>1. ready # << >> /\ Head(ready) = [task |-> t, at |-> "app"] /\ Rest = Tail(ready)
    BY <1>2 DEF Runs, Rest
  <2>2. /\ At(ready)[t] = "app"
        /\ IsQueue(Tail(ready))
        /\ At(Tail(ready)) = [At(ready) EXCEPT ![t] = "none"]
        /\ \A u, v \in Task \ {t} : Ahead(ready, u, v) => Ahead(Tail(ready), u, v)
    BY <2>1, Popped
  <2> QED
    BY <2>1, <2>2 DEF stage, Staged
<1> QED
  BY <1>1, <1>2

LEMMA Stays ==
  ASSUME TypeOK, Staged, NEW t \in Task, Runs(t), ready' = Rest
  PROVE  /\ doing[t] = "nothing" /\ stage[t] \in {"none", "app"}
         /\ Moves(t, "none")
  BY RestIs DEF Moves

LEMMA Returned ==
  ASSUME TypeOK, Staged, NEW t \in Task, Runs(t), ready' = Push(Rest, t, "app")
  PROVE  /\ doing[t] = "nothing" /\ stage[t] \in {"none", "app"}
         /\ Moves(t, "app")
<1>1. /\ doing[t] = "nothing" /\ stage[t] \in {"none", "app"}
      /\ IsQueue(Rest)
      /\ At(Rest) = [stage EXCEPT ![t] = "none"]
      /\ \A u, v \in Task \ {t} : Ahead(ready, u, v) => Ahead(Rest, u, v)
  BY RestIs
<1>2. stage \in [Task -> Stage \cup {"none"}]
  BY TypeFacts
<1>3. At(Rest)[t] = "none"
  BY <1>1, <1>2
<1> DEFINE q == Push(Rest, t, "app")
<1>a. "app" \in Stage
  BY DEF Stage
<1>b. IsQueue(Rest)
  BY <1>1
<1>4. /\ IsQueue(q)
      /\ At(q) = [At(Rest) EXCEPT ![t] = "app"]
      /\ \A u, v \in Task : Ahead(Rest, u, v) => Ahead(q, u, v)
  BY <1>a, <1>b, <1>3, Pushed
<1>5. At(q) = [stage EXCEPT ![t] = "app"]
  BY <1>1, <1>2, <1>4
<1>6. \A u, v \in Task \ {t} : Ahead(ready, u, v) => Ahead(q, u, v)
  BY <1>1, <1>4
<1> QED
  BY <1>1, <1>4, <1>5, <1>6 DEF Moves

\* The continuation of t is worked off, and t goes on to s.
LEMMA Continued ==
  ASSUME TypeOK, NEW t \in Task, NEW s \in Stage, NEW a \in Stage,
         DueNow(t, a), ready' = Push(Tail(ready), t, s)
  PROVE  /\ stage[t] = a
         /\ Queues(t, s)
         /\ \A u \in Task : ~Ahead(ready, u, t)
<1> USE TypeFacts
<1>1. /\ At(ready)[t] = a
      /\ IsQueue(Tail(ready))
      /\ At(Tail(ready)) = [At(ready) EXCEPT ![t] = "none"]
      /\ \A u, v \in Task \ {t} : Ahead(ready, u, v) => Ahead(Tail(ready), u, v)
      /\ \A u \in Task : ~Ahead(ready, u, t)
  BY Popped DEF DueNow
<1>2. At(ready) \in [Task -> Stage \cup {"none"}]
  BY DEF stage
<1>3. At(Tail(ready))[t] = "none"
  BY <1>1, <1>2
<1> DEFINE q == Push(Tail(ready), t, s)
<1>4. /\ IsQueue(q)
      /\ At(q) = [At(Tail(ready)) EXCEPT ![t] = s]
      /\ \A u, v \in Task : Ahead(Tail(ready), u, v) => Ahead(q, u, v)
      /\ \A u \in Task : At(Tail(ready))[u] # "none" => Ahead(q, u, t)
  BY <1>1, <1>3, Pushed
<1>5. At(q) = [stage EXCEPT ![t] = s]
  BY <1>1, <1>2, <1>4 DEF stage
<1>6. \A u, v \in Task \ {t} : Ahead(ready, u, v) => Ahead(q, u, v)
  BY <1>1, <1>4
<1>7. \A u \in Task \ {t} : stage[u] # "none" => Ahead(q, u, t)
  BY <1>1, <1>2, <1>4 DEF stage
<1> QED
  BY <1>1, <1>4, <1>5, <1>6, <1>7 DEF Moves, Queues, stage

\* A task that is at no stage is pushed.
LEMMA Woken ==
  ASSUME NEW q, IsQueue(q), NEW t \in Task, At(q)[t] = "none", ready' = Push(q, t, "wait")
  PROVE  /\ IsQueue(ready') /\ At(ready') = [At(q) EXCEPT ![t] = "wait"]
         /\ \A u, v \in Task : Ahead(q, u, v) => Ahead(ready', u, v)
         /\ \A u \in Task : At(q)[u] # "none" => Ahead(ready', u, t)
<1>1. "wait" \in Stage
  BY DEF Stage
<1> QED
  BY <1>1, Pushed

-----------------------------------------------------------------------------
(***************************************************************************)
(* What steps of the same kind preserve.                                   *)
(***************************************************************************)

\* What a task may be in the middle of at a stage.
Fits(what, s) ==
  /\ s = "app" => what = "nothing"
  /\ s = "wait" => what \in Suspends \cup {"wait to close", "lock"}
  /\ s = "suspend" => what \in Suspends
  /\ s = "op" => what # "nothing"
  /\ what = "fail" => s = "op"

LEMMA StagedStep ==
  ASSUME TypeOK, Staged, NEW t \in Task, NEW s, NEW w, Moves(t, s),
         doing' = [doing EXCEPT ![t] = w], Fits(w, s)
  PROVE  Staged'
<1>1. \A u \in Task : /\ u = t => At(ready')[u] = s /\ doing'[u] = w
                      /\ u # t => At(ready')[u] = stage[u] /\ doing'[u] = doing[u]
  BY TypeFacts DEF Moves
<1>2. \A u \in Task : Fits(doing[u], stage[u])
  BY DEF Staged, Fits
<1>3. \A u \in Task : Fits(doing'[u], At(ready')[u])
  BY <1>1, <1>2
<1> QED
  BY <1>3 DEF Staged, stage, Fits

\* The order is kept unless t is still, or again, to resume.
LEMMA InOrderStep ==
  ASSUME TypeOK, InOrder, NEW t \in Task, NEW s, NEW w, Moves(t, s),
         doing' = [doing EXCEPT ![t] = w], ~(w \in Suspends /\ s \in {"wait", "suspend"}),
         \A u \in Task \ {t} : u \in late' <=> u \in late
  PROVE  InOrder'
<1>1. \A u \in Task : /\ u = t => At(ready')[u] = s /\ doing'[u] = w
                      /\ u # t => At(ready')[u] = stage[u] /\ doing'[u] = doing[u]
  BY TypeFacts DEF Moves
<1>2. \A u, v \in Task \ {t} : Ahead(ready, u, v) => Ahead(ready', u, v)
  BY DEF Moves
<1> SUFFICES ASSUME NEW u \in Task, NEW v \in Task,
                    (Resuming(u))', u \notin late', (Resuming(v))', u # v
             PROVE  \/ At(ready')[u] = "suspend" /\ At(ready')[v] = "wait"
                    \/ At(ready')[u] = At(ready')[v] /\ Ahead(ready', u, v)
  BY DEF InOrder, stage
<1>3. u # t /\ v # t
  BY <1>1 DEF Resuming, stage
<1>4. Resuming(u) /\ Resuming(v) /\ u \notin late
  BY <1>1, <1>3 DEF Resuming, stage
<1> QED
  BY <1>1, <1>2, <1>3, <1>4 DEF InOrder

\* t suspends.
LEMMA SuspendStep ==
  ASSUME IInv, NEW t \in Task, NEW w \in Suspends, Moves(t, "none"), doing[t] = "nothing",
         suspend_token = NoTask, suspend_token' = t,
         late' = IF Unsettled THEN late \cup {t} ELSE late \ {t},
         doing' = [doing EXCEPT ![t] = w],
         pooled', w = "open" \/ connected, connected' = connected,
         closing' = closing, closing = NoTask \/ connected,
         lock' = lock, held' = held, pooled \/ core = "none"
  PROVE  Staged' /\ Tokened' /\ Settled' /\ ClosingWaits' /\ InOrder' /\ Locked'
<1>0. TypeOK /\ Staged /\ Tokened /\ Settled /\ ClosingWaits /\ InOrder /\ Locked
  BY DEF IInv
<1>1. /\ doing'[t] = w /\ At(ready')[t] = "none"
      /\ \A u \in Task \ {t} : At(ready')[u] = stage[u] /\ doing'[u] = doing[u]
  BY <1>0, TypeFacts DEF Moves
<1>2. w \notin {"nothing", "wait to close", "lock", "fail"} /\ w \in Suspends
  BY DEF Suspends
<1>3. Staged'
  BY <1>0, <1>2, StagedStep DEF Fits
<1>4. InOrder'
  <2>1. \A u \in Task \ {t} : u \in late' <=> u \in late
    OBVIOUS
  <2> QED
    BY <1>0, <1>2, <2>1, InOrderStep
<1>5. Tokened'
  BY <1>0, <1>1, <1>2, TaskAssumption DEF Tokened, stage
<1>6. t \notin late' => \A u \in Task : ~Ended(u)
  BY <1>0, UnsettledIs
<1>7. t \notin late' => \A u \in Task : ~(Ended(u))'
  <2> SUFFICES ASSUME t \notin late', NEW u \in Task
               PROVE  ~(Ended(u))'
    OBVIOUS
  <2>1. CASE u = t
    BY <2>1, <1>1, <1>2 DEF Ended, stage
  <2>2. CASE u # t
    BY <2>2, <1>1, <1>6 DEF Ended, stage
  <2> QED
    BY <2>1, <2>2
<1>8. Settled'
  BY <1>1, <1>7 DEF Settled
<1>9. ClosingWaits'
  <2>1. closing # NoTask => closing \in Task /\ doing[closing] = "wait to close" /\ closing # t
    BY <1>0, TypeFacts DEF ClosingWaits
  <2>2. \A u \in Task : doing'[u] = "wait to close" => closing' = u
    BY <1>0, <1>1, <1>2 DEF ClosingWaits
  <2>3. closing' # NoTask /\ connected' => doing'[closing'] = "wait to close"
    BY <2>1, <1>1
  <2>4. ASSUME closing' # NoTask, NEW u \in Task, (Unreturned(u))'
        PROVE  doing'[closing'] = "wait to close" /\ At(ready')[closing'] = "none"
    <3>1. CASE u = t
      <4>1. ~Ended(closing)
        BY <3>1, <2>1, <2>4, <1>6 DEF Unreturned
      <4>2. stage[closing] = "none"
        BY <4>1, <2>1, <2>4 DEF Ended
      <4> QED
        BY <4>2, <2>1, <2>4, <1>1
    <3>2. CASE u # t
      <4>1. Unreturned(u)
        BY <3>2, <2>4, <1>1 DEF Unreturned, stage
      <4> QED
        BY <4>1, <2>1, <2>4, <1>0, <1>1 DEF ClosingWaits
    <3> QED
      BY <3>1, <3>2
  <2> QED
    BY <2>2, <2>3, <2>4 DEF ClosingWaits, stage
<1>10. Locked'
  <2>1. CASE pooled
    <3>1. lock \in Seq(Task)
      BY <1>0, TypeFacts
    <3>2. \A i \in DOMAIN lock : lock[i] \in Task
      BY <3>1, ElementOfSeq, LenProperties
    <3>3. lock # << >> => 1 \in DOMAIN lock
      BY <3>1, LenProperties, EmptySeq
    <3>4. \A u \in Task : doing'[u] = "lock" <=> doing[u] = "lock"
      BY <1>1, <1>2
    <3>5. \A u \in Task : doing[u] = "lock" => At(ready')[u] = stage[u]
      BY <1>1
    <3> QED
      BY <1>0, <2>1, <3>2, <3>3, <3>4, <3>5 DEF Locked, stage
  <2>2. CASE core = "none"
    <3>1. lock = << >> /\ held = {} /\ \A u \in Task : doing[u] = "nothing"
      BY <2>2 DEF IInv, Opened, Untouched
    <3>2. DOMAIN lock = {}
      BY <3>1
    <3>3. \A u \in Task : doing'[u] # "lock"
      BY <3>1, <1>1, <1>2
    <3> QED
      BY <3>1, <3>2, <3>3 DEF Locked
  <2> QED
    BY <2>1, <2>2
<1> QED
  BY <1>3, <1>4, <1>5, <1>8, <1>9, <1>10

\* t, which is at the application, goes on without having suspended.  Only a
\* socket that is neither connected nor connecting may leave the pool.
LEMMA QuietStep ==
  ASSUME IInv, NEW t \in Task, NEW s \in {"none", "app"}, Moves(t, s), doing[t] = "nothing",
         doing' = doing, suspend_token' = suspend_token, late' = late,
         connected' = connected, closing' = closing, lock' = lock, held' = held,
         pooled' => pooled, connected \/ connecting => pooled' = pooled
  PROVE  Staged' /\ Tokened' /\ Settled' /\ ClosingWaits' /\ InOrder' /\ Locked'
<1>0. TypeOK /\ Staged /\ Tokened /\ Opened /\ Settled /\ ClosingWaits /\ InOrder /\ Locked
  BY DEF IInv
<1>1. /\ At(ready')[t] = s
      /\ \A u \in Task \ {t} : At(ready')[u] = stage[u]
      /\ doing' = [doing EXCEPT ![t] = "nothing"]
  BY <1>0, TypeFacts DEF Moves
<1>2. \A u \in Task : doing[u] # "nothing" => At(ready')[u] = stage[u]
  BY <1>1
<1>3. Staged'
  BY <1>0, <1>1, StagedStep DEF Fits, Suspends
<1>4. InOrder'
  BY <1>0, <1>1, InOrderStep DEF Suspends
<1>5. Tokened'
  BY <1>0, <1>2 DEF Tokened, stage, Suspends
<1>6. \A u \in Task : (Ended(u))' => Ended(u)
  BY <1>2 DEF Ended, stage, Suspends
<1>7. Settled'
  <2> SUFFICES ASSUME suspend_token # NoTask, suspend_token \notin late
               PROVE  pooled' /\ (doing[suspend_token] = "open" \/ connected)
    BY <1>6, <1>0 DEF Settled
  <2>1. pooled /\ (doing[suspend_token] = "open" \/ connected) /\ suspend_token \in Task
    BY <1>0, TypeFacts DEF Settled
  <2>2. connected \/ connecting
    BY <2>1, <1>0 DEF Opened
  <2> QED
    BY <2>1, <2>2
<1>8. ClosingWaits'
  <2>1. \A u \in Task : (Unreturned(u))' => Unreturned(u)
    BY <1>2 DEF Unreturned, stage, Suspends
  <2>2. ASSUME closing # NoTask, NEW u \in Task, (Unreturned(u))'
        PROVE  doing[closing] = "wait to close" /\ At(ready')[closing] = "none"
    <3>1. doing[closing] = "wait to close" /\ stage[closing] = "none" /\ closing \in Task
      BY <2>1, <2>2, <1>0, TypeFacts DEF ClosingWaits
    <3> QED
      BY <3>1, <1>2
  <2> QED
    BY <2>2, <1>0 DEF ClosingWaits, stage
<1>9. Locked'
  <2>1. ASSUME pooled
        PROVE  /\ \A i \in DOMAIN lock : lock[i] \in Task
               /\ lock # << >> => 1 \in DOMAIN lock
    <3>1. lock \in Seq(Task)
      BY <1>0, TypeFacts
    <3> QED
      BY <3>1, ElementOfSeq, LenProperties, EmptySeq
  <2> QED
    BY <1>0, <1>2, <2>1 DEF Locked, stage
<1> QED
  BY <1>3, <1>4, <1>5, <1>7, <1>8, <1>9

\* Once the socket is open, that it was opened is history.
LEMMA KnownStep ==
  ASSUME IInv, Known, core' # "none", core' = "opening" => core = "opening",
         connecting' = connecting, mailbox' = mailbox,
         NEW t \in Task, NEW w, w # "open", doing' = [doing EXCEPT ![t] = w]
  PROVE  Opened' /\ Connects'
<1>1. core # "opening" /\ ~connecting /\ \A i \in DOMAIN mailbox : mailbox[i] # "CONNECT"
  BY DEF IInv, Connects, Known
<1>2. \A u \in Task : doing[u] # "open"
  BY <1>1 DEF IInv, Opened
<1>3. \A u \in Task : doing'[u] # "open"
  BY <1>2, TypeFacts DEF IInv
<1>4. Opened'
  BY <1>1, <1>3 DEF Opened
<1>5. Connects'
  BY <1>1 DEF Connects
<1> QED
  BY <1>4, <1>5

LEMMA KnownQuiet ==
  ASSUME IInv, Known, core' # "none", core' = "opening" => core = "opening",
         connecting' = connecting, mailbox' = mailbox, doing' = doing
  PROVE  Opened' /\ Connects'
<1>1. Opener \in Task /\ doing[Opener] # "open"
  BY TaskAssumption DEF IInv, Opened, Known
<1>2. doing' = [doing EXCEPT ![Opener] = doing[Opener]]
  BY TypeFacts DEF IInv
<1> QED
  BY <1>1, <1>2, KnownStep

\* The requirement of the reader stays what it was, and no bytes come.
LEMMA ReadingStep ==
  ASSUME IInv, suspend_token' = suspend_token, want' = want, read_required' = read_required,
         suspend_token # NoTask => doing'[suspend_token] = doing[suspend_token],
         size' \in Nat, size' <= size
  PROVE  Reading'
<1>1. Reading /\ size \in Nat /\ \A t \in Task : want[t] \in Nat
  BY DEF IInv, TypeOK
<1>2. suspend_token # NoTask => want[suspend_token] \in Nat
  BY <1>1, TypeFacts DEF IInv
<1> SUFFICES ASSUME suspend_token # NoTask, doing[suspend_token] = "read",
                    read_required = want[suspend_token]
             PROVE  ~(IF want[suspend_token] = 0 THEN size' > 0 ELSE size' >= want[suspend_token])
  BY <1>1 DEF Reading, Enough
<1>3. ~(IF want[suspend_token] = 0 THEN size > 0 ELSE size >= want[suspend_token])
  BY <1>1 DEF Reading, Enough
<1> QED
  BY <1>1, <1>2, <1>3

\* What a read leaves in the buffer.
LEMMA LeftType ==
  ASSUME size \in Nat, NEW n \in Nat
  PROVE  Left(n) \in Nat /\ Left(n) <= size
BY DEF Left, Enough

-----------------------------------------------------------------------------
(***************************************************************************)
(* A message, or abandon, wakes the task that is suspended.                *)
(***************************************************************************)

WakesSuspended ==
  /\ IsQueue(ready')
  /\ \A u \in Task :
       \/ doing[u] = "nothing" /\ At(ready')[u] \in {"none", stage[u]}
       \/ At(ready')[u] = (IF u = suspend_token THEN "wait" ELSE stage[u])
  /\ \A u, v \in Task :
       doing[u] # "nothing" /\ doing[v] # "nothing" /\ Ahead(ready, u, v) => Ahead(ready', u, v)
  /\ suspend_token # NoTask => \A u \in Task :
       doing[u] # "nothing" /\ stage[u] # "none" => Ahead(ready', u, suspend_token)

\* wakeup(s) after the queue q, from which at most the application is gone.
LEMMA WakeupWakes ==
  ASSUME IInv, NEW q, IsQueue(q), ready' = IF suspend_token = NoTask THEN q ELSE Push(q, suspend_token, "wait"),
         \A u \in Task : \/ doing[u] = "nothing" /\ At(q)[u] = "none"
                         \/ At(q)[u] = stage[u],
         \A u, v \in Task :
           doing[u] # "nothing" /\ doing[v] # "nothing" /\ Ahead(ready, u, v) => Ahead(q, u, v)
  PROVE  WakesSuspended
<1>0. TypeOK /\ Tokened /\ suspend_token \in Task \cup {NoTask}
  BY TypeFacts DEF IInv
<1>1. CASE suspend_token = NoTask
  <2>1. \A u \in Task : u # suspend_token
    BY <1>1, TaskAssumption
  <2>2. ready' = q
    BY <1>1
  <2> QED
    BY <1>1, <2>1, <2>2 DEF WakesSuspended
<1>2. CASE suspend_token # NoTask
  <2>1. PICK w \in Task : w = suspend_token
    BY <1>0, <1>2
  <2>2. doing[w] \in Suspends /\ stage[w] = "none"
    BY <1>0, <2>1 DEF Tokened
  <2>3. At(q)[w] = "none" /\ doing[w] # "nothing"
    BY <2>2 DEF Suspends
  <2>4. ready' = Push(q, w, "wait")
    BY <1>2, <2>1
  <2>5. /\ IsQueue(ready') /\ At(ready') = [At(q) EXCEPT ![w] = "wait"]
        /\ \A u, v \in Task : Ahead(q, u, v) => Ahead(ready', u, v)
        /\ \A u \in Task : At(q)[u] # "none" => Ahead(ready', u, w)
    BY <2>3, <2>4, Woken
  <2>6. At(q) \in [Task -> Stage \cup {"none"}]
    BY AtType
  <2>7. \A u \in Task : At(ready')[u] = IF u = w THEN "wait" ELSE At(q)[u]
    BY <2>5, <2>6
  <2>8. \A u \in Task : doing[u] # "nothing" /\ stage[u] # "none" => Ahead(ready', u, w)
    BY <2>5
  <2>9. \A u \in Task :
          \/ doing[u] = "nothing" /\ At(ready')[u] \in {"none", stage[u]}
          \/ At(ready')[u] = (IF u = w THEN "wait" ELSE stage[u])
    BY <2>7, <2>3
  <2> QED
    BY <2>1, <2>5, <2>8, <2>9 DEF WakesSuspended
<1> QED
  BY <1>1, <1>2

LEMMA WakeStep ==
  ASSUME IInv, WakesSuspended, suspend_token' = NoTask,
         doing' = doing, late' = late, closing' = closing, lock' = lock, held' = held,
         pooled' => pooled, connected' => connected \/ closing = NoTask
  PROVE  /\ Staged' /\ Tokened' /\ Settled' /\ ClosingWaits' /\ InOrder' /\ Locked'
         /\ Reading'
<1>0. /\ TypeOK /\ Staged /\ Tokened /\ Opened /\ Settled /\ ClosingWaits /\ InOrder /\ Locked
      /\ suspend_token \in Task \cup {NoTask}
  BY TypeFacts DEF IInv
<1>1. \A u \in Task : doing[u] # "nothing" =>
        At(ready')[u] = IF u = suspend_token THEN "wait" ELSE stage[u]
  BY DEF WakesSuspended
<1>2. \A u \in Task : u = suspend_token <=> doing[u] \in Suspends /\ stage[u] = "none"
  BY <1>0 DEF Tokened
<1>3. \A u \in Task : doing[u] \in Suspends => doing[u] \notin {"nothing", "wait to close", "lock", "fail"}
  BY DEF Suspends
<1>4. Staged'
  <2>1. \A u \in Task : doing[u] = "nothing" => At(ready')[u] \in {"none", stage[u]}
    BY <1>2, <1>3 DEF WakesSuspended
  <2>2. ASSUME NEW u \in Task
        PROVE  Fits(doing[u], At(ready')[u])
    <3>1. Fits(doing[u], stage[u])
      BY <1>0 DEF Staged, Fits
    <3>2. CASE doing[u] = "nothing"
      BY <3>1, <3>2, <2>1 DEF Fits
    <3>3. CASE doing[u] # "nothing" /\ u # suspend_token
      BY <3>1, <3>3, <1>1
    <3>4. CASE u = suspend_token
      BY <3>4, <1>1, <1>2, <1>3 DEF Fits
    <3> QED
      BY <3>2, <3>3, <3>4
  <2> QED
    BY <2>2 DEF Staged, Fits, stage
<1>5. Tokened'
  <2>1. \A u \in Task : ~(doing[u] \in Suspends /\ At(ready')[u] = "none")
    BY <1>1, <1>2, <1>3
  <2> QED
    BY <2>1, TaskAssumption DEF Tokened, stage
<1>6. Settled'
  BY DEF Settled
<1>7. Reading'
  BY DEF Reading
<1>8. ClosingWaits'
  <2>1. \A u \in Task : (Unreturned(u))' => Unreturned(u)
    BY <1>1, <1>2, <1>3 DEF Unreturned, stage
  <2>2. ASSUME closing # NoTask, NEW u \in Task, (Unreturned(u))'
        PROVE  doing[closing] = "wait to close" /\ At(ready')[closing] = "none"
    <3>1. doing[closing] = "wait to close" /\ stage[closing] = "none" /\ closing \in Task
      BY <2>1, <2>2, <1>0, TypeFacts DEF ClosingWaits
    <3>2. closing # suspend_token
      BY <3>1, <1>2, <1>3
    <3> QED
      BY <3>1, <3>2, <1>1
  <2> QED
    BY <2>2, <1>0 DEF ClosingWaits, stage
<1>9. InOrder'
  <2> SUFFICES ASSUME NEW u \in Task, NEW v \in Task,
                      (Resuming(u))', u \notin late, (Resuming(v))', u # v
               PROVE  \/ At(ready')[u] = "suspend" /\ At(ready')[v] = "wait"
                      \/ At(ready')[u] = At(ready')[v] /\ Ahead(ready', u, v)
    BY DEF InOrder, stage
  <2>1. doing[u] \in Suspends /\ doing[v] \in Suspends /\ doing[u] # "nothing" /\ doing[v] # "nothing"
    BY <1>3 DEF Resuming
  <2>2. \A x \in {u, v} : Resuming(x) \/ x = suspend_token
    BY <1>1, <2>1 DEF Resuming, stage
  <2>3. CASE u = suspend_token
    <3>1. Resuming(v)
      BY <2>2, <2>3
    <3>2. Ended(v)
      BY <3>1 DEF Resuming, Ended
    <3> QED
      BY <2>3, <3>2, <1>0, TaskAssumption DEF Settled
  <2>4. CASE v = suspend_token /\ u # suspend_token
    <3>1. Resuming(u) /\ stage[u] # "none"
      BY <2>2, <2>4 DEF Resuming
    <3>2. Ahead(ready', u, v)
      BY <3>1, <2>1, <2>4, TaskAssumption DEF WakesSuspended
    <3>3. At(ready')[v] = "wait" /\ At(ready')[u] = stage[u] /\ stage[u] \in {"wait", "suspend"}
      BY <3>1, <2>1, <2>4, <1>1 DEF Resuming
    <3> QED
      BY <3>2, <3>3
  <2>5. CASE u # suspend_token /\ v # suspend_token
    <3>1. Resuming(u) /\ Resuming(v) /\ At(ready')[u] = stage[u] /\ At(ready')[v] = stage[v]
      BY <2>1, <2>2, <2>5, <1>1
    <3>2. Ahead(ready, u, v) => Ahead(ready', u, v)
      BY <2>1 DEF WakesSuspended
    <3> QED
      BY <3>1, <3>2, <1>0 DEF InOrder
  <2> QED
    BY <2>3, <2>4, <2>5
<1>10. Locked'
  <2>1. ASSUME pooled
        PROVE  /\ \A i \in DOMAIN lock : lock[i] \in Task
               /\ lock # << >> => 1 \in DOMAIN lock
    <3>1. lock \in Seq(Task)
      BY <1>0, TypeFacts
    <3> QED
      BY <3>1, ElementOfSeq, LenProperties, EmptySeq
  <2>2. \A u \in Task : doing[u] = "lock" => At(ready')[u] = stage[u]
    BY <1>1, <1>2, <1>3
  <2> QED
    BY <1>0, <2>2, <2>1 DEF Locked, stage
<1> QED
  BY <1>4, <1>5, <1>6, <1>7, <1>8, <1>9, <1>10

-----------------------------------------------------------------------------
(***************************************************************************)
(* Messages, turns and the core.                                           *)
(***************************************************************************)

\* A message is taken off the mailbox; if it is a CONNECT, the socket is being
\* opened.
LEMMA Received ==
  ASSUME IInv, NEW type, Receive(type), pooled' = pooled
  PROVE  /\ Opened' /\ core # "opening" /\ \A i \in DOMAIN mailbox' : mailbox'[i] # "CONNECT"
         /\ mailbox' \in Seq({"CONNECT", "DATA", "CLOSE", "ERROR"})
         /\ type = "CONNECT" => connecting /\ closing = NoTask
<1>1. /\ mailbox \in Seq({"CONNECT", "DATA", "CLOSE", "ERROR"})
      /\ mailbox # << >> /\ Head(mailbox) = type /\ mailbox' = Tail(mailbox)
  BY DEF IInv, TypeOK, Receive
<1>2. /\ mailbox' \in Seq({"CONNECT", "DATA", "CLOSE", "ERROR"})
      /\ Len(mailbox) \in Nat \ {0} /\ DOMAIN mailbox = 1 .. Len(mailbox)
      /\ DOMAIN mailbox' = 1 .. (Len(mailbox) - 1)
      /\ mailbox[1] = type
      /\ \A i \in 1 .. (Len(mailbox) - 1) : mailbox'[i] = mailbox[i + 1]
  BY <1>1, Shortened
<1>3. \A i \in DOMAIN mailbox' : i + 1 \in DOMAIN mailbox /\ i + 1 # 1
  BY <1>2
<1>4. \A i \in DOMAIN mailbox' : mailbox'[i] # "CONNECT"
  BY <1>2, <1>3 DEF IInv, Connects
<1>5. core # "opening" /\ core # "none"
  BY <1>1 DEF IInv, Connects, Opened
<1>6. type = "CONNECT" => connecting
  BY <1>2 DEF IInv, Connects
<1>7. connecting => closing = NoTask
  BY DEF IInv, Opened, Untouched
<1>8. UNCHANGED <<core, connecting, closing, lock, doing, held>>
  BY DEF Receive, taskVars
<1>9. Opened'
  BY <1>5, <1>8 DEF IInv, Opened, Untouched
<1> QED
  BY <1>2, <1>4, <1>5, <1>6, <1>7, <1>9

\* A message finds nobody, and changes nothing.
LEMMA IgnoredInv ==
  ASSUME IInv, NEW type, Receive(type), UNCHANGED <<ready, pooled, connected, suspend_token>>,
         read_required' = read_required, size' = size \/ (read_required # 0 /\ size' = size + 1
           /\ (read_required = Nothing \/ size' < read_required))
  PROVE  IInv'
<1>1. /\ UNCHANGED <<core, turn, connecting, closing, lock, taskVars>>
      /\ UNCHANGED <<doing, want, ops, held, late>>
  BY DEF Receive, taskVars
<1>2. /\ Opened' /\ core # "opening" /\ \A i \in DOMAIN mailbox' : mailbox'[i] # "CONNECT"
      /\ mailbox' \in Seq({"CONNECT", "DATA", "CLOSE", "ERROR"})
  BY Received
<1>3. TypeOK'
  BY <1>1, <1>2 DEF IInv, TypeOK
<1>4. Connects'
  BY <1>1, <1>2 DEF Connects
<1>5. Staged' /\ Tokened' /\ Settled' /\ ClosingWaits' /\ InOrder' /\ Locked'
  <2>1. stage' = stage
    BY DEF stage
  <2>2. Staged' /\ Tokened'
    BY <1>1, <2>1 DEF IInv, Staged, Tokened
  <2>3. Settled'
    BY <1>1, <2>1 DEF IInv, Settled, Ended
  <2>4. ClosingWaits'
    BY <1>1, <2>1 DEF IInv, ClosingWaits, Unreturned
  <2>5. InOrder'
    BY <1>1, <2>1 DEF IInv, InOrder, Resuming
  <2>6. Locked'
    BY <1>1, <2>1 DEF IInv, Locked
  <2> QED
    BY <2>2, <2>3, <2>4, <2>5, <2>6
<1>6. Reading'
  <2>1. CASE size' = size
    BY <1>1, <2>1 DEF IInv, Reading, Enough
  <2>2. CASE size' # size
    <3>1. /\ size \in Nat /\ read_required \in Nat \cup {Nothing} /\ want' = want
          /\ \A t \in Task : want[t] \in Nat
      BY <1>1 DEF IInv, TypeOK
    <3>2. suspend_token # NoTask => want[suspend_token] \in Nat
      BY <3>1, TypeFacts DEF IInv
    <3>3. read_required # Nothing => size' < read_required /\ read_required # 0
      BY <2>2
    <3> SUFFICES ASSUME suspend_token # NoTask, doing[suspend_token] = "read"
                 PROVE  /\ read_required # Nothing
                        /\ read_required # 0
                        /\ read_required = want[suspend_token] => ~(Enough(want[suspend_token]))'
      BY <1>1 DEF Reading
    <3>4. read_required # Nothing
      BY DEF IInv, Reading
    <3>5. size + 1 = size'
      BY <2>2
    <3> QED
      BY <3>1, <3>2, <3>3, <3>4, <3>5 DEF Enough
  <2> QED
    BY <2>1, <2>2
<1> QED
  BY <1>2, <1>3, <1>4, <1>5, <1>6 DEF IInv

\* A message wakes the task that is suspended.
LEMMA MessageWakes ==
  ASSUME IInv, NEW type, Receive(type), Wakeup(ready), pooled' = pooled,
         connected' \in BOOLEAN, connected' => connected \/ type = "CONNECT",
         read_required' \in Nat \cup {Nothing}, size' \in Nat
  PROVE  IInv'
<1>1. /\ UNCHANGED <<core, turn, connecting, closing, lock, taskVars>>
      /\ UNCHANGED <<doing, want, ops, held, late>>
  BY DEF Receive, taskVars
<1>2. /\ Opened' /\ core # "opening" /\ \A i \in DOMAIN mailbox' : mailbox'[i] # "CONNECT"
      /\ mailbox' \in Seq({"CONNECT", "DATA", "CLOSE", "ERROR"})
      /\ type = "CONNECT" => closing = NoTask
  BY Received
<1>3. IsQueue(ready) /\ suspend_token' = NoTask
      /\ ready' = IF suspend_token = NoTask THEN ready ELSE Push(ready, suspend_token, "wait")
  BY TypeFacts DEF IInv, Wakeup
<1>4. WakesSuspended
  BY <1>3, WakeupWakes DEF stage
<1>5. /\ Staged' /\ Tokened' /\ Settled' /\ ClosingWaits' /\ InOrder' /\ Locked'
      /\ Reading'
  BY <1>1, <1>2, <1>3, <1>4, WakeStep
<1>6. TypeOK'
  BY <1>1, <1>2, <1>3, <1>4 DEF IInv, TypeOK, WakesSuspended, IsQueue, Entry
<1>7. Connects'
  BY <1>1, <1>2 DEF Connects
<1> QED
  BY <1>2, <1>5, <1>6, <1>7 DEF IInv

LEMMA DispatchInv ==
  ASSUME IInv, Dispatch
  PROVE  IInv'
<1>0. /\ size \in Nat /\ read_required \in Nat \cup {Nothing} /\ pooled \in BOOLEAN
      /\ connected \in BOOLEAN
  BY DEF IInv, TypeOK
<1>1. CASE Data
  <2>1. CASE ~pooled
    BY <1>1, <2>1, IgnoredInv DEF Data, Ignore
  <2>2. CASE pooled
    <3>1. Receive("DATA") /\ size' = size + 1 /\ UNCHANGED <<pooled, connected>>
      BY <1>1, <2>2 DEF Data
    <3>2. CASE read_required # Nothing /\ size' >= read_required
      <4>1. read_required' = Nothing /\ Wakeup(ready)
        BY <1>1, <2>2, <3>2 DEF Data
      <4> QED
        BY <1>0, <3>1, <4>1, MessageWakes
    <3>3. CASE ~(read_required # Nothing /\ size' >= read_required)
      <4>1. UNCHANGED <<read_required, suspend_token, ready>>
        BY <1>1, <2>2, <3>3 DEF Data
      <4>2. read_required = Nothing \/ size' < read_required
        BY <1>0, <3>1, <3>3
      <4>3. read_required # 0
        BY <1>0, <3>1, <3>3 DEF Nothing
      <4> QED
        BY <3>1, <4>1, <4>2, <4>3, IgnoredInv
    <3> QED
      BY <3>2, <3>3
  <2> QED
    BY <2>1, <2>2
<1>2. CASE Connect
  <2>1. CASE ~pooled
    BY <1>2, <2>1, IgnoredInv DEF Connect, Ignore
  <2>2. CASE pooled
    <3>1. /\ Receive("CONNECT") /\ Wakeup(ready) /\ pooled' = pooled /\ connected' = TRUE
          /\ UNCHANGED <<read_required, size>>
      BY <1>2, <2>2 DEF Connect
    <3> QED
      BY <1>0, <3>1, MessageWakes
  <2> QED
    BY <2>1, <2>2
<1>3. CASE Down
  <2>1. PICK type \in {"CLOSE", "ERROR"} : Receive(type)
    BY <1>3 DEF Down
  <2>2. CASE ~pooled
    BY <1>3, <2>1, <2>2, IgnoredInv DEF Down, Ignore
  <2>3. CASE pooled
    <3>1. /\ Wakeup(ready) /\ pooled' = pooled /\ connected' = FALSE
          /\ UNCHANGED <<read_required, size>>
      BY <1>3, <2>3 DEF Down
    <3> QED
      BY <1>0, <2>1, <3>1, MessageWakes
  <2> QED
    BY <2>2, <2>3
<1> QED
  BY <1>1, <1>2, <1>3 DEF Dispatch

\* Nothing happens to the socket or to a task.
LEMMA StillStep ==
  ASSUME IInv, UNCHANGED <<ready, socketVars, taskVars>>
  PROVE  /\ Staged' /\ Tokened' /\ Settled' /\ ClosingWaits' /\ InOrder' /\ Locked'
         /\ Reading'
<1>1. /\ UNCHANGED <<ready, pooled, connected, connecting, closing, suspend_token, read_required>>
      /\ UNCHANGED <<size, lock, doing, want, held, late>>
  BY DEF socketVars, taskVars
<1>2. stage' = stage
  BY <1>1 DEF stage
<1>3. Staged' /\ Tokened' /\ Reading'
  BY <1>1, <1>2 DEF IInv, Staged, Tokened, Reading, Enough
<1>4. Settled'
  BY <1>1, <1>2 DEF IInv, Settled, Ended
<1>5. ClosingWaits'
  BY <1>1, <1>2 DEF IInv, ClosingWaits, Unreturned
<1>6. InOrder'
  BY <1>1, <1>2 DEF IInv, InOrder, Resuming
<1>7. Locked'
  BY <1>1, <1>2 DEF IInv, Locked
<1> QED
  BY <1>3, <1>4, <1>5, <1>6, <1>7

LEMMA TurnInv ==
  ASSUME IInv, Turn
  PROVE  IInv'
<1>1. UNCHANGED <<core, mailbox, ready, socketVars, taskVars>> /\ turn' \in {"dispatch", "drain"}
  BY DEF Turn, TurnSettles, TurnEnds
<1>2. Staged' /\ Tokened' /\ Settled' /\ ClosingWaits' /\ InOrder' /\ Locked' /\ Reading'
  BY <1>1, StillStep
<1>3. TypeOK' /\ Opened' /\ Connects'
  BY <1>1 DEF IInv, TypeOK, Opened, Untouched, Connects, socketVars, taskVars
<1> QED
  BY <1>2, <1>3 DEF IInv

LEMMA CoreInv ==
  ASSUME IInv, Core
  PROVE  IInv'
<1>1. PICK to \in {"open", "closed"}, type \in {"CONNECT", "DATA", "CLOSE", "ERROR"} :
        /\ core # "none" /\ core' = to
        /\ core # "opening" => type # "CONNECT"
        /\ mailbox' = Append(mailbox, type)
        /\ UNCHANGED <<turn, ready, socketVars, taskVars>>
  BY DEF Core, CoreSettles, CoreData, CoreBreaks, CoreCloses, CorePost
<1>2. UNCHANGED <<pooled, connected, connecting, closing, suspend_token, lock, held, doing>>
  BY <1>1 DEF socketVars, taskVars
<1>3. Staged' /\ Tokened' /\ Settled' /\ ClosingWaits' /\ InOrder' /\ Locked' /\ Reading'
  BY <1>1, StillStep
<1>4. mailbox \in Seq({"CONNECT", "DATA", "CLOSE", "ERROR"})
  BY DEF IInv, TypeOK
<1>5. /\ mailbox' \in Seq({"CONNECT", "DATA", "CLOSE", "ERROR"})
      /\ Len(mailbox) \in Nat /\ DOMAIN mailbox = 1 .. Len(mailbox)
      /\ DOMAIN mailbox' = 1 .. (Len(mailbox) + 1)
      /\ \A i \in 1 .. Len(mailbox) : mailbox'[i] = mailbox[i]
      /\ mailbox'[Len(mailbox) + 1] = type
  BY <1>1, <1>4, Appended
<1>6. TypeOK'
  BY <1>1, <1>5 DEF IInv, TypeOK, socketVars, taskVars
<1>7. Opened'
  BY <1>1, <1>2 DEF IInv, Opened, Untouched
<1>8. Connects'
  <2> SUFFICES ASSUME NEW i \in 1 .. (Len(mailbox) + 1), mailbox'[i] = "CONNECT"
               PROVE  i = 1 /\ connecting /\ suspend_token = Opener
    BY <1>1, <1>2, <1>5 DEF Connects
  <2>1. CASE i \in 1 .. Len(mailbox)
    BY <2>1, <1>5 DEF IInv, Connects
  <2>2. CASE i = Len(mailbox) + 1
    <3>1. core = "opening"
      BY <2>2, <1>1, <1>5
    <3>2. mailbox = << >> /\ connecting /\ suspend_token = Opener
      BY <3>1 DEF IInv, Connects
    <3>3. Len(mailbox) = 0
      BY <3>2, EmptySeq
    <3> QED
      BY <2>2, <3>2, <3>3
  <2> QED
    BY <1>5, <2>1, <2>2
<1> QED
  BY <1>3, <1>6, <1>7, <1>8 DEF IInv

-----------------------------------------------------------------------------
(***************************************************************************)
(* The operations.                                                         *)
(***************************************************************************)

LEMMA CallType ==
  ASSUME IInv, NEW t \in Task, Calls(t)
  PROVE  ops' \in [Task -> 0 .. MaxOps]
<1>1. ops \in [Task -> 0 .. MaxOps] /\ ops[t] > 0 /\ ops' = [ops EXCEPT ![t] = @ - 1] /\ MaxOps \in Nat
  BY TaskAssumption DEF IInv, TypeOK, Calls
<1> QED
  BY <1>1

\* Before the socket is opened nobody does anything, and nobody is due.
LEMMA OpenInv ==
  ASSUME IInv, NEW t \in Task, Open(t)
  PROVE  IInv'
<1>1. /\ t = Opener /\ core = "none" /\ core' = "opening" /\ pooled' = TRUE /\ connecting' = TRUE
      /\ doing' = [doing EXCEPT ![t] = "open"]
      /\ suspend_token' = t /\ ready' = Rest
      /\ late' = IF Unsettled THEN late \cup {t} ELSE late \ {t}
      /\ UNCHANGED <<mailbox, turn, connected, closing, read_required, size, lock, want, held>>
      /\ Calls(t) /\ Runs(t)
  BY DEF Open, Do, Suspend, Calls
<1>2. /\ Untouched /\ ~connected /\ mailbox = << >>
      /\ \A u \in Task : doing[u] = "nothing"
  BY <1>1 DEF IInv, Opened
<1>3. Moves(t, "none")
  BY <1>1, Stays DEF IInv
<1>4. suspend_token = NoTask
  BY <1>2, TypeFacts DEF IInv, Tokened, Suspends
<1>5. Staged' /\ Tokened' /\ Settled' /\ ClosingWaits' /\ InOrder' /\ Locked'
  BY <1>1, <1>2, <1>3, <1>4, SuspendStep DEF Suspends, Untouched
<1>6. doing \in [Task -> Doing] /\ doing'[t] = "open" /\ \A u \in Task \ {t} : doing'[u] = "nothing"
  BY <1>1, <1>2, TypeFacts DEF IInv
<1>7. Opened'
  BY <1>1, <1>2, <1>6 DEF Opened, Untouched
<1>8. Connects'
  <2>1. DOMAIN mailbox' = {}
    BY <1>1, <1>2
  <2> QED
    BY <1>1, <1>2, <2>1 DEF Connects
<1>9. Reading'
  BY <1>1, <1>6 DEF Reading
<1>10. TypeOK'
  <2>1. doing' \in [Task -> Doing]
    BY <1>1, <1>6 DEF Doing
  <2>2. ops' \in [Task -> 0 .. MaxOps]
    BY <1>1, CallType
  <2>3. late' \subseteq Task
    BY <1>1, TypeFacts DEF IInv
  <2> QED
    BY <1>1, <1>3, <2>1, <2>2, <2>3 DEF IInv, TypeOK, Moves, IsQueue, Entry
<1> QED
  BY <1>5, <1>7, <1>8, <1>9, <1>10 DEF IInv

\* An operation returns without having been suspended.
LEMMA ReturnInv ==
  ASSUME IInv, NEW t \in Task, Calls(t), Known, Returns(t, Rest), doing' = doing,
         UNCHANGED <<mailbox, turn, connected, connecting, closing, lock, want, held>>,
         core' \in {core, "closing"},
         pooled' \in BOOLEAN, pooled' => pooled, connected => pooled' = pooled,
         read_required' \in Nat \cup {Nothing}, size' \in Nat, Reading'
  PROVE  IInv'
<1>1. Runs(t) /\ ready' = Push(Rest, t, "app") /\ suspend_token' = suspend_token /\ late' = late
      /\ core # "none" /\ ~connecting
  BY DEF Calls, Returns, Known
<1>2. doing[t] = "nothing" /\ Moves(t, "app")
  BY <1>1, Returned DEF IInv
<1>3. Staged' /\ Tokened' /\ Settled' /\ ClosingWaits' /\ InOrder' /\ Locked'
  BY <1>1, <1>2, QuietStep
<1>4. Opened' /\ Connects'
  BY <1>1, KnownQuiet
<1>5. ops' \in [Task -> 0 .. MaxOps]
  BY CallType
<1>6. TypeOK'
  BY <1>1, <1>2, <1>5 DEF IInv, TypeOK, Moves, IsQueue, Entry
<1> QED
  BY <1>3, <1>4, <1>6 DEF IInv

\* A read, a block or a close suspends; nobody else is suspended.
LEMMA SuspendInv ==
  ASSUME IInv, NEW t \in Task, NEW w \in Suspends \ {"open"}, Calls(t), Known,
         Suspend(t, Rest), Do(t, w), suspend_token = NoTask, pooled, connected,
         UNCHANGED <<mailbox, turn, pooled, connected, connecting, closing, size, lock, held>>,
         core' \in {core, "closing"},
         want' \in [Task -> Nat], read_required' \in Nat \cup {Nothing},
         w = "read" => read_required' = want'[t] /\ ~Enough(want'[t])
  PROVE  IInv'
<1>1. /\ Runs(t) /\ ready' = Rest /\ suspend_token' = t
      /\ late' = IF Unsettled THEN late \cup {t} ELSE late \ {t}
      /\ doing' = [doing EXCEPT ![t] = w]
      /\ core # "none" /\ ~connecting
  BY DEF Calls, Suspend, Do, Known
<1>2. doing[t] = "nothing" /\ Moves(t, "none")
  BY <1>1, Stays DEF IInv
<1>3. Staged' /\ Tokened' /\ Settled' /\ ClosingWaits' /\ InOrder' /\ Locked'
  BY <1>1, <1>2, SuspendStep
<1>4. Opened' /\ Connects'
  BY <1>1, KnownStep
<1>5. doing'[t] = w /\ doing' \in [Task -> Doing]
  BY <1>1, TypeFacts DEF IInv, Suspends, Doing
<1>6. Reading'
  <2> SUFFICES ASSUME w = "read"
               PROVE  /\ read_required' # Nothing
                      /\ read_required' = 0 => want'[t] = 0
                      /\ read_required' = want'[t] => ~(Enough(want[t]))'
    BY <1>1, <1>5 DEF Reading
  <2>1. want'[t] \in Nat /\ read_required' = want'[t] /\ ~Enough(want'[t])
    OBVIOUS
  <2> QED
    BY <2>1 DEF Enough, Nothing
<1>7. ops' \in [Task -> 0 .. MaxOps] /\ late' \subseteq Task
  BY <1>1, CallType, TypeFacts DEF IInv
<1>8. TypeOK'
  BY <1>1, <1>2, <1>5, <1>7 DEF IInv, TypeOK, Moves, IsQueue, Entry
<1> QED
  BY <1>3, <1>4, <1>6, <1>8 DEF IInv

\* A reader that may not, or need not, wait.
LEMMA RequireInv ==
  ASSUME IInv, NEW t \in Task, NEW n \in Nat, NEW w \in {"read", "block"}, Calls(t), Known,
         pooled, connected, Require(t, n, w), w = "read" => ~Enough(n), w = "block" => n = 0,
         UNCHANGED <<core, mailbox, turn, pooled, connected, connecting, closing, size, lock, held>>
  PROVE  IInv'
<1>0. /\ want \in [Task -> Nat] /\ read_required \in Nat \cup {Nothing} /\ pooled \in BOOLEAN
      /\ size \in Nat
  BY DEF IInv, TypeOK
<1>1. CASE read_required \notin {Nothing, 0}
  <2>1. Returns(t, Rest) /\ UNCHANGED <<read_required, doing, want>>
    BY <1>1 DEF Require
  <2>2. suspend_token' = suspend_token
    BY <2>1 DEF Returns
  <2>3. Reading'
    BY <2>1, <2>2, <1>0, ReadingStep
  <2> QED
    BY <1>0, <2>1, <2>3, ReturnInv
<1>2. CASE read_required \in {Nothing, 0} /\ suspend_token # NoTask
  <2>1. Returns(t, Rest) /\ UNCHANGED <<doing, want>> /\ read_required' = n
    BY <1>2 DEF Require
  <2>2. suspend_token' = suspend_token
    BY <2>1 DEF Returns
  <2>3. ASSUME doing[suspend_token] = "read"
        PROVE  /\ want[suspend_token] = 0 /\ ~Enough(0)
               /\ n # Nothing
    <3>1. read_required = 0 /\ want[suspend_token] = 0 /\ ~Enough(0)
      BY <1>2, <2>3 DEF IInv, Reading
    <3> QED
      BY <3>1 DEF Nothing
  <2>4. Enough(0)' = Enough(0)
    BY DEF Enough
  <2>5. Reading'
    BY <2>1, <2>2, <2>3, <2>4 DEF Reading
  <2> QED
    BY <1>0, <2>1, <2>5, ReturnInv
<1>3. CASE read_required \in {Nothing, 0} /\ suspend_token = NoTask
  <2>1. Suspend(t, Rest) /\ Do(t, w) /\ read_required' = n /\ want' = [want EXCEPT ![t] = n]
    BY <1>3 DEF Require
  <2>2. want' \in [Task -> Nat] /\ want'[t] = n
    BY <1>0, <2>1
  <2>3. w \in Suspends \ {"open"}
    BY DEF Suspends
  <2> QED
    BY <1>0, <1>3, <2>1, <2>2, <2>3, SuspendInv
<1> QED
  BY <1>1, <1>2, <1>3

LEMMA ReadInv ==
  ASSUME IInv, NEW t \in Task, NEW n \in Nat, Read(t, n)
  PROVE  IInv'
<1>0. /\ pooled \in BOOLEAN /\ size \in Nat /\ read_required \in Nat \cup {Nothing}
  BY DEF IInv, TypeOK
<1>1. /\ Calls(t) /\ Known
      /\ UNCHANGED <<core, mailbox, turn, pooled, connected, connecting, closing, lock, held>>
  BY DEF Read
<1>2. CASE Returns(t, Rest) /\ size' \in {size, Left(n)} /\ UNCHANGED <<read_required, doing, want>>
  <2>1. size' \in Nat /\ size' <= size
    BY <1>0, <1>2, LeftType
  <2>2. suspend_token' = suspend_token
    BY <1>2 DEF Returns
  <2>3. Reading'
    BY <1>2, <2>1, <2>2, ReadingStep
  <2> QED
    BY <1>0, <1>1, <1>2, <2>1, <2>3, ReturnInv
<1>3. CASE pooled /\ ~Enough(n) /\ connected /\ Require(t, n, "read") /\ UNCHANGED size
  BY <1>1, <1>3, RequireInv
<1> QED
  BY <1>2, <1>3 DEF Read

LEMMA BlockInv ==
  ASSUME IInv, NEW t \in Task, Block(t)
  PROVE  IInv'
<1>0. /\ pooled \in BOOLEAN /\ size \in Nat /\ read_required \in Nat \cup {Nothing}
  BY DEF IInv, TypeOK
<1>1. /\ Calls(t) /\ Known
      /\ UNCHANGED <<core, mailbox, turn, pooled, connected, connecting, closing, size, lock, held>>
  BY DEF Block
<1>2. CASE Returns(t, Rest) /\ UNCHANGED <<read_required, doing, want>>
  <2>2. suspend_token' = suspend_token
    BY <1>2 DEF Returns
  <2>3. Reading'
    BY <1>0, <1>1, <1>2, <2>2, ReadingStep
  <2> QED
    BY <1>0, <1>1, <1>2, <2>3, ReturnInv
<1>3. CASE pooled /\ connected /\ Require(t, 0, "block")
  BY <1>1, <1>3, RequireInv
<1> QED
  BY <1>2, <1>3 DEF Block

\* An operation that concerns the lock, or a close that waits: whoever is
\* woken was in line for the lock.
LEMMA CallStep ==
  ASSUME IInv, NEW t \in Task, NEW w \in {"nothing", "lock", "wait to close"},
         NEW s \in {"none", "app"}, doing[t] = "nothing", s = "app" => w = "nothing",
         doing' = [doing EXCEPT ![t] = w],
         IsQueue(ready'), At(ready')[t] = s,
         \A u \in Task \ {t} : At(ready')[u] = stage[u] \/ (doing[u] = "lock" /\ At(ready')[u] = "wait"),
         \A u, v \in Task : doing[u] \in Suspends /\ doing[v] \in Suspends /\ Ahead(ready, u, v) =>
           Ahead(ready', u, v),
         suspend_token' = suspend_token, late' = late, connected' = connected, pooled' = pooled
  PROVE  /\ Staged' /\ Tokened' /\ Settled' /\ InOrder'
         /\ closing' = closing /\ w # "wait to close" => ClosingWaits'
<1>0. /\ TypeOK /\ Staged /\ Tokened /\ Opened /\ Settled /\ ClosingWaits /\ InOrder
      /\ doing \in [Task -> Doing]
  BY TypeFacts DEF IInv
<1>1. \A u \in Task : /\ u = t => doing'[u] = w
                      /\ u # t => doing'[u] = doing[u]
  BY <1>0
<1>2. {"nothing", "lock", "wait to close", "fail"} \cap Suspends = {}
  BY DEF Suspends
<1>3. \A u \in Task : doing'[u] \in Suspends <=> doing[u] \in Suspends
  BY <1>1, <1>2
<1>4. \A u \in Task : doing[u] \in Suspends => At(ready')[u] = stage[u] /\ doing'[u] = doing[u] /\ u # t
  BY <1>1, <1>2
<1>5. Staged'
  <2>1. ASSUME NEW u \in Task
        PROVE  Fits(doing'[u], At(ready')[u])
    <3>1. Fits(doing[u], stage[u])
      BY <1>0 DEF Staged, Fits
    <3>2. CASE u = t
      BY <3>2, <1>1, <1>2 DEF Fits
    <3>3. CASE u # t /\ At(ready')[u] = stage[u]
      BY <3>1, <3>3, <1>1
    <3>4. CASE u # t /\ doing[u] = "lock" /\ At(ready')[u] = "wait"
      BY <3>4, <1>1 DEF Fits
    <3> QED
      BY <3>2, <3>3, <3>4
  <2> QED
    BY <2>1 DEF Staged, Fits, stage
<1>6. Tokened'
  BY <1>0, <1>3, <1>4 DEF Tokened, stage
<1>7. \A u \in Task : (Ended(u))' => Ended(u)
  <2> SUFFICES ASSUME NEW u \in Task, (Ended(u))'
               PROVE  Ended(u)
    OBVIOUS
  <2>1. CASE doing'[u] \in Suspends
    BY <2>1, <1>2, <1>3, <1>4 DEF Ended, stage
  <2>2. CASE doing'[u] \in {"close", "wait to close"} /\ At(ready')[u] # "none"
    <3>1. u # t
      BY <2>2, <1>1
    <3> QED
      BY <2>2, <3>1, <1>1 DEF Ended
  <2> QED
    BY <2>1, <2>2 DEF Ended, stage
<1>8. Settled'
  <2> SUFFICES ASSUME suspend_token # NoTask, suspend_token \notin late
               PROVE  pooled /\ (doing'[suspend_token] = "open" \/ connected)
    BY <1>7, <1>0 DEF Settled
  <2>1. pooled /\ (doing[suspend_token] = "open" \/ connected) /\ suspend_token \in Task
    BY <1>0, TypeFacts DEF Settled
  <2>2. doing[suspend_token] \in Suspends
    BY <2>1, <1>0 DEF Tokened
  <2> QED
    BY <2>1, <2>2, <1>4
<1>9. InOrder'
  <2>1. \A u \in Task : (Resuming(u))' => Resuming(u) /\ At(ready')[u] = stage[u] /\ doing[u] \in Suspends
    BY <1>3, <1>4 DEF Resuming, stage
  <2> QED
    BY <1>0, <2>1 DEF InOrder, stage
<1>10. ASSUME closing' = closing, w # "wait to close"
       PROVE  ClosingWaits'
  <2>1. \A u \in Task : (Unreturned(u))' => Unreturned(u)
    BY <1>3, <1>4 DEF Unreturned, stage
  <2>2. \A u \in Task : doing[u] = "wait to close" <=> doing'[u] = "wait to close"
    BY <1>1, <1>10
  <2>3. ASSUME closing # NoTask, NEW u \in Task, (Unreturned(u))'
        PROVE  doing'[closing] = "wait to close" /\ At(ready')[closing] = "none"
    <3>1. doing[closing] = "wait to close" /\ stage[closing] = "none" /\ closing \in Task
      BY <2>1, <2>3, <1>0, TypeFacts DEF ClosingWaits
    <3> QED
      BY <3>1, <1>1
  <2>4. \A u \in Task : doing'[u] = "wait to close" => closing' = u
    BY <2>2, <1>0, <1>10 DEF ClosingWaits
  <2>5. closing' # NoTask /\ connected' => doing'[closing'] = "wait to close"
    BY <2>2, <1>0, <1>10, TypeFacts DEF ClosingWaits
  <2> QED
    BY <2>3, <2>4, <2>5, <1>10 DEF ClosingWaits, stage
<1> QED
  BY <1>5, <1>6, <1>8, <1>9, <1>10

\* A close that finds somebody suspended waits for it.
LEMMA WaitToCloseInv ==
  ASSUME IInv, NEW t \in Task, Calls(t), Known, pooled, connected, ready' = Rest,
         suspend_token # NoTask, closing = NoTask, closing' = t, Do(t, "wait to close"),
         UNCHANGED <<mailbox, turn, pooled, connected, connecting, suspend_token, read_required,
                     size, lock, want, held, late>>,
         core' \in {core, "closing"}
  PROVE  IInv'
<1>1. Runs(t) /\ core # "none" /\ ~connecting /\ doing' = [doing EXCEPT ![t] = "wait to close"]
  BY DEF Calls, Known, Do
<1>2. doing[t] = "nothing" /\ Moves(t, "none")
  BY <1>1, Stays DEF IInv
<1>3. /\ TypeOK /\ ClosingWaits /\ Locked /\ doing \in [Task -> Doing]
      /\ stage \in [Task -> Stage \cup {"none"}] /\ suspend_token \in Task \cup {NoTask}
  BY TypeFacts DEF IInv
<1>4. /\ IsQueue(ready') /\ At(ready')[t] = "none"
      /\ \A u \in Task \ {t} : At(ready')[u] = stage[u] /\ doing'[u] = doing[u]
      /\ doing'[t] = "wait to close"
  BY <1>1, <1>2, <1>3 DEF Moves
<1>5. \A u, v \in Task : doing[u] \in Suspends /\ doing[v] \in Suspends /\ Ahead(ready, u, v) =>
        Ahead(ready', u, v)
  BY <1>2 DEF Moves, Suspends
<1>6. Staged' /\ Tokened' /\ Settled' /\ InOrder'
  BY <1>1, <1>2, <1>4, <1>5, CallStep
<1>7. Opened' /\ Connects'
  BY <1>1, KnownStep
<1>8. ClosingWaits'
  <2>1. \A u \in Task : doing[u] # "wait to close"
    BY <1>3, TaskAssumption DEF ClosingWaits
  <2>2. \A u \in Task : doing'[u] = "wait to close" => u = t
    BY <2>1, <1>4
  <2> QED
    BY <2>2, <1>4 DEF ClosingWaits, stage
<1>9. Locked'
  <2>2. /\ \A i \in DOMAIN lock : lock[i] \in Task
        /\ lock # << >> => 1 \in DOMAIN lock
    BY <1>3, LockFacts
  <2>3. \A u \in Task : (doing'[u] = "lock" <=> doing[u] = "lock")
                        /\ (doing[u] = "lock" => At(ready')[u] = stage[u])
    BY <1>2, <1>4
  <2> QED
    BY <2>2, <2>3, <1>3, ZenonT(40) DEF Locked, stage
<1>10. Reading'
  <2>1. doing'[suspend_token] = doing[suspend_token]
    <3>1. doing[suspend_token] \in Suspends
      BY <1>3 DEF IInv, Tokened
    <3> QED
      BY <3>1, <1>2, <1>3, <1>4 DEF Suspends
  <2>2. size' = size /\ UNCHANGED <<suspend_token, want, read_required>>
    OBVIOUS
  <2> QED
    BY <2>1, <2>2 DEF IInv, Reading, Enough
<1>11. TypeOK'
  <2>1. ops' \in [Task -> 0 .. MaxOps] /\ doing' \in [Task -> Doing]
    BY <1>1, <1>3, CallType DEF Doing
  <2> QED
    BY <2>1, <1>3, <1>4 DEF TypeOK, IsQueue, Entry
<1> QED
  BY <1>6, <1>7, <1>8, <1>9, <1>10, <1>11 DEF IInv

LEMMA CloseInv ==
  ASSUME IInv, NEW t \in Task, Close(t)
  PROVE  IInv'
<1>0. /\ pooled \in BOOLEAN /\ size \in Nat /\ read_required \in Nat \cup {Nothing}
      /\ want \in [Task -> Nat]
  BY DEF IInv, TypeOK
<1>1. /\ Calls(t) /\ Known
      /\ UNCHANGED <<mailbox, turn, connecting, read_required, size, lock, want, held>>
  BY DEF Close
<1>2. ASSUME Returns(t, Rest), UNCHANGED <<connected, closing, doing>>, core' \in {core, "closing"},
             pooled' \in BOOLEAN, pooled' => pooled, connected => pooled' = pooled
      PROVE  IInv'
  <2>1. suspend_token' = suspend_token
    BY <1>2 DEF Returns
  <2>2. Reading'
    BY <2>1, <1>0, <1>1, <1>2, ReadingStep
  <2> QED
    BY <1>0, <1>1, <1>2, <2>2, ReturnInv
<1>3. CASE pooled /\ connected
  <2>1. core' \in {core, "closing"} /\ UNCHANGED <<pooled, connected>>
    BY <1>3 DEF Close, CloseConnected
  <2>2. CASE suspend_token = NoTask
    <3>1. Suspend(t, Rest) /\ Do(t, "close") /\ UNCHANGED closing
      BY <1>3, <2>2 DEF Close, CloseConnected
    <3>2. "close" \in Suspends \ {"open"}
      BY DEF Suspends
    <3> QED
      BY <1>0, <1>1, <1>3, <2>1, <2>2, <3>1, <3>2, SuspendInv
  <2>3. CASE suspend_token # NoTask /\ closing = NoTask
    <3>1. closing' = t /\ Do(t, "wait to close") /\ ready' = Rest /\ UNCHANGED <<suspend_token, late>>
      BY <1>3, <2>3 DEF Close, CloseConnected
    <3> QED
      BY <1>1, <1>3, <2>1, <2>3, <3>1, WaitToCloseInv
  <2>4. CASE suspend_token # NoTask /\ closing # NoTask
    <3>1. Returns(t, Rest) /\ UNCHANGED <<closing, doing>>
      BY <1>3, <2>4 DEF Close, CloseConnected
    <3> QED
      BY <1>0, <1>3, <2>1, <3>1, <1>2
  <2> QED
    BY <2>2, <2>3, <2>4
<1>4. CASE pooled /\ ~connected
  <2>1. Returns(t, Rest) /\ UNCHANGED <<core, closing, doing>> /\ connected' = FALSE
        /\ pooled' = (pooled /\ lock # << >>)
    BY <1>4 DEF Close, Leave
  <2>2. connected' = connected
    BY <1>4, <2>1 DEF IInv, TypeOK
  <2> QED
    BY <1>4, <2>1, <2>2, <1>2
<1>5. CASE ~pooled
  <2>1. Returns(t, Rest) /\ UNCHANGED <<core, pooled, connected, closing, doing>>
    BY <1>5 DEF Close
  <2> QED
    BY <1>0, <2>1, <1>2
<1> QED
  BY <1>3, <1>4, <1>5

LEMMA AbandonInv ==
  ASSUME IInv, NEW t \in Task, Abandon(t)
  PROVE  IInv'
<1>1. /\ Calls(t) /\ Runs(t) /\ Known /\ connected' = FALSE /\ pooled' = FALSE
      /\ suspend_token' = NoTask
      /\ ready' = IF suspend_token = NoTask THEN Rest ELSE Push(Rest, suspend_token, "wait")
      /\ UNCHANGED <<core, mailbox, turn, connecting, closing, read_required, size, lock,
                     doing, want, held, late>>
  BY DEF Abandon, Calls, Wakeup
<1>2. /\ doing[t] = "nothing" /\ IsQueue(Rest)
      /\ At(Rest) = [stage EXCEPT ![t] = "none"]
      /\ \A u, v \in Task \ {t} : Ahead(ready, u, v) => Ahead(Rest, u, v)
  BY <1>1, RestIs DEF IInv
<1>3. stage \in [Task -> Stage \cup {"none"}]
  BY TypeFacts DEF IInv
<1>4. \A u \in Task : \/ doing[u] = "nothing" /\ At(Rest)[u] = "none"
                      \/ At(Rest)[u] = stage[u]
  BY <1>2, <1>3
<1>5. \A u, v \in Task :
        doing[u] # "nothing" /\ doing[v] # "nothing" /\ Ahead(ready, u, v) => Ahead(Rest, u, v)
  BY <1>2
<1>6. WakesSuspended
  BY <1>1, <1>2, <1>4, <1>5, WakeupWakes
<1>7. /\ Staged' /\ Tokened' /\ Settled' /\ ClosingWaits' /\ InOrder' /\ Locked'
      /\ Reading'
  BY <1>1, <1>6, WakeStep
<1>8. Opened' /\ Connects'
  BY <1>1, KnownQuiet DEF Known
<1>9. ops' \in [Task -> 0 .. MaxOps]
  BY <1>1, CallType
<1>10. TypeOK'
  BY <1>1, <1>6, <1>9 DEF IInv, TypeOK, WakesSuspended, IsQueue, Entry
<1> QED
  BY <1>7, <1>8, <1>10 DEF IInv

LEMMA RestsInv ==
  ASSUME IInv, NEW t \in Task, Rests(t)
  PROVE  IInv'
<1>1. /\ Runs(t) /\ ready' = Rest /\ ready # << >>
      /\ UNCHANGED <<core, mailbox, turn, pooled, connected, connecting, closing, suspend_token,
                     read_required, size, lock, doing, want, ops, held, late>>
  BY DEF Rests, Runs, socketVars, taskVars
<1>2. doing[t] = "nothing" /\ Moves(t, "none")
  BY <1>1, Stays DEF IInv
<1>3. Staged' /\ Tokened' /\ Settled' /\ ClosingWaits' /\ InOrder' /\ Locked'
  BY <1>1, <1>2, QuietStep
<1>4. Opened' /\ Connects'
  BY <1>1 DEF IInv, Opened, Connects, Untouched
<1>5. Reading'
  BY <1>1 DEF IInv, Reading, Enough
<1>6. TypeOK'
  BY <1>1, <1>2 DEF IInv, TypeOK, Moves, IsQueue, Entry
<1> QED
  BY <1>3, <1>4, <1>5, <1>6 DEF IInv

LEMMA LockInv ==
  ASSUME IInv, NEW t \in Task, Lock(t)
  PROVE  IInv'
<1>0. /\ TypeOK /\ Locked /\ doing \in [Task -> Doing] /\ held \subseteq Task
      /\ stage \in [Task -> Stage \cup {"none"}]
  BY TypeFacts DEF IInv
<1>1. /\ Calls(t) /\ Runs(t) /\ Known /\ t \notin held
      /\ UNCHANGED <<core, mailbox, turn, pooled, connected, connecting, closing, suspend_token,
                     read_required, size, want, late>>
  BY DEF Lock, Calls
<1>2. CASE ~pooled
  <2>1. Returns(t, Rest) /\ UNCHANGED <<lock, doing, held>>
    BY <1>1, <1>2 DEF Lock, Returns
  <2>2. Reading'
    BY <1>1, <2>1 DEF IInv, Reading, Enough
  <2>3. /\ pooled \in BOOLEAN /\ size \in Nat /\ read_required \in Nat \cup {Nothing}
    BY <1>0 DEF TypeOK
  <2> QED
    BY <1>1, <2>1, <2>2, <2>3, ReturnInv
<1>3. CASE pooled
  <2>1. PICK s \in {"none", "app"}, w \in {"nothing", "lock"} :
          /\ s = "app" <=> lock = << >>
          /\ w = "nothing" <=> lock = << >>
          /\ doing[t] = "nothing"
          /\ doing' = [doing EXCEPT ![t] = w]
          /\ held' = IF lock = << >> THEN held \cup {t} ELSE held
          /\ lock' = Append(lock, t)
          /\ Moves(t, s)
    <3>1. CASE lock = << >>
      <4>1. held' = held \cup {t} /\ ready' = Push(Rest, t, "app") /\ UNCHANGED doing
            /\ lock' = Append(lock, t)
        BY <1>3, <3>1 DEF Lock
      <4>2. doing[t] = "nothing" /\ Moves(t, "app")
        BY <1>0, <1>1, <4>1, Returned DEF IInv
      <4>3. doing' = [doing EXCEPT ![t] = "nothing"]
        BY <1>0, <4>1, <4>2
      <4> QED
        BY <3>1, <4>1, <4>2, <4>3
    <3>2. CASE lock # << >>
      <4>1. Do(t, "lock") /\ ready' = Rest /\ UNCHANGED held /\ lock' = Append(lock, t)
        BY <1>3, <3>2 DEF Lock
      <4>2. doing[t] = "nothing" /\ Moves(t, "none")
        BY <1>0, <1>1, <4>1, Stays DEF IInv
      <4> QED
        BY <3>2, <4>1, <4>2 DEF Do
    <3> QED
      BY <3>1, <3>2
  <2>2. /\ IsQueue(ready') /\ At(ready')[t] = s /\ doing'[t] = w
        /\ \A u \in Task \ {t} : At(ready')[u] = stage[u] /\ doing'[u] = doing[u]
    BY <2>1, <1>0 DEF Moves
  <2>3. \A u, v \in Task : doing[u] \in Suspends /\ doing[v] \in Suspends /\ Ahead(ready, u, v) =>
          Ahead(ready', u, v)
    BY <2>1 DEF Moves, Suspends
  <2>4. Staged' /\ Tokened' /\ Settled' /\ InOrder' /\ ClosingWaits'
    BY <1>1, <2>1, <2>2, <2>3, CallStep
  <2>5. Opened' /\ Connects'
    BY <1>1, <2>1, KnownStep DEF Known
  <2>6. /\ lock' \in Seq(Task) /\ Len(lock) \in Nat /\ DOMAIN lock = 1 .. Len(lock)
        /\ DOMAIN lock' = 1 .. (Len(lock) + 1)
        /\ \A i \in 1 .. Len(lock) : lock'[i] = lock[i] /\ lock[i] \in Task
        /\ lock'[Len(lock) + 1] = t
        /\ lock = << >> <=> Len(lock) = 0
    BY <1>0, <2>1, LockFacts, Appended, EmptySeq
  <2>7. Locked'
    <3>1. /\ \A i, j \in 1 .. Len(lock) : lock[i] = lock[j] => i = j
          /\ \A u \in Task : doing[u] = "lock" => \E i \in 1 .. Len(lock) : lock[i] = u
          /\ lock = << >> => held = {}
          /\ \A i \in 1 .. Len(lock) : i > 1 => doing[lock[i]] = "lock" /\ stage[lock[i]] = "none"
          /\ lock # << >> =>
               \/ held = {lock[1]} /\ doing[lock[1]] # "lock"
               \/ held = {} /\ doing[lock[1]] = "lock" /\ stage[lock[1]] \in {"wait", "op"}
      BY <1>0, <1>3, <2>6 DEF Locked
    <3>2. \A i \in 1 .. Len(lock) : lock[i] # t
      <4> SUFFICES ASSUME NEW i \in 1 .. Len(lock), lock[i] = t
                   PROVE  FALSE
        OBVIOUS
      <4>1. doing[lock[i]] # "lock"
        BY <2>1
      <4>2. i = 1 /\ lock # << >>
        BY <3>1, <4>1, <2>6
      <4> QED
        BY <4>1, <4>2, <3>1, <1>1
    <3>3. \A i, j \in 1 .. (Len(lock) + 1) : lock'[i] = lock'[j] => i = j
      <4> SUFFICES ASSUME NEW i \in 1 .. (Len(lock) + 1), NEW j \in 1 .. (Len(lock) + 1),
                          lock'[i] = lock'[j]
                   PROVE  i = j
        OBVIOUS
      <4>1. (i \in 1 .. Len(lock) \/ i = Len(lock) + 1) /\ (j \in 1 .. Len(lock) \/ j = Len(lock) + 1)
        BY <2>6
      <4> QED
        BY <4>1, <3>1, <3>2, <2>6
    <3>4. ASSUME NEW u \in Task, doing'[u] = "lock"
          PROVE  \E i \in 1 .. (Len(lock) + 1) : lock'[i] = u
      <4>1. CASE u = t
        <5>1. Len(lock) + 1 \in 1 .. (Len(lock) + 1)
          BY <2>6
        <5> QED
          BY <4>1, <5>1, <2>6
      <4>2. CASE u # t
        <5>1. PICK i \in 1 .. Len(lock) : lock[i] = u
          BY <3>1, <3>4, <4>2, <2>2
        <5>2. i \in 1 .. (Len(lock) + 1)
          BY <2>6
        <5> QED
          BY <5>1, <5>2, <2>6
      <4> QED
        BY <4>1, <4>2
    <3>5. \A i \in 1 .. (Len(lock) + 1) : i > 1 =>
            doing'[lock'[i]] = "lock" /\ At(ready')[lock'[i]] = "none"
      <4> SUFFICES ASSUME NEW i \in 1 .. (Len(lock) + 1), i > 1
                   PROVE  doing'[lock'[i]] = "lock" /\ At(ready')[lock'[i]] = "none"
        OBVIOUS
      <4>1. CASE i \in 1 .. Len(lock)
        BY <4>1, <3>1, <3>2, <2>2, <2>6
      <4>2. CASE i = Len(lock) + 1
        <5>1. lock # << >>
          BY <4>2, <2>6
        <5>2. s = "none" /\ w = "lock"
          BY <5>1, <2>1
        <5> QED
          BY <4>2, <5>2, <2>2, <2>6
      <4> QED
        BY <4>1, <4>2, <2>6
    <3>6. \/ held' = {lock'[1]} /\ doing'[lock'[1]] # "lock"
          \/ held' = {} /\ doing'[lock'[1]] = "lock" /\ At(ready')[lock'[1]] \in {"wait", "op"}
      <4>1. CASE lock = << >>
        <5>1. lock'[1] = t /\ w = "nothing" /\ held' = {t}
          BY <4>1, <2>1, <2>6, <3>1
        <5> QED
          BY <5>1, <2>2
      <4>2. CASE lock # << >>
        <5>1. 1 \in 1 .. Len(lock)
          BY <4>2, <2>6
        <5>2. lock'[1] = lock[1] /\ lock[1] \in Task \ {t} /\ held' = held
          BY <5>1, <4>2, <2>1, <2>6, <3>2
        <5> QED
          BY <5>2, <4>2, <3>1, <2>2
      <4> QED
        BY <4>1, <4>2
    <3>7. lock' # << >>
      BY <2>6
    <3> QED
      BY <3>3, <3>4, <3>5, <3>6, <3>7, <2>6 DEF Locked, stage
  <2>8. Reading'
    <3>1. suspend_token # NoTask => doing'[suspend_token] = doing[suspend_token]
      <4>1. suspend_token \in Task \cup {NoTask}
        BY <1>0, TypeFacts
      <4>2. suspend_token # NoTask => doing[suspend_token] \in Suspends
        BY <4>1 DEF IInv, Tokened
      <4> QED
        BY <4>1, <4>2, <2>1, <2>2 DEF Suspends
    <3>2. UNCHANGED <<suspend_token, read_required, want, size>>
      BY <1>1
    <3> QED
      BY <3>1, <3>2 DEF IInv, Reading, Enough
  <2>9. TypeOK'
    <3>1. ops' \in [Task -> 0 .. MaxOps]
      BY <1>1, CallType
    <3>2. doing' \in [Task -> Doing] /\ held' \subseteq Task
      BY <1>0, <2>1 DEF Doing
    <3> QED
      BY <1>0, <1>1, <2>2, <2>6, <3>1, <3>2 DEF TypeOK, IsQueue, Entry
  <2> QED
    BY <2>4, <2>5, <2>7, <2>8, <2>9 DEF IInv
<1> QED
  BY <1>2, <1>3

LEMMA UnlockInv ==
  ASSUME IInv, NEW t \in Task, Unlock(t)
  PROVE  IInv'
<1>0. /\ TypeOK /\ Locked /\ doing \in [Task -> Doing] /\ held \subseteq Task
      /\ stage \in [Task -> Stage \cup {"none"}]
  BY TypeFacts DEF IInv
<1>1. /\ t \in held /\ Runs(t) /\ held' = held \ {t}
      /\ lock' = IF pooled THEN Tail(lock) ELSE lock
      /\ UNCHANGED <<core, mailbox, turn, pooled, connected, connecting, closing, suspend_token,
                     read_required, size, doing, want, ops, late>>
  BY DEF Unlock
<1>2. /\ doing[t] = "nothing" /\ IsQueue(Rest)
      /\ At(Rest) = [stage EXCEPT ![t] = "none"]
      /\ \A u, v \in Task \ {t} : Ahead(ready, u, v) => Ahead(Rest, u, v)
  BY <1>0, <1>1, RestIs DEF IInv
<1>3. Known
  BY <1>1 DEF IInv, Opened, Untouched, Known
<1>4. Opened' /\ Connects'
  BY <1>1, <1>3, KnownQuiet DEF Known
<1>5. Reading'
  BY <1>1 DEF IInv, Reading, Enough
<1>6. pooled => /\ lock # << >> /\ held = {lock[1]} /\ t = lock[1]
                /\ Len(lock) \in Nat \ {0} /\ DOMAIN lock = 1 .. Len(lock)
                /\ lock' \in Seq(Task) /\ Len(lock') = Len(lock) - 1
                /\ DOMAIN lock' = 1 .. (Len(lock) - 1)
                /\ \A i \in 1 .. (Len(lock) - 1) : lock'[i] = lock[i + 1]
                /\ \A i \in 1 .. Len(lock) : lock[i] \in Task
  <2> SUFFICES ASSUME pooled
               PROVE  /\ lock # << >> /\ held = {lock[1]} /\ t = lock[1]
                      /\ Len(lock) \in Nat \ {0} /\ DOMAIN lock = 1 .. Len(lock)
                      /\ lock' \in Seq(Task) /\ Len(lock') = Len(lock) - 1
                      /\ DOMAIN lock' = 1 .. (Len(lock) - 1)
                      /\ \A i \in 1 .. (Len(lock) - 1) : lock'[i] = lock[i + 1]
                      /\ \A i \in 1 .. Len(lock) : lock[i] \in Task
    OBVIOUS
  <2>1. lock # << >> /\ held = {lock[1]} /\ t = lock[1]
    BY <1>0, <1>1 DEF Locked
  <2>2. lock \in Seq(Task) /\ lock' = Tail(lock)
    BY <1>0, <1>1, LockFacts
  <2>3. /\ Tail(lock) \in Seq(Task)
        /\ Len(lock) \in Nat \ {0} /\ DOMAIN lock = 1 .. Len(lock)
        /\ DOMAIN Tail(lock) = 1 .. (Len(lock) - 1) /\ Len(Tail(lock)) = Len(lock) - 1
        /\ \A i \in 1 .. (Len(lock) - 1) : Tail(lock)[i] = lock[i + 1]
    BY <2>1, <2>2, Shortened
  <2>4. \A i \in 1 .. Len(lock) : lock[i] \in Task
    BY <1>0, LockFacts
  <2> QED
    BY <2>1, <2>2, <2>3, <2>4
<1>7. /\ IsQueue(ready') /\ At(ready')[t] = "app"
      /\ \A u \in Task \ {t} :
           At(ready')[u] = IF pooled /\ Len(lock) > 1 /\ u = lock[2] THEN "wait" ELSE stage[u]
      /\ \A u, v \in Task \ {t} : Ahead(ready, u, v) => Ahead(ready', u, v)
  <2>1. "app" \in Stage /\ "wait" \in Stage
    BY DEF Stage
  <2>2. At(Rest)[t] = "none" /\ \A u \in Task \ {t} : At(Rest)[u] = stage[u]
    BY <1>0, <1>2
  <2>3. CASE pooled /\ Len(lock) > 1
    <3>1. ready' = Push(Push(Rest, lock[2], "wait"), t, "app")
      BY <2>3 DEF Unlock
    <3>2. 2 \in 1 .. Len(lock)
      BY <2>3, <1>6
    <3>3. PICK v \in Task : v = lock[2]
      BY <2>3, <3>2, <1>6
    <3>4. doing[v] = "lock" /\ stage[v] = "none" /\ v # t
      BY <2>3, <3>2, <3>3, <1>0, <1>2, <1>6 DEF Locked
    <3> DEFINE q == Push(Rest, v, "wait")
               p == Push(q, t, "app")
    <3>5. At(Rest)[v] = "none"
      BY <2>2, <3>4
    <3>a. IsQueue(Rest)
      BY <1>2
    <3>b. "wait" \in Stage
      BY <2>1
    <3>6. /\ IsQueue(q) /\ At(q) = [At(Rest) EXCEPT ![v] = "wait"]
          /\ \A x, y \in Task : Ahead(Rest, x, y) => Ahead(q, x, y)
      BY <3>a, <3>b, <3>5, Pushed
    <3> HIDE DEF q
    <3>7. At(Rest) \in [Task -> Stage \cup {"none"}]
      BY <1>2, AtType
    <3>8. At(q)[t] = "none" /\ At(q) \in [Task -> Stage \cup {"none"}]
      BY <2>2, <3>4, <3>6, <3>7, AtType
    <3>9. /\ IsQueue(p) /\ At(p) = [At(q) EXCEPT ![t] = "app"]
          /\ \A x, y \in Task : Ahead(q, x, y) => Ahead(p, x, y)
      BY <2>1, <3>6, <3>8, Pushed, ZenonT(40)
    <3>10. ready' = p
      BY <3>1, <3>3 DEF q
    <3> HIDE DEF p
    <3>11. At(p)[t] = "app" /\ \A u \in Task \ {t} : At(p)[u] = IF u = v THEN "wait" ELSE stage[u]
      BY <2>2, <3>6, <3>7, <3>8, <3>9
    <3>12. \A x, y \in Task \ {t} : Ahead(ready, x, y) => Ahead(p, x, y)
      BY <1>2, <3>6, <3>9
    <3> QED
      BY <2>3, <3>3, <3>9, <3>10, <3>11, <3>12
  <2>4. CASE ~(pooled /\ Len(lock) > 1)
    <3>1. ready' = Push(Rest, t, "app")
      BY <2>4 DEF Unlock
    <3>2. Moves(t, "app")
      BY <1>0, <1>1, <3>1, Returned DEF IInv
    <3> QED
      BY <1>0, <2>4, <3>2 DEF Moves
  <2> QED
    BY <2>3, <2>4
<1>8. pooled /\ Len(lock) > 1 => lock[2] \in Task /\ doing[lock[2]] = "lock"
  <2>1. pooled /\ Len(lock) > 1 => 2 \in 1 .. Len(lock)
    BY <1>6
  <2> QED
    BY <2>1, <1>0, <1>6 DEF Locked
<1>9. Staged' /\ Tokened' /\ Settled' /\ InOrder' /\ ClosingWaits'
  <2>1. doing' = [doing EXCEPT ![t] = "nothing"]
    BY <1>0, <1>1, <1>2
  <2>2. \A u, v \in Task : doing[u] \in Suspends /\ doing[v] \in Suspends /\ Ahead(ready, u, v) =>
          Ahead(ready', u, v)
    BY <1>2, <1>7 DEF Suspends
  <2>3. \A u \in Task \ {t} : At(ready')[u] = stage[u] \/ (doing[u] = "lock" /\ At(ready')[u] = "wait")
    BY <1>7, <1>8
  <2> QED
    BY <1>1, <1>2, <1>7, <2>1, <2>2, <2>3, CallStep
<1>10. Locked'
  <2> SUFFICES ASSUME pooled
               PROVE  Locked'
    BY <1>1 DEF Locked
  <2>1. /\ \A i, j \in 1 .. Len(lock) : lock[i] = lock[j] => i = j
        /\ \A u \in Task : doing[u] = "lock" => \E i \in 1 .. Len(lock) : lock[i] = u
        /\ \A i \in 1 .. Len(lock) : i > 1 => doing[lock[i]] = "lock" /\ stage[lock[i]] = "none"
    BY <1>0, <1>6 DEF Locked
  <2>2. \A i \in 1 .. (Len(lock) - 1) : i + 1 \in 1 .. Len(lock) /\ i + 1 > 1 /\ lock'[i] = lock[i + 1]
    BY <1>6
  <2>3. \A i, j \in 1 .. (Len(lock) - 1) : lock'[i] = lock'[j] => i = j
    <3> SUFFICES ASSUME NEW i \in 1 .. (Len(lock) - 1), NEW j \in 1 .. (Len(lock) - 1),
                        lock'[i] = lock'[j]
                 PROVE  i = j
      OBVIOUS
    <3>1. i + 1 = j + 1
      BY <2>1, <2>2
    <3> QED
      BY <3>1
  <2>4. ASSUME NEW u \in Task, doing[u] = "lock"
        PROVE  \E i \in 1 .. (Len(lock) - 1) : lock'[i] = u
    <3>1. PICK i \in 1 .. Len(lock) : lock[i] = u
      BY <2>1, <2>4
    <3>2. i # 1
      BY <2>4, <3>1, <1>2, <1>6
    <3>3. i - 1 \in 1 .. (Len(lock) - 1) /\ lock'[i - 1] = lock[i]
      BY <3>2, <1>6
    <3> QED
      BY <3>1, <3>3
  <2>5. \A i \in 1 .. (Len(lock) - 1) :
          /\ lock'[i] \in Task \ {t} /\ doing[lock'[i]] = "lock" /\ stage[lock'[i]] = "none"
          /\ i > 1 => lock'[i] # lock[2]
          /\ i = 1 => lock'[i] = lock[2] /\ Len(lock) > 1
    <3> SUFFICES ASSUME NEW i \in 1 .. (Len(lock) - 1)
                 PROVE  /\ lock'[i] \in Task \ {t} /\ doing[lock'[i]] = "lock" /\ stage[lock'[i]] = "none"
                        /\ i > 1 => lock'[i] # lock[2]
                        /\ i = 1 => lock'[i] = lock[2] /\ Len(lock) > 1
      OBVIOUS
    <3>1. lock'[i] \in Task /\ doing[lock'[i]] = "lock" /\ stage[lock'[i]] = "none"
      BY <2>1, <2>2, <1>6
    <3>2. 2 \in 1 .. Len(lock) /\ Len(lock) > 1
      BY <1>6
    <3>3. i > 1 => lock'[i] # lock[2]
      BY <2>1, <2>2, <3>2
    <3> QED
      BY <3>1, <3>2, <3>3, <2>2, <1>2
  <2>6. \A i \in 1 .. (Len(lock) - 1) : At(ready')[lock'[i]] = IF i = 1 THEN "wait" ELSE "none"
    BY <2>5, <1>7, <1>6
  <2>7. lock' # << >> => 1 \in 1 .. (Len(lock) - 1)
    BY <1>6, EmptySeq
  <2>8. held' = {}
    BY <1>1, <1>6
  <2>9. DOMAIN lock' = 1 .. (Len(lock) - 1)
    BY <1>6
  <2>10. \A i, j \in DOMAIN lock' : lock'[i] = lock'[j] => i = j
    BY <2>3, <2>9
  <2>11. \A u \in Task : doing'[u] = "lock" => \E i \in DOMAIN lock' : lock'[i] = u
    BY <2>4, <2>9, <1>1
  <2>12. \A i \in DOMAIN lock' : i > 1 => doing'[lock'[i]] = "lock" /\ At(ready')[lock'[i]] = "none"
    BY <2>5, <2>6, <2>9, <1>1, <1>6
  <2>13. lock' # << >> => doing'[lock'[1]] = "lock" /\ At(ready')[lock'[1]] = "wait"
    BY <2>5, <2>6, <2>7, <1>1
  <2> QED
    BY <2>8, <2>10, <2>11, <2>12, <2>13 DEF Locked, stage
<1>11. TypeOK'
  <2>1. lock' \in Seq(Task) /\ held' \subseteq Task
    BY <1>0, <1>1, <1>6, LockFacts
  <2> QED
    BY <1>0, <1>1, <1>7, <2>1 DEF TypeOK, IsQueue, Entry
<1> QED
  BY <1>4, <1>5, <1>9, <1>10, <1>11 DEF IInv

-----------------------------------------------------------------------------
(***************************************************************************)
(* The continuations.                                                      *)
(***************************************************************************)

LEMMA WaitReturnsInv ==
  ASSUME IInv, NEW t \in Task, WaitReturns(t)
  PROVE  IInv'
<1>0. /\ TypeOK /\ Staged /\ Tokened /\ Opened /\ Settled /\ ClosingWaits /\ InOrder /\ Locked
      /\ doing \in [Task -> Doing] /\ stage \in [Task -> Stage \cup {"none"}]
  BY TypeFacts DEF IInv
<1>1. /\ DueNow(t, "wait") /\ ready # << >>
      /\ UNCHANGED <<core, mailbox, turn, pooled, connected, connecting, closing, suspend_token,
                     read_required, size, lock, doing, want, ops, held, late>>
  BY DEF WaitReturns, DueNow, socketVars, taskVars
<1>2. PICK s \in {"suspend", "op"} :
        /\ s = "suspend" <=> doing[t] \in Suspends
        /\ ready' = Push(Tail(ready), t, s)
  BY DEF WaitReturns
<1>3. "wait" \in Stage /\ s \in Stage
  BY DEF Stage
<1>4. stage[t] = "wait" /\ Queues(t, s) /\ \A u \in Task : ~Ahead(ready, u, t)
  BY <1>0, <1>1, <1>2, <1>3, Continued
<1>5. /\ Moves(t, s) /\ IsQueue(ready') /\ At(ready')[t] = s
      /\ \A u \in Task \ {t} : At(ready')[u] = stage[u]
      /\ \A u \in Task \ {t} : stage[u] # "none" => Ahead(ready', u, t)
      /\ \A u, v \in Task \ {t} : Ahead(ready, u, v) => Ahead(ready', u, v)
  BY <1>0, <1>4 DEF Queues, Moves
<1>6. doing[t] \in Suspends \cup {"wait to close", "lock"}
  BY <1>0, <1>4 DEF Staged
<1>7. {"wait to close", "lock", "fail", "nothing"} \cap Suspends = {}
  BY DEF Suspends
<1>8. Staged'
  <2>1. doing' = [doing EXCEPT ![t] = doing[t]]
    BY <1>0, <1>1
  <2>2. Fits(doing[t], s)
    BY <1>2, <1>6, <1>7 DEF Fits
  <2> QED
    BY <1>0, <1>5, <2>1, <2>2, StagedStep
<1>9. Tokened'
  BY <1>0, <1>1, <1>4, <1>5 DEF Tokened, stage
<1>10. Settled'
  <2> SUFFICES ASSUME suspend_token # NoTask, suspend_token \notin late
               PROVE  /\ pooled /\ (doing[suspend_token] = "open" \/ connected)
                      /\ \A u \in Task : ~(Ended(u))'
    BY <1>1 DEF Settled
  <2>1. /\ pooled /\ (doing[suspend_token] = "open" \/ connected)
        /\ \A u \in Task : ~Ended(u)
    BY <1>0 DEF Settled
  <2>2. doing[t] = "lock"
    BY <2>1, <1>4, <1>6 DEF Ended
  <2>3. \A u \in Task : ~(Ended(u))'
    BY <2>1, <2>2, <1>1, <1>5, <1>7 DEF Ended, stage
  <2> QED
    BY <2>1, <2>3
<1>11. ClosingWaits'
  <2>1. \A u \in Task : (Unreturned(u))' => Unreturned(u)
    BY <1>1, <1>4, <1>5 DEF Unreturned, stage
  <2>2. ASSUME closing # NoTask, NEW u \in Task, (Unreturned(u))'
        PROVE  doing[closing] = "wait to close" /\ At(ready')[closing] = "none"
    <3>1. doing[closing] = "wait to close" /\ stage[closing] = "none" /\ closing \in Task
      BY <2>1, <2>2, <1>0, TypeFacts DEF ClosingWaits
    <3> QED
      BY <3>1, <1>4, <1>5
  <2> QED
    BY <2>2, <1>0, <1>1 DEF ClosingWaits, stage
<1>12. InOrder'
  <2> SUFFICES ASSUME NEW u \in Task, NEW v \in Task,
                      (Resuming(u))', u \notin late, (Resuming(v))', u # v
               PROVE  \/ At(ready')[u] = "suspend" /\ At(ready')[v] = "wait"
                      \/ At(ready')[u] = At(ready')[v] /\ Ahead(ready', u, v)
    BY <1>1 DEF InOrder, stage
  <2>1. Resuming(u) /\ Resuming(v)
    BY <1>1, <1>4, <1>5 DEF Resuming, stage
  <2>2. \/ stage[u] = "suspend" /\ stage[v] = "wait"
        \/ stage[u] = stage[v] /\ Ahead(ready, u, v)
    BY <2>1, <1>0 DEF InOrder
  <2>3. CASE u = t
    <3>1. stage[v] = "wait"
      BY <2>2, <2>3, <1>4
    <3>2. s = "suspend"
      BY <2>1, <2>3, <1>2 DEF Resuming
    <3> QED
      BY <3>1, <3>2, <2>3, <1>5
  <2>4. CASE v = t
    <3>1. stage[u] = "suspend"
      BY <2>2, <2>4, <1>4
    <3>2. s = "suspend" /\ Ahead(ready', u, t)
      BY <2>1, <2>4, <3>1, <1>2, <1>5 DEF Resuming
    <3> QED
      BY <3>1, <3>2, <2>4, <1>5
  <2>5. CASE u # t /\ v # t
    BY <2>2, <2>5, <1>5
  <2> QED
    BY <2>3, <2>4, <2>5
<1>13. Locked'
  <2>1. /\ \A i \in DOMAIN lock : lock[i] \in Task
        /\ lock # << >> => 1 \in DOMAIN lock
    BY <1>0, LockFacts
  <2>2. \A u \in Task : /\ stage[u] = "none" => At(ready')[u] = "none"
                        /\ doing[u] = "lock" /\ stage[u] \in {"wait", "op"} => At(ready')[u] \in {"wait", "op"}
    BY <1>2, <1>4, <1>5, <1>7
  <2>3. \A i \in DOMAIN lock : stage[lock[i]] = "none" => At(ready')[lock[i]] = "none"
    BY <2>1, <2>2
  <2>4. lock # << >> /\ doing[lock[1]] = "lock" /\ stage[lock[1]] \in {"wait", "op"} =>
          At(ready')[lock[1]] \in {"wait", "op"}
    BY <2>1, <2>2
  <2> QED
    BY <1>0, <1>1, <2>3, <2>4 DEF Locked, stage
<1>14. Opened' /\ Connects'
  BY <1>1 DEF IInv, Opened, Connects, Untouched
<1>15. Reading'
  BY <1>1 DEF IInv, Reading, Enough
<1>16. TypeOK'
  BY <1>0, <1>1, <1>5 DEF TypeOK, IsQueue, Entry
<1> QED
  BY <1>8, <1>9, <1>10, <1>11, <1>12, <1>13, <1>14, <1>15, <1>16 DEF IInv

\* What the return of suspend() does to the queue: the task that waits to
\* close may be woken.
LEMMA SuspendReturned ==
  ASSUME IInv, NEW t \in Task, SuspendReturns(t)
  PROVE  /\ stage[t] = "suspend" /\ doing[t] \in Suspends /\ ready # << >>
         /\ \A u \in Task : ~Ahead(ready, u, t)
         /\ IsQueue(ready') /\ At(ready')[t] = "op"
         /\ \A u \in Task \ {t} :
              \/ At(ready')[u] = stage[u]
              \/ u = closing /\ doing[u] = "wait to close" /\ At(ready')[u] = "wait"
         /\ \A u, v \in Task \ {t} : Ahead(ready, u, v) => Ahead(ready', u, v)
         /\ doing' = doing \/ (closing # NoTask /\ doing' = [doing EXCEPT ![t] = "fail"])
<1>0. /\ TypeOK /\ Staged /\ closing \in Task \cup {NoTask}
      /\ stage \in [Task -> Stage \cup {"none"}] /\ IsQueue(ready)
  BY TypeFacts DEF IInv
<1>1. "suspend" \in Stage /\ "op" \in Stage /\ "wait" \in Stage
  BY DEF Stage
<1>2. DueNow(t, "suspend") /\ ready # << >> /\ Head(ready) = [task |-> t, at |-> "suspend"]
  BY DEF SuspendReturns, DueNow
<1>3. doing' = doing \/ (closing # NoTask /\ doing' = [doing EXCEPT ![t] = "fail"])
  BY DEF SuspendReturns, Do
<1>4. /\ At(ready)[t] = "suspend"
      /\ IsQueue(Tail(ready))
      /\ At(Tail(ready)) = [At(ready) EXCEPT ![t] = "none"]
      /\ \A u, v \in Task \ {t} : Ahead(ready, u, v) => Ahead(Tail(ready), u, v)
      /\ \A u \in Task : ~Ahead(ready, u, t)
  BY <1>0, <1>2, Popped
<1>5. stage[t] = "suspend" /\ doing[t] \in Suspends
  BY <1>0, <1>4 DEF stage, Staged
<1>6. CASE ready' = Push(Tail(ready), t, "op")
  <2>1. Queues(t, "op")
    BY <1>0, <1>1, <1>2, <1>6, Continued
  <2>2. /\ IsQueue(ready') /\ At(ready')[t] = "op"
        /\ \A u \in Task \ {t} : At(ready')[u] = stage[u]
        /\ \A u, v \in Task \ {t} : Ahead(ready, u, v) => Ahead(ready', u, v)
    BY <2>1, <1>0 DEF Queues, Moves
  <2> QED
    BY <1>2, <1>3, <1>4, <1>5, <2>2
<1>7. CASE /\ closing # NoTask /\ doing[closing] = "wait to close"
           /\ ~Due(closing, {"op"}) /\ ~Due(closing, {"wait"})
           /\ ready' = Push(Push(Tail(ready), closing, "wait"), t, "op")
  <2>1. PICK c \in Task : c = closing
    BY <1>0, <1>7
  <2>2. doing[c] = "wait to close" /\ ~Due(c, {"op"}) /\ ~Due(c, {"wait"})
    BY <1>7, <2>1
  <2>3. stage[c] # "op" /\ stage[c] # "wait" /\ c # t
    BY <1>0, <1>5, <2>2, DueFacts DEF Suspends
  <2>4. stage[c] = "none"
    <3>1. stage[c] # "app" /\ stage[c] # "suspend"
      BY <1>0, <2>2 DEF Staged, Suspends
    <3>2. stage[c] \in Stage \cup {"none"}
      BY <1>0
    <3> QED
      BY <2>3, <3>1, <3>2 DEF Stage
  <2>5. /\ At(Tail(ready)) \in [Task -> Stage \cup {"none"}]
        /\ At(Tail(ready))[c] = "none" /\ At(Tail(ready))[t] = "none"
        /\ \A u \in Task \ {t} : At(Tail(ready))[u] = stage[u]
    BY <1>0, <1>4, <2>3, <2>4 DEF stage
  <2>a. IsQueue(Tail(ready)) /\ At(Tail(ready))[c] = "none"
    BY <1>4, <2>5
  <2>b. "wait" \in Stage
    BY <1>1
  <2> DEFINE q == Push(Tail(ready), c, "wait")
             p == Push(q, t, "op")
  <2>6. /\ IsQueue(q) /\ At(q) = [At(Tail(ready)) EXCEPT ![c] = "wait"]
        /\ \A u, v \in Task : Ahead(Tail(ready), u, v) => Ahead(q, u, v)
    BY <2>a, <2>b, Pushed
  <2> HIDE DEF q
  <2>7. At(q)[t] = "none" /\ At(q) \in [Task -> Stage \cup {"none"}]
    BY <2>3, <2>5, <2>6, AtType
  <2>8. /\ IsQueue(p) /\ At(p) = [At(q) EXCEPT ![t] = "op"]
        /\ \A u, v \in Task : Ahead(q, u, v) => Ahead(p, u, v)
    BY <1>1, <2>6, <2>7, Pushed
  <2>9. ready' = p
    BY <1>7, <2>1 DEF q
  <2> HIDE DEF p
  <2>10. At(p)[t] = "op" /\ \A u \in Task \ {t} : At(p)[u] = IF u = c THEN "wait" ELSE stage[u]
    BY <2>5, <2>6, <2>7, <2>8
  <2>11. \A u, v \in Task \ {t} : Ahead(ready, u, v) => Ahead(p, u, v)
    BY <1>4, <2>6, <2>8
  <2> QED
    BY <1>2, <1>3, <1>4, <1>5, <2>1, <2>2, <2>8, <2>9, <2>10, <2>11
<1> QED
  BY <1>6, <1>7 DEF SuspendReturns

LEMMA SuspendReturnsInv ==
  ASSUME IInv, NEW t \in Task, SuspendReturns(t)
  PROVE  IInv'
<1>0. /\ TypeOK /\ Staged /\ Tokened /\ Opened /\ Settled /\ ClosingWaits /\ InOrder /\ Locked
      /\ doing \in [Task -> Doing] /\ stage \in [Task -> Stage \cup {"none"}]
      /\ suspend_token \in Task \cup {NoTask} /\ closing \in Task \cup {NoTask}
  BY TypeFacts DEF IInv
<1>1. UNCHANGED <<core, mailbox, turn, pooled, connected, connecting, closing, suspend_token,
                  read_required, size, lock, want, ops, held, late>>
  BY DEF SuspendReturns, socketVars
<1>2. /\ stage[t] = "suspend" /\ doing[t] \in Suspends /\ ready # << >>
      /\ \A u \in Task : ~Ahead(ready, u, t)
      /\ IsQueue(ready') /\ At(ready')[t] = "op"
      /\ \A u \in Task \ {t} :
           \/ At(ready')[u] = stage[u]
           \/ u = closing /\ doing[u] = "wait to close" /\ At(ready')[u] = "wait"
      /\ \A u, v \in Task \ {t} : Ahead(ready, u, v) => Ahead(ready', u, v)
      /\ doing' = doing \/ (closing # NoTask /\ doing' = [doing EXCEPT ![t] = "fail"])
  BY SuspendReturned
<1>3. /\ \A u \in Task \ {t} : doing'[u] = doing[u]
      /\ doing'[t] = doing[t] \/ (doing'[t] = "fail" /\ closing # NoTask)
      /\ doing' \in [Task -> Doing]
  BY <1>0, <1>2 DEF Doing
<1>4. {"wait to close", "lock", "fail", "nothing"} \cap Suspends = {}
  BY DEF Suspends
<1>5. \A u \in Task \ {t} : doing[u] # "wait to close" => At(ready')[u] = stage[u]
  BY <1>2
<1>6. Ended(t) /\ Resuming(t)
  BY <1>2 DEF Ended, Resuming
<1>7. suspend_token # NoTask => suspend_token \in late
  BY <1>0, <1>6 DEF Settled
<1>8. Settled'
  BY <1>1, <1>7 DEF Settled
<1>9. Staged'
  <2>1. ASSUME NEW u \in Task
        PROVE  Fits(doing'[u], At(ready')[u])
    <3>1. Fits(doing[u], stage[u])
      BY <1>0 DEF Staged, Fits
    <3>2. CASE u = t
      BY <3>2, <1>2, <1>3, <1>4 DEF Fits
    <3>3. CASE u # t /\ At(ready')[u] = stage[u]
      BY <3>1, <3>3, <1>3
    <3>4. CASE u # t /\ doing[u] = "wait to close" /\ At(ready')[u] = "wait"
      BY <3>4, <1>3 DEF Fits
    <3> QED
      BY <3>2, <3>3, <3>4, <1>2
  <2> QED
    BY <2>1 DEF Staged, Fits, stage
<1>10. Tokened'
  <2>1. \A u \in Task : doing'[u] \in Suspends /\ At(ready')[u] = "none" <=>
                        doing[u] \in Suspends /\ stage[u] = "none"
    BY <1>2, <1>3, <1>4, <1>5
  <2> QED
    BY <2>1, <1>0, <1>1 DEF Tokened, stage
<1>11. ASSUME NEW u \in Task, (Unreturned(u))'
       PROVE  FALSE
  <2>1. u # t /\ u \notin late /\ doing[u] \in Suspends /\ At(ready')[u] \in {"none", "wait", "suspend"}
    BY <1>1, <1>2, <1>3, <1>11 DEF Unreturned, stage
  <2>2. stage[u] \in {"none", "wait", "suspend"}
    BY <2>1, <1>4, <1>5
  <2>3. CASE stage[u] = "none"
    <3>1. suspend_token = u
      BY <2>1, <2>3, <1>0 DEF Tokened
    <3> QED
      BY <3>1, <2>1, <1>7, TaskAssumption
  <2>4. CASE stage[u] # "none"
    <3>1. Resuming(u)
      BY <2>1, <2>2, <2>4 DEF Resuming
    <3>2. stage[t] = "wait" \/ Ahead(ready, u, t)
      BY <3>1, <2>1, <1>0, <1>6 DEF InOrder
    <3> QED
      BY <3>2, <1>2
  <2> QED
    BY <2>3, <2>4
<1>12. ClosingWaits'
  <2>1. \A u \in Task : doing'[u] = "wait to close" => closing' = u
    BY <1>0, <1>1, <1>2, <1>3, <1>4 DEF ClosingWaits
  <2>2. closing' # NoTask /\ connected' => doing'[closing'] = "wait to close"
    BY <1>0, <1>1, <1>2, <1>3, <1>4 DEF ClosingWaits
  <2> QED
    BY <2>1, <2>2, <1>11 DEF ClosingWaits
<1>13. InOrder'
  <2>1. \A u \in Task : (Resuming(u))' => u # t /\ Resuming(u) /\ At(ready')[u] = stage[u]
    BY <1>2, <1>3, <1>4, <1>5 DEF Resuming, stage
  <2> QED
    BY <1>0, <1>1, <1>2, <2>1 DEF InOrder, stage
<1>14. Locked'
  <2>1. /\ \A i \in DOMAIN lock : lock[i] \in Task
        /\ lock # << >> => 1 \in DOMAIN lock
    BY <1>0, LockFacts
  <2>2. \A u \in Task : /\ doing'[u] = "lock" <=> doing[u] = "lock"
                        /\ doing[u] = "lock" => At(ready')[u] = stage[u]
    BY <1>2, <1>3, <1>4, <1>5
  <2> QED
    BY <1>0, <1>1, <2>1, <2>2 DEF Locked, stage
<1>15. Opened' /\ Connects'
  <2>1. \A u \in Task : doing'[u] = "open" => doing[u] = "open"
    BY <1>3
  <2>2. core # "none" /\ (connecting => doing' = doing)
    BY <1>0, <1>2 DEF Opened, Untouched
  <2>3. Opened'
    BY <2>1, <2>2, <1>0, <1>1 DEF Opened, Untouched
  <2>4. Connects'
    BY <1>1 DEF IInv, Connects
  <2> QED
    BY <2>3, <2>4
<1>16. Reading'
  <2>1. suspend_token # NoTask => doing'[suspend_token] = doing[suspend_token]
    BY <1>0, <1>2, <1>3 DEF Tokened
  <2> QED
    BY <2>1, <1>1 DEF IInv, Reading, Enough
<1>17. TypeOK'
  BY <1>0, <1>1, <1>2, <1>3 DEF TypeOK, IsQueue, Entry
<1> QED
  BY <1>8, <1>9, <1>10, <1>12, <1>13, <1>14, <1>15, <1>16, <1>17 DEF IInv

\* Who is about to have the lock is the first in line.
LEMMA FirstInLine ==
  ASSUME TypeOK, Locked, pooled, NEW t \in Task, doing[t] = "lock", stage[t] # "none"
  PROVE  lock # << >> /\ lock[1] = t
<1>1. PICK i \in DOMAIN lock : lock[i] = t
  BY DEF Locked
<1>2. ~(i > 1)
  BY <1>1 DEF Locked
<1>3. i \in 1 .. Len(lock) /\ Len(lock) \in Nat
  BY LockFacts
<1>4. i = 1
  BY <1>2, <1>3
<1>5. Len(lock) # 0
  BY <1>3
<1> QED
  BY <1>1, <1>4, <1>5, EmptySeq

\* An operation that was suspended, or waited, ends.
LEMMA ResumesInv ==
  ASSUME IInv, NEW t \in Task, NEW what \in SUBSET Doing, what # {}, "nothing" \notin what,
         Resumes(t, what),
         pooled' \in BOOLEAN, connected' \in BOOLEAN, connecting' \in BOOLEAN,
         size' \in Nat, size' <= size,
         pooled' => pooled, connected' => connected,
         doing[t] = "wait to close" => ~connected',
         UNCHANGED <<pooled, connected>> \/ doing[t] \in {"open", "close", "wait to close"},
         connecting' = IF doing[t] = "open" THEN FALSE ELSE connecting,
         held' = IF doing[t] = "lock" THEN held \cup {t} ELSE held
  PROVE  IInv'
<1>0. /\ TypeOK /\ Staged /\ Tokened /\ Opened /\ Settled /\ ClosingWaits /\ InOrder /\ Locked
      /\ doing \in [Task -> Doing] /\ stage \in [Task -> Stage \cup {"none"}]
      /\ suspend_token \in Task \cup {NoTask} /\ closing \in Task \cup {NoTask} /\ held \subseteq Task
  BY TypeFacts DEF IInv
<1>1. /\ DueNow(t, "op") /\ ready # << >> /\ doing[t] # "nothing"
      /\ doing' = [doing EXCEPT ![t] = "nothing"]
      /\ ready' = Push(Tail(ready), t, "app")
      /\ UNCHANGED <<core, mailbox, turn, closing, suspend_token, read_required, lock, want, ops,
                     late>>
  BY DEF Resumes, DueNow, Do
<1>2. "op" \in Stage /\ "app" \in Stage
  BY DEF Stage
<1>3. stage[t] = "op" /\ Queues(t, "app")
  BY <1>0, <1>1, <1>2, Continued
<1>4. /\ Moves(t, "app") /\ IsQueue(ready') /\ At(ready')[t] = "app" /\ doing'[t] = "nothing"
      /\ \A u \in Task \ {t} : At(ready')[u] = stage[u] /\ doing'[u] = doing[u]
      /\ doing' \in [Task -> Doing]
  BY <1>0, <1>1, <1>3 DEF Queues, Moves, Doing
<1>5. "nothing" \notin Suspends
  BY DEF Suspends
<1>6. Staged'
  BY <1>0, <1>1, <1>4, StagedStep DEF Fits
<1>7. InOrder'
  BY <1>0, <1>1, <1>4, <1>5, InOrderStep
<1>8. Tokened'
  BY <1>0, <1>1, <1>3, <1>4, <1>5 DEF Tokened, stage
<1>9. suspend_token # t /\ (suspend_token # NoTask => doing'[suspend_token] = doing[suspend_token])
  BY <1>0, <1>3, <1>4 DEF Tokened
<1>10. core # "none" /\ (connecting => doing[t] = "open" /\ t = Opener)
  BY <1>0, <1>1 DEF Opened
<1>11. Settled'
  <2> SUFFICES ASSUME suspend_token # NoTask, suspend_token \notin late
               PROVE  /\ pooled' /\ (doing'[suspend_token] = "open" \/ connected')
                      /\ \A u \in Task : ~(Ended(u))'
    BY <1>1 DEF Settled
  <2>1. /\ pooled /\ (doing[suspend_token] = "open" \/ connected)
        /\ \A u \in Task : ~Ended(u)
    BY <1>0 DEF Settled
  <2>2. doing[t] # "open"
    <3>1. ASSUME doing[t] = "open"
          PROVE  FALSE
      <4>1. t = Opener /\ connecting
        BY <3>1, <1>0 DEF Opened
      <4>2. doing[suspend_token] \in Suspends
        BY <1>0 DEF Tokened
      <4>3. suspend_token = Opener
        BY <4>1, <4>2, <1>0, <1>5 DEF Opened
      <4> QED
        BY <4>1, <4>3, <1>9
    <3> QED
      BY <3>1
  <2>3. doing[t] \notin {"close", "wait to close"}
    BY <2>1, <1>3 DEF Ended
  <2>4. \A u \in Task : (Ended(u))' => Ended(u)
    BY <1>4, <1>5 DEF Ended, stage
  <2> QED
    BY <2>1, <2>2, <2>3, <2>4, <1>9
<1>12. ClosingWaits'
  <2>1. \A u \in Task : (Unreturned(u))' => Unreturned(u)
    BY <1>1, <1>4, <1>5 DEF Unreturned, stage
  <2>2. ASSUME closing # NoTask, NEW u \in Task, (Unreturned(u))'
        PROVE  doing'[closing] = "wait to close" /\ At(ready')[closing] = "none"
    <3>1. doing[closing] = "wait to close" /\ stage[closing] = "none" /\ closing \in Task
      BY <2>1, <2>2, <1>0 DEF ClosingWaits
    <3> QED
      BY <3>1, <1>3, <1>4
  <2>3. \A u \in Task : doing'[u] = "wait to close" => closing = u
    BY <1>0, <1>4 DEF ClosingWaits
  <2>4. closing # NoTask /\ connected' => doing'[closing] = "wait to close"
    BY <1>0, <1>4 DEF ClosingWaits
  <2> QED
    BY <2>2, <2>3, <2>4, <1>1 DEF ClosingWaits, stage
<1>13. Locked'
  <2> SUFFICES ASSUME pooled
               PROVE  Locked'
    BY DEF Locked
  <2>0. TypeOK
    BY <1>0
  <2>1. /\ \A i \in DOMAIN lock : lock[i] \in Task
        /\ lock # << >> => 1 \in DOMAIN lock
        /\ Len(lock) \in Nat /\ DOMAIN lock = 1 .. Len(lock)
    BY <2>0, LockFacts
  <2>2. /\ \A i, j \in DOMAIN lock : lock[i] = lock[j] => i = j
        /\ \A u \in Task : doing[u] = "lock" => \E i \in DOMAIN lock : lock[i] = u
        /\ lock = << >> => held = {}
        /\ \A i \in DOMAIN lock : i > 1 => doing[lock[i]] = "lock" /\ stage[lock[i]] = "none"
        /\ lock # << >> =>
             \/ held = {lock[1]} /\ doing[lock[1]] # "lock"
             \/ held = {} /\ doing[lock[1]] = "lock" /\ stage[lock[1]] \in {"wait", "op"}
    BY <1>0 DEF Locked
  <2>3. \A i \in DOMAIN lock : i > 1 => lock[i] # t
    BY <2>2, <1>3
  <2>4. \A i \in DOMAIN lock : i > 1 => doing'[lock[i]] = "lock" /\ At(ready')[lock[i]] = "none"
    BY <2>1, <2>2, <2>3, <1>4, ZenonT(40)
  <2>5. \A u \in Task : doing'[u] = "lock" => \E i \in DOMAIN lock : lock[i] = u
    BY <2>2, <1>4
  <2>6. lock' = lock
    BY <1>1
  <2>7. CASE doing[t] = "lock"
    <3>1. lock # << >> /\ lock[1] = t
      BY <1>0, <1>3, <2>7, FirstInLine
    <3>2. held' = {lock[1]} /\ doing'[lock[1]] # "lock"
      BY <3>1, <2>2, <2>7, <1>4
    <3> QED
      BY <3>1, <3>2, <2>2, <2>4, <2>5, <2>6 DEF Locked, stage
  <2>8. CASE doing[t] # "lock"
    <3>1. held' = held
      BY <2>8
    <3>2. lock # << >> =>
             \/ held = {lock[1]} /\ doing'[lock[1]] # "lock"
             \/ held = {} /\ doing'[lock[1]] = "lock" /\ At(ready')[lock[1]] \in {"wait", "op"}
      BY <2>1, <2>2, <2>8, <1>4
    <3>3. lock = << >> => held' = {}
      BY <2>2, <3>1
    <3> QED
      BY <3>1, <3>2, <3>3, <2>2, <2>4, <2>5, <2>6 DEF Locked, stage
  <2> QED
    BY <2>7, <2>8
<1>14. Opened'
  <2>1. \A u \in Task : doing'[u] # "open"
    <3> SUFFICES ASSUME NEW u \in Task, doing'[u] = "open"
                 PROVE  FALSE
      OBVIOUS
    <3>1. u # t /\ doing[u] = "open"
      BY <1>4
    <3>2. u = Opener /\ connecting
      BY <3>1, <1>0 DEF Opened
    <3> QED
      BY <3>1, <3>2, <1>10
  <2>2. ~connecting'
    BY <1>10
  <2> QED
    BY <2>1, <2>2, <1>1, <1>10 DEF Opened
<1>15. Connects'
  <2>1. ~(connecting /\ suspend_token = Opener)
    BY <1>9, <1>10
  <2> QED
    BY <2>1, <1>1 DEF IInv, Connects
<1>16. Reading'
  BY <1>1, <1>9, ReadingStep
<1>17. TypeOK'
  <2>1. held' \subseteq Task
    BY <1>0
  <2> QED
    BY <1>0, <1>1, <1>4, <2>1 DEF TypeOK, IsQueue, Entry
<1> QED
  BY <1>6, <1>7, <1>8, <1>11, <1>12, <1>13, <1>14, <1>15, <1>16, <1>17 DEF IInv

LEMMA ContinuationInv ==
  ASSUME IInv, NEW t \in Task, Continuation(t)
  PROVE  IInv'
<1>0. /\ pooled \in BOOLEAN /\ connected \in BOOLEAN /\ connecting \in BOOLEAN /\ size \in Nat
      /\ want[t] \in Nat
  BY DEF IInv, TypeOK
<1>1. CASE WaitReturns(t)
  BY <1>1, WaitReturnsInv
<1>2. CASE SuspendReturns(t)
  BY <1>2, SuspendReturnsInv
<1>3. CASE FailResumes(t)
  <2>1. Resumes(t, {"fail"}) /\ doing[t] = "fail" /\ UNCHANGED <<pooled, connected, connecting, size, held>>
    BY <1>3 DEF FailResumes, Resumes
  <2>2. {"fail"} \in SUBSET Doing
    BY DEF Doing
  <2>3. size' \in Nat /\ size' <= size
    BY <1>0, <2>1
  <2> QED
    BY <1>0, <2>1, <2>2, <2>3, ResumesInv
<1>4. CASE OpenResumes(t)
  <2>1. /\ Resumes(t, {"open"}) /\ doing[t] = "open" /\ connecting' = FALSE
        /\ pooled' = (pooled /\ connected) /\ UNCHANGED <<connected, size, held>>
    BY <1>4 DEF OpenResumes, Resumes
  <2>2. {"open"} \in SUBSET Doing
    BY DEF Doing
  <2>3. size' \in Nat /\ size' <= size
    BY <1>0, <2>1
  <2> QED
    BY <1>0, <2>1, <2>2, <2>3, ResumesInv
<1>5. CASE ReadResumes(t)
  <2>1. /\ Resumes(t, {"read", "block"}) /\ doing[t] \in {"read", "block"}
        /\ UNCHANGED <<pooled, connected, connecting, held>>
        /\ size' = IF doing[t] = "read" THEN Left(want[t]) ELSE size
    BY <1>5 DEF ReadResumes, Resumes
  <2>2. {"read", "block"} \in SUBSET Doing
    BY DEF Doing
  <2>3. size' \in Nat /\ size' <= size
    BY <1>0, <2>1, LeftType
  <2> QED
    BY <1>0, <2>1, <2>2, <2>3, ResumesInv
<1>6. CASE CloseResumes(t)
  <2>1. /\ Resumes(t, {"close", "wait to close"}) /\ doing[t] \in {"close", "wait to close"}
        /\ connected' = FALSE /\ pooled' = (pooled /\ lock # << >>)
        /\ UNCHANGED <<connecting, size, held>>
    BY <1>6 DEF CloseResumes, Resumes, Leave
  <2>2. {"close", "wait to close"} \in SUBSET Doing
    BY DEF Doing
  <2>3. size' = size
    BY <2>1
  <2>4. size' \in Nat /\ size' <= size
    BY <1>0, <2>3
  <2> QED
    BY <1>0, <2>1, <2>2, <2>4, ResumesInv
<1>7. CASE LockResumes(t)
  <2>1. /\ Resumes(t, {"lock"}) /\ doing[t] = "lock" /\ held' = held \cup {t}
        /\ UNCHANGED <<pooled, connected, connecting, size>>
    BY <1>7 DEF LockResumes, Resumes
  <2>2. {"lock"} \in SUBSET Doing
    BY DEF Doing
  <2>3. size' \in Nat /\ size' <= size
    BY <1>0, <2>1
  <2> QED
    BY <1>0, <2>1, <2>2, <2>3, ResumesInv
<1> QED
  BY <1>1, <1>2, <1>3, <1>4, <1>5, <1>6, <1>7 DEF Continuation

LEMMA ApplicationInv ==
  ASSUME IInv, NEW t \in Task, Application(t)
  PROVE  IInv'
<1>1. CASE \E n \in 0 .. MaxSize : Read(t, n)
  <2>1. PICK n \in 0 .. MaxSize : Read(t, n)
    BY <1>1
  <2>2. n \in Nat
    BY TaskAssumption
  <2> QED
    BY <2>1, <2>2, ReadInv
<1> QED
  BY <1>1, OpenInv, BlockInv, CloseInv, AbandonInv, LockInv, UnlockInv, RestsInv DEF Application

-----------------------------------------------------------------------------
(***************************************************************************)
(* The theorem.                                                            *)
(***************************************************************************)

LEMMA InvInit == Init => IInv
<1> SUFFICES ASSUME Init
             PROVE  IInv
  OBVIOUS
<1> USE DEF Init
<1>1. IsQueue(ready) /\ DOMAIN ready = {}
  BY EmptySeq, LenProperties DEF IsQueue
<1>2. \A t \in Task : stage[t] = "none"
  <2>1. Len(ready) = 0
    BY EmptySeq
  <2>2. \A t \in Task : \A i \in 1 .. Len(ready) : ready[i].task # t
    BY <2>1
  <2> QED
    BY <1>1, <2>2, AtNone DEF stage
<1>3. TypeOK
  <2>1. MaxOps \in Nat
    BY TaskAssumption
  <2>2. ops \in [Task -> 0 .. MaxOps]
    BY <2>1
  <2>3. ready \in Seq([task : Task, at : Stage]) /\ mailbox \in Seq({"CONNECT", "DATA", "CLOSE", "ERROR"})
        /\ lock \in Seq(Task)
    BY EmptySeq
  <2>4. \A i, j \in DOMAIN ready : ready[i].task = ready[j].task => i = j
    BY <1>1
  <2>5. doing \in [Task -> Doing] /\ want \in [Task -> Nat]
    BY DEF Doing
  <2> QED
    BY <2>2, <2>3, <2>4, <2>5, TaskAssumption DEF TypeOK, Nothing
<1>4. Staged /\ Tokened /\ InOrder
  BY <1>2, TaskAssumption DEF Staged, Tokened, InOrder, Resuming, Suspends
<1>5. Opened /\ Connects /\ Settled /\ ClosingWaits /\ Reading
  BY TaskAssumption DEF Opened, Untouched, Connects, Settled, ClosingWaits, Reading
<1>6. Locked
  BY DEF Locked
<1> QED
  BY <1>3, <1>4, <1>5, <1>6 DEF IInv

LEMMA InvNext == IInv /\ [Next]_vars => IInv'
<1> SUFFICES ASSUME IInv, [Next]_vars
             PROVE  IInv'
  OBVIOUS
<1>1. CASE \E t \in Task : Application(t) \/ Continuation(t)
  BY <1>1, ApplicationInv, ContinuationInv
<1>2. CASE Dispatch
  BY <1>2, DispatchInv
<1>3. CASE Turn
  BY <1>3, TurnInv
<1>4. CASE Core
  BY <1>4, CoreInv
<1>5. CASE UNCHANGED vars
  <2>1. UNCHANGED <<core, mailbox, turn, ready, socketVars, taskVars>>
    BY <1>5 DEF vars
  <2>2. Staged' /\ Tokened' /\ Settled' /\ ClosingWaits' /\ InOrder' /\ Locked' /\ Reading'
    BY <2>1, StillStep
  <2>3. TypeOK' /\ Opened' /\ Connects'
    BY <2>1 DEF IInv, TypeOK, Opened, Untouched, Connects, socketVars, taskVars
  <2> QED
    BY <2>2, <2>3 DEF IInv
<1> QED
  BY <1>1, <1>2, <1>3, <1>4, <1>5 DEF Next

\* The invariant says of the four properties what they claim.
LEMMA InvImplies == IInv => SocketInv
<1> SUFFICES ASSUME IInv
             PROVE  SocketInv
  OBVIOUS
<1>0. /\ TypeOK /\ Staged /\ Tokened /\ Settled /\ ClosingWaits /\ Locked /\ Reading
      /\ closing \in Task \cup {NoTask} /\ IsQueue(ready)
  BY TypeFacts DEF IInv
<1>1. \A t \in Task : Suspended(t) <=> suspend_token = t
  BY <1>0, DueFacts DEF Suspended, Tokened
<1>2. SuspendedIsFound
  BY <1>0, <1>1, TaskAssumption DEF SuspendedIsFound, Settled
<1>3. ClosingIsAwaited
  <2> SUFFICES ASSUME NEW t \in Task \ late, DueNow(t, "suspend"), closing # NoTask
               PROVE  doing[closing] = "wait to close" /\ ~Due(closing, {"op"})
    BY DEF ClosingIsAwaited
  <2>1. stage[t] = "suspend"
    BY <1>0, Popped DEF DueNow, stage
  <2>2. Unreturned(t)
    BY <2>1, <1>0 DEF Staged, Unreturned
  <2>3. doing[closing] = "wait to close" /\ stage[closing] = "none" /\ closing \in Task
    BY <2>2, <1>0 DEF ClosingWaits
  <2> QED
    BY <2>3, <1>0, DueFacts
<1>4. LockIsHandedOn
  <2> SUFFICES ASSUME pooled, lock # << >>
               PROVE  \/ held = {Head(lock)}
                      \/ held = {} /\ Due(Head(lock), {"wait", "op"})
    BY <1>0 DEF LockIsHandedOn, Locked
  <2>1. lock[1] \in Task /\ Head(lock) = lock[1]
    BY <1>0, LockFacts
  <2>2. held = {lock[1]} \/ (held = {} /\ stage[lock[1]] \in {"wait", "op"})
    BY <1>0 DEF Locked
  <2> QED
    BY <2>1, <2>2, <1>0, DueFacts
<1>5. ReaderIsServed
  BY <1>0, <1>1, TaskAssumption DEF ReaderIsServed, Reading
<1> QED
  BY <1>0, <1>2, <1>3, <1>4, <1>5 DEF SocketInv

\* Whoever is suspended on a socket is found by the messages that end the
\* suspension, whoever closes it meanwhile is awaited when suspend() wakes it,
\* the lock goes from one to the next, and no reader waits for bytes that have
\* come (suspend, close, lock, unlock, read and the handlers of the messages
\* of the core in ts/lib/skynet/skynet/socket/index.ts).
THEOREM SocketCorrect == Spec => []SocketInv
<1>1. Init => IInv
  BY InvInit
<1>2. IInv /\ [Next]_vars => IInv'
  BY InvNext
<1>3. IInv => SocketInv
  BY InvImplies
<1> QED
  BY <1>1, <1>2, <1>3, PTL DEF Spec
=============================================================================
