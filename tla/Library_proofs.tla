--------------------------- MODULE Library_proofs ---------------------------
(***************************************************************************)
(* Proofs about the modules of LibraryParts, on which no other module      *)
(* builds.  A specification speaks of the variables of its module only,    *)
(* and not of "which": the theorems hold whatever else a behaviour does.   *)
(* For each module: the inductive invariant by its parts, a lemma that     *)
(* every step keeps a part, and the theorem.                               *)
(***************************************************************************)
EXTENDS LibraryParts, SequencesExt, FiniteSetTheorems, SequenceTheorems, TLAPS

-----------------------------------------------------------------------------
(* HttpClient.                                                             *)

\* async_conn: fd is set when it has gone on with a socket that was opened.
Dialled ==
  /\ dial = "opening" <=> socket = "opening"
  /\ fdKnown => dial \notin {"opening", "opened"} /\ socket # "refused"
  /\ dial \notin {"opening", "opened"} /\ ~ fdKnown => socket = "refused"

\* request() is behind connect() with the fd only, and has its TLS state from then on.
Handed ==
  /\ caller \in {"init", "request", "answered", "init failed"} => fdKnown
  /\ caller \in {"connect", "failed", "answered"} => tls # "held"
  /\ ~ https => tls = "none"

\* Who sees to the socket: request() until its end, or async_conn when connect()
\* went without it.
Owner ==
  /\ caller = "connect" => ~ drop_fd /\ socket # "closed"
  /\ drop_fd => caller = "failed"
  /\ caller = "answered" => socket = "closed"
  /\ caller = "failed" => \/ socket \in {"closed", "refused"}
                          \/ drop_fd /\ dial \in {"opening", "opened"}

ClientInv == Dialled /\ Handed /\ Owner

LEMMA ClientStep ==
  ASSUME ClientInv, [HC!Next]_HC!clientVars
  PROVE  ClientInv'
<1> USE DEF ClientInv
<1>1. CASE HC!SocketEvent
  <2>1. Dialled'
    BY <1>1 DEF HC!SocketEvent, HC!Ended, Dialled
  <2>2. Handed'
    BY <1>1 DEF HC!SocketEvent, HC!Ended, Handed, Dialled
  <2>3. Owner'
    BY <1>1 DEF HC!SocketEvent, HC!Ended, Owner, Dialled
  <2> QED
    BY <2>1, <2>2, <2>3
<1>2. CASE HC!TimerEvent
  <2>1. Dialled'
    BY <1>2 DEF HC!TimerEvent, HC!Ended, Dialled
  <2>2. Handed'
    BY <1>2 DEF HC!TimerEvent, HC!Ended, Handed, Dialled
  <2>3. Owner'
    BY <1>2 DEF HC!TimerEvent, HC!Ended, Owner, Dialled
  <2> QED
    BY <2>1, <2>2, <2>3
<1>3. CASE HC!DispatchNapTimer
  <2>1. Dialled'
    BY <1>3 DEF HC!DispatchNapTimer, HC!Ended, Dialled
  <2>2. Handed'
    BY <1>3 DEF HC!DispatchNapTimer, HC!Ended, Handed, Dialled
  <2>3. Owner'
    BY <1>3 DEF HC!DispatchNapTimer, HC!Ended, Owner, Dialled
  <2> QED
    BY <2>1, <2>2, <2>3
<1>4. CASE HC!DialResumes
  <2>1. Dialled'
    BY <1>4 DEF HC!DialResumes, HC!Ended, Dialled
  <2>2. Handed'
    BY <1>4 DEF HC!DialResumes, HC!Ended, Handed, Dialled
  <2>3. Owner'
    BY <1>4 DEF HC!DialResumes, HC!Ended, Owner, Dialled
  <2> QED
    BY <2>1, <2>2, <2>3
<1>5. CASE HC!NapEnds
  <2>1. Dialled'
    BY <1>5 DEF HC!NapEnds, HC!Ended, Dialled
  <2>2. Handed'
    BY <1>5 DEF HC!NapEnds, HC!Ended, Handed, Dialled
  <2>3. Owner'
    BY <1>5 DEF HC!NapEnds, HC!Ended, Owner, Dialled
  <2> QED
    BY <2>1, <2>2, <2>3
<1>6. CASE HC!ConnectReturns
  <2>1. Dialled'
    BY <1>6 DEF HC!ConnectReturns, HC!Ended, Dialled
  <2>2. Handed'
    BY <1>6 DEF HC!ConnectReturns, HC!Ended, Handed, Dialled
  <2>3. Owner'
    BY <1>6 DEF HC!ConnectReturns, HC!Ended, Owner, Dialled
  <2> QED
    BY <2>1, <2>2, <2>3
<1>7. CASE HC!DispatchGuard
  <2>1. Dialled'
    BY <1>7 DEF HC!DispatchGuard, HC!connectVars, HC!Ended, Dialled
  <2>2. Handed'
    BY <1>7 DEF HC!DispatchGuard, HC!connectVars, HC!Ended, Handed, Dialled
  <2>3. Owner'
    BY <1>7 DEF HC!DispatchGuard, HC!connectVars, HC!Ended, Owner, Dialled
  <2> QED
    BY <2>1, <2>2, <2>3
<1>8. CASE HC!InitEnds
  <2>1. Dialled'
    BY <1>8 DEF HC!InitEnds, HC!connectVars, HC!Ended, Dialled
  <2>2. Handed'
    BY <1>8 DEF HC!InitEnds, HC!connectVars, HC!Ended, Handed, Dialled
  <2>3. Owner'
    BY <1>8 DEF HC!InitEnds, HC!connectVars, HC!Ended, Owner, Dialled
  <2> QED
    BY <2>1, <2>2, <2>3
<1>9. CASE HC!RequestEnds
  <2>1. Dialled'
    BY <1>9 DEF HC!RequestEnds, HC!connectVars, HC!Ended, Dialled, Handed
  <2>2. Handed'
    BY <1>9 DEF HC!RequestEnds, HC!connectVars, HC!Ended, Handed, Dialled
  <2>3. Owner'
    BY <1>9 DEF HC!RequestEnds, HC!connectVars, HC!Ended, Owner, Dialled
  <2> QED
    BY <2>1, <2>2, <2>3
<1>10. CASE UNCHANGED HC!clientVars
  <2>1. Dialled'
    BY <1>10 DEF HC!clientVars, Dialled
  <2>2. Handed'
    BY <1>10 DEF HC!clientVars, Handed, Dialled
  <2>3. Owner'
    BY <1>10 DEF HC!clientVars, Owner, Dialled
  <2> QED
    BY <2>1, <2>2, <2>3
<1> QED
  BY <1>1, <1>2, <1>3, <1>4, <1>5, <1>6, <1>7, <1>8, <1>9, <1>10 DEF HC!Next

\* connect() of http/helper.ts races with its timer, and request() of http/httpc.ts
\* with its own: in whatever order they come, no socket is left open when all is
\* over, and no TLS state is kept, but for a handshake that fails (httpc.ts:71).
THEOREM ClientCorrect == HC!Spec => []NoSocketLost
<1>1. HC!Init => ClientInv
  BY DEF HC!Init, ClientInv, Dialled, Handed, Owner, HC!Ended
<1>2. ClientInv /\ [HC!Next]_HC!clientVars => ClientInv'
  BY ClientStep
<1>3. ClientInv => NoSocketLost
  BY DEF NoSocketLost, ClientInv, Dialled, Handed, Owner, HC!NoSocketLost, HC!Ended
<1> QED
  BY <1>1, <1>2, <1>3, PTL DEF HC!Spec

-----------------------------------------------------------------------------
(* ServiceStart.                                                           *)

Function == SS!Fn \cup {SS!Start}

StartTypes ==
  /\ pc \in {"none", "timer", "first", "start", "second", "launched", "failed"}
  /\ defined \in BOOLEAN
  /\ init_func \in Seq(SS!Fn) /\ funcs \in Seq(SS!Fn) /\ order \in Seq(SS!Fn)
  /\ awaited \in Function \cup {SS!Nothing}
  /\ state \in [Function -> {"new", "queued", "runs", "ended", "threw"}]
  /\ told \in Seq({"LAUNCHOK", "ERROR", "REMOVE"})

\* What init_service has to do with at each of its places.
Places ==
  /\ pc \in {"none", "timer", "start"} => defined
  /\ pc \in {"first", "second", "launched"} => ~ defined
  /\ pc \in {"none", "timer", "launched", "failed"} => awaited = SS!Nothing
  /\ pc \in {"first", "second"} => awaited # SS!Start
  /\ pc = "start" => awaited = SS!Start
  /\ pc \in {"first", "second"} /\ awaited = SS!Nothing => funcs = << >>
  /\ pc = "launched" => funcs = << >>
  /\ defined => funcs = << >>
  /\ ~ defined => init_func = << >>
  /\ pc \in {"none", "timer", "first"} => state[SS!Start] = "new"
  /\ pc \in {"second", "launched"} => state[SS!Start] = "ended"
  /\ state[SS!Start] # "queued"

\* The functions that are waiting, and those taken before them: order is the
\* one behind the other.
Waiting == IF defined THEN init_func ELSE funcs

Splits(k) ==
  /\ Len(order) = k + Len(Waiting)
  /\ \A i \in DOMAIN Waiting : Waiting[i] = order[k + i]
  /\ \A i \in DOMAIN order : state[order[i]] = "queued" <=> k < i
  /\ \A i \in DOMAIN order : i < k => state[order[i]] = "ended"
  /\ k # 0 /\ state[order[k]] # "ended" => awaited = order[k] \/ pc = "failed"
  /\ awaited \in SS!Fn => k # 0 /\ awaited = order[k]

Ordered ==
  /\ \E k \in Nat : Splits(k)
  /\ \A i, j \in DOMAIN order : order[i] = order[j] => i = j
  /\ \A i \in DOMAIN order : state[order[i]] # "new"
  /\ \A f \in SS!Fn : state[f] = "queued" => \E i \in DOMAIN order : order[i] = f

\* What .launcher was told shows in pc.
Telling ==
  /\ \A i, j \in DOMAIN told : told[i] # "REMOVE" /\ told[j] # "REMOVE" => i = j
  /\ \A i \in DOMAIN told :
       /\ told[i] = "LAUNCHOK" => pc = "launched"
       /\ told[i] = "ERROR" => pc = "failed" /\ i < Len(told) /\ told[i + 1] = "REMOVE"

Threw ==
  pc = "failed" => \/ state[SS!Start] = "threw"
                   \/ \E i \in DOMAIN order : state[order[i]] = "threw"

StartInv == StartTypes /\ Places /\ Ordered /\ Telling /\ Threw

LEMMA FnFacts ==
  ASSUME MaxFn \in Nat
  PROVE  /\ SS!Fn \subseteq Function /\ SS!Start \in Function
         /\ SS!Start \notin SS!Fn /\ SS!Nothing \notin Function
  BY DEF Function, SS!Fn, SS!Start, SS!Nothing

\* What the loop of init_all takes from its queue.
LEMMA LoopFacts ==
  ASSUME MaxFn \in Nat, StartTypes, NEW q \in Seq(SS!Fn), SS!LoopOver(q)
  PROVE  /\ funcs' \in Seq(SS!Fn) /\ awaited' \in SS!Fn \cup {SS!Nothing}
         /\ state' \in [Function -> {"new", "queued", "runs", "ended", "threw"}]
         /\ q = << >> => awaited' = SS!Nothing /\ funcs' = << >> /\ state' = state
         /\ q # << >> =>
              /\ q[1] \in SS!Fn /\ awaited' = q[1]
              /\ Len(q) \in Nat /\ Len(q) = Len(funcs') + 1
              /\ \A i \in DOMAIN funcs' : i + 1 \in DOMAIN q /\ funcs'[i] = q[i + 1]
              /\ state'[q[1]] = "runs"
              /\ \A f \in Function : f # q[1] => state'[f] = state[f]
         /\ state'[SS!Start] = state[SS!Start]
<1>1. CASE q = << >>
  BY <1>1, EmptySeq, FnFacts DEF SS!LoopOver, StartTypes
<1>2. CASE q # << >>
  <2>1. /\ Head(q) \in SS!Fn /\ Head(q) = q[1] /\ Tail(q) \in Seq(SS!Fn)
        /\ Len(Tail(q)) = Len(q) - 1
        /\ \A i \in 1 .. Len(Tail(q)) : Tail(q)[i] = q[i + 1]
    BY <1>2, HeadTailProperties
  <2>2. Len(q) \in Nat /\ DOMAIN q = 1 .. Len(q) /\ DOMAIN Tail(q) = 1 .. Len(Tail(q))
    BY <2>1, LenProperties
  <2>3. funcs' = Tail(q) /\ awaited' = q[1] /\ state' = [state EXCEPT ![q[1]] = "runs"]
    BY <1>2, <2>1 DEF SS!LoopOver
  <2>4. q[1] \in Function /\ q[1] # SS!Start
    BY <2>1, FnFacts
  <2>5. \A i \in DOMAIN funcs' : i + 1 \in DOMAIN q /\ funcs'[i] = q[i + 1]
    BY <2>1, <2>2, <2>3
  <2>6. Len(q) = Len(funcs') + 1
    BY <2>1, <2>2, <2>3
  <2>7. /\ state' \in [Function -> {"new", "queued", "runs", "ended", "threw"}]
        /\ state'[q[1]] = "runs"
        /\ \A f \in Function : f # q[1] => state'[f] = state[f]
    BY <2>3, <2>4 DEF StartTypes
  <2> QED
    BY <1>2, <2>1, <2>2, <2>3, <2>4, <2>5, <2>6, <2>7, FnFacts
<1> QED
  BY <1>1, <1>2

LEMMA TypesStep ==
  ASSUME MaxFn \in Nat, StartTypes, [SS!Next]_SS!startVars
  PROVE  StartTypes'
<1> USE FnFacts
<1>1. CASE SS!CallStart \/ SS!Loaded \/ SS!LoadFails \/ SS!Retire \/ UNCHANGED SS!startVars
  BY <1>1 DEF StartTypes, SS!CallStart, SS!Loaded, SS!LoadFails, SS!Retire, SS!startVars
<1>2. ASSUME NEW f \in SS!Fn, SS!InitFn(f)
      PROVE  StartTypes'
  <2>1. Append(init_func, f) \in Seq(SS!Fn) /\ Append(order, f) \in Seq(SS!Fn)
    BY AppendProperties DEF StartTypes
  <2> QED
    BY <1>2, <2>1 DEF StartTypes, SS!InitFn
<1>3. CASE SS!DispatchTimer
  <2>1. SS!LoopOver(init_func) /\ defined' = FALSE /\ init_func' = << >>
    BY <1>3 DEF SS!DispatchTimer, SS!InitAll
  <2> QED
    BY <1>3, <2>1, LoopFacts, EmptySeq DEF StartTypes, SS!DispatchTimer
<1>4. CASE SS!LoopGoesOn
  <2>1. SS!LoopOver(funcs)
    BY <1>4 DEF SS!LoopGoesOn
  <2> QED
    BY <1>4, <2>1, LoopFacts DEF StartTypes, SS!LoopGoesOn
<1>5. CASE SS!StartFunc
  BY <1>5, EmptySeq DEF StartTypes, SS!StartFunc
<1>6. CASE SS!Started
  <2>1. SS!LoopOver(init_func) /\ defined' = FALSE /\ init_func' = << >>
    BY <1>6 DEF SS!Started, SS!InitAll
  <2> QED
    BY <1>6, <2>1, LoopFacts, EmptySeq DEF StartTypes, SS!Started
<1>7. CASE SS!Launched
  BY <1>7, AppendProperties DEF StartTypes, SS!Launched
<1>8. CASE SS!InitFails
  <2>1. <<"ERROR", "REMOVE">> \in Seq({"LAUNCHOK", "ERROR", "REMOVE"})
    OBVIOUS
  <2>2. told \o <<"ERROR", "REMOVE">> \in Seq({"LAUNCHOK", "ERROR", "REMOVE"})
    BY <2>1, ConcatProperties DEF StartTypes
  <2> QED
    BY <1>8, <2>2 DEF StartTypes, SS!InitFails
<1>9. ASSUME NEW f \in Function, SS!Ends(f)
      PROVE  StartTypes'
  BY <1>9 DEF StartTypes, SS!Ends
<1>10. CASE SS!Exit
  BY <1>10, AppendProperties DEF StartTypes, SS!Exit
<1> QED
  BY <1>1, <1>2, <1>3, <1>4, <1>5, <1>6, <1>7, <1>8, <1>9, <1>10
     DEF SS!Next, SS!Continues, Function

LEMMA PlacesStep ==
  ASSUME MaxFn \in Nat, StartTypes, Places, [SS!Next]_SS!startVars
  PROVE  Places'
<1> USE FnFacts
<1>1. CASE SS!CallStart \/ SS!Loaded \/ SS!LoadFails \/ SS!Retire \/ SS!Exit
           \/ UNCHANGED SS!startVars
  BY <1>1 DEF Places, SS!CallStart, SS!Loaded, SS!LoadFails, SS!Retire, SS!Exit, SS!startVars
<1>2. ASSUME NEW f \in SS!Fn, SS!InitFn(f)
      PROVE  Places'
  <2>1. f # SS!Start /\ f \in Function /\ state'[SS!Start] = state[SS!Start]
    BY <1>2 DEF StartTypes, SS!InitFn
  <2>2. UNCHANGED <<pc, defined, funcs, awaited>> /\ (~ defined => init_func' = init_func)
    BY <1>2 DEF SS!InitFn
  <2> QED
    BY <2>1, <2>2 DEF Places
<1>3. CASE SS!DispatchTimer
  <2>1. /\ SS!LoopOver(init_func) /\ defined' = FALSE /\ init_func' = << >>
        /\ pc = "timer" /\ pc' = "first"
    BY <1>3 DEF SS!DispatchTimer, SS!InitAll
  <2> QED
    BY <2>1, LoopFacts DEF StartTypes, Places
<1>4. CASE SS!LoopGoesOn
  <2>1. SS!LoopOver(funcs) /\ UNCHANGED <<pc, defined, init_func>> /\ pc \in {"first", "second"}
    BY <1>4 DEF SS!LoopGoesOn
  <2> QED
    BY <2>1, LoopFacts DEF StartTypes, Places
<1>5. CASE SS!StartFunc
  <2>1. /\ pc = "first" /\ pc' = "start" /\ awaited = SS!Nothing /\ awaited' = SS!Start
        /\ defined' = TRUE /\ init_func' = << >> /\ funcs' = funcs
        /\ state'[SS!Start] = "runs"
    BY <1>5 DEF SS!StartFunc, StartTypes
  <2> QED
    BY <2>1 DEF Places
<1>6. CASE SS!Started
  <2>1. /\ SS!LoopOver(init_func) /\ defined' = FALSE /\ init_func' = << >>
        /\ pc = "start" /\ pc' = "second" /\ state[SS!Start] = "ended"
    BY <1>6 DEF SS!Started, SS!InitAll
  <2> QED
    BY <2>1, LoopFacts DEF StartTypes, Places
<1>7. CASE SS!Launched
  BY <1>7 DEF Places, SS!Launched
<1>8. CASE SS!InitFails
  BY <1>8 DEF Places, SS!InitFails
<1>9. ASSUME NEW f \in Function, SS!Ends(f)
      PROVE  Places'
  <2>1. /\ state[f] = "runs" /\ state'[f] \in {"ended", "threw"}
        /\ \A g \in Function : g # f => state'[g] = state[g]
    BY <1>9 DEF StartTypes, SS!Ends
  <2> QED
    BY <1>9, <2>1 DEF Places, SS!Ends
<1> QED
  BY <1>1, <1>2, <1>3, <1>4, <1>5, <1>6, <1>7, <1>8, <1>9
     DEF SS!Next, SS!Continues, Function

-----------------------------------------------------------------------------
(* What becomes of the order of the functions.                             *)

\* A step that neither pushes nor takes nor runs a function.
LEMMA StayOrdered ==
  ASSUME MaxFn \in Nat, Ordered, UNCHANGED <<defined, init_func, funcs, order, state>>,
         \/ pc # "failed" /\ awaited' = awaited
         \/ pc' = "failed" /\ awaited' \in {awaited, SS!Nothing}
  PROVE  Ordered'
<1>1. PICK k \in Nat : Splits(k)
  BY DEF Ordered
<1>2. Waiting' = Waiting
  BY DEF Waiting
<1>3. Splits(k)'
  BY <1>1, <1>2, FnFacts DEF Splits
<1> QED
  BY <1>3 DEF Ordered

\* init() pushes a function.
LEMMA PushOrdered ==
  ASSUME MaxFn \in Nat, StartTypes, Ordered, NEW f \in SS!Fn, state[f] = "new", defined,
         init_func' = Append(init_func, f), order' = Append(order, f),
         state' = [state EXCEPT ![f] = "queued"], UNCHANGED <<defined, funcs, awaited, pc>>
  PROVE  Ordered'
<1> USE FnFacts
<1>1. PICK k \in Nat : Splits(k)
  BY DEF Ordered
<1>2. /\ Waiting = init_func /\ Waiting' = init_func'
      /\ Len(init_func) \in Nat /\ Len(order) \in Nat
      /\ DOMAIN init_func = 1 .. Len(init_func) /\ DOMAIN order = 1 .. Len(order)
  BY LenProperties DEF Waiting, StartTypes
<1>3. /\ Len(init_func') = Len(init_func) + 1 /\ Len(order') = Len(order) + 1
      /\ DOMAIN init_func' = 1 .. Len(init_func) + 1 /\ DOMAIN order' = 1 .. Len(order) + 1
      /\ \A i \in DOMAIN init_func : init_func'[i] = init_func[i]
      /\ \A i \in DOMAIN order : order'[i] = order[i]
      /\ init_func'[Len(init_func) + 1] = f /\ order'[Len(order) + 1] = f
  BY <1>2, AppendProperties DEF StartTypes
<1>4. \A i \in DOMAIN order : order[i] \in SS!Fn /\ order[i] # f
  BY ElementOfSeq, <1>2 DEF StartTypes, Ordered
<1>5. state'[f] = "queued" /\ \A g \in Function : g # f => state'[g] = state[g]
  BY DEF StartTypes
<1>6. \A i \in DOMAIN order : state'[order'[i]] = state[order[i]]
  BY <1>3, <1>4, <1>5
<1>7. Len(order) = k + Len(init_func)
  BY <1>1, <1>2 DEF Splits
<1>8. Splits(k)'
  <2>1. Len(order') = k + Len(Waiting')
    BY <1>2, <1>3, <1>7
  <2>2. ASSUME NEW i \in DOMAIN Waiting'
        PROVE  Waiting'[i] = order'[k + i]
    <3>1. CASE i = Len(init_func) + 1
      BY <3>1, <1>2, <1>3, <1>7
    <3>2. CASE i \in 1 .. Len(init_func)
      <4>1. Waiting[i] = order[k + i] /\ k + i \in DOMAIN order
        BY <3>2, <1>1, <1>2, <1>7 DEF Splits
      <4> QED
        BY <3>2, <4>1, <1>2, <1>3
    <3>3. i = Len(init_func) + 1 \/ i \in 1 .. Len(init_func)
      <4>1. i \in 1 .. Len(init_func) + 1
        BY <1>2, <1>3
      <4> QED
        BY <4>1, <1>2
    <3> QED
      BY <3>1, <3>2, <3>3
  <2>3. ASSUME NEW i \in DOMAIN order'
        PROVE  /\ state'[order'[i]] = "queued" <=> k < i
               /\ i < k => state'[order'[i]] = "ended"
    <3>1. CASE i = Len(order) + 1
      BY <3>1, <1>2, <1>3, <1>5, <1>7
    <3>2. CASE i \in DOMAIN order
      BY <3>2, <1>1, <1>6 DEF Splits
    <3> QED
      BY <3>1, <3>2, <1>2, <1>3
  <2>4. k # 0 => k \in DOMAIN order
    BY <1>2, <1>7
  <2>5. /\ k # 0 /\ state'[order'[k]] # "ended" => awaited' = order'[k] \/ pc' = "failed"
        /\ awaited' \in SS!Fn => k # 0 /\ awaited' = order'[k]
    BY <2>4, <1>1, <1>3, <1>6 DEF Splits
  <2> QED
    BY <2>1, <2>2, <2>3, <2>5 DEF Splits
<1>9. \A i, j \in DOMAIN order' : order'[i] = order'[j] => i = j
  BY <1>2, <1>3, <1>4 DEF Ordered
<1>10. \A i \in DOMAIN order' : state'[order'[i]] # "new"
  BY <1>2, <1>3, <1>5, <1>6 DEF Ordered
<1>11. ASSUME NEW g \in SS!Fn, state'[g] = "queued"
       PROVE  \E i \in DOMAIN order' : order'[i] = g
  <2>1. CASE g = f
    BY <2>1, <1>2, <1>3
  <2>2. CASE g # f
    <3>1. PICK i \in DOMAIN order : order[i] = g
      BY <2>2, <1>5, <1>11 DEF Ordered
    <3> QED
      BY <3>1, <1>2, <1>3
  <2> QED
    BY <2>1, <2>2
<1> QED
  BY <1>8, <1>9, <1>10, <1>11 DEF Ordered

\* The state of a function changes, but whether it is waiting.
LEMMA StateOrdered ==
  ASSUME MaxFn \in Nat, StartTypes, Ordered, pc # "failed" \/ pc' = "failed",
         Waiting' = Waiting, order' = order, NEW f \in Function,
         \A g \in Function : g # f => state'[g] = state[g],
         state[f] \notin {"queued", "ended"}, state'[f] \notin {"queued", "new"},
         \/ awaited' = awaited
         \/ f \notin SS!Fn /\ awaited = SS!Nothing /\ awaited' = f
  PROVE  Ordered'
<1> USE FnFacts
<1>1. PICK k \in Nat : Splits(k)
  BY DEF Ordered
<1>2. \A i \in DOMAIN order : order[i] \in SS!Fn /\ order[i] \in Function
  BY ElementOfSeq, LenProperties DEF StartTypes
<1>3. \A i \in DOMAIN order : /\ state'[order[i]] = "queued" <=> state[order[i]] = "queued"
                              /\ state[order[i]] = "ended" => state'[order[i]] = "ended"
                              /\ state'[order[i]] # "new"
  BY <1>2 DEF Ordered
<1>4. k # 0 => k \in DOMAIN order
  BY <1>1, LenProperties DEF Splits, Waiting, StartTypes
<1>5. /\ k # 0 /\ state'[order[k]] # "ended" => awaited' = order[k] \/ pc' = "failed"
      /\ awaited' \in SS!Fn => k # 0 /\ awaited' = order[k]
  BY <1>1, <1>2, <1>3, <1>4 DEF Splits
<1>6. Splits(k)'
  BY <1>1, <1>3, <1>5 DEF Splits
<1>7. \A g \in SS!Fn : state'[g] = "queued" => state[g] = "queued"
  OBVIOUS
<1> QED
  BY <1>3, <1>6, <1>7 DEF Ordered

\* The loop of init_all takes a function, or is over; what it awaited has ended.
LEMMA LoopOrdered ==
  ASSUME MaxFn \in Nat, StartTypes, Ordered, pc # "failed", SS!LoopOver(Waiting),
         awaited \in Function => state[awaited] = "ended",
         ~ defined', order' = order
  PROVE  Ordered'
<1> USE FnFacts
<1>1. PICK k \in Nat : Splits(k)
  BY DEF Ordered
<1>2. /\ Waiting \in Seq(SS!Fn) /\ Waiting' = funcs' /\ funcs' \in Seq(SS!Fn)
      /\ awaited' \in SS!Fn \cup {SS!Nothing}
  BY LoopFacts DEF Waiting, StartTypes
<1>3. \A i \in DOMAIN order : order[i] \in SS!Fn /\ order[i] \in Function
  BY ElementOfSeq, LenProperties DEF StartTypes
<1>4. /\ Len(order) \in Nat /\ Len(Waiting) \in Nat /\ DOMAIN order = 1 .. Len(order)
      /\ DOMAIN Waiting = 1 .. Len(Waiting) /\ Len(order) = k + Len(Waiting)
      /\ Len(funcs') \in Nat /\ DOMAIN funcs' = 1 .. Len(funcs')
  BY <1>1, <1>2, LenProperties DEF Splits, StartTypes
<1>5. k # 0 => k \in DOMAIN order /\ state[order[k]] = "ended"
  <2>1. k # 0 => k \in DOMAIN order
    BY <1>4
  <2> QED
    BY <2>1, <1>1, <1>3 DEF Splits
<1>6. CASE Waiting = << >>
  <2>1. awaited' = SS!Nothing /\ funcs' = << >> /\ state' = state
    BY <1>2, <1>6, LoopFacts
  <2>2. Splits(k)'
    BY <1>1, <1>2, <1>5, <1>6, <2>1 DEF Splits
  <2> QED
    BY <2>1, <2>2 DEF Ordered
<1>7. CASE Waiting # << >>
  <2> DEFINE f == Waiting[1]
  <2>1. /\ f \in SS!Fn /\ awaited' = f /\ Len(Waiting) = Len(funcs') + 1
        /\ \A i \in DOMAIN funcs' : i + 1 \in DOMAIN Waiting /\ funcs'[i] = Waiting[i + 1]
        /\ state'[f] = "runs"
        /\ \A g \in Function : g # f => state'[g] = state[g]
    BY <1>2, <1>7, LoopFacts
  <2>2. 1 \in DOMAIN Waiting /\ k + 1 \in DOMAIN order /\ f = order[k + 1]
    <3>1. 1 \in DOMAIN Waiting /\ k + 1 \in DOMAIN order
      BY <1>4, <2>1
    <3> QED
      BY <3>1, <1>1 DEF Splits
  <2> HIDE DEF f
  <2>3. \A i \in DOMAIN order : order[i] = f <=> i = k + 1
    BY <2>2 DEF Ordered
  <2>4. \A i \in DOMAIN order : i # k + 1 => state'[order[i]] = state[order[i]]
    BY <1>3, <2>1, <2>3
  <2>5. Len(order) = (k + 1) + Len(funcs')
    BY <1>4, <2>1
  <2>6. ASSUME NEW i \in DOMAIN funcs'
        PROVE  funcs'[i] = order[(k + 1) + i]
    <3>1. i + 1 \in DOMAIN Waiting /\ funcs'[i] = Waiting[i + 1]
      BY <2>1
    <3>2. Waiting[i + 1] = order[k + (i + 1)]
      BY <3>1, <1>1 DEF Splits
    <3>3. k + (i + 1) = (k + 1) + i
      BY <1>4
    <3> QED
      BY <3>1, <3>2, <3>3
  <2>7. ASSUME NEW i \in DOMAIN order
        PROVE  /\ state'[order[i]] = "queued" <=> k + 1 < i
               /\ i < k + 1 => state'[order[i]] = "ended"
               /\ state'[order[i]] # "new"
    <3>1. CASE i = k + 1
      BY <3>1, <2>1, <2>2
    <3>2. CASE i # k + 1
      <4>1. state'[order[i]] = state[order[i]]
        BY <3>2, <2>4
      <4>2. /\ state[order[i]] = "queued" <=> k < i
            /\ i < k => state[order[i]] = "ended"
            /\ state[order[i]] # "new"
        BY <1>1 DEF Splits, Ordered
      <4>3. k < i <=> k + 1 < i
        BY <3>2, <1>4
      <4>4. i < k + 1 => i < k \/ (i = k /\ k # 0)
        BY <1>4
      <4> QED
        BY <4>1, <4>2, <4>3, <4>4, <1>5
    <3> QED
      BY <3>1, <3>2
  <2>8. awaited' = order[k + 1] /\ k + 1 # 0 /\ k + 1 \in Nat
    BY <2>1, <2>2
  <2>9. Splits(k + 1)'
    BY <1>2, <2>5, <2>6, <2>7, <2>8 DEF Splits
  <2>10. ASSUME NEW g \in SS!Fn, state'[g] = "queued"
         PROVE  \E i \in DOMAIN order : order[i] = g
    BY <2>1, <2>10 DEF Ordered
  <2> QED
    BY <2>7, <2>8, <2>9, <2>10 DEF Ordered
<1> QED
  BY <1>6, <1>7

LEMMA OrderedStep ==
  ASSUME MaxFn \in Nat, StartTypes, Places, Ordered, [SS!Next]_SS!startVars
  PROVE  Ordered'
<1> USE FnFacts
<1>1. CASE SS!CallStart \/ SS!Loaded \/ SS!LoadFails \/ SS!Retire \/ SS!Exit
           \/ SS!Launched \/ UNCHANGED SS!startVars
  BY <1>1, StayOrdered DEF SS!CallStart, SS!Loaded, SS!LoadFails, SS!Retire, SS!Exit,
                           SS!Launched, SS!startVars
<1>2. ASSUME NEW f \in SS!Fn, SS!InitFn(f)
      PROVE  Ordered'
  <2>1. UNCHANGED <<defined, funcs, awaited, pc>> /\ state[f] = "new"
    BY <1>2 DEF SS!InitFn
  <2>2. CASE defined
    BY <1>2, <2>1, <2>2, PushOrdered DEF SS!InitFn
  <2>3. CASE ~ defined
    <3>1. order' = order /\ Waiting' = Waiting /\ state' = [state EXCEPT ![f] = "runs"]
      BY <1>2, <2>1, <2>3 DEF SS!InitFn, Waiting
    <3>2. state'[f] = "runs" /\ \A g \in Function : g # f => state'[g] = state[g]
      BY <3>1 DEF StartTypes
    <3> QED
      BY <2>1, <3>1, <3>2, StateOrdered
  <2> QED
    BY <2>2, <2>3
<1>3. CASE SS!DispatchTimer
  <2>1. /\ SS!LoopOver(init_func) /\ defined' = FALSE /\ order' = order /\ pc = "timer"
    BY <1>3 DEF SS!DispatchTimer, SS!InitAll
  <2>2. Waiting = init_func /\ awaited = SS!Nothing
    BY <2>1 DEF Places, Waiting
  <2> QED
    BY <2>1, <2>2, LoopOrdered
<1>4. CASE SS!LoopGoesOn
  <2>1. /\ SS!LoopOver(funcs) /\ defined' = defined /\ order' = order /\ pc \in {"first", "second"}
        /\ state[awaited] = "ended"
    BY <1>4 DEF SS!LoopGoesOn
  <2>2. Waiting = funcs /\ ~ defined
    BY <2>1 DEF Places, Waiting
  <2> QED
    BY <2>1, <2>2, LoopOrdered
<1>5. CASE SS!StartFunc
  <2>1. /\ pc = "first" /\ awaited = SS!Nothing /\ awaited' = SS!Start /\ order' = order
        /\ defined' = TRUE /\ init_func' = << >> /\ state' = [state EXCEPT ![SS!Start] = "runs"]
    BY <1>5 DEF SS!StartFunc
  <2>2. Waiting = << >> /\ Waiting' = << >> /\ state[SS!Start] = "new"
    BY <2>1 DEF Places, Waiting
  <2>3. state'[SS!Start] = "runs" /\ \A g \in Function : g # SS!Start => state'[g] = state[g]
    BY <2>1 DEF StartTypes
  <2> QED
    BY <2>1, <2>2, <2>3, StateOrdered
<1>6. CASE SS!Started
  <2>1. /\ SS!LoopOver(init_func) /\ defined' = FALSE /\ order' = order
        /\ pc = "start" /\ state[SS!Start] = "ended"
    BY <1>6 DEF SS!Started, SS!InitAll
  <2>2. Waiting = init_func /\ awaited = SS!Start
    BY <2>1 DEF Places, Waiting
  <2> QED
    BY <2>1, <2>2, LoopOrdered
<1>7. CASE SS!InitFails
  BY <1>7, StayOrdered DEF SS!InitFails
<1>8. ASSUME NEW f \in Function, SS!Ends(f)
      PROVE  Ordered'
  <2>1. /\ state[f] = "runs" /\ state'[f] \in {"ended", "threw"}
        /\ \A g \in Function : g # f => state'[g] = state[g]
    BY <1>8 DEF StartTypes, SS!Ends
  <2>2. UNCHANGED <<pc, defined, init_func, funcs, awaited, order>>
    BY <1>8 DEF SS!Ends
  <2>3. Waiting' = Waiting
    BY <2>2 DEF Waiting
  <2> QED
    BY <2>1, <2>2, <2>3, StateOrdered
<1> QED
  BY <1>1, <1>2, <1>3, <1>4, <1>5, <1>6, <1>7, <1>8
     DEF SS!Next, SS!Continues, Function

LEMMA TellingStep ==
  ASSUME MaxFn \in Nat, StartTypes, Places, Telling, [SS!Next]_SS!startVars
  PROVE  Telling'
<1> USE FnFacts
<1>0. Len(told) \in Nat /\ DOMAIN told = 1 .. Len(told)
  BY LenProperties DEF StartTypes
<1>1. CASE told' = told /\ (pc \in {"launched", "failed"} => pc' = pc)
  BY <1>1 DEF Telling
<1>2. ASSUME NEW m \in {"LAUNCHOK", "REMOVE"}, told' = Append(told, m),
             m = "REMOVE" => pc' = pc,
             m = "LAUNCHOK" => pc = "second" /\ pc' = "launched"
      PROVE  Telling'
  <2>1. /\ Len(told') = Len(told) + 1 /\ DOMAIN told' = 1 .. Len(told) + 1
        /\ \A i \in DOMAIN told : told'[i] = told[i]
        /\ told'[Len(told) + 1] = m
    BY <1>0, <1>2, AppendProperties DEF StartTypes
  <2>2. \A i \in DOMAIN told' : i # Len(told) + 1 => i \in DOMAIN told
    BY <1>0, <2>1
  <2>3. m = "LAUNCHOK" => \A i \in DOMAIN told : told[i] = "REMOVE"
    BY <1>0, <1>2, ElementOfSeq DEF Telling, StartTypes
  <2>4. \A i, j \in DOMAIN told' : told'[i] # "REMOVE" /\ told'[j] # "REMOVE" => i = j
    BY <1>2, <2>1, <2>2, <2>3 DEF Telling
  <2>5. ASSUME NEW i \in DOMAIN told'
        PROVE  /\ told'[i] = "LAUNCHOK" => pc' = "launched"
               /\ told'[i] = "ERROR" => pc' = "failed" /\ i < Len(told') /\ told'[i + 1] = "REMOVE"
    <3>1. CASE i = Len(told) + 1
      BY <3>1, <1>2, <2>1
    <3>2. CASE i \in DOMAIN told
      <4>1. told[i] = "LAUNCHOK" => pc' = "launched"
        BY <3>2, <1>2 DEF Telling
      <4>2. told[i] = "ERROR" => /\ pc' = "failed" /\ i < Len(told) /\ i + 1 \in DOMAIN told
                                 /\ told[i + 1] = "REMOVE"
        BY <3>2, <1>0, <1>2 DEF Telling
      <4>3. i < Len(told) => i < Len(told')
        BY <3>2, <1>0, <2>1
      <4> QED
        BY <3>2, <4>1, <4>2, <4>3, <2>1
    <3> QED
      BY <3>1, <3>2, <2>2
  <2> QED
    BY <2>4, <2>5 DEF Telling
<1>3. CASE SS!InitFails
  <2>1. told' = told \o <<"ERROR", "REMOVE">> /\ pc' = "failed" /\ pc \notin {"launched", "failed"}
    BY <1>3 DEF SS!InitFails, Places
  <2>2. <<"ERROR", "REMOVE">> \in Seq({"LAUNCHOK", "ERROR", "REMOVE"})
        /\ Len(<<"ERROR", "REMOVE">>) = 2
    OBVIOUS
  <2>3. Len(told') = Len(told) + 2 /\ DOMAIN told' = 1 .. Len(told) + 2
    BY <1>0, <2>1, <2>2, ConcatProperties, LenProperties DEF StartTypes
  <2>4. /\ \A i \in DOMAIN told : told'[i] = told[i]
        /\ told'[Len(told) + 1] = "ERROR" /\ told'[Len(told) + 2] = "REMOVE"
    BY <1>0, <2>1, <2>2 DEF StartTypes
  <2>5. \A i \in DOMAIN told : told[i] = "REMOVE"
    BY <1>0, <2>1, ElementOfSeq DEF Telling, StartTypes
  <2>6. \A i \in DOMAIN told' : /\ i # Len(told) + 1 => told'[i] = "REMOVE"
                                /\ i = Len(told) + 1 => i < Len(told') /\ told'[i + 1] = "REMOVE"
    <3>1. \A i \in DOMAIN told' : i \in DOMAIN told \/ i = Len(told) + 1 \/ i = Len(told) + 2
      BY <1>0, <2>3
    <3>2. Len(told) + 1 < Len(told') /\ (Len(told) + 1) + 1 = Len(told) + 2
      BY <1>0, <2>3
    <3> QED
      BY <3>1, <3>2, <2>4, <2>5
  <2> QED
    BY <2>1, <2>4, <2>6 DEF Telling
<1>4. CASE SS!Launched
  BY <1>4, <1>2 DEF SS!Launched
<1>5. CASE SS!Exit
  BY <1>5, <1>2 DEF SS!Exit
<1>6. CASE SS!CallStart \/ SS!Loaded \/ SS!LoadFails \/ SS!Retire \/ SS!DispatchTimer
           \/ SS!LoopGoesOn \/ SS!StartFunc \/ SS!Started \/ UNCHANGED SS!startVars
  BY <1>1, <1>6 DEF SS!CallStart, SS!Loaded, SS!LoadFails, SS!Retire, SS!DispatchTimer,
     SS!LoopGoesOn, SS!StartFunc, SS!Started, SS!startVars
<1>7. CASE (\E f \in SS!Fn : SS!InitFn(f)) \/ (\E f \in Function : SS!Ends(f))
  BY <1>1, <1>7 DEF SS!InitFn, SS!Ends
<1> QED
  BY <1>3, <1>4, <1>5, <1>6, <1>7 DEF SS!Next, SS!Continues, Function

LEMMA ThrewStep ==
  ASSUME MaxFn \in Nat, StartTypes, StartTypes', Places, Ordered, Threw, [SS!Next]_SS!startVars
  PROVE  Threw'
<1> USE FnFacts
<1>0. \A i \in DOMAIN order : order[i] \in Function
  BY ElementOfSeq, LenProperties DEF StartTypes
<1>1. CASE SS!InitFails
  <2>1. /\ awaited \in Function /\ state[awaited] = "threw" /\ UNCHANGED <<order, state>>
        /\ pc # "failed"
    BY <1>1 DEF SS!InitFails, StartTypes, Places
  <2>2. PICK k \in Nat : Splits(k)
    BY DEF Ordered
  <2>3. awaited \in SS!Fn => k \in DOMAIN order /\ awaited = order[k]
    BY <2>2, LenProperties DEF Splits, Waiting, StartTypes
  <2> QED
    BY <2>1, <2>3 DEF Threw, Function
<1>2. CASE ~ SS!InitFails
  <2> SUFFICES ASSUME pc' = "failed"
               PROVE  \/ state'[SS!Start] = "threw"
                      \/ \E i \in DOMAIN order' : state'[order'[i]] = "threw"
    BY DEF Threw
  <2>1. pc = "failed"
    BY <1>2 DEF SS!Next, SS!Continues, SS!startVars, SS!CallStart, SS!Loaded, SS!LoadFails,
       SS!Exit, SS!Retire, SS!DispatchTimer, SS!LoopGoesOn, SS!StartFunc, SS!Started,
       SS!Launched, SS!InitFn, SS!Ends
  <2> DEFINE Kept == /\ \A f \in Function : state[f] = "threw" => state'[f] = "threw"
                     /\ \A i \in DOMAIN order : i \in DOMAIN order' /\ order'[i] = order[i]
  <2>2. Kept
    <3>1. ASSUME NEW f \in SS!Fn, SS!InitFn(f)
          PROVE  Kept
      <4>1. order' = order \/ order' = Append(order, f)
        BY <3>1 DEF SS!InitFn
      <4>2. \A i \in DOMAIN order : i \in DOMAIN order' /\ order'[i] = order[i]
        <5>1. CASE order' = Append(order, f)
          <6>1. /\ Len(order') = Len(order) + 1 /\ DOMAIN order' = 1 .. Len(order')
                /\ DOMAIN order = 1 .. Len(order) /\ Len(order) \in Nat
                /\ \A i \in 1 .. Len(order) : order'[i] = order[i]
            BY <5>1, AppendProperties, LenProperties DEF StartTypes
          <6> QED
            BY <6>1
        <5> QED
          BY <4>1, <5>1
      <4>3. \A g \in Function : state[g] = "threw" => state'[g] = "threw"
        BY <3>1 DEF SS!InitFn, StartTypes
      <4> QED
        BY <4>2, <4>3
    <3>2. ASSUME NEW f \in Function, SS!Ends(f)
          PROVE  Kept
      BY <3>2 DEF SS!Ends, StartTypes
    <3>3. CASE UNCHANGED <<order, state>>
      BY <3>3
    <3> QED
      BY <1>2, <2>1, <3>1, <3>2, <3>3
         DEF SS!Next, SS!Continues, SS!startVars, SS!CallStart, SS!Loaded, SS!LoadFails,
             SS!Exit, SS!Retire, SS!DispatchTimer, SS!LoopGoesOn, SS!StartFunc, SS!Started,
             SS!Launched, Function
  <2> QED
    BY <2>1, <2>2, <1>0, FnFacts DEF Threw
<1> QED
  BY <1>1, <1>2

\* The invariant says what is promised.
LEMMA StartInvSafe ==
  ASSUME MaxFn \in Nat, StartInv
  PROVE  SS!StartSafe
<1> USE FnFacts DEF StartInv
<1>0. /\ \A i \in DOMAIN order : order[i] \in SS!Fn /\ order[i] \in Function
      /\ Len(order) \in Nat /\ DOMAIN order = 1 .. Len(order)
  BY ElementOfSeq, LenProperties DEF StartTypes
<1>1. PICK k \in Nat : Splits(k)
  BY DEF Ordered
<1>2. SS!OneByOne
  <2> SUFFICES ASSUME NEW i \in DOMAIN order, NEW j \in DOMAIN order, i < j,
                      state[order[j]] # "queued"
               PROVE  state[order[i]] = "ended"
    BY DEF SS!OneByOne
  <2>1. ~ (k < j)
    BY <1>1 DEF Splits
  <2>2. i < k
    BY <1>0, <2>1
  <2> QED
    BY <1>1, <2>2 DEF Splits
<1>3. SS!NoneForgotten
  <2> DEFINE w == init_func \o funcs
  <2>1. w = Waiting /\ Waiting \in Seq(SS!Fn)
    BY ConcatEmptySeq DEF Waiting, Places, StartTypes
  <2> HIDE DEF w
  <2>2. Len(Waiting) \in Nat /\ DOMAIN Waiting = 1 .. Len(Waiting) /\ Len(order) = k + Len(Waiting)
    BY <1>1, <2>1, LenProperties DEF Splits
  <2>3. \A i \in DOMAIN Waiting : k + i \in DOMAIN order /\ k < k + i /\ Waiting[i] = order[k + i]
    BY <1>0, <1>1, <2>2 DEF Splits
  <2>4. ASSUME NEW f \in SS!Fn, state[f] = "queued"
        PROVE  \E i \in DOMAIN Waiting : \A j \in DOMAIN Waiting : Waiting[j] = f <=> j = i
    <3>1. PICK n \in DOMAIN order : order[n] = f
      BY <2>4 DEF Ordered
    <3>2. k < n
      BY <1>1, <2>4, <3>1 DEF Splits
    <3>3. PICK i \in DOMAIN Waiting : n = k + i
      <4>1. n - k \in DOMAIN Waiting /\ n = k + (n - k)
        BY <1>0, <2>2, <3>2
      <4> QED
        BY <4>1
    <3>4. ASSUME NEW j \in DOMAIN Waiting, Waiting[j] = f
          PROVE  j = i
      <4>1. k + j = k + i
        BY <2>3, <3>1, <3>3, <3>4 DEF Ordered
      <4> QED
        BY <4>1, <2>2
    <3> QED
      BY <2>3, <3>1, <3>3, <3>4
  <2>5. ASSUME NEW f \in SS!Fn, NEW i \in DOMAIN Waiting, Waiting[i] = f
        PROVE  state[f] = "queued"
    BY <1>1, <2>3, <2>5 DEF Splits
  <2>6. \A f \in SS!Fn : state[f] = "queued" <=>
          \E i \in DOMAIN Waiting : \A j \in DOMAIN Waiting : Waiting[j] = f <=> j = i
    BY <2>4, <2>5
  <2> QED
    BY <2>1, <2>6 DEF SS!NoneForgotten, w
<1>4. ASSUME pc = "launched"
      PROVE  \A f \in {SS!Start} \cup {order[j] : j \in DOMAIN order} : state[f] = "ended"
  <2>1. state[SS!Start] = "ended" /\ awaited = SS!Nothing /\ Waiting = << >>
    BY <1>4 DEF Places, Waiting
  <2>2. Len(order) = k
    BY <1>1, <2>1, EmptySeq DEF Splits
  <2>3. \A j \in DOMAIN order : state[order[j]] = "ended"
    <3>1. k # 0 => state[order[k]] = "ended"
      <4>1. k # 0 => order[k] \in Function
        BY <1>0, <2>2
      <4> QED
        BY <4>1, <1>1, <1>4, <2>1 DEF Splits
    <3>2. \A j \in DOMAIN order : j < k \/ (j = k /\ k # 0)
      BY <1>0, <2>2
    <3> QED
      BY <3>1, <3>2, <1>1 DEF Splits
  <2> QED
    BY <2>1, <2>3
<1>5. SS!ToldTruly
  BY <1>4 DEF SS!ToldTruly, Telling, Threw
<1> QED
  BY <1>2, <1>3, <1>5 DEF SS!StartSafe

\* The functions given to init() run one by one, each once and before the service
\* is launched, also those that init() is given meanwhile (init_all); .launcher is
\* told once, and the truth.
THEOREM StartCorrect ==
  ASSUME MaxFn \in Nat
  PROVE  SS!Spec => []StartSafe
<1>1. SS!Init => StartInv
  <2> SUFFICES ASSUME SS!Init PROVE StartInv
    OBVIOUS
  <2> USE FnFacts, EmptySeq DEF SS!Init
  <2>1. StartTypes
    BY DEF StartTypes, Function
  <2>2. Places /\ Telling /\ Threw
    BY DEF Places, Telling, Threw, Function
  <2>3. Splits(0)
    BY DEF Splits, Waiting
  <2>4. Ordered
    BY <2>3 DEF Ordered, Function
  <2> QED
    BY <2>1, <2>2, <2>4 DEF StartInv
<1>2. StartInv /\ [SS!Next]_SS!startVars => StartInv'
  BY TypesStep, PlacesStep, OrderedStep, TellingStep, ThrewStep DEF StartInv
<1>3. StartInv => StartSafe
  BY StartInvSafe DEF StartSafe
<1> QED
  BY <1>1, <1>2, <1>3, PTL DEF SS!Spec
-----------------------------------------------------------------------------
(* ChannelConnect.                                                         *)

Calling == [at : {"idle", "waits", "connects", "looks", "done"}, once : BOOLEAN,
            told : {"none", "early", "connected", "unauthenticated", "closed", "error"}]

ConnectTypes ==
  /\ host \in CC!Addr /\ backup \in CC!Backups
  /\ task \in [CC!Task -> Calling]
  /\ at \in {"idle", "opening", "draining", "auth", "threw", "over"}
  /\ at \in {"opening", "draining"} => addr \in CC!Addr
  /\ addr_list \in Seq(CC!Addr)
  /\ past \in [tried : Seq(CC!Addr), moved : BOOLEAN]

\* Who looks again does so before the next connection is taken into use, and a
\* connection that is there by then is authenticated.
LooksAreSafe ==
  /\ at \in {"draining", "auth"} => \A t \in CC!Task : task[t].at # "looks"
  /\ at \in {"idle", "over"} /\ socket = "up" => auth = "done"

\* The address that is connected to next is the host, as is the peer.
HostIsNext == at = "draining" /\ ~ past.moved => host = addr

\* What was tried after the host, what is being tried, and what is still to be
\* tried: these are the backups that connect_once has listed, each once.
TriedBackup(a) == \E i \in DOMAIN past.tried : i # 1 /\ past.tried[i] = a
Trying(a) == at = "opening" /\ past.tried # << >> /\ addr = a
ToTry(a) == \E i \in DOMAIN addr_list : addr_list[i] = a

NoneTwice ==
  /\ \A i, j \in DOMAIN past.tried : i # 1 /\ j # 1 /\ past.tried[i] = past.tried[j] => i = j
  /\ at \in {"opening", "draining", "auth", "threw"} =>
       /\ \A i, j \in DOMAIN addr_list : addr_list[i] = addr_list[j] => i = j
       /\ \A a \in CC!Addr : /\ ~ (TriedBackup(a) /\ ToTry(a))
                             /\ Trying(a) => ~ TriedBackup(a) /\ ~ ToTry(a)
       /\ addr_set = {a \in CC!Addr : TriedBackup(a) \/ Trying(a) \/ ToTry(a)}
  /\ at \in {"draining", "auth", "threw"} => past.tried # << >>
  /\ at = "threw" => addr_list = << >>

ConnectInv ==
  /\ ConnectTypes
  /\ CC!AuthComesFirst /\ LooksAreSafe
  /\ CC!HostIsPeer /\ HostIsNext /\ CC!NothingAttached
  /\ NoneTwice

\* A list of backup addresses has none twice, and so have those it adds.
LEMMA BackupsFacts ==
  ASSUME NEW b \in CC!Backups
  PROVE  b \in Seq(CC!Addr) /\ \A i, j \in DOMAIN b : b[i] = b[j] => i = j
<1>1. PICK m \in 0 .. MaxBackup : b \in [1 .. m -> CC!Addr]
  BY DEF CC!Backups, CC!SeqOf
<1>2. b \in Seq(CC!Addr)
  BY <1>1
<1> QED
  BY <1>2 DEF CC!Backups, CC!IsInjective

\* What block_connect changes of its caller, and what it is told.
LEMMA ToldFacts ==
  ASSUME task \in [CC!Task -> Calling], NEW t \in CC!Task, NEW x, CC!Told(t, x),
         x \in {"none", "early", "connected", "unauthenticated", "closed", "error"}
  PROVE  /\ task' \in [CC!Task -> Calling]
         /\ task'[t].at = "done" /\ task'[t].told = x
         /\ \A u \in CC!Task : u # t => task'[u] = task[u]
<1> DEFINE r == [task[t] EXCEPT !.at = "done", !.told = x]
<1>1. task' = [task EXCEPT ![t] = r]
  BY DEF CC!Told
<1>2. r \in Calling /\ r.at = "done" /\ r.told = x
  BY DEF Calling
<1> HIDE DEF r
<1> QED
  BY <1>1, <1>2

LEMMA JoinsFacts ==
  ASSUME task \in [CC!Task -> Calling], NEW t \in CC!Task, CC!Joins(t)
  PROVE  /\ task' \in [CC!Task -> Calling]
         /\ task'[t].at \in {"waits", "connects"} /\ task'[t].told = task[t].told
         /\ \A u \in CC!Task : u # t => task'[u] = task[u]
<1>1. CASE task' = [task EXCEPT ![t].at = "waits"]
  <2> DEFINE r == [task[t] EXCEPT !.at = "waits"]
  <2>1. r \in Calling /\ r.at = "waits" /\ r.told = task[t].told
    BY DEF Calling
  <2>2. task' = [task EXCEPT ![t] = r]
    BY <1>1
  <2> HIDE DEF r
  <2> QED
    BY <2>1, <2>2
<1>2. ASSUME NEW once \in BOOLEAN, task' = [task EXCEPT ![t].at = "connects", ![t].once = once]
      PROVE  /\ task' \in [CC!Task -> Calling]
             /\ task'[t].at \in {"waits", "connects"} /\ task'[t].told = task[t].told
             /\ \A u \in CC!Task : u # t => task'[u] = task[u]
  <2> DEFINE r == [task[t] EXCEPT !.at = "connects", !.once = once]
  <2>1. r \in Calling /\ r.at = "connects" /\ r.told = task[t].told
    BY DEF Calling
  <2>2. task' = [task EXCEPT ![t] = r]
    BY <1>2
  <2> HIDE DEF r
  <2> QED
    BY <2>1, <2>2
<1> QED
  BY <1>1, <1>2 DEF CC!Joins

\* Over moves those that wait, and they look next.
LEMMA OverFacts ==
  ASSUME task \in [CC!Task -> Calling], CC!Over
  PROVE  /\ task' \in [CC!Task -> Calling]
         /\ \A u \in CC!Task : task'[u].told = task[u].told
<1>1. ASSUME NEW u \in CC!Task
      PROVE  /\ [task[u] EXCEPT !.at = "looks", !.once = FALSE] \in Calling
             /\ [task[u] EXCEPT !.at = "looks", !.once = FALSE].told = task[u].told
  BY DEF Calling
<1>2. task' = [u \in CC!Task |-> IF task[u].at \in {"waits", "connects"}
                               THEN [task[u] EXCEPT !.at = "looks", !.once = FALSE] ELSE task[u]]
  BY DEF CC!Over
<1> QED
  BY <1>1, <1>2

LEMMA NextAddrTypes ==
  ASSUME ConnectTypes, NEW q \in Seq(CC!Addr), CC!NextAddr(q)
  PROVE  /\ at' \in {"opening", "threw"} /\ addr_list' \in Seq(CC!Addr)
         /\ at' = "opening" => addr' \in CC!Addr
<1>1. CASE q = << >>
  BY <1>1 DEF CC!NextAddr
<1>2. CASE q # << >>
  BY <1>2, HeadTailProperties DEF CC!NextAddr
<1> QED
  BY <1>1, <1>2

LEMMA ConnectOnceTypes ==
  ASSUME ConnectTypes, NEW c, CC!ConnectOnce(c)
  PROVE  /\ at' \in {"opening", "over"} /\ addr_list' \in Seq(CC!Addr)
         /\ at' = "opening" => addr' \in CC!Addr
         /\ past' \in [tried : Seq(CC!Addr), moved : BOOLEAN]
<1>1. backup \in Seq(CC!Addr)
  BY BackupsFacts DEF ConnectTypes
<1>2. past' \in [tried : Seq(CC!Addr), moved : BOOLEAN]
  BY EmptySeq DEF CC!ConnectOnce
<1> QED
  BY <1>1, <1>2 DEF CC!ConnectOnce, ConnectTypes

LEMMA ConnectTypesStep ==
  ASSUME ConnectTypes, [CC!Next]_CC!connectVars
  PROVE  ConnectTypes'
<1> USE DEF ConnectTypes, CC!hostVars, CC!wayVars
<1>1. ASSUME NEW t \in CC!Task, CC!Enter(t) \/ CC!Looks(t)
      PROVE  ConnectTypes'
  <2>1. PICK x \in {"early", "connected", "unauthenticated", "closed", "error"} : CC!Told(t, x)
    BY <1>1 DEF CC!Enter, CC!Looks
  <2>2. task' \in [CC!Task -> Calling]
    BY <2>1, ToldFacts
  <2> QED
    BY <1>1, <2>2 DEF CC!Enter, CC!Looks
<1>2. ASSUME NEW t \in CC!Task, CC!Joins(t)
      PROVE  ConnectTypes'
  <2>1. /\ UNCHANGED <<host, backup>>
        /\ task' \in [CC!Task -> Calling]
        /\ CC!ConnectOnce(closed') \/ UNCHANGED CC!wayVars
    BY <1>2, JoinsFacts DEF CC!Joins
  <2> QED
    BY <2>1, ConnectOnceTypes
<1>3. CASE CC!Over
  BY <1>3, OverFacts DEF CC!Over
<1>4. CASE CC!Retries \/ CC!AuthReturned
  <2>1. UNCHANGED <<host, backup, task>>
    BY <1>4 DEF CC!Retries, CC!AuthReturned
  <2>2. CASE CC!ConnectOnce(closed)
    BY <2>1, <2>2, ConnectOnceTypes
  <2>3. CASE at' = "over" /\ UNCHANGED <<addr, addr_list, past>>
    BY <2>1, <2>3
  <2> QED
    BY <1>4, <2>2, <2>3 DEF CC!Retries, CC!AuthReturned
<1>5. CASE CC!GivesUp \/ CC!Attach
  BY <1>5 DEF CC!GivesUp, CC!Attach
<1>6. CASE CC!OpenFails
  <2>1. /\ CC!NextAddr(addr_list) /\ UNCHANGED <<host, backup, task>>
        /\ past' = [past EXCEPT !.tried = Append(@, addr)] /\ addr \in CC!Addr
    BY <1>6 DEF CC!OpenFails
  <2>2. past' \in [tried : Seq(CC!Addr), moved : BOOLEAN]
    BY <2>1, AppendProperties
  <2> QED
    BY <2>1, <2>2, NextAddrTypes
<1>7. CASE CC!Opened
  <2>1. Append(past.tried, addr) \in Seq(CC!Addr)
    BY <1>7, AppendProperties DEF CC!Opened
  <2>2. past' \in [tried : Seq(CC!Addr), moved : BOOLEAN]
    BY <1>7, <2>1 DEF CC!Opened
  <2> QED
    BY <1>7, <2>2 DEF CC!Opened
<1>8. CASE CC!AuthFailed
  <2>1. PICK new \in CC!NewBackups : CC!NextAddr(addr_list \o new)
    BY <1>8 DEF CC!AuthFailed
  <2>2. addr_list \o new \in Seq(CC!Addr)
    BY <2>1, BackupsFacts, ConcatProperties DEF CC!NewBackups
  <2> QED
    BY <1>8, <2>1, <2>2, NextAddrTypes DEF CC!AuthFailed
<1>9. CASE CC!AuthAsks \/ CC!AuthJoins \/ CC!AuthAsksClosed \/ CC!AuthAnswered
           \/ CC!AuthReturns \/ CC!AuthThrows
  BY <1>9 DEF CC!AuthAsks, CC!AuthJoins, CC!AuthAsksClosed, CC!AuthAnswered,
              CC!AuthReturns, CC!AuthThrows, CC!AuthGoes
<1>10. CASE CC!DispatcherEnds \/ CC!PeerCloses \/ CC!Close \/ UNCHANGED CC!connectVars
  BY <1>10 DEF CC!DispatcherEnds, CC!PeerCloses, CC!Close, CC!connectVars
<1>11. CASE CC!ChangeHost
  <2>1. past' = [past EXCEPT !.moved = @ \/ at = "draining" \/ closed]
    BY <1>11 DEF CC!ChangeHost
  <2>2. past' \in [tried : Seq(CC!Addr), moved : BOOLEAN]
    BY <2>1
  <2> QED
    BY <1>11, <2>2 DEF CC!ChangeHost
<1>12. CASE CC!ChangeBackup
  BY <1>12 DEF CC!ChangeBackup
<1> QED
  BY <1>1, <1>2, <1>3, <1>4, <1>5, <1>6, <1>7, <1>8, <1>9, <1>10, <1>11, <1>12
     DEF CC!Next, CC!Calls, CC!Continues

-----------------------------------------------------------------------------
(* Where the connection stands, and who looks for it.                      *)

LEMMA NothingAttachedStep ==
  ASSUME CC!NothingAttached, [CC!Next]_CC!connectVars
  PROVE  CC!NothingAttached'
<1> USE DEF CC!NothingAttached, CC!hostVars, CC!wayVars, CC!CloseSocket
<1>1. ASSUME NEW t \in CC!Task, CC!Enter(t) \/ CC!Looks(t)
      PROVE  CC!NothingAttached'
  BY <1>1 DEF CC!Enter, CC!Looks
<1>2. ASSUME NEW t \in CC!Task, CC!Joins(t)
      PROVE  CC!NothingAttached'
  BY <1>2 DEF CC!Joins
<1>3. CASE CC!Over \/ CC!Retries \/ CC!GivesUp \/ CC!AuthReturned
  BY <1>3 DEF CC!Over, CC!Retries, CC!GivesUp, CC!AuthReturned, CC!ConnectOnce
<1>4. CASE CC!OpenFails \/ CC!Opened \/ CC!Attach \/ CC!AuthFailed
  BY <1>4 DEF CC!OpenFails, CC!Opened, CC!Attach, CC!AuthFailed
<1>5. CASE CC!AuthAsks \/ CC!AuthJoins \/ CC!AuthAsksClosed \/ CC!AuthAnswered
           \/ CC!AuthReturns \/ CC!AuthThrows
  BY <1>5 DEF CC!AuthAsks, CC!AuthJoins, CC!AuthAsksClosed, CC!AuthAnswered,
              CC!AuthReturns, CC!AuthThrows, CC!AuthGoes
<1>6. CASE CC!DispatcherEnds \/ CC!PeerCloses \/ CC!Close \/ CC!ChangeHost \/ CC!ChangeBackup
           \/ UNCHANGED CC!connectVars
  BY <1>6 DEF CC!DispatcherEnds, CC!PeerCloses, CC!Close, CC!ChangeHost, CC!ChangeBackup,
              CC!connectVars
<1> QED
  BY <1>1, <1>2, <1>3, <1>4, <1>5, <1>6 DEF CC!Next, CC!Calls, CC!Continues

LEMMA HostStep ==
  ASSUME ConnectTypes, CC!NothingAttached, CC!HostIsPeer, HostIsNext,
         [CC!Next]_CC!connectVars
  PROVE  CC!HostIsPeer' /\ HostIsNext'
<1> USE DEF CC!HostIsPeer, HostIsNext, CC!hostVars, CC!wayVars, CC!CloseSocket
<1>1. ASSUME NEW t \in CC!Task, CC!Enter(t) \/ CC!Looks(t)
      PROVE  CC!HostIsPeer' /\ HostIsNext'
  BY <1>1 DEF CC!Enter, CC!Looks
<1>2. ASSUME NEW t \in CC!Task, CC!Joins(t)
      PROVE  CC!HostIsPeer' /\ HostIsNext'
  BY <1>2 DEF CC!Joins, CC!ConnectOnce
<1>3. CASE CC!Over \/ CC!GivesUp
  BY <1>3 DEF CC!Over, CC!GivesUp
<1>4. CASE CC!Retries \/ CC!AuthReturned
  BY <1>4 DEF CC!Retries, CC!AuthReturned, CC!ConnectOnce, CC!NothingAttached
<1>5. CASE CC!OpenFails
  BY <1>5 DEF CC!OpenFails, CC!NextAddr, CC!NothingAttached
<1>6. CASE CC!Opened
  BY <1>6 DEF CC!Opened, CC!NothingAttached
<1>7. CASE CC!Attach
  BY <1>7 DEF CC!Attach
<1>8. CASE CC!AuthFailed
  BY <1>8 DEF CC!AuthFailed, CC!NextAddr
<1>9. CASE CC!AuthAsks \/ CC!AuthJoins \/ CC!AuthAsksClosed \/ CC!AuthAnswered
           \/ CC!AuthReturns \/ CC!AuthThrows
  BY <1>9 DEF CC!AuthAsks, CC!AuthJoins, CC!AuthAsksClosed, CC!AuthAnswered,
              CC!AuthReturns, CC!AuthThrows, CC!AuthGoes
<1>10. CASE CC!DispatcherEnds \/ CC!PeerCloses \/ CC!Close \/ CC!ChangeBackup
            \/ UNCHANGED CC!connectVars
  BY <1>10 DEF CC!DispatcherEnds, CC!PeerCloses, CC!Close, CC!ChangeBackup, CC!connectVars
<1>11. CASE CC!ChangeHost
  <2>1. past'.moved <=> past.moved \/ at = "draining" \/ closed
    BY <1>11 DEF CC!ChangeHost, ConnectTypes
  <2> QED
    BY <1>11, <2>1 DEF CC!ChangeHost
<1> QED
  BY <1>1, <1>2, <1>3, <1>4, <1>5, <1>6, <1>7, <1>8, <1>9, <1>10, <1>11
     DEF CC!Next, CC!Calls, CC!Continues

LEMMA LooksStep ==
  ASSUME ConnectTypes, CC!NothingAttached, CC!AuthComesFirst, LooksAreSafe,
         [CC!Next]_CC!connectVars
  PROVE  CC!AuthComesFirst' /\ LooksAreSafe'
<1> USE DEF CC!hostVars, CC!wayVars, CC!CloseSocket
<1>1. ASSUME UNCHANGED task
      PROVE  CC!AuthComesFirst'
  BY <1>1 DEF CC!AuthComesFirst
<1>2. ASSUME NEW t \in CC!Task, CC!Enter(t) \/ CC!Looks(t)
      PROVE  CC!AuthComesFirst' /\ LooksAreSafe'
  <2>1. task[t].at = "looks" /\ socket = "up" => auth = "done"
    BY DEF LooksAreSafe, CC!NothingAttached, ConnectTypes
  <2>2. PICK x \in {"early", "connected", "closed", "error"} : CC!Told(t, x)
    BY <1>2, <2>1 DEF CC!Enter, CC!Looks
  <2>3. /\ task'[t].at = "done" /\ task'[t].told = x
        /\ \A u \in CC!Task : u # t => task'[u] = task[u]
    BY <2>2, ToldFacts DEF ConnectTypes
  <2>4. /\ UNCHANGED <<at, auth>> /\ socket' \in {socket, "none"}
    BY <1>2 DEF CC!Enter, CC!Looks
  <2> QED
    BY <2>3, <2>4 DEF CC!AuthComesFirst, LooksAreSafe
<1>3. ASSUME NEW t \in CC!Task, CC!Joins(t)
      PROVE  CC!AuthComesFirst' /\ LooksAreSafe'
  <2>1. /\ task'[t].at \in {"waits", "connects"} /\ task'[t].told = task[t].told
        /\ \A u \in CC!Task : u # t => task'[u] = task[u]
    BY <1>3, JoinsFacts DEF ConnectTypes
  <2>2. socket' = "none" /\ at' \in {at, "opening", "over"}
    BY <1>3 DEF CC!Joins, CC!ConnectOnce
  <2> QED
    BY <2>1, <2>2 DEF CC!AuthComesFirst, LooksAreSafe
<1>4. CASE CC!Over
  <2>1. \A u \in CC!Task : task'[u].told = task[u].told
    BY <1>4, OverFacts DEF ConnectTypes
  <2> QED
    BY <1>4, <2>1 DEF CC!AuthComesFirst, LooksAreSafe, CC!Over
<1>5. CASE CC!Retries \/ CC!AuthReturned
  BY <1>1, <1>5 DEF CC!Retries, CC!AuthReturned, CC!ConnectOnce, LooksAreSafe, CC!NothingAttached
<1>6. CASE CC!GivesUp
  BY <1>1, <1>6 DEF CC!GivesUp, LooksAreSafe, CC!NothingAttached
<1>7. CASE CC!OpenFails \/ CC!AuthFailed
  BY <1>1, <1>7 DEF CC!OpenFails, CC!AuthFailed, CC!NextAddr, LooksAreSafe
<1>8. CASE CC!Opened \/ CC!Attach
  BY <1>1, <1>8 DEF CC!Opened, CC!Attach, LooksAreSafe
<1>9. CASE CC!AuthAsks \/ CC!AuthJoins \/ CC!AuthAsksClosed \/ CC!AuthAnswered
           \/ CC!AuthReturns \/ CC!AuthThrows
  BY <1>1, <1>9 DEF CC!AuthAsks, CC!AuthJoins, CC!AuthAsksClosed, CC!AuthAnswered,
              CC!AuthReturns, CC!AuthThrows, CC!AuthGoes, LooksAreSafe
<1>10. CASE CC!DispatcherEnds \/ CC!PeerCloses \/ CC!Close \/ CC!ChangeHost \/ CC!ChangeBackup
            \/ UNCHANGED CC!connectVars
  BY <1>1, <1>10 DEF CC!DispatcherEnds, CC!PeerCloses, CC!Close, CC!ChangeHost,
              CC!ChangeBackup, CC!connectVars, LooksAreSafe
<1> QED
  BY <1>2, <1>3, <1>4, <1>5, <1>6, <1>7, <1>8, <1>9, <1>10
     DEF CC!Next, CC!Calls, CC!Continues

-----------------------------------------------------------------------------
(* What has been tried and what is still to be tried.                      *)

\* _next_addr takes one of the addresses that are listed, and leaves the others.
LEMMA NextAddrFacts ==
  ASSUME ConnectTypes, NEW q \in Seq(CC!Addr), CC!NextAddr(q),
         \A i, j \in DOMAIN q : q[i] = q[j] => i = j
  PROVE  /\ \A i, j \in DOMAIN addr_list' : addr_list'[i] = addr_list'[j] => i = j
         /\ at' = "opening" => ~ ToTry(addr)'
         /\ at' = "threw" => addr_list' = << >>
         /\ \A a \in CC!Addr : (\E i \in DOMAIN q : q[i] = a)
                                 <=> ToTry(a)' \/ (at' = "opening" /\ addr' = a)
<1>1. CASE q = << >>
  BY <1>1 DEF CC!NextAddr, ToTry
<1>2. CASE q # << >>
  <2>1. at' = "opening" /\ addr' = Head(q) /\ addr_list' = Tail(q)
    BY <1>2 DEF CC!NextAddr
  <2>2. /\ Head(q) = q[1] /\ Len(Tail(q)) = Len(q) - 1
        /\ \A i \in 1 .. Len(Tail(q)) : Tail(q)[i] = q[i + 1]
    BY <1>2, HeadTailProperties
  <2>3. Tail(q) \in Seq(CC!Addr)
    BY <1>2, HeadTailProperties
  <2>4. /\ Len(q) \in Nat /\ DOMAIN q = 1 .. Len(q) /\ DOMAIN Tail(q) = 1 .. Len(Tail(q))
        /\ Len(q) # 0
    BY <1>2, <2>3, LenProperties, EmptySeq
  <2>5. \A i \in DOMAIN Tail(q) : i + 1 \in DOMAIN q /\ i + 1 # 1 /\ Tail(q)[i] = q[i + 1]
    BY <2>2, <2>4
  <2>6. \A i \in DOMAIN q : i = 1 \/ (i - 1 \in DOMAIN Tail(q) /\ Tail(q)[i - 1] = q[i])
    BY <2>2, <2>4
  <2>7. \A i, j \in DOMAIN Tail(q) : Tail(q)[i] = Tail(q)[j] => i = j
    <3> SUFFICES ASSUME NEW i \in DOMAIN Tail(q), NEW j \in DOMAIN Tail(q),
                        Tail(q)[i] = Tail(q)[j]
                 PROVE  i = j
      OBVIOUS
    <3>1. i + 1 = j + 1
      BY <2>5
    <3> QED
      BY <3>1, <2>4
  <2>8. 1 \in DOMAIN q
    BY <2>4
  <2>9. \A i \in DOMAIN Tail(q) : Tail(q)[i] # q[1]
    BY <2>5, <2>8
  <2>10. ASSUME NEW a \in CC!Addr
         PROVE  (\E i \in DOMAIN q : q[i] = a)
                  <=> (\E i \in DOMAIN Tail(q) : Tail(q)[i] = a) \/ q[1] = a
    <3>1. ASSUME NEW i \in DOMAIN q, q[i] = a
          PROVE  (\E j \in DOMAIN Tail(q) : Tail(q)[j] = a) \/ q[1] = a
      BY <2>6, <3>1
    <3>2. ASSUME NEW j \in DOMAIN Tail(q), Tail(q)[j] = a
          PROVE  \E i \in DOMAIN q : q[i] = a
      BY <2>5, <3>2
    <3> QED
      BY <2>8, <3>1, <3>2
  <2> QED
    BY <2>1, <2>2, <2>7, <2>9, <2>10 DEF ToTry
<1> QED
  BY <1>1, <1>2

\* An address that has been tried, and that is behind the host, is a backup.
LEMMA TriedFacts ==
  ASSUME ConnectTypes, addr \in CC!Addr, past'.tried = Append(past.tried, addr),
         \A i, j \in DOMAIN past.tried : i # 1 /\ j # 1 /\ past.tried[i] = past.tried[j] => i = j,
         past.tried # << >> => ~ TriedBackup(addr)
  PROVE  /\ \A i, j \in DOMAIN past'.tried :
              i # 1 /\ j # 1 /\ past'.tried[i] = past'.tried[j] => i = j
         /\ past'.tried # << >>
         /\ \A a \in CC!Addr : TriedBackup(a)' <=> TriedBackup(a) \/ (past.tried # << >> /\ a = addr)
<1> DEFINE s == past.tried
           n == Len(s) + 1
<1>1. s \in Seq(CC!Addr)
  BY DEF ConnectTypes
<1>2. Len(s) \in Nat /\ DOMAIN s = 1 .. Len(s) /\ (s = << >> <=> Len(s) = 0)
  BY <1>1, LenProperties, EmptySeq
<1>3. /\ Append(s, addr) \in Seq(CC!Addr)
      /\ Len(Append(s, addr)) = Len(s) + 1
      /\ \A i \in 1 .. Len(s) : Append(s, addr)[i] = s[i]
      /\ Append(s, addr)[Len(s) + 1] = addr
  BY <1>1, AppendProperties
<1>4. DOMAIN Append(s, addr) = 1 .. Len(s) + 1
  BY <1>3, LenProperties
<1> DEFINE u == past'.tried
<1>5. /\ DOMAIN u = DOMAIN s \cup {n} /\ n \notin DOMAIN s
      /\ (n = 1 <=> s = << >>)
  BY <1>2, <1>4
<1>6. /\ u[n] = addr
      /\ \A i \in DOMAIN s : u[i] = s[i]
  BY <1>2, <1>3
<1>7. u # << >>
  BY <1>5, EmptySeq
<1> HIDE DEF n
<1>8. ASSUME NEW a \in CC!Addr
      PROVE  TriedBackup(a)' <=> TriedBackup(a) \/ (past.tried # << >> /\ a = addr)
  BY <1>5, <1>6 DEF TriedBackup
<1>9. ASSUME NEW i \in DOMAIN u, NEW j \in DOMAIN u, i # 1, j # 1, u[i] = u[j]
      PROVE  i = j
  <2>1. CASE i \in DOMAIN s /\ j \in DOMAIN s
    BY <1>6, <1>9, <2>1
  <2>2. CASE i = n /\ j # n
    <3>1. j \in DOMAIN s /\ s[j] = addr /\ s # << >>
      BY <1>5, <1>6, <1>9, <2>2
    <3> QED
      BY <3>1, <1>9 DEF TriedBackup
  <2>3. CASE j = n /\ i # n
    <3>1. i \in DOMAIN s /\ s[i] = addr /\ s # << >>
      BY <1>5, <1>6, <1>9, <2>3
    <3> QED
      BY <3>1, <1>9 DEF TriedBackup
  <2> QED
    BY <1>5, <2>1, <2>2, <2>3
<1> QED
  BY <1>7, <1>8, <1>9

\* connect_once begins with the host, and lists the backups.
LEMMA ConnectOnceNone ==
  ASSUME ConnectTypes, NEW c, CC!ConnectOnce(c)
  PROVE  NoneTwice'
<1>1. past'.tried = << >>
  BY DEF CC!ConnectOnce
<1>2. DOMAIN << >> = {}
  BY EmptySeq
<1>3. CASE at' = "over"
  BY <1>1, <1>2, <1>3 DEF NoneTwice
<1>4. CASE at' = "opening" /\ addr_set' = CC!ToSet(backup) /\ addr_list' = backup
  <2>1. backup \in Seq(CC!Addr) /\ \A i, j \in DOMAIN backup : backup[i] = backup[j] => i = j
    BY BackupsFacts DEF ConnectTypes
  <2>2. ASSUME NEW a \in CC!Addr
        PROVE  /\ ~ TriedBackup(a)' /\ ~ Trying(a)'
               /\ ToTry(a)' <=> a \in CC!ToSet(backup)
    BY <1>1, <1>2, <1>4 DEF TriedBackup, Trying, ToTry, CC!ToSet
  <2>3. CC!ToSet(backup) \subseteq CC!Addr
    BY <2>1, ElementOfSeq, LenProperties DEF CC!ToSet
  <2>4. addr_set' = {a \in CC!Addr : TriedBackup(a) \/ Trying(a) \/ ToTry(a)}'
    <3>1. CC!Addr' = CC!Addr
      BY DEF CC!Addr
    <3> QED
      BY <1>4, <2>2, <2>3, <3>1
  <2>5. \A a \in CC!Addr' : /\ ~ (TriedBackup(a)' /\ ToTry(a)')
                            /\ Trying(a)' => ~ TriedBackup(a)' /\ ~ ToTry(a)'
    BY <2>2 DEF CC!Addr
  <2> QED
    BY <1>1, <1>2, <1>4, <2>1, <2>4, <2>5 DEF NoneTwice
<1> QED
  BY <1>3, <1>4 DEF CC!ConnectOnce

LEMMA NoneTwiceQuiet ==
  ASSUME NoneTwice, UNCHANGED <<at, addr, addr_set, addr_list>>, past'.tried = past.tried
  PROVE  NoneTwice'
  BY DEF NoneTwice, TriedBackup, Trying, ToTry, CC!Addr

\* Nothing is to be tried any more.
LEMMA NoneTwiceOver ==
  ASSUME NoneTwice, at' \in {"over", "idle"}, past'.tried = past.tried
  PROVE  NoneTwice'
  BY DEF NoneTwice

\* The set of the listed addresses, by its members.
LEMMA ListedFacts ==
  ASSUME CC!Addr' = CC!Addr, addr_set' \subseteq CC!Addr,
         \A a \in CC!Addr : a \in addr_set' <=> TriedBackup(a)' \/ Trying(a)' \/ ToTry(a)'
  PROVE  addr_set' = {a \in CC!Addr : TriedBackup(a) \/ Trying(a) \/ ToTry(a)}'
  OBVIOUS

\* An open that fails, or does not.
LEMMA TriedStep ==
  ASSUME ConnectTypes, NoneTwice, CC!OpenFails \/ CC!Opened
  PROVE  NoneTwice'
<1>1. /\ at = "opening" /\ addr \in CC!Addr /\ addr_set' = addr_set
      /\ addr_list \in Seq(CC!Addr)
  BY DEF CC!OpenFails, CC!Opened, ConnectTypes
<1>2. past'.tried = Append(past.tried, addr)
  BY DEF CC!OpenFails, CC!Opened, ConnectTypes
<1>3. /\ \A i, j \in DOMAIN past.tried :
           i # 1 /\ j # 1 /\ past.tried[i] = past.tried[j] => i = j
      /\ \A i, j \in DOMAIN addr_list : addr_list[i] = addr_list[j] => i = j
      /\ past.tried # << >> => ~ TriedBackup(addr) /\ ~ ToTry(addr)
      /\ \A a \in CC!Addr : ~ (TriedBackup(a) /\ ToTry(a))
      /\ addr_set \subseteq CC!Addr
      /\ \A a \in CC!Addr :
           a \in addr_set <=> TriedBackup(a) \/ (past.tried # << >> /\ a = addr) \/ ToTry(a)
  BY <1>1 DEF NoneTwice, Trying
<1>4. /\ \A i, j \in DOMAIN past'.tried :
           i # 1 /\ j # 1 /\ past'.tried[i] = past'.tried[j] => i = j
      /\ past'.tried # << >>
      /\ \A a \in CC!Addr : TriedBackup(a)' <=> TriedBackup(a) \/ (past.tried # << >> /\ a = addr)
  BY <1>1, <1>2, <1>3, TriedFacts
<1>5. CC!Addr' = CC!Addr
  BY DEF CC!Addr
<1>6. CASE CC!Opened
  <2>1. at' = "draining" /\ addr_list' = addr_list
    BY <1>6 DEF CC!Opened
  <2>2. \A a \in CC!Addr : ~ Trying(a)' /\ (ToTry(a)' <=> ToTry(a))
    BY <2>1 DEF Trying, ToTry
  <2>3. \A a \in CC!Addr : /\ ~ (TriedBackup(a)' /\ ToTry(a)')
                           /\ Trying(a)' => ~ TriedBackup(a)' /\ ~ ToTry(a)'
    BY <1>3, <1>4, <2>2
  <2>4. \A a \in CC!Addr : a \in addr_set' <=> TriedBackup(a)' \/ Trying(a)' \/ ToTry(a)'
    BY <1>1, <1>3, <1>4, <2>2
  <2>5. addr_set' = {a \in CC!Addr : TriedBackup(a) \/ Trying(a) \/ ToTry(a)}'
    BY <1>1, <1>3, <1>5, <2>4, ListedFacts
  <2> QED
    BY <1>3, <1>4, <1>5, <2>1, <2>3, <2>5 DEF NoneTwice
<1>7. CASE CC!OpenFails
  <2>1. CC!NextAddr(addr_list) /\ at' \in {"opening", "threw"}
    BY <1>7 DEF CC!OpenFails, CC!NextAddr
  <2>2. /\ \A i, j \in DOMAIN addr_list' : addr_list'[i] = addr_list'[j] => i = j
        /\ at' = "opening" => ~ ToTry(addr)'
        /\ at' = "threw" => addr_list' = << >>
        /\ \A a \in CC!Addr : ToTry(a) <=> ToTry(a)' \/ (at' = "opening" /\ addr' = a)
    <3>1. \A a \in CC!Addr : ToTry(a) <=> \E i \in DOMAIN addr_list : addr_list[i] = a
      BY DEF ToTry
    <3> QED
      BY <1>1, <1>3, <2>1, <3>1, NextAddrFacts
  <2>3. \A a \in CC!Addr : Trying(a)' <=> at' = "opening" /\ addr' = a
    BY <1>4 DEF Trying
  <2>4. \A a \in CC!Addr : Trying(a)' => ~ ToTry(a)'
    BY <2>2, <2>3 DEF ToTry
  <2>5. \A a \in CC!Addr : ~ (TriedBackup(a)' /\ ToTry(a))
    BY <1>3, <1>4
  <2>6. \A a \in CC!Addr : /\ ~ (TriedBackup(a)' /\ ToTry(a)')
                           /\ Trying(a)' => ~ TriedBackup(a)' /\ ~ ToTry(a)'
    BY <2>2, <2>3, <2>4, <2>5
  <2>7. \A a \in CC!Addr : a \in addr_set' <=> TriedBackup(a)' \/ Trying(a)' \/ ToTry(a)'
    BY <1>1, <1>3, <1>4, <2>2, <2>3
  <2>8. addr_set' = {a \in CC!Addr : TriedBackup(a) \/ Trying(a) \/ ToTry(a)}'
    BY <1>1, <1>3, <1>5, <2>7, ListedFacts
  <2> QED
    BY <1>4, <1>5, <2>2, <2>6, <2>8 DEF NoneTwice
<1> QED
  BY <1>6, <1>7

\* _add_backup puts addresses behind those that are still to be tried.
LEMMA AddedFacts ==
  ASSUME NEW p \in Seq(CC!Addr), NEW n \in Seq(CC!Addr),
         \A i, j \in DOMAIN p : p[i] = p[j] => i = j,
         \A i, j \in DOMAIN n : n[i] = n[j] => i = j,
         \A i \in DOMAIN p : \A j \in DOMAIN n : p[i] # n[j]
  PROVE  /\ p \o n \in Seq(CC!Addr)
         /\ \A i, j \in DOMAIN (p \o n) : (p \o n)[i] = (p \o n)[j] => i = j
         /\ \A a \in CC!Addr : (\E i \in DOMAIN (p \o n) : (p \o n)[i] = a)
                                 <=> (\E i \in DOMAIN p : p[i] = a) \/ (\E i \in DOMAIN n : n[i] = a)
<1> DEFINE q == p \o n
           m == Len(p)
<1>1. q \in Seq(CC!Addr) /\ Len(q) = m + Len(n)
  BY ConcatProperties
<1>2. \A i \in 1 .. m + Len(n) : q[i] = IF i <= m THEN p[i] ELSE n[i - m]
  BY <1>1, ConcatProperties
<1>3. /\ m \in Nat /\ Len(n) \in Nat /\ DOMAIN p = 1 .. m /\ DOMAIN n = 1 .. Len(n)
      /\ DOMAIN q = 1 .. m + Len(n)
  BY <1>1, LenProperties
<1> HIDE DEF q, m
<1>4. \A i \in DOMAIN q : \/ i \in DOMAIN p /\ q[i] = p[i]
                          \/ i - m \in DOMAIN n /\ q[i] = n[i - m]
  BY <1>2, <1>3
<1>5. /\ \A i \in DOMAIN p : i \in DOMAIN q /\ q[i] = p[i]
      /\ \A i \in DOMAIN n : i + m \in DOMAIN q /\ q[i + m] = n[i]
  BY <1>2, <1>3
<1>6. ASSUME NEW i \in DOMAIN q, NEW j \in DOMAIN q, q[i] = q[j]
      PROVE  i = j
  <2>1. CASE i \in DOMAIN p /\ q[i] = p[i] /\ j \in DOMAIN p /\ q[j] = p[j]
    BY <1>6, <2>1
  <2>2. CASE i \in DOMAIN p /\ q[i] = p[i] /\ j - m \in DOMAIN n /\ q[j] = n[j - m]
    BY <1>6, <2>2
  <2>3. CASE i - m \in DOMAIN n /\ q[i] = n[i - m] /\ j \in DOMAIN p /\ q[j] = p[j]
    BY <1>6, <2>3
  <2>4. CASE i - m \in DOMAIN n /\ q[i] = n[i - m] /\ j - m \in DOMAIN n /\ q[j] = n[j - m]
    <3>1. i - m = j - m
      BY <1>6, <2>4
    <3> QED
      BY <3>1, <1>3
  <2> QED
    BY <1>4, <2>1, <2>2, <2>3, <2>4
<1>7. ASSUME NEW a \in CC!Addr
      PROVE  (\E i \in DOMAIN q : q[i] = a)
               <=> (\E i \in DOMAIN p : p[i] = a) \/ (\E i \in DOMAIN n : n[i] = a)
  <2>1. ASSUME NEW i \in DOMAIN q, q[i] = a
        PROVE  (\E k \in DOMAIN p : p[k] = a) \/ (\E k \in DOMAIN n : n[k] = a)
    BY <1>4, <2>1
  <2>2. ASSUME NEW i \in DOMAIN p, p[i] = a
        PROVE  \E k \in DOMAIN q : q[k] = a
    BY <1>5, <2>2
  <2>3. ASSUME NEW i \in DOMAIN n, n[i] = a
        PROVE  \E k \in DOMAIN q : q[k] = a
    BY <1>5, <2>3
  <2> QED
    BY <2>1, <2>2, <2>3
<1> QED
  BY <1>1, <1>6, <1>7 DEF q

LEMMA AuthFailedStep ==
  ASSUME ConnectTypes, NoneTwice, CC!AuthFailed
  PROVE  NoneTwice'
<1>1. PICK new \in CC!NewBackups : CC!NextAddr(addr_list \o new)
  BY DEF CC!AuthFailed
<1>2. /\ at = "auth" /\ past' = past /\ addr_set' = addr_set \cup CC!ToSet(backup)
      /\ at' \in {"opening", "threw"}
  BY <1>1 DEF CC!AuthFailed, CC!NextAddr
<1>3. /\ \A i, j \in DOMAIN past.tried :
           i # 1 /\ j # 1 /\ past.tried[i] = past.tried[j] => i = j
      /\ \A i, j \in DOMAIN addr_list : addr_list[i] = addr_list[j] => i = j
      /\ past.tried # << >>
      /\ \A a \in CC!Addr : ~ (TriedBackup(a) /\ ToTry(a))
      /\ addr_set \subseteq CC!Addr
      /\ \A a \in CC!Addr : a \in addr_set <=> TriedBackup(a) \/ ToTry(a)
  BY <1>2 DEF NoneTwice, Trying
<1>4. /\ addr_list \in Seq(CC!Addr) /\ backup \in CC!Backups
      /\ \A i \in DOMAIN addr_list : addr_list[i] \in CC!Addr
  BY ElementOfSeq, LenProperties DEF ConnectTypes
<1>5. /\ new \in Seq(CC!Addr) /\ \A i, j \in DOMAIN new : new[i] = new[j] => i = j
      /\ CC!ToSet(new) = CC!ToSet(backup) \ addr_set
      /\ \A i \in DOMAIN new : new[i] \in CC!ToSet(new)
  BY <1>1, BackupsFacts DEF CC!NewBackups, CC!ToSet
<1>6. CC!ToSet(backup) \subseteq CC!Addr
  <2>1. backup \in Seq(CC!Addr)
    BY <1>4, BackupsFacts
  <2> QED
    BY <2>1, ElementOfSeq, LenProperties DEF CC!ToSet
<1>7. \A i \in DOMAIN addr_list : \A j \in DOMAIN new : addr_list[i] # new[j]
  <2>1. \A i \in DOMAIN addr_list : addr_list[i] \in addr_set
    BY <1>3, <1>4 DEF ToTry
  <2> QED
    BY <1>5, <2>1
<1> DEFINE q == addr_list \o new
<1>8. /\ q \in Seq(CC!Addr)
      /\ \A i, j \in DOMAIN q : q[i] = q[j] => i = j
      /\ \A a \in CC!Addr : (\E i \in DOMAIN q : q[i] = a)
                              <=> (\E i \in DOMAIN addr_list : addr_list[i] = a)
                                  \/ (\E i \in DOMAIN new : new[i] = a)
  BY <1>3, <1>4, <1>5, <1>7, AddedFacts
<1>9. CC!NextAddr(q)
  BY <1>1
<1> HIDE DEF q
<1>10. /\ \A i, j \in DOMAIN addr_list' : addr_list'[i] = addr_list'[j] => i = j
       /\ at' = "opening" => ~ ToTry(addr)'
       /\ at' = "threw" => addr_list' = << >>
       /\ \A a \in CC!Addr : (\E i \in DOMAIN q : q[i] = a)
                               <=> ToTry(a)' \/ (at' = "opening" /\ addr' = a)
  BY <1>8, <1>9, NextAddrFacts
<1>11. \A a \in CC!Addr : (\E i \in DOMAIN new : new[i] = a) <=> a \in CC!ToSet(backup) /\ a \notin addr_set
  BY <1>5 DEF CC!ToSet
<1>12. \A a \in CC!Addr : ToTry(a) \/ (a \in CC!ToSet(backup) /\ a \notin addr_set)
                            <=> ToTry(a)' \/ (at' = "opening" /\ addr' = a)
  BY <1>8, <1>10, <1>11 DEF ToTry
<1>13. \A a \in CC!Addr : TriedBackup(a)' <=> TriedBackup(a)
  BY <1>2 DEF TriedBackup
<1>14. \A a \in CC!Addr : Trying(a)' <=> at' = "opening" /\ addr' = a
  BY <1>2, <1>3 DEF Trying
<1>15. \A a \in CC!Addr : Trying(a)' => ~ ToTry(a)'
  BY <1>10, <1>14 DEF ToTry
<1>16. \A a \in CC!Addr : /\ ~ (TriedBackup(a)' /\ ToTry(a)')
                          /\ Trying(a)' => ~ TriedBackup(a)' /\ ~ ToTry(a)'
  BY <1>3, <1>12, <1>13, <1>14, <1>15
<1>17. \A a \in CC!Addr : a \in addr_set' <=> TriedBackup(a)' \/ Trying(a)' \/ ToTry(a)'
  BY <1>2, <1>3, <1>12, <1>13, <1>14
<1>18. CC!Addr' = CC!Addr
  BY DEF CC!Addr
<1>19. addr_set' = {a \in CC!Addr : TriedBackup(a) \/ Trying(a) \/ ToTry(a)}'
  BY <1>2, <1>3, <1>6, <1>17, <1>18, ListedFacts
<1> QED
  BY <1>2, <1>3, <1>10, <1>16, <1>18, <1>19 DEF NoneTwice

LEMMA NoneTwiceStep ==
  ASSUME ConnectTypes, NoneTwice, [CC!Next]_CC!connectVars
  PROVE  NoneTwice'
<1> USE DEF CC!hostVars, CC!wayVars
<1>1. ASSUME NEW t \in CC!Task, CC!Enter(t) \/ CC!Looks(t)
      PROVE  NoneTwice'
  BY <1>1, NoneTwiceQuiet DEF CC!Enter, CC!Looks
<1>2. ASSUME NEW t \in CC!Task, CC!Joins(t)
      PROVE  NoneTwice'
  <2>1. CC!ConnectOnce(closed') \/ UNCHANGED CC!wayVars
    BY <1>2 DEF CC!Joins
  <2> QED
    BY <2>1, ConnectOnceNone, NoneTwiceQuiet
<1>3. CASE CC!Over \/ CC!GivesUp
  BY <1>3, NoneTwiceOver DEF CC!Over, CC!GivesUp
<1>4. CASE CC!Retries
  BY <1>4, ConnectOnceNone DEF CC!Retries
<1>5. CASE CC!AuthReturned
  <2>1. CC!ConnectOnce(closed) \/ (at' = "over" /\ past' = past)
    BY <1>5 DEF CC!AuthReturned
  <2> QED
    BY <2>1, ConnectOnceNone, NoneTwiceOver
<1>6. CASE CC!OpenFails \/ CC!Opened
  BY <1>6, TriedStep
<1>7. CASE CC!Attach
  BY <1>7 DEF CC!Attach, NoneTwice, TriedBackup, Trying, ToTry, CC!Addr
<1>8. CASE CC!AuthFailed
  BY <1>8, AuthFailedStep
<1>9. CASE CC!AuthAsks \/ CC!AuthJoins \/ CC!AuthAsksClosed \/ CC!AuthAnswered
           \/ CC!AuthReturns \/ CC!AuthThrows
  BY <1>9, NoneTwiceQuiet
     DEF CC!AuthAsks, CC!AuthJoins, CC!AuthAsksClosed, CC!AuthAnswered,
         CC!AuthReturns, CC!AuthThrows, CC!AuthGoes
<1>10. CASE CC!DispatcherEnds \/ CC!PeerCloses \/ CC!Close \/ CC!ChangeBackup
            \/ UNCHANGED CC!connectVars
  BY <1>10, NoneTwiceQuiet
     DEF CC!DispatcherEnds, CC!PeerCloses, CC!Close, CC!ChangeBackup, CC!connectVars
<1>11. CASE CC!ChangeHost
  <2>1. past'.tried = past.tried
    BY <1>11 DEF CC!ChangeHost, ConnectTypes
  <2> QED
    BY <1>11, <2>1, NoneTwiceQuiet DEF CC!ChangeHost
<1> QED
  BY <1>1, <1>2, <1>3, <1>4, <1>5, <1>6, <1>7, <1>8, <1>9, <1>10, <1>11
     DEF CC!Next, CC!Calls, CC!Continues

\* When connect_once throws, nothing of what it has listed is left to be tried.
LEMMA TriedOnce ==
  ASSUME ConnectTypes, NoneTwice
  PROVE  CC!EachTriedOnce
<1>1. past.tried \in Seq(CC!Addr)
  BY DEF ConnectTypes
<1>2. Len(past.tried) \in Nat /\ DOMAIN past.tried = 1 .. Len(past.tried)
  BY <1>1, LenProperties
<1>3. \A i \in 2 .. Len(past.tried) : i \in DOMAIN past.tried /\ i # 1
  BY <1>2
<1>4. \A i, j \in 2 .. Len(past.tried) : past.tried[i] = past.tried[j] => i = j
  BY <1>3 DEF NoneTwice
<1>5. ASSUME at = "threw"
      PROVE  addr_set \subseteq CC!ToSet(past.tried)
  <2>1. addr_list = << >> /\ DOMAIN << >> = {}
    BY <1>5, EmptySeq DEF NoneTwice
  <2>2. \A a \in CC!Addr : ~ Trying(a) /\ ~ ToTry(a)
    BY <1>5, <2>1 DEF Trying, ToTry
  <2>3. \A a \in addr_set : a \in CC!Addr /\ TriedBackup(a)
    BY <1>5, <2>2 DEF NoneTwice
  <2> QED
    BY <2>3 DEF TriedBackup, CC!ToSet
<1> QED
  BY <1>4, <1>5 DEF CC!EachTriedOnce

\* Who waits in block_connect finds an authenticated connection, to the host that
\* the channel names; connect_once tries each backup once and all of them before
\* it throws, also those that auth adds; and nothing is attached twice.
THEOREM ConnectCorrect == CC!Spec => []ConnectSafe
<1>1. CC!Init => ConnectInv
  <2> SUFFICES ASSUME CC!Init
               PROVE  ConnectInv
    OBVIOUS
  <2>1. ConnectTypes
    <3>1. [at |-> "idle", once |-> FALSE, told |-> "none"] \in Calling
      BY DEF Calling
    <3>2. past \in [tried : Seq(CC!Addr), moved : BOOLEAN] /\ addr_list \in Seq(CC!Addr)
      BY EmptySeq DEF CC!Init
    <3> QED
      BY <3>1, <3>2 DEF CC!Init, ConnectTypes
  <2>2. CC!AuthComesFirst /\ LooksAreSafe
    BY DEF CC!Init, CC!AuthComesFirst, LooksAreSafe
  <2>3. CC!HostIsPeer /\ HostIsNext /\ CC!NothingAttached
    BY DEF CC!Init, CC!HostIsPeer, HostIsNext, CC!NothingAttached
  <2>4. NoneTwice
    <3>1. past.tried = << >> /\ DOMAIN << >> = {}
      BY EmptySeq DEF CC!Init
    <3> QED
      BY <3>1 DEF CC!Init, NoneTwice
  <2> QED
    BY <2>1, <2>2, <2>3, <2>4 DEF ConnectInv
<1>2. ConnectInv /\ [CC!Next]_CC!connectVars => ConnectInv'
  BY ConnectTypesStep, LooksStep, HostStep, NothingAttachedStep, NoneTwiceStep DEF ConnectInv
<1>3. ConnectInv => ConnectSafe
  BY TriedOnce DEF ConnectSafe, ConnectInv, CC!ConnectSafe
<1> QED
  BY <1>1, <1>2, <1>3, PTL DEF CC!Spec

-----------------------------------------------------------------------------
(* Inspector.                                                              *)

\* Messages of the tools, and what the sessions are given.
Debug == [cmd : {"connect", "disconnect", "msg", "close", "break", "quit"},
          tool : Tool, n : Nat, resume : BOOLEAN]
Given == Nat \X {"pipe", "mailbox"}
Msgs(q) == {x \in ToSet(q) : x.cmd = "msg"}

InspectorTypes ==
  /\ tool \in [Tool -> {"off", "calling", "answered", "open", "lost", "closed"}]
  /\ sessions = [t \in Tool |-> sessions[t]]
  /\ events \in [Tool -> Seq(Debug)] /\ pipe \in Seq(Debug) /\ mailbox \in Seq(Debug)
  /\ count \in Nat
  /\ delivered \in [Tool -> Seq(Given)]
  /\ \A t \in Tool : \A x \in ToSet(events[t]) : x.tool = t

\* Nothing is on the pipe and nothing is put there while the service runs.
Pausing ==
  /\ target \in {"running", "connecting"} => pipe = << >> /\ proxy # "open"
  /\ request # "none" => target = "connecting"
  /\ \A x \in ToSet(pipe) : x.cmd = "quit" => proxy # "open"

\* The pipe has no command but quit.
OnPipe == \A x \in ToSet(pipe) : x.cmd \in {"msg", "quit"}

Posted(c, t) == \E x \in ToSet(mailbox) : x.cmd = c /\ x.tool = t
HasSession(t) == \E s \in live : s.tool = t

\* A tool connects once.
Once(q) ==
  \A i, j \in DOMAIN q :
    q[i].cmd = "connect" /\ q[j].cmd = "connect" /\ q[i].tool = q[j].tool => i = j

\* What is still in the mailbox for a tool, and whether it has a session: who is
\* connected has one, and who has left as long as its disconnect is on its way.
Linked(t) ==
  /\ Posted("connect", t) => tool[t] = "calling"
  /\ Posted("disconnect", t) => tool[t] = "closed"
  /\ sessions[t] # 0 => tool[t] \in {"open", "lost", "closed"}
  /\ tool[t] \in {"answered", "open", "lost"} => HasSession(t)
  /\ HasSession(t) => \/ tool[t] \in {"answered", "open", "lost"}
                      \/ tool[t] = "closed" /\ Posted("disconnect", t)

Connected ==
  /\ \A t \in Tool : Linked(t)
  /\ \A s \in live : s.tool \in Tool
  /\ Once(mailbox)

\* The messages of a tool are in the order of their numbers wherever they are ...
Sorted(q) ==
  \A i, j \in DOMAIN q :
    i < j /\ q[i].cmd = "msg" /\ q[j].cmd = "msg" /\ q[i].tool = q[j].tool => q[i].n < q[j].n

\* ... and what is sent later has a higher number, what is given by the pipe too.
Numbers ==
  /\ Sorted(pipe) /\ Sorted(mailbox) /\ \A t \in Tool : Sorted(events[t])
  /\ \A t \in Tool : \A x \in Msgs(events[t]) :
       /\ x.n <= count
       /\ \A y \in Msgs(pipe) \cup Msgs(mailbox) : y.tool = t => y.n < x.n
       /\ \A d \in ToSet(delivered[t]) : d[1] < x.n
  /\ \A x \in Msgs(pipe) :
       /\ x.n <= count
       /\ \A y \in Msgs(mailbox) : y.tool = x.tool => y.n # x.n
       /\ \A d \in ToSet(delivered[x.tool]) : d[1] < x.n
  /\ \A x \in Msgs(mailbox) :
       /\ x.n <= count
       /\ \A d \in ToSet(delivered[x.tool]) : d[1] # x.n /\ (d[2] = "mailbox" => d[1] < x.n)
  /\ \A t \in Tool : \A d \in ToSet(delivered[t]) : d[1] <= count

\* The body of OnlyPipeOvertakes.
Overtaken(d) ==
  \A i, j \in DOMAIN d : i < j =>
    \/ d[i][1] < d[j][1]
    \/ d[i][1] > d[j][1] /\ d[i][2] = "pipe" /\ d[j][2] = "mailbox"

\* A message that may be given after those of d.
Behind(d, n, via) ==
  \A e \in ToSet(d) : e[1] # n /\ (e[2] = "mailbox" \/ via = "pipe" => e[1] < n)

InspectorInv == InspectorTypes /\ Pausing /\ OnPipe /\ Connected /\ Numbers /\ VI!OnlyPipeOvertakes

LEMMA PushFacts ==
  ASSUME NEW q \in Seq(Debug), NEW m \in Debug
  PROVE  /\ Append(q, m) \in Seq(Debug)
         /\ ToSet(Append(q, m)) = ToSet(q) \cup {m}
         /\ Msgs(Append(q, m)) = Msgs(q) \cup {x \in {m} : x.cmd = "msg"}
         /\ Sorted(q) /\ (m.cmd = "msg" => \A x \in Msgs(q) : x.tool = m.tool => x.n < m.n)
              => Sorted(Append(q, m))
         /\ Once(q) /\ (m.cmd = "connect" => \A x \in ToSet(q) : x.cmd = "connect" => x.tool # m.tool)
              => Once(Append(q, m))
<1> DEFINE u == Append(q, m)
           n == Len(q) + 1
<1>1. /\ u \in Seq(Debug) /\ Len(u) = Len(q) + 1
      /\ \A i \in 1 .. Len(q) : u[i] = q[i]
      /\ u[Len(q) + 1] = m
  BY AppendProperties
<1>2. Len(q) \in Nat /\ DOMAIN q = 1 .. Len(q) /\ DOMAIN u = 1 .. Len(q) + 1
  BY <1>1, LenProperties
<1>3. /\ DOMAIN u = DOMAIN q \cup {n} /\ n \notin DOMAIN q /\ u[n] = m
      /\ \A i \in DOMAIN q : u[i] = q[i] /\ i < n
      /\ \A i \in DOMAIN u : ~ (n < i)
  BY <1>1, <1>2
<1> HIDE DEF n, u
<1>4. ToSet(u) = ToSet(q) \cup {m}
  BY <1>3 DEF ToSet
<1>5. Msgs(u) = Msgs(q) \cup {x \in {m} : x.cmd = "msg"}
  BY <1>4 DEF Msgs
<1>6. \A i \in DOMAIN q : q[i] \in ToSet(q)
  BY DEF ToSet
<1>7. ASSUME Sorted(q), m.cmd = "msg" => \A x \in Msgs(q) : x.tool = m.tool => x.n < m.n,
             NEW i \in DOMAIN u, NEW j \in DOMAIN u, i < j,
             u[i].cmd = "msg", u[j].cmd = "msg", u[i].tool = u[j].tool
      PROVE  u[i].n < u[j].n
  <2>1. CASE j \in DOMAIN q
    <3>1. i \in DOMAIN q
      BY <1>3, <1>7, <2>1
    <3> QED
      BY <1>3, <1>7, <2>1, <3>1 DEF Sorted
  <2>2. CASE j = n
    <3>1. i \in DOMAIN q /\ q[i] \in Msgs(q)
      <4>1. i \in DOMAIN q
        BY <1>3, <1>7, <2>2
      <4> QED
        BY <1>3, <1>6, <1>7, <4>1 DEF Msgs
    <3> QED
      BY <1>3, <1>7, <2>2, <3>1
  <2> QED
    BY <1>3, <2>1, <2>2
<1>8. ASSUME Once(q), m.cmd = "connect" => \A x \in ToSet(q) : x.cmd = "connect" => x.tool # m.tool,
             NEW i \in DOMAIN u, NEW j \in DOMAIN u,
             u[i].cmd = "connect", u[j].cmd = "connect", u[i].tool = u[j].tool
      PROVE  i = j
  <2>1. CASE i \in DOMAIN q /\ j \in DOMAIN q
    BY <1>3, <1>8, <2>1 DEF Once
  <2>2. CASE i = n /\ j \in DOMAIN q
    BY <1>3, <1>6, <1>8, <2>2
  <2>3. CASE i \in DOMAIN q /\ j = n
    BY <1>3, <1>6, <1>8, <2>3
  <2> QED
    BY <1>3, <2>1, <2>2, <2>3
<1>9. Sorted(q) /\ (m.cmd = "msg" => \A x \in Msgs(q) : x.tool = m.tool => x.n < m.n) => Sorted(u)
  BY <1>7 DEF Sorted
<1>10. Once(q) /\ (m.cmd = "connect" => \A x \in ToSet(q) : x.cmd = "connect" => x.tool # m.tool)
         => Once(u)
  BY <1>8 DEF Once
<1> QED
  BY <1>1, <1>4, <1>5, <1>9, <1>10 DEF u

LEMMA PopFacts ==
  ASSUME NEW q \in Seq(Debug), q # << >>
  PROVE  /\ Tail(q) \in Seq(Debug) /\ Head(q) \in Debug
         /\ ToSet(q) = {Head(q)} \cup ToSet(Tail(q))
         /\ Sorted(q) =>
              /\ Sorted(Tail(q))
              /\ Head(q).cmd = "msg" =>
                   \A x \in Msgs(Tail(q)) : x.tool = Head(q).tool => Head(q).n < x.n
         /\ Once(q) =>
              /\ Once(Tail(q))
              /\ Head(q).cmd = "connect" =>
                   \A x \in ToSet(Tail(q)) : x.cmd = "connect" => x.tool # Head(q).tool
<1> DEFINE r == Tail(q)
<1>1. /\ r \in Seq(Debug) /\ Head(q) \in Debug /\ Head(q) = q[1] /\ Len(r) = Len(q) - 1
      /\ \A i \in 1 .. Len(r) : r[i] = q[i + 1]
  BY HeadTailProperties
<1>2. /\ Len(q) \in Nat /\ DOMAIN q = 1 .. Len(q) /\ DOMAIN r = 1 .. Len(r)
      /\ Len(q) # 0
  BY <1>1, LenProperties, EmptySeq
<1> HIDE DEF r
<1>3. /\ 1 \in DOMAIN q
      /\ \A i \in DOMAIN r : i + 1 \in DOMAIN q /\ 1 < i + 1 /\ r[i] = q[i + 1]
  BY <1>1, <1>2
<1>4. \A i \in DOMAIN q : i = 1 \/ \E j \in DOMAIN r : r[j] = q[i]
  <2> SUFFICES ASSUME NEW i \in DOMAIN q, i # 1
               PROVE  \E j \in DOMAIN r : r[j] = q[i]
    OBVIOUS
  <2>1. i - 1 \in DOMAIN r /\ r[i - 1] = q[i]
    BY <1>1, <1>2
  <2> QED
    BY <2>1
<1>5. ToSet(q) = {Head(q)} \cup ToSet(r)
  <2>1. \A x \in ToSet(q) : x = Head(q) \/ x \in ToSet(r)
    BY <1>1, <1>4 DEF ToSet
  <2>2. Head(q) \in ToSet(q) /\ \A x \in ToSet(r) : x \in ToSet(q)
    BY <1>1, <1>3 DEF ToSet
  <2> QED
    BY <2>1, <2>2
<1>6. ASSUME Sorted(q)
      PROVE  /\ Sorted(r)
             /\ Head(q).cmd = "msg" => \A x \in Msgs(r) : x.tool = Head(q).tool => Head(q).n < x.n
  <2>1. \A i, j \in DOMAIN r : i < j => i + 1 < j + 1
    BY <1>2
  <2>2. Sorted(r)
    BY <1>3, <1>6, <2>1 DEF Sorted
  <2>3. \A i \in DOMAIN r : Head(q).cmd = "msg" /\ r[i].cmd = "msg" /\ r[i].tool = Head(q).tool
                              => Head(q).n < r[i].n
    BY <1>1, <1>3, <1>6 DEF Sorted
  <2> QED
    BY <2>2, <2>3 DEF Msgs, ToSet
<1>7. ASSUME Once(q)
      PROVE  /\ Once(r)
             /\ Head(q).cmd = "connect" =>
                  \A x \in ToSet(r) : x.cmd = "connect" => x.tool # Head(q).tool
  <2>1. \A i, j \in DOMAIN r : i + 1 = j + 1 => i = j
    BY <1>2
  <2>2. Once(r)
    BY <1>3, <1>7, <2>1 DEF Once
  <2>3. \A i \in DOMAIN r : Head(q).cmd = "connect" /\ r[i].cmd = "connect"
                              => r[i].tool # Head(q).tool
    BY <1>1, <1>3, <1>7 DEF Once
  <2> QED
    BY <2>2, <2>3 DEF ToSet
<1> QED
  BY <1>1, <1>5, <1>6, <1>7 DEF r

\* command_disable tells the service of all its tools at once.
LEMMA JoinFacts ==
  ASSUME NEW q \in Seq(Debug), NEW r \in Seq(Debug), \A x \in ToSet(r) : x.cmd = "disconnect"
  PROVE  /\ q \o r \in Seq(Debug)
         /\ ToSet(q \o r) = ToSet(q) \cup ToSet(r)
         /\ Sorted(q) => Sorted(q \o r)
         /\ Once(q) => Once(q \o r)
<1> DEFINE u == q \o r
           m == Len(q)
<1>1. u \in Seq(Debug) /\ Len(u) = m + Len(r)
  BY ConcatProperties
<1>2. \A i \in 1 .. m + Len(r) : u[i] = IF i <= m THEN q[i] ELSE r[i - m]
  BY <1>1, ConcatProperties
<1>3. /\ m \in Nat /\ Len(r) \in Nat /\ DOMAIN q = 1 .. m /\ DOMAIN r = 1 .. Len(r)
      /\ DOMAIN u = 1 .. m + Len(r)
  BY <1>1, LenProperties
<1> HIDE DEF u, m
<1>4. \A i \in DOMAIN u : \/ i \in DOMAIN q /\ u[i] = q[i]
                          \/ i - m \in DOMAIN r /\ u[i] = r[i - m]
  BY <1>2, <1>3
<1>5. /\ \A i \in DOMAIN q : i \in DOMAIN u /\ u[i] = q[i]
      /\ \A i \in DOMAIN r : i + m \in DOMAIN u /\ u[i + m] = r[i]
  BY <1>2, <1>3
<1>6. ToSet(u) = ToSet(q) \cup ToSet(r)
  <2>1. \A x \in ToSet(u) : x \in ToSet(q) \/ x \in ToSet(r)
    BY <1>4 DEF ToSet
  <2>2. (\A x \in ToSet(q) : x \in ToSet(u)) /\ \A x \in ToSet(r) : x \in ToSet(u)
    BY <1>5 DEF ToSet
  <2> QED
    BY <2>1, <2>2
<1>7. \A i \in DOMAIN u : u[i].cmd \in {"msg", "connect"} => i \in DOMAIN q /\ u[i] = q[i]
  <2>1. \A i \in DOMAIN r : r[i].cmd = "disconnect"
    BY DEF ToSet
  <2> QED
    BY <1>4, <2>1
<1>8. Sorted(q) => Sorted(u)
  BY <1>7 DEF Sorted
<1>9. Once(q) => Once(u)
  BY <1>7 DEF Once
<1> QED
  BY <1>1, <1>6, <1>8, <1>9 DEF u

\* What SetToSeq makes of a finite set.
LEMMA ListFacts ==
  ASSUME NEW S, IsFiniteSet(S)
  PROVE  VI!SetToSeq(S) \in Seq(S) /\ ToSet(VI!SetToSeq(S)) = S
<1> DEFINE n == Cardinality(S)
<1>1. n \in Nat /\ ExistsBijection(1 .. n, S)
  BY FS_CardinalityType
<1>2. PICK f \in Bijection(1 .. n, S) : TRUE
  BY <1>1 DEF ExistsBijection
<1>3. f \in [1 .. n -> S] /\ VI!IsInjective(f)
  BY <1>2 DEF Bijection, Injection, IsInjective, VI!IsInjective
<1> DEFINE g == VI!SetToSeq(S)
<1>4. g \in [1 .. n -> S] /\ VI!IsInjective(g)
  <2>1. VI!Cardinality(S) = n
    BY DEF VI!Cardinality, Cardinality
  <2>2. g = CHOOSE h \in [1 .. n -> S] : VI!IsInjective(h)
    BY <2>1 DEF VI!SetToSeq
  <2> QED
    BY <1>3, <2>2
<1>5. g \in Injection(1 .. n, S)
  BY <1>4 DEF Injection, IsInjective, VI!IsInjective
<1>6. Cardinality(1 .. n) = n /\ IsFiniteSet(1 .. n)
  BY <1>1, FS_Interval
<1>7. g \in Surjection(1 .. n, S)
  BY <1>5, <1>6, FS_Injection
<1>8. ToSet(g) = S
  BY <1>4, <1>7 DEF Surjection, ToSet
<1>9. g \in Seq(S)
  BY <1>1, <1>4
<1> QED
  BY <1>8, <1>9

LEMMA DebugFacts ==
  ASSUME Tool # {}
  PROVE  /\ \A x \in Debug : x.tool \in Tool /\ x.n \in Nat
         /\ VI!Quit \in Debug /\ VI!Quit.cmd = "quit"
         /\ \A c \in {"connect", "disconnect", "close", "break"} : \A t \in Tool :
              /\ VI!Command(c, t) \in Debug
              /\ VI!Command(c, t).cmd = c /\ VI!Command(c, t).tool = t
         /\ \A t \in Tool, n \in Nat, r \in BOOLEAN :
              /\ VI!Message(t, n, r) \in Debug
              /\ VI!Message(t, n, r).cmd = "msg" /\ VI!Message(t, n, r).tool = t
              /\ VI!Message(t, n, r).n = n
<1>1. \A x \in Debug : x.tool \in Tool /\ x.n \in Nat
  BY DEF Debug
<1>2. (CHOOSE t \in Tool : TRUE) \in Tool
  OBVIOUS
<1>3. VI!Quit \in Debug /\ VI!Quit.cmd = "quit"
  BY <1>2 DEF VI!Quit, VI!Command, Debug
<1>4. ASSUME NEW c \in {"connect", "disconnect", "close", "break"}, NEW t \in Tool
      PROVE  /\ VI!Command(c, t) \in Debug
             /\ VI!Command(c, t).cmd = c /\ VI!Command(c, t).tool = t
  BY DEF VI!Command, Debug
<1>5. ASSUME NEW t \in Tool, NEW n \in Nat, NEW r \in BOOLEAN
      PROVE  /\ VI!Message(t, n, r) \in Debug
             /\ VI!Message(t, n, r).cmd = "msg" /\ VI!Message(t, n, r).tool = t
             /\ VI!Message(t, n, r).n = n
  BY DEF VI!Message, Debug
<1> QED
  BY <1>1, <1>3, <1>4, <1>5

\* What a tool sends is behind what it has sent.
LEMMA SendsFacts ==
  ASSUME Tool # {}, InspectorTypes, NEW t \in Tool, VI!ToolSends(t)
  PROVE  \E m \in Debug :
           /\ m.tool = t
           /\ events' = [events EXCEPT ![t] = Append(@, m)]
           /\ \/ m.cmd = "msg" /\ m.n = count + 1 /\ count' = count + 1
              \/ m.cmd # "msg" /\ count' = count
<1>1. ASSUME NEW r \in BOOLEAN, count' = count + 1,
             events' = [events EXCEPT ![t] = Append(@, VI!Message(t, count', r))]
      PROVE  \E m \in Debug :
               /\ m.tool = t /\ m.cmd = "msg" /\ m.n = count + 1
               /\ events' = [events EXCEPT ![t] = Append(@, m)]
  <2> DEFINE m == VI!Message(t, count', r)
  <2>1. count' \in Nat
    BY <1>1 DEF InspectorTypes
  <2>2. m \in Debug /\ m.tool = t /\ m.cmd = "msg" /\ m.n = count + 1
    BY <1>1, <2>1, DebugFacts
  <2>3. events' = [events EXCEPT ![t] = Append(@, m)]
    BY <1>1
  <2> HIDE DEF m
  <2> QED
    BY <2>2, <2>3
<1>2. ASSUME NEW c \in {"close", "break"},
             events' = [events EXCEPT ![t] = Append(@, VI!Command(c, t))]
      PROVE  \E m \in Debug :
               /\ m.tool = t /\ m.cmd # "msg"
               /\ events' = [events EXCEPT ![t] = Append(@, m)]
  <2> DEFINE m == VI!Command(c, t)
  <2>1. m \in Debug /\ m.tool = t /\ m.cmd # "msg"
    BY <1>2, DebugFacts
  <2>2. events' = [events EXCEPT ![t] = Append(@, m)]
    BY <1>2
  <2> HIDE DEF m
  <2> QED
    BY <2>1, <2>2
<1>3. \/ /\ count' = count + 1
         /\ \E r \in BOOLEAN : events' = [events EXCEPT ![t] = Append(@, VI!Message(t, count', r))]
      \/ /\ \E c \in {"close", "break"} : events' = [events EXCEPT ![t] = Append(@, VI!Command(c, t))]
         /\ count' = count
  BY DEF VI!ToolSends
<1> QED
  BY <1>1, <1>2, <1>3

\* What is read from a tool.
LEMMA EventFacts ==
  ASSUME Tool # {}, InspectorTypes, NEW t \in Tool, VI!ToolEvent(t)
  PROVE  \E m \in Debug :
           /\ m.tool = t /\ m = Head(events[t]) /\ events[t] # << >>
           /\ events' = [events EXCEPT ![t] = Tail(@)]
<1>1. events[t] \in Seq(Debug) /\ events[t] # << >> /\ events' = [events EXCEPT ![t] = Tail(@)]
  BY DEF VI!ToolEvent, InspectorTypes
<1>2. Head(events[t]) \in Debug /\ Head(events[t]) \in ToSet(events[t])
  BY <1>1, PopFacts
<1> QED
  BY <1>1, <1>2 DEF InspectorTypes

LEMMA DeliverFacts ==
  ASSUME Tool # {}, InspectorTypes, NEW m \in Debug, NEW via \in {"pipe", "mailbox"},
         VI!Deliver(m, via)
  PROVE  /\ delivered' \in [Tool -> Seq(Given)]
         /\ \A t \in Tool : \/ delivered'[t] = delivered[t]
                            \/ /\ t = m.tool
                               /\ delivered'[t] = Append(delivered[t], <<m.n, via>>)
<1>1. m.tool \in Tool /\ m.n \in Nat
  BY DebugFacts
<1>2. CASE delivered' = delivered
  BY <1>2 DEF InspectorTypes
<1>3. CASE delivered' = [delivered EXCEPT ![m.tool] = Append(@, <<m.n, via>>)]
  <2>1. <<m.n, via>> \in Given /\ delivered[m.tool] \in Seq(Given)
    BY <1>1 DEF Given, InspectorTypes
  <2>2. Append(delivered[m.tool], <<m.n, via>>) \in Seq(Given)
    BY <2>1, AppendProperties
  <2> QED
    BY <1>1, <1>3, <2>2 DEF InspectorTypes
<1> QED
  BY <1>2, <1>3 DEF VI!Deliver

LEMMA DisableFacts ==
  ASSUME Tool # {}, IsFiniteSet(Tool), InspectorTypes, VI!DisableSessions
  PROVE  \E r \in Seq(Debug) :
           /\ mailbox' = mailbox \o r
           /\ \A x \in ToSet(r) : x.cmd = "disconnect"
           /\ \A t \in Tool : sessions[t] # 0 <=> \E x \in ToSet(r) : x.tool = t
<1> DEFINE shut == {t \in Tool : sessions[t] # 0}
           S == {VI!Command("disconnect", t) : t \in shut}
           f == [t \in shut |-> VI!Command("disconnect", t)]
<1>1. IsFiniteSet(shut)
  BY FS_Subset
<1>2. f \in Surjection(shut, S)
  BY DEF Surjection
<1>3. IsFiniteSet(S)
  BY <1>1, <1>2, FS_Surjection
<1>4. S \subseteq Debug
  BY DebugFacts
<1>5. mailbox' = mailbox \o VI!SetToSeq(S)
  BY DEF VI!DisableSessions
<1>6. \A x \in S : x.cmd = "disconnect"
  BY DebugFacts
<1>7. \A t \in Tool : sessions[t] # 0 <=> \E x \in S : x.tool = t
  <2>1. ASSUME NEW t \in Tool, sessions[t] # 0
        PROVE  \E x \in S : x.tool = t
    <3>1. VI!Command("disconnect", t) \in S /\ VI!Command("disconnect", t).tool = t
      BY <2>1, DebugFacts
    <3> QED
      BY <3>1
  <2>2. ASSUME NEW t \in Tool, NEW x \in S, x.tool = t
        PROVE  sessions[t] # 0
    <3>1. PICK u \in shut : x = VI!Command("disconnect", u)
      OBVIOUS
    <3>2. x.tool = u
      BY <3>1, DebugFacts
    <3> QED
      BY <2>2, <3>2
  <2> QED
    BY <2>1, <2>2
<1> HIDE DEF S
<1>8. VI!SetToSeq(S) \in Seq(S) /\ ToSet(VI!SetToSeq(S)) = S
  BY <1>3, ListFacts
<1>9. VI!SetToSeq(S) \in Seq(Debug)
  BY <1>4, <1>8
<1> QED
  BY <1>5, <1>6, <1>7, <1>8, <1>9

LEMMA InspectorTypesStep ==
  ASSUME Tool # {}, IsFiniteSet(Tool), InspectorTypes, [VI!Next]_VI!vars
  PROVE  InspectorTypes'
<1> USE DEF VI!serviceVars, VI!proxyVars
<1>1. ASSUME NEW t \in Tool, VI!ToolConnects(t)
      PROVE  InspectorTypes'
  <2>1. Append(mailbox, VI!Command("connect", t)) \in Seq(Debug)
    BY DebugFacts, PushFacts DEF InspectorTypes
  <2> QED
    BY <1>1, <2>1 DEF InspectorTypes, VI!ToolConnects
<1>2. ASSUME NEW t \in Tool, VI!ToolSends(t)
      PROVE  InspectorTypes'
  <2>1. PICK m \in Debug :
          /\ m.tool = t
          /\ events' = [events EXCEPT ![t] = Append(@, m)]
          /\ count' \in {count, count + 1}
    BY <1>2, SendsFacts
  <2>2. Append(events[t], m) \in Seq(Debug) /\ ToSet(Append(events[t], m)) = ToSet(events[t]) \cup {m}
    BY PushFacts DEF InspectorTypes
  <2>3. /\ events' \in [Tool -> Seq(Debug)]
        /\ events'[t] = Append(events[t], m)
        /\ \A u \in Tool : u # t => events'[u] = events[u]
    BY <2>1, <2>2 DEF InspectorTypes
  <2>4. \A u \in Tool : \A x \in ToSet(events'[u]) : x.tool = u
    BY <2>1, <2>2, <2>3 DEF InspectorTypes
  <2>5. count' \in Nat
    BY <2>1 DEF InspectorTypes
  <2>6. UNCHANGED <<tool, sessions, pipe, mailbox, delivered>>
    BY <1>2 DEF VI!ToolSends
  <2> QED
    BY <2>3, <2>4, <2>5, <2>6 DEF InspectorTypes
<1>3. ASSUME NEW t \in Tool, VI!ConnectAnswered(t)
      PROVE  InspectorTypes'
  <2> DEFINE id == (CHOOSE s \in VI!SessionOf(t) : TRUE).id
  <2>1. /\ tool' = [tool EXCEPT ![t] = "open"] /\ sessions' = [sessions EXCEPT ![t] = id]
        /\ UNCHANGED <<events, count, pipe, mailbox, delivered>>
    BY <1>3 DEF VI!ConnectAnswered
  <2> HIDE DEF id
  <2>2. sessions' = [u \in Tool |-> sessions'[u]]
    BY <2>1 DEF InspectorTypes
  <2> QED
    BY <2>1, <2>2 DEF InspectorTypes
<1>4. ASSUME NEW t \in Tool, VI!ToolEvent(t)
      PROVE  InspectorTypes'
  <2>1. PICK m \in Debug :
          /\ m.tool = t /\ m = Head(events[t]) /\ events[t] # << >>
          /\ events' = [events EXCEPT ![t] = Tail(@)]
    BY <1>4, EventFacts
  <2>2. /\ Tail(events[t]) \in Seq(Debug)
        /\ ToSet(Tail(events[t])) \subseteq ToSet(events[t])
    BY <2>1, PopFacts DEF InspectorTypes
  <2>3. /\ events' \in [Tool -> Seq(Debug)]
        /\ events'[t] = Tail(events[t])
        /\ \A u \in Tool : u # t => events'[u] = events[u]
    BY <2>1, <2>2 DEF InspectorTypes
  <2>4. \A u \in Tool : \A x \in ToSet(events'[u]) : x.tool = u
    BY <2>2, <2>3 DEF InspectorTypes
  <2>5. /\ Append(pipe, m) \in Seq(Debug) /\ Append(mailbox, m) \in Seq(Debug)
        /\ Append(pipe, VI!Quit) \in Seq(Debug)
        /\ Append(mailbox, VI!Command("disconnect", t)) \in Seq(Debug)
    BY DebugFacts, PushFacts DEF InspectorTypes
  <2>6. pipe' \in Seq(Debug) /\ mailbox' \in Seq(Debug)
    BY <1>4, <2>1, <2>5 DEF InspectorTypes, VI!ToolEvent, VI!Forward, VI!CloseWs, VI!Breaks
  <2>7. /\ tool' \in [Tool -> {"off", "calling", "answered", "open", "lost", "closed"}]
        /\ sessions' = [u \in Tool |-> sessions'[u]]
        /\ UNCHANGED <<count, delivered>>
    BY <1>4 DEF InspectorTypes, VI!ToolEvent, VI!Forward, VI!CloseWs, VI!Breaks
  <2> QED
    BY <2>3, <2>4, <2>6, <2>7 DEF InspectorTypes
<1>5. CASE VI!Pause \/ VI!CallDisable \/ VI!Breakpoint \/ UNCHANGED VI!vars
  BY <1>5 DEF InspectorTypes, VI!Pause, VI!CallDisable, VI!Breakpoint, VI!vars
<1>6. CASE VI!PauseAccepted \/ VI!Resume \/ VI!Disable
  <2>1. Append(pipe, VI!Quit) \in Seq(Debug) /\ <<VI!Quit>> \in Seq(Debug) /\ << >> \in Seq(Debug)
    BY DebugFacts, PushFacts, EmptySeq DEF InspectorTypes
  <2>2. pipe' \in Seq(Debug) /\ UNCHANGED <<tool, sessions, events, mailbox, count, delivered>>
    BY <1>6, <2>1 DEF InspectorTypes, VI!PauseAccepted, VI!Resume, VI!Disable
  <2> QED
    BY <2>2 DEF InspectorTypes
<1>7. CASE VI!DisableSessions
  <2>1. mailbox' \in Seq(Debug)
    <3>1. PICK r \in Seq(Debug) :
            mailbox' = mailbox \o r /\ \A x \in ToSet(r) : x.cmd = "disconnect"
      BY <1>7, DisableFacts
    <3> QED
      BY <3>1, JoinFacts DEF InspectorTypes
  <2> QED
    BY <1>7, <2>1 DEF InspectorTypes, VI!DisableSessions
<1>8. CASE VI!DebugCommand
  <2>1. mailbox # << >> /\ mailbox' = Tail(mailbox) /\ UNCHANGED <<events, count, sessions, pipe>>
    BY <1>8 DEF VI!DebugCommand
  <2>2. Tail(mailbox) \in Seq(Debug) /\ Head(mailbox) \in Debug
    BY <2>1, PopFacts DEF InspectorTypes
  <2>3. \/ delivered' = delivered
        \/ VI!Deliver(Head(mailbox), "mailbox")
    BY <1>8 DEF VI!DebugCommand, VI!Connect, VI!Disconnect
  <2>4. delivered' \in [Tool -> Seq(Given)]
    BY <2>2, <2>3, DeliverFacts DEF InspectorTypes
  <2>5. tool' \in [Tool -> {"off", "calling", "answered", "open", "lost", "closed"}]
    BY <1>8 DEF InspectorTypes, VI!DebugCommand, VI!Connect, VI!Disconnect
  <2> QED
    BY <2>1, <2>2, <2>4, <2>5 DEF InspectorTypes
<1>9. CASE VI!ReadMessage
  <2>1. pipe # << >> /\ pipe' \in {<< >>, Tail(pipe)}
        /\ UNCHANGED <<tool, events, count, sessions, mailbox>>
    BY <1>9 DEF VI!ReadMessage
  <2>2. Tail(pipe) \in Seq(Debug) /\ Head(pipe) \in Debug /\ << >> \in Seq(Debug)
    BY <2>1, PopFacts, EmptySeq DEF InspectorTypes
  <2>3. delivered' = delivered \/ VI!Deliver(Head(pipe), "pipe")
    BY <1>9 DEF VI!ReadMessage
  <2>4. delivered' \in [Tool -> Seq(Given)]
    BY <2>2, <2>3, DeliverFacts DEF InspectorTypes
  <2> QED
    BY <2>1, <2>2, <2>4 DEF InspectorTypes
<1> QED
  BY <1>1, <1>2, <1>3, <1>4, <1>5, <1>6, <1>7, <1>8, <1>9 DEF VI!Next

LEMMA PausingStep ==
  ASSUME Tool # {}, InspectorTypes, Pausing, [VI!Next]_VI!vars
  PROVE  Pausing'
<1> USE DEF VI!serviceVars, VI!proxyVars
<1>1. ASSUME NEW t \in Tool, VI!ToolConnects(t) \/ VI!ToolSends(t) \/ VI!ConnectAnswered(t)
      PROVE  Pausing'
  BY <1>1 DEF Pausing, VI!ToolConnects, VI!ToolSends, VI!ConnectAnswered
<1>2. ASSUME NEW t \in Tool, VI!ToolEvent(t)
      PROVE  Pausing'
  <2>1. UNCHANGED <<target, request>>
    BY <1>2 DEF VI!ToolEvent
  <2>2. CASE VI!Forward(t) /\ proxy = "open"
    <3>1. Head(events[t]) \in Debug /\ Head(events[t]).cmd = "msg"
      BY <1>2, <2>2, EventFacts DEF VI!Forward
    <3>2. pipe' = Append(pipe, Head(events[t])) /\ proxy' = proxy
      BY <2>2 DEF VI!Forward
    <3>3. ToSet(pipe') = ToSet(pipe) \cup {Head(events[t])}
      BY <3>1, <3>2, PushFacts DEF InspectorTypes
    <3> QED
      BY <2>1, <2>2, <3>1, <3>2, <3>3 DEF Pausing
  <2>3. CASE pipe' = Append(pipe, VI!Quit) /\ proxy = "open" /\ proxy' = "none"
    BY <2>1, <2>3 DEF Pausing
  <2>4. CASE UNCHANGED <<pipe, proxy>>
    BY <2>1, <2>4 DEF Pausing
  <2> QED
    BY <1>2, <2>2, <2>3, <2>4 DEF VI!ToolEvent, VI!Forward, VI!CloseWs, VI!Breaks
<1>3. CASE VI!Pause \/ VI!CallDisable \/ VI!Breakpoint \/ UNCHANGED VI!vars
  BY <1>3 DEF Pausing, VI!Pause, VI!CallDisable, VI!Breakpoint, VI!vars
<1>4. CASE VI!PauseAccepted
  <2>1. ToSet(<< >>) = {}
    BY DEF ToSet
  <2> QED
    BY <1>4, <2>1 DEF Pausing, VI!PauseAccepted
<1>5. CASE VI!Resume \/ VI!Disable
  BY <1>5 DEF Pausing, VI!Resume, VI!Disable
<1>6. CASE VI!DisableSessions \/ VI!DebugCommand
  BY <1>6 DEF Pausing, VI!DisableSessions, VI!DebugCommand
<1>7. CASE VI!ReadMessage
  <2>1. pipe # << >> /\ VI!Stopped /\ UNCHANGED <<request, proxy>>
    BY <1>7 DEF VI!ReadMessage
  <2>2. ToSet(pipe) = {Head(pipe)} \cup ToSet(Tail(pipe)) /\ ToSet(<< >>) = {}
    <3>1. ToSet(<< >>) = {}
      BY DEF ToSet
    <3> QED
      BY <2>1, <3>1, PopFacts DEF InspectorTypes
  <2>3. CASE Head(pipe).cmd = "quit"
    <3>1. target' = "running" /\ pipe' = << >> /\ proxy # "open" /\ request = "none"
      BY <1>7, <2>1, <2>2, <2>3 DEF VI!ReadMessage, Pausing, VI!Stopped
    <3> QED
      BY <2>1, <2>2, <3>1 DEF Pausing
  <2>4. CASE Head(pipe).cmd # "quit"
    <3>1. target' \in {target, "resuming"} /\ pipe' = Tail(pipe)
      BY <1>7, <2>4 DEF VI!ReadMessage
    <3> QED
      BY <2>1, <2>2, <3>1 DEF Pausing, VI!Stopped
  <2> QED
    BY <2>3, <2>4
<1> QED
  BY <1>1, <1>2, <1>3, <1>4, <1>5, <1>6, <1>7 DEF VI!Next

\* One more message in the mailbox.
LEMMA PostedFacts ==
  ASSUME InspectorTypes, NEW m \in Debug, mailbox' = Append(mailbox, m)
  PROVE  /\ \A c \in {"connect", "disconnect"} : \A t \in Tool :
              Posted(c, t)' <=> Posted(c, t) \/ (m.cmd = c /\ m.tool = t)
         /\ m.cmd # "connect" /\ Once(mailbox) => Once(mailbox')
<1>1. /\ ToSet(mailbox') = ToSet(mailbox) \cup {m}
      /\ m.cmd # "connect" /\ Once(mailbox) => Once(mailbox')
  BY PushFacts DEF InspectorTypes
<1> QED
  BY <1>1 DEF Posted

LEMMA LinkedSame ==
  ASSUME NEW t \in Tool, Linked(t), tool'[t] = tool[t], sessions'[t] # 0 => sessions[t] # 0,
         HasSession(t)' <=> HasSession(t), Posted("connect", t)' => Posted("connect", t),
         Posted("disconnect", t)' <=> Posted("disconnect", t)
  PROVE  Linked(t)'
  BY DEF Linked

LEMMA ConnectedQuiet ==
  ASSUME Connected, UNCHANGED <<tool, sessions, mailbox, live>>
  PROVE  Connected'
  BY DEF Connected, Linked, Posted, HasSession

LEMMA ToolEventConnected ==
  ASSUME Tool # {}, InspectorTypes, Connected, NEW t \in Tool, VI!ToolEvent(t)
  PROVE  Connected'
<1> DEFINE m == Head(events[t])
<1>1. m \in Debug /\ m.tool = t /\ tool[t] = "open" /\ live' = live
  BY EventFacts DEF VI!ToolEvent, VI!serviceVars
<1>2. \A u \in Tool : HasSession(u)' <=> HasSession(u)
  BY <1>1 DEF HasSession
<1>3. ~ Posted("connect", t) /\ ~ Posted("disconnect", t) /\ HasSession(t) /\ Once(mailbox)
  BY <1>1 DEF Connected, Linked
<1>4. CASE VI!Forward(t)
  <2>1. /\ m.cmd = "msg" /\ sessions' = sessions
        /\ mailbox' = mailbox \/ mailbox' = Append(mailbox, m)
        /\ tool' = tool \/ tool' = [tool EXCEPT ![t] = "lost"]
    BY <1>4 DEF VI!Forward
  <2> HIDE DEF m
  <2>2. /\ Once(mailbox')
        /\ \A u \in Tool : /\ Posted("connect", u)' <=> Posted("connect", u)
                           /\ Posted("disconnect", u)' <=> Posted("disconnect", u)
    <3>1. CASE mailbox' = mailbox
      BY <1>3, <3>1 DEF Posted
    <3>2. CASE mailbox' = Append(mailbox, m)
      BY <1>1, <1>3, <2>1, <3>2, PostedFacts
    <3> QED
      BY <2>1, <3>1, <3>2
  <2>3. \A u \in Tool : u # t => tool'[u] = tool[u]
    BY <2>1 DEF InspectorTypes
  <2>4. tool'[t] \in {"open", "lost"}
    BY <1>1, <2>1 DEF InspectorTypes
  <2>5. \A u \in Tool : u # t => Linked(u)'
    BY <1>2, <2>1, <2>2, <2>3, LinkedSame DEF Connected
  <2>6. Linked(t)'
    BY <1>2, <1>3, <2>2, <2>4 DEF Linked
  <2> QED
    BY <1>1, <2>2, <2>5, <2>6 DEF Connected
<1>5. CASE VI!CloseWs(t)
  <2> DEFINE c == VI!Command("disconnect", t)
  <2>1. /\ mailbox' = Append(mailbox, c)
        /\ tool' = [tool EXCEPT ![t] = "closed"] /\ sessions' = [sessions EXCEPT ![t] = 0]
    BY <1>5 DEF VI!CloseWs
  <2>2. c \in Debug /\ c.cmd = "disconnect" /\ c.tool = t
    BY DebugFacts
  <2> HIDE DEF c
  <2>3. /\ Once(mailbox')
        /\ \A u \in Tool : /\ Posted("connect", u)' <=> Posted("connect", u)
                           /\ Posted("disconnect", u)' <=> Posted("disconnect", u) \/ u = t
    BY <1>3, <2>1, <2>2, PostedFacts
  <2>4. /\ tool'[t] = "closed"
        /\ \A u \in Tool : u # t => tool'[u] = tool[u] /\ sessions'[u] = sessions[u]
    BY <2>1 DEF InspectorTypes
  <2>5. \A u \in Tool : u # t => Linked(u)'
    BY <1>2, <2>3, <2>4, LinkedSame DEF Connected
  <2>6. Linked(t)'
    BY <1>3, <2>3, <2>4 DEF Linked
  <2> QED
    BY <1>1, <2>3, <2>5, <2>6 DEF Connected
<1>6. CASE VI!Breaks(t)
  <2>1. tool' = [tool EXCEPT ![t] = "lost"] /\ UNCHANGED <<mailbox, sessions>>
    BY <1>6 DEF VI!Breaks
  <2>2. tool'[t] = "lost" /\ \A u \in Tool : u # t => tool'[u] = tool[u]
    BY <2>1 DEF InspectorTypes
  <2>3. \A c \in {"connect", "disconnect"}, u \in Tool : Posted(c, u)' <=> Posted(c, u)
    BY <2>1 DEF Posted
  <2>4. \A u \in Tool : u # t => Linked(u)'
    BY <1>2, <2>1, <2>2, <2>3, LinkedSame DEF Connected
  <2>5. Linked(t)'
    BY <1>2, <1>3, <2>2, <2>3 DEF Linked
  <2> QED
    BY <1>1, <1>3, <2>1, <2>4, <2>5 DEF Connected
<1> QED
  BY <1>4, <1>5, <1>6 DEF VI!ToolEvent

\* The service takes the first message of its mailbox.
LEMMA DebugCommandConnected ==
  ASSUME Tool # {}, InspectorTypes, Connected, VI!DebugCommand
  PROVE  Connected'
<1>1. mailbox # << >> /\ mailbox' = Tail(mailbox) /\ sessions' = sessions
  BY DEF VI!DebugCommand
<1>2. PICK m \in Debug, t \in Tool :
        /\ m = Head(mailbox) /\ t = m.tool
        /\ ToSet(mailbox) = {m} \cup ToSet(mailbox')
        /\ Once(mailbox')
        /\ m.cmd = "connect" => \A x \in ToSet(mailbox') : x.cmd = "connect" => x.tool # t
  BY <1>1, PopFacts, DebugFacts DEF InspectorTypes, Connected
<1>3. \/ VI!Connect(m) \/ VI!Disconnect(m)
      \/ m.cmd = "msg" /\ UNCHANGED <<live, tool>>
  BY <1>2 DEF VI!DebugCommand
<1>4. \A c \in {"connect", "disconnect"}, u \in Tool :
        Posted(c, u) <=> Posted(c, u)' \/ (m.cmd = c /\ m.tool = u)
  BY <1>2 DEF Posted
<1>5. t = m.tool
  BY <1>2
<1>6. CASE VI!Connect(m)
  <2>1. /\ m.cmd = "connect" /\ tool' = [tool EXCEPT ![t] = "answered"]
        /\ live' = live \cup {[id |-> next_session_id', tool |-> t]}
    BY <1>5, <1>6 DEF VI!Connect
  <2>2. tool[t] = "calling" /\ ~ Posted("connect", t)' /\ ~ Posted("disconnect", t) /\ sessions[t] = 0
    <3>1. Posted("connect", t)
      BY <1>2, <1>4, <1>5, <2>1
    <3>2. tool[t] = "calling"
      BY <1>2, <3>1 DEF Connected, Linked
    <3>3. ~ Posted("connect", t)'
      BY <1>2, <2>1 DEF Posted
    <3> QED
      BY <1>2, <3>2, <3>3 DEF Connected, Linked
  <2>3. tool'[t] = "answered" /\ \A u \in Tool : u # t => tool'[u] = tool[u]
    BY <1>2, <2>1 DEF InspectorTypes
  <2>4. HasSession(t)' /\ \A u \in Tool : u # t => (HasSession(u)' <=> HasSession(u))
    <3> DEFINE e == [id |-> next_session_id', tool |-> t]
    <3>1. e.tool = t /\ live' = live \cup {e}
      BY <2>1
    <3> HIDE DEF e
    <3>2. HasSession(t)'
      BY <3>1 DEF HasSession
    <3>3. \A u \in Tool : u # t => (HasSession(u)' <=> HasSession(u))
      BY <3>1 DEF HasSession
    <3> QED
      BY <3>2, <3>3
  <2>5. \A u \in Tool : u # t => Linked(u)'
    <3> SUFFICES ASSUME NEW u \in Tool, u # t
                 PROVE  Linked(u)'
      OBVIOUS
    <3>1. Linked(u)
      BY DEF Connected
    <3>2. /\ Posted("connect", u)' => Posted("connect", u)
          /\ Posted("disconnect", u)' <=> Posted("disconnect", u)
      BY <1>4, <1>5, <2>1
    <3> QED
      BY <1>1, <2>3, <2>4, <3>1, <3>2, LinkedSame
  <2>6. Linked(t)'
    <3>1. ~ Posted("disconnect", t)'
      BY <1>2, <1>4, <2>2
    <3> QED
      BY <1>1, <2>2, <2>3, <2>4, <3>1 DEF Linked
  <2>7. \A s \in live' : s.tool \in Tool
    BY <1>2, <2>1 DEF Connected
  <2> QED
    BY <1>2, <2>5, <2>6, <2>7 DEF Connected
<1>7. CASE VI!Disconnect(m)
  <2>1. m.cmd = "disconnect" /\ tool' = tool /\ live' = live \ VI!SessionOf(t)
    BY <1>5, <1>7 DEF VI!Disconnect
  <2>2. tool[t] = "closed" /\ ~ Posted("connect", t)'
    BY <1>2, <1>4, <1>5, <2>1 DEF Connected, Linked
  <2>3. ~ HasSession(t)' /\ \A u \in Tool : u # t => (HasSession(u)' <=> HasSession(u))
    BY <2>1 DEF HasSession, VI!SessionOf
  <2>4. \A u \in Tool : u # t => Linked(u)'
    <3> SUFFICES ASSUME NEW u \in Tool, u # t
                 PROVE  Linked(u)'
      OBVIOUS
    <3>1. Linked(u)
      BY DEF Connected
    <3>2. /\ Posted("connect", u)' => Posted("connect", u)
          /\ Posted("disconnect", u)' <=> Posted("disconnect", u)
      BY <1>4, <1>5, <2>1
    <3> QED
      BY <1>1, <2>1, <2>3, <3>1, <3>2, LinkedSame
  <2>5. Linked(t)'
    BY <2>1, <2>2, <2>3 DEF Linked
  <2>6. \A s \in live' : s.tool \in Tool
    BY <2>1 DEF Connected
  <2> QED
    BY <1>2, <2>4, <2>5, <2>6 DEF Connected
<1>8. CASE m.cmd = "msg" /\ UNCHANGED <<live, tool>>
  <2>1. \A u \in Tool : HasSession(u)' <=> HasSession(u)
    BY <1>8 DEF HasSession
  <2>2. \A u \in Tool : Linked(u)'
    <3> SUFFICES ASSUME NEW u \in Tool
                 PROVE  Linked(u)'
      OBVIOUS
    <3>1. Linked(u)
      BY DEF Connected
    <3>2. /\ Posted("connect", u)' => Posted("connect", u)
          /\ Posted("disconnect", u)' <=> Posted("disconnect", u)
      BY <1>4, <1>8
    <3> QED
      BY <1>1, <1>8, <2>1, <3>1, <3>2, LinkedSame
  <2> QED
    BY <1>2, <1>8, <2>2 DEF Connected
<1> QED
  BY <1>3, <1>6, <1>7, <1>8

LEMMA ConnectedStep ==
  ASSUME Tool # {}, IsFiniteSet(Tool), InspectorTypes, Connected, [VI!Next]_VI!vars
  PROVE  Connected'
<1> USE DEF VI!serviceVars, VI!proxyVars
<1>1. ASSUME NEW t \in Tool, VI!ToolConnects(t)
      PROVE  Connected'
  <2> DEFINE c == VI!Command("connect", t)
  <2>1. /\ mailbox' = Append(mailbox, c) /\ tool[t] = "off" /\ tool' = [tool EXCEPT ![t] = "calling"]
        /\ UNCHANGED <<sessions, live>>
    BY <1>1 DEF VI!ToolConnects
  <2>2. c \in Debug /\ c.cmd = "connect" /\ c.tool = t
    BY DebugFacts
  <2> HIDE DEF c
  <2>3. \A u \in Tool : /\ Posted("connect", u)' <=> Posted("connect", u) \/ u = t
                        /\ Posted("disconnect", u)' <=> Posted("disconnect", u)
    BY <2>1, <2>2, PostedFacts
  <2>4. Linked(t)
    BY DEF Connected
  <2>5. tool'[t] = "calling" /\ \A u \in Tool : u # t => tool'[u] = tool[u]
    BY <2>1 DEF InspectorTypes
  <2>6. \A u \in Tool : HasSession(u)' <=> HasSession(u)
    BY <2>1 DEF HasSession
  <2>7. \A u \in Tool : u # t => Linked(u)'
    BY <2>1, <2>3, <2>5, <2>6, LinkedSame DEF Connected
  <2>8. Linked(t)'
    BY <2>1, <2>3, <2>4, <2>5, <2>6 DEF Linked
  <2>9. Once(mailbox')
    <3>1. \A x \in ToSet(mailbox) : x.cmd = "connect" => x.tool # t
      BY <2>1, <2>4 DEF Linked, Posted
    <3> QED
      BY <2>1, <2>2, <3>1, PushFacts DEF InspectorTypes, Connected
  <2> QED
    BY <2>1, <2>7, <2>8, <2>9 DEF Connected
<1>2. ASSUME NEW t \in Tool, VI!ConnectAnswered(t)
      PROVE  Connected'
  <2> DEFINE id == (CHOOSE s \in VI!SessionOf(t) : TRUE).id
  <2>1. /\ tool' = [tool EXCEPT ![t] = "open"] /\ sessions' = [sessions EXCEPT ![t] = id]
        /\ tool[t] = "answered" /\ UNCHANGED <<mailbox, live>>
    BY <1>2 DEF VI!ConnectAnswered
  <2> HIDE DEF id
  <2>2. /\ tool'[t] = "open"
        /\ \A u \in Tool : u # t => tool'[u] = tool[u] /\ sessions'[u] = sessions[u]
    BY <2>1 DEF InspectorTypes
  <2>3. /\ \A u \in Tool : HasSession(u)' <=> HasSession(u)
        /\ \A c \in {"connect", "disconnect"}, u \in Tool : Posted(c, u)' <=> Posted(c, u)
    BY <2>1 DEF HasSession, Posted
  <2>4. \A u \in Tool : u # t => Linked(u)'
    BY <2>2, <2>3, LinkedSame DEF Connected
  <2>5. Linked(t)
    BY DEF Connected
  <2>6. Linked(t)'
    BY <2>1, <2>2, <2>3, <2>5 DEF Linked
  <2> QED
    BY <2>1, <2>4, <2>6 DEF Connected
<1>3. ASSUME NEW t \in Tool, VI!ToolEvent(t)
      PROVE  Connected'
  BY <1>3, ToolEventConnected
<1>4. ASSUME NEW t \in Tool, VI!ToolSends(t)
      PROVE  Connected'
  BY <1>4, ConnectedQuiet DEF VI!ToolSends
<1>5. CASE VI!Pause \/ VI!PauseAccepted \/ VI!Resume \/ VI!Disable \/ VI!CallDisable
           \/ VI!Breakpoint \/ VI!ReadMessage \/ UNCHANGED VI!vars
  BY <1>5, ConnectedQuiet
     DEF VI!Pause, VI!PauseAccepted, VI!Resume, VI!Disable, VI!CallDisable,
         VI!Breakpoint, VI!ReadMessage, VI!vars
<1>6. CASE VI!DisableSessions
  <2>1. PICK r \in Seq(Debug) :
          /\ mailbox' = mailbox \o r
          /\ \A x \in ToSet(r) : x.cmd = "disconnect"
          /\ \A t \in Tool : sessions[t] # 0 <=> \E x \in ToSet(r) : x.tool = t
    BY <1>6, DisableFacts
  <2>2. ToSet(mailbox') = ToSet(mailbox) \cup ToSet(r) /\ Once(mailbox')
    BY <2>1, JoinFacts DEF InspectorTypes, Connected
  <2>3. /\ UNCHANGED <<sessions, live>>
        /\ \A t \in Tool : tool'[t] = IF sessions[t] # 0 THEN "closed" ELSE tool[t]
    BY <1>6 DEF VI!DisableSessions
  <2>4. \A t \in Tool : /\ Posted("connect", t)' <=> Posted("connect", t)
                        /\ Posted("disconnect", t)' <=> Posted("disconnect", t) \/ sessions[t] # 0
    BY <2>1, <2>2 DEF Posted
  <2>5. \A t \in Tool : HasSession(t)' <=> HasSession(t)
    BY <2>3 DEF HasSession
  <2>6. ASSUME NEW t \in Tool
        PROVE  Linked(t)'
    <3>1. Linked(t)
      BY DEF Connected
    <3>2. CASE sessions[t] = 0
      BY <2>3, <2>4, <2>5, <3>1, <3>2, LinkedSame
    <3>3. CASE sessions[t] # 0
      BY <2>3, <2>4, <2>5, <3>1, <3>3 DEF Linked
    <3> QED
      BY <3>2, <3>3
  <2> QED
    BY <2>2, <2>3, <2>6 DEF Connected
<1>7. CASE VI!DebugCommand
  BY <1>7, DebugCommandConnected
<1> QED
  BY <1>1, <1>2, <1>3, <1>4, <1>5, <1>6, <1>7 DEF VI!Next

\* What was given to a tool's session, and one message more.
LEMMA GivenFacts ==
  ASSUME NEW q \in Seq(Given), NEW n \in Nat, NEW via \in {"pipe", "mailbox"}
  PROVE  \A d \in ToSet(Append(q, <<n, via>>)) : d \in ToSet(q) \/ (d[1] = n /\ d[2] = via)
<1> DEFINE e == <<n, via>>
           u == Append(q, e)
<1>1. e \in Given /\ e[1] = n /\ e[2] = via
  BY DEF Given
<1> HIDE DEF e
<1>2. u \in Seq(Given) /\ Len(u) = Len(q) + 1
  BY <1>1, AppendProperties
<1>3. (\A i \in 1 .. Len(q) : u[i] = q[i]) /\ u[Len(q) + 1] = e
  BY <1>1, AppendProperties
<1>4. Len(q) \in Nat /\ DOMAIN q = 1 .. Len(q) /\ DOMAIN u = 1 .. Len(q) + 1
  BY <1>2, LenProperties
<1> HIDE DEF u
<1>5. \A i \in DOMAIN u : u[i] = e \/ (i \in DOMAIN q /\ u[i] = q[i])
  BY <1>3, <1>4
<1>6. \A d \in ToSet(u) : d \in ToSet(q) \/ d = e
  BY <1>5 DEF ToSet
<1> QED
  BY <1>1, <1>6 DEF u, e

LEMMA GivenTypes ==
  ASSUME NEW q \in Seq(Given)
  PROVE  \A d \in ToSet(q) : d[1] \in Nat /\ d[2] \in {"pipe", "mailbox"}
<1>1. \A d \in ToSet(q) : d \in Given
  BY ElementOfSeq, LenProperties DEF ToSet
<1> QED
  BY <1>1 DEF Given

\* A message that is behind those that came before may be given.
LEMMA OvertakenFacts ==
  ASSUME NEW q \in Seq(Given), NEW n \in Nat, NEW via \in {"pipe", "mailbox"},
         Overtaken(q), Behind(q, n, via)
  PROVE  Overtaken(Append(q, <<n, via>>))
<1> DEFINE e == <<n, via>>
           u == Append(q, e)
           k == Len(q) + 1
<1>1. e \in Given /\ e[1] = n /\ e[2] = via
  BY DEF Given
<1> HIDE DEF e
<1>2. u \in Seq(Given) /\ Len(u) = Len(q) + 1
  BY <1>1, AppendProperties
<1>3. (\A i \in 1 .. Len(q) : u[i] = q[i]) /\ u[Len(q) + 1] = e
  BY <1>1, AppendProperties
<1>4. Len(q) \in Nat /\ DOMAIN q = 1 .. Len(q) /\ DOMAIN u = 1 .. Len(q) + 1
  BY <1>2, LenProperties
<1>5. /\ DOMAIN u = DOMAIN q \cup {k} /\ u[k] = e
      /\ \A i \in DOMAIN q : u[i] = q[i]
      /\ \A i \in DOMAIN u : ~ (k < i)
      /\ \A i \in DOMAIN u : \A j \in DOMAIN q : i < j => i \in DOMAIN q
  BY <1>3, <1>4
<1> HIDE DEF k, u
<1>6. ASSUME NEW i \in DOMAIN u, NEW j \in DOMAIN u, i < j
      PROVE  \/ u[i][1] < u[j][1]
             \/ u[i][1] > u[j][1] /\ u[i][2] = "pipe" /\ u[j][2] = "mailbox"
  <2>1. CASE j \in DOMAIN q
    BY <1>5, <1>6, <2>1 DEF Overtaken
  <2>2. CASE j = k
    <3>1. i \in DOMAIN q
      BY <1>5, <1>6, <2>2
    <3>2. q[i] \in ToSet(q) /\ u[i] = q[i]
      BY <1>5, <3>1 DEF ToSet
    <3>3. /\ u[i][1] \in Nat /\ u[i][2] \in {"pipe", "mailbox"} /\ u[i][1] # n
          /\ u[i][2] = "mailbox" \/ via = "pipe" => u[i][1] < n
      BY <3>2, GivenTypes DEF Behind
    <3>4. u[j][1] = n /\ u[j][2] = via
      BY <1>1, <1>5, <2>2
    <3> QED
      BY <3>3, <3>4
  <2> QED
    BY <1>5, <2>1, <2>2
<1>7. Overtaken(u)
  BY <1>6 DEF Overtaken
<1> QED
  BY <1>7 DEF u, e

LEMMA NumbersKept ==
  ASSUME Numbers, UNCHANGED <<count, delivered>>,
         Sorted(pipe'), Sorted(mailbox'), \A t \in Tool : Sorted(events'[t]),
         Msgs(pipe') \subseteq Msgs(pipe), Msgs(mailbox') \subseteq Msgs(mailbox),
         \A t \in Tool : Msgs(events'[t]) \subseteq Msgs(events[t])
  PROVE  Numbers'
  BY DEF Numbers

LEMMA NumbersDelivered ==
  ASSUME Tool # {}, InspectorTypes, Numbers, UNCHANGED <<count, events>>,
         NEW m \in Debug, NEW via \in {"pipe", "mailbox"}, VI!Deliver(m, via), m.n <= count,
         Sorted(pipe'), Sorted(mailbox'),
         Msgs(pipe') \subseteq Msgs(pipe), Msgs(mailbox') \subseteq Msgs(mailbox),
         \A x \in Msgs(events[m.tool]) : m.n < x.n,
         \A x \in Msgs(pipe') : x.tool = m.tool => m.n < x.n,
         \A x \in Msgs(mailbox') :
           x.tool = m.tool => m.n # x.n /\ (via = "mailbox" => m.n < x.n)
  PROVE  Numbers'
<1>1. m.tool \in Tool /\ m.n \in Nat
  BY DebugFacts
<1>2. ASSUME NEW t \in Tool, NEW d \in ToSet(delivered'[t])
      PROVE  d \in ToSet(delivered[t]) \/ (t = m.tool /\ d[1] = m.n /\ d[2] = via)
  <2>1. \/ delivered'[t] = delivered[t]
        \/ t = m.tool /\ delivered'[t] = Append(delivered[t], <<m.n, via>>)
    BY DeliverFacts
  <2>2. delivered[t] \in Seq(Given)
    BY DEF InspectorTypes
  <2>3. \A e \in ToSet(Append(delivered[t], <<m.n, via>>)) :
          e \in ToSet(delivered[t]) \/ (e[1] = m.n /\ e[2] = via)
    BY <1>1, <2>2, GivenFacts
  <2>4. CASE delivered'[t] = delivered[t]
    BY <1>2, <2>4
  <2>5. CASE t = m.tool /\ delivered'[t] = Append(delivered[t], <<m.n, via>>)
    <3>1. d \in ToSet(Append(delivered[t], <<m.n, via>>))
      BY <1>2, <2>5
    <3> QED
      BY <2>3, <2>5, <3>1
  <2> QED
    BY <2>1, <2>4, <2>5
<1>3. \A x \in Msgs(pipe) \cup Msgs(mailbox) : x.tool \in Tool
  <2>1. \A q \in Seq(Debug) : ToSet(q) \subseteq Debug
    BY ElementOfSeq, LenProperties DEF ToSet
  <2> QED
    BY <2>1, DebugFacts DEF Msgs, InspectorTypes
<1>4. \A t \in Tool : \A x \in Msgs(events'[t]) :
        /\ x.n <= count'
        /\ \A y \in Msgs(pipe') \cup Msgs(mailbox') : y.tool = t => y.n < x.n
        /\ \A d \in ToSet(delivered'[t]) : d[1] < x.n
  BY <1>2 DEF Numbers
<1>5. \A x \in Msgs(pipe') :
        /\ x.n <= count'
        /\ \A y \in Msgs(mailbox') : y.tool = x.tool => y.n # x.n
        /\ \A d \in ToSet(delivered'[x.tool]) : d[1] < x.n
  BY <1>2, <1>3 DEF Numbers
<1>6. \A x \in Msgs(mailbox') :
        /\ x.n <= count'
        /\ \A d \in ToSet(delivered'[x.tool]) : d[1] # x.n /\ (d[2] = "mailbox" => d[1] < x.n)
  BY <1>2, <1>3 DEF Numbers
<1>7. \A t \in Tool : \A d \in ToSet(delivered'[t]) : d[1] <= count'
  BY <1>2 DEF Numbers
<1> QED
  BY <1>4, <1>5, <1>6, <1>7 DEF Numbers

\* What is not a message of a tool changes nothing about them.
LEMMA ControlFacts ==
  ASSUME Tool # {}, NEW q \in Seq(Debug), Sorted(q)
  PROVE  /\ Sorted(Append(q, VI!Quit)) /\ Msgs(Append(q, VI!Quit)) = Msgs(q)
         /\ \A c \in {"connect", "disconnect"} : \A t \in Tool :
              /\ Sorted(Append(q, VI!Command(c, t)))
              /\ Msgs(Append(q, VI!Command(c, t))) = Msgs(q)
         /\ \A m \in Debug : m.cmd # "msg" => Sorted(Append(q, m)) /\ Msgs(Append(q, m)) = Msgs(q)
<1>1. ASSUME NEW m \in Debug, m.cmd # "msg"
      PROVE  Sorted(Append(q, m)) /\ Msgs(Append(q, m)) = Msgs(q)
  <2>1. {x \in {m} : x.cmd = "msg"} = {}
    BY <1>1
  <2> QED
    BY <1>1, <2>1, PushFacts
<1> QED
  BY <1>1, DebugFacts

\* The messages of a tool move on, in their order.
LEMMA MsgsFacts ==
  ASSUME NEW q \in Seq(Debug)
  PROVE  /\ Msgs(q) \subseteq Debug
         /\ q # << >> => /\ Msgs(Tail(q)) \subseteq Msgs(q)
                         /\ Head(q).cmd = "msg" => Head(q) \in Msgs(q)
<1>1. ToSet(q) \subseteq Debug
  BY ElementOfSeq, LenProperties DEF ToSet
<1>2. q # << >> => ToSet(q) = {Head(q)} \cup ToSet(Tail(q))
  BY PopFacts
<1> QED
  BY <1>1, <1>2 DEF Msgs

LEMMA SendsNumbers ==
  ASSUME Tool # {}, InspectorTypes, Numbers, NEW t \in Tool, VI!ToolSends(t)
  PROVE  Numbers'
<1>1. UNCHANGED <<pipe, mailbox, delivered>>
  BY DEF VI!ToolSends, VI!serviceVars
<1>2. PICK m \in Debug :
        /\ m.tool = t
        /\ events' = [events EXCEPT ![t] = Append(@, m)]
        /\ \/ m.cmd = "msg" /\ m.n = count + 1 /\ count' = count + 1
           \/ m.cmd # "msg" /\ count' = count
  BY SendsFacts
<1>3. /\ events'[t] = Append(events[t], m) /\ events[t] \in Seq(Debug) /\ count \in Nat
      /\ \A u \in Tool : u # t => events'[u] = events[u]
  BY <1>2 DEF InspectorTypes
<1>4. \A x \in Msgs(events[t]) \cup Msgs(pipe) \cup Msgs(mailbox) : x.n \in Nat /\ x.tool \in Tool
  BY <1>3, MsgsFacts, DebugFacts DEF InspectorTypes
<1>5. \A u \in Tool : \A d \in ToSet(delivered[u]) : d[1] \in Nat
  BY GivenTypes DEF InspectorTypes
<1>6. \A x \in Msgs(events[t]) \cup Msgs(pipe) \cup Msgs(mailbox) : x.n <= count
  BY DEF Numbers
<1>7. CASE m.cmd = "msg"
  <2>1. m.n = count + 1 /\ count' = count + 1
    BY <1>2, <1>7
  <2>2. /\ m.n <= count' /\ count <= count'
        /\ \A x \in Msgs(events[t]) \cup Msgs(pipe) \cup Msgs(mailbox) : x.n < m.n /\ x.n <= count'
        /\ \A u \in Tool : \A d \in ToSet(delivered[u]) : d[1] < m.n /\ d[1] <= count'
    BY <1>3, <1>4, <1>5, <1>6, <2>1 DEF Numbers
  <2>3. Msgs(events'[t]) = Msgs(events[t]) \cup {m} /\ Sorted(events'[t])
    <3>1. Sorted(events[t])
      BY DEF Numbers
    <3>2. {x \in {m} : x.cmd = "msg"} = {m}
      BY <1>7
    <3> QED
      BY <1>3, <2>2, <3>1, <3>2, PushFacts
  <2>4. \A u \in Tool : Sorted(events'[u])
    BY <1>3, <2>3 DEF Numbers
  <2>5. \A u \in Tool : \A x \in Msgs(events'[u]) :
          (x \in Msgs(events[u]) /\ x.n <= count') \/ (u = t /\ x = m)
    <3>1. \A u \in Tool : \A x \in Msgs(events[u]) : x.n \in Nat /\ x.n <= count
      BY MsgsFacts, DebugFacts DEF InspectorTypes, Numbers
    <3>2. \A u \in Tool : \A x \in Msgs(events[u]) : x.n <= count'
      BY <1>3, <2>1, <3>1
    <3> QED
      BY <1>3, <2>3, <3>2
  <2>6. \A u \in Tool : \A x \in Msgs(events'[u]) :
          /\ x.n <= count'
          /\ \A y \in Msgs(pipe') \cup Msgs(mailbox') : y.tool = u => y.n < x.n
          /\ \A d \in ToSet(delivered'[u]) : d[1] < x.n
    BY <1>1, <2>2, <2>5 DEF Numbers
  <2>7. \A x \in Msgs(pipe') :
          /\ x.n <= count'
          /\ \A y \in Msgs(mailbox') : y.tool = x.tool => y.n # x.n
          /\ \A d \in ToSet(delivered'[x.tool]) : d[1] < x.n
    BY <1>1, <2>2 DEF Numbers
  <2>8. \A x \in Msgs(mailbox') :
          /\ x.n <= count'
          /\ \A d \in ToSet(delivered'[x.tool]) : d[1] # x.n /\ (d[2] = "mailbox" => d[1] < x.n)
    BY <1>1, <2>2 DEF Numbers
  <2>9. Sorted(pipe') /\ Sorted(mailbox')
    BY <1>1 DEF Numbers
  <2>10. \A u \in Tool : \A d \in ToSet(delivered'[u]) : d[1] <= count'
    BY <1>1, <2>2
  <2> QED
    BY <2>4, <2>6, <2>7, <2>8, <2>9, <2>10 DEF Numbers
<1>8. CASE m.cmd # "msg"
  <2>1. Sorted(events[t])
    BY DEF Numbers
  <2>2. Msgs(events'[t]) = Msgs(events[t]) /\ Sorted(events'[t])
    BY <1>3, <1>8, <2>1, ControlFacts
  <2>3. \A u \in Tool : Msgs(events'[u]) = Msgs(events[u]) /\ Sorted(events'[u])
    BY <1>3, <2>2 DEF Numbers
  <2> QED
    BY <1>1, <1>2, <1>8, <2>3 DEF Numbers
<1> QED
  BY <1>7, <1>8

LEMMA ToolEventNumbers ==
  ASSUME Tool # {}, InspectorTypes, Numbers, NEW t \in Tool, VI!ToolEvent(t)
  PROVE  Numbers'
<1>1. PICK m \in Debug :
        /\ m.tool = t /\ m = Head(events[t]) /\ events[t] # << >>
        /\ events' = [events EXCEPT ![t] = Tail(@)]
  BY EventFacts
<1>2. UNCHANGED <<count, delivered>>
  BY DEF VI!ToolEvent, VI!serviceVars
<1>3. /\ events'[t] = Tail(events[t]) /\ events[t] \in Seq(Debug)
      /\ \A u \in Tool : u # t => events'[u] = events[u]
  BY <1>1 DEF InspectorTypes
<1>4. \A u \in Tool : Sorted(events'[u]) /\ Msgs(events'[u]) \subseteq Msgs(events[u])
  <2>1. Sorted(events'[t]) /\ Msgs(events'[t]) \subseteq Msgs(events[t])
    BY <1>1, <1>3, PopFacts, MsgsFacts DEF Numbers
  <2> QED
    BY <1>3, <2>1 DEF Numbers
<1>5. CASE VI!Forward(t)
  <2>1. m.cmd = "msg" /\ m \in Msgs(events[t])
    BY <1>1, <1>3, <1>5, MsgsFacts DEF VI!Forward
  <2>2. /\ m.n <= count
        /\ \A y \in Msgs(pipe) \cup Msgs(mailbox) : y.tool = t => y.n < m.n
        /\ \A d \in ToSet(delivered[t]) : d[1] < m.n
        /\ \A x \in Msgs(events'[t]) : m.n < x.n
    <3>1. \A x \in Msgs(events'[t]) : x.tool = t
      BY <1>4 DEF InspectorTypes, Msgs
    <3>2. \A x \in Msgs(events'[t]) : x.tool = t => m.n < x.n
      BY <1>1, <1>3, <2>1, PopFacts DEF Numbers
    <3> QED
      BY <2>1, <3>1, <3>2 DEF Numbers
  <2>3. \A u \in Tool : \A x \in Msgs(events'[u]) : u = t => m.n < x.n
    BY <2>2
  <2>4. {x \in {m} : x.cmd = "msg"} = {m}
    BY <2>1
  <2>5. \A x \in Msgs(pipe) \cup Msgs(mailbox) : x.n \in Nat /\ m.n \in Nat
    BY MsgsFacts, DebugFacts DEF InspectorTypes
  <2>6. CASE pipe' = Append(pipe, m) /\ mailbox' = mailbox
    <3>1. Sorted(pipe') /\ Msgs(pipe') = Msgs(pipe) \cup {m}
      BY <1>1, <2>2, <2>4, <2>6, PushFacts DEF InspectorTypes, Numbers
    <3>2. \A x \in Msgs(pipe') :
            /\ x.n <= count'
            /\ \A y \in Msgs(mailbox') : y.tool = x.tool => y.n # x.n
            /\ \A d \in ToSet(delivered'[x.tool]) : d[1] < x.n
      <4>1. \A y \in Msgs(mailbox) : y.tool = t => y.n # m.n
        BY <2>2, <2>5
      <4> QED
        BY <1>1, <1>2, <2>2, <2>6, <3>1, <4>1 DEF Numbers
    <3>3. \A u \in Tool : \A x \in Msgs(events'[u]) :
            /\ x.n <= count'
            /\ \A y \in Msgs(pipe') \cup Msgs(mailbox') : y.tool = u => y.n < x.n
            /\ \A d \in ToSet(delivered'[u]) : d[1] < x.n
      BY <1>1, <1>2, <1>4, <2>3, <2>6, <3>1 DEF Numbers
    <3> QED
      BY <1>2, <1>4, <2>6, <3>1, <3>2, <3>3 DEF Numbers
  <2>7. CASE pipe' = pipe /\ mailbox' = Append(mailbox, m)
    <3>1. Sorted(mailbox') /\ Msgs(mailbox') = Msgs(mailbox) \cup {m}
      BY <1>1, <2>2, <2>4, <2>7, PushFacts DEF InspectorTypes, Numbers
    <3>2. \A x \in Msgs(mailbox') :
            /\ x.n <= count'
            /\ \A d \in ToSet(delivered'[x.tool]) : d[1] # x.n /\ (d[2] = "mailbox" => d[1] < x.n)
      <4>1. \A d \in ToSet(delivered[t]) : d[1] # m.n
        <5>1. m.n \in Nat /\ \A d \in ToSet(delivered[t]) : d[1] \in Nat
          BY DebugFacts, GivenTypes DEF InspectorTypes
        <5> QED
          BY <2>2, <5>1
      <4> QED
        BY <1>1, <1>2, <2>2, <3>1, <4>1 DEF Numbers
    <3>3. \A u \in Tool : \A x \in Msgs(events'[u]) :
            /\ x.n <= count'
            /\ \A y \in Msgs(pipe') \cup Msgs(mailbox') : y.tool = u => y.n < x.n
            /\ \A d \in ToSet(delivered'[u]) : d[1] < x.n
      BY <1>1, <1>2, <1>4, <2>3, <2>7, <3>1 DEF Numbers
    <3>4. \A x \in Msgs(pipe') :
            /\ x.n <= count'
            /\ \A y \in Msgs(mailbox') : y.tool = x.tool => y.n # x.n
            /\ \A d \in ToSet(delivered'[x.tool]) : d[1] < x.n
      <4>1. \A x \in Msgs(pipe) : x.tool = t => m.n # x.n
        BY <2>2, <2>5
      <4> QED
        BY <1>1, <1>2, <2>7, <3>1, <4>1 DEF Numbers
    <3> QED
      BY <1>2, <1>4, <2>7, <3>1, <3>2, <3>3, <3>4 DEF Numbers
  <2>8. CASE UNCHANGED <<pipe, mailbox>>
    BY <1>2, <1>4, <2>8, NumbersKept DEF Numbers
  <2> QED
    BY <1>1, <1>5, <2>6, <2>7, <2>8 DEF VI!Forward
<1>6. CASE VI!CloseWs(t) \/ VI!Breaks(t)
  <2>1. /\ mailbox' = mailbox \/ mailbox' = Append(mailbox, VI!Command("disconnect", t))
        /\ pipe' = pipe \/ pipe' = Append(pipe, VI!Quit)
    BY <1>6 DEF VI!CloseWs, VI!Breaks
  <2>2. Sorted(mailbox) /\ Sorted(pipe) /\ mailbox \in Seq(Debug) /\ pipe \in Seq(Debug)
    BY DEF Numbers, InspectorTypes
  <2>3. Sorted(mailbox') /\ Msgs(mailbox') = Msgs(mailbox)
    <3> DEFINE q == Append(mailbox, VI!Command("disconnect", t))
    <3>1. Sorted(q) /\ Msgs(q) = Msgs(mailbox)
      BY <2>2, ControlFacts
    <3>2. mailbox' = mailbox \/ mailbox' = q
      BY <2>1
    <3> HIDE DEF q
    <3> QED
      BY <2>2, <3>1, <3>2
  <2>4. Sorted(pipe') /\ Msgs(pipe') = Msgs(pipe)
    BY <2>1, <2>2, ControlFacts
  <2> QED
    BY <1>2, <1>4, <2>3, <2>4, NumbersKept
<1> QED
  BY <1>5, <1>6 DEF VI!ToolEvent

LEMMA EmptyFacts ==
  ASSUME Tool # {}
  PROVE  /\ << >> \in Seq(Debug) /\ ToSet(<< >>) = {} /\ Msgs(<< >>) = {}
         /\ Sorted(<< >>) /\ Once(<< >>)
         /\ <<VI!Quit>> = Append(<< >>, VI!Quit)
<1>1. << >> \in Seq(Debug) /\ DOMAIN << >> = {}
  BY EmptySeq
<1>2. ToSet(<< >>) = {}
  BY DEF ToSet
<1>3. <<VI!Quit>> = Append(<< >>, VI!Quit)
  OBVIOUS
<1> QED
  BY <1>1, <1>2, <1>3 DEF Msgs, Sorted, Once

LEMMA OnPipeStep ==
  ASSUME Tool # {}, InspectorTypes, OnPipe, [VI!Next]_VI!vars
  PROVE  OnPipe'
<1> USE DEF VI!serviceVars, VI!proxyVars
<1>1. ASSUME pipe' = pipe
      PROVE  OnPipe'
  BY <1>1 DEF OnPipe
<1>2. ASSUME NEW m \in Debug, m.cmd \in {"msg", "quit"}, pipe' = Append(pipe, m)
      PROVE  OnPipe'
  <2>1. ToSet(pipe') = ToSet(pipe) \cup {m}
    BY <1>2, PushFacts DEF InspectorTypes
  <2> QED
    BY <1>2, <2>1 DEF OnPipe
<1>3. VI!Quit \in Debug /\ VI!Quit.cmd = "quit"
  BY DebugFacts
<1>4. ASSUME NEW t \in Tool, VI!ToolEvent(t)
      PROVE  OnPipe'
  <2>1. PICK m \in Debug : m = Head(events[t])
    BY <1>4, EventFacts
  <2>2. \/ pipe' = pipe
        \/ m.cmd = "msg" /\ pipe' = Append(pipe, m)
        \/ pipe' = Append(pipe, VI!Quit)
    BY <1>4, <2>1 DEF VI!ToolEvent, VI!Forward, VI!CloseWs, VI!Breaks
  <2> QED
    BY <1>1, <1>2, <1>3, <2>2
<1>5. CASE VI!PauseAccepted
  <2>1. pipe' = << >> \/ pipe' = Append(<< >>, VI!Quit)
    BY <1>5, EmptyFacts DEF VI!PauseAccepted
  <2>2. ToSet(pipe') \subseteq {VI!Quit}
    BY <1>3, <2>1, EmptyFacts, PushFacts
  <2> QED
    BY <1>3, <2>2 DEF OnPipe
<1>6. CASE VI!Resume \/ VI!Disable
  <2>1. pipe' = pipe \/ pipe' = Append(pipe, VI!Quit)
    BY <1>6 DEF VI!Resume, VI!Disable
  <2> QED
    BY <1>1, <1>2, <1>3, <2>1
<1>7. CASE VI!ReadMessage
  <2>1. pipe # << >> /\ (pipe' = << >> \/ pipe' = Tail(pipe))
    BY <1>7 DEF VI!ReadMessage
  <2>2. ToSet(pipe') \subseteq ToSet(pipe)
    BY <2>1, EmptyFacts, PopFacts DEF InspectorTypes
  <2> QED
    BY <2>2 DEF OnPipe
<1>8. ASSUME NEW t \in Tool, VI!ToolConnects(t) \/ VI!ToolSends(t) \/ VI!ConnectAnswered(t)
      PROVE  OnPipe'
  BY <1>1, <1>8 DEF VI!ToolConnects, VI!ToolSends, VI!ConnectAnswered
<1>9. CASE \/ VI!Pause \/ VI!CallDisable \/ VI!Breakpoint \/ VI!DisableSessions
           \/ VI!DebugCommand \/ UNCHANGED VI!vars
  BY <1>1, <1>9
     DEF VI!Pause, VI!CallDisable, VI!Breakpoint, VI!DisableSessions, VI!DebugCommand, VI!vars
<1> QED
  BY <1>4, <1>5, <1>6, <1>7, <1>8, <1>9 DEF VI!Next

\* The service takes a message from its mailbox, or at a breakpoint from the pipe.
LEMMA DebugCommandNumbers ==
  ASSUME Tool # {}, InspectorTypes, Pausing, Numbers, VI!DebugCommand
  PROVE  Numbers'
<1>1. /\ mailbox # << >> /\ mailbox' = Tail(mailbox) /\ UNCHANGED <<events, count, pipe>>
      /\ target = "running"
  BY DEF VI!DebugCommand
<1>2. PICK m \in Debug :
        /\ m = Head(mailbox) /\ Sorted(mailbox')
        /\ Msgs(mailbox') \subseteq Msgs(mailbox)
        /\ m.cmd = "msg" => /\ m \in Msgs(mailbox)
                            /\ \A x \in Msgs(mailbox') : x.tool = m.tool => m.n < x.n
  <2>1. mailbox \in Seq(Debug) /\ Sorted(mailbox)
    BY DEF InspectorTypes, Numbers
  <2>2. Head(mailbox) \in Debug
    BY <1>1, <2>1, PopFacts
  <2> QED
    BY <1>1, <2>1, <2>2, PopFacts, MsgsFacts
<1>3. Sorted(pipe) /\ \A t \in Tool : Sorted(events[t])
  BY DEF Numbers
<1>4. CASE delivered' = delivered
  BY <1>1, <1>2, <1>3, <1>4, NumbersKept
<1>5. CASE m.cmd = "msg" /\ VI!Deliver(m, "mailbox")
  <2>1. m.tool \in Tool /\ m.n \in Nat /\ m \in Msgs(mailbox)
    BY <1>2, <1>5, DebugFacts
  <2>2. m.n <= count /\ \A x \in Msgs(events[m.tool]) : m.n < x.n
    BY <2>1 DEF Numbers
  <2>3. Msgs(pipe') = {}
    <3>1. pipe = << >>
      BY <1>1 DEF Pausing
    <3>2. ToSet(<< >>) = {}
      BY DEF ToSet
    <3> QED
      BY <1>1, <3>1, <3>2 DEF Msgs
  <2>4. \A x \in Msgs(mailbox') : x.tool = m.tool => m.n # x.n /\ m.n < x.n
    <3>1. \A x \in Msgs(mailbox) : x.n \in Nat
      BY MsgsFacts, DebugFacts DEF InspectorTypes
    <3> QED
      BY <1>2, <1>5, <2>1, <3>1
  <2> QED
    BY <1>1, <1>2, <1>3, <1>5, <2>2, <2>3, <2>4, NumbersDelivered
<1>6. delivered' = delivered \/ (m.cmd = "msg" /\ VI!Deliver(m, "mailbox"))
  BY <1>2 DEF VI!DebugCommand, VI!Connect, VI!Disconnect
<1> QED
  BY <1>4, <1>5, <1>6

LEMMA ReadMessageNumbers ==
  ASSUME Tool # {}, InspectorTypes, OnPipe, Numbers, VI!ReadMessage
  PROVE  Numbers'
<1>1. pipe # << >> /\ UNCHANGED <<events, count, mailbox>>
  BY DEF VI!ReadMessage, VI!proxyVars
<1>2. /\ Sorted(Tail(pipe)) /\ Head(pipe) \in Debug /\ Msgs(Tail(pipe)) \subseteq Msgs(pipe)
      /\ Head(pipe).cmd = "msg" =>
           /\ Head(pipe) \in Msgs(pipe)
           /\ \A x \in Msgs(Tail(pipe)) : x.tool = Head(pipe).tool => Head(pipe).n < x.n
  BY <1>1, PopFacts, MsgsFacts DEF InspectorTypes, Numbers
<1>3. Sorted(mailbox) /\ \A t \in Tool : Sorted(events[t])
  BY DEF Numbers
<1>4. CASE pipe' = << >> /\ delivered' = delivered
  <2>1. Sorted(<< >>) /\ Msgs(<< >>) = {}
    BY EmptyFacts
  <2> QED
    BY <1>1, <1>3, <1>4, <2>1, NumbersKept
<1>5. CASE Head(pipe).cmd = "msg" /\ pipe' = Tail(pipe) /\ VI!Deliver(Head(pipe), "pipe")
  <2>1. PICK m \in Debug : m = Head(pipe)
    BY <1>2
  <2>2. m.tool \in Tool /\ m.n \in Nat /\ m \in Msgs(pipe)
    BY <1>2, <1>5, <2>1, DebugFacts
  <2>3. m.n <= count /\ \A x \in Msgs(events[m.tool]) : m.n < x.n
    BY <2>2 DEF Numbers
  <2>4. \A x \in Msgs(mailbox') : x.tool = m.tool => m.n # x.n
    BY <1>1, <2>2 DEF Numbers
  <2>5. \A x \in Msgs(pipe') : x.tool = m.tool => m.n < x.n
    BY <1>2, <1>5, <2>1
  <2>6. VI!Deliver(m, "pipe")
    BY <1>5, <2>1
  <2> QED
    BY <1>1, <1>2, <1>3, <1>5, <2>3, <2>4, <2>5, <2>6, NumbersDelivered
<1>6. Head(pipe).cmd \in {"msg", "quit"}
  <2>1. Head(pipe) \in ToSet(pipe)
    BY <1>1, PopFacts DEF InspectorTypes
  <2> QED
    BY <2>1 DEF OnPipe
<1> QED
  BY <1>4, <1>5, <1>6 DEF VI!ReadMessage

LEMMA NumbersStep ==
  ASSUME Tool # {}, IsFiniteSet(Tool), InspectorTypes, Pausing, OnPipe, Numbers,
         [VI!Next]_VI!vars
  PROVE  Numbers'
<1> USE DEF VI!serviceVars, VI!proxyVars
<1>1. /\ Sorted(pipe) /\ Sorted(mailbox) /\ \A t \in Tool : Sorted(events[t])
      /\ pipe \in Seq(Debug) /\ mailbox \in Seq(Debug)
  BY DEF Numbers, InspectorTypes
<1>2. ASSUME UNCHANGED <<count, delivered, events, mailbox>>, Sorted(pipe'),
             Msgs(pipe') \subseteq Msgs(pipe)
      PROVE  Numbers'
  BY <1>1, <1>2, NumbersKept
<1>3. ASSUME UNCHANGED <<count, delivered, events, pipe>>, Sorted(mailbox'),
             Msgs(mailbox') \subseteq Msgs(mailbox)
      PROVE  Numbers'
  BY <1>1, <1>3, NumbersKept
<1>4. ASSUME NEW t \in Tool, VI!ToolConnects(t)
      PROVE  Numbers'
  <2>1. mailbox' = Append(mailbox, VI!Command("connect", t))
    BY <1>4 DEF VI!ToolConnects
  <2>2. Sorted(mailbox') /\ Msgs(mailbox') = Msgs(mailbox)
    BY <1>1, <2>1, ControlFacts
  <2>3. UNCHANGED <<count, delivered, events, pipe>>
    BY <1>4 DEF VI!ToolConnects
  <2> QED
    BY <1>3, <2>2, <2>3
<1>5. ASSUME NEW t \in Tool, VI!ToolSends(t) \/ VI!ToolEvent(t)
      PROVE  Numbers'
  BY <1>5, SendsNumbers, ToolEventNumbers
<1>6. CASE VI!PauseAccepted
  <2>1. pipe' = << >> \/ pipe' = Append(<< >>, VI!Quit)
    BY <1>6, EmptyFacts DEF VI!PauseAccepted
  <2>2. Sorted(pipe') /\ Msgs(pipe') = {}
    <3>1. << >> \in Seq(Debug) /\ Sorted(<< >>) /\ Msgs(<< >>) = {}
      BY EmptyFacts
    <3>2. Sorted(Append(<< >>, VI!Quit)) /\ Msgs(Append(<< >>, VI!Quit)) = {}
      BY <3>1, ControlFacts
    <3> QED
      BY <2>1, <3>1, <3>2
  <2>3. UNCHANGED <<count, delivered, events, mailbox>>
    BY <1>6 DEF VI!PauseAccepted
  <2> QED
    BY <1>2, <2>2, <2>3
<1>7. CASE VI!Resume \/ VI!Disable
  <2>1. /\ pipe' = pipe \/ pipe' = Append(pipe, VI!Quit)
        /\ UNCHANGED <<count, delivered, events, mailbox>>
    BY <1>7 DEF VI!Resume, VI!Disable
  <2>2. Sorted(pipe') /\ Msgs(pipe') = Msgs(pipe)
    BY <1>1, <2>1, ControlFacts
  <2> QED
    BY <1>2, <2>1, <2>2
<1>8. CASE VI!DisableSessions
  <2>1. PICK r \in Seq(Debug) :
          mailbox' = mailbox \o r /\ \A x \in ToSet(r) : x.cmd = "disconnect"
    BY <1>8, DisableFacts
  <2>2. ToSet(mailbox') = ToSet(mailbox) \cup ToSet(r) /\ Sorted(mailbox')
    BY <1>1, <2>1, JoinFacts
  <2>3. Msgs(mailbox') \subseteq Msgs(mailbox)
    BY <2>1, <2>2 DEF Msgs
  <2>4. UNCHANGED <<count, delivered, events, pipe>>
    BY <1>8 DEF VI!DisableSessions
  <2> QED
    BY <1>3, <2>2, <2>3, <2>4
<1>9. CASE VI!DebugCommand \/ VI!ReadMessage
  BY <1>9, DebugCommandNumbers, ReadMessageNumbers
<1>10. ASSUME NEW t \in Tool, VI!ConnectAnswered(t)
       PROVE  Numbers'
  <2>1. UNCHANGED <<count, delivered, events, mailbox, pipe>>
    BY <1>10 DEF VI!ConnectAnswered
  <2> QED
    BY <1>1, <1>2, <2>1
<1>11. CASE VI!Pause \/ VI!CallDisable \/ VI!Breakpoint \/ UNCHANGED VI!vars
  <2>1. UNCHANGED <<count, delivered, events, mailbox, pipe>>
    BY <1>11 DEF VI!Pause, VI!CallDisable, VI!Breakpoint, VI!vars
  <2> QED
    BY <1>1, <1>2, <2>1
<1> QED
  BY <1>4, <1>5, <1>6, <1>7, <1>8, <1>9, <1>10, <1>11 DEF VI!Next

\* A message is given behind all that came before, but for those in the mailbox
\* that one on the pipe has overtaken.
LEMMA OvertakesStep ==
  ASSUME Tool # {}, InspectorTypes, Pausing, OnPipe, Numbers, VI!OnlyPipeOvertakes,
         [VI!Next]_VI!vars
  PROVE  VI!OnlyPipeOvertakes'
<1> USE DEF VI!serviceVars, VI!proxyVars
<1>1. VI!OnlyPipeOvertakes <=> \A t \in Tool : Overtaken(delivered[t])
  BY DEF VI!OnlyPipeOvertakes, Overtaken
<1>2. VI!OnlyPipeOvertakes' <=> \A t \in Tool : Overtaken(delivered'[t])
  BY DEF VI!OnlyPipeOvertakes, Overtaken
<1>3. CASE delivered' = delivered
  BY <1>1, <1>2, <1>3
<1>4. ASSUME NEW m \in Debug, NEW via \in {"pipe", "mailbox"}, VI!Deliver(m, via),
             Behind(delivered[m.tool], m.n, via)
      PROVE  VI!OnlyPipeOvertakes'
  <2>1. m.tool \in Tool /\ m.n \in Nat
    BY DebugFacts
  <2>2. delivered[m.tool] \in Seq(Given) /\ Overtaken(delivered[m.tool])
    BY <1>1, <2>1 DEF InspectorTypes
  <2>3. Overtaken(Append(delivered[m.tool], <<m.n, via>>))
    BY <1>4, <2>1, <2>2, OvertakenFacts
  <2>4. \A t \in Tool : \/ delivered'[t] = delivered[t]
                        \/ /\ t = m.tool
                           /\ delivered'[t] = Append(delivered[t], <<m.n, via>>)
    BY <1>4, DeliverFacts
  <2> QED
    BY <1>1, <1>2, <2>3, <2>4
<1>5. CASE VI!DebugCommand
  <2>1. mailbox # << >> /\ mailbox \in Seq(Debug)
    BY <1>5 DEF VI!DebugCommand, InspectorTypes
  <2>2. PICK m \in Debug : m = Head(mailbox) /\ (m.cmd = "msg" => m \in Msgs(mailbox))
    BY <2>1, PopFacts, MsgsFacts
  <2>3. delivered' = delivered \/ (m.cmd = "msg" /\ VI!Deliver(m, "mailbox"))
    BY <1>5, <2>2 DEF VI!DebugCommand, VI!Connect, VI!Disconnect
  <2>4. m.cmd = "msg" => Behind(delivered[m.tool], m.n, "mailbox")
    BY <2>2 DEF Numbers, Behind
  <2> QED
    BY <1>3, <1>4, <2>3, <2>4
<1>6. CASE VI!ReadMessage
  <2>1. pipe # << >> /\ pipe \in Seq(Debug)
    BY <1>6 DEF VI!ReadMessage, InspectorTypes
  <2>2. PICK m \in Debug :
          m = Head(pipe) /\ m.cmd \in {"msg", "quit"} /\ (m.cmd = "msg" => m \in Msgs(pipe))
    BY <2>1, PopFacts, MsgsFacts DEF OnPipe
  <2>3. delivered' = delivered \/ (m.cmd = "msg" /\ VI!Deliver(m, "pipe"))
    BY <1>6, <2>2 DEF VI!ReadMessage
  <2>4. m.cmd = "msg" => Behind(delivered[m.tool], m.n, "pipe")
    <3>1. m.cmd = "msg" => \A d \in ToSet(delivered[m.tool]) : d[1] < m.n
      BY <2>2 DEF Numbers
    <3>2. m.n \in Nat /\ \A d \in ToSet(delivered[m.tool]) : d[1] \in Nat
      BY DebugFacts, GivenTypes DEF InspectorTypes
    <3> QED
      BY <3>1, <3>2 DEF Behind
  <2> QED
    BY <1>3, <1>4, <2>3, <2>4
<1>7. ASSUME NEW t \in Tool,
             \/ VI!ToolConnects(t) \/ VI!ToolSends(t)
             \/ VI!ConnectAnswered(t) \/ VI!ToolEvent(t)
      PROVE  delivered' = delivered
  BY <1>7 DEF VI!ToolConnects, VI!ToolSends, VI!ConnectAnswered, VI!ToolEvent
<1>8. CASE \/ VI!Pause \/ VI!PauseAccepted \/ VI!Resume \/ VI!Disable \/ VI!DisableSessions
           \/ VI!CallDisable \/ VI!Breakpoint \/ UNCHANGED VI!vars
  BY <1>3, <1>8
     DEF VI!Pause, VI!PauseAccepted, VI!Resume, VI!Disable, VI!DisableSessions,
         VI!CallDisable, VI!Breakpoint, VI!vars
<1> QED
  BY <1>3, <1>5, <1>6, <1>7, <1>8 DEF VI!Next

\* Messages reach their tool's session in the order they were sent, but for those
\* on the pipe that overtake the mailbox; and a service that has read its mailbox
\* has sessions for the tools that are connected and no others.
THEOREM InspectorCorrect ==
  ASSUME Tool # {}, IsFiniteSet(Tool)
  PROVE  VI!Spec => []InspectorSafe
<1>1. VI!Init => InspectorInv
  <2> SUFFICES ASSUME VI!Init
               PROVE  InspectorInv
    OBVIOUS
  <2>1. InspectorTypes
    BY EmptyFacts, EmptySeq DEF VI!Init, InspectorTypes
  <2>2. Pausing /\ OnPipe
    BY EmptyFacts DEF VI!Init, Pausing, OnPipe
  <2>3. Connected
    BY EmptyFacts DEF VI!Init, Connected, Linked, Posted, HasSession
  <2>4. Numbers
    BY EmptyFacts DEF VI!Init, Numbers
  <2>5. VI!OnlyPipeOvertakes
    <3>1. \A t \in Tool : delivered[t] = << >>
      BY DEF VI!Init
    <3>2. DOMAIN << >> = {}
      BY EmptySeq
    <3> QED
      BY <3>1, <3>2 DEF VI!OnlyPipeOvertakes
  <2> QED
    BY <2>1, <2>2, <2>3, <2>4, <2>5 DEF InspectorInv
<1>2. InspectorInv /\ [VI!Next]_VI!vars => InspectorInv'
  BY InspectorTypesStep, PausingStep, OnPipeStep, ConnectedStep, NumbersStep, OvertakesStep
     DEF InspectorInv
<1>3. InspectorInv => InspectorSafe
  <2> SUFFICES ASSUME InspectorInv, mailbox = << >>
               PROVE  {s.tool : s \in live} = {t \in Tool : tool[t] \in {"answered", "open", "lost"}}
    BY DEF InspectorInv, InspectorSafe, VI!InspectorSafe, VI!SessionsAreTools
  <2>1. \A t \in Tool : ~ Posted("disconnect", t)
    BY EmptyFacts DEF Posted
  <2>2. \A t \in Tool : HasSession(t) <=> tool[t] \in {"answered", "open", "lost"}
    BY <2>1 DEF InspectorInv, Connected, Linked
  <2> QED
    BY <2>2 DEF HasSession, InspectorInv, Connected
<1> QED
  BY <1>1, <1>2, <1>3, PTL DEF VI!Spec

-----------------------------------------------------------------------------
(* MongoCursor.                                                            *)

CursorTypes ==
  /\ docs \in Nat /\ amount \in Nat /\ answers \in Nat /\ losses \in Nat
  /\ pc \in {"idle", "query", "get_more", "answered", "kill", "next", "ended"}
  /\ cursors \subseteq [id : 1 .. answers, at : 1 .. docs + 1]
  /\ reply \in [results : Seq(Nat), cursor_id : Nat]
  /\ _data \in Seq(Nat) /\ _ptr \in Nat /\ _cursor \in Nat /\ _limit \in Nat
  /\ given \in Seq(Nat)

\* What the client has at each of its places.
CursorPlaces ==
  /\ _ptr # 0 => pc \in {"idle", "next", "kill"} /\ _data # MO!NoData
  /\ _ptr # 0 => _ptr \in 1 .. Len(_data) \/ (_data = << >> /\ _ptr = 1)
  /\ pc = "next" => _ptr # 0
  /\ _data = MO!NoData /\ pc # "ended" => given = << >> /\ _cursor = 0 /\ _limit = amount
  /\ _eof => pc = "ended"
  /\ pc = "ended" => _cursor = 0
  /\ pc = "query" => _data = MO!NoData
  /\ pc = "get_more" => _data # MO!NoData /\ _cursor # 0
  /\ pc = "answered" => _data = MO!NoData \/ _cursor # 0
  /\ pc = "kill" => _ptr # 0 /\ _cursor # 0 /\ amount # 0 /\ _limit = 0
  /\ losses = 0 => ~unkilled

\* The documents of _data that next() has not returned.
Unread == IF _ptr = 0 THEN 0 ELSE (Len(_data) + 1) - _ptr

Count == MO!Cardinality(MO!Documents)

Ascending ==
  \A i, j \in DOMAIN given : i < j /\ given[i] # 0 /\ given[j] # 0 => given[i] < given[j]

\* The client has got the documents up to s, and those unread are the last.
Received(s) ==
  /\ _data = MO!NoData /\ pc # "ended" => s = 0
  /\ Unread <= s
  /\ \A i \in DOMAIN given : given[i] <= s - Unread
  /\ \A k \in 1 .. Unread : _data[_ptr + k - 1] = s - Unread + k
  /\ losses = 0 => MO!Documents = 1 .. s - Unread

\* Its cursor stands behind them, and the server has no other.
Serving(s) ==
  /\ \A c \in cursors : c.id = _cursor => c.at > s
  /\ pc # "answered" /\ losses = 0 =>
       /\ \A c \in cursors : c.id = _cursor /\ c.at = s + 1
       /\ _cursor # 0 => \E c \in cursors : c.id = _cursor

\* The answer begins behind them, and its cursor stands behind the answer.
Answering(s) ==
  pc = "answered" =>
    \E t \in s .. docs :
      /\ t + Len(reply.results) <= docs
      /\ \A i \in 1 .. Len(reply.results) : reply.results[i] = t + i
      /\ amount # 0 /\ ~unkilled => Len(reply.results) <= _limit
      /\ \A c \in cursors : c.id = reply.cursor_id => c.at > t + Len(reply.results)
      /\ losses = 0 =>
           /\ t = s
           /\ \A c \in cursors : c.id = reply.cursor_id /\ c.at = t + Len(reply.results) + 1
           /\ reply.cursor_id # 0 => \E c \in cursors : c.id = reply.cursor_id
           /\ reply.cursor_id = 0 => t + Len(reply.results) = docs

\* What is left of the limit while there is a cursor, unless the kill failed.
Limited ==
  /\ amount = 0 => _limit = 0
  /\ amount # 0 /\ ~unkilled => Count + Unread <= amount
  /\ amount # 0 /\ ~unkilled /\ _cursor # 0 =>
       /\ _limit > 0 \/ pc = "kill"
       /\ Count + Unread + _limit = amount

\* When there is none, everything came, or as much as the limit.
Complete(s) ==
  losses = 0 /\ _cursor = 0 /\ (_data # MO!NoData \/ pc = "ended") =>
    s = docs \/ (amount # 0 /\ Count + Unread = amount)

CursorInv ==
  /\ CursorTypes /\ CursorPlaces /\ Ascending /\ Limited
  /\ \E s \in 0 .. docs : Received(s) /\ Serving(s) /\ Answering(s) /\ Complete(s)

\* The library's count is that of the module.
LEMMA SameCount == \A S : MO!Cardinality(S) = Cardinality(S)
  BY DEF MO!Cardinality, Cardinality

\* Numbers that are what they are called.
LEMMA CursorNumbers ==
  ASSUME CursorTypes, CursorPlaces
  PROVE  Len(_data) \in Nat /\ Unread \in Nat
<1>1. Len(_data) \in Nat /\ _ptr \in Nat
  BY LenProperties DEF CursorTypes
<1>2. CASE _ptr = 0
  BY <1>1, <1>2 DEF Unread
<1>3. CASE _ptr # 0
  <2>1. \/ _ptr \in 1 .. Len(_data)
        \/ _ptr = 1 /\ Len(_data) = 0
    BY <1>3, EmptySeq DEF CursorPlaces
  <2> QED
    BY <1>1, <1>3, <2>1 DEF Unread
<1> QED
  BY <1>1, <1>2, <1>3

\* What was given is finite.
LEMMA DocumentsFinite ==
  ASSUME CursorTypes, CursorPlaces, NEW s \in 0 .. docs, Received(s)
  PROVE  /\ s - Unread \in 0 .. docs
         /\ MO!Documents \subseteq 1 .. s - Unread
         /\ IsFiniteSet(MO!Documents)
         /\ Count \in Nat
         /\ Count = Cardinality(MO!Documents)
<1>1. docs \in Nat /\ Unread \in Nat /\ Unread <= s
  BY CursorNumbers DEF CursorTypes, Received
<1>2. PICK n \in 0 .. docs : n = s - Unread
  BY <1>1
<1>3. MO!Documents \subseteq 1 .. n
  <2>1. \A i \in DOMAIN given : given[i] \in Nat /\ given[i] <= n
    BY <1>2, ElementOfSeq, LenProperties DEF CursorTypes, Received
  <2> QED
    BY <2>1 DEF MO!Documents, MO!Undefined
<1>4. IsFiniteSet(MO!Documents)
  <2>1. IsFiniteSet(1 .. n)
    BY <1>1, FS_Interval
  <2> QED
    BY <1>3, <2>1, FS_Subset
<1>5. Count = Cardinality(MO!Documents)
  BY SameCount DEF Count
<1>6. Count \in Nat
  BY <1>4, <1>5, FS_CardinalityType
<1> QED
  BY <1>2, <1>3, <1>4, <1>5, <1>6

\* NoData is no batch.
LEMMA NoDataFacts ==
  /\ MO!NoData \in Seq(Nat)
  /\ MO!NoData # << >>
  /\ \A s : (\A i \in 1 .. Len(s) : s[i] # 0) => s # MO!NoData
  BY DEF MO!NoData, MO!Undefined

\* has_next() up to the request.
LEMMA HasNextStep ==
  ASSUME CursorInv, MO!HasNext
  PROVE  CursorInv'
<1>1. /\ pc = "idle"
      /\ UNCHANGED <<docs, amount, cursors, answers, reply, losses, _ptr, _cursor, _limit, given, unkilled>>
  BY DEF MO!HasNext
<1>2. \/ _ptr # 0 /\ pc' = "next" /\ _data' = _data /\ _eof' = _eof
      \/ _ptr = 0 /\ _data = MO!NoData /\ pc' = "query" /\ _data' = _data /\ _eof' = _eof
      \/ _ptr = 0 /\ _data # MO!NoData /\ _cursor # 0 /\ pc' = "get_more" /\ _data' = _data /\ _eof' = _eof
      \/ _ptr = 0 /\ _data # MO!NoData /\ _cursor = 0 /\ pc' = "ended" /\ _data' = MO!NoData
  BY <1>1 DEF MO!HasNext, MO!Undefined, CursorInv, CursorPlaces
<1>3. CursorTypes'
  BY <1>1, <1>2, NoDataFacts DEF CursorInv, CursorTypes
<1>4. CursorPlaces'
  BY <1>1, <1>2 DEF CursorInv, CursorPlaces, MO!NoData, MO!Undefined
<1>5. Unread' = Unread /\ MO!Documents' = MO!Documents /\ Count' = Count
  BY <1>1, <1>2 DEF Unread, Count, MO!Documents, MO!Cardinality, MO!Undefined
<1>6. Ascending' /\ Limited'
  BY <1>1, <1>5 DEF CursorInv, Ascending, Limited
<1>7. PICK s \in 0 .. docs : Received(s) /\ Serving(s) /\ Answering(s) /\ Complete(s)
  BY DEF CursorInv
<1>8. Received(s)'
  <2>1. \A k \in 1 .. Unread' : _data'[_ptr' + k - 1] = _data[_ptr + k - 1]
    <3>1. _ptr = 0 => Unread = 0
      BY DEF Unread
    <3> QED
      BY <1>1, <1>2, <1>5, <3>1
  <2> QED
    BY <1>1, <1>2, <1>5, <1>7, <2>1 DEF Received, CursorInv, CursorPlaces, MO!NoData, MO!Undefined
<1>9. Serving(s)' /\ Answering(s)'
  BY <1>1, <1>2, <1>7 DEF Serving, Answering
<1>10. Complete(s)'
  BY <1>1, <1>2, <1>5, <1>7 DEF Complete, CursorInv, CursorPlaces
<1> QED
  BY <1>1, <1>3, <1>4, <1>6, <1>7, <1>8, <1>9, <1>10 DEF CursorInv

\* What fails: the request, or the server's memory.
LEMMA LossStep ==
  ASSUME CursorInv, MO!RequestFails \/ MO!Forget
  PROVE  CursorInv'
<1>1. /\ losses' = losses + 1 /\ losses' # 0
      /\ UNCHANGED <<docs, amount, answers, reply, _data, _ptr, _eof, _cursor, _limit, given>>
  BY DEF MO!RequestFails, MO!Forget, MO!clientVars, CursorInv, CursorTypes
<1>2. /\ cursors' \subseteq cursors
      /\ \/ pc' = pc /\ unkilled' = unkilled
         \/ /\ pc \in {"query", "get_more", "answered", "kill"} /\ pc' = "idle"
            /\ ~unkilled' => ~unkilled /\ pc # "kill"
  BY DEF MO!RequestFails, MO!Forget
<1>3. CursorTypes'
  BY <1>1, <1>2 DEF CursorInv, CursorTypes
<1>4. CursorPlaces'
  BY <1>1, <1>2 DEF CursorInv, CursorPlaces, MO!NoData, MO!Undefined
<1>5. Unread' = Unread /\ Count' = Count
  BY <1>1 DEF Unread, Count, MO!Documents, MO!Cardinality, MO!Undefined
<1>6. Ascending' /\ Limited'
  BY <1>1, <1>2, <1>5 DEF CursorInv, Ascending, Limited
<1>7. PICK s \in 0 .. docs : Received(s) /\ Serving(s) /\ Answering(s) /\ Complete(s)
  BY DEF CursorInv
<1>8. Received(s)' /\ Serving(s)' /\ Complete(s)'
  BY <1>1, <1>2, <1>5, <1>7 DEF Received, Serving, Complete, MO!NoData, MO!Undefined
<1>9. Answering(s)'
  <2> SUFFICES ASSUME pc' = "answered"
               PROVE  Answering(s)'
    BY DEF Answering
  <2>1. pc = "answered" /\ unkilled' = unkilled
    BY <1>2
  <2> QED
    BY <1>1, <1>2, <1>7, <2>1 DEF Answering
<1> QED
  BY <1>1, <1>3, <1>4, <1>6, <1>7, <1>8, <1>9 DEF CursorInv

\* next() returns the first of the unread documents.
LEMMA NextDocumentStep ==
  ASSUME CursorInv, MO!NextDocument
  PROVE  CursorInv'
<1>1. /\ pc = "next" /\ pc' = "idle" /\ _ptr # 0
      /\ UNCHANGED <<docs, amount, cursors, answers, reply, losses, _data, _eof, _cursor, _limit, unkilled>>
  BY DEF MO!NextDocument, CursorInv, CursorPlaces
<1>2. PICK s \in 0 .. docs : Received(s) /\ Serving(s) /\ Answering(s) /\ Complete(s)
  BY DEF CursorInv
<1>3. PICK l \in Nat, p \in Nat, u \in Nat : l = Len(_data) /\ p = _ptr /\ u = Unread
  BY CursorNumbers DEF CursorInv, CursorTypes
<1>4. /\ u = (l + 1) - p
      /\ (p \in 1 .. l /\ _data # << >>) \/ (l = 0 /\ p = 1 /\ _data = << >>)
  BY <1>1, <1>3, EmptySeq DEF Unread, CursorInv, CursorPlaces
<1>5. /\ docs \in Nat /\ s - u \in 0 .. docs /\ MO!Documents \subseteq 1 .. s - u
      /\ IsFiniteSet(MO!Documents) /\ Count \in Nat /\ Count = Cardinality(MO!Documents)
  BY <1>2, <1>3, DocumentsFinite DEF CursorInv, CursorTypes
<1>6. PICK d \in Nat :
        /\ given' = Append(given, d)
        /\ u = 0 => d = 0
        /\ u # 0 => d = s - u + 1
  <2>1. CASE _data = << >>
    BY <1>3, <1>4, <2>1 DEF MO!NextDocument, MO!Undefined
  <2>2. CASE _data # << >>
    <3>1. p \in 1 .. l /\ u \in 1 .. l
      BY <1>3, <1>4, <2>2
    <3>2. 1 \in 1 .. u /\ p + 1 - 1 = p
      BY <3>1
    <3>3. _data[p] = s - u + 1
      BY <1>2, <1>3, <3>2 DEF Received
    <3>4. given' = Append(given, _data[p])
      BY <1>3, <2>2 DEF MO!NextDocument
    <3>5. s - u + 1 \in Nat
      BY <1>5
    <3> QED
      BY <3>1, <3>3, <3>4, <3>5
  <2> QED
    BY <2>1, <2>2
<1>7. /\ given \in Seq(Nat) /\ given' \in Seq(Nat) /\ Len(given) \in Nat
      /\ Len(given') = Len(given) + 1
      /\ \A i \in 1 .. Len(given) : given'[i] = given[i]
      /\ given'[Len(given) + 1] = d
      /\ DOMAIN given = 1 .. Len(given) /\ DOMAIN given' = 1 .. Len(given) + 1
  BY <1>6, AppendProperties, LenProperties DEF CursorInv, CursorTypes
<1>8. /\ _ptr' \in Nat
      /\ \/ u \in {0, 1} /\ _ptr' = 0
         \/ u > 1 /\ _ptr' = p + 1
  <2>1. _ptr' = IF p + 1 > l THEN 0 ELSE p + 1
    BY <1>3 DEF MO!NextDocument, MO!Undefined
  <2> QED
    BY <1>3, <1>4, <2>1
<1>9. PICK v \in Nat : v = Unread' /\ v = IF u = 0 THEN 0 ELSE u - 1
  <2>1. Unread' = IF _ptr' = 0 THEN 0 ELSE (l + 1) - _ptr'
    BY <1>1, <1>3 DEF Unread
  <2>2. CASE u \in {0, 1} /\ _ptr' = 0
    BY <2>1, <2>2
  <2>3. CASE u > 1 /\ _ptr' = p + 1
    <3>1. p + 1 # 0 /\ (l + 1) - (p + 1) = u - 1 /\ u - 1 \in Nat /\ u # 0
      BY <1>4, <2>3
    <3> QED
      BY <2>1, <2>3, <3>1
  <2> QED
    BY <1>8, <2>2, <2>3
<1>10. /\ s - v \in 0 .. docs
       /\ s - v = IF u = 0 THEN s - u ELSE s - u + 1
       /\ d = 0 \/ d = s - v
       /\ \A n \in Nat : n <= s - u => n <= s - v
  BY <1>2, <1>3, <1>5, <1>6, <1>9 DEF Received
<1>11. MO!Documents' = MO!Documents \cup (IF u = 0 THEN {} ELSE {s - v})
  <2>1. {given'[i] : i \in DOMAIN given'} = {given[i] : i \in DOMAIN given} \cup {d}
    <3>1. Len(given) + 1 \in DOMAIN given' /\ DOMAIN given \subseteq DOMAIN given'
      BY <1>7
    <3>2. \A i \in DOMAIN given' : i \in DOMAIN given \/ i = Len(given) + 1
      BY <1>7
    <3> QED
      BY <1>7, <3>1, <3>2
  <2>2. MO!Documents' = {given'[i] : i \in DOMAIN given'} \ {0}
    BY DEF MO!Documents, MO!Undefined
  <2>3. MO!Documents = {given[i] : i \in DOMAIN given} \ {0}
    BY DEF MO!Documents, MO!Undefined
  <2>4. u # 0 => d = s - v /\ d # 0
    BY <1>5, <1>6, <1>10
  <2> QED
    BY <1>6, <2>1, <2>2, <2>3, <2>4
<1>12. Count' = IF u = 0 THEN Count ELSE Count + 1
  <2>1. Count' = Cardinality(MO!Documents')
    BY SameCount DEF Count
  <2>2. CASE u = 0
    BY <1>5, <1>11, <2>1, <2>2
  <2>3. CASE u # 0
    <3>1. s - v \notin MO!Documents
      BY <1>5, <1>10, <2>3
    <3>2. Cardinality(MO!Documents \cup {s - v}) = Cardinality(MO!Documents) + 1
      BY <1>5, <3>1, FS_AddElement
    <3> QED
      BY <1>5, <1>11, <2>1, <2>3, <3>2
  <2> QED
    BY <2>2, <2>3
<1>13. Count' + v = Count + u
  BY <1>5, <1>9, <1>12
<1>14. CursorTypes'
  BY <1>1, <1>7, <1>8 DEF CursorInv, CursorTypes
<1>15. CursorPlaces'
  <2>1. _data # MO!NoData /\ pc' # "ended"
    BY <1>1 DEF CursorInv, CursorPlaces
  <2>2. _ptr' # 0 => _ptr' \in 1 .. Len(_data')
    BY <1>1, <1>3, <1>4, <1>8
  <2>3. ~ _eof /\ (losses = 0 => ~unkilled)
    BY <1>1 DEF CursorInv, CursorPlaces
  <2>4. MO!NoData' = MO!NoData
    BY DEF MO!NoData, MO!Undefined
  <2> QED
    BY <1>1, <2>1, <2>2, <2>3, <2>4 DEF CursorPlaces
<1>16. Ascending'
  <2> SUFFICES ASSUME NEW i \in DOMAIN given', NEW j \in DOMAIN given', i < j,
                      given'[i] # 0, given'[j] # 0
               PROVE  given'[i] < given'[j]
    BY DEF Ascending
  <2>1. i \in DOMAIN given /\ given'[i] = given[i]
    BY <1>7
  <2>2. CASE j \in DOMAIN given
    BY <1>7, <2>1, <2>2 DEF CursorInv, Ascending
  <2>3. CASE j = Len(given) + 1
    <3>1. d # 0 /\ given'[j] = d
      BY <1>7, <2>3
    <3>2. given[i] \in Nat /\ given[i] <= s - u
      BY <1>2, <1>3, <1>7, <2>1, ElementOfSeq DEF Received
    <3>3. d = s - u + 1
      BY <1>6, <3>1
    <3> QED
      BY <1>5, <2>1, <3>1, <3>2, <3>3
  <2> QED
    BY <1>7, <2>2, <2>3
<1>17. Limited'
  BY <1>1, <1>3, <1>9, <1>13 DEF CursorInv, Limited
<1>18. Received(s)'
  <2>1. v <= s
    BY <1>3, <1>2, <1>9 DEF Received
  <2>2. \A i \in DOMAIN given' : given'[i] <= s - v
    <3> SUFFICES ASSUME NEW i \in DOMAIN given'
                 PROVE  given'[i] <= s - v
      OBVIOUS
    <3>1. CASE i \in DOMAIN given
      <4>1. given[i] \in Nat /\ given[i] <= s - u
        BY <1>2, <1>3, <1>7, <3>1, ElementOfSeq DEF Received
      <4> QED
        BY <1>7, <1>10, <3>1, <4>1
    <3>2. CASE i = Len(given) + 1
      BY <1>7, <1>10, <3>2
    <3> QED
      BY <1>7, <3>1, <3>2
  <2>3. \A k \in 1 .. v : _data[_ptr' + k - 1] = s - v + k
    <3> SUFFICES ASSUME NEW k \in 1 .. v
                 PROVE  _data[_ptr' + k - 1] = s - v + k
      OBVIOUS
    <3>1. u > 1 /\ v = u - 1 /\ _ptr' = p + 1
      BY <1>8, <1>9
    <3>2. k + 1 \in 1 .. u /\ p + 1 + k - 1 = p + (k + 1) - 1 /\ s - v + k = s - u + (k + 1)
      BY <3>1
    <3>3. _data[p + (k + 1) - 1] = s - u + (k + 1)
      BY <1>2, <1>3, <3>2 DEF Received
    <3> QED
      BY <3>1, <3>2, <3>3
  <2>4. losses = 0 => MO!Documents' = 1 .. s - v
    <3> SUFFICES ASSUME losses = 0
                 PROVE  MO!Documents' = 1 .. s - v
      OBVIOUS
    <3>1. MO!Documents = 1 .. s - u
      BY <1>2, <1>3 DEF Received
    <3>2. CASE u = 0
      BY <1>10, <1>11, <3>1, <3>2
    <3>3. CASE u # 0
      <4>1. 1 .. s - v = (1 .. s - u) \cup {s - v}
        BY <1>5, <1>10, <3>3
      <4> QED
        BY <1>11, <3>1, <3>3, <4>1
    <3> QED
      BY <3>2, <3>3
  <2> QED
    BY <1>1, <1>2, <1>9, <2>1, <2>2, <2>3, <2>4 DEF Received, MO!NoData, MO!Undefined
<1>19. Serving(s)' /\ Answering(s)'
  BY <1>1, <1>2 DEF Serving, Answering
<1>20. Complete(s)'
  <2>1. MO!NoData' = MO!NoData
    BY DEF MO!NoData, MO!Undefined
  <2> QED
    BY <1>1, <1>2, <1>3, <1>9, <1>13, <2>1 DEF Complete
<1> QED
  BY <1>1, <1>2, <1>14, <1>15, <1>16, <1>17, <1>18, <1>19, <1>20 DEF CursorInv

\* The answer is taken: what it brings, and what is left of the limit.
LEMMA AnsweredStep ==
  ASSUME CursorInv, MO!Answered
  PROVE  CursorInv'
<1>0. PICK n \in Nat : n = Len(reply.results)
  BY LenProperties DEF CursorInv, CursorTypes
<1> DEFINE lim == IF _limit > n THEN _limit - n ELSE 0
           kill == reply.cursor_id # 0 /\ _limit # 0 /\ lim = 0
<1>1. /\ pc = "answered" /\ pc' = IF kill THEN "kill" ELSE "next"
      /\ _data' = reply.results /\ _ptr' = 1
      /\ _limit' = IF reply.cursor_id # 0 THEN lim ELSE _limit
      /\ _cursor' = reply.cursor_id
      /\ UNCHANGED <<docs, amount, cursors, answers, reply, losses, _eof, given, unkilled>>
  BY <1>0 DEF MO!Answered
<1>2. PICK s \in 0 .. docs : Received(s) /\ Serving(s) /\ Answering(s) /\ Complete(s)
  BY DEF CursorInv
<1>3. _ptr = 0 /\ Unread = 0
  BY <1>1 DEF CursorInv, CursorPlaces, Unread
<1>4. PICK t \in s .. docs :
        /\ t + n <= docs
        /\ \A i \in 1 .. n : reply.results[i] = t + i
        /\ amount # 0 /\ ~unkilled => n <= _limit
        /\ \A c \in cursors : c.id = reply.cursor_id => c.at > t + n
        /\ losses = 0 =>
             /\ t = s
             /\ \A c \in cursors : c.id = reply.cursor_id /\ c.at = t + n + 1
             /\ reply.cursor_id # 0 => \E c \in cursors : c.id = reply.cursor_id
             /\ reply.cursor_id = 0 => t + n = docs
  BY <1>0, <1>1, <1>2 DEF Answering
<1>5. /\ docs \in Nat /\ reply.results \in Seq(Nat) /\ n \in Nat /\ _limit \in Nat
      /\ reply.cursor_id \in Nat /\ amount \in Nat
  BY <1>0 DEF CursorInv, CursorTypes
<1>6. /\ MO!Documents \subseteq 1 .. s /\ IsFiniteSet(MO!Documents) /\ Count \in Nat
  <2>1. s - 0 = s
    BY <1>5
  <2> QED
    BY <1>2, <1>3, <2>1, DocumentsFinite DEF CursorInv
<1>7. lim \in Nat
  BY <1>5
<1>8. amount # 0 /\ ~unkilled => lim = _limit - n
  BY <1>4, <1>5
<1>9. kill <=> reply.cursor_id # 0 /\ _limit # 0 /\ lim = 0
  OBVIOUS
<1> HIDE DEF lim, kill
<1>10. amount # 0 /\ ~unkilled => Count + _limit = amount /\ _limit > 0
  <2>1. CASE _data = MO!NoData
    <3>1. given = << >> /\ _limit = amount
      BY <1>1, <2>1 DEF CursorInv, CursorPlaces
    <3>2. MO!Documents = {}
      BY <3>1 DEF MO!Documents
    <3>3. Count = 0
      BY <3>2, SameCount, FS_EmptySet DEF Count
    <3> QED
      BY <1>5, <3>1, <3>3
  <2>2. CASE _data # MO!NoData
    <3>1. _cursor # 0
      BY <1>1, <2>2 DEF CursorInv, CursorPlaces
    <3> QED
      BY <1>1, <1>3, <1>5, <1>6, <3>1 DEF CursorInv, Limited
  <2> QED
    BY <2>1, <2>2
<1>11. Unread' = n
  <2>1. Unread' = IF 1 = 0 THEN 0 ELSE (n + 1) - 1
    BY <1>0, <1>1 DEF Unread
  <2> QED
    BY <1>5, <2>1
<1>12. MO!Documents' = MO!Documents /\ Count' = Count
  BY <1>1 DEF Count, MO!Documents, MO!Cardinality, MO!Undefined
<1>13. _data' # MO!NoData' /\ MO!NoData' = MO!NoData
  <2>1. \A i \in 1 .. Len(reply.results) : reply.results[i] # 0
    BY <1>0, <1>4, <1>5
  <2>2. MO!NoData' = MO!NoData
    BY DEF MO!NoData, MO!Undefined
  <2> QED
    BY <1>1, <2>1, <2>2, NoDataFacts
<1>14. CursorTypes'
  BY <1>1, <1>5, <1>7 DEF CursorInv, CursorTypes
<1>15. CursorPlaces'
  <2>1. 1 \in 1 .. n \/ reply.results = << >>
    <3>1. n = 0 => reply.results = << >>
      BY <1>0, <1>5, EmptySeq
    <3> QED
      BY <1>5, <3>1
  <2>2. ~ _eof /\ (losses = 0 => ~unkilled)
    BY <1>1 DEF CursorInv, CursorPlaces
  <2>3. kill => amount # 0 /\ reply.cursor_id # 0 /\ lim = 0
    BY <1>9 DEF CursorInv, Limited
  <2> QED
    BY <1>0, <1>1, <1>13, <2>1, <2>2, <2>3 DEF CursorPlaces
<1>16. Ascending'
  BY <1>1 DEF CursorInv, Ascending
<1>17. Limited'
  <2>1. amount = 0 => _limit = 0 /\ lim = 0
    BY <1>5 DEF CursorInv, Limited, lim
  <2>2. CASE amount = 0
    BY <1>1, <2>1, <2>2 DEF Limited
  <2>3. CASE amount # 0 /\ ~unkilled
    <3>1. Count + n <= amount
      BY <1>4, <1>5, <1>6, <1>10, <2>3
    <3>2. _cursor' # 0 => _limit' = lim /\ (lim # 0 \/ pc' = "kill")
      BY <1>1, <1>9, <1>10, <2>3
    <3>3. Count + n + lim = amount
      BY <1>5, <1>6, <1>8, <1>10, <2>3
    <3>4. lim # 0 => lim > 0
      BY <1>7
    <3> QED
      BY <1>1, <1>11, <1>12, <2>3, <3>1, <3>2, <3>3, <3>4 DEF Limited
  <2>4. CASE amount # 0 /\ unkilled
    BY <1>1, <2>4 DEF Limited
  <2> QED
    BY <2>2, <2>3, <2>4
<1>18. PICK e \in 0 .. docs : e = t + n /\ e - n = t /\ s <= t
  BY <1>4, <1>5
<1>19. Received(e)'
  <2>1. n <= e
    BY <1>5, <1>18
  <2>2. \A i \in DOMAIN given : given[i] <= t
    <3>1. \A i \in DOMAIN given : given[i] \in Nat /\ given[i] <= s
      <4>1. s - 0 = s
        BY <1>5
      <4> QED
        BY <1>2, <1>3, <4>1, ElementOfSeq, LenProperties DEF CursorInv, CursorTypes, Received
    <3> QED
      BY <1>5, <1>18, <3>1
  <2>3. \A k \in 1 .. n : _data'[1 + k - 1] = t + k
    <3>1. \A k \in 1 .. n : 1 + k - 1 = k
      BY <1>5
    <3> QED
      BY <1>1, <1>4, <3>1
  <2>4. losses = 0 => MO!Documents = 1 .. t
    <3>1. s - 0 = s
      BY <1>5
    <3> QED
      BY <1>2, <1>3, <1>4, <3>1 DEF Received
  <2> QED
    BY <1>1, <1>11, <1>12, <1>13, <1>18, <2>1, <2>2, <2>3, <2>4 DEF Received
<1>20. Serving(e)'
  BY <1>1, <1>4, <1>18 DEF Serving
<1>21. Answering(e)'
  BY <1>1 DEF Answering
<1>22. Complete(e)'
  BY <1>1, <1>4, <1>18 DEF Complete
<1> QED
  BY <1>1, <1>14, <1>15, <1>16, <1>17, <1>18, <1>19, <1>20, <1>21, <1>22 DEF CursorInv

\* close() is awaited: the server's cursor is gone, or has_next() throws.
LEMMA CloseStep ==
  ASSUME CursorInv, MO!Close
  PROVE  CursorInv'
<1>1. /\ pc = "kill" /\ cursors' = {c \in cursors : c.id # _cursor}
      /\ UNCHANGED <<docs, amount, answers, reply, _data, _ptr, _eof, _limit, given>>
  BY DEF MO!Close
<1>2. \/ /\ pc' = "next" /\ _cursor' = 0 /\ losses' = losses /\ unkilled' = unkilled
      \/ /\ pc' = "idle" /\ unkilled' = TRUE /\ _cursor' = _cursor
         /\ losses' = losses + 1 /\ losses' # 0
  BY DEF MO!Close, CursorInv, CursorTypes
<1>3. _ptr # 0 /\ _cursor # 0 /\ amount # 0 /\ _limit = 0 /\ _data # MO!NoData /\ ~ _eof
  BY <1>1 DEF CursorInv, CursorPlaces
<1>4. PICK s \in 0 .. docs : Received(s) /\ Serving(s) /\ Answering(s) /\ Complete(s)
  BY DEF CursorInv
<1>5. Unread' = Unread /\ Count' = Count /\ MO!Documents' = MO!Documents
  BY <1>1 DEF Unread, Count, MO!Documents, MO!Cardinality, MO!Undefined
<1>6. MO!NoData' = MO!NoData
  BY DEF MO!NoData, MO!Undefined
<1>7. CursorTypes'
  BY <1>1, <1>2 DEF CursorInv, CursorTypes
<1>8. CursorPlaces'
  BY <1>1, <1>2, <1>3, <1>6 DEF CursorInv, CursorPlaces
<1>9. Ascending' /\ Limited'
  BY <1>1, <1>2, <1>3, <1>5 DEF CursorInv, Ascending, Limited
<1>10. Received(s)'
  BY <1>1, <1>2, <1>3, <1>4, <1>5, <1>6 DEF Received
<1>11. Serving(s)'
  <2>1. \A c \in cursors' : c \in cursors /\ c.id # 0 /\ c.id # _cursor
    BY <1>1 DEF CursorInv, CursorTypes
  <2> QED
    BY <1>1, <1>2, <1>4, <2>1 DEF Serving
<1>12. Answering(s)'
  BY <1>2 DEF Answering
<1>13. Complete(s)'
  <2>1. losses = 0 => Count + Unread = amount
    <3>1. Count \in Nat /\ Unread \in Nat
      BY <1>4, DocumentsFinite, CursorNumbers DEF CursorInv
    <3> QED
      BY <1>3, <3>1 DEF CursorInv, CursorPlaces, Limited
  <2> QED
    BY <1>1, <1>2, <1>3, <1>5, <2>1 DEF Complete
<1> QED
  BY <1>1, <1>4, <1>7, <1>8, <1>9, <1>10, <1>11, <1>12, <1>13 DEF CursorInv

\* A batch of the server.
LEMMA BatchStep ==
  ASSUME CursorInv, NEW s \in 0 .. docs, Received(s), Serving(s),
         NEW id \in 1 .. answers + 1, NEW from \in 1 .. docs + 1, MO!Batch(id, from),
         s < from, losses = 0 => from = s + 1, losses = 0 => \A c \in cursors : c.id = id,
         amount # 0 /\ ~unkilled => _limit # 0,
         pc' = "answered", UNCHANGED <<docs, amount, losses, _cursor, _limit, unkilled>>
  PROVE  /\ cursors' \subseteq [id : 1 .. answers + 1, at : 1 .. docs + 1]
         /\ reply' \in [results : Seq(Nat), cursor_id : Nat]
         /\ Serving(s)' /\ Answering(s)'
<1>1. docs \in Nat /\ answers \in Nat /\ from \in Nat /\ id \in Nat /\ id # 0
  BY DEF CursorInv, CursorTypes
<1>0. PICK to \in from .. docs + 1 :
        /\ _limit # 0 => to - from <= _limit
        /\ \E keep \in {TRUE, to <= docs} :
             /\ cursors' = {c \in cursors : c.id # id}
                             \cup (IF keep THEN {[id |-> id, at |-> to]} ELSE {})
             /\ reply' = [results |-> [i \in 1 .. to - from |-> from + i - 1],
                          cursor_id |-> IF keep THEN id ELSE 0]
  BY DEF MO!Batch
<1>2. PICK keep \in {TRUE, to <= docs} :
        /\ cursors' = {c \in cursors : c.id # id} \cup (IF keep THEN {[id |-> id, at |-> to]} ELSE {})
        /\ reply' = [results |-> [i \in 1 .. to - from |-> from + i - 1],
                     cursor_id |-> IF keep THEN id ELSE 0]
  BY <1>0
<1>3. PICK n \in Nat, t \in s .. docs : n = to - from /\ t = from - 1 /\ t + n = to - 1
  <2>1. to - from \in Nat /\ from - 1 \in s .. docs /\ (from - 1) + (to - from) = to - 1
    BY <1>0, <1>1
  <2> QED
    BY <2>1
<1>4. PICK r \in Seq(Nat) : r = reply'.results /\ Len(r) = n /\ \A i \in 1 .. n : r[i] = t + i
  <2> DEFINE q == [i \in 1 .. n |-> from + i - 1]
  <2>1. \A i \in 1 .. n : from + i - 1 \in Nat /\ from + i - 1 = t + i
    BY <1>1, <1>3
  <2>2. q \in Seq(Nat) /\ Len(q) = n
    BY <2>1, IsASeq
  <2>3. \A i \in 1 .. n : q[i] = t + i
    BY <2>1
  <2>4. reply'.results = q
    BY <1>2, <1>3
  <2> QED
    BY <2>2, <2>3, <2>4
<1>5. PICK k : k = reply'.cursor_id /\ k = IF keep THEN id ELSE 0
  BY <1>2
<1>6. reply' \in [results : Seq(Nat), cursor_id : Nat]
  <2>1. reply' = [results |-> r, cursor_id |-> k]
    BY <1>2, <1>4, <1>5
  <2>2. k \in Nat
    BY <1>1, <1>5
  <2> QED
    BY <2>1, <2>2
<1>7. PICK new \in [id : 1 .. answers + 1, at : 1 .. docs + 1] :
        new = [id |-> id, at |-> to] /\ new.id = id /\ new.at = to
  <2>1. to \in 1 .. docs + 1
    BY <1>0, <1>1
  <2> DEFINE m == [id |-> id, at |-> to]
  <2>2. m \in [id : 1 .. answers + 1, at : 1 .. docs + 1]
    BY <2>1
  <2>3. m.id = id /\ m.at = to
    OBVIOUS
  <2> QED
    BY <2>2, <2>3
<1>8. /\ \A c \in cursors' : (c \in cursors /\ c.id # id) \/ (keep /\ c = new)
      /\ keep => new \in cursors'
  BY <1>2, <1>7
<1>9. \A c \in cursors : c \in [id : 1 .. answers + 1, at : 1 .. docs + 1] /\ c.id # 0
  <2>1. cursors \subseteq [id : 1 .. answers, at : 1 .. docs + 1] /\ 1 .. answers \subseteq 1 .. answers + 1
    BY <1>1 DEF CursorInv, CursorTypes
  <2> QED
    BY <2>1
<1>10. cursors' \subseteq [id : 1 .. answers + 1, at : 1 .. docs + 1]
  BY <1>8, <1>9
<1>11. to > s /\ to = t + n + 1
  BY <1>0, <1>1, <1>3
<1>12. Serving(s)'
  <2>1. \A c \in cursors' : c.id = _cursor => c.at > s
    BY <1>7, <1>8, <1>11 DEF Serving
  <2> QED
    BY <2>1 DEF Serving
<1>13. Answering(s)'
  <2>1. t + n <= docs
    BY <1>0, <1>1, <1>3
  <2>2. amount # 0 /\ ~unkilled => n <= _limit
    BY <1>0, <1>3
  <2>3. \A c \in cursors' : c.id = k => c = new
    BY <1>1, <1>5, <1>8, <1>9
  <2>4. t + n + 1 > t + n
    BY <1>3
  <2>5. \A c \in cursors' : c.id = k => c.at > t + n
    BY <1>7, <1>11, <2>3, <2>4
  <2>6. ASSUME losses = 0
        PROVE  /\ t = s
               /\ \A c \in cursors' : c.id = k /\ c.at = t + n + 1
               /\ k # 0 => \E c \in cursors' : c.id = k
               /\ k = 0 => t + n = docs
    <3>1. t = s
      BY <1>1, <1>3, <2>6
    <3>2. \A c \in cursors' : keep /\ c = new
      BY <1>8, <2>6
    <3>3. \A c \in cursors' : c.id = k /\ c.at = t + n + 1
      BY <1>5, <1>7, <1>11, <3>2
    <3>4. k # 0 => \E c \in cursors' : c.id = k
      BY <1>5, <1>7, <1>8
    <3>5. k = 0 => t + n = docs
      <4>1. k = 0 => ~ keep
        BY <1>1, <1>5
      <4>2. ~ keep => ~ (to <= docs)
        BY <1>2
      <4> QED
        BY <1>0, <1>1, <1>3, <4>1, <4>2
    <3> QED
      BY <3>1, <3>3, <3>4, <3>5
  <2> QED
    BY <1>4, <1>5, <2>1, <2>2, <2>5, <2>6 DEF Answering
<1> QED
  BY <1>6, <1>10, <1>12, <1>13

\* The server answers.
LEMMA ServerStep ==
  ASSUME CursorInv, MO!ServerAnswers
  PROVE  CursorInv'
<1>1. /\ answers' = answers + 1 /\ pc' = "answered" /\ pc \in {"query", "get_more"}
      /\ UNCHANGED <<docs, amount, losses, _data, _ptr, _eof, _cursor, _limit, given, unkilled>>
  BY DEF MO!ServerAnswers, MO!clientVars
<1>2. PICK s \in 0 .. docs : Received(s) /\ Serving(s) /\ Answering(s) /\ Complete(s)
  BY DEF CursorInv
<1>3. /\ docs \in Nat /\ answers \in Nat
      /\ \A c \in cursors : c.id \in 1 .. answers /\ c.at \in 1 .. docs + 1
  BY DEF CursorInv, CursorTypes
<1>4. /\ cursors' \subseteq [id : 1 .. answers + 1, at : 1 .. docs + 1]
      /\ reply' \in [results : Seq(Nat), cursor_id : Nat]
      /\ Serving(s)' /\ Answering(s)'
  <2>1. CASE pc = "query" /\ MO!Batch(answers + 1, 1)
    <3>1. _data = MO!NoData /\ given = << >> /\ _cursor = 0 /\ _limit = amount
      BY <2>1 DEF CursorInv, CursorPlaces
    <3>2. \A c \in cursors : c.id # _cursor
      BY <1>3, <3>1
    <3>3. losses = 0 => cursors = {}
      BY <1>2, <2>1, <3>2 DEF Serving
    <3>4. s = 0
      BY <1>2, <2>1, <3>1 DEF Received
    <3>5. amount # 0 /\ ~unkilled => _limit # 0
      BY <3>1
    <3>6. PICK id \in 1 .. answers + 1, from \in 1 .. docs + 1 :
            from = 1 /\ s < from /\ from = s + 1 /\ MO!Batch(id, from)
      <4>1. answers + 1 \in 1 .. answers + 1 /\ 1 \in 1 .. docs + 1
        BY <1>3
      <4> QED
        BY <2>1, <3>4, <4>1
    <3> QED
      BY <1>1, <1>2, <3>3, <3>5, <3>6, BatchStep
  <2>2. CASE pc = "get_more" /\ \E c \in cursors : c.id = _cursor /\ MO!Batch(_cursor, c.at)
    <3>1. PICK c \in cursors : c.id = _cursor /\ MO!Batch(_cursor, c.at)
      BY <2>2
    <3>2. PICK id \in 1 .. answers + 1, from \in 1 .. docs + 1 : id = _cursor /\ from = c.at /\ MO!Batch(id, from)
      <4>1. c.id \in 1 .. answers + 1 /\ c.at \in 1 .. docs + 1
        BY <1>3
      <4> QED
        BY <3>1, <4>1
    <3>3. /\ s < from
          /\ losses = 0 => from = s + 1 /\ \A d \in cursors : d.id = id
      BY <1>2, <2>2, <3>1, <3>2 DEF Serving
    <3>4. amount # 0 /\ ~unkilled => _limit # 0
      BY <2>2 DEF CursorInv, CursorPlaces, Limited
    <3> QED
      BY <1>1, <1>2, <3>2, <3>3, <3>4, BatchStep
  <2>3. CASE /\ pc = "get_more" /\ ~ \E c \in cursors : c.id = _cursor
             /\ reply' = MO!NoReply /\ UNCHANGED cursors
    <3>1. losses # 0
      BY <1>2, <2>3 DEF Serving, CursorInv, CursorPlaces
    <3>2. reply'.results = << >> /\ reply'.cursor_id = 0 /\ Len(reply'.results) = 0
          /\ reply' \in [results : Seq(Nat), cursor_id : Nat]
      BY <2>3, EmptySeq DEF MO!NoReply
    <3>3. cursors' \subseteq [id : 1 .. answers + 1, at : 1 .. docs + 1]
      <4>1. cursors \subseteq [id : 1 .. answers, at : 1 .. docs + 1] /\ 1 .. answers \subseteq 1 .. answers + 1
        BY <1>3 DEF CursorInv, CursorTypes
      <4> QED
        BY <2>3, <4>1
    <3>4. Serving(s)'
      BY <1>1, <1>2, <2>3 DEF Serving
    <3>5. Answering(s)'
      <4>1. s \in s .. docs /\ s + 0 <= docs /\ 1 .. 0 = {}
        BY <1>3
      <4>2. \A c \in cursors' : c.id # 0
        BY <1>3, <2>3
      <4>3. amount # 0 => 0 <= _limit
        BY DEF CursorInv, CursorTypes
      <4> QED
        BY <1>1, <3>1, <3>2, <4>1, <4>2, <4>3 DEF Answering
    <3> QED
      BY <3>2, <3>3, <3>4, <3>5
  <2> QED
    BY <1>1, <2>1, <2>2, <2>3 DEF MO!ServerAnswers
<1>5. CursorTypes'
  BY <1>1, <1>3, <1>4 DEF CursorInv, CursorTypes
<1>6. MO!NoData' = MO!NoData
  BY DEF MO!NoData, MO!Undefined
<1>7. CursorPlaces'
  BY <1>1, <1>6 DEF CursorInv, CursorPlaces
<1>8. Unread' = Unread /\ Count' = Count /\ MO!Documents' = MO!Documents
  BY <1>1 DEF Unread, Count, MO!Documents, MO!Cardinality, MO!Undefined
<1>9. Ascending' /\ Limited'
  BY <1>1, <1>8 DEF CursorInv, Ascending, Limited
<1>10. Received(s)' /\ Complete(s)'
  BY <1>1, <1>2, <1>6, <1>8 DEF Received, Complete
<1> QED
  BY <1>1, <1>2, <1>4, <1>5, <1>7, <1>9, <1>10 DEF CursorInv

\* A cursor gives no document twice or out of order, and no more than the limit
\* unless the kill at its end failed; all of them, if no request is lost and no
\* cursor forgotten.  However the server cuts its batches, for any number of
\* documents, lost requests and forgotten cursors.
THEOREM CursorCorrect ==
  ASSUME MaxDocs \in Nat
  PROVE  MO!Spec => []CursorSafe
<1>1. MO!Init => CursorInv
  <2> SUFFICES ASSUME MO!Init
               PROVE  CursorInv
    OBVIOUS
  <2>1. /\ docs \in Nat /\ amount \in Nat /\ pc = "idle" /\ cursors = {} /\ answers = 0
        /\ reply = [results |-> << >>, cursor_id |-> 0] /\ losses = 0
        /\ _data = MO!NoData /\ _ptr = 0 /\ _eof = FALSE /\ _cursor = 0 /\ _limit = amount
        /\ given = << >> /\ unkilled = FALSE
    BY DEF MO!Init, MO!NoReply, MO!Undefined
  <2>2. DOMAIN given = {} /\ MO!Documents = {}
    BY <2>1, EmptySeq DEF MO!Documents
  <2>3. Count = 0 /\ Unread = 0
    BY <2>1, <2>2, SameCount, FS_EmptySet DEF Count, Unread
  <2>4. CursorTypes
    BY <2>1, NoDataFacts, EmptySeq DEF CursorTypes
  <2>5. CursorPlaces /\ Ascending
    BY <2>1, <2>2 DEF CursorPlaces, Ascending
  <2>6. Limited
    BY <2>1, <2>3 DEF Limited
  <2>7. 0 \in 0 .. docs /\ 0 - 0 = 0 /\ 1 .. 0 = {}
    BY <2>1
  <2>8. Received(0) /\ Serving(0) /\ Answering(0) /\ Complete(0)
    BY <2>1, <2>2, <2>3, <2>7 DEF Received, Serving, Answering, Complete
  <2> QED
    BY <2>4, <2>5, <2>6, <2>7, <2>8 DEF CursorInv
<1>2. CursorInv /\ UNCHANGED MO!cursorVars => CursorInv'
  <2> SUFFICES ASSUME CursorInv, UNCHANGED MO!cursorVars
               PROVE  CursorInv'
    OBVIOUS
  <2>1. UNCHANGED <<docs, amount, pc, cursors, answers, reply, losses,
                    _data, _ptr, _eof, _cursor, _limit, given, unkilled>>
    BY DEF MO!cursorVars
  <2>2. /\ Unread' = Unread /\ Count' = Count /\ MO!Documents' = MO!Documents
        /\ MO!NoData' = MO!NoData
    BY <2>1 DEF Unread, Count, MO!Documents, MO!Cardinality, MO!NoData, MO!Undefined
  <2>3. PICK s \in 0 .. docs : Received(s) /\ Serving(s) /\ Answering(s) /\ Complete(s)
    BY DEF CursorInv
  <2>4. CursorTypes' /\ CursorPlaces'
    BY <2>1, <2>2 DEF CursorInv, CursorTypes, CursorPlaces
  <2>5. Ascending' /\ Limited'
    BY <2>1, <2>2 DEF CursorInv, Ascending, Limited
  <2>6. Received(s)' /\ Complete(s)'
    BY <2>1, <2>2, <2>3 DEF Received, Complete
  <2>7. Serving(s)' /\ Answering(s)'
    BY <2>1, <2>3 DEF Serving, Answering
  <2> QED
    BY <2>1, <2>3, <2>4, <2>5, <2>6, <2>7 DEF CursorInv
<1>3. CursorInv /\ [MO!Next]_MO!cursorVars => CursorInv'
  BY <1>2, HasNextStep, AnsweredStep, CloseStep, NextDocumentStep, ServerStep, LossStep DEF MO!Next
<1>4. CursorInv => CursorSafe
  <2> SUFFICES ASSUME CursorInv
               PROVE  MO!CursorSafe
    BY DEF CursorSafe
  <2>1. PICK s \in 0 .. docs : Received(s) /\ Serving(s) /\ Answering(s) /\ Complete(s)
    BY DEF CursorInv
  <2>2. /\ docs \in Nat /\ amount \in Nat /\ Unread \in Nat /\ s - Unread \in 0 .. docs
        /\ MO!Documents \subseteq 1 .. s - Unread /\ Count \in Nat
    BY <2>1, CursorNumbers, DocumentsFinite DEF CursorInv, CursorTypes
  <2>3. MO!InOrder
    <3>1. MO!Documents \subseteq 1 .. docs
      BY <2>2
    <3>2. losses = 0 => \E n \in 0 .. docs : MO!Documents = 1 .. n
      BY <2>1, <2>2 DEF Received
    <3>3. amount # 0 /\ ~unkilled => Count <= amount
      BY <2>2 DEF CursorInv, Limited
    <3> QED
      BY <3>1, <3>2, <3>3 DEF MO!InOrder, MO!Undefined, CursorInv, Ascending, Count
  <2>4. MO!EndIsComplete
    <3> SUFFICES ASSUME pc = "ended", losses = 0
                 PROVE  /\ MO!Documents = 1 .. docs \/ (amount # 0 /\ Count = amount)
                        /\ cursors = {}
      BY DEF MO!EndIsComplete, Count
    <3>1. _cursor = 0 /\ _ptr = 0 /\ Unread = 0
      BY DEF CursorInv, CursorPlaces, Unread
    <3>2. cursors = {}
      BY <2>1, <3>1 DEF Serving, CursorInv, CursorTypes
    <3>3. s = docs \/ (amount # 0 /\ Count + 0 = amount)
      BY <2>1, <3>1 DEF Complete
    <3>4. MO!Documents = 1 .. s
      <4>1. s - 0 = s
        BY <2>2
      <4> QED
        BY <2>1, <3>1, <4>1 DEF Received
    <3> QED
      BY <2>2, <3>2, <3>3, <3>4
  <2>5. MO!PromiseIsKept
    BY DEF MO!PromiseIsKept, CursorInv, CursorPlaces
  <2> QED
    BY <2>3, <2>4, <2>5 DEF MO!CursorSafe
<1> QED
  BY <1>1, <1>3, <1>4, PTL DEF MO!Spec

-----------------------------------------------------------------------------
(* WebSocket.                                                              *)

Kept == [own : Nat, masked : BOOLEAN]
Heads == [fin : BOOLEAN, op : {"TEXT", "FRAME", "CLOSE", "PING", "PONG"},
          mask : BOOLEAN, len : Nat]
Items == Kept \cup Heads
\* The head of the last frame of a message.
Lasts == {h \in Heads : h.fin /\ h.op \notin WS!Control}
\* What belongs to message n.
Of(n) == {x \in Kept : x.own = n}

\* How many of s are in S.
CountIn(s, S) == Cardinality({i \in DOMAIN s : s[i] \in S})

Size(h) == h.len + (IF h.mask THEN 1 ELSE 0)
Mark(h) == IF h \in Lasts THEN 1 ELSE 0

\* What a frame with the head h carries at its place k, if it is one of message n.
Content(h, n, k) ==
  IF k <= Size(h) - h.len THEN WS!Key
  ELSE WS!Byte(IF h.op \in WS!Control THEN 0 ELSE n, h.mask)
Carries(w, from, h, n) == \A k \in 1 .. Size(h) : w[from + k] = Content(h, n, k)

\* Nothing of w behind from is of a message before n.
NoneBefore(w, from, n) ==
  \A k \in from + 1 .. Len(w) : w[k] \in Kept => w[k].own = 0 \/ w[k].own >= n

\* The frame whose head is w[i].
FrameAt(w, i, n) ==
  /\ i + Size(w[i]) <= Len(w)
  /\ \A k \in i + 1 .. i + Size(w[i]) : w[k] \in Kept
  /\ i + Size(w[i]) < Len(w) => w[i + Size(w[i]) + 1] \in Heads
  /\ Carries(w, i, w[i], n + CountIn(SubSeq(w, 1, i - 1), Lasts))
  /\ NoneBefore(w, i + Size(w[i]), n + CountIn(SubSeq(w, 1, i), Lasts))

\* w is d bytes and then frames, whose messages are numbered from n on.
Chain(w, d, n) ==
  /\ d <= Len(w)
  /\ \A k \in 1 .. d : w[k] \in Kept
  /\ d < Len(w) => w[d + 1] \in Heads
  /\ \A i \in d + 1 .. Len(w) : w[i] \in Heads => FrameAt(w, i, n)
  /\ NoneBefore(w, d, n)

\* Of a reader: what is still due of the frame it has begun, whether this is the last
\* one of a message, and what the buffer has of the message.
Due(rd) == IF rd.pc = "payload" THEN Size(rd.head) ELSE 0
Hand(rd) == IF rd.pc \in {"payload", "frame"} THEN Mark(rd.head) ELSE 0
Fill(rd) == rd.count + (IF rd.pc = "frame" THEN rd.head.len ELSE 0)
Has(rd) == SubSeq(rd.buffer, 1, Fill(rd))

\* The reader of message n has in its buffer what it counts.
Buffered(rd, n) ==
  /\ Fill(rd) <= Len(rd.buffer)
  /\ \A k \in 1 .. Fill(rd) : rd.buffer[k] \in {WS!Byte(0, FALSE), WS!Byte(n, FALSE)}
  /\ rd.pc = "frame" /\ rd.head.op \in WS!Control =>
       \A k \in rd.count + 1 .. Fill(rd) : rd.buffer[k] = WS!Byte(0, FALSE)
  /\ rd.pc \in {"handshake", "answered", "idle"} => rd.count = 0

\* g messages were given, and of those that follow every byte is on its way or
\* in the buffer; up: nothing of s and of the unfinished message was dropped.
Whole(w, rd, g) == g + Hand(rd) + CountIn(w, Lasts)
Amount(w, rd, n) == CountIn(w, Of(n)) + CountIn(Has(rd), Of(n))
Measured(w, rd, g, s, o, up) ==
  /\ Whole(w, rd, g) <= Len(s)
  /\ \A n \in g + 1 .. Whole(w, rd, g) : Amount(w, rd, n) = s[n]
  /\ up => /\ Whole(w, rd, g) = Len(s)
           /\ Amount(w, rd, Len(s) + 1) = o
           /\ \A k \in DOMAIN w : w[k] \in Kept => w[k].own <= Len(s) + 1

\* m is message i of s, with the bytes of control frames that came in between.
IsMessage(m, s, i) ==
  /\ i <= Len(s)
  /\ CountIn(m, {WS!Byte(i, FALSE)}) = s[i]
  /\ \A k \in DOMAIN m : m[k] \in {WS!Byte(i, FALSE), WS!Byte(0, FALSE)}
AllGiven(g, s) == \A i \in DOMAIN g : IsMessage(g[i], s, i)

Live == {"handshake", "answered", "idle", "loop", "header", "payload", "frame"}

\* Of w and rd, g messages were given so far.
Reading(w, rd, g, s, o, up) ==
  /\ Chain(w, Due(rd), g + Hand(rd) + 1)
  /\ rd.pc = "payload" => Carries(w, 0, rd.head, g + 1)
  /\ Buffered(rd, g + 1)
  /\ Measured(w, rd, g, s, o, up)

\* A reader knows no garbled frame, and its messages are those that were sent.
Told(w, rd, gt, s, o, up) ==
  /\ rd.pc # "garbled"
  /\ AllGiven(gt, s)
  /\ rd.pc \in Live => Reading(w, rd, Len(gt), s, o, up)

\* Nothing is in a control frame.
Plain(w, rd) ==
  /\ \A i \in 1 .. Len(w) : w[i] \in Heads /\ w[i].op \in WS!Control => w[i].len = 0
  /\ rd.head.op \in WS!Control => rd.head.len = 0

\* Only a peer that is foreign puts a payload into a control frame or leaves a
\* message unfinished, and it masks nothing; bad: not all it writes can be read.
Well(alien, bad, w, rd, gt, s, o, up) ==
  /\ alien => ~ bad
  /\ ~ alien => o = 0 /\ Plain(w, rd)
  /\ ~ bad => Told(w, rd, gt, s, o, up)

ReadsWell(e) ==
  LET p == WS!Peer(e)
  IN  Well(p \in foreign, lost[p], wire[e], reader[e], got[e], sent[p], open[p], sock[e])

Pcs == Live \cup {"off", "done", "garbled"}
Readers == [pc : Pcs, head : Heads, count : Nat, buffer : Seq(Items)]
Results == {"none", "true", "false", "refused", "closed", "SOCKET_ERROR", "assertion"}
WsTypes ==
  /\ foreign \in {{}, {"client"}, {"server"}}
  /\ wire \in [WS!End -> Seq(Items)]
  /\ sock \in [WS!End -> BOOLEAN] /\ is_close \in [WS!End -> BOOLEAN]
  /\ lost \in [WS!End -> BOOLEAN]
  /\ reader \in [WS!End -> Readers]
  /\ \A e \in WS!End : e \in foreign <=> reader[e].pc = "off"
  /\ sent \in [WS!End -> Seq(Nat)] /\ open \in [WS!End -> Nat]
  /\ got \in [WS!End -> Seq(Seq(Items))]
  /\ pongs \in Seq([payload : Seq(Items), count : Nat])
  /\ closes \in Nat /\ result \in [WS!End -> Results]

\* An end that is told of its connection's end has no socket any more.
EndTold ==
  /\ closes = IF result["server"] = "true" THEN 1 ELSE 0
  /\ \A e \in WS!End : is_close[e] => ~ sock[e]
  /\ result["server"] # "none" <=> reader["server"].pc = "done"
  /\ result["server"] # "none" => is_close["server"]

\* The buffer has what was counted.
Filled == \A e \in WS!End : Fill(reader[e]) <= Len(reader[e].buffer)

\* Both ends, each reading what the other one has sent.
Wells == \A d \in WS!End : d \notin foreign => ReadsWell(d) /\ open[d] = 0

WsInv ==
  /\ WsTypes /\ Filled /\ Wells
  /\ WS!PongEchoes
  /\ EndTold

LEMMA WsPeers ==
  \A e \in WS!End : /\ WS!Peer(e) \in WS!End /\ WS!Peer(e) # e
                    /\ WS!Peer(WS!Peer(e)) = e
                    /\ \A d \in WS!End : d # e => d = WS!Peer(e)
  BY DEF WS!End, WS!Peer

\* Heads and bytes are told apart.
LEMMA ItemKinds ==
  /\ \A x \in Kept : ~ WS!IsHead(x) /\ x \notin Heads
  /\ \A x \in Heads : WS!IsHead(x) /\ x \notin Kept
  /\ \A n \in Nat, m \in BOOLEAN :
       WS!Byte(n, m) \in Kept /\ WS!Byte(n, m).own = n /\ WS!Byte(n, m).masked = m
<1>1. \A x \in Kept : DOMAIN x = {"own", "masked"}
  BY DEF Kept
<1>2. \A x \in Heads : DOMAIN x = {"fin", "op", "mask", "len"}
  BY DEF Heads
<1>3. \A x \in Kept : ~ WS!IsHead(x)
  BY <1>1 DEF WS!IsHead
<1>4. \A x \in Heads : WS!IsHead(x)
  BY <1>2 DEF WS!IsHead
<1>5. \A n \in Nat, m \in BOOLEAN :
        WS!Byte(n, m) \in Kept /\ WS!Byte(n, m).own = n /\ WS!Byte(n, m).masked = m
  BY DEF Kept, WS!Byte
<1> QED
  BY <1>3, <1>4, <1>5

LEMMA CountNat ==
  ASSUME NEW T, NEW s \in Seq(T), NEW S
  PROVE  CountIn(s, S) \in Nat
<1>1. DOMAIN s = 1 .. Len(s) /\ Len(s) \in Nat
  OBVIOUS
<1>2. IsFiniteSet(1 .. Len(s))
  BY <1>1, FS_Interval
<1>3. {i \in DOMAIN s : s[i] \in S} \subseteq 1 .. Len(s)
  BY <1>1
<1>4. IsFiniteSet({i \in DOMAIN s : s[i] \in S})
  BY <1>2, <1>3, FS_Subset
<1> QED
  BY <1>4, FS_CardinalityType DEF CountIn

\* What is counted in a sequence of two parts.
LEMMA CountParts ==
  ASSUME NEW T, NEW s \in Seq(T), NEW t \in Seq(T), NEW S
  PROVE  CountIn(s \o t, S) = CountIn(s, S) + CountIn(t, S)
<1> DEFINE A == {i \in DOMAIN s : s[i] \in S}
           B == {i \in DOMAIN t : t[i] \in S}
           C == {i \in DOMAIN (s \o t) : (s \o t)[i] \in S}
           D == {i \in Len(s) + 1 .. Len(s) + Len(t) : t[i - Len(s)] \in S}
<1>1. /\ Len(s) \in Nat /\ Len(t) \in Nat /\ DOMAIN s = 1 .. Len(s) /\ DOMAIN t = 1 .. Len(t)
      /\ DOMAIN (s \o t) = 1 .. Len(s) + Len(t)
      /\ \A i \in 1 .. Len(s) : (s \o t)[i] = s[i]
      /\ \A i \in Len(s) + 1 .. Len(s) + Len(t) : (s \o t)[i] = t[i - Len(s)]
  <2>1. s \o t \in Seq(T) /\ Len(s \o t) = Len(s) + Len(t)
    OBVIOUS
  <2> QED
    BY <2>1
<1>2. C = A \cup D /\ A \cap D = {}
  BY <1>1
<1>3. IsFiniteSet(A) /\ IsFiniteSet(B) /\ IsFiniteSet(D)
  <2>1. IsFiniteSet(1 .. Len(s)) /\ IsFiniteSet(1 .. Len(t)) /\ IsFiniteSet(Len(s) + 1 .. Len(s) + Len(t))
    BY <1>1, FS_Interval
  <2>2. A \subseteq 1 .. Len(s) /\ B \subseteq 1 .. Len(t) /\ D \subseteq Len(s) + 1 .. Len(s) + Len(t)
    BY <1>1
  <2> QED
    BY <2>1, <2>2, FS_Subset
<1>4. Cardinality(C) = Cardinality(A) + Cardinality(D)
  <2> HIDE DEF A, C, D
  <2>1. Cardinality(A \cup D) = Cardinality(A) + Cardinality(D) - Cardinality(A \cap D)
    BY <1>3, FS_Union
  <2>2. Cardinality({}) = 0
    BY FS_EmptySet
  <2>3. Cardinality(A) \in Nat /\ Cardinality(D) \in Nat
    BY <1>3, FS_CardinalityType
  <2>4. Cardinality(A \cap D) = 0
    BY <1>2, <2>2
  <2>5. Cardinality(C) = Cardinality(A \cup D)
    BY <1>2
  <2> QED
    BY <2>1, <2>3, <2>4, <2>5
<1>5. Cardinality(B) = Cardinality(D)
  <2> DEFINE f == [i \in B |-> i + Len(s)]
  <2>1. f \in Bijection(B, D)
    <3>1. f \in [B -> D]
      BY <1>1
    <3>2. \A a, b \in B : a # b => f[a] # f[b]
      BY <1>1
    <3>3. \A y \in D : \E x \in B : f[x] = y
      <4> TAKE y \in D
      <4>1. y - Len(s) \in B
        BY <1>1
      <4>2. f[y - Len(s)] = y
        BY <1>1, <4>1
      <4> QED
        BY <4>1, <4>2
    <3> HIDE DEF f
    <3> QED
      BY <3>1, <3>2, <3>3 DEF Bijection, Injection, Surjection, IsInjective, VI!IsInjective
  <2>2. ExistsBijection(B, D)
    BY <2>1 DEF ExistsBijection
  <2> QED
    BY <1>3, <2>2, FS_Bijection
<1> QED
  BY <1>4, <1>5 DEF CountIn

LEMMA CountNone ==
  ASSUME NEW T, NEW s \in Seq(T), NEW S, \A i \in 1 .. Len(s) : s[i] \notin S
  PROVE  CountIn(s, S) = 0
<1>1. {i \in DOMAIN s : s[i] \in S} = {}
  OBVIOUS
<1> QED
  BY <1>1, FS_EmptySet DEF CountIn

LEMMA CountOne ==
  ASSUME NEW T, NEW s \in Seq(T), Len(s) = 1, NEW S
  PROVE  CountIn(s, S) = IF s[1] \in S THEN 1 ELSE 0
<1>1. DOMAIN s = {1}
  OBVIOUS
<1>2. {i \in DOMAIN s : s[i] \in S} = IF s[1] \in S THEN {1} ELSE {}
  BY <1>1
<1> QED
  BY <1>2, FS_EmptySet, FS_Singleton DEF CountIn

LEMMA CountEmpty == \A S : CountIn(<< >>, S) = 0
<1>1. \A S : {i \in DOMAIN << >> : << >>[i] \in S} = {}
  OBVIOUS
<1> QED
  BY <1>1, FS_EmptySet DEF CountIn

\* The two parts of a sequence.
LEMMA CutFacts ==
  ASSUME NEW T, NEW s \in Seq(T), NEW d \in 0 .. Len(s)
  PROVE  /\ SubSeq(s, 1, d) \in Seq(T) /\ Len(SubSeq(s, 1, d)) = d
         /\ \A k \in 1 .. d : SubSeq(s, 1, d)[k] = s[k]
         /\ SubSeq(s, d + 1, Len(s)) \in Seq(T) /\ Len(SubSeq(s, d + 1, Len(s))) = Len(s) - d
         /\ \A k \in 1 .. Len(s) - d : SubSeq(s, d + 1, Len(s))[k] = s[d + k]
<1>1. SubSeq(s, 1, d) \in Seq(T) /\ Len(SubSeq(s, 1, d)) = d
  OBVIOUS
<1>2. \A k \in 1 .. d : SubSeq(s, 1, d)[k] = s[k]
  OBVIOUS
<1>3. SubSeq(s, d + 1, Len(s)) \in Seq(T) /\ Len(SubSeq(s, d + 1, Len(s))) = Len(s) - d
  OBVIOUS
<1>4. \A k \in 1 .. Len(s) - d : SubSeq(s, d + 1, Len(s))[k] = s[d + k]
  OBVIOUS
<1> QED
  BY <1>1, <1>2, <1>3, <1>4

\* What is counted in a sequence that is cut, and in its first items.
LEMMA CountCut ==
  ASSUME NEW T, NEW s \in Seq(T), NEW d \in 0 .. Len(s), NEW S
  PROVE  /\ CountIn(s, S) = CountIn(SubSeq(s, 1, d), S) + CountIn(SubSeq(s, d + 1, Len(s)), S)
         /\ CountIn(SubSeq(s, 1, d), S) \in Nat /\ CountIn(SubSeq(s, d + 1, Len(s)), S) \in Nat
<1> DEFINE u == SubSeq(s, 1, d)
           v == SubSeq(s, d + 1, Len(s))
<1>1. u \in Seq(T) /\ v \in Seq(T)
  OBVIOUS
<1>2. s = u \o v
  <2> DEFINE all == SubSeq(s, 1, Len(s))
  <2>1. u \o v = all
    <3>1. 1 \in 1 .. Len(s) + 1 /\ d \in 1 - 1 .. Len(s) /\ Len(s) \in d .. Len(s)
      OBVIOUS
    <3> QED
      BY <3>1, ConcatAdjacentSubSeq, Zenon
  <2>2. all = s
    BY SubSeqFull
  <2> HIDE DEF all, u, v
  <2> QED
    BY <2>1, <2>2
<1>3. CountIn(u \o v, S) = CountIn(u, S) + CountIn(v, S)
  BY <1>1, CountParts
<1>4. CountIn(u, S) \in Nat /\ CountIn(v, S) \in Nat
  BY <1>1, CountNat
<1> HIDE DEF u, v
<1>5. CountIn(s, S) = CountIn(u, S) + CountIn(v, S)
  BY <1>2, <1>3
<1> QED
  BY <1>4, <1>5 DEF u, v

\* The count up to a place grows with the place.
LEMMA CountGrows ==
  ASSUME NEW T, NEW s \in Seq(T), NEW i \in 0 .. Len(s), NEW j \in i .. Len(s), NEW S
  PROVE  CountIn(SubSeq(s, 1, i), S) <= CountIn(SubSeq(s, 1, j), S)
<1>1. SubSeq(s, 1, j) \in Seq(T) /\ Len(SubSeq(s, 1, j)) = j
  OBVIOUS
<1>2. SubSeq(SubSeq(s, 1, j), 1, i) = SubSeq(s, 1, i)
  BY <1>1
<1>3. i \in 0 .. Len(SubSeq(s, 1, j))
  BY <1>1
<1>4. /\ CountIn(SubSeq(s, 1, j), S)
             = CountIn(SubSeq(s, 1, i), S) + CountIn(SubSeq(SubSeq(s, 1, j), i + 1, j), S)
      /\ CountIn(SubSeq(s, 1, i), S) \in Nat
      /\ CountIn(SubSeq(SubSeq(s, 1, j), i + 1, j), S) \in Nat
  BY <1>1, <1>2, <1>3, CountCut, ZenonT(40)
<1> QED
  BY <1>4

LEMMA SizeFacts ==
  \A h \in Heads : /\ Size(h) \in Nat /\ h.len \in Nat /\ Size(h) - h.len \in {0, 1}
                   /\ Mark(h) \in {0, 1}
  BY DEF Heads, Size, Mark, Lasts

\* What is counted up to a place behind a cut.
LEMMA CountShift ==
  ASSUME NEW T, NEW w \in Seq(T), NEW d \in 0 .. Len(w), NEW j \in 0 .. Len(w) - d, NEW S
  PROVE  /\ CountIn(SubSeq(w, 1, j + d), S)
              = CountIn(SubSeq(w, 1, d), S) + CountIn(SubSeq(SubSeq(w, d + 1, Len(w)), 1, j), S)
         /\ CountIn(SubSeq(w, 1, d), S) \in Nat
         /\ CountIn(SubSeq(SubSeq(w, d + 1, Len(w)), 1, j), S) \in Nat
<1> DEFINE u == SubSeq(w, 1, j + d)
<1>1. u \in Seq(T) /\ Len(u) = j + d /\ d \in 0 .. Len(u)
  OBVIOUS
<1>2. SubSeq(u, 1, d) = SubSeq(w, 1, d)
  BY <1>1
<1>3. SubSeq(u, d + 1, Len(u)) = SubSeq(SubSeq(w, d + 1, Len(w)), 1, j)
  <2> DEFINE a == SubSeq(u, d + 1, Len(u))
             b == SubSeq(SubSeq(w, d + 1, Len(w)), 1, j)
  <2>1. a \in Seq(T) /\ b \in Seq(T) /\ Len(a) = j /\ Len(b) = j
    BY <1>1
  <2>2. \A i \in 1 .. j : a[i] = w[i + d] /\ b[i] = w[i + d]
    BY <1>1
  <2> HIDE DEF a, b
  <2> QED
    BY <2>1, <2>2, SeqEqual
<1>4. /\ CountIn(u, S) = CountIn(SubSeq(u, 1, d), S) + CountIn(SubSeq(u, d + 1, Len(u)), S)
      /\ CountIn(SubSeq(u, 1, d), S) \in Nat /\ CountIn(SubSeq(u, d + 1, Len(u)), S) \in Nat
  BY <1>1, CountCut
<1> QED
  BY <1>2, <1>3, <1>4

\* A frame stays one when what is before it is cut off.
LEMMA FrameShift ==
  ASSUME NEW w \in Seq(Items), NEW d \in 0 .. Len(w), NEW i \in 1 .. Len(w) - d, NEW n \in Nat,
         w[i + d] \in Heads, FrameAt(w, i + d, n)
  PROVE  FrameAt(SubSeq(w, d + 1, Len(w)), i, n + CountIn(SubSeq(w, 1, d), Lasts))
<1> DEFINE t == SubSeq(w, d + 1, Len(w))
           c == CountIn(SubSeq(w, 1, d), Lasts)
           z == Size(w[i + d])
<1>1. t \in Seq(Items) /\ Len(t) = Len(w) - d /\ \A k \in 1 .. Len(w) - d : t[k] = w[k + d]
  OBVIOUS
<1>2. z \in Nat /\ w[i + d].len \in Nat /\ z - w[i + d].len \in {0, 1}
  BY SizeFacts
<1>3. /\ CountIn(SubSeq(w, 1, i + d), Lasts) = c + CountIn(SubSeq(t, 1, i), Lasts)
      /\ c \in Nat /\ CountIn(SubSeq(t, 1, i), Lasts) \in Nat
  BY CountShift
<1>4. /\ CountIn(SubSeq(w, 1, (i - 1) + d), Lasts) = c + CountIn(SubSeq(t, 1, i - 1), Lasts)
      /\ CountIn(SubSeq(t, 1, i - 1), Lasts) \in Nat
  <2>1. i - 1 \in 0 .. Len(w) - d
    OBVIOUS
  <2> QED
    BY <2>1, CountShift, ZenonT(40)
<1>5. (i - 1) + d = (i + d) - 1
  OBVIOUS
<1>6. /\ i + d + z <= Len(w)
      /\ \A k \in i + d + 1 .. i + d + z : w[k] \in Kept
      /\ i + d + z < Len(w) => w[i + d + z + 1] \in Heads
      /\ Carries(w, i + d, w[i + d], n + CountIn(SubSeq(w, 1, (i + d) - 1), Lasts))
      /\ NoneBefore(w, i + d + z, n + CountIn(SubSeq(w, 1, i + d), Lasts))
  BY DEF FrameAt
<1>7. t[i] = w[i + d]
  BY <1>1
<1> DEFINE p == CountIn(SubSeq(t, 1, i - 1), Lasts)
           q == CountIn(SubSeq(t, 1, i), Lasts)
<1>8. n + CountIn(SubSeq(w, 1, (i + d) - 1), Lasts) = n + c + p
  BY <1>3, <1>4, <1>5
<1>9. n + CountIn(SubSeq(w, 1, i + d), Lasts) = n + c + q
  BY <1>3
<1>10. Carries(w, i + d, w[i + d], n + c + p) /\ NoneBefore(w, i + d + z, n + c + q)
  BY <1>6, <1>8, <1>9
<1>11. c \in Nat /\ p \in Nat /\ q \in Nat
  BY <1>3, <1>4
<1> HIDE DEF t, c, z, p, q
<1>17. i + d + z <= Len(w) /\ Len(w) \in Nat
  BY <1>6
<1>12. i + z <= Len(t) /\ \A k \in i + 1 .. i + z : t[k] \in Kept
  <2>1. i + z <= Len(t) /\ z \in Nat
    BY <1>1, <1>2, <1>17
  <2>2. ASSUME NEW k \in i + 1 .. i + z
        PROVE  t[k] \in Kept
    <3>1. k + d \in i + d + 1 .. i + d + z /\ k \in 1 .. Len(w) - d
      BY <1>2, <1>17
    <3>2. w[k + d] \in Kept
      BY <1>6, <3>1
    <3>3. t[k] = w[k + d]
      BY <1>1, <3>1
    <3> QED
      BY <3>2, <3>3
  <2> QED
    BY <2>1, <2>2
<1>13. ASSUME i + z < Len(t)
       PROVE  t[i + z + 1] \in Heads
  <2>1. i + z + 1 \in 1 .. Len(w) - d /\ (i + z + 1) + d = i + d + z + 1 /\ i + d + z < Len(w)
    BY <1>1, <1>2, <1>13, <1>17
  <2>2. w[(i + z + 1) + d] \in Heads
    BY <1>6, <2>1
  <2> QED
    BY <1>1, <2>1, <2>2
<1>14. Carries(t, i, w[i + d], n + c + p)
  <2> DEFINE h == w[i + d]
             m == n + c + p
  <2>1. \A k \in 1 .. z : w[i + d + k] = Content(h, m, k)
    BY <1>10 DEF Carries, z
  <2> HIDE DEF m, h
  <2>2. ASSUME NEW k \in 1 .. z
        PROVE  t[i + k] = Content(h, m, k)
    <3>1. i + k \in 1 .. Len(w) - d /\ (i + k) + d = i + d + k
      BY <1>2, <1>17
    <3> QED
      BY <1>1, <2>1, <3>1
  <2> QED
    BY <2>2 DEF Carries, h, m, z
<1>15. NoneBefore(t, i + z, n + c + q)
  <2>1. \A k \in i + d + z + 1 .. Len(w) : w[k] \in Kept => w[k].own = 0 \/ w[k].own >= n + c + q
    BY <1>10 DEF NoneBefore
  <2>2. \A k \in i + z + 1 .. Len(t) : k + d \in i + d + z + 1 .. Len(w) /\ k \in 1 .. Len(w) - d
    BY <1>1, <1>2
  <2>3. \A k \in i + z + 1 .. Len(t) : t[k] \in Kept => t[k].own = 0 \/ t[k].own >= n + c + q
    BY <1>1, <2>1, <2>2
  <2> QED
    BY <2>3 DEF NoneBefore
<1>16. FrameAt(t, i, n + c)
  BY <1>7, <1>12, <1>13, <1>14, <1>15 DEF FrameAt, z, p, q
<1> QED
  BY <1>16 DEF t, c

\* When what is still due of a frame has been taken, the next one begins.
LEMMA ChainDrop ==
  ASSUME NEW w \in Seq(Items), NEW d \in Nat, NEW n \in Nat, Chain(w, d, n)
  PROVE  Chain(SubSeq(w, d + 1, Len(w)), 0, n)
<1> DEFINE t == SubSeq(w, d + 1, Len(w))
<1>1. d \in 0 .. Len(w) /\ Len(w) \in Nat
  BY DEF Chain
<1>2. t \in Seq(Items) /\ Len(t) = Len(w) - d /\ \A k \in 1 .. Len(w) - d : t[k] = w[k + d]
  BY <1>1
<1>3. CountIn(SubSeq(w, 1, d), Lasts) = 0
  <2>1. SubSeq(w, 1, d) \in Seq(Items) /\ Len(SubSeq(w, 1, d)) = d
    BY <1>1
  <2>2. \A k \in 1 .. d : SubSeq(w, 1, d)[k] = w[k] /\ w[k] \in Kept
    BY <1>1 DEF Chain
  <2>3. \A k \in 1 .. d : SubSeq(w, 1, d)[k] \notin Lasts
    BY <2>2, ItemKinds DEF Lasts
  <2> QED
    BY <2>1, <2>3, CountNone
<1>4. ASSUME NEW i \in 1 .. Len(t), t[i] \in Heads
      PROVE  FrameAt(t, i, n)
  <2>1. i \in 1 .. Len(w) - d /\ i + d \in d + 1 .. Len(w) /\ w[i + d] \in Heads
    BY <1>1, <1>2, <1>4
  <2>2. FrameAt(w, i + d, n)
    BY <2>1 DEF Chain
  <2>3. FrameAt(t, i, n + CountIn(SubSeq(w, 1, d), Lasts))
    BY <1>1, <2>1, <2>2, FrameShift
  <2>4. n + CountIn(SubSeq(w, 1, d), Lasts) = n
    BY <1>3
  <2> QED
    BY <2>3, <2>4
<1>5. 0 < Len(t) => t[1] \in Heads
  <2>1. d < Len(w) => w[d + 1] \in Heads
    BY DEF Chain
  <2> QED
    BY <1>1, <1>2, <2>1
<1>6. NoneBefore(t, 0, n)
  <2>1. \A k \in d + 1 .. Len(w) : w[k] \in Kept => w[k].own = 0 \/ w[k].own >= n
    BY DEF Chain, NoneBefore
  <2>2. \A k \in 0 + 1 .. Len(t) : k \in 1 .. Len(w) - d /\ k + d \in d + 1 .. Len(w)
    BY <1>1, <1>2
  <2> HIDE DEF t
  <2>3. \A k \in 0 + 1 .. Len(t) : t[k] \in Kept => t[k].own = 0 \/ t[k].own >= n
    BY <1>2, <2>1, <2>2
  <2> QED
    BY <2>3 DEF NoneBefore
<1> HIDE DEF t
<1>7. 0 <= Len(t) /\ (\A k \in 1 .. 0 : t[k] \in Kept) /\ (0 < Len(t) => t[0 + 1] \in Heads)
      /\ \A i \in 0 + 1 .. Len(t) : t[i] \in Heads => FrameAt(t, i, n)
  BY <1>2, <1>4, <1>5
<1>8. Chain(t, 0, n)
  BY <1>6, <1>7 DEF Chain
<1> QED
  BY <1>8 DEF t

\* The head of the next frame is taken.
LEMMA ChainHead ==
  ASSUME NEW w \in Seq(Items), NEW n \in Nat, Chain(w, 0, n), w # << >>
  PROVE  /\ w[1] \in Heads /\ Head(w) = w[1] /\ Tail(w) \in Seq(Items)
         /\ Carries(Tail(w), 0, w[1], n)
         /\ Chain(Tail(w), Size(w[1]), n + Mark(w[1]))
<1> DEFINE t == Tail(w)
           h == w[1]
           z == Size(h)
<1>1. Len(w) \in Nat \ {0} /\ 1 \in 0 .. Len(w) /\ Head(w) = w[1]
  BY EmptySeq
<1>2. t \in Seq(Items) /\ Len(t) = Len(w) - 1 /\ \A k \in 1 .. Len(w) - 1 : t[k] = w[k + 1]
  BY HeadTailProperties
<1>3. t = SubSeq(w, 1 + 1, Len(w))
  BY TailIsSubSeq
<1>4. h \in Heads
  BY <1>1 DEF Chain
<1>5. z \in Nat /\ h.len \in Nat /\ z - h.len \in {0, 1} /\ Mark(h) \in Nat
  BY <1>4, SizeFacts
<1>6. FrameAt(w, 1, n)
  BY <1>1, <1>4 DEF Chain
<1>7. CountIn(SubSeq(w, 1, 0), Lasts) = 0
  <2>1. SubSeq(w, 1, 0) = << >>
    BY SubSeqEmpty
  <2> QED
    BY <2>1, CountEmpty
<1>8. CountIn(SubSeq(w, 1, 1), Lasts) = Mark(h)
  <2>1. SubSeq(w, 1, 1) \in Seq(Items) /\ Len(SubSeq(w, 1, 1)) = 1 /\ SubSeq(w, 1, 1)[1] = h
    BY <1>1
  <2> HIDE DEF h
  <2> QED
    BY <2>1, CountOne DEF Mark
<1>9. /\ 1 + z <= Len(w)
      /\ \A k \in 1 + 1 .. 1 + z : w[k] \in Kept
      /\ 1 + z < Len(w) => w[1 + z + 1] \in Heads
      /\ Carries(w, 1, h, n)
      /\ NoneBefore(w, 1 + z, n + Mark(h))
  <2>1. 1 - 1 = 0 /\ n + 0 = n
    OBVIOUS
  <2> QED
    BY <1>6, <1>7, <1>8, <2>1 DEF FrameAt
<1> HIDE DEF t, z
<1>10. Carries(t, 0, h, n)
  <2>1. \A k \in 1 .. z : w[1 + k] = Content(h, n, k)
    BY <1>9 DEF Carries, z
  <2> HIDE DEF h
  <2>2. ASSUME NEW k \in 1 .. z
        PROVE  t[0 + k] = Content(h, n, k)
    <3>1. k \in 1 .. Len(w) - 1 /\ 1 + k = k + 1 /\ 0 + k = k
      BY <1>1, <1>5, <1>9
    <3> QED
      BY <1>2, <2>1, <3>1
  <2> QED
    BY <2>2 DEF Carries, z
<1>11. ASSUME NEW i \in z + 1 .. Len(t), t[i] \in Heads
       PROVE  FrameAt(t, i, n + Mark(h))
  <2>1. i \in 1 .. Len(w) - 1 /\ i + 1 \in 0 + 1 .. Len(w) /\ w[i + 1] \in Heads
    BY <1>1, <1>2, <1>5, <1>11
  <2>2. FrameAt(w, i + 1, n)
    BY <2>1 DEF Chain
  <2>3. FrameAt(SubSeq(w, 1 + 1, Len(w)), i, n + CountIn(SubSeq(w, 1, 1), Lasts))
    BY <1>1, <2>1, <2>2, FrameShift
  <2> QED
    BY <1>3, <1>8, <2>3
<1>12. NoneBefore(t, z, n + Mark(h))
  <2>1. \A k \in 1 + z + 1 .. Len(w) : w[k] \in Kept => w[k].own = 0 \/ w[k].own >= n + Mark(h)
    BY <1>9 DEF NoneBefore
  <2>2. \A k \in z + 1 .. Len(t) : k \in 1 .. Len(w) - 1 /\ k + 1 \in 1 + z + 1 .. Len(w)
    BY <1>1, <1>2, <1>5
  <2>3. \A k \in z + 1 .. Len(t) : t[k] \in Kept => t[k].own = 0 \/ t[k].own >= n + Mark(h)
    BY <1>2, <2>1, <2>2
  <2> QED
    BY <2>3 DEF NoneBefore
<1>13. z <= Len(t) /\ \A k \in 1 .. z : t[k] \in Kept
  <2>1. 1 + z <= Len(w)
    BY <1>9
  <2>2. ASSUME NEW k \in 1 .. z
        PROVE  t[k] \in Kept
    <3>1. k + 1 \in 1 + 1 .. 1 + z /\ k \in 1 .. Len(w) - 1
      BY <1>1, <1>5, <2>1
    <3>2. w[k + 1] \in Kept
      BY <1>9, <3>1
    <3>3. t[k] = w[k + 1]
      BY <1>2, <3>1
    <3> QED
      BY <3>2, <3>3
  <2> QED
    BY <1>1, <1>2, <1>5, <2>1, <2>2
<1>14. z < Len(t) => t[z + 1] \in Heads
  BY <1>1, <1>2, <1>5, <1>9
<1>15. Chain(t, z, n + Mark(h))
  BY <1>11, <1>12, <1>13, <1>14 DEF Chain
<1> QED
  BY <1>1, <1>2, <1>3, <1>4, <1>10, <1>15 DEF t, z

\* A frame of message n.
IsFrame(f, n) ==
  /\ f \in Seq(Items) /\ f # << >> /\ f[1] \in Heads
  /\ Len(f) = 1 + Size(f[1])
  /\ \A k \in 2 .. Len(f) : f[k] \in Kept /\ f[k].own \in {0, n}
  /\ Carries(f, 1, f[1], n)

\* What was begun stays as it is when more comes.
LEMMA CarriesPush ==
  ASSUME NEW w \in Seq(Items), NEW f \in Seq(Items), NEW i \in Nat, NEW h \in Heads, NEW n,
         i + Size(h) <= Len(w), Carries(w, i, h, n)
  PROVE  Carries(w \o f, i, h, n)
<1>1. \A k \in 1 .. Size(h) : w[i + k] = Content(h, n, k)
  BY DEF Carries
<1>2. Size(h) \in Nat
  BY SizeFacts
<1>3. \A k \in 1 .. Len(w) : (w \o f)[k] = w[k]
  OBVIOUS
<1>4. ASSUME NEW k \in 1 .. Size(h)
      PROVE  (w \o f)[i + k] = Content(h, n, k)
  <2>1. i + k \in 1 .. Len(w)
    BY <1>2
  <2> QED
    BY <1>1, <1>3, <2>1
<1> QED
  BY <1>4 DEF Carries

\* A frame is added to the chain.
LEMMA ChainPush ==
  ASSUME NEW w \in Seq(Items), NEW f, NEW d \in Nat, NEW n \in Nat,
         Chain(w, d, n), IsFrame(f, n + CountIn(w, Lasts))
  PROVE  Chain(w \o f, d, n)
<1> DEFINE x == w \o f
           m == n + CountIn(w, Lasts)
<1>1. /\ f \in Seq(Items) /\ Len(f) \in Nat \ {0} /\ f[1] \in Heads
      /\ \A k \in 2 .. Len(f) : f[k] \in Kept /\ f[k].own \in {0, m}
      /\ Len(w) \in Nat /\ d <= Len(w)
  BY EmptySeq DEF IsFrame, Chain
<1>2. /\ x \in Seq(Items) /\ Len(x) = Len(w) + Len(f)
      /\ \A k \in 1 .. Len(w) : x[k] = w[k]
      /\ \A k \in Len(w) + 1 .. Len(w) + Len(f) : x[k] = f[k - Len(w)]
  BY <1>1
<1>3. CountIn(w, Lasts) \in Nat /\ m \in Nat
  BY CountNat
<1>4. \A i \in 0 .. Len(w) : SubSeq(x, 1, i) = SubSeq(w, 1, i)
  <2> TAKE i \in 0 .. Len(w)
  <2>1. SubSeq(x, 1, i) \in Seq(Items) /\ SubSeq(w, 1, i) \in Seq(Items)
        /\ Len(SubSeq(x, 1, i)) = i /\ Len(SubSeq(w, 1, i)) = i
    BY <1>1, <1>2
  <2>2. \A k \in 1 .. i : SubSeq(x, 1, i)[k] = SubSeq(w, 1, i)[k]
    BY <1>1, <1>2
  <2> QED
    BY <2>1, <2>2, SeqEqual
<1>5. SubSeq(x, 1, Len(w)) = w
  BY <1>1, <1>4, SubSeqFull
<1>6. \A i \in 0 .. Len(w) : /\ CountIn(SubSeq(w, 1, i), Lasts) \in Nat
                             /\ n + CountIn(SubSeq(w, 1, i), Lasts) <= m
  <2> TAKE i \in 0 .. Len(w)
  <2>1. /\ CountIn(w, Lasts) = CountIn(SubSeq(w, 1, i), Lasts) + CountIn(SubSeq(w, i + 1, Len(w)), Lasts)
        /\ CountIn(SubSeq(w, 1, i), Lasts) \in Nat /\ CountIn(SubSeq(w, i + 1, Len(w)), Lasts) \in Nat
    BY CountCut
  <2> QED
    BY <2>1
\* What is new is of message m.
<1>7. ASSUME NEW l \in 0 .. Len(w), NEW c \in Nat, c <= m, NoneBefore(w, l, c)
      PROVE  NoneBefore(x, l, c)
  <2>1. ASSUME NEW k \in l + 1 .. Len(x), x[k] \in Kept
        PROVE  x[k].own = 0 \/ x[k].own >= c
    <3>1. CASE k <= Len(w)
      <4>1. k \in l + 1 .. Len(w) /\ x[k] = w[k]
        BY <1>2, <3>1
      <4> QED
        BY <1>7, <2>1, <4>1 DEF NoneBefore
    <3>2. CASE k > Len(w)
      <4>1. k \in Len(w) + 1 .. Len(w) + Len(f) /\ x[k] = f[k - Len(w)] /\ k - Len(w) \in 1 .. Len(f)
        BY <1>1, <1>2, <3>2
      <4>2. k - Len(w) # 1
        <5> HIDE DEF x
        <5> SUFFICES ASSUME k - Len(w) = 1 PROVE FALSE
          OBVIOUS
        <5>1. x[k] = f[1]
          BY <4>1
        <5> QED
          BY <1>1, <2>1, <5>1, ItemKinds
      <4>3. k - Len(w) \in 2 .. Len(f)
        <5>1. k - Len(w) \in 1 .. Len(f) /\ Len(f) \in Nat
          BY <1>1, <4>1
        <5> QED
          BY <4>2, <5>1
      <4>4. x[k].own \in {0, m}
        BY <1>1, <4>1, <4>3
      <4> QED
        BY <1>3, <1>7, <4>4
    <3> QED
      BY <1>1, <1>2, <3>1, <3>2
  <2> QED
    BY <2>1 DEF NoneBefore
<1>8. ASSUME NEW i \in d + 1 .. Len(w), w[i] \in Heads
      PROVE  FrameAt(x, i, n)
  <2> DEFINE z == i + Size(w[i])
  <2>1. /\ z <= Len(w)
        /\ \A k \in i + 1 .. z : w[k] \in Kept
        /\ z < Len(w) => w[z + 1] \in Heads
        /\ Carries(w, i, w[i], n + CountIn(SubSeq(w, 1, i - 1), Lasts))
        /\ NoneBefore(w, z, n + CountIn(SubSeq(w, 1, i), Lasts))
    BY <1>8 DEF Chain, FrameAt
  <2>2. z \in Nat /\ z >= i /\ i \in 1 .. Len(w) /\ i - 1 \in 0 .. Len(w)
    BY <1>1, <1>8, SizeFacts
  <2>3. x[i] = w[i] /\ SubSeq(x, 1, i) = SubSeq(w, 1, i) /\ SubSeq(x, 1, i - 1) = SubSeq(w, 1, i - 1)
    BY <1>1, <1>2, <1>4, <2>2
  <2>4. z <= Len(x) /\ \A k \in i + 1 .. z : x[k] \in Kept
    <3> HIDE DEF z, x
    <3>1. \A k \in i + 1 .. z : k \in 1 .. Len(w)
      BY <1>1, <2>1, <2>2
    <3>2. \A k \in i + 1 .. z : x[k] = w[k]
      BY <1>2, <3>1
    <3>3. z <= Len(x)
      BY <1>1, <1>2, <2>1, <2>2
    <3> QED
      BY <2>1, <3>2, <3>3
  <2>5. z < Len(x) => x[z + 1] \in Heads
    <3> HIDE DEF z, x
    <3>1. CASE z < Len(w)
      <4>1. z + 1 \in 1 .. Len(w)
        BY <1>1, <2>2, <3>1
      <4> QED
        BY <1>2, <2>1, <3>1, <4>1
    <3>2. CASE z = Len(w)
      <4>1. z + 1 \in Len(w) + 1 .. Len(w) + Len(f) /\ (z + 1) - Len(w) = 1
        BY <1>1, <3>2
      <4> QED
        BY <1>1, <1>2, <4>1
    <3> QED
      BY <1>1, <2>1, <2>2, <3>1, <3>2
  <2>6. Carries(x, i, w[i], n + CountIn(SubSeq(w, 1, i - 1), Lasts))
    BY <1>1, <1>8, <2>1, <2>2, CarriesPush
  <2>7. NoneBefore(x, z, n + CountIn(SubSeq(w, 1, i), Lasts))
    <3>1. z \in 0 .. Len(w)
      BY <2>1, <2>2
    <3>2. /\ n + CountIn(SubSeq(w, 1, i), Lasts) \in Nat
          /\ n + CountIn(SubSeq(w, 1, i), Lasts) <= m
      BY <1>6, <2>2
    <3> HIDE DEF x, z, m
    <3> QED
      BY <1>7, <2>1, <3>1, <3>2
  <2> HIDE DEF x
  <2> QED
    BY <2>3, <2>4, <2>5, <2>6, <2>7 DEF FrameAt
<1>9. FrameAt(x, Len(w) + 1, n)
  <2> DEFINE l == Len(w)
             z == Size(f[1])
  <2>1. z \in Nat /\ f[1].len \in Nat /\ z - f[1].len \in {0, 1} /\ Len(f) = 1 + z /\ Carries(f, 1, f[1], m)
    BY <1>1, SizeFacts DEF IsFrame
  <2>2. x[l + 1] = f[1]
    <3>1. l + 1 \in l + 1 .. l + Len(f) /\ (l + 1) - l = 1
      BY <1>1
    <3> QED
      BY <1>2, <3>1
  <2>3. l + 1 + z = Len(x)
    BY <1>1, <1>2, <2>1
  <2>4. \A k \in l + 2 .. l + 1 + z : x[k] \in Kept
    <3>3. l \in Nat /\ Len(f) = 1 + z /\ z \in Nat
      BY <1>1, <2>1
    <3> HIDE DEF x, l, z
    <3>1. \A k \in l + 2 .. l + 1 + z : k \in l + 1 .. l + Len(f) /\ k - l \in 2 .. Len(f)
      BY <3>3
    <3>2. \A k \in l + 1 .. l + Len(f) : x[k] = f[k - l]
      BY <1>2 DEF l
    <3> QED
      BY <1>1, <3>1, <3>2
  <2>5. Carries(x, l + 1, f[1], m)
    <3> DEFINE h == f[1]
    <3>1. \A k \in 1 .. z : f[1 + k] = Content(h, m, k)
      BY <2>1 DEF Carries
    <3>2. z \in Nat /\ Len(f) = 1 + z
      BY <2>1
    <3> HIDE DEF h, x, z, m
    <3>3. ASSUME NEW k \in 1 .. z
          PROVE  x[(l + 1) + k] = Content(h, m, k)
      <4>1. (l + 1) + k \in Len(w) + 1 .. Len(w) + Len(f) /\ ((l + 1) + k) - Len(w) = 1 + k
        BY <1>1, <3>2
      <4> QED
        BY <1>2, <3>1, <4>1
    <3> QED
      BY <3>3 DEF Carries, h, z
  <2>6. SubSeq(x, 1, (l + 1) - 1) = w
    BY <1>1, <1>5
  <2>7. NoneBefore(x, l + 1 + z, n + CountIn(SubSeq(x, 1, l + 1), Lasts))
    BY <1>1, <1>2, <2>3 DEF NoneBefore
  <2> HIDE DEF x, z
  <2>8. /\ l + 1 + Size(x[l + 1]) <= Len(x)
        /\ \A k \in l + 1 + 1 .. l + 1 + Size(x[l + 1]) : x[k] \in Kept
        /\ ~ l + 1 + Size(x[l + 1]) < Len(x)
    BY <1>1, <1>2, <2>1, <2>2, <2>3, <2>4 DEF z
  <2>9. Carries(x, l + 1, x[l + 1], n + CountIn(SubSeq(x, 1, (l + 1) - 1), Lasts))
    BY <2>2, <2>5, <2>6
  <2>10. NoneBefore(x, l + 1 + Size(x[l + 1]), n + CountIn(SubSeq(x, 1, l + 1), Lasts))
    BY <2>2, <2>7 DEF z
  <2> QED
    BY <2>8, <2>9, <2>10 DEF FrameAt
<1>10. ASSUME NEW i \in d + 1 .. Len(x), x[i] \in Heads
       PROVE  FrameAt(x, i, n)
  <2>1. CASE i <= Len(w)
    <3>1. i \in d + 1 .. Len(w) /\ i \in 1 .. Len(w)
      BY <1>1, <1>10, <2>1
    <3>2. w[i] \in Heads
      BY <1>2, <1>10, <3>1
    <3> QED
      BY <1>8, <3>1, <3>2
  <2>2. CASE i > Len(w)
    <3>1. i \in Len(w) + 1 .. Len(w) + Len(f) /\ i - Len(w) \in 1 .. Len(f)
      BY <1>1, <1>2, <1>10, <2>2
    <3>2. x[i] = f[i - Len(w)]
      BY <1>2, <3>1
    <3>3. i - Len(w) \notin 2 .. Len(f)
      BY <1>1, <1>10, <3>2, ItemKinds
    <3>4. i = Len(w) + 1
      BY <1>1, <3>1, <3>3
    <3> QED
      BY <1>9, <3>4
  <2> QED
    BY <1>1, <1>2, <2>1, <2>2
<1>11. d <= Len(x) /\ \A k \in 1 .. d : x[k] \in Kept
  <2>1. \A k \in 1 .. d : k \in 1 .. Len(w) /\ w[k] \in Kept
    BY <1>1 DEF Chain
  <2> HIDE DEF x
  <2> QED
    BY <1>1, <1>2, <2>1
<1>12. d < Len(x) => x[d + 1] \in Heads
  <2>1. CASE d < Len(w)
    <3>1. d + 1 \in 1 .. Len(w) /\ w[d + 1] \in Heads
      BY <1>1, <2>1 DEF Chain
    <3> QED
      BY <1>2, <3>1
  <2>2. CASE d = Len(w)
    <3>1. d + 1 \in Len(w) + 1 .. Len(w) + Len(f) /\ (d + 1) - Len(w) = 1
      BY <1>1, <2>2
    <3> QED
      BY <1>1, <1>2, <3>1
  <2> QED
    BY <1>1, <2>1, <2>2
<1>13. NoneBefore(x, d, n)
  <2>1. NoneBefore(w, d, n) /\ d \in 0 .. Len(w) /\ n <= m
    BY <1>1, <1>3 DEF Chain
  <2> HIDE DEF x, m
  <2> QED
    BY <1>7, <2>1
<1> HIDE DEF x
<1>14. Chain(x, d, n)
  BY <1>10, <1>11, <1>12, <1>13 DEF Chain
<1> QED
  BY <1>14 DEF x

LEMMA CountAll ==
  ASSUME NEW T, NEW s \in Seq(T), NEW S, \A i \in 1 .. Len(s) : s[i] \in S
  PROVE  CountIn(s, S) = Len(s)
<1>1. {i \in DOMAIN s : s[i] \in S} = 1 .. Len(s) /\ Len(s) \in Nat
  OBVIOUS
<1>2. Cardinality(1 .. Len(s)) = Len(s)
  <2>1. \A n \in Nat : Cardinality(1 .. n) = n
    BY FS_Interval
  <2> QED
    BY <1>1, <2>1
<1> QED
  BY <1>1, <1>2 DEF CountIn

\* Removing a mask, or putting it on.
LEMMA UnmaskedFacts ==
  ASSUME NEW s \in Seq(Items)
  PROVE  /\ WS!Unmasked(s) \in Seq(Items) /\ Len(WS!Unmasked(s)) = Len(s)
         /\ \A i \in 1 .. Len(s) : s[i] \in Kept =>
              /\ WS!Unmasked(s)[i] \in Kept
              /\ WS!Unmasked(s)[i] = WS!Byte(s[i].own, ~ s[i].masked)
<1> DEFINE u == WS!Unmasked(s)
<1>1. DOMAIN s = 1 .. Len(s) /\ Len(s) \in Nat /\ \A i \in 1 .. Len(s) : s[i] \in Items
  OBVIOUS
<1>2. u = [i \in 1 .. Len(s) |-> [s[i] EXCEPT !.masked = ~ @]]
  BY <1>1 DEF WS!Unmasked
<1>3. \A x \in Kept : /\ [x EXCEPT !.masked = ~ @] = WS!Byte(x.own, ~ x.masked)
                      /\ WS!Byte(x.own, ~ x.masked) \in Kept
  <2> TAKE x \in Kept
  <2>1. x = [own |-> x.own, masked |-> x.masked] /\ x.own \in Nat /\ x.masked \in BOOLEAN
    BY DEF Kept
  <2>2. [x EXCEPT !.masked = ~ @] = [own |-> x.own, masked |-> ~ x.masked]
    BY <2>1
  <2> QED
    BY <2>1, <2>2 DEF Kept, WS!Byte
<1>4. \A x \in Heads : [x EXCEPT !.masked = ~ @] \in Heads
  <2> TAKE x \in Heads
  <2>1. [x EXCEPT !.masked = ~ @] = x
    BY DEF Heads
  <2> QED
    BY <2>1
<1>5. \A i \in 1 .. Len(s) : u[i] \in Items
  BY <1>1, <1>2, <1>3, <1>4 DEF Items
<1>6. u \in [1 .. Len(s) -> Items]
  BY <1>1, <1>2, <1>5
<1>7. u \in Seq(Items) /\ Len(u) = Len(s)
  BY <1>1, <1>6
<1>8. \A i \in 1 .. Len(s) : s[i] \in Kept => u[i] \in Kept /\ u[i] = WS!Byte(s[i].own, ~ s[i].masked)
  BY <1>2, <1>3
<1> HIDE DEF u
<1> QED
  BY <1>7, <1>8 DEF u

Ops == {"TEXT", "FRAME", "CLOSE", "PING", "PONG"}
HeadOf(op, fin, mask, len) == [fin |-> fin, op |-> op, mask |-> mask, len |-> len]

\* A frame without a mask.
LEMMA PlainFrame ==
  ASSUME NEW op \in Ops, NEW fin \in BOOLEAN, NEW s \in Seq(Items)
  PROVE  /\ WS!Frame(op, fin, s, FALSE) = <<HeadOf(op, fin, FALSE, Len(s))>> \o s
         /\ HeadOf(op, fin, FALSE, Len(s)) \in Heads
         /\ WS!Frame(op, fin, s, FALSE) \in Seq(Items)
<1> DEFINE h == HeadOf(op, fin, FALSE, Len(s))
<1>1. h \in Heads
  BY DEF HeadOf, Heads, Ops
<1>2. WS!Frame(op, fin, s, FALSE) = <<h>> \o s
  BY DEF WS!Frame, HeadOf
<1> HIDE DEF h
<1>3. <<h>> \o s \in Seq(Items)
  BY <1>1 DEF Items
<1>4. WS!Frame(op, fin, s, FALSE) \in Seq(Items)
  BY <1>2, <1>3
<1> QED
  BY <1>1, <1>2, <1>4 DEF h

\* And one with a mask.
LEMMA MaskedFrame ==
  ASSUME NEW op \in Ops, NEW fin \in BOOLEAN, NEW s \in Seq(Items), Small \in Nat
  PROVE  /\ WS!Frame(op, fin, s, TRUE)
              = <<HeadOf(op, fin, Len(s) < Small, Len(s))>> \o (<<WS!Key>> \o WS!Unmasked(s))
         /\ HeadOf(op, fin, Len(s) < Small, Len(s)) \in Heads
         /\ WS!Key \in Kept
         /\ WS!Frame(op, fin, s, TRUE) \in Seq(Items)
<1> DEFINE h == HeadOf(op, fin, Len(s) < Small, Len(s))
           u == WS!Unmasked(s)
<1>1. h \in Heads
  BY DEF HeadOf, Heads, Ops
<1>2. WS!Frame(op, fin, s, TRUE) = <<h>> \o (<<WS!Key>> \o u)
  BY DEF WS!Frame, HeadOf
<1>3. WS!Key \in Kept
  BY ItemKinds DEF WS!Key
<1>4. u \in Seq(Items)
  BY UnmaskedFacts
<1> HIDE DEF h, u
<1>5. <<WS!Key>> \o u \in Seq(Items)
  BY <1>3, <1>4 DEF Items
<1>6. <<h>> \o (<<WS!Key>> \o u) \in Seq(Items)
  BY <1>1, <1>5 DEF Items
<1>7. WS!Frame(op, fin, s, TRUE) \in Seq(Items)
  BY <1>2, <1>6
<1> QED
  BY <1>1, <1>2, <1>3, <1>7 DEF h, u

\* A frame is a head and bytes that all belong to one message or to none.
LEMMA FrameOf ==
  ASSUME NEW h \in Heads, NEW r \in Seq(Items), NEW n \in Nat \ {0},
         Len(r) = Size(h),
         \A k \in 1 .. Len(r) : r[k] = Content(h, n, k)
  PROVE  /\ IsFrame(<<h>> \o r, n)
         /\ CountIn(<<h>> \o r, Lasts) = Mark(h)
         /\ \A m \in Nat \ {0} :
              CountIn(<<h>> \o r, Of(m)) = IF m = n /\ h.op \notin WS!Control THEN h.len ELSE 0
<1> DEFINE f == <<h>> \o r
           b == WS!Byte(IF h.op \in WS!Control THEN 0 ELSE n, h.mask)
           e == Size(h) - h.len
<1>1. h \in Items /\ <<h>> \in Seq(Items) /\ Len(<<h>>) = 1 /\ <<h>>[1] = h
  BY DEF Items
<1>2. /\ f \in Seq(Items) /\ Len(f) = 1 + Len(r) /\ f[1] = h
      /\ \A k \in 1 .. Len(r) : f[k + 1] = r[k]
  BY <1>1
<1>3. e \in {0, 1} /\ h.len \in Nat /\ Len(r) = e + h.len /\ Len(r) \in Nat /\ Mark(h) \in {0, 1}
  BY SizeFacts
<1>4. /\ WS!Key \in Kept /\ WS!Key.own = 0 /\ b \in Kept
      /\ b.own = IF h.op \in WS!Control THEN 0 ELSE n
  <2> DEFINE o == IF h.op \in WS!Control THEN 0 ELSE n
  <2>1. h.mask \in BOOLEAN /\ o \in Nat
    BY DEF Heads
  <2> HIDE DEF o
  <2>2. b \in Kept /\ b.own = o
    BY <2>1, ItemKinds DEF o
  <2>3. WS!Key \in Kept /\ WS!Key.own = 0
    BY ItemKinds DEF WS!Key
  <2> QED
    BY <2>2, <2>3 DEF o
<1>5. \A k \in 1 .. Len(r) : r[k] = IF k <= e THEN WS!Key ELSE b
  BY DEF Content
<1> HIDE DEF b, e, f
<1>6. \A k \in 1 .. Len(r) : r[k] \in Kept /\ r[k].own \in {0, n}
  BY <1>4, <1>5
<1>7. IsFrame(f, n)
  <2>1. ASSUME NEW k \in 2 .. Len(f)
        PROVE  f[k] \in Kept /\ f[k].own \in {0, n}
    <3>1. PICK l \in Nat : l = Len(r)
      BY <1>3
    <3>2. Len(f) = 1 + l
      BY <1>2, <3>1
    <3>3. k - 1 \in 1 .. l /\ (k - 1) + 1 = k
      BY <3>2
    <3>4. k - 1 \in 1 .. Len(r)
      BY <3>1, <3>3
    <3>5. f[k] = r[k - 1]
      BY <1>2, <3>3, <3>4
    <3> QED
      BY <1>6, <3>4, <3>5
  <2>2. ASSUME NEW k \in 1 .. Size(h)
        PROVE  f[1 + k] = Content(h, n, k)
    <3>1. k \in 1 .. Len(r) /\ k + 1 = 1 + k
      OBVIOUS
    <3> QED
      BY <1>2, <3>1
  <2>3. Carries(f, 1, f[1], n)
    BY <1>2, <2>2 DEF Carries
  <2>4. f # << >>
    BY <1>2, <1>3
  <2> QED
    BY <1>2, <2>1, <2>3, <2>4 DEF IsFrame
<1>8. CountIn(f, Lasts) = Mark(h)
  <2>1. CountIn(<<h>>, Lasts) = Mark(h)
    BY <1>1, CountOne DEF Mark
  <2>2. CountIn(r, Lasts) = 0
    <3>1. \A k \in 1 .. Len(r) : r[k] \notin Lasts
      BY <1>6, ItemKinds DEF Lasts
    <3> QED
      BY <3>1, CountNone
  <2>3. CountIn(f, Lasts) = CountIn(<<h>>, Lasts) + CountIn(r, Lasts)
    BY <1>1, CountParts DEF f
  <2> QED
    BY <1>3, <2>1, <2>2, <2>3
<1>9. ASSUME NEW m \in Nat \ {0}
      PROVE  CountIn(f, Of(m)) = IF m = n /\ h.op \notin WS!Control THEN h.len ELSE 0
  <2>1. CountIn(<<h>>, Of(m)) = 0
    <3>1. h \notin Of(m)
      BY ItemKinds DEF Of
    <3> QED
      BY <1>1, <3>1, CountOne
  <2>2. CountIn(f, Of(m)) = CountIn(<<h>>, Of(m)) + CountIn(r, Of(m))
    BY <1>1, CountParts DEF f
  <2>3. CASE ~ (m = n /\ h.op \notin WS!Control)
    <3>1. \A k \in 1 .. Len(r) : r[k] \notin Of(m)
      BY <1>4, <1>5, <2>3 DEF Of
    <3>2. CountIn(r, Of(m)) = 0
      BY <3>1, CountNone
    <3> QED
      BY <2>1, <2>2, <2>3, <3>2
  <2>4. CASE m = n /\ h.op \notin WS!Control
    <3> DEFINE c == SubSeq(r, 1, e)
               d == SubSeq(r, e + 1, Len(r))
    <3>1. e \in 0 .. Len(r)
      BY <1>3
    <3>2. CountIn(r, Of(m)) = CountIn(c, Of(m)) + CountIn(d, Of(m))
      BY <3>1, CountCut
    <3>8. c \in Seq(Items) /\ Len(c) = e /\ \A k \in 1 .. e : c[k] = r[k]
      BY <3>1, CutFacts
    <3>9. d \in Seq(Items) /\ Len(d) = Len(r) - e /\ \A k \in 1 .. Len(r) - e : d[k] = r[e + k]
      BY <3>1, CutFacts
    <3> HIDE DEF c, d
    <3>3. /\ c \in Seq(Items) /\ Len(c) = e /\ \A k \in 1 .. e : c[k] = r[k]
          /\ d \in Seq(Items) /\ Len(d) = h.len /\ \A k \in 1 .. h.len : d[k] = r[e + k]
      <4>1. Len(r) - e = h.len
        BY <1>3
      <4> QED
        BY <3>8, <3>9, <4>1
    <3>4. \A k \in 1 .. e : c[k] \notin Of(m)
      <4> TAKE k \in 1 .. e
      <4>1. k \in 1 .. Len(r) /\ k <= e
        BY <1>3
      <4>2. c[k] = WS!Key
        BY <1>5, <3>3, <4>1
      <4> QED
        BY <1>4, <4>2 DEF Of
    <3>5. \A k \in 1 .. h.len : d[k] \in Of(m)
      <4> TAKE k \in 1 .. h.len
      <4>1. e + k \in 1 .. Len(r) /\ ~ e + k <= e
        BY <1>3
      <4>2. d[k] = b
        BY <1>5, <3>3, <4>1
      <4> QED
        BY <1>4, <2>4, <4>2 DEF Of
    <3>6. CountIn(c, Of(m)) = 0
      BY <3>3, <3>4, CountNone
    <3>7. CountIn(d, Of(m)) = h.len
      BY <3>3, <3>5, CountAll
    <3> QED
      BY <1>3, <2>1, <2>2, <2>4, <3>2, <3>6, <3>7
  <2> QED
    BY <2>3, <2>4
<1> QED
  BY <1>7, <1>8, <1>9 DEF f

\* What _write_frame writes.
LEMMA Written ==
  ASSUME NEW op \in Ops, NEW fin \in BOOLEAN, NEW masked \in BOOLEAN, NEW n \in Nat \ {0},
         NEW s \in Seq(Items), Small \in Nat, masked => Len(s) < Small,
         \A k \in 1 .. Len(s) : s[k] = WS!Byte(IF op \in WS!Control THEN 0 ELSE n, FALSE)
  PROVE  LET f == WS!Frame(op, fin, s, masked)
         IN  /\ IsFrame(f, n)
             /\ CountIn(f, Lasts) = IF fin /\ op \notin WS!Control THEN 1 ELSE 0
             /\ \A m \in Nat \ {0} :
                  CountIn(f, Of(m)) = IF m = n /\ op \notin WS!Control THEN Len(s) ELSE 0
<1> DEFINE h == HeadOf(op, fin, masked, Len(s))
           b == IF op \in WS!Control THEN 0 ELSE n
<1>1. Len(s) \in Nat /\ b \in Nat
  OBVIOUS
<1>2. h \in Heads /\ h.op = op /\ h.fin = fin /\ h.mask = masked /\ h.len = Len(s)
  BY <1>1 DEF HeadOf, Heads, Ops
<1>3. Mark(h) = IF fin /\ op \notin WS!Control THEN 1 ELSE 0
  BY <1>2 DEF Mark, Lasts
<1> HIDE DEF h, b
<1>4. CASE ~ masked
  <2>1. Size(h) = Len(s) /\ Size(h) - h.len = 0
    BY <1>1, <1>2, <1>4 DEF Size
  <2>2. WS!Frame(op, fin, s, masked) = <<h>> \o s
    <3>1. masked = FALSE
      BY <1>4
    <3> QED
      BY <3>1, PlainFrame DEF h
  <2>3. \A k \in 1 .. Len(s) : s[k] = Content(h, n, k)
    <3>1. h.mask = FALSE /\ h.op = op
      BY <1>2, <1>4
    <3>2. \A k \in 1 .. Len(s) : ~ k <= Size(h) - h.len
      BY <1>1, <2>1
    <3> QED
      BY <3>1, <3>2 DEF Content
  <2>4. /\ IsFrame(<<h>> \o s, n)
        /\ CountIn(<<h>> \o s, Lasts) = Mark(h)
        /\ \A m \in Nat \ {0} :
             CountIn(<<h>> \o s, Of(m)) = IF m = n /\ h.op \notin WS!Control THEN h.len ELSE 0
    BY <1>2, <2>1, <2>3, FrameOf
  <2> QED
    BY <1>2, <1>3, <2>2, <2>4
<1>5. CASE masked
  <2> DEFINE u == WS!Unmasked(s)
             r == <<WS!Key>> \o u
  <2>1. Size(h) = Len(s) + 1 /\ Size(h) - h.len = 1
    BY <1>1, <1>2, <1>5 DEF Size
  <2>2. /\ WS!Frame(op, fin, s, masked) = <<h>> \o r
        /\ WS!Key \in Items
    <3>1. masked = TRUE /\ (Len(s) < Small) = TRUE
      BY <1>5
    <3> QED
      BY <3>1, MaskedFrame DEF h, Items
  <2>3. u \in Seq(Items) /\ Len(u) = Len(s) /\ \A k \in 1 .. Len(s) : u[k] = WS!Byte(b, TRUE)
    <3>1. \A k \in 1 .. Len(s) : s[k] \in Kept /\ s[k].own = b /\ s[k].masked = FALSE
      <4>1. \A k \in 1 .. Len(s) : s[k] = WS!Byte(b, FALSE)
        BY DEF b
      <4>2. FALSE \in BOOLEAN
        OBVIOUS
      <4> QED
        BY <1>1, <4>1, <4>2, ItemKinds, ZenonT(40)
    <3>2. \A k \in 1 .. Len(s) : u[k] = WS!Byte(s[k].own, ~ s[k].masked)
      BY <3>1, UnmaskedFacts
    <3>3. u \in Seq(Items) /\ Len(u) = Len(s)
      BY UnmaskedFacts
    <3> HIDE DEF u
    <3> QED
      BY <3>1, <3>2, <3>3
  <2> HIDE DEF u
  <2>4. r \in Seq(Items) /\ Len(r) = 1 + Len(s) /\ r[1] = WS!Key /\ \A k \in 2 .. Len(r) : r[k] = u[k - 1]
    BY <1>1, <2>2, <2>3
  <2> HIDE DEF r
  <2>5. \A k \in 1 .. Len(r) : r[k] = Content(h, n, k)
    <3> TAKE k \in 1 .. Len(r)
    <3>1. CASE k = 1
      BY <2>1, <2>4, <3>1 DEF Content
    <3>2. CASE k # 1
      <4>1. k \in 2 .. Len(r) /\ k - 1 \in 1 .. Len(s) /\ ~ k <= 1
        BY <1>1, <2>4, <3>2
      <4>2. r[k] = WS!Byte(b, TRUE)
        BY <2>3, <2>4, <4>1
      <4>3. h.mask = TRUE /\ h.op = op
        BY <1>2, <1>5
      <4> QED
        BY <2>1, <4>1, <4>2, <4>3 DEF b, Content
    <3> QED
      BY <3>1, <3>2
  <2>6. Len(r) = Size(h)
    BY <1>1, <2>1, <2>4
  <2>7. /\ IsFrame(<<h>> \o r, n)
        /\ CountIn(<<h>> \o r, Lasts) = Mark(h)
        /\ \A m \in Nat \ {0} :
             CountIn(<<h>> \o r, Of(m)) = IF m = n /\ h.op \notin WS!Control THEN h.len ELSE 0
    BY <1>2, <2>4, <2>5, <2>6, FrameOf
  <2> QED
    BY <1>2, <1>3, <2>2, <2>7
<1> QED
  BY <1>4, <1>5

LEMMA ReaderFacts ==
  ASSUME NEW rd \in Readers
  PROVE  /\ rd.pc \in Pcs /\ rd.head \in Heads /\ rd.count \in Nat /\ rd.buffer \in Seq(Items)
         /\ Hand(rd) \in {0, 1} /\ Due(rd) \in Nat /\ Fill(rd) \in Nat
<1>1. rd.pc \in Pcs /\ rd.head \in Heads /\ rd.count \in Nat /\ rd.buffer \in Seq(Items)
  BY DEF Readers
<1> QED
  BY <1>1, SizeFacts DEF Hand, Due, Fill

\* What a buffer has that is in step.
LEMMA HasFacts ==
  ASSUME NEW rd \in Readers, NEW n \in Nat \ {0}, Buffered(rd, n)
  PROVE  /\ Has(rd) \in Seq(Items) /\ Len(Has(rd)) = Fill(rd)
         /\ \A k \in 1 .. Fill(rd) : /\ Has(rd)[k] = rd.buffer[k]
                                     /\ Has(rd)[k] \in {WS!Byte(0, FALSE), WS!Byte(n, FALSE)}
         /\ \A m \in Nat \ {0} : m # n => CountIn(Has(rd), Of(m)) = 0
         /\ \A m \in Nat \ {0} : CountIn(Has(rd), Of(m)) \in Nat
<1>1. rd.buffer \in Seq(Items) /\ Fill(rd) \in 0 .. Len(rd.buffer)
  BY ReaderFacts DEF Buffered
<1>2. /\ Has(rd) \in Seq(Items) /\ Len(Has(rd)) = Fill(rd)
      /\ \A k \in 1 .. Fill(rd) : Has(rd)[k] = rd.buffer[k]
  BY <1>1, CutFacts DEF Has
<1>3. \A k \in 1 .. Fill(rd) : Has(rd)[k] \in {WS!Byte(0, FALSE), WS!Byte(n, FALSE)}
  BY <1>2 DEF Buffered
<1>4. ASSUME NEW m \in Nat \ {0}, m # n
      PROVE  CountIn(Has(rd), Of(m)) = 0
  <2>1. WS!Byte(0, FALSE) \notin Of(m) /\ WS!Byte(n, FALSE) \notin Of(m)
    <3>1. WS!Byte(0, FALSE).own = 0 /\ WS!Byte(n, FALSE).own = n
      BY ItemKinds
    <3> QED
      BY <1>4, <3>1 DEF Of
  <2>2. \A k \in 1 .. Len(Has(rd)) : Has(rd)[k] \notin Of(m)
    BY <1>2, <1>3, <2>1
  <2> QED
    BY <1>2, <2>2, CountNone
<1> QED
  BY <1>2, <1>3, <1>4, CountNat

\* What an end has sent, and has begun, after a frame with c bytes of a message
\* and, if l = 1, its end.
SentNow(s, o, c, l) == IF l = 1 THEN Append(s, o + c) ELSE s
OpenNow(o, c, l) == IF l = 1 THEN 0 ELSE o + c

\* Such a frame arrives.
LEMMA ReadingPush ==
  ASSUME NEW w \in Seq(Items), NEW rd \in Readers, NEW g \in Nat, NEW s \in Seq(Nat), NEW o \in Nat,
         Reading(w, rd, g, s, o, TRUE),
         NEW f, IsFrame(f, Len(s) + 1), NEW l \in {0, 1}, NEW c \in Nat,
         CountIn(f, Lasts) = l,
         \A m \in Nat \ {0} : CountIn(f, Of(m)) = IF m = Len(s) + 1 THEN c ELSE 0
  PROVE  Reading(w \o f, rd, g, SentNow(s, o, c, l), OpenNow(o, c, l), TRUE)
<1> DEFINE x == w \o f
           h == Hand(rd)
<1>1. /\ f \in Seq(Items) /\ x \in Seq(Items) /\ Len(s) \in Nat
      /\ h \in {0, 1} /\ Due(rd) \in Nat /\ rd.head \in Heads
  BY ReaderFacts DEF IsFrame
<1>2. CountIn(w, Lasts) \in Nat /\ CountIn(x, Lasts) = CountIn(w, Lasts) + l
  BY <1>1, CountNat, CountParts
<1>3. /\ g + h + CountIn(w, Lasts) = Len(s)
      /\ \A n \in g + 1 .. Len(s) : Amount(w, rd, n) = s[n]
      /\ Amount(w, rd, Len(s) + 1) = o
      /\ \A k \in DOMAIN w : w[k] \in Kept => w[k].own <= Len(s) + 1
  BY DEF Reading, Measured, Whole
<1>4. Buffered(rd, g + 1)
  BY DEF Reading
<1>5. \A m \in Nat \ {0} :
        /\ CountIn(w, Of(m)) \in Nat /\ CountIn(Has(rd), Of(m)) \in Nat
        /\ CountIn(x, Of(m)) = CountIn(w, Of(m)) + (IF m = Len(s) + 1 THEN c ELSE 0)
  <2> TAKE m \in Nat \ {0}
  <2>1. CountIn(x, Of(m)) = CountIn(w, Of(m)) + CountIn(f, Of(m))
    BY <1>1, CountParts
  <2>2. CountIn(w, Of(m)) \in Nat /\ CountIn(Has(rd), Of(m)) \in Nat
    <3>1. g + 1 \in Nat \ {0}
      OBVIOUS
    <3> QED
      BY <1>4, <3>1, CountNat, HasFacts
  <2> QED
    BY <2>1, <2>2
<1>6. \A m \in Nat \ {0} : /\ Amount(w, rd, m) \in Nat
                           /\ Amount(x, rd, m) = Amount(w, rd, m) + (IF m = Len(s) + 1 THEN c ELSE 0)
  <2> HIDE DEF x
  <2> QED
    BY <1>5 DEF Amount
<1>7. Chain(x, Due(rd), g + h + 1)
  <2>1. Chain(w, Due(rd), g + h + 1) /\ g + h + 1 \in Nat
    BY <1>1 DEF Reading
  <2>2. (g + h + 1) + CountIn(w, Lasts) = Len(s) + 1
    <3>1. h \in Nat /\ CountIn(w, Lasts) \in Nat /\ g + h + CountIn(w, Lasts) = Len(s)
      BY <1>1, <1>2, <1>3
    <3> HIDE DEF h
    <3> QED
      BY <3>1
  <2>3. IsFrame(f, (g + h + 1) + CountIn(w, Lasts))
    BY <2>2
  <2> QED
    BY <1>1, <2>1, <2>3, ChainPush
<1>8. rd.pc = "payload" => Carries(x, 0, rd.head, g + 1)
  <2> SUFFICES ASSUME rd.pc = "payload" PROVE Carries(x, 0, rd.head, g + 1)
    OBVIOUS
  <2>1. Carries(w, 0, rd.head, g + 1) /\ 0 + Size(rd.head) <= Len(w)
    <3>1. Due(rd) = Size(rd.head) /\ Size(rd.head) \in Nat
      BY <1>1, SizeFacts DEF Due
    <3>2. Due(rd) <= Len(w)
      BY DEF Reading, Chain
    <3> QED
      BY <3>1, <3>2 DEF Reading
  <2> QED
    BY <1>1, <2>1, CarriesPush
<1>9. \A k \in DOMAIN x : x[k] \in Kept => x[k].own <= Len(s) + 1
  <2>1. /\ Len(f) \in Nat \ {0} /\ Len(w) \in Nat /\ f[1] \in Heads
        /\ \A k \in 2 .. Len(f) : f[k].own \in {0, Len(s) + 1}
    BY <1>1, EmptySeq DEF IsFrame
  <2>2. /\ DOMAIN x = 1 .. Len(w) + Len(f)
        /\ \A k \in 1 .. Len(w) : x[k] = w[k]
        /\ \A k \in Len(w) + 1 .. Len(w) + Len(f) : x[k] = f[k - Len(w)]
    BY <1>1
  <2> HIDE DEF x
  <2> SUFFICES ASSUME NEW k \in 1 .. Len(w) + Len(f), x[k] \in Kept
               PROVE  x[k].own <= Len(s) + 1
    BY <2>2
  <2>3. CASE k \in 1 .. Len(w)
    <3>1. k \in DOMAIN w /\ x[k] = w[k]
      BY <2>2, <2>3
    <3> QED
      BY <1>3, <3>1
  <2>4. CASE k \in Len(w) + 1 .. Len(w) + Len(f)
    <3>1. x[k] = f[k - Len(w)] /\ k - Len(w) \in 1 .. Len(f)
      BY <2>1, <2>2, <2>4
    <3>2. k - Len(w) # 1
      <4> SUFFICES ASSUME k - Len(w) = 1 PROVE FALSE
        OBVIOUS
      <4>1. x[k] = f[1]
        BY <3>1
      <4> QED
        BY <2>1, <4>1, ItemKinds
    <3>3. k - Len(w) \in 2 .. Len(f)
      BY <2>1, <3>1, <3>2
    <3>4. x[k].own \in {0, Len(s) + 1}
      BY <2>1, <3>1, <3>3
    <3> QED
      BY <1>1, <3>4
  <2> QED
    BY <2>1, <2>3, <2>4
<1> HIDE DEF x, h
<1>10. CASE l = 0
  <2>1. Measured(x, rd, g, s, o + c, TRUE)
    <3>1. Whole(x, rd, g) = Len(s)
      BY <1>1, <1>2, <1>3, <1>10 DEF Whole, h
    <3>2. \A n \in g + 1 .. Len(s) : Amount(x, rd, n) = s[n]
      <4> TAKE n \in g + 1 .. Len(s)
      <4>1. n \in Nat \ {0} /\ n # Len(s) + 1
        BY <1>1
      <4>2. Amount(x, rd, n) = Amount(w, rd, n) /\ Amount(w, rd, n) = s[n]
        BY <1>3, <1>6, <4>1
      <4> QED
        BY <4>2
    <3>3. Amount(x, rd, Len(s) + 1) = o + c
      BY <1>1, <1>3, <1>6
    <3> QED
      BY <1>1, <1>9, <3>1, <3>2, <3>3 DEF Measured
  <2>2. Reading(x, rd, g, s, o + c, TRUE)
    BY <1>4, <1>7, <1>8, <2>1 DEF Reading, h
  <2>3. ~ l = 1
    BY <1>10
  <2> QED
    BY <2>2, <2>3, Zenon DEF x, SentNow, OpenNow
<1>11. CASE l = 1
  <2> DEFINE a == Append(s, o + c)
  <2>1. /\ a \in Seq(Nat) /\ Len(a) = Len(s) + 1 /\ a[Len(s) + 1] = o + c
        /\ \A n \in 1 .. Len(s) : a[n] = s[n]
    BY <1>1
  <2> HIDE DEF a
  <2>2. Measured(x, rd, g, a, 0, TRUE)
    <3>1. Whole(x, rd, g) = Len(a)
      <4>1. Whole(x, rd, g) = g + h + CountIn(x, Lasts)
        BY DEF Whole, h
      <4>2. CountIn(x, Lasts) = CountIn(w, Lasts) + 1 /\ CountIn(w, Lasts) \in Nat
        BY <1>2, <1>11
      <4>3. g + h + CountIn(w, Lasts) = Len(s) /\ h \in {0, 1} /\ Len(a) = Len(s) + 1
        BY <1>1, <1>3, <2>1
      <4> QED
        BY <4>1, <4>2, <4>3
    <3>2. \A n \in g + 1 .. Len(a) : Amount(x, rd, n) = a[n]
      <4> TAKE n \in g + 1 .. Len(a)
      <4>1. n \in Nat \ {0} /\ n \in 1 .. Len(s) + 1
        BY <1>1, <2>1
      <4>2. CASE n = Len(s) + 1
        <5>1. Amount(w, rd, n) = o /\ Amount(x, rd, n) = Amount(w, rd, n) + c
          BY <1>3, <1>6, <4>1, <4>2
        <5> QED
          BY <2>1, <4>2, <5>1
      <4>3. CASE n # Len(s) + 1
        <5>1. n \in g + 1 .. Len(s) /\ n \in 1 .. Len(s)
          BY <1>1, <4>1, <4>3
        <5>2. Amount(x, rd, n) = Amount(w, rd, n) /\ Amount(w, rd, n) = s[n]
          BY <1>3, <1>6, <4>1, <4>3, <5>1
        <5> QED
          BY <2>1, <5>1, <5>2
      <4> QED
        BY <4>2, <4>3
    <3>3. Amount(x, rd, Len(a) + 1) = 0
      <4> DEFINE m == Len(s) + 2
      <4>1. m \in Nat \ {0} /\ Len(a) + 1 = m /\ m > Len(s) + 1
        BY <1>1, <2>1
      <4> HIDE DEF m
      <4>2. CountIn(x, Of(m)) = 0
        <5>1. \A k \in 1 .. Len(x) : x[k] \notin Of(m)
          <6> SUFFICES ASSUME NEW k \in 1 .. Len(x), x[k] \in Of(m) PROVE FALSE
            OBVIOUS
          <6>1. x[k] \in Kept /\ x[k].own = m /\ k \in DOMAIN x
            BY <1>1 DEF Of
          <6>2. x[k].own <= Len(s) + 1
            BY <1>9, <6>1
          <6> QED
            BY <1>1, <4>1, <6>1, <6>2
        <5> QED
          BY <1>1, <5>1, CountNone
      <4>3. m # g + 1
        BY <1>1, <1>2, <1>3, <4>1
      <4>4. CountIn(Has(rd), Of(m)) = 0
        <5>1. g + 1 \in Nat \ {0}
          OBVIOUS
        <5> QED
          BY <1>4, <4>1, <4>3, <5>1, HasFacts
      <4> QED
        BY <4>1, <4>2, <4>4 DEF Amount
    <3>4. \A k \in DOMAIN x : x[k] \in Kept => x[k].own <= Len(a) + 1
      <4> SUFFICES ASSUME NEW k \in DOMAIN x, x[k] \in Kept PROVE x[k].own <= Len(a) + 1
        OBVIOUS
      <4>1. x[k].own \in Nat
        BY DEF Kept
      <4>2. x[k].own <= Len(s) + 1
        BY <1>9
      <4> QED
        BY <1>1, <2>1, <4>1, <4>2
    <3>5. Len(a) \in Nat
      BY <1>1, <2>1
    <3> HIDE DEF x
    <3> QED
      BY <3>1, <3>2, <3>3, <3>4, <3>5 DEF Measured
  <2>3. Reading(x, rd, g, a, 0, TRUE)
    BY <1>4, <1>7, <1>8, <2>2 DEF Reading, h
  <2> QED
    BY <1>11, <2>3 DEF x, a, SentNow, OpenNow
<1> QED
  BY <1>10, <1>11

\* What follows is dropped.
LEMMA ReadingDown ==
  ASSUME NEW w \in Seq(Items), NEW rd \in Readers, NEW g \in Nat, NEW s \in Seq(Nat), NEW o, NEW up,
         Reading(w, rd, g, s, o, up), NEW t \in Seq(Nat), NEW p,
         Len(s) <= Len(t), \A n \in 1 .. Len(s) : t[n] = s[n]
  PROVE  Reading(w, rd, g, t, p, FALSE)
<1>1. CountIn(w, Lasts) \in Nat /\ Hand(rd) \in {0, 1} /\ Len(s) \in Nat /\ Len(t) \in Nat
  BY CountNat, ReaderFacts
<1>2. Whole(w, rd, g) <= Len(s) /\ Whole(w, rd, g) \in Nat
  BY <1>1 DEF Reading, Measured, Whole
<1>3. \A n \in g + 1 .. Whole(w, rd, g) : Amount(w, rd, n) = t[n]
  <2> TAKE n \in g + 1 .. Whole(w, rd, g)
  <2>1. n \in 1 .. Len(s)
    BY <1>1, <1>2
  <2>2. Amount(w, rd, n) = s[n]
    BY DEF Reading, Measured
  <2> QED
    BY <2>1, <2>2
<1>4. Whole(w, rd, g) <= Len(t)
  BY <1>1, <1>2
<1> QED
  BY <1>3, <1>4 DEF Reading, Measured

Quiet == {"handshake", "answered", "idle", "loop", "header"}

\* Between the frames.
LEMMA ReadingQuiet ==
  ASSUME NEW w \in Seq(Items), NEW rd \in Readers, NEW r2 \in Readers, NEW g \in Nat, NEW s, NEW o, NEW up,
         Reading(w, rd, g, s, o, up), rd.pc \in Quiet, r2.pc \in Quiet,
         r2.count = rd.count, r2.buffer = rd.buffer,
         r2.pc \in {"handshake", "answered", "idle"} => rd.pc \in {"handshake", "answered", "idle"}
  PROVE  Reading(w, r2, g, s, o, up)
<1>1. Due(r2) = Due(rd) /\ Hand(r2) = Hand(rd) /\ Fill(r2) = Fill(rd) /\ Fill(r2) = r2.count
  BY ReaderFacts DEF Due, Hand, Fill, Quiet
<1>2. Has(r2) = Has(rd)
  BY <1>1 DEF Has
<1>3. Buffered(r2, g + 1)
  BY <1>1 DEF Reading, Buffered, Quiet
<1>4. Measured(w, r2, g, s, o, up)
  BY <1>1, <1>2 DEF Reading, Measured, Whole, Amount
<1>5. r2.pc # "payload"
  BY DEF Quiet
<1> QED
  BY <1>1, <1>3, <1>4, <1>5 DEF Reading

\* A head is taken.
LEMMA ReadingHead ==
  ASSUME NEW w \in Seq(Items), NEW rd \in Readers, NEW r2 \in Readers, NEW g \in Nat, NEW s, NEW o, NEW up,
         Reading(w, rd, g, s, o, up), rd.pc = "header", w # << >>,
         r2 = [rd EXCEPT !.head = w[1],
                         !.pc = IF w[1].len = 0 /\ ~ w[1].mask THEN "frame" ELSE "payload"]
  PROVE  w[1] \in Heads /\ Reading(Tail(w), r2, g, s, o, up)
<1> DEFINE h == w[1]
           t == Tail(w)
<1>1. /\ r2.head = h /\ r2.count = rd.count /\ r2.buffer = rd.buffer
      /\ r2.pc = IF h.len = 0 /\ ~ h.mask THEN "frame" ELSE "payload"
  BY DEF Readers
<1>2. Due(rd) = 0 /\ Hand(rd) = 0 /\ Fill(rd) = rd.count /\ rd.count \in Nat
  BY ReaderFacts DEF Due, Hand, Fill
<1>3. Chain(w, 0, g + 1)
  BY <1>2 DEF Reading
<1>4. /\ h \in Heads /\ t \in Seq(Items)
      /\ Carries(t, 0, h, g + 1) /\ Chain(t, Size(h), (g + 1) + Mark(h))
  BY <1>3, ChainHead
<1>5. h.len \in Nat /\ Mark(h) \in {0, 1} /\ (h.len = 0 /\ ~ h.mask => Size(h) = 0) /\ Size(h) \in Nat
  BY <1>4, SizeFacts DEF Size
<1> HIDE DEF h, t
<1>6. Due(r2) = Size(h) /\ Hand(r2) = Mark(h)
  BY <1>1, <1>5 DEF Due, Hand
<1>7. Fill(r2) = rd.count
  BY <1>1, <1>2, <1>5 DEF Fill
<1>8. Chain(t, Due(r2), g + Hand(r2) + 1)
  <2>1. (g + 1) + Mark(h) = g + Mark(h) + 1
    BY <1>5
  <2> QED
    BY <1>4, <1>6, <2>1
<1>9. Buffered(r2, g + 1)
  <2>1. Buffered(rd, g + 1)
    BY DEF Reading
  <2>2. r2.pc = "frame" => Fill(r2) = r2.count
    BY <1>1, <1>7
  <2>3. r2.pc \notin {"handshake", "answered", "idle"}
    BY <1>1
  <2>4. \A k \in r2.count + 1 .. Fill(r2) : FALSE
    BY <1>1, <1>2, <1>7
  <2>5. Fill(r2) <= Len(r2.buffer) /\ Fill(r2) = Fill(rd)
    BY <1>1, <1>2, <1>7, <2>1 DEF Buffered
  <2>6. \A k \in 1 .. Fill(r2) : r2.buffer[k] \in {WS!Byte(0, FALSE), WS!Byte(g + 1, FALSE)}
    BY <1>1, <2>1, <2>5 DEF Buffered
  <2> QED
    BY <2>3, <2>4, <2>5, <2>6 DEF Buffered
<1>10. Has(r2) = Has(rd)
  BY <1>1, <1>2, <1>7 DEF Has
<1>11. /\ w = <<h>> \o t /\ <<h>> \in Seq(Items) /\ Len(<<h>>) = 1 /\ <<h>>[1] = h
  BY <1>4 DEF h, t, Items
<1>12. CountIn(w, Lasts) = Mark(h) + CountIn(t, Lasts) /\ CountIn(t, Lasts) \in Nat
  <2>1. CountIn(<<h>>, Lasts) = Mark(h)
    BY <1>11, CountOne DEF Mark
  <2>2. CountIn(<<h>> \o t, Lasts) = CountIn(<<h>>, Lasts) + CountIn(t, Lasts)
    BY <1>4, <1>11, CountParts, ZenonT(40)
  <2> QED
    BY <1>4, <1>11, <2>1, <2>2, CountNat
<1>13. \A m : CountIn(w, Of(m)) = CountIn(t, Of(m))
  <2> TAKE m
  <2>1. h \notin Of(m)
    BY <1>4, ItemKinds DEF Of
  <2>2. CountIn(<<h>>, Of(m)) = 0
    BY <1>11, <2>1, CountOne
  <2>3. CountIn(<<h>> \o t, Of(m)) = CountIn(<<h>>, Of(m)) + CountIn(t, Of(m)) /\ CountIn(t, Of(m)) \in Nat
    BY <1>4, <1>11, CountParts, CountNat, ZenonT(40)
  <2> QED
    BY <1>11, <2>2, <2>3
<1>14. Whole(t, r2, g) = Whole(w, rd, g)
  BY <1>2, <1>5, <1>6, <1>12 DEF Whole
<1>15. \A m : Amount(t, r2, m) = Amount(w, rd, m)
  BY <1>10, <1>13 DEF Amount
<1>16. \A k \in DOMAIN t : k + 1 \in DOMAIN w /\ t[k] = w[k + 1]
  <2>1. t \in Seq(Items) /\ Len(t) = Len(w) - 1 /\ \A k \in 1 .. Len(t) : t[k] = w[k + 1]
    BY HeadTailProperties DEF t
  <2>2. DOMAIN t = 1 .. Len(t) /\ DOMAIN w = 1 .. Len(w) /\ Len(w) \in Nat
    BY <2>1
  <2> QED
    BY <2>1, <2>2
<1>17. Measured(t, r2, g, s, o, up)
  <2>1. Measured(w, rd, g, s, o, up)
    BY DEF Reading
  <2>2. up => \A k \in DOMAIN t : t[k] \in Kept => t[k].own <= Len(s) + 1
    BY <1>16, <2>1 DEF Measured
  <2> QED
    BY <1>14, <1>15, <2>1, <2>2 DEF Measured
<1>18. Reading(t, r2, g, s, o, up)
  BY <1>1, <1>4, <1>8, <1>9, <1>17 DEF Reading
<1> QED
  BY <1>4, <1>18 DEF h, t

\* Two sequences in a row.
LEMMA RowFacts ==
  ASSUME NEW T, NEW s \in Seq(T), NEW t \in Seq(T)
  PROVE  /\ s \o t \in Seq(T) /\ Len(s \o t) = Len(s) + Len(t)
         /\ \A k \in 1 .. Len(s) : (s \o t)[k] = s[k]
         /\ \A k \in Len(s) + 1 .. Len(s) + Len(t) : (s \o t)[k] = t[k - Len(s)]
<1>1. s \o t \in Seq(T) /\ Len(s \o t) = Len(s) + Len(t)
  OBVIOUS
<1>2. \A k \in 1 .. Len(s) : (s \o t)[k] = s[k]
  OBVIOUS
<1>3. \A k \in Len(s) + 1 .. Len(s) + Len(t) : (s \o t)[k] = t[k - Len(s)]
  OBVIOUS
<1> QED
  BY <1>1, <1>2, <1>3

\* The payload of a frame, read behind its key and freed of its mask.
KeyOf(h) == IF h.mask THEN 1 ELSE 0
Raw(w, h) == SubSeq(w, 1 + KeyOf(h), h.len + KeyOf(h))
Payload(w, h) == IF h.mask THEN WS!Unmasked(Raw(w, h)) ELSE Raw(w, h)

LEMMA PayloadFacts ==
  ASSUME NEW w \in Seq(Items), NEW h \in Heads, NEW n \in Nat \ {0}, Size(h) <= Len(w),
         Carries(w, 0, h, n)
  PROVE  /\ Payload(w, h) \in Seq(Items) /\ Len(Payload(w, h)) = h.len
         /\ \A k \in 1 .. h.len : Payload(w, h)[k] = WS!Byte(IF h.op \in WS!Control THEN 0 ELSE n, FALSE)
<1> DEFINE c == IF h.op \in WS!Control THEN 0 ELSE n
           key == KeyOf(h)
           raw == Raw(w, h)
           x == Payload(w, h)
<1>1. Size(h) = h.len + key /\ h.len \in Nat /\ key \in {0, 1} /\ c \in Nat /\ h.mask \in BOOLEAN
  BY DEF Size, Heads, KeyOf
<1> HIDE DEF key
<1>2. /\ raw \in Seq(Items) /\ Len(raw) = h.len
      /\ \A k \in 1 .. h.len : raw[k] = w[k + key]
  <2>1. Len(w) \in Nat /\ h.len + key <= Len(w)
    BY <1>1
  <2>2. CASE key = 0
    <3>1. raw = SubSeq(w, 1, h.len) /\ h.len \in 0 .. Len(w)
      BY <1>1, <2>1, <2>2 DEF Raw, key
    <3>2. \A k \in 1 .. h.len : k + key = k
      BY <1>1, <2>2
    <3> QED
      BY <3>1, <3>2, CutFacts
  <2>3. CASE key = 1
    <3>1. raw = SubSeq(w, 2, h.len + 1) /\ h.len + 1 \in 1 .. Len(w)
      BY <1>1, <2>1, <2>3 DEF Raw, key
    <3>2. raw \in Seq(Items) /\ Len(raw) = h.len
      BY <1>1, <3>1
    <3>3. \A k \in 1 .. h.len : raw[k] = w[k + 1]
      BY <1>1, <3>1
    <3> QED
      BY <2>3, <3>2, <3>3
  <2> QED
    BY <1>1, <2>2, <2>3
<1> HIDE DEF raw, x
<1>3. \A k \in 1 .. h.len : w[k + key] = WS!Byte(c, h.mask)
  <2> SUFFICES ASSUME NEW k \in 1 .. h.len PROVE w[k + key] = WS!Byte(c, h.mask)
    OBVIOUS
  <2>1. k + key \in 1 .. Size(h) /\ ~ (k + key <= Size(h) - h.len) /\ 0 + (k + key) = k + key
    BY <1>1
  <2>2. w[0 + (k + key)] = Content(h, n, k + key)
    BY <2>1 DEF Carries
  <2>3. Content(h, n, k + key) = WS!Byte(c, h.mask)
    BY <2>1 DEF Content
  <2> QED
    BY <2>1, <2>2, <2>3
<1> HIDE DEF c
<1>4. \A k \in 1 .. h.len : raw[k] = WS!Byte(c, h.mask)
  BY <1>2, <1>3
<1>5. CASE h.mask = TRUE
  <2>1. x = WS!Unmasked(raw)
    BY <1>5 DEF x, raw, Payload
  <2>2. x \in Seq(Items) /\ Len(x) = h.len
    BY <1>2, <2>1, UnmaskedFacts
  <2>5. \A k \in 1 .. Len(raw) : raw[k] \in Kept => x[k] = WS!Byte(raw[k].own, ~ raw[k].masked)
    BY <1>2, <2>1, UnmaskedFacts, Zenon
  <2>6. \A k \in 1 .. h.len : raw[k] \in Kept => x[k] = WS!Byte(raw[k].own, ~ raw[k].masked)
    BY <1>2, <2>5, Zenon
  <2>3. \A k \in 1 .. h.len : raw[k] = WS!Byte(c, TRUE)
    BY <1>4, <1>5
  <2>4. /\ WS!Byte(c, TRUE) \in Kept /\ WS!Byte(c, TRUE).own = c
        /\ WS!Byte(c, TRUE).masked = TRUE /\ (~ TRUE) = FALSE
    BY <1>1, ItemKinds
  <2>7. \A k \in 1 .. h.len : x[k] = WS!Byte(c, FALSE)
    <3> TAKE k \in 1 .. h.len
    <3>1. x[k] = WS!Byte(WS!Byte(c, TRUE).own, ~ WS!Byte(c, TRUE).masked)
      BY <2>6, <2>3, <2>4, Zenon
    <3> QED
      BY <2>4, <3>1, Zenon
  <2> QED
    BY <2>2, <2>7 DEF c, x
<1>6. CASE h.mask = FALSE
  <2>1. x = raw
    BY <1>6 DEF x, raw, Payload
  <2>2. \A k \in 1 .. h.len : raw[k] = WS!Byte(c, FALSE)
    BY <1>4, <1>6
  <2> QED
    BY <1>2, <2>1, <2>2 DEF c, x
<1> QED
  BY <1>1, <1>5, <1>6

\* The payload of a frame is taken.
LEMMA ReadingPayload ==
  ASSUME NEW w \in Seq(Items), NEW rd \in Readers, NEW r2 \in Readers, NEW g \in Nat,
         NEW s \in Seq(Nat), NEW o, NEW up,
         Reading(w, rd, g, s, o, up), rd.pc = "payload",
         r2 = [rd EXCEPT !.pc = "frame",
                         !.buffer = SubSeq(rd.buffer, 1, rd.count) \o Payload(w, rd.head)]
  PROVE  Reading(SubSeq(w, Size(rd.head) + 1, Len(w)), r2, g, s, o, up)
<1> DEFINE h == rd.head
           d == Size(h)
           t == SubSeq(w, d + 1, Len(w))
           u == SubSeq(w, 1, d)
           y == Has(rd)
           x == Payload(w, h)
<1>1. /\ h \in Heads /\ rd.count \in Nat /\ rd.buffer \in Seq(Items)
      /\ d \in Nat /\ h.len \in Nat /\ Mark(h) \in {0, 1} /\ g + 1 \in Nat \ {0}
  BY ReaderFacts, SizeFacts
<1>2. Due(rd) = d /\ Hand(rd) = Mark(h) /\ Fill(rd) = rd.count
  BY <1>1 DEF Due, Hand, Fill
<1>3. /\ r2.pc = "frame" /\ r2.head = h /\ r2.count = rd.count
      /\ r2.buffer = SubSeq(rd.buffer, 1, rd.count) \o x
  <2> HIDE DEF x
  <2>1. r2 = [rd EXCEPT !.pc = "frame", !.buffer = SubSeq(rd.buffer, 1, rd.count) \o x]
    BY DEF x
  <2> QED
    BY <2>1 DEF Readers
<1>4. Due(r2) = 0 /\ Hand(r2) = Mark(h) /\ Fill(r2) = rd.count + h.len
  BY <1>1, <1>3 DEF Due, Hand, Fill
<1>5. /\ Chain(w, d, g + Mark(h) + 1) /\ Carries(w, 0, h, g + 1)
      /\ Buffered(rd, g + 1) /\ Measured(w, rd, g, s, o, up)
  BY <1>2 DEF Reading
<1>6. d \in 0 .. Len(w) /\ \A k \in 1 .. d : w[k] \in Kept
  BY <1>1, <1>5 DEF Chain
<1>7. /\ x \in Seq(Items) /\ Len(x) = h.len
      /\ \A k \in 1 .. h.len : x[k] = WS!Byte(IF h.op \in WS!Control THEN 0 ELSE g + 1, FALSE)
  <2> HIDE DEF h
  <2>1. Size(h) <= Len(w)
    BY <1>6
  <2> QED
    BY <1>1, <1>5, <2>1, PayloadFacts
<1>8. /\ y \in Seq(Items) /\ Len(y) = rd.count
      /\ \A k \in 1 .. rd.count : y[k] \in {WS!Byte(0, FALSE), WS!Byte(g + 1, FALSE)}
      /\ \A m \in Nat \ {0} : CountIn(y, Of(m)) \in Nat
  BY <1>1, <1>2, <1>5, HasFacts
<1>9. r2.buffer = y \o x
  BY <1>2, <1>3 DEF Has
<1>10. /\ t \in Seq(Items) /\ u \in Seq(Items) /\ Len(u) = d /\ Len(t) = Len(w) - d
       /\ \A k \in 1 .. d : u[k] = w[k]
       /\ \A k \in 1 .. Len(w) - d : t[k] = w[d + k]
  BY <1>6, CutFacts
<1>11. Chain(t, 0, g + Mark(h) + 1)
  <2>1. g + Mark(h) + 1 \in Nat
    BY <1>1
  <2> QED
    BY <1>1, <1>5, <2>1, ChainDrop
<1> HIDE DEF d, t, u, y, x
<1>12. /\ Len(y \o x) = rd.count + h.len
       /\ \A k \in 1 .. rd.count : (y \o x)[k] = y[k]
       /\ \A k \in rd.count + 1 .. rd.count + h.len : (y \o x)[k] = x[k - rd.count]
       /\ y \o x \in Seq(Items)
  <2> DEFINE b == y \o x
  <2>1. /\ b \in Seq(Items) /\ Len(b) = Len(y) + Len(x)
        /\ \A k \in 1 .. Len(y) : b[k] = y[k]
        /\ \A k \in Len(y) + 1 .. Len(y) + Len(x) : b[k] = x[k - Len(y)]
    BY <1>7, <1>8, RowFacts
  <2> HIDE DEF b
  <2>2. Len(y) = rd.count /\ Len(x) = h.len
    BY <1>7, <1>8
  <2>3. /\ b \in Seq(Items) /\ Len(b) = rd.count + h.len
        /\ \A k \in 1 .. rd.count : b[k] = y[k]
        /\ \A k \in rd.count + 1 .. rd.count + h.len : b[k] = x[k - rd.count]
    BY <2>1, <2>2
  <2> QED
    BY <2>3 DEF b
<1>13. \A k \in rd.count + 1 .. rd.count + h.len :
         (y \o x)[k] = WS!Byte(IF h.op \in WS!Control THEN 0 ELSE g + 1, FALSE)
  <2> TAKE k \in rd.count + 1 .. rd.count + h.len
  <2>1. k - rd.count \in 1 .. h.len
    BY <1>1
  <2>2. (y \o x)[k] = x[k - rd.count]
    BY <1>12
  <2> QED
    BY <1>7, <2>1, <2>2
<1>14. Buffered(r2, g + 1)
  <2> DEFINE b == y \o x
  <2>1. Fill(r2) = Len(r2.buffer) /\ Fill(r2) = rd.count + h.len /\ r2.buffer = b
    BY <1>4, <1>9, <1>12
  <2>2. \A k \in 1 .. rd.count : b[k] \in {WS!Byte(0, FALSE), WS!Byte(g + 1, FALSE)}
    BY <1>8, <1>12
  <2>3. \A k \in 1 .. rd.count + h.len : b[k] \in {WS!Byte(0, FALSE), WS!Byte(g + 1, FALSE)}
    <3> TAKE k \in 1 .. rd.count + h.len
    <3>1. k \in 1 .. rd.count \/ k \in rd.count + 1 .. rd.count + h.len
      BY <1>1
    <3> QED
      BY <1>13, <2>2, <3>1
  <2>4. h.op \in WS!Control =>
          \A k \in rd.count + 1 .. rd.count + h.len : b[k] = WS!Byte(0, FALSE)
    BY <1>13
  <2>5. Fill(r2) <= Len(r2.buffer)
    BY <1>1, <2>1
  <2> HIDE DEF b
  <2> QED
    BY <1>3, <2>1, <2>3, <2>4, <2>5 DEF Buffered
<1>15. Has(r2) = y \o x
  <2> DEFINE b == y \o x
  <2>1. b \in Seq(Items) /\ Has(r2) = SubSeq(b, 1, Len(b))
    BY <1>4, <1>9, <1>12 DEF Has
  <2> HIDE DEF b
  <2>2. Has(r2) = b
    BY <2>1, SubSeqFull
  <2> QED
    BY <2>2 DEF b
<1>16. CountIn(u, Lasts) = 0
  <2>1. \A k \in 1 .. Len(u) : u[k] \notin Lasts
    BY <1>6, <1>10, ItemKinds DEF Lasts
  <2> QED
    BY <1>10, <2>1, CountNone
<1>17. \A S : /\ CountIn(w, S) = CountIn(u, S) + CountIn(t, S)
              /\ CountIn(u, S) \in Nat /\ CountIn(t, S) \in Nat
  BY <1>6, CountCut DEF u, t
<1>18. \A m \in Nat \ {0} :
         CountIn(u, Of(m)) = IF m = g + 1 /\ h.op \notin WS!Control THEN h.len ELSE 0
  <2> TAKE m \in Nat \ {0}
  <2>1. \A k \in 1 .. Len(u) : u[k] = Content(h, g + 1, k)
    <3>1. \A k \in 1 .. d : w[0 + k] = Content(h, g + 1, k)
      BY <1>5 DEF Carries, d
    <3>2. \A k \in 1 .. d : 0 + k = k
      BY <1>1
    <3> QED
      BY <1>10, <3>1, <3>2
  <2>2. Len(u) = Size(h)
    BY <1>10 DEF d
  <2>3. CountIn(<<h>> \o u, Of(m)) = IF m = g + 1 /\ h.op \notin WS!Control THEN h.len ELSE 0
    BY <1>1, <1>10, <2>1, <2>2, FrameOf, ZenonT(40)
  <2>4. CountIn(<<h>> \o u, Of(m)) = CountIn(<<h>>, Of(m)) + CountIn(u, Of(m)) /\ CountIn(u, Of(m)) \in Nat
    <3>1. <<h>> \in Seq(Items)
      BY <1>1 DEF Items
    <3> QED
      BY <1>10, <3>1, CountParts, CountNat
  <2>5. CountIn(<<h>>, Of(m)) = 0
    <3>1. <<h>> \in Seq(Items) /\ Len(<<h>>) = 1 /\ <<h>>[1] = h
      BY <1>1 DEF Items
    <3>2. h \notin Of(m)
      BY <1>1, ItemKinds DEF Of
    <3> QED
      BY <3>1, <3>2, CountOne
  <2> QED
    BY <2>3, <2>4, <2>5
<1>19. \A m \in Nat \ {0} :
         CountIn(x, Of(m)) = IF m = g + 1 /\ h.op \notin WS!Control THEN h.len ELSE 0
  <2> TAKE m \in Nat \ {0}
  <2> DEFINE c == IF h.op \in WS!Control THEN 0 ELSE g + 1
  <2>1. c \in Nat /\ \A k \in 1 .. Len(x) : x[k] = WS!Byte(c, FALSE)
    BY <1>1, <1>7
  <2>2. WS!Byte(c, FALSE) \in Kept /\ WS!Byte(c, FALSE).own = c
    BY <2>1, ItemKinds
  <2>3. (c = m) <=> (m = g + 1 /\ h.op \notin WS!Control)
    OBVIOUS
  <2> HIDE DEF c
  <2>4. CASE c = m
    <3>1. \A k \in 1 .. Len(x) : x[k] \in Of(m)
      BY <2>1, <2>2, <2>4 DEF Of
    <3> QED
      BY <1>7, <2>3, <2>4, <3>1, CountAll
  <2>5. CASE c # m
    <3>1. \A k \in 1 .. Len(x) : x[k] \notin Of(m)
      BY <2>1, <2>2, <2>5 DEF Of
    <3> QED
      BY <1>7, <2>3, <2>5, <3>1, CountNone
  <2> QED
    BY <2>4, <2>5
<1>20. Whole(t, r2, g) = Whole(w, rd, g)
  <2>1. CountIn(w, Lasts) = CountIn(t, Lasts)
    BY <1>16, <1>17
  <2> QED
    BY <1>2, <1>4, <2>1 DEF Whole
<1>21. \A m \in Nat \ {0} : Amount(t, r2, m) = Amount(w, rd, m)
  <2> TAKE m \in Nat \ {0}
  <2>1. CountIn(y \o x, Of(m)) = CountIn(y, Of(m)) + CountIn(x, Of(m)) /\ CountIn(y, Of(m)) \in Nat
    <3>1. y \in Seq(Items) /\ x \in Seq(Items)
      BY <1>7, <1>8
    <3> QED
      BY <3>1, CountParts, CountNat
  <2>2. CountIn(x, Of(m)) = CountIn(u, Of(m))
    BY <1>18, <1>19
  <2>3. /\ CountIn(w, Of(m)) = CountIn(u, Of(m)) + CountIn(t, Of(m))
        /\ CountIn(u, Of(m)) \in Nat /\ CountIn(t, Of(m)) \in Nat
    BY <1>17
  <2>4. Amount(t, r2, m) = CountIn(t, Of(m)) + CountIn(y \o x, Of(m))
    BY <1>15 DEF Amount
  <2>5. Amount(w, rd, m) = CountIn(w, Of(m)) + CountIn(y, Of(m))
    BY DEF Amount, y
  <2> QED
    BY <2>1, <2>2, <2>3, <2>4, <2>5
<1>22. Measured(t, r2, g, s, o, up)
  <2>1. Len(s) \in Nat /\ Len(s) + 1 \in Nat \ {0} /\ \A n \in g + 1 .. Whole(t, r2, g) : n \in Nat \ {0}
    OBVIOUS
  <2>2. \A n \in g + 1 .. Whole(t, r2, g) : Amount(t, r2, n) = s[n]
    BY <1>5, <1>20, <1>21, <2>1 DEF Measured
  <2>3. up => Amount(t, r2, Len(s) + 1) = o
    BY <1>5, <1>21, <2>1 DEF Measured
  <2>4. up => \A k \in DOMAIN t : t[k] \in Kept => t[k].own <= Len(s) + 1
    <3>1. \A k \in DOMAIN t : k \in 1 .. Len(w) - d /\ d + k \in DOMAIN w /\ t[k] = w[d + k]
      BY <1>6, <1>10
    <3> QED
      BY <1>5, <3>1 DEF Measured
  <2> QED
    BY <1>5, <1>20, <2>2, <2>3, <2>4 DEF Measured
<1>23. Reading(t, r2, g, s, o, up)
  <2>1. r2.pc # "payload"
    BY <1>3
  <2>2. Chain(t, Due(r2), g + Hand(r2) + 1)
    BY <1>4, <1>11
  <2> QED
    BY <1>14, <1>22, <2>1, <2>2 DEF Reading
<1> QED
  BY <1>23 DEF t, d

\* A frame is done that ends no message.
LEMMA ReadingFrame ==
  ASSUME NEW w \in Seq(Items), NEW rd \in Readers, NEW r2 \in Readers, NEW g \in Nat, NEW s, NEW o, NEW up,
         Reading(w, rd, g, s, o, up), rd.pc = "frame", rd.head \notin Lasts,
         NEW p \in {"loop", "header"}, r2 = [rd EXCEPT !.count = rd.count + rd.head.len, !.pc = p]
  PROVE  Reading(w, r2, g, s, o, up)
<1>1. /\ r2.pc = p /\ r2.head = rd.head /\ r2.count = rd.count + rd.head.len /\ r2.buffer = rd.buffer
      /\ rd.count \in Nat /\ rd.head.len \in Nat
  <2>1. rd.count \in Nat /\ rd.head.len \in Nat
    BY ReaderFacts, SizeFacts
  <2> QED
    BY <2>1 DEF Readers
<1>2. Fill(r2) = rd.count + rd.head.len /\ Fill(rd) = rd.count + rd.head.len
  BY <1>1 DEF Fill
<1>3. Due(r2) = 0 /\ Due(rd) = 0 /\ Hand(r2) = 0 /\ Hand(rd) = 0
  BY <1>1 DEF Due, Hand, Mark
<1>4. Has(r2) = Has(rd)
  BY <1>1, <1>2 DEF Has
<1>5. Buffered(r2, g + 1)
  <2>1. Buffered(rd, g + 1)
    BY DEF Reading
  <2>2. r2.pc # "frame" /\ r2.pc \notin {"handshake", "answered", "idle"}
    BY <1>1
  <2>3. \A k \in 1 .. Fill(rd) : rd.buffer[k] \in {WS!Byte(0, FALSE), WS!Byte(g + 1, FALSE)}
    BY <2>1 DEF Buffered
  <2>4. Fill(rd) <= Len(rd.buffer)
    BY <2>1 DEF Buffered
  <2>5. Fill(r2) = Fill(rd) /\ r2.buffer = rd.buffer
    BY <1>1, <1>2
  <2> QED
    BY <2>2, <2>3, <2>4, <2>5 DEF Buffered
<1>6. Measured(w, r2, g, s, o, up)
  BY <1>3, <1>4 DEF Reading, Measured, Whole, Amount
<1>7. Chain(w, Due(r2), g + Hand(r2) + 1)
  BY <1>3 DEF Reading
<1>8. r2.pc # "payload"
  BY <1>1
<1> QED
  BY <1>5, <1>6, <1>7, <1>8 DEF Reading

\* The last frame of a message is done: the message is given.
Reset(rd, p) == [rd EXCEPT !.count = 0, !.buffer = << >>, !.pc = p]

LEMMA ReadingMessage ==
  ASSUME NEW w \in Seq(Items), NEW rd \in Readers, NEW g \in Nat,
         NEW s \in Seq(Nat), NEW o, NEW up,
         Reading(w, rd, g, s, o, up), rd.pc = "frame", rd.head \in Lasts,
         NEW p \in {"loop", "idle"}
  PROVE  /\ Has(rd) \in Seq(Items) /\ IsMessage(Has(rd), s, g + 1)
         /\ Reading(w, Reset(rd, p), g + 1, s, o, up)
<1> DEFINE msg == Has(rd)
           r2 == Reset(rd, p)
<1>1. /\ r2.pc = p /\ r2.count = 0 /\ r2.buffer = << >> /\ g + 1 \in Nat \ {0} /\ Len(s) \in Nat
      /\ rd.count \in Nat /\ rd.head.len \in Nat /\ rd.head \in Heads
  <2>1. rd.count \in Nat /\ rd.head.len \in Nat
    BY ReaderFacts, SizeFacts
  <2>2. rd.head \in Heads
    BY ReaderFacts
  <2> QED
    BY <2>1, <2>2 DEF Readers, Reset
<1>2. Due(r2) = 0 /\ Due(rd) = 0 /\ Hand(r2) = 0 /\ Hand(rd) = 1 /\ Fill(r2) = 0
  BY <1>1 DEF Due, Hand, Mark, Fill
<1>3. /\ Chain(w, 0, g + 1 + 1) /\ Buffered(rd, g + 1) /\ Measured(w, rd, g, s, o, up)
  BY <1>2 DEF Reading
<1>4. msg = Has(rd)
  OBVIOUS
<1>5. /\ msg \in Seq(Items) /\ Len(msg) = Fill(rd)
      /\ \A k \in 1 .. Fill(rd) : msg[k] \in {WS!Byte(0, FALSE), WS!Byte(g + 1, FALSE)}
      /\ \A m \in Nat \ {0} : m # g + 1 => CountIn(msg, Of(m)) = 0
      /\ \A m \in Nat \ {0} : CountIn(msg, Of(m)) \in Nat
  BY <1>1, <1>3, HasFacts
<1> HIDE DEF msg, r2
<1>6. \A S : CountIn(w, S) \in Nat
  BY CountNat
<1>7. Whole(w, rd, g) = g + 1 + CountIn(w, Lasts) /\ Whole(w, r2, g + 1) = g + 1 + CountIn(w, Lasts)
  BY <1>2, <1>6 DEF Whole
<1>8. g + 1 <= Len(s) /\ g + 1 \in g + 1 .. Whole(w, rd, g)
  BY <1>1, <1>3, <1>6, <1>7 DEF Measured
<1>9. Amount(w, rd, g + 1) = s[g + 1]
  BY <1>3, <1>8 DEF Measured
<1>10. CountIn(w, Of(g + 1)) = 0
  <2>1. \A k \in 0 + 1 .. Len(w) : w[k] \in Kept => w[k].own = 0 \/ w[k].own >= g + 1 + 1
    BY <1>3 DEF Chain, NoneBefore
  <2>2. \A k \in 1 .. Len(w) : w[k] \notin Of(g + 1)
    <3> SUFFICES ASSUME NEW k \in 1 .. Len(w), w[k] \in Of(g + 1) PROVE FALSE
      OBVIOUS
    <3>1. w[k] \in Kept /\ w[k].own = g + 1 /\ k \in 0 + 1 .. Len(w)
      BY DEF Of
    <3>2. w[k].own = 0 \/ w[k].own >= g + 1 + 1
      BY <2>1, <3>1
    <3> QED
      BY <3>1, <3>2
  <2> QED
    BY <2>2, CountNone
<1>11. CountIn(msg, Of(g + 1)) = s[g + 1]
  <2>1. s[g + 1] = CountIn(w, Of(g + 1)) + CountIn(msg, Of(g + 1))
    BY <1>4, <1>9 DEF Amount
  <2>2. CountIn(msg, Of(g + 1)) \in Nat
    BY <1>1, <1>5
  <2> QED
    BY <1>10, <2>1, <2>2
<1>12. CountIn(msg, {WS!Byte(g + 1, FALSE)}) = CountIn(msg, Of(g + 1))
  <2>1. /\ WS!Byte(g + 1, FALSE) \in Of(g + 1) /\ WS!Byte(0, FALSE) \notin Of(g + 1)
        /\ WS!Byte(0, FALSE) # WS!Byte(g + 1, FALSE)
    <3>1. /\ WS!Byte(0, FALSE).own = 0 /\ WS!Byte(g + 1, FALSE).own = g + 1
          /\ WS!Byte(g + 1, FALSE) \in Kept
      <4>1. g + 1 \in Nat /\ 0 \in Nat /\ FALSE \in BOOLEAN
        BY <1>1
      <4> QED
        BY <4>1, ItemKinds, Zenon
    <3> QED
      BY <1>1, <3>1 DEF Of
  <2>2. \A k \in DOMAIN msg : msg[k] \in {WS!Byte(g + 1, FALSE)} <=> msg[k] \in Of(g + 1)
    <3>1. \A k \in DOMAIN msg : msg[k] \in {WS!Byte(0, FALSE), WS!Byte(g + 1, FALSE)}
      <4>1. DOMAIN msg = 1 .. Fill(rd)
        BY <1>5
      <4> QED
        BY <1>5, <4>1
    <3> QED
      BY <2>1, <3>1
  <2>3. {k \in DOMAIN msg : msg[k] \in {WS!Byte(g + 1, FALSE)}} = {k \in DOMAIN msg : msg[k] \in Of(g + 1)}
    BY <2>2
  <2> QED
    BY <2>3 DEF CountIn
<1>13. \A k \in DOMAIN msg : msg[k] \in {WS!Byte(g + 1, FALSE), WS!Byte(0, FALSE)}
  <2>1. DOMAIN msg = 1 .. Fill(rd)
    BY <1>5
  <2> QED
    BY <1>5, <2>1
<1>14. Has(r2) = << >>
  <2>1. Has(r2) = SubSeq(r2.buffer, 1, 0)
    BY <1>2 DEF Has
  <2>2. SubSeq(<< >>, 1, 0) = << >>
    OBVIOUS
  <2> QED
    BY <1>1, <2>1, <2>2
<1>15. \A m \in Nat \ {0} : m # g + 1 => Amount(w, r2, m) = Amount(w, rd, m)
  <2> TAKE m \in Nat \ {0}
  <2> SUFFICES ASSUME m # g + 1 PROVE Amount(w, r2, m) = Amount(w, rd, m)
    OBVIOUS
  <2>1. Amount(w, rd, m) = CountIn(w, Of(m)) + 0
    BY <1>4, <1>5 DEF Amount
  <2>2. Amount(w, r2, m) = CountIn(w, Of(m)) + 0
    BY <1>14, CountEmpty DEF Amount
  <2> QED
    BY <2>1, <2>2
<1>16. Measured(w, r2, g + 1, s, o, up)
  <2>1. Whole(w, r2, g + 1) <= Len(s)
    BY <1>3, <1>7 DEF Measured
  <2>2. \A n \in g + 1 + 1 .. Whole(w, r2, g + 1) : Amount(w, r2, n) = s[n]
    <3> TAKE n \in g + 1 + 1 .. Whole(w, r2, g + 1)
    <3>1. n \in Nat \ {0} /\ n # g + 1 /\ n \in g + 1 .. Whole(w, rd, g)
      BY <1>6, <1>7
    <3>2. Amount(w, rd, n) = s[n]
      BY <1>3, <3>1 DEF Measured
    <3> QED
      BY <1>15, <3>1, <3>2
  <2>3. up => Amount(w, r2, Len(s) + 1) = o
    <3> SUFFICES ASSUME up PROVE Amount(w, r2, Len(s) + 1) = o
      OBVIOUS
    <3>1. Len(s) + 1 \in Nat \ {0} /\ Len(s) + 1 # g + 1
      BY <1>1, <1>8
    <3>2. Amount(w, rd, Len(s) + 1) = o
      BY <1>3 DEF Measured
    <3> QED
      BY <1>15, <3>1, <3>2
  <2>4. up => Whole(w, r2, g + 1) = Len(s)
    BY <1>3, <1>7 DEF Measured
  <2>5. up => \A k \in DOMAIN w : w[k] \in Kept => w[k].own <= Len(s) + 1
    BY <1>3 DEF Measured
  <2> QED
    BY <2>1, <2>2, <2>3, <2>4, <2>5 DEF Measured
<1>17. Buffered(r2, g + 1 + 1)
  <2>1. Len(r2.buffer) = 0 /\ r2.pc # "frame"
    BY <1>1
  <2>2. \A k \in 1 .. Fill(r2) : FALSE
    BY <1>2
  <2>3. Fill(r2) <= Len(r2.buffer)
    BY <1>2, <2>1
  <2> QED
    BY <1>1, <2>1, <2>2, <2>3 DEF Buffered
<1>18. Reading(w, r2, g + 1, s, o, up)
  <2>1. Chain(w, Due(r2), g + 1 + Hand(r2) + 1)
    BY <1>2, <1>3
  <2>2. r2.pc # "payload"
    BY <1>1
  <2> QED
    BY <1>16, <1>17, <2>1, <2>2 DEF Reading
<1>19. IsMessage(msg, s, g + 1)
  BY <1>8, <1>11, <1>12, <1>13 DEF IsMessage
<1> QED
  BY <1>5, <1>18, <1>19 DEF msg, r2

\* More was sent: what was given stays right.
LEMMA GivenGrows ==
  ASSUME NEW gt \in Seq(Seq(Items)), NEW s \in Seq(Nat), NEW t \in Seq(Nat), AllGiven(gt, s),
         Len(s) <= Len(t), \A n \in 1 .. Len(s) : t[n] = s[n]
  PROVE  AllGiven(gt, t)
<1> SUFFICES ASSUME NEW i \in DOMAIN gt PROVE IsMessage(gt[i], t, i)
  BY DEF AllGiven
<1>1. IsMessage(gt[i], s, i)
  BY DEF AllGiven
<1>2. i \in 1 .. Len(s) /\ i <= Len(t)
  <2>1. i \in 1 .. Len(gt) /\ Len(s) \in Nat /\ Len(t) \in Nat
    OBVIOUS
  <2> QED
    BY <1>1, <2>1 DEF IsMessage
<1> QED
  BY <1>1, <1>2 DEF IsMessage

\* One more message is given.
LEMMA GivenMore ==
  ASSUME NEW gt \in Seq(Seq(Items)), NEW s \in Seq(Nat), AllGiven(gt, s),
         NEW msg \in Seq(Items), NEW n, n = Len(gt) + 1, IsMessage(msg, s, n)
  PROVE  AllGiven(Append(gt, msg), s)
<1> DEFINE a == Append(gt, msg)
<1>1. /\ DOMAIN a = 1 .. Len(gt) + 1 /\ Len(gt) \in Nat
      /\ \A i \in 1 .. Len(gt) : a[i] = gt[i] /\ i \in DOMAIN gt
      /\ a[n] = msg
  OBVIOUS
<1> HIDE DEF a
<1> SUFFICES ASSUME NEW i \in DOMAIN a PROVE IsMessage(a[i], s, i)
  BY DEF AllGiven, a
<1>2. CASE i = n
  BY <1>1, <1>2
<1>3. CASE i \in 1 .. Len(gt)
  <2>1. a[i] = gt[i] /\ i \in DOMAIN gt
    BY <1>1, <1>3
  <2> QED
    BY <2>1 DEF AllGiven
<1>4. i = n \/ i \in 1 .. Len(gt)
  BY <1>1
<1> QED
  BY <1>2, <1>3, <1>4

\* Of the items of w, those of v are some.
LEMMA PlainLess ==
  ASSUME NEW w, NEW v, NEW rd, NEW r2, Plain(w, rd),
         \A i \in 1 .. Len(v) : \E j \in 1 .. Len(w) : v[i] = w[j],
         r2.head.op \in WS!Control => r2.head.len = 0
  PROVE  Plain(v, r2)
<1>1. \A j \in 1 .. Len(w) : w[j] \in Heads /\ w[j].op \in WS!Control => w[j].len = 0
  BY DEF Plain
<1>2. \A i \in 1 .. Len(v) : v[i] \in Heads /\ v[i].op \in WS!Control => v[i].len = 0
  BY <1>1
<1> QED
  BY <1>2 DEF Plain

LEMMA TailLess ==
  ASSUME NEW w \in Seq(Items), w # << >>
  PROVE  /\ Tail(w) \in Seq(Items) /\ Len(w) \in Nat \ {0} /\ w[1] \in Items
         /\ \A i \in 1 .. Len(Tail(w)) : \E j \in 1 .. Len(w) : Tail(w)[i] = w[j]
<1> DEFINE t == Tail(w)
<1>1. /\ t \in Seq(Items) /\ Len(t) = Len(w) - 1 /\ \A i \in 1 .. Len(w) - 1 : t[i] = w[i + 1]
      /\ Len(w) \in Nat \ {0}
  BY HeadTailProperties, EmptySeq
<1> HIDE DEF t
<1>2. \A i \in 1 .. Len(t) : \E j \in 1 .. Len(w) : t[i] = w[j]
  <2> SUFFICES ASSUME NEW i \in 1 .. Len(t) PROVE \E j \in 1 .. Len(w) : t[i] = w[j]
    OBVIOUS
  <2>1. i + 1 \in 1 .. Len(w) /\ t[i] = w[i + 1]
    BY <1>1
  <2> QED
    BY <2>1
<1>3. w[1] \in Items
  BY <1>1
<1> QED
  BY <1>1, <1>2, <1>3 DEF t

\* A head without a payload, or not of a control frame, and bytes.
PlainItems(f) ==
  /\ f \in Seq(Items)
  /\ \A k \in 1 .. Len(f) : f[k] \in Heads /\ f[k].op \in WS!Control => f[k].len = 0

LEMMA PlainPush ==
  ASSUME NEW w \in Seq(Items), NEW rd, Plain(w, rd), NEW f, PlainItems(f)
  PROVE  Plain(w \o f, rd)
<1> DEFINE x == w \o f
<1>1. f \in Seq(Items) /\ Len(w) \in Nat /\ Len(f) \in Nat
  BY DEF PlainItems
<1>2. /\ Len(x) = Len(w) + Len(f)
      /\ \A k \in 1 .. Len(w) : x[k] = w[k]
      /\ \A k \in Len(w) + 1 .. Len(w) + Len(f) : x[k] = f[k - Len(w)] /\ k - Len(w) \in 1 .. Len(f)
  BY <1>1
<1> HIDE DEF x
<1>3. \A k \in 1 .. Len(x) : x[k] \in Heads /\ x[k].op \in WS!Control => x[k].len = 0
  <2> SUFFICES ASSUME NEW k \in 1 .. Len(x), x[k] \in Heads, x[k].op \in WS!Control
               PROVE  x[k].len = 0
    OBVIOUS
  <2>1. CASE k \in 1 .. Len(w)
    BY <1>2, <2>1 DEF Plain
  <2>2. CASE k \in Len(w) + 1 .. Len(w) + Len(f)
    BY <1>2, <2>2 DEF PlainItems
  <2> QED
    BY <1>1, <1>2, <2>1, <2>2
<1> QED
  BY <1>3 DEF Plain, x

\* How an end may go on: o is what it has of an unfinished message.
MayGo(alien, bad, bad2, o) == (alien => ~ bad2) /\ (~ bad2 => ~ bad) /\ (~ alien => o = 0)

\* Less of what follows matters when the socket is gone.
LEMMA WellDown ==
  ASSUME NEW w \in Seq(Items), NEW rd \in Readers, NEW gt \in Seq(Seq(Items)), NEW s \in Seq(Nat),
         NEW o \in Nat, NEW alien, NEW bad, NEW up, Well(alien, bad, w, rd, gt, s, o, up),
         NEW t \in Seq(Nat), Len(s) <= Len(t), \A n \in 1 .. Len(s) : t[n] = s[n],
         NEW p, NEW bad2, MayGo(alien, bad, bad2, p)
  PROVE  Well(alien, bad2, w, rd, gt, t, p, FALSE)
<1>1. Len(gt) \in Nat
  OBVIOUS
<1>2. ASSUME ~ bad2
      PROVE  Told(w, rd, gt, t, p, FALSE)
  <2>1. Told(w, rd, gt, s, o, up)
    BY <1>2 DEF Well, MayGo
  <2>2. AllGiven(gt, t)
    BY <2>1, GivenGrows DEF Told
  <2>3. rd.pc \in Live => Reading(w, rd, Len(gt), t, p, FALSE)
    BY <1>1, <2>1, ReadingDown DEF Told
  <2> QED
    BY <2>1, <2>2, <2>3 DEF Told
<1> QED
  BY <1>2 DEF Well, MayGo

\* What is needed of a frame that carries c bytes of message n and, if l = 1, its end.
FrameFor(f, n, c, l) ==
  /\ IsFrame(f, n) /\ CountIn(f, Lasts) = l
  /\ \A m \in Nat \ {0} : CountIn(f, Of(m)) = IF m = n THEN c ELSE 0

\* What comes of it when it is sent to an end with a socket, and to one without.
Arrives(up, w, f, v) == v = IF up THEN w \o f ELSE w

\* How an end may send it as its frame n.
MaySend(alien, bad, bad2, f, n, c, l) ==
  (~ alien => PlainItems(f)) /\ (~ bad2 => FrameFor(f, n, c, l))

\* A frame is sent, with c bytes of a message and, if l = 1, its end.
LEMMA WellSent ==
  ASSUME NEW w \in Seq(Items), NEW rd \in Readers, NEW gt \in Seq(Seq(Items)), NEW s \in Seq(Nat),
         NEW o \in Nat, NEW alien, NEW bad, NEW up \in BOOLEAN, Well(alien, bad, w, rd, gt, s, o, up),
         NEW f, NEW l \in {0, 1}, NEW c \in Nat, NEW bad2, NEW s2, NEW o2, NEW v,
         s2 = SentNow(s, o, c, l), o2 = OpenNow(o, c, l),
         Arrives(up, w, f, v), MayGo(alien, bad, bad2, o2),
         MaySend(alien, bad, bad2, f, Len(s) + 1, c, l)
  PROVE  Well(alien, bad2, v, rd, gt, s2, o2, up)
<1>1. s2 \in Seq(Nat) /\ Len(s) <= Len(s2) /\ \A n \in 1 .. Len(s) : s2[n] = s[n]
  <2>1. o + c \in Nat
    OBVIOUS
  <2> DEFINE n == o + c
  <2>2. CASE l = 1
    <3>1. s2 = Append(s, n)
      BY <2>2 DEF SentNow
    <3> HIDE DEF n
    <3> QED
      BY <2>1, <3>1 DEF n
  <2>3. CASE l = 0
    BY <2>3 DEF SentNow
  <2> QED
    BY <2>2, <2>3
<1>2. CASE up = FALSE
  <2>1. v = w
    BY <1>2 DEF Arrives
  <2>2. ~ alien => o2 = 0
    BY DEF MayGo
  <2>4. ~ alien => Plain(w, rd)
    BY DEF Well
  <2>5. ASSUME ~ bad2
        PROVE  Told(w, rd, gt, s2, o2, FALSE)
    <3>1. Told(w, rd, gt, s, o, up)
      BY <2>5 DEF Well, MayGo
    <3>2. AllGiven(gt, s2)
      BY <1>1, <3>1, GivenGrows DEF Told
    <3>3. ASSUME rd.pc \in Live
          PROVE  Reading(w, rd, Len(gt), s2, o2, FALSE)
      <4>1. Reading(w, rd, Len(gt), s, o, up) /\ Len(gt) \in Nat
        BY <3>1, <3>3 DEF Told
      <4> QED
        BY <1>1, <4>1, ReadingDown
    <3> QED
      BY <3>1, <3>2, <3>3 DEF Told
  <2>3. Well(alien, bad2, w, rd, gt, s2, o2, FALSE)
    BY <2>2, <2>4, <2>5 DEF Well, MayGo
  <2> QED
    BY <1>2, <2>1, <2>3
<1>3. CASE up = TRUE
  <2>1. v = w \o f
    BY <1>3 DEF Arrives
  <2>2. ~ alien => Plain(v, rd)
    BY <2>1, PlainPush DEF Well, MaySend
  <2>3. ASSUME ~ bad2
        PROVE  Told(v, rd, gt, s2, o2, TRUE)
    <3>1. Told(w, rd, gt, s, o, TRUE)
      BY <1>3, <2>3 DEF Well, MayGo
    <3>2. AllGiven(gt, s2)
      BY <1>1, <3>1, GivenGrows DEF Told
    <3>3. ASSUME rd.pc \in Live
          PROVE  Reading(v, rd, Len(gt), s2, o2, TRUE)
      <4> DEFINE g == Len(gt)
      <4>1. Reading(w, rd, g, s, o, TRUE)
        BY <3>1, <3>3, Zenon DEF Told
      <4>3. g \in Nat
        OBVIOUS
      <4>4. /\ IsFrame(f, Len(s) + 1) /\ CountIn(f, Lasts) = l
            /\ \A m \in Nat \ {0} : CountIn(f, Of(m)) = IF m = Len(s) + 1 THEN c ELSE 0
        BY <2>3 DEF MaySend, FrameFor
      <4> HIDE DEF g
      <4>2. Reading(w \o f, rd, g, SentNow(s, o, c, l), OpenNow(o, c, l), TRUE)
        BY <4>1, <4>3, <4>4, ReadingPush
      <4> QED
        BY <2>1, <4>2 DEF g
    <3> QED
      BY <3>1, <3>2, <3>3 DEF Told
  <2> QED
    BY <1>3, <2>2, <2>3 DEF Well, MayGo
<1> QED
  BY <1>2, <1>3

\* A reader that has ended.
LEMMA WellEnd ==
  ASSUME NEW w \in Seq(Items), NEW rd \in Readers, NEW gt, NEW s, NEW o, NEW alien, NEW bad, NEW up,
         Well(alien, bad, w, rd, gt, s, o, up),
         NEW v \in Seq(Items), v = w \/ (w # << >> /\ v = Tail(w)),
         NEW r2 \in Readers, r2.pc = "done", r2.head = rd.head, NEW up2
  PROVE  Well(alien, bad, v, r2, gt, s, o, up2)
<1>1. r2.pc # "garbled" /\ r2.pc \notin Live
  BY DEF Live
<1>2. \A i \in 1 .. Len(v) : \E j \in 1 .. Len(w) : v[i] = w[j]
  <2>1. CASE v = w
    BY <2>1
  <2>2. CASE w # << >> /\ v = Tail(w)
    BY <2>2, TailLess
  <2> QED
    BY <2>1, <2>2
<1>3. Plain(w, rd) => Plain(v, r2)
  <2> SUFFICES ASSUME Plain(w, rd) PROVE Plain(v, r2)
    OBVIOUS
  <2>1. r2.head.op \in WS!Control => r2.head.len = 0
    BY DEF Plain
  <2> QED
    BY <1>2, <2>1, PlainLess, ZenonT(40)
<1> QED
  BY <1>1, <1>3 DEF Well, Told

\* Between the frames.
LEMMA WellQuiet ==
  ASSUME NEW w \in Seq(Items), NEW rd \in Readers, NEW r2 \in Readers, NEW gt \in Seq(Seq(Items)),
         NEW s, NEW o, NEW alien, NEW bad, NEW up, Well(alien, bad, w, rd, gt, s, o, up),
         rd.pc \in Quiet, r2.pc \in Quiet, r2.count = rd.count, r2.buffer = rd.buffer, r2.head = rd.head,
         r2.pc \in {"handshake", "answered", "idle"} => rd.pc \in {"handshake", "answered", "idle"}
  PROVE  Well(alien, bad, w, r2, gt, s, o, up)
<1>1. Plain(w, rd) => Plain(w, r2)
  BY DEF Plain
<1>2. ASSUME ~ bad
      PROVE  Told(w, r2, gt, s, o, up)
  <2>1. Told(w, rd, gt, s, o, up)
    BY <1>2 DEF Well
  <2>2. rd.pc \in Live /\ Len(gt) \in Nat /\ r2.pc # "garbled"
    BY DEF Live, Quiet
  <2>3. Reading(w, rd, Len(gt), s, o, up)
    BY <2>1, <2>2 DEF Told
  <2>4. Reading(w, r2, Len(gt), s, o, up)
    BY <2>2, <2>3, ReadingQuiet
  <2> QED
    BY <2>1, <2>2, <2>4 DEF Told
<1> QED
  BY <1>1, <1>2 DEF Well

\* A read begins.
LEMMA WellCall ==
  ASSUME NEW w \in Seq(Items), NEW rd \in Readers, NEW r2 \in Readers, NEW gt \in Seq(Seq(Items)),
         NEW s, NEW o, NEW alien, NEW bad, NEW up, Well(alien, bad, w, rd, gt, s, o, up),
         rd.pc = "idle", r2.pc = "header", r2.count = 0, r2.buffer = rd.buffer, r2.head = rd.head
  PROVE  Well(alien, bad, w, r2, gt, s, o, up)
<1>1. Plain(w, rd) => Plain(w, r2)
  BY DEF Plain
<1>2. ASSUME ~ bad
      PROVE  Told(w, r2, gt, s, o, up)
  <2>1. Told(w, rd, gt, s, o, up)
    BY <1>2 DEF Well
  <2>2. Len(gt) \in Nat /\ rd.pc \in Quiet /\ r2.pc \in Quiet
    BY DEF Quiet
  <2>3. Reading(w, rd, Len(gt), s, o, up)
    BY <2>1 DEF Told, Live
  <2>4. r2.count = rd.count
    BY <2>3 DEF Reading, Buffered
  <2>5. Reading(w, r2, Len(gt), s, o, up)
    BY <2>2, <2>3, <2>4, ReadingQuiet
  <2> QED
    BY <2>1, <2>5 DEF Told
<1> QED
  BY <1>1, <1>2 DEF Well

\* The next head is taken.
LEMMA WellHead ==
  ASSUME NEW w \in Seq(Items), NEW rd \in Readers, NEW r2 \in Readers, NEW gt \in Seq(Seq(Items)),
         NEW s, NEW o, NEW alien, NEW bad, NEW up, Well(alien, bad, w, rd, gt, s, o, up),
         rd.pc = "header", w # << >>,
         IF WS!IsHead(w[1])
         THEN r2 = [rd EXCEPT !.head = w[1],
                      !.pc = IF w[1].len = 0 /\ ~ w[1].mask THEN "frame" ELSE "payload"]
         ELSE r2 = [rd EXCEPT !.pc = "garbled"]
  PROVE  Well(alien, bad, Tail(w), r2, gt, s, o, up)
<1> DEFINE t == Tail(w)
           h == w[1]
<1>1. /\ t \in Seq(Items) /\ Len(w) \in Nat \ {0} /\ h \in Items
      /\ \A i \in 1 .. Len(t) : \E j \in 1 .. Len(w) : t[i] = w[j]
  BY TailLess
<1>3. 1 \in 1 .. Len(w) /\ h = w[1]
  BY <1>1
<1> HIDE DEF t, h
<1>4. WS!IsHead(h) => h \in Heads
  BY <1>1, ItemKinds DEF Items
<1>5. IF WS!IsHead(h)
      THEN r2.head = h /\ r2.pc \in {"frame", "payload"}
      ELSE r2.head = rd.head /\ r2.pc = "garbled"
  <2>1. CASE WS!IsHead(h)
    <3>1. r2 = [rd EXCEPT !.head = h, !.pc = IF h.len = 0 /\ ~ h.mask THEN "frame" ELSE "payload"]
      BY <2>1 DEF h
    <3>2. r2.head = h /\ r2.pc = IF h.len = 0 /\ ~ h.mask THEN "frame" ELSE "payload"
      BY <3>1 DEF Readers
    <3> QED
      BY <2>1, <3>2
  <2>2. CASE ~ WS!IsHead(h)
    <3>1. r2 = [rd EXCEPT !.pc = "garbled"]
      BY <2>2 DEF h
    <3>2. r2.head = rd.head /\ r2.pc = "garbled"
      BY <3>1 DEF Readers
    <3> QED
      BY <2>2, <3>2
  <2> QED
    BY <2>1, <2>2
<1>6. Plain(w, rd) => Plain(t, r2)
  <2> SUFFICES ASSUME Plain(w, rd) PROVE Plain(t, r2)
    OBVIOUS
  <2>1. r2.head.op \in WS!Control => r2.head.len = 0
    BY <1>3, <1>4, <1>5 DEF Plain
  <2> QED
    BY <1>1, <2>1, PlainLess
<1>7. ASSUME ~ bad
      PROVE  Told(t, r2, gt, s, o, up)
  <2>1. Told(w, rd, gt, s, o, up)
    BY <1>7 DEF Well
  <2>2. Reading(w, rd, Len(gt), s, o, up) /\ Len(gt) \in Nat
    BY <2>1 DEF Told, Live
  <2>3. h \in Heads
    <3>1. Due(rd) = 0
      BY DEF Due
    <3>2. 0 < Len(w) => w[0 + 1] \in Heads
      BY <2>2, <3>1 DEF Reading, Chain
    <3> QED
      BY <1>1, <3>2 DEF h
  <2>4. WS!IsHead(h)
    BY <2>3, ItemKinds
  <2>5. r2 = [rd EXCEPT !.head = w[1], !.pc = IF w[1].len = 0 /\ ~ w[1].mask THEN "frame" ELSE "payload"]
    BY <2>4 DEF h
  <2>6. Reading(t, r2, Len(gt), s, o, up)
    BY <2>2, <2>5, ReadingHead DEF t
  <2>7. r2.pc # "garbled"
    BY <1>5, <2>4
  <2> QED
    BY <2>1, <2>6, <2>7 DEF Told
<1>8. Well(alien, bad, t, r2, gt, s, o, up)
  BY <1>6, <1>7 DEF Well
<1> QED
  BY <1>8 DEF t

\* The payload is taken.
LEMMA WellPayload ==
  ASSUME NEW w \in Seq(Items), NEW rd \in Readers, NEW r2 \in Readers, NEW gt \in Seq(Seq(Items)),
         NEW s \in Seq(Nat), NEW o, NEW alien, NEW bad, NEW up, Well(alien, bad, w, rd, gt, s, o, up),
         rd.pc = "payload", Size(rd.head) <= Len(w),
         r2 = [rd EXCEPT !.pc = "frame",
                         !.buffer = SubSeq(rd.buffer, 1, rd.count) \o Payload(w, rd.head)]
  PROVE  Well(alien, bad, SubSeq(w, Size(rd.head) + 1, Len(w)), r2, gt, s, o, up)
<1> DEFINE d == Size(rd.head)
           t == SubSeq(w, d + 1, Len(w))
<1>1. d \in 0 .. Len(w)
  BY ReaderFacts, SizeFacts
<1>2. /\ t \in Seq(Items) /\ Len(t) = Len(w) - d
      /\ \A k \in 1 .. Len(w) - d : t[k] = w[d + k]
  BY <1>1, CutFacts
<1>3. r2.head = rd.head /\ r2.pc = "frame"
  BY DEF Readers
<1>4. \A i \in 1 .. Len(t) : \E j \in 1 .. Len(w) : t[i] = w[j]
  <2> SUFFICES ASSUME NEW i \in 1 .. Len(t) PROVE \E j \in 1 .. Len(w) : t[i] = w[j]
    OBVIOUS
  <2> HIDE DEF d, t
  <2>1. d + i \in 1 .. Len(w) /\ t[i] = w[d + i]
    BY <1>1, <1>2
  <2> QED
    BY <2>1
<1> HIDE DEF d, t
<1>5. Plain(w, rd) => Plain(t, r2)
  <2> SUFFICES ASSUME Plain(w, rd) PROVE Plain(t, r2)
    OBVIOUS
  <2>1. r2.head.op \in WS!Control => r2.head.len = 0
    BY <1>3 DEF Plain
  <2> QED
    BY <1>4, <2>1, PlainLess, ZenonT(40)
<1>6. ASSUME ~ bad
      PROVE  Told(t, r2, gt, s, o, up)
  <2>1. Told(w, rd, gt, s, o, up)
    BY <1>6 DEF Well
  <2>2. Reading(w, rd, Len(gt), s, o, up) /\ Len(gt) \in Nat
    BY <2>1 DEF Told, Live
  <2>3. Reading(t, r2, Len(gt), s, o, up)
    BY <2>2, ReadingPayload DEF t, d
  <2> QED
    BY <1>3, <2>1, <2>3 DEF Told
<1>7. Well(alien, bad, t, r2, gt, s, o, up)
  BY <1>5, <1>6 DEF Well
<1> QED
  BY <1>7 DEF t, d

\* A frame is done that ends no message.
LEMMA WellFrame ==
  ASSUME NEW w \in Seq(Items), NEW rd \in Readers, NEW r2 \in Readers, NEW gt \in Seq(Seq(Items)),
         NEW s, NEW o, NEW alien, NEW bad, NEW up, Well(alien, bad, w, rd, gt, s, o, up),
         rd.pc = "frame", rd.head \notin Lasts, NEW p \in {"loop", "header"},
         r2 = [rd EXCEPT !.count = rd.count + rd.head.len, !.pc = p]
  PROVE  Well(alien, bad, w, r2, gt, s, o, up)
<1>1. r2.head = rd.head /\ r2.pc = p
  BY DEF Readers
<1>2. Plain(w, rd) => Plain(w, r2)
  BY <1>1 DEF Plain
<1>3. ASSUME ~ bad
      PROVE  Told(w, r2, gt, s, o, up)
  <2>1. Told(w, rd, gt, s, o, up)
    BY <1>3 DEF Well
  <2>2. Reading(w, rd, Len(gt), s, o, up) /\ Len(gt) \in Nat
    BY <2>1 DEF Told, Live
  <2>3. Reading(w, r2, Len(gt), s, o, up)
    BY <2>2, ReadingFrame
  <2>4. r2.pc # "garbled"
    BY <1>1
  <2> QED
    BY <2>1, <2>3, <2>4 DEF Told
<1> QED
  BY <1>2, <1>3 DEF Well

\* A message is given.
LEMMA WellMessage ==
  ASSUME NEW w \in Seq(Items), NEW rd \in Readers, NEW gt \in Seq(Seq(Items)),
         NEW s \in Seq(Nat), NEW o, NEW alien, NEW bad, NEW up, Well(alien, bad, w, rd, gt, s, o, up),
         rd.pc = "frame", rd.head \in Lasts, NEW p \in {"loop", "idle"},
         Has(rd) \in Seq(Items)
  PROVE  Well(alien, bad, w, Reset(rd, p), Append(gt, Has(rd)), s, o, up)
<1> DEFINE msg == Has(rd)
           g == Len(gt)
           r2 == Reset(rd, p)
<1>1. r2.head = rd.head /\ r2.pc = p
  BY DEF Readers, Reset
<1> HIDE DEF r2
<1>2. Plain(w, rd) => Plain(w, r2)
  BY <1>1 DEF Plain
<1>3. ASSUME ~ bad
      PROVE  Told(w, r2, Append(gt, msg), s, o, up)
  <2>1. Told(w, rd, gt, s, o, up)
    BY <1>3 DEF Well
  <2>2. g \in Nat
    OBVIOUS
  <2>8. Reading(w, rd, g, s, o, up)
    BY <2>1 DEF Told, Live
  <2> HIDE DEF g
  <2>3. IsMessage(msg, s, g + 1) /\ Reading(w, r2, g + 1, s, o, up)
    BY <2>2, <2>8, ReadingMessage DEF r2
  <2> HIDE DEF msg
  <2>7. msg \in Seq(Items)
    BY DEF msg
  <2>4. AllGiven(Append(gt, msg), s)
    BY <2>1, <2>3, <2>7, GivenMore DEF Told, g
  <2>5. Len(Append(gt, msg)) = g + 1
    BY <2>7 DEF g
  <2>6. r2.pc # "garbled"
    BY <1>1
  <2> QED
    BY <2>3, <2>4, <2>5, <2>6 DEF Told, msg
<1> QED
  BY <1>2, <1>3 DEF Well, r2

\* What the steps of several actions do.
LEMMA ArrivalFacts ==
  ASSUME WsTypes, NEW a \in WS!End, NEW f \in Seq(Items), WS!Deliver(a, f)
  PROVE  /\ wire' \in [WS!End -> Seq(Items)] /\ wire'[a] = wire[a]
         /\ wire'[WS!Peer(a)] = IF sock[WS!Peer(a)] THEN wire[WS!Peer(a)] \o f ELSE wire[WS!Peer(a)]
<1> DEFINE p == WS!Peer(a)
           n == IF sock[p] THEN wire[p] \o f ELSE wire[p]
<1>1. p \in WS!End /\ p # a
  BY WsPeers
<1>2. wire \in [WS!End -> Seq(Items)] /\ n \in Seq(Items)
  BY <1>1 DEF WsTypes
<1>3. wire' = [wire EXCEPT ![p] = n]
  BY DEF WS!Deliver
<1> HIDE DEF p, n
<1>4. wire' \in [WS!End -> Seq(Items)] /\ wire'[a] = wire[a] /\ wire'[p] = n
  BY <1>1, <1>2, <1>3
<1> QED
  BY <1>4 DEF p, n

\* e ends: sock is closed or not.
Leaves(e) ==
  LET p == WS!Peer(e)
  IN  /\ reader' \in [WS!End -> Readers] /\ reader'[p] = reader[p]
      /\ reader'[e].pc = "done" /\ reader'[e].head = reader[e].head
      /\ reader'[e].count = reader[e].count /\ reader'[e].buffer = reader[e].buffer
      /\ sock' \in [WS!End -> BOOLEAN] /\ sock'[p] = sock[p]
      /\ is_close' \in [WS!End -> BOOLEAN]
      /\ result' \in [WS!End -> Results] /\ closes' \in Nat

LEMMA PcFacts ==
  ASSUME WsTypes, NEW e \in WS!End, NEW p \in Pcs, WS!Pc(e, p)
  PROVE  /\ reader' \in [WS!End -> Readers] /\ reader'[WS!Peer(e)] = reader[WS!Peer(e)]
         /\ reader'[e] \in Readers /\ reader'[e].pc = p /\ reader'[e].head = reader[e].head
         /\ reader'[e].count = reader[e].count /\ reader'[e].buffer = reader[e].buffer
         /\ reader'[e] = [reader[e] EXCEPT !.pc = p]
<1> DEFINE r == [reader[e] EXCEPT !.pc = p]
<1>1. reader \in [WS!End -> Readers] /\ reader[e] \in Readers /\ WS!Peer(e) \in WS!End /\ WS!Peer(e) # e
  BY WsPeers DEF WsTypes
<1>2. /\ r \in Readers /\ r.pc = p /\ r.head = reader[e].head
      /\ r.count = reader[e].count /\ r.buffer = reader[e].buffer
  BY <1>1 DEF Readers
<1>3. reader' = [reader EXCEPT ![e] = r]
  BY DEF WS!Pc
<1> HIDE DEF r
<1>4. reader' \in [WS!End -> Readers] /\ reader'[WS!Peer(e)] = reader[WS!Peer(e)] /\ reader'[e] = r
  BY <1>1, <1>2, <1>3
<1> QED
  BY <1>2, <1>4 DEF r

LEMMA CloseFacts ==
  ASSUME WsTypes, NEW e \in WS!End, WS!CloseWebsocket(e)
  PROVE  /\ is_close' \in [WS!End -> BOOLEAN] /\ sock' \in [WS!End -> BOOLEAN]
         /\ sock'[WS!Peer(e)] = sock[WS!Peer(e)] /\ sock'[e] = FALSE
         /\ is_close'[WS!Peer(e)] = is_close[WS!Peer(e)] /\ is_close'[e] = TRUE
<1>1. WS!Peer(e) \in WS!End /\ WS!Peer(e) # e
  BY WsPeers
<1>2. is_close' = [is_close EXCEPT ![e] = TRUE] /\ sock' = [sock EXCEPT ![e] = FALSE]
  BY DEF WS!CloseWebsocket
<1>3. is_close \in [WS!End -> BOOLEAN] /\ sock \in [WS!End -> BOOLEAN]
  BY DEF WsTypes
<1> QED
  BY <1>1, <1>2, <1>3

LEMMA AcceptedFacts ==
  ASSUME WsTypes, NEW err, NEW n \in {0, 1}, WS!Accepted(err, n)
  PROVE  /\ Leaves("server")
         /\ is_close'["client"] = is_close["client"] /\ is_close'["server"] = TRUE
         /\ sock'["server"] = FALSE \/ (sock'["server"] = sock["server"] /\ is_close["server"])
         /\ closes' = closes + n + (IF err = "SOCKET_ERROR" THEN 1 ELSE 0)
         /\ result'["server"] = IF err \in {"none", "SOCKET_ERROR"} THEN "true" ELSE "false"
         /\ result'["client"] = result["client"]
<1>1. "server" \in WS!End /\ "client" \in WS!End /\ WS!Peer("server") = "client"
  BY DEF WS!End, WS!Peer
<1>2. closes' = closes + n + (IF err = "SOCKET_ERROR" THEN 1 ELSE 0) /\ closes' \in Nat
  BY DEF WS!Accepted, WsTypes
<1>3. /\ result' \in [WS!End -> Results]
      /\ result'["server"] = IF err \in {"none", "SOCKET_ERROR"} THEN "true" ELSE "false"
      /\ result'["client"] = result["client"]
  <2> DEFINE x == IF err \in {"none", "SOCKET_ERROR"} THEN "true" ELSE "false"
  <2>1. x \in Results
    BY DEF Results
  <2>2. result' = [result EXCEPT !["server"] = x] /\ result \in [WS!End -> Results]
    BY DEF WS!Accepted, WsTypes
  <2> HIDE DEF x
  <2>3. result' \in [WS!End -> Results] /\ result'["server"] = x /\ result'["client"] = result["client"]
    BY <1>1, <2>1, <2>2
  <2> QED
    BY <2>3 DEF x
<1>4. /\ reader' \in [WS!End -> Readers] /\ reader'["client"] = reader["client"]
      /\ reader'["server"].pc = "done" /\ reader'["server"].head = reader["server"].head
      /\ reader'["server"].count = reader["server"].count
      /\ reader'["server"].buffer = reader["server"].buffer
  <2>1. WS!Pc("server", "done") /\ "done" \in Pcs
    BY DEF WS!Accepted, Pcs
  <2> QED
    BY <1>1, <2>1, PcFacts
<1>5. CASE is_close["server"] = TRUE
  <2>1. is_close' = is_close /\ sock' = sock
    BY <1>5 DEF WS!Accepted
  <2>2. is_close' \in [WS!End -> BOOLEAN] /\ sock' \in [WS!End -> BOOLEAN]
    BY <2>1 DEF WsTypes
  <2> QED
    BY <1>1, <1>2, <1>3, <1>4, <1>5, <2>1, <2>2 DEF Leaves
<1>6. CASE is_close["server"] = FALSE
  <2>1. WS!CloseWebsocket("server")
    BY <1>6 DEF WS!Accepted
  <2>2. /\ is_close' \in [WS!End -> BOOLEAN] /\ sock' \in [WS!End -> BOOLEAN]
        /\ sock'["client"] = sock["client"] /\ sock'["server"] = FALSE
        /\ is_close'["client"] = is_close["client"] /\ is_close'["server"] = TRUE
    BY <1>1, <2>1, CloseFacts
  <2>3. Leaves("server")
    BY <1>1, <1>2, <1>3, <1>4, <2>2 DEF Leaves
  <2> QED
    BY <1>2, <1>3, <2>2, <2>3, Zenon
<1>7. is_close["server"] \in BOOLEAN
  BY <1>1 DEF WsTypes
<1> QED
  BY <1>5, <1>6, <1>7

LEMMA RejectedFacts ==
  ASSUME WsTypes, NEW e \in WS!End, NEW err \in Results, WS!Rejected(e, err)
  PROVE  /\ Leaves(e) /\ sock' = sock /\ is_close' = is_close /\ closes' = closes
         /\ result'[e] = err /\ result'[WS!Peer(e)] = result[WS!Peer(e)]
<1>1. WS!Peer(e) \in WS!End /\ WS!Peer(e) # e
  BY WsPeers
<1>2. WS!Pc(e, "done") /\ "done" \in Pcs /\ sock' = sock /\ is_close' = is_close /\ closes' = closes
  BY DEF WS!Rejected, Pcs
<1>3. result' = [result EXCEPT ![e] = err] /\ result \in [WS!End -> Results]
  BY DEF WS!Rejected, WsTypes
<1>4. result' \in [WS!End -> Results] /\ result'[e] = err /\ result'[WS!Peer(e)] = result[WS!Peer(e)]
  BY <1>1, <1>3
<1>5. sock \in [WS!End -> BOOLEAN] /\ is_close \in [WS!End -> BOOLEAN] /\ closes \in Nat
  BY DEF WsTypes
<1>6. /\ reader' \in [WS!End -> Readers] /\ reader'[WS!Peer(e)] = reader[WS!Peer(e)]
      /\ reader'[e].pc = "done" /\ reader'[e].head = reader[e].head
      /\ reader'[e].count = reader[e].count /\ reader'[e].buffer = reader[e].buffer
  BY <1>2, PcFacts
<1> QED
  BY <1>2, <1>4, <1>5, <1>6 DEF Leaves

LEMMA FailsFacts ==
  ASSUME WsTypes, NEW e \in WS!End, NEW err \in {"SOCKET_ERROR", "assertion"}, WS!Fails(e, err)
  PROVE  Leaves(e)
<1>1. CASE e = "server"
  <2>1. WS!Accepted(err, 0)
    BY <1>1 DEF WS!Fails
  <2> QED
    BY <1>1, <2>1, AcceptedFacts
<1>2. CASE e # "server"
  <2>1. WS!Rejected(e, err) /\ err \in Results
    BY <1>2 DEF WS!Fails, Results
  <2> QED
    BY <2>1, RejectedFacts
<1> QED
  BY <1>1, <1>2

\* The bytes of a payload.
LEMMA BytesFacts ==
  ASSUME NEW n \in Nat, NEW len \in Nat
  PROVE  LET s == WS!Bytes(n, FALSE, len)
         IN  /\ s \in Seq(Items) /\ Len(s) = len
             /\ \A k \in 1 .. Len(s) : s[k] = WS!Byte(n, FALSE) /\ s[k] \in Kept
<1> DEFINE s == WS!Bytes(n, FALSE, len)
           b == WS!Byte(n, FALSE)
<1>1. b \in Kept /\ b \in Items
  BY ItemKinds DEF Items
<1>2. s = [i \in 1 .. len |-> b]
  BY DEF WS!Bytes
<1> HIDE DEF b, s
<1>3. s \in Seq(Items) /\ Len(s) = len /\ \A k \in 1 .. len : s[k] = b
  BY <1>1, <1>2
<1> QED
  BY <1>1, <1>3 DEF s, b

\* A head and bytes: nothing of a control frame but the head.
LEMMA PlainHead ==
  ASSUME NEW h \in Heads, h.op \in WS!Control => h.len = 0,
         NEW r \in Seq(Items), \A k \in 1 .. Len(r) : r[k] \in Kept
  PROVE  PlainItems(<<h>> \o r)
<1> DEFINE f == <<h>> \o r
<1>1. <<h>> \in Seq(Items) /\ Len(<<h>>) = 1 /\ <<h>>[1] = h
  BY DEF Items
<1>2. /\ f \in Seq(Items) /\ Len(f) = 1 + Len(r) /\ f[1] = h
      /\ \A k \in 2 .. 1 + Len(r) : f[k] = r[k - 1]
  <2>1. /\ f \in Seq(Items) /\ Len(f) = Len(<<h>>) + Len(r)
        /\ \A k \in 1 .. Len(<<h>>) : f[k] = <<h>>[k]
        /\ \A k \in Len(<<h>>) + 1 .. Len(<<h>>) + Len(r) : f[k] = r[k - Len(<<h>>)]
    BY <1>1, RowFacts
  <2> HIDE DEF f
  <2> QED
    BY <1>1, <2>1
<1> HIDE DEF f
<1>3. \A k \in 1 .. Len(f) : f[k] \in Heads /\ f[k].op \in WS!Control => f[k].len = 0
  <2> SUFFICES ASSUME NEW k \in 1 .. Len(f), f[k] \in Heads, f[k].op \in WS!Control
               PROVE  f[k].len = 0
    OBVIOUS
  <2>1. CASE k = 1
    BY <1>2, <2>1
  <2>2. CASE k # 1
    <3>1. k \in 2 .. 1 + Len(r) /\ k - 1 \in 1 .. Len(r)
      BY <1>2, <2>2
    <3>2. f[k] \in Kept
      BY <1>2, <3>1
    <3> QED
      BY <3>2, ItemKinds
  <2> QED
    BY <2>1, <2>2
<1> QED
  BY <1>2, <1>3 DEF PlainItems, f

\* A frame of a control.
LEMMA ControlFrame ==
  ASSUME NEW op \in WS!Control, NEW n \in Nat \ {0}, NEW s \in Seq(Items), Small \in Nat,
         \A k \in 1 .. Len(s) : s[k] = WS!Byte(0, FALSE)
  PROVE  /\ FrameFor(WS!Frame(op, TRUE, s, FALSE), n, 0, 0)
         /\ WS!Frame(op, TRUE, s, FALSE) \in Seq(Items)
         /\ s = << >> => PlainItems(WS!Frame(op, TRUE, s, FALSE))
<1> DEFINE f == WS!Frame(op, TRUE, s, FALSE)
           h == HeadOf(op, TRUE, FALSE, Len(s))
<1>1. op \in Ops
  BY DEF WS!Control, Ops
<1>2. \A k \in 1 .. Len(s) : s[k] = WS!Byte(IF op \in WS!Control THEN 0 ELSE n, FALSE)
  OBVIOUS
<1>3. /\ IsFrame(f, n)
      /\ CountIn(f, Lasts) = IF TRUE /\ op \notin WS!Control THEN 1 ELSE 0
      /\ \A m \in Nat \ {0} : CountIn(f, Of(m)) = IF m = n /\ op \notin WS!Control THEN Len(s) ELSE 0
  <2>1. TRUE \in BOOLEAN /\ FALSE \in BOOLEAN
    OBVIOUS
  <2> QED
    BY <1>1, <1>2, <2>1, Written
<1>4. f = <<h>> \o s /\ h \in Heads /\ f \in Seq(Items)
  BY <1>1, PlainFrame
<1>5. ASSUME s = << >>
      PROVE  PlainItems(f)
  <2>1. Len(s) = 0 /\ h.len = Len(s)
    BY <1>5 DEF HeadOf
  <2>2. \A k \in 1 .. Len(s) : s[k] \in Kept
    BY <2>1
  <2> HIDE DEF f, h
  <2> QED
    BY <1>4, <2>1, <2>2, PlainHead
<1> HIDE DEF f
<1>6. FrameFor(f, n, 0, 0)
  BY <1>3 DEF FrameFor
<1> QED
  BY <1>4, <1>5, <1>6 DEF f

\* Data of message n.
LEMMA DataFrameFor ==
  ASSUME NEW op \in {"TEXT", "FRAME"}, NEW fin \in BOOLEAN, NEW n \in Nat \ {0}, NEW len \in Nat,
         Small \in Nat, NEW masked \in BOOLEAN
  PROVE  LET f == WS!Frame(op, fin, WS!Bytes(n, FALSE, len), masked)
         IN  /\ f \in Seq(Items) /\ PlainItems(f)
             /\ (masked => len < Small) => FrameFor(f, n, len, IF fin THEN 1 ELSE 0)
<1> DEFINE s == WS!Bytes(n, FALSE, len)
           f == WS!Frame(op, fin, s, masked)
<1>1. op \in Ops /\ op \notin WS!Control
  BY DEF WS!Control, Ops
<1>2. /\ s \in Seq(Items) /\ Len(s) = len
      /\ \A k \in 1 .. Len(s) : s[k] = WS!Byte(n, FALSE) /\ s[k] \in Kept
  BY BytesFacts
<1> HIDE DEF s
<1>3. \A k \in 1 .. Len(s) : s[k] = WS!Byte(IF op \in WS!Control THEN 0 ELSE n, FALSE)
  BY <1>1, <1>2
<1>4. ASSUME masked => len < Small
      PROVE  FrameFor(f, n, len, IF fin THEN 1 ELSE 0)
  <2>1. masked => Len(s) < Small
    BY <1>2, <1>4
  <2>2. CASE masked = FALSE /\ fin = FALSE
    <3> DEFINE g == WS!Frame(op, FALSE, s, FALSE)
    <3>1. /\ IsFrame(g, n)
          /\ CountIn(g, Lasts) = IF FALSE /\ op \notin WS!Control THEN 1 ELSE 0
          /\ \A m \in Nat \ {0} : CountIn(g, Of(m)) = IF m = n /\ op \notin WS!Control THEN Len(s) ELSE 0
      <4>1. TRUE \in BOOLEAN /\ FALSE \in BOOLEAN /\ (FALSE => Len(s) < Small)
        BY <2>1, <2>2
      <4> QED
        BY <1>1, <1>2, <1>3, <4>1, Written
    <3>2. f = g
      BY <2>2
    <3> HIDE DEF f, g
    <3>3. FrameFor(g, n, len, 0)
      BY <1>1, <1>2, <3>1 DEF FrameFor
    <3>4. (IF fin THEN 1 ELSE 0) = 0
      BY <2>2
    <3> QED
      BY <3>2, <3>3, <3>4
  <2>3. CASE masked = FALSE /\ fin = TRUE
    <3> DEFINE g == WS!Frame(op, TRUE, s, FALSE)
    <3>1. /\ IsFrame(g, n)
          /\ CountIn(g, Lasts) = IF TRUE /\ op \notin WS!Control THEN 1 ELSE 0
          /\ \A m \in Nat \ {0} : CountIn(g, Of(m)) = IF m = n /\ op \notin WS!Control THEN Len(s) ELSE 0
      <4>1. TRUE \in BOOLEAN /\ FALSE \in BOOLEAN /\ (FALSE => Len(s) < Small)
        BY <2>1, <2>3
      <4> QED
        BY <1>1, <1>2, <1>3, <4>1, Written
    <3>2. f = g
      BY <2>3
    <3> HIDE DEF f, g
    <3>3. FrameFor(g, n, len, 1)
      BY <1>1, <1>2, <3>1 DEF FrameFor
    <3>4. (IF fin THEN 1 ELSE 0) = 1
      BY <2>3
    <3> QED
      BY <3>2, <3>3, <3>4
  <2>4. CASE masked = TRUE /\ fin = FALSE
    <3> DEFINE g == WS!Frame(op, FALSE, s, TRUE)
    <3>1. /\ IsFrame(g, n)
          /\ CountIn(g, Lasts) = IF FALSE /\ op \notin WS!Control THEN 1 ELSE 0
          /\ \A m \in Nat \ {0} : CountIn(g, Of(m)) = IF m = n /\ op \notin WS!Control THEN Len(s) ELSE 0
      <4>1. TRUE \in BOOLEAN /\ FALSE \in BOOLEAN /\ (TRUE => Len(s) < Small)
        BY <2>1, <2>4
      <4> QED
        BY <1>1, <1>2, <1>3, <4>1, Written
    <3>2. f = g
      BY <2>4
    <3> HIDE DEF f, g
    <3>3. FrameFor(g, n, len, 0)
      BY <1>1, <1>2, <3>1 DEF FrameFor
    <3>4. (IF fin THEN 1 ELSE 0) = 0
      BY <2>4
    <3> QED
      BY <3>2, <3>3, <3>4
  <2>5. CASE masked = TRUE /\ fin = TRUE
    <3> DEFINE g == WS!Frame(op, TRUE, s, TRUE)
    <3>1. /\ IsFrame(g, n)
          /\ CountIn(g, Lasts) = IF TRUE /\ op \notin WS!Control THEN 1 ELSE 0
          /\ \A m \in Nat \ {0} : CountIn(g, Of(m)) = IF m = n /\ op \notin WS!Control THEN Len(s) ELSE 0
      <4>1. TRUE \in BOOLEAN /\ FALSE \in BOOLEAN /\ (TRUE => Len(s) < Small)
        BY <2>1, <2>5
      <4> QED
        BY <1>1, <1>2, <1>3, <4>1, Written, ZenonT(40)
    <3>2. f = g
      BY <2>5
    <3> HIDE DEF f, g
    <3>3. FrameFor(g, n, len, 1)
      BY <1>1, <1>2, <3>1 DEF FrameFor
    <3>4. (IF fin THEN 1 ELSE 0) = 1
      BY <2>5
    <3> QED
      BY <3>2, <3>3, <3>4
  <2> QED
    BY <2>2, <2>3, <2>4, <2>5
<1>5. f \in Seq(Items) /\ PlainItems(f)
  <2>1. CASE masked = FALSE
    <3> DEFINE h == HeadOf(op, fin, FALSE, Len(s))
    <3>1. f = <<h>> \o s /\ h \in Heads /\ f \in Seq(Items)
      BY <1>1, <1>2, <2>1, PlainFrame
    <3>2. h.op \notin WS!Control
      BY <1>1 DEF HeadOf
    <3> HIDE DEF f, h
    <3> QED
      BY <1>2, <3>1, <3>2, PlainHead
  <2>2. CASE masked = TRUE
    <3> DEFINE h == HeadOf(op, fin, Len(s) < Small, Len(s))
               u == WS!Unmasked(s)
               r == <<WS!Key>> \o u
    <3>1. f = <<h>> \o r /\ h \in Heads /\ WS!Key \in Kept /\ f \in Seq(Items)
      BY <1>1, <1>2, <2>2, MaskedFrame
    <3>2. h.op \notin WS!Control
      BY <1>1 DEF HeadOf
    <3>3. u \in Seq(Items) /\ Len(u) = Len(s) /\ \A k \in 1 .. Len(s) : u[k] \in Kept
      BY <1>2, UnmaskedFacts
    <3> HIDE DEF f, h, u
    <3>4. r \in Seq(Items) /\ \A k \in 1 .. Len(r) : r[k] \in Kept
      <4>1. <<WS!Key>> \in Seq(Items) /\ Len(<<WS!Key>>) = 1 /\ <<WS!Key>>[1] = WS!Key
        BY <3>1 DEF Items
      <4>2. /\ r \in Seq(Items) /\ Len(r) = Len(<<WS!Key>>) + Len(u)
            /\ \A k \in 1 .. Len(<<WS!Key>>) : r[k] = <<WS!Key>>[k]
            /\ \A k \in Len(<<WS!Key>>) + 1 .. Len(<<WS!Key>>) + Len(u) : r[k] = u[k - Len(<<WS!Key>>)]
        BY <3>3, <4>1, RowFacts
      <4> HIDE DEF r
      <4>3. /\ Len(r) = 1 + Len(s) /\ r[1] = WS!Key
            /\ \A k \in 2 .. 1 + Len(s) : r[k] = u[k - 1]
        BY <3>3, <4>1, <4>2
      <4>4. \A k \in 1 .. Len(r) : r[k] \in Kept
        <5> TAKE k \in 1 .. Len(r)
        <5>1. CASE k = 1
          BY <3>1, <4>3, <5>1
        <5>2. CASE k # 1
          <6>1. k \in 2 .. 1 + Len(s) /\ k - 1 \in 1 .. Len(s)
            BY <1>2, <4>3, <5>2
          <6> QED
            BY <3>3, <4>3, <6>1
        <5> QED
          BY <5>1, <5>2
      <4> QED
        BY <4>2, <4>4
    <3> HIDE DEF r
    <3> QED
      BY <3>1, <3>2, <3>4, PlainHead DEF r
  <2> QED
    BY <2>1, <2>2
<1> QED
  BY <1>4, <1>5 DEF f, s

LEMMA TypesAt ==
  ASSUME WsTypes, NEW e \in WS!End
  PROVE  /\ wire[e] \in Seq(Items) /\ reader[e] \in Readers /\ got[e] \in Seq(Seq(Items))
         /\ sent[e] \in Seq(Nat) /\ open[e] \in Nat /\ sock[e] \in BOOLEAN
         /\ lost[e] \in BOOLEAN /\ is_close[e] \in BOOLEAN
         /\ WS!Peer(e) \in WS!End /\ WS!Peer(e) # e /\ WS!Peer(WS!Peer(e)) = e
         /\ e \in foreign => WS!Peer(e) \notin foreign
<1>1. WS!Peer(e) \in WS!End /\ WS!Peer(e) # e /\ WS!Peer(WS!Peer(e)) = e
  BY WsPeers
<1>2. e \in foreign => WS!Peer(e) \notin foreign
  BY <1>1 DEF WsTypes
<1> QED
  BY <1>1, <1>2 DEF WsTypes

\* An end is sent a frame with c bytes of a message and, if l = 1, its end.
Sends(a, f, c, l) ==
  LET p == WS!Peer(a)
  IN  /\ WS!Deliver(a, f)
      /\ reader'[p] = reader[p] /\ got' = got /\ sock'[p] = sock[p] /\ foreign' = foreign
      /\ sent'[a] = SentNow(sent[a], open[a], c, l) /\ open'[a] = OpenNow(open[a], c, l)

LEMMA ReceiverWell ==
  ASSUME WsTypes, NEW a \in WS!End, ReadsWell(WS!Peer(a)),
         NEW f \in Seq(Items), NEW c \in Nat, NEW l \in {0, 1}, Sends(a, f, c, l),
         a \in foreign => ~ lost'[a],
         ~ lost'[a] => ~ lost[a] /\ FrameFor(f, Len(sent[a]) + 1, c, l),
         a \notin foreign => OpenNow(open[a], c, l) = 0 /\ PlainItems(f)
  PROVE  ReadsWell(WS!Peer(a))'
<1> DEFINE p == WS!Peer(a)
<1>1. p \in WS!End /\ WS!Peer(p) = a
  BY WsPeers
<1>2. /\ wire[p] \in Seq(Items) /\ reader[p] \in Readers /\ got[p] \in Seq(Seq(Items))
      /\ sent[a] \in Seq(Nat) /\ open[a] \in Nat /\ sock[p] \in BOOLEAN
  BY <1>1, TypesAt
<1>3. wire'[p] = IF sock[p] THEN wire[p] \o f ELSE wire[p]
  BY ArrivalFacts DEF Sends
<1> HIDE DEF p
<1>4. Well(a \in foreign, lost[a], wire[p], reader[p], got[p], sent[a], open[a], sock[p])
  <2>1. ReadsWell(p)
    BY DEF p
  <2> QED
    BY <1>1, <2>1 DEF ReadsWell
<1>5. Well(a \in foreign, lost'[a], wire'[p], reader[p], got[p],
           SentNow(sent[a], open[a], c, l), OpenNow(open[a], c, l), sock[p])
  <2> DEFINE alien == a \in foreign
             bad == lost[a]
             bad2 == lost'[a]
             up == sock[p]
             s2 == SentNow(sent[a], open[a], c, l)
             o2 == OpenNow(open[a], c, l)
             w == wire[p]
             v == wire'[p]
             rd == reader[p]
             gt == got[p]
             s == sent[a]
             o == open[a]
  <2>1. Well(alien, bad, w, rd, gt, s, o, up) /\ up \in BOOLEAN
    BY <1>2, <1>4
  <2>2. MayGo(alien, bad, bad2, o2)
    BY DEF MayGo
  <2>3. MaySend(alien, bad, bad2, f, Len(s) + 1, c, l)
    BY DEF MaySend
  <2>4. Arrives(up, w, f, v) /\ s2 = SentNow(s, o, c, l) /\ o2 = OpenNow(o, c, l)
    BY <1>3 DEF Arrives
  <2>5. w \in Seq(Items) /\ rd \in Readers /\ gt \in Seq(Seq(Items)) /\ s \in Seq(Nat) /\ o \in Nat
    BY <1>2
  <2> HIDE DEF alien, bad, bad2, up, s2, o2, w, v, rd, gt, s, o
  <2>8. Well(alien, bad2, v, rd, gt, s2, o2, up)
    BY <2>1, <2>2, <2>3, <2>4, <2>5, WellSent
  <2> QED
    BY <2>8 DEF alien, bad2, up, s2, o2, v, rd, gt
<1>6. /\ reader'[p] = reader[p] /\ got'[p] = got[p] /\ sock'[p] = sock[p] /\ foreign' = foreign
      /\ sent'[a] = SentNow(sent[a], open[a], c, l) /\ open'[a] = OpenNow(open[a], c, l)
  BY DEF Sends, p
<1>7. ReadsWell(p)'
  BY <1>1, <1>5, <1>6 DEF ReadsWell
<1> QED
  BY <1>7 DEF p

\* An end for which nothing changes, but that its socket may be gone.
Untouched(e) ==
  LET p == WS!Peer(e)
  IN  /\ wire'[e] = wire[e] /\ reader'[e] = reader[e] /\ got'[e] = got[e] /\ foreign' = foreign
      /\ sent'[p] = sent[p] /\ open'[p] = open[p] /\ lost'[p] = lost[p]
      /\ sock'[e] = sock[e] \/ sock'[e] = FALSE

LEMMA UntouchedWell ==
  ASSUME WsTypes, NEW e \in WS!End, ReadsWell(e), Untouched(e)
  PROVE  ReadsWell(e)'
<1> DEFINE p == WS!Peer(e)
<1>1. /\ wire[e] \in Seq(Items) /\ reader[e] \in Readers /\ got[e] \in Seq(Seq(Items))
      /\ sent[p] \in Seq(Nat) /\ open[p] \in Nat /\ Len(sent[p]) \in Nat
  <2>1. p \in WS!End
    BY WsPeers
  <2> QED
    BY <2>1, TypesAt
<1>2. Well(p \in foreign, lost[p], wire[e], reader[e], got[e], sent[p], open[p], sock[e])
  BY DEF ReadsWell
<1>3. /\ wire'[e] = wire[e] /\ reader'[e] = reader[e] /\ got'[e] = got[e] /\ foreign' = foreign
      /\ sent'[p] = sent[p] /\ open'[p] = open[p] /\ lost'[p] = lost[p]
  BY DEF Untouched
<1>4. CASE sock'[e] = sock[e]
  BY <1>2, <1>3, <1>4 DEF ReadsWell
<1>5. CASE sock'[e] = FALSE
  <2>1. /\ p \notin foreign => open[p] = 0
        /\ p \in foreign => ~ lost[p]
    BY <1>2 DEF Well
  <2>2. Well(p \in foreign, lost[p], wire[e], reader[e], got[e], sent[p], open[p], FALSE)
    <3> DEFINE alien == p \in foreign
               bad == lost[p]
               up == sock[e]
               s == sent[p]
               o == open[p]
               w == wire[e]
               rd == reader[e]
               gt == got[e]
    <3>1. Well(alien, bad, w, rd, gt, s, o, up)
      BY <1>2
    <3>2. MayGo(alien, bad, bad, o)
      BY <2>1 DEF MayGo
    <3>3. /\ w \in Seq(Items) /\ rd \in Readers /\ gt \in Seq(Seq(Items)) /\ s \in Seq(Nat) /\ o \in Nat
          /\ Len(s) <= Len(s)
      BY <1>1
    <3> HIDE DEF alien, bad, up, s, o, w, rd, gt
    <3>4. Well(alien, bad, w, rd, gt, s, o, FALSE)
      BY <3>1, <3>2, <3>3, WellDown
    <3> QED
      BY <3>4 DEF alien, bad, s, o, w, rd, gt
  <2> QED
    BY <1>3, <1>5, <2>2 DEF ReadsWell
<1> QED
  BY <1>4, <1>5 DEF Untouched

\* An end whose peer is as it was.
Alone(e) ==
  LET p == WS!Peer(e)
  IN  /\ foreign' = foreign
      /\ sent'[p] = sent[p] /\ open'[p] = open[p] /\ lost'[p] = lost[p]

LEMMA LeftWell ==
  ASSUME WsTypes, NEW e \in WS!End, ReadsWell(e), Leaves(e), Alone(e), got'[e] = got[e],
         wire'[e] = wire[e] \/ (wire[e] # << >> /\ wire'[e] = Tail(wire[e]))
  PROVE  ReadsWell(e)'
<1> DEFINE p == WS!Peer(e)
<1>1. /\ wire[e] \in Seq(Items) /\ reader[e] \in Readers
  BY TypesAt
<1>2. Well(p \in foreign, lost[p], wire[e], reader[e], got[e], sent[p], open[p], sock[e])
  BY DEF ReadsWell
<1>3. reader'[e] \in Readers /\ reader'[e].pc = "done" /\ reader'[e].head = reader[e].head
  BY DEF Leaves
<1>4. wire'[e] \in Seq(Items)
  BY <1>1, TailLess
<1>5. Well(p \in foreign, lost[p], wire'[e], reader'[e], got[e], sent[p], open[p], sock'[e])
  BY <1>1, <1>2, <1>3, <1>4, WellEnd
<1> QED
  BY <1>5 DEF ReadsWell, Alone

LEMMA BothWell ==
  ASSUME NEW e \in WS!End, foreign' = foreign,
         e \notin foreign => ReadsWell(e)' /\ open'[e] = 0,
         WS!Peer(e) \notin foreign => ReadsWell(WS!Peer(e))' /\ open'[WS!Peer(e)] = 0
  PROVE  Wells'
<1> SUFFICES ASSUME NEW d \in WS!End, d \notin foreign
             PROVE  ReadsWell(d)' /\ open'[d] = 0
  BY DEF Wells
<1>1. d = e \/ d = WS!Peer(e)
  BY WsPeers
<1>2. CASE d = e
  BY <1>2
<1>3. CASE d = WS!Peer(e)
  BY <1>3
<1> QED
  BY <1>1, <1>2, <1>3

\* Who sends a frame of its own accord.
LEMMA SenderWell ==
  ASSUME WsTypes, Wells, NEW e \in WS!End,
         NEW f \in Seq(Items), NEW c \in Nat, NEW l \in {0, 1},
         Sends(e, f, c, l), reader' = reader,
         sock'[e] = sock[e] \/ sock'[e] = FALSE,
         sent'[WS!Peer(e)] = sent[WS!Peer(e)], open'[WS!Peer(e)] = open[WS!Peer(e)],
         lost'[WS!Peer(e)] = lost[WS!Peer(e)],
         e \in foreign => ~ lost'[e],
         ~ lost'[e] => ~ lost[e] /\ FrameFor(f, Len(sent[e]) + 1, c, l),
         e \notin foreign => OpenNow(open[e], c, l) = 0 /\ PlainItems(f)
  PROVE  Wells'
<1> DEFINE p == WS!Peer(e)
<1>1. p \in WS!End /\ WS!Peer(p) = e
  BY WsPeers
<1>2. ASSUME p \notin foreign
      PROVE  ReadsWell(p)' /\ open'[p] = 0
  <2>1. ReadsWell(p) /\ open[p] = 0
    BY <1>1, <1>2 DEF Wells
  <2>2. ReadsWell(p)'
    BY <2>1, ReceiverWell
  <2> QED
    BY <2>1, <2>2
<1>3. ASSUME e \notin foreign
      PROVE  ReadsWell(e)' /\ open'[e] = 0
  <2>1. Untouched(e)
    <3>1. wire'[e] = wire[e]
      BY ArrivalFacts DEF Sends
    <3> QED
      BY <3>1 DEF Sends, Untouched
  <2>2. ReadsWell(e)'
    BY <1>3, <2>1, UntouchedWell DEF Wells
  <2>3. open'[e] = 0
    BY <1>3 DEF Sends
  <2> QED
    BY <2>2, <2>3
<1> QED
  BY <1>2, <1>3, BothWell DEF Sends

\* A frame that leaves a message as it is.
LEMMA NoneSent ==
  ASSUME NEW s, NEW o \in Nat
  PROVE  SentNow(s, o, 0, 0) = s /\ OpenNow(o, 0, 0) = o
  BY DEF SentNow, OpenNow

\* The frame of a control, sent by e while nothing else of what it sends changes.
LEMMA ControlWell ==
  ASSUME Small \in Nat, WsTypes, Wells, NEW e \in WS!End, NEW op \in WS!Control,
         NEW s \in Seq(Items), \A k \in 1 .. Len(s) : s[k] = WS!Byte(0, FALSE),
         e \notin foreign => s = << >>,
         WS!Deliver(e, WS!Frame(op, TRUE, s, FALSE)),
         reader' = reader, got' = got, foreign' = foreign, sent' = sent, open' = open, lost' = lost,
         sock'[WS!Peer(e)] = sock[WS!Peer(e)], sock'[e] = sock[e] \/ sock'[e] = FALSE
  PROVE  Wells'
<1> DEFINE f == WS!Frame(op, TRUE, s, FALSE)
           n == Len(sent[e]) + 1
<1>1. n \in Nat \ {0} /\ open[e] \in Nat
  BY TypesAt
<1>2. FrameFor(f, n, 0, 0) /\ f \in Seq(Items) /\ (s = << >> => PlainItems(f))
  BY <1>1, ControlFrame
<1>3. SentNow(sent[e], open[e], 0, 0) = sent[e] /\ OpenNow(open[e], 0, 0) = open[e]
  BY <1>1, NoneSent
<1>4. Sends(e, f, 0, 0)
  BY <1>3 DEF Sends
<1>5. e \in foreign => ~ lost[e]
  <2> SUFFICES ASSUME e \in foreign PROVE ~ lost[e]
    OBVIOUS
  <2>1. WS!Peer(e) \in WS!End /\ WS!Peer(e) \notin foreign /\ WS!Peer(WS!Peer(e)) = e
    BY TypesAt
  <2>2. ReadsWell(WS!Peer(e))
    BY <2>1 DEF Wells
  <2> QED
    BY <2>1, <2>2 DEF ReadsWell, Well
<1>6. e \notin foreign => open[e] = 0
  BY DEF Wells
<1> HIDE DEF f
<1>7. /\ e \in foreign => ~ lost'[e]
      /\ ~ lost'[e] => ~ lost[e] /\ FrameFor(f, Len(sent[e]) + 1, 0, 0)
      /\ e \notin foreign => OpenNow(open[e], 0, 0) = 0 /\ PlainItems(f)
      /\ sent'[WS!Peer(e)] = sent[WS!Peer(e)] /\ open'[WS!Peer(e)] = open[WS!Peer(e)]
      /\ lost'[WS!Peer(e)] = lost[WS!Peer(e)]
  BY <1>2, <1>3, <1>5, <1>6
<1> QED
  BY <1>2, <1>4, <1>7, SenderWell

LEMMA EmptyPayload ==
  << >> \in Seq(Items) /\ \A k \in 1 .. Len(<< >>) : << >>[k] = WS!Byte(0, FALSE)
  OBVIOUS

LEMMA AlienBad ==
  ASSUME WsTypes, Wells, NEW e \in WS!End, e \in foreign
  PROVE  lost[e] = FALSE
<1>1. WS!Peer(e) \in WS!End /\ WS!Peer(e) \notin foreign /\ WS!Peer(WS!Peer(e)) = e /\ lost[e] \in BOOLEAN
  BY TypesAt
<1>2. ReadsWell(WS!Peer(e))
  BY <1>1 DEF Wells
<1>3. ~ lost[e]
  BY <1>1, <1>2 DEF ReadsWell, Well
<1> QED
  BY <1>1, <1>3

LEMMA WriteWell ==
  ASSUME Small \in Nat, WsTypes, Wells, NEW e \in WS!End, WS!Write(e)
  PROVE  Wells'
<1> DEFINE n == Len(sent[e]) + 1
           p == WS!Peer(e)
<1>1. PICK len \in 1 .. Small, masked \in BOOLEAN :
        /\ WS!HasId(e)
        /\ sent' = [sent EXCEPT ![e] = Append(@, len)]
        /\ lost' = [lost EXCEPT ![e] = @ \/ (masked /\ len >= Small)]
        /\ WS!Deliver(e, WS!Frame("TEXT", TRUE, WS!Bytes(Len(sent[e]) + 1, FALSE, len), masked))
        /\ foreign' = foreign /\ sock' = sock /\ reader' = reader /\ open' = open /\ got' = got
  BY DEF WS!Write
<1> DEFINE f == WS!Frame("TEXT", TRUE, WS!Bytes(n, FALSE, len), masked)
<1>2. n \in Nat \ {0} /\ len \in Nat /\ e \notin foreign /\ p \in WS!End /\ p # e
  BY <1>1, TypesAt DEF WS!HasId
<1>3. open[e] = 0
  BY <1>2 DEF Wells
<1>4. f \in Seq(Items) /\ PlainItems(f) /\ ((masked => len < Small) => FrameFor(f, n, len, 1))
  <2>1. TRUE \in BOOLEAN /\ "TEXT" \in {"TEXT", "FRAME"} /\ (IF TRUE THEN 1 ELSE 0) = 1
    OBVIOUS
  <2> QED
    BY <1>2, <2>1, DataFrameFor
<1>5. lost'[p] = lost[p] /\ (~ lost'[e] => ~ lost[e] /\ ~ (masked /\ len >= Small))
  <2>1. lost \in [WS!End -> BOOLEAN]
    BY DEF WsTypes
  <2> QED
    BY <1>1, <1>2, <2>1
<1>6. SentNow(sent[e], open[e], len, 1) = Append(sent[e], len) /\ OpenNow(open[e], len, 1) = 0
  <2>1. open[e] + len = len
    BY <1>2, <1>3
  <2> QED
    BY <2>1 DEF SentNow, OpenNow
<1>7. sent'[e] = Append(sent[e], len) /\ sent'[p] = sent[p]
  <2>1. sent \in [WS!End -> Seq(Nat)]
    BY DEF WsTypes
  <2> QED
    BY <1>1, <1>2, <2>1
<1>8. Sends(e, f, len, 1)
  BY <1>1, <1>3, <1>6, <1>7 DEF Sends
<1> HIDE DEF f
<1>9. ~ lost'[e] => ~ lost[e] /\ FrameFor(f, Len(sent[e]) + 1, len, 1)
  <2>1. ~ (masked /\ len >= Small) => (masked => len < Small)
    BY <1>2
  <2> QED
    BY <1>4, <1>5, <2>1
<1>10. OpenNow(open[e], len, 1) = 0 /\ PlainItems(f)
  BY <1>4, <1>6
<1> QED
  BY <1>1, <1>2, <1>4, <1>5, <1>7, <1>8, <1>9, <1>10, SenderWell

LEMMA PingWell ==
  ASSUME Small \in Nat, WsTypes, Wells, NEW e \in WS!End, WS!Ping(e)
  PROVE  Wells'
<1>1. /\ WS!Deliver(e, WS!Frame("PING", TRUE, << >>, FALSE))
      /\ reader' = reader /\ got' = got /\ foreign' = foreign /\ sent' = sent /\ open' = open
      /\ lost' = lost /\ sock' = sock
  BY DEF WS!Ping
<1>2. "PING" \in WS!Control
  BY DEF WS!Control
<1> QED
  BY <1>1, <1>2, EmptyPayload, ControlWell

\* Nothing is sent; e may lose its socket.
LEMMA QuietWell ==
  ASSUME WsTypes, Wells, NEW e \in WS!End,
         wire' = wire, reader' = reader, got' = got, foreign' = foreign, sent' = sent, open' = open,
         lost' = lost, sock'[WS!Peer(e)] = sock[WS!Peer(e)], sock'[e] = sock[e] \/ sock'[e] = FALSE
  PROVE  Wells'
<1>1. WS!Peer(e) \in WS!End
  BY WsPeers
<1>2. Untouched(e) /\ Untouched(WS!Peer(e))
  BY DEF Untouched
<1>3. e \notin foreign => ReadsWell(e)' /\ open'[e] = 0
  BY <1>2, UntouchedWell DEF Wells
<1>4. WS!Peer(e) \notin foreign => ReadsWell(WS!Peer(e))' /\ open'[WS!Peer(e)] = 0
  BY <1>1, <1>2, UntouchedWell DEF Wells
<1> QED
  BY <1>3, <1>4, BothWell

LEMMA CloseWell ==
  ASSUME Small \in Nat, WsTypes, Wells, NEW e \in WS!End, WS!Close(e)
  PROVE  Wells'
<1>1. /\ reader' = reader /\ got' = got /\ foreign' = foreign /\ sent' = sent /\ open' = open
      /\ lost' = lost /\ WS!CloseWebsocket(e)
  BY DEF WS!Close
<1>2. sock'[WS!Peer(e)] = sock[WS!Peer(e)] /\ sock'[e] = FALSE
  BY <1>1, CloseFacts
<1>3. CASE sock[e] = TRUE
  <2>1. WS!Deliver(e, WS!Frame("CLOSE", TRUE, << >>, FALSE))
    BY <1>3 DEF WS!Close
  <2>2. "CLOSE" \in WS!Control
    BY DEF WS!Control
  <2> QED
    BY <1>1, <1>2, <2>1, <2>2, EmptyPayload, ControlWell
<1>4. CASE sock[e] = FALSE
  <2>1. wire' = wire
    BY <1>4 DEF WS!Close
  <2> QED
    BY <1>1, <1>2, <2>1, QuietWell
<1> QED
  BY <1>3, <1>4, TypesAt

LEMMA ForeignDataWell ==
  ASSUME Small \in Nat, WsTypes, Wells, NEW e \in WS!End, WS!ForeignData(e)
  PROVE  Wells'
<1> DEFINE n == Len(sent[e]) + 1
           p == WS!Peer(e)
           op == IF open[e] = 0 THEN "TEXT" ELSE "FRAME"
<1>1. PICK fin \in BOOLEAN, len \in 1 .. 2 :
        /\ e \in foreign
        /\ WS!Deliver(e, WS!Frame(op, fin, WS!Bytes(n, FALSE, len), FALSE))
        /\ IF fin
           THEN /\ sent' = [sent EXCEPT ![e] = Append(@, open[e] + len)]
                /\ open' = [open EXCEPT ![e] = 0]
           ELSE /\ open' = [open EXCEPT ![e] = @ + len]
                /\ sent' = sent
        /\ foreign' = foreign /\ sock' = sock /\ reader' = reader /\ lost' = lost /\ got' = got
  BY DEF WS!ForeignData, WS!Speaks
<1> DEFINE f == WS!Frame(op, fin, WS!Bytes(n, FALSE, len), FALSE)
           l == IF fin THEN 1 ELSE 0
<1>2. n \in Nat \ {0} /\ len \in Nat /\ e \in foreign /\ p \in WS!End /\ p # e /\ open[e] \in Nat
  BY <1>1, TypesAt
<1>3. op \in {"TEXT", "FRAME"} /\ FALSE \in BOOLEAN /\ l \in {0, 1}
  OBVIOUS
<1> HIDE DEF op
<1>4. f \in Seq(Items) /\ FrameFor(f, n, len, l)
  BY <1>2, <1>3, DataFrameFor
<1>5. sent \in [WS!End -> Seq(Nat)] /\ open \in [WS!End -> Nat]
  BY DEF WsTypes
<1>6. /\ sent'[e] = SentNow(sent[e], open[e], len, l) /\ open'[e] = OpenNow(open[e], len, l)
      /\ sent'[p] = sent[p] /\ open'[p] = open[p]
  <2>1. CASE fin = TRUE
    <3>1. /\ sent' = [sent EXCEPT ![e] = Append(@, open[e] + len)]
          /\ open' = [open EXCEPT ![e] = 0] /\ l = 1
      BY <1>1, <2>1
    <3> HIDE DEF l
    <3>2. sent'[e] = Append(sent[e], open[e] + len) /\ open'[e] = 0 /\ sent'[p] = sent[p] /\ open'[p] = open[p]
      BY <1>2, <1>5, <3>1
    <3> QED
      BY <3>1, <3>2 DEF SentNow, OpenNow
  <2>2. CASE fin = FALSE
    <3>1. open' = [open EXCEPT ![e] = @ + len] /\ sent' = sent /\ l = 0
      BY <1>1, <2>2
    <3> HIDE DEF l
    <3>2. open'[e] = open[e] + len /\ open'[p] = open[p]
      BY <1>2, <1>5, <3>1
    <3> QED
      BY <3>1, <3>2 DEF SentNow, OpenNow
  <2> QED
    BY <2>1, <2>2
<1>7. Sends(e, f, len, l)
  BY <1>1, <1>6 DEF Sends
<1>8. lost'[e] = FALSE /\ lost[e] = FALSE
  BY <1>1, <1>2, AlienBad
<1> HIDE DEF f, l
<1> QED
  BY <1>1, <1>2, <1>3, <1>4, <1>6, <1>7, <1>8, SenderWell

LEMMA ForeignControlWell ==
  ASSUME Small \in Nat, WsTypes, Wells, NEW e \in WS!End, WS!ForeignControl(e)
  PROVE  Wells'
<1>1. PICK op \in WS!Control, len \in 0 .. 1 :
        /\ e \in foreign
        /\ WS!Deliver(e, WS!Frame(op, TRUE, WS!Bytes(0, FALSE, len), FALSE))
        /\ reader' = reader /\ got' = got /\ foreign' = foreign /\ sent' = sent /\ open' = open
        /\ lost' = lost /\ sock' = sock
  BY DEF WS!ForeignControl, WS!Speaks
<1> DEFINE s == WS!Bytes(0, FALSE, len)
<1>2. s \in Seq(Items) /\ \A k \in 1 .. Len(s) : s[k] = WS!Byte(0, FALSE)
  <2>1. 0 \in Nat /\ len \in Nat
    OBVIOUS
  <2> QED
    BY <2>1, BytesFacts
<1>3. WS!Deliver(e, WS!Frame(op, TRUE, s, FALSE))
  BY <1>1
<1> HIDE DEF s
<1> QED
  BY <1>1, <1>2, <1>3, ControlWell

LEMMA ForeignGoneWell ==
  ASSUME WsTypes, Wells, NEW e \in WS!End, WS!ForeignGone(e)
  PROVE  Wells'
<1>1. /\ wire' = wire /\ reader' = reader /\ got' = got /\ foreign' = foreign /\ sent' = sent
      /\ open' = open /\ lost' = lost /\ sock' = [sock EXCEPT ![e] = FALSE]
  BY DEF WS!ForeignGone
<1>2. sock'[WS!Peer(e)] = sock[WS!Peer(e)] /\ sock'[e] = FALSE
  BY <1>1, WsPeers DEF WsTypes
<1> QED
  BY <1>1, <1>2, QuietWell

\* What a step at e leaves alone: all that the other end reads, and has sent.
Apart(e) ==
  LET p == WS!Peer(e)
  IN  /\ foreign' = foreign /\ sent' = sent /\ open' = open /\ lost' = lost
      /\ reader'[p] = reader[p] /\ got'[p] = got[p] /\ sock'[p] = sock[p]

\* A step of the reader at e.
LEMMA ReaderStep ==
  ASSUME WsTypes, Wells, NEW e \in WS!End, Apart(e), wire'[WS!Peer(e)] = wire[WS!Peer(e)],
         e \notin foreign => ReadsWell(e)'
  PROVE  Wells'
<1> DEFINE p == WS!Peer(e)
<1>1. p \in WS!End /\ WS!Peer(p) = e
  BY WsPeers
<1>2. Untouched(p)
  BY <1>1 DEF Untouched, Apart
<1>3. ASSUME p \notin foreign
      PROVE  ReadsWell(p)' /\ open'[p] = 0
  <2>1. ReadsWell(p) /\ open[p] = 0
    BY <1>1, <1>3 DEF Wells
  <2> QED
    BY <1>1, <1>2, <2>1, UntouchedWell DEF Apart
<1>4. e \notin foreign => open'[e] = 0
  BY DEF Wells, Apart
<1> QED
  BY <1>3, <1>4, BothWell DEF Apart

\* The reader at e ends.
LEMMA LeaveStep ==
  ASSUME WsTypes, Wells, NEW e \in WS!End, Leaves(e), got' = got,
         foreign' = foreign, sent' = sent, open' = open, lost' = lost,
         wire'[WS!Peer(e)] = wire[WS!Peer(e)],
         wire'[e] = wire[e] \/ (wire[e] # << >> /\ wire'[e] = Tail(wire[e]))
  PROVE  Wells'
<1>1. Apart(e) /\ Alone(e)
  BY DEF Leaves, Apart, Alone
<1>2. e \notin foreign => ReadsWell(e)'
  BY <1>1, LeftWell DEF Wells
<1> QED
  BY <1>1, <1>2, ReaderStep

\* It answers with the frame of a control.
LEMMA ReplyStep ==
  ASSUME Small \in Nat, WsTypes, Wells, NEW e \in WS!End, e \notin foreign, Apart(e), got' = got,
         NEW op \in WS!Control, NEW s \in Seq(Items),
         WS!Peer(e) \notin foreign => s = << >>,
         WS!Deliver(e, WS!Frame(op, TRUE, s, FALSE)),
         ReadsWell(e)'
  PROVE  Wells'
<1> DEFINE p == WS!Peer(e)
           n == Len(sent[e]) + 1
           f == WS!Frame(op, TRUE, << >>, FALSE)
<1>1. p \in WS!End /\ WS!Peer(p) = e /\ n \in Nat \ {0} /\ open[e] = 0
  BY TypesAt DEF Wells
<1>2. ASSUME p \notin foreign
      PROVE  ReadsWell(p)' /\ open'[p] = 0
  <2>1. WS!Deliver(e, f)
    BY <1>2
  <2>2. FrameFor(f, n, 0, 0) /\ f \in Seq(Items) /\ PlainItems(f)
    BY <1>1, EmptyPayload, ControlFrame
  <2>3. SentNow(sent[e], open[e], 0, 0) = sent[e] /\ OpenNow(open[e], 0, 0) = open[e]
    BY <1>1, NoneSent
  <2>4. Sends(e, f, 0, 0)
    BY <2>1, <2>3 DEF Sends, Apart
  <2>5. ReadsWell(p) /\ open[p] = 0
    BY <1>1, <1>2 DEF Wells
  <2> HIDE DEF f
  <2>6. /\ e \in foreign => ~ lost'[e]
        /\ ~ lost'[e] => ~ lost[e] /\ FrameFor(f, Len(sent[e]) + 1, 0, 0)
        /\ e \notin foreign => OpenNow(open[e], 0, 0) = 0 /\ PlainItems(f)
    BY <1>1, <2>2, <2>3 DEF Apart
  <2>7. ReadsWell(p)'
    BY <2>2, <2>4, <2>5, <2>6, ReceiverWell
  <2> QED
    BY <2>5, <2>7 DEF Apart
<1>3. open'[e] = 0
  BY <1>1 DEF Apart
<1> QED
  BY <1>2, <1>3, BothWell DEF Apart

\* Reading on, with other items or a reader that has gone on, or one message more.
LEMMA OwnWell ==
  ASSUME NEW e \in WS!End, Apart(e), sock'[e] = sock[e],
         LET p == WS!Peer(e)
         IN  Well(p \in foreign, lost[p], wire'[e], reader'[e], got'[e], sent[p], open[p], sock[e])
  PROVE  ReadsWell(e)'
  BY DEF ReadsWell, Apart

\* The steps of the reader at e start there.
LEMMA NotForeign ==
  ASSUME WsTypes, Wells, NEW e \in WS!End, reader[e].pc # "off"
  PROVE  /\ e \notin foreign
         /\ LET p == WS!Peer(e)
            IN  Well(p \in foreign, lost[p], wire[e], reader[e], got[e], sent[p], open[p], sock[e])
<1>1. e \notin foreign
  BY DEF WsTypes
<1> QED
  BY <1>1 DEF Wells, ReadsWell

\* The client loses what the server wrote: v is what is left of it.
Drops(v) ==
  /\ "server" \notin foreign /\ v \in Seq(Items)
  /\ \A i \in 1 .. Len(v) : \E j \in 1 .. Len(wire["client"]) : v[i] = wire["client"][j]
  /\ wire' = [wire EXCEPT !["client"] = v]
  /\ lost' = [lost EXCEPT !["server"] = TRUE]

LEMMA DropsFacts ==
  ASSUME WsTypes, NEW v, Drops(v)
  PROVE  /\ wire' \in [WS!End -> Seq(Items)] /\ lost' \in [WS!End -> BOOLEAN]
         /\ wire'["client"] = v /\ wire'["server"] = wire["server"]
         /\ lost'["server"] = TRUE /\ lost'["client"] = lost["client"]
<1>1. "server" \in WS!End /\ "client" \in WS!End
  BY DEF WS!End
<1>2. wire \in [WS!End -> Seq(Items)] /\ lost \in [WS!End -> BOOLEAN] /\ v \in Seq(Items)
  BY DEF WsTypes, Drops
<1> QED
  BY <1>1, <1>2 DEF Drops

LEMMA WellDrops ==
  ASSUME NEW w, NEW v, NEW rd, NEW gt, NEW s, NEW o, NEW alien, ~ alien, NEW bad, NEW up, NEW bad2, bad2,
         Well(alien, bad, w, rd, gt, s, o, up),
         \A i \in 1 .. Len(v) : \E j \in 1 .. Len(w) : v[i] = w[j]
  PROVE  Well(alien, bad2, v, rd, gt, s, o, up)
<1>1. o = 0 /\ Plain(w, rd)
  BY DEF Well
<1>2. rd.head.op \in WS!Control => rd.head.len = 0
  BY <1>1 DEF Plain
<1>3. Plain(v, rd)
  BY <1>1, <1>2, PlainLess
<1> QED
  BY <1>1, <1>3 DEF Well

\* An end goes on in the handshake.
LEMMA ShakesWell ==
  ASSUME WsTypes, Wells, NEW e \in WS!End, e \notin foreign,
         foreign' = foreign, sent' = sent, open' = open, got' = got, sock' = sock,
         (wire' = wire /\ lost' = lost) \/ (\E v : Drops(v)),
         LET p == WS!Peer(e)
         IN  Well(p \in foreign, lost[p], wire[e], reader'[e], got[e], sent[p], open[p], sock[e])
  PROVE  ReadsWell(e)'
<1> DEFINE p == WS!Peer(e)
<1>1. (e = "client" /\ p = "server") \/ (e = "server" /\ p = "client")
  BY DEF WS!End, WS!Peer
<1>2. CASE wire' = wire /\ lost' = lost
  BY <1>2 DEF ReadsWell
<1>3. ASSUME NEW v, Drops(v)
      PROVE  ReadsWell(e)'
  <2>1. /\ wire'["client"] = v /\ wire'["server"] = wire["server"]
        /\ lost'["server"] = TRUE /\ lost'["client"] = lost["client"]
    BY <1>3, DropsFacts
  <2>2. CASE e = "server"
    BY <1>1, <2>1, <2>2 DEF ReadsWell
  <2>3. CASE e = "client"
    <3>1. p \notin foreign /\ lost'[p]
      BY <1>1, <1>3, <2>1, <2>3 DEF Drops
    <3>2. \A i \in 1 .. Len(v) : \E j \in 1 .. Len(wire[e]) : v[i] = wire[e][j]
      BY <1>3, <2>3 DEF Drops
    <3>3. Well(p \in foreign, lost'[p], v, reader'[e], got[e], sent[p], open[p], sock[e])
      BY <3>1, <3>2, WellDrops
    <3> QED
      BY <1>1, <2>1, <2>3, <3>3 DEF ReadsWell
  <2> QED
    BY <1>1, <2>2, <2>3
<1> QED
  BY <1>2, <1>3

LEMMA HandshakeFacts ==
  ASSUME WsTypes, WS!HandshakeOk
  PROVE  /\ (wire' = wire /\ lost' = lost) \/ (\E v : Drops(v))
         /\ wire' \in [WS!End -> Seq(Items)] /\ lost' \in [WS!End -> BOOLEAN]
<1>1. CASE wire' = wire /\ lost' = lost
  BY <1>1 DEF WsTypes
<1>2. CASE ~ (wire' = wire /\ lost' = lost)
  <2>1. Drops(<< >>)
    BY <1>2 DEF WS!HandshakeOk, Drops
  <2> QED
    BY <2>1, DropsFacts
<1> QED
  BY <1>1, <1>2

LEMMA HandshakeWell ==
  ASSUME WsTypes, Wells, WS!HandshakeOk
  PROVE  Wells'
<1>1. /\ \A e \in WS!End : e \notin foreign => reader[e].pc = "handshake"
      /\ reader' = [e \in WS!End |-> IF e \in foreign THEN reader[e]
                     ELSE [reader[e] EXCEPT !.pc = IF e = "server" THEN "loop" ELSE "answered"]]
      /\ got' = got /\ foreign' = foreign /\ sent' = sent /\ open' = open /\ sock' = sock
  BY DEF WS!HandshakeOk
<1> SUFFICES ASSUME NEW e \in WS!End, e \notin foreign
             PROVE  ReadsWell(e)' /\ open'[e] = 0
  BY <1>1 DEF Wells
<1> DEFINE q == IF e = "server" THEN "loop" ELSE "answered"
           r2 == [reader[e] EXCEPT !.pc = q]
           p == WS!Peer(e)
<1>2. reader'[e] = r2 /\ reader[e].pc = "handshake"
  BY <1>1
<1>3. reader[e] \in Readers /\ wire[e] \in Seq(Items) /\ got[e] \in Seq(Seq(Items))
  BY TypesAt
<1>4. q \in Quiet /\ q \in Pcs /\ reader[e].pc \in Quiet
  BY <1>2 DEF Quiet, Pcs, Live
<1> HIDE DEF q
<1>5. /\ r2 \in Readers /\ r2.pc = q /\ r2.count = reader[e].count
      /\ r2.buffer = reader[e].buffer /\ r2.head = reader[e].head
  BY <1>3, <1>4 DEF Readers
<1> HIDE DEF r2
<1>6. Well(p \in foreign, lost[p], wire[e], reader[e], got[e], sent[p], open[p], sock[e])
  BY DEF Wells, ReadsWell
<1>7. Well(p \in foreign, lost[p], wire[e], r2, got[e], sent[p], open[p], sock[e])
  BY <1>2, <1>3, <1>4, <1>5, <1>6, WellQuiet
<1>8. ReadsWell(e)'
  BY <1>1, <1>2, <1>7, HandshakeFacts, ShakesWell
<1> QED
  BY <1>1, <1>8 DEF Wells

LEMMA ConnectedFacts ==
  ASSUME WsTypes, WS!Connected
  PROVE  /\ (wire' = wire /\ lost' = lost) \/ (\E v : Drops(v))
         /\ wire' \in [WS!End -> Seq(Items)] /\ lost' \in [WS!End -> BOOLEAN]
<1>1. CASE wire' = wire /\ lost' = lost
  BY <1>1 DEF WsTypes
<1>2. CASE ~ (wire' = wire /\ lost' = lost)
  <2> DEFINE w == wire["client"]
  <2>1. PICK n \in 1 .. Len(w) :
          /\ "server" \notin foreign
          /\ wire' = [wire EXCEPT !["client"] = SubSeq(@, n + 1, Len(@))]
          /\ lost' = [lost EXCEPT !["server"] = TRUE]
    BY <1>2 DEF WS!Connected
  <2>2. w \in Seq(Items)
    BY DEF WsTypes, WS!End
  <2> DEFINE v == SubSeq(w, n + 1, Len(w))
  <2>3. wire' = [wire EXCEPT !["client"] = v]
    BY <2>1
  <2>4. v \in Seq(Items) /\ Len(v) = Len(w) - n /\ \A i \in 1 .. Len(v) : v[i] = w[n + i]
    BY <2>2
  <2> HIDE DEF v
  <2>5. \A i \in 1 .. Len(v) : \E j \in 1 .. Len(w) : v[i] = w[j]
    <3> SUFFICES ASSUME NEW i \in 1 .. Len(v) PROVE \E j \in 1 .. Len(w) : v[i] = w[j]
      OBVIOUS
    <3>1. n + i \in 1 .. Len(w) /\ v[i] = w[n + i]
      BY <2>2, <2>4
    <3> QED
      BY <3>1
  <2>6. Drops(v)
    BY <2>1, <2>3, <2>4, <2>5 DEF Drops
  <2> QED
    BY <2>6, DropsFacts
<1> QED
  BY <1>1, <1>2

\* Of the reader, only where it is changes.
LEMMA ConnectedReader ==
  ASSUME WsTypes, WS!Connected
  PROVE  /\ reader["client"].pc = "answered" /\ "client" \notin foreign
         /\ reader' \in [WS!End -> Readers] /\ reader'["server"] = reader["server"]
         /\ reader'["client"].pc = "idle" /\ reader'["client"].head = reader["client"].head
         /\ reader'["client"].count = reader["client"].count
         /\ reader'["client"].buffer = reader["client"].buffer
<1>1. "client" \in WS!End /\ WS!Peer("client") = "server"
  BY DEF WS!End, WS!Peer
<1>2. reader["client"].pc = "answered" /\ WS!Pc("client", "idle") /\ "idle" \in Pcs
  BY DEF WS!Connected, Pcs, Live
<1>3. "client" \notin foreign
  BY <1>1, <1>2 DEF WsTypes
<1> QED
  BY <1>1, <1>2, <1>3, PcFacts

LEMMA ConnectedWell ==
  ASSUME WsTypes, Wells, WS!Connected
  PROVE  Wells'
<1>1. got' = got /\ foreign' = foreign /\ sent' = sent /\ open' = open /\ sock' = sock
  BY DEF WS!Connected
<1> SUFFICES ASSUME NEW e \in WS!End, e \notin foreign
             PROVE  ReadsWell(e)' /\ open'[e] = 0
  BY <1>1 DEF Wells
<1> DEFINE p == WS!Peer(e)
<1>2. Well(p \in foreign, lost[p], wire[e], reader[e], got[e], sent[p], open[p], sock[e])
  BY DEF Wells, ReadsWell
<1>3. reader[e] \in Readers /\ wire[e] \in Seq(Items) /\ got[e] \in Seq(Seq(Items))
  BY TypesAt
<1>4. Well(p \in foreign, lost[p], wire[e], reader'[e], got[e], sent[p], open[p], sock[e])
  <2>1. CASE e = "server"
    BY <1>2, <2>1, ConnectedReader
  <2>2. CASE e = "client"
    <3>1. reader'[e] \in Readers /\ reader'[e].pc \in Quiet /\ reader[e].pc \in Quiet
          /\ reader[e].pc = "answered"
      BY <2>2, ConnectedReader DEF Quiet
    <3>2. /\ reader'[e].head = reader[e].head /\ reader'[e].count = reader[e].count
          /\ reader'[e].buffer = reader[e].buffer
      BY <2>2, ConnectedReader
    <3> QED
      BY <1>2, <1>3, <3>1, <3>2, WellQuiet
  <2> QED
    BY <2>1, <2>2 DEF WS!End
<1>5. ReadsWell(e)'
  BY <1>1, <1>4, ConnectedFacts, ShakesWell
<1> QED
  BY <1>1, <1>5 DEF Wells

LEMMA RefusedWell ==
  ASSUME WsTypes, Wells, WS!ServerRefuses \/ WS!ClientRefused
  PROVE  Wells'
<1>1. /\ wire' = wire /\ got' = got /\ foreign' = foreign /\ sent' = sent /\ open' = open
      /\ lost' = lost
  BY DEF WS!ServerRefuses, WS!ClientRefused
<1>2. "server" \in WS!End /\ "client" \in WS!End
  BY DEF WS!End
<1>3. CASE WS!ServerRefuses
  <2>1. WS!Accepted("none", 1) \/ WS!Accepted("assertion", 0) \/ WS!Accepted("SOCKET_ERROR", 0)
    BY <1>3 DEF WS!ServerRefuses
  <2>2. Leaves("server")
    BY <2>1, AcceptedFacts
  <2> QED
    BY <1>1, <1>2, <2>2, LeaveStep
<1>4. CASE WS!ClientRefused
  <2>1. WS!Rejected("client", "refused") /\ "refused" \in Results
    BY <1>4 DEF WS!ClientRefused, Results
  <2>2. Leaves("client")
    BY <1>2, <2>1, RejectedFacts
  <2> QED
    BY <1>1, <1>2, <2>2, LeaveStep
<1> QED
  BY <1>3, <1>4

-----------------------------------------------------------------------------
\* The types, after a step of the reader at e.
LEMMA ReaderTypes ==
  ASSUME WsTypes, Filled, NEW e \in WS!End, reader[e].pc # "off", reader'[e].pc # "off",
         reader' \in [WS!End -> Readers], reader'[WS!Peer(e)] = reader[WS!Peer(e)],
         Fill(reader'[e]) <= Len(reader'[e].buffer),
         foreign' = foreign, lost' = lost, sent' = sent, open' = open,
         wire' \in [WS!End -> Seq(Items)], got' \in [WS!End -> Seq(Seq(Items))],
         sock' \in [WS!End -> BOOLEAN], is_close' \in [WS!End -> BOOLEAN],
         pongs' \in Seq([payload : Seq(Items), count : Nat]),
         closes' \in Nat, result' \in [WS!End -> Results]
  PROVE  WsTypes' /\ Filled'
<1>1. \A d \in WS!End : d # e => d = WS!Peer(e)
  BY WsPeers
<1>2. \A d \in WS!End : d \in foreign' <=> reader'[d].pc = "off"
  BY <1>1 DEF WsTypes
<1>3. Filled'
  BY <1>1 DEF Filled
<1>4. foreign \in {{}, {"client"}, {"server"}} /\ lost \in [WS!End -> BOOLEAN]
  BY DEF WsTypes
<1>5. sent \in [WS!End -> Seq(Nat)] /\ open \in [WS!End -> Nat]
  BY DEF WsTypes
<1> QED
  BY <1>2, <1>3, <1>4, <1>5 DEF WsTypes

\* The types, after a step of which the readers see nothing.
LEMMA SenderTypes ==
  ASSUME WsTypes, Filled, foreign' = foreign, reader' = reader, got' = got, pongs' = pongs,
         closes' = closes, result' = result,
         wire' \in [WS!End -> Seq(Items)], sock' \in [WS!End -> BOOLEAN],
         is_close' \in [WS!End -> BOOLEAN], lost' \in [WS!End -> BOOLEAN],
         sent' \in [WS!End -> Seq(Nat)], open' \in [WS!End -> Nat]
  PROVE  WsTypes' /\ Filled'
<1>1. Filled'
  BY DEF Filled
<1> QED
  BY <1>1 DEF WsTypes

\* Nobody is told of the end.
LEMMA EndStays ==
  ASSUME WsTypes, EndTold, closes' = closes, result'["server"] = result["server"],
         reader'["server"].pc = "done" <=> reader["server"].pc = "done",
         \A d \in WS!End : is_close'[d] => ~ sock'[d],
         is_close["server"] => is_close'["server"]
  PROVE  EndTold'
  BY DEF EndTold

LEMMA EndAccepted ==
  ASSUME WsTypes, EndTold, reader["server"].pc # "done", NEW err, NEW n \in {0, 1},
         WS!Accepted(err, n), n = 1 <=> err = "none"
  PROVE  EndTold'
<1>1. /\ Leaves("server")
      /\ is_close'["client"] = is_close["client"] /\ is_close'["server"] = TRUE
      /\ sock'["server"] = FALSE \/ (sock'["server"] = sock["server"] /\ is_close["server"])
      /\ closes' = closes + n + (IF err = "SOCKET_ERROR" THEN 1 ELSE 0)
      /\ result'["server"] = IF err \in {"none", "SOCKET_ERROR"} THEN "true" ELSE "false"
  BY AcceptedFacts
<1>2. /\ "server" \in WS!End /\ "client" \in WS!End /\ WS!Peer("server") = "client"
      /\ \A d \in WS!End : d = "server" \/ d = "client"
  BY DEF WS!End, WS!Peer
<1>3. sock'["client"] = sock["client"] /\ reader'["server"].pc = "done"
  BY <1>1, <1>2 DEF Leaves
<1>4. result["server"] = "none" /\ closes = 0
  BY DEF EndTold
<1>5. closes' = IF result'["server"] = "true" THEN 1 ELSE 0
  BY <1>1, <1>4
<1>6. is_close["server"] => ~ sock["server"]
  BY <1>2 DEF EndTold
<1>7. is_close["client"] => ~ sock["client"]
  BY <1>2 DEF EndTold
<1>8. ~ sock'["server"]
  BY <1>1, <1>6
<1>9. \A d \in WS!End : is_close'[d] => ~ sock'[d]
  BY <1>1, <1>2, <1>3, <1>7, <1>8, Zenon
<1>10. result'["server"] # "none" /\ is_close'["server"]
  BY <1>1
<1> QED
  BY <1>3, <1>5, <1>9, <1>10 DEF EndTold

LEMMA EndRejected ==
  ASSUME WsTypes, EndTold, NEW err \in Results, WS!Rejected("client", err)
  PROVE  EndTold'
<1>1. "client" \in WS!End /\ WS!Peer("client") = "server"
  BY DEF WS!End, WS!Peer
<1>2. Leaves("client") /\ sock' = sock /\ is_close' = is_close /\ closes' = closes
      /\ result'["server"] = result["server"]
  BY <1>1, RejectedFacts
<1>3. reader'["server"] = reader["server"]
  BY <1>1, <1>2 DEF Leaves
<1>4. \A d \in WS!End : is_close'[d] => ~ sock'[d]
  BY <1>2 DEF EndTold
<1> QED
  BY <1>2, <1>3, <1>4, EndStays

\* The reader at e ends.
LEMMA LeaveInv ==
  ASSUME WsInv, NEW e \in WS!End, reader[e].pc # "off", Leaves(e), EndTold',
         foreign' = foreign, lost' = lost, sent' = sent, open' = open, got' = got, pongs' = pongs,
         wire' \in [WS!End -> Seq(Items)], wire'[WS!Peer(e)] = wire[WS!Peer(e)],
         wire'[e] = wire[e] \/ (wire[e] # << >> /\ wire'[e] = Tail(wire[e]))
  PROVE  WsInv'
<1>1. WsTypes /\ Filled /\ Wells /\ WS!PongEchoes
  BY DEF WsInv
<1>2. Wells'
  BY <1>1, LeaveStep
<1>3. Fill(reader'[e]) <= Len(reader'[e].buffer)
  <2>1. Fill(reader[e]) <= Len(reader[e].buffer) /\ reader[e] \in Readers
    BY <1>1, TypesAt DEF Filled
  <2>2. reader[e].count <= Len(reader[e].buffer)
    BY <2>1, SizeFacts DEF Fill, Readers
  <2> QED
    BY <2>1, <2>2 DEF Leaves, Fill, Readers
<1>4. /\ got \in [WS!End -> Seq(Seq(Items))] /\ pongs \in Seq([payload : Seq(Items), count : Nat])
  BY <1>1 DEF WsTypes
<1>5. WsTypes' /\ Filled'
  BY <1>1, <1>3, <1>4, ReaderTypes DEF Leaves
<1>6. WS!PongEchoes'
  BY <1>1 DEF WS!PongEchoes
<1> QED
  BY <1>2, <1>5, <1>6 DEF WsInv

LEMMA AcceptInv ==
  ASSUME WsInv, reader["server"].pc \notin {"off", "done"}, NEW err, NEW n \in {0, 1},
         WS!Accepted(err, n), n = 1 <=> err = "none",
         foreign' = foreign, lost' = lost, sent' = sent, open' = open, got' = got, pongs' = pongs,
         wire' \in [WS!End -> Seq(Items)], wire'["client"] = wire["client"],
         wire'["server"] = wire["server"] \/ (wire["server"] # << >> /\ wire'["server"] = Tail(wire["server"]))
  PROVE  WsInv'
<1>1. WsTypes /\ EndTold /\ "server" \in WS!End /\ WS!Peer("server") = "client"
  BY DEF WsInv, WS!End, WS!Peer
<1>2. Leaves("server")
  BY <1>1, AcceptedFacts
<1>3. EndTold'
  BY <1>1, EndAccepted
<1> QED
  BY <1>1, <1>2, <1>3, LeaveInv

LEMMA RejectInv ==
  ASSUME WsInv, reader["client"].pc \notin {"off", "done"}, NEW err \in Results,
         WS!Rejected("client", err),
         foreign' = foreign, lost' = lost, sent' = sent, open' = open, got' = got, pongs' = pongs,
         wire' = wire
  PROVE  WsInv'
<1>1. WsTypes /\ EndTold /\ "client" \in WS!End
  BY DEF WsInv, WS!End
<1>2. Leaves("client")
  BY <1>1, RejectedFacts
<1>3. EndTold'
  BY <1>1, EndRejected
<1>4. wire \in [WS!End -> Seq(Items)]
  BY <1>1 DEF WsTypes
<1> QED
  BY <1>1, <1>2, <1>3, <1>4, LeaveInv

LEMMA FailInv ==
  ASSUME WsInv, NEW e \in WS!End, reader[e].pc \notin {"off", "done"},
         NEW err \in {"SOCKET_ERROR", "assertion"}, WS!Fails(e, err),
         foreign' = foreign, lost' = lost, sent' = sent, open' = open, got' = got, pongs' = pongs,
         wire' = wire
  PROVE  WsInv'
<1>1. wire \in [WS!End -> Seq(Items)]
  BY DEF WsInv, WsTypes
<1>2. CASE e = "server"
  <2>1. WS!Accepted(err, 0) /\ err # "none"
    BY <1>2 DEF WS!Fails
  <2>2. 0 \in {0, 1} /\ (0 = 1 <=> err = "none")
    BY <2>1
  <2>3. wire'["client"] = wire["client"] /\ wire'["server"] = wire["server"]
    OBVIOUS
  <2>4. reader["server"].pc \notin {"off", "done"}
    BY <1>2
  <2> QED
    BY <1>1, <2>1, <2>2, <2>3, <2>4, AcceptInv
<1>3. CASE e # "server"
  <2>1. WS!Rejected("client", err) /\ err \in Results /\ e = "client"
    BY <1>3 DEF WS!Fails, Results, WS!End
  <2> QED
    BY <1>3, <2>1, RejectInv
<1> QED
  BY <1>2, <1>3

\* The reader at e goes on.
LEMMA OnInv ==
  ASSUME WsInv, NEW e \in WS!End, reader[e].pc \notin {"off", "done"},
         NEW r2 \in Readers, reader' = [reader EXCEPT ![e] = r2], r2.pc \notin {"off", "done"},
         Fill(r2) <= Len(r2.buffer),
         foreign' = foreign, lost' = lost, sent' = sent, open' = open,
         sock' = sock, is_close' = is_close, closes' = closes, result' = result,
         wire' \in [WS!End -> Seq(Items)], got' \in [WS!End -> Seq(Seq(Items))],
         pongs' \in Seq([payload : Seq(Items), count : Nat]),
         WS!PongEchoes', Wells'
  PROVE  WsInv'
<1>1. WsTypes /\ Filled /\ EndTold
  BY DEF WsInv
<1>2. /\ reader \in [WS!End -> Readers] /\ sock \in [WS!End -> BOOLEAN]
      /\ is_close \in [WS!End -> BOOLEAN] /\ closes \in Nat /\ result \in [WS!End -> Results]
  BY <1>1 DEF WsTypes
<1>3. WS!Peer(e) # e /\ WS!Peer(e) \in WS!End
  BY WsPeers
<1>4. reader' \in [WS!End -> Readers] /\ reader'[e] = r2 /\ reader'[WS!Peer(e)] = reader[WS!Peer(e)]
  BY <1>2, <1>3
<1>5. WsTypes' /\ Filled'
  BY <1>1, <1>2, <1>4, ReaderTypes
<1>6. reader'["server"].pc = "done" <=> reader["server"].pc = "done"
  <2>1. "server" = e \/ "server" = WS!Peer(e)
    BY DEF WS!End, WS!Peer
  <2> QED
    BY <1>4, <2>1
<1>7. \A d \in WS!End : is_close'[d] => ~ sock'[d]
  BY <1>1 DEF EndTold
<1>8. EndTold'
  BY <1>1, <1>6, <1>7, EndStays
<1> QED
  BY <1>5, <1>8 DEF WsInv

\* It goes on, and nothing is sent.
LEMMA OnWell ==
  ASSUME WsInv, NEW e \in WS!End, reader[e].pc # "off", NEW r2, NEW m, NEW v,
         reader'[e] = r2, got'[e] = m, wire'[e] = v, Apart(e), sock' = sock,
         wire'[WS!Peer(e)] = wire[WS!Peer(e)],
         LET p == WS!Peer(e)
         IN  Well(p \in foreign, lost[p], wire[e], reader[e], got[e], sent[p], open[p], sock[e])
               => Well(p \in foreign, lost[p], v, r2, m, sent[p], open[p], sock[e])
  PROVE  Wells'
<1>1. WsTypes /\ Wells
  BY DEF WsInv
<1>2. LET p == WS!Peer(e)
      IN  Well(p \in foreign, lost[p], wire[e], reader[e], got[e], sent[p], open[p], sock[e])
  BY <1>1, NotForeign
<1>3. ReadsWell(e)'
  BY <1>2, OwnWell
<1> QED
  BY <1>1, <1>3, ReaderStep

\* The other end is left alone.
LEMMA OneReader ==
  ASSUME WsTypes, NEW e \in WS!End, NEW r2 \in Readers, reader' = [reader EXCEPT ![e] = r2]
  PROVE  reader'[e] = r2 /\ reader'[WS!Peer(e)] = reader[WS!Peer(e)]
<1>1. reader \in [WS!End -> Readers] /\ WS!Peer(e) # e /\ WS!Peer(e) \in WS!End
  BY WsPeers DEF WsTypes
<1> QED
  BY <1>1

LEMMA ReadCallInv ==
  ASSUME WsInv, WS!ReadCall
  PROVE  WsInv'
<1> DEFINE e == "client"
           rd == reader[e]
           r2 == [rd EXCEPT !.pc = "header", !.count = 0]
           p == WS!Peer(e)
<1>1. /\ rd.pc = "idle" /\ reader' = [reader EXCEPT ![e].pc = "header", ![e].count = 0]
      /\ wire' = wire /\ got' = got /\ foreign' = foreign /\ sent' = sent /\ open' = open
      /\ lost' = lost /\ sock' = sock /\ is_close' = is_close /\ pongs' = pongs
      /\ closes' = closes /\ result' = result
  BY DEF WS!ReadCall
<1>2. /\ WsTypes /\ WS!PongEchoes /\ e \in WS!End /\ p \in WS!End /\ rd \in Readers /\ wire[e] \in Seq(Items)
      /\ got[e] \in Seq(Seq(Items)) /\ reader \in [WS!End -> Readers]
  <2>1. e \in WS!End /\ WsTypes /\ WS!PongEchoes
    BY DEF WS!End, WsInv
  <2> QED
    BY <2>1, TypesAt, WsPeers DEF WsTypes
<1>3. reader' = [reader EXCEPT ![e] = r2]
  BY <1>1, <1>2 DEF Readers
<1>4. /\ r2 \in Readers /\ r2.pc = "header" /\ r2.count = 0 /\ r2.buffer = rd.buffer /\ r2.head = rd.head
  BY <1>2 DEF Readers, Pcs, Live
<1> HIDE DEF r2, e
<1>5. reader'[e] = r2 /\ reader'[p] = reader[p]
  BY <1>2, <1>3, <1>4, OneReader
<1>6. Fill(r2) <= Len(r2.buffer)
  BY <1>2, <1>4 DEF Fill, Readers
<1>7. Well(p \in foreign, lost[p], wire[e], rd, got[e], sent[p], open[p], sock[e])
        => Well(p \in foreign, lost[p], wire[e], r2, got[e], sent[p], open[p], sock[e])
  BY <1>1, <1>2, <1>4, WellCall
<1>8. Wells'
  BY <1>1, <1>2, <1>5, <1>7, OnWell DEF Apart
<1>9. /\ wire \in [WS!End -> Seq(Items)] /\ got \in [WS!End -> Seq(Seq(Items))]
      /\ pongs \in Seq([payload : Seq(Items), count : Nat])
  BY <1>2 DEF WsTypes
<1>10. WS!PongEchoes'
  BY <1>1, <1>2 DEF WS!PongEchoes
<1> QED
  BY <1>1, <1>2, <1>3, <1>4, <1>6, <1>8, <1>9, <1>10, OnInv

LEMMA LoopTopInv ==
  ASSUME WsInv, WS!LoopTop
  PROVE  WsInv'
<1> DEFINE e == "server"
           rd == reader[e]
           r2 == [rd EXCEPT !.pc = "header"]
           p == WS!Peer(e)
<1>1. /\ rd.pc = "loop"
      /\ wire' = wire /\ got' = got /\ foreign' = foreign /\ sent' = sent /\ open' = open
      /\ lost' = lost /\ pongs' = pongs
  BY DEF WS!LoopTop
<1>2. /\ WsTypes /\ WS!PongEchoes /\ e \in WS!End /\ p \in WS!End /\ rd \in Readers /\ wire[e] \in Seq(Items)
      /\ got[e] \in Seq(Seq(Items)) /\ Filled
      /\ wire \in [WS!End -> Seq(Items)] /\ got \in [WS!End -> Seq(Seq(Items))]
      /\ pongs \in Seq([payload : Seq(Items), count : Nat])
  <2>1. e \in WS!End /\ WsTypes /\ WS!PongEchoes /\ Filled
    BY DEF WS!End, WsInv
  <2> QED
    BY <2>1, TypesAt, WsPeers DEF WsTypes
<1>3. CASE is_close["server"] = TRUE
  <2>1. WS!Accepted("none", 1) /\ 1 \in {0, 1} /\ (1 = 1 <=> "none" = "none")
    BY <1>3 DEF WS!LoopTop
  <2>2. reader["server"].pc \notin {"off", "done"} /\ wire'["client"] = wire["client"]
        /\ wire'["server"] = wire["server"]
    BY <1>1
  <2> QED
    BY <1>1, <1>2, <2>1, <2>2, AcceptInv
<1>4. CASE is_close["server"] = FALSE
  <2>1. /\ reader' = [reader EXCEPT ![e] = r2]
        /\ sock' = sock /\ is_close' = is_close /\ closes' = closes /\ result' = result
    BY <1>4 DEF WS!LoopTop, WS!Pc
  <2>2. /\ r2 \in Readers /\ r2.pc = "header" /\ r2.count = rd.count /\ r2.buffer = rd.buffer /\ r2.head = rd.head
    BY <1>2 DEF Readers, Pcs, Live
  <2> HIDE DEF r2
  <2>3. reader'[e] = r2 /\ reader'[p] = reader[p]
    BY <1>2, <2>1, <2>2, OneReader
  <2>4. Fill(r2) <= Len(r2.buffer)
    BY <1>1, <1>2, <2>2 DEF Fill, Readers, Filled
  <2>5. rd.pc \in Quiet /\ r2.pc \in Quiet /\ r2.pc \notin {"handshake", "answered", "idle"}
    BY <1>1, <2>2 DEF Quiet
  <2> HIDE DEF e
  <2>6. Well(p \in foreign, lost[p], wire[e], rd, got[e], sent[p], open[p], sock[e])
        => Well(p \in foreign, lost[p], wire[e], r2, got[e], sent[p], open[p], sock[e])
    BY <1>2, <2>2, <2>5, WellQuiet
  <2>7. Wells'
    BY <1>1, <1>2, <2>1, <2>3, <2>6, OnWell DEF Apart
  <2>8. WS!PongEchoes'
    BY <1>1, <1>2 DEF WS!PongEchoes
  <2>9. rd.pc \notin {"off", "done"} /\ r2.pc \notin {"off", "done"}
    BY <1>1, <2>2
  <2> QED
    BY <1>1, <1>2, <2>1, <2>2, <2>4, <2>7, <2>8, <2>9, OnInv
<1> QED
  BY <1>2, <1>3, <1>4, TypesAt

\* What the steps of the reader at e find.
LEMMA ReaderAt ==
  ASSUME WsInv, NEW e \in WS!End
  PROVE  /\ WsTypes /\ WS!PongEchoes /\ Filled /\ Wells
         /\ WS!Peer(e) \in WS!End /\ WS!Peer(e) # e
         /\ reader[e] \in Readers /\ wire[e] \in Seq(Items) /\ got[e] \in Seq(Seq(Items))
         /\ sent[WS!Peer(e)] \in Seq(Nat) /\ sock[e] \in BOOLEAN /\ is_close[e] \in BOOLEAN
         /\ wire \in [WS!End -> Seq(Items)] /\ got \in [WS!End -> Seq(Seq(Items))]
         /\ pongs \in Seq([payload : Seq(Items), count : Nat])
         /\ reader[e].head \in Heads /\ reader[e].count \in Nat /\ reader[e].buffer \in Seq(Items)
         /\ Fill(reader[e]) <= Len(reader[e].buffer)
<1>1. WsTypes /\ WS!PongEchoes /\ Filled /\ Wells
  BY DEF WsInv
<1>2. WS!Peer(e) \in WS!End /\ WS!Peer(e) # e /\ reader[e] \in Readers
  BY <1>1, TypesAt
<1>3. /\ wire[e] \in Seq(Items) /\ got[e] \in Seq(Seq(Items))
      /\ sock[e] \in BOOLEAN /\ is_close[e] \in BOOLEAN /\ sent[WS!Peer(e)] \in Seq(Nat)
  BY <1>1, <1>2, TypesAt
<1>4. reader[e].head \in Heads /\ reader[e].count \in Nat /\ reader[e].buffer \in Seq(Items)
  BY <1>2 DEF Readers
<1>5. /\ wire \in [WS!End -> Seq(Items)] /\ got \in [WS!End -> Seq(Seq(Items))]
      /\ pongs \in Seq([payload : Seq(Items), count : Nat])
  BY <1>1 DEF WsTypes
<1> QED
  BY <1>1, <1>2, <1>3, <1>4, <1>5 DEF Filled

LEMMA ReadHeaderInv ==
  ASSUME WsInv, NEW e \in WS!End, WS!ReadHeader(e)
  PROVE  WsInv'
<1> DEFINE w == wire[e]
           rd == reader[e]
           p == WS!Peer(e)
           x == w[1]
<1>1. /\ rd.pc = "header" /\ w # << >> /\ wire' = [wire EXCEPT ![e] = Tail(w)]
      /\ got' = got /\ foreign' = foreign /\ sent' = sent /\ open' = open
      /\ lost' = lost /\ pongs' = pongs
  BY DEF WS!ReadHeader
<1>2. /\ WsTypes /\ WS!PongEchoes /\ p \in WS!End /\ p # e /\ rd \in Readers /\ w \in Seq(Items)
      /\ got[e] \in Seq(Seq(Items)) /\ wire \in [WS!End -> Seq(Items)] /\ got \in [WS!End -> Seq(Seq(Items))]
      /\ pongs \in Seq([payload : Seq(Items), count : Nat])
      /\ rd.head \in Heads /\ rd.count \in Nat /\ rd.buffer \in Seq(Items) /\ Fill(rd) <= Len(rd.buffer)
  BY ReaderAt
<1>3. Tail(w) \in Seq(Items) /\ x \in Items /\ Head(w) = x
  BY <1>1, <1>2, TailLess
<1>4. /\ wire' \in [WS!End -> Seq(Items)] /\ wire'[e] = Tail(w) /\ wire'[p] = wire[p]
  BY <1>1, <1>2, <1>3
<1>5. CASE e = "server" /\ WS!IsHead(x) /\ x.len > MaxFrameSize
  <2>1. WS!Accepted("too large", 0)
    BY <1>3, <1>5 DEF WS!ReadHeader
  <2>2. p = "client" /\ 0 \in {0, 1} /\ (0 = 1 <=> "too large" = "none")
    BY <1>5 DEF WS!Peer
  <2>3. reader["server"].pc \notin {"off", "done"} /\ wire'["client"] = wire["client"]
    BY <1>1, <1>4, <1>5, <2>2
  <2>4. wire["server"] # << >> /\ wire'["server"] = Tail(wire["server"])
    BY <1>1, <1>4, <1>5
  <2> QED
    BY <1>1, <1>4, <2>1, <2>2, <2>3, <2>4, AcceptInv
<1>6. CASE ~ (e = "server" /\ WS!IsHead(x) /\ x.len > MaxFrameSize)
  <2> DEFINE r2 == IF WS!IsHead(x)
                   THEN [rd EXCEPT !.head = x, !.pc = IF x.len = 0 /\ ~ x.mask THEN "frame" ELSE "payload"]
                   ELSE [rd EXCEPT !.pc = "garbled"]
  <2>1. /\ reader' = [reader EXCEPT ![e] = r2]
        /\ sock' = sock /\ is_close' = is_close /\ closes' = closes /\ result' = result
    <3>1. CASE WS!IsHead(x)
      <4>1. /\ reader' = [reader EXCEPT ![e].head = x,
                           ![e].pc = IF x.len = 0 /\ ~ x.mask THEN "frame" ELSE "payload"]
            /\ sock' = sock /\ is_close' = is_close /\ closes' = closes /\ result' = result
        BY <1>3, <1>6, <3>1 DEF WS!ReadHeader
      <4> DEFINE q == IF x.len = 0 /\ ~ x.mask THEN "frame" ELSE "payload"
      <4>2. reader \in [WS!End -> Readers] /\ reader' = [reader EXCEPT ![e].head = x, ![e].pc = q]
        BY <1>2, <4>1 DEF WsTypes
      <4>3. r2 = [rd EXCEPT !.head = x, !.pc = q]
        BY <3>1
      <4> HIDE DEF q, x
      <4> QED
        BY <1>2, <4>1, <4>2, <4>3, ZenonT(40) DEF Readers
    <3>2. CASE ~ WS!IsHead(x)
      <4>1. /\ WS!Pc(e, "garbled")
            /\ sock' = sock /\ is_close' = is_close /\ closes' = closes /\ result' = result
        BY <1>3, <3>2 DEF WS!ReadHeader
      <4> QED
        BY <3>2, <4>1 DEF WS!Pc
    <3> QED
      BY <3>1, <3>2
  <2>2. r2 \in Readers /\ r2.pc \notin {"off", "done"} /\ Fill(r2) <= Len(r2.buffer)
    <3>1. CASE WS!IsHead(x)
      <4>1. x \in Heads /\ x.len \in Nat
        BY <1>3, <3>1, ItemKinds DEF Items, Heads
      <4> DEFINE q == IF x.len = 0 /\ ~ x.mask THEN "frame" ELSE "payload"
      <4>2. r2 = [rd EXCEPT !.head = x, !.pc = q] /\ q \in {"frame", "payload"} /\ (q = "frame" => x.len = 0)
        BY <3>1
      <4>3. Fill(rd) = rd.count
        BY <1>1, <1>2 DEF Fill
      <4> HIDE DEF q, x, r2
      <4>4. r2 \in Readers /\ r2.pc = q /\ r2.head = x /\ r2.count = rd.count /\ r2.buffer = rd.buffer
        BY <1>2, <4>1, <4>2 DEF Readers, Pcs, Live
      <4> QED
        BY <1>2, <4>1, <4>2, <4>3, <4>4 DEF Fill
    <3>2. CASE ~ WS!IsHead(x)
      <4>1. r2 = [rd EXCEPT !.pc = "garbled"]
        BY <3>2
      <4>2. Fill(rd) = rd.count
        BY <1>1, <1>2 DEF Fill
      <4> HIDE DEF r2
      <4>3. r2 \in Readers /\ r2.pc = "garbled" /\ r2.count = rd.count /\ r2.buffer = rd.buffer
        BY <1>2, <4>1 DEF Readers, Pcs
      <4> QED
        BY <1>2, <4>2, <4>3 DEF Fill
    <3> QED
      BY <3>1, <3>2
  <2>3. IF WS!IsHead(w[1])
        THEN r2 = [rd EXCEPT !.head = w[1],
                     !.pc = IF w[1].len = 0 /\ ~ w[1].mask THEN "frame" ELSE "payload"]
        ELSE r2 = [rd EXCEPT !.pc = "garbled"]
    OBVIOUS
  <2> HIDE DEF r2, x
  <2>4. reader'[e] = r2 /\ reader'[p] = reader[p]
    BY <1>2, <2>1, <2>2, OneReader
  <2>5. Well(p \in foreign, lost[p], w, rd, got[e], sent[p], open[p], sock[e])
        => Well(p \in foreign, lost[p], Tail(w), r2, got[e], sent[p], open[p], sock[e])
    BY <1>1, <1>2, <2>2, <2>3, WellHead
  <2>6. Wells'
    BY <1>1, <1>2, <1>4, <2>1, <2>4, <2>5, OnWell DEF Apart
  <2>7. WS!PongEchoes'
    BY <1>1, <1>2 DEF WS!PongEchoes
  <2> QED
    BY <1>1, <1>2, <1>4, <2>1, <2>2, <2>6, <2>7, OnInv
<1> QED
  BY <1>5, <1>6

LEMMA ReadPayloadInv ==
  ASSUME WsInv, NEW e \in WS!End, WS!ReadPayload(e)
  PROVE  WsInv'
<1> DEFINE w == wire[e]
           rd == reader[e]
           p == WS!Peer(e)
           h == rd.head
           d == Size(h)
           part == SubSeq(rd.buffer, 1, rd.count)
           r2 == [rd EXCEPT !.pc = "frame", !.buffer = part \o Payload(w, h)]
           v == SubSeq(w, d + 1, Len(w))
<1>1. /\ rd.pc = "payload"
      /\ got' = got /\ foreign' = foreign /\ sent' = sent /\ open' = open
      /\ lost' = lost /\ pongs' = pongs
      /\ sock' = sock /\ is_close' = is_close /\ closes' = closes /\ result' = result
  BY DEF WS!ReadPayload
<1>2. /\ WsTypes /\ WS!PongEchoes /\ p \in WS!End /\ p # e /\ rd \in Readers /\ w \in Seq(Items)
      /\ got[e] \in Seq(Seq(Items)) /\ wire \in [WS!End -> Seq(Items)] /\ got \in [WS!End -> Seq(Seq(Items))]
      /\ pongs \in Seq([payload : Seq(Items), count : Nat]) /\ sent[p] \in Seq(Nat)
      /\ h \in Heads /\ rd.count \in Nat /\ rd.buffer \in Seq(Items) /\ Fill(rd) <= Len(rd.buffer)
  BY ReaderAt
<1>3. WS!Need(e) = d
  BY <1>1 DEF WS!Need, Size
<1>4. Len(w) >= d /\ wire' = [wire EXCEPT ![e] = v]
  BY <1>3 DEF WS!ReadPayload
<1>5. reader' = [reader EXCEPT ![e] = r2]
  <2> DEFINE b == part \o Payload(w, h)
  <2>1. reader' = [reader EXCEPT ![e].pc = "frame", ![e].buffer = b]
    BY DEF WS!ReadPayload, Payload, Raw, KeyOf
  <2>2. reader \in [WS!End -> Readers]
    BY <1>2 DEF WsTypes
  <2>3. r2 = [rd EXCEPT !.pc = "frame", !.buffer = b]
    OBVIOUS
  <2> HIDE DEF b, r2
  <2> QED
    BY <2>1, <2>2, <2>3 DEF Readers
<1>6. Payload(w, h) \in Seq(Items) /\ Len(Payload(w, h)) = h.len /\ h.len \in Nat
  <2>1. d = h.len + KeyOf(h) /\ KeyOf(h) \in {0, 1} /\ h.len \in Nat /\ Len(w) \in Nat
    BY <1>2 DEF Size, KeyOf, Heads
  <2>2. Raw(w, h) \in Seq(Items) /\ Len(Raw(w, h)) = h.len
    <3>1. 1 + KeyOf(h) \in 1 .. Len(w) + 1 /\ h.len + KeyOf(h) \in 0 .. Len(w)
      BY <1>4, <2>1
    <3> DEFINE k == KeyOf(h)
    <3> HIDE DEF k
    <3>2. SubSeq(w, 1 + k, h.len + k) \in Seq(Items) /\ Len(SubSeq(w, 1 + k, h.len + k)) = h.len
      BY <1>2, <2>1, <3>1, SMTT(40) DEF k
    <3> QED
      BY <3>2 DEF Raw, k
  <2> QED
    BY <2>1, <2>2, UnmaskedFacts DEF Payload
<1>7. part \in Seq(Items) /\ Len(part) = rd.count
  <2>1. rd.count \in 0 .. Len(rd.buffer)
    BY <1>1, <1>2 DEF Fill
  <2> QED
    BY <1>2, <2>1, CutFacts
<1> DEFINE y == Payload(w, h)
<1>19. y \in Seq(Items) /\ Len(y) = h.len
  BY <1>6
<1> HIDE DEF part, y
<1>8. part \o y \in Seq(Items) /\ Len(part \o y) = rd.count + h.len
  <2>1. part \o y \in Seq(Items) /\ Len(part \o y) = Len(part) + Len(y)
    BY <1>7, <1>19, RowFacts
  <2> QED
    BY <1>7, <1>19, <2>1
<1>9. v \in Seq(Items)
  <2>1. d \in 0 .. Len(w)
    BY <1>2, <1>4, SizeFacts
  <2> QED
    BY <1>2, <2>1, CutFacts
<1> DEFINE b == part \o y
<1>10. r2 = [rd EXCEPT !.pc = "frame", !.buffer = b]
  BY DEF y
<1> HIDE DEF b, r2, v
<1>11. /\ r2 \in Readers /\ r2.pc = "frame" /\ r2.head = h /\ r2.count = rd.count /\ r2.buffer = b
  BY <1>2, <1>8, <1>10 DEF Readers, Pcs, Live, b
<1>12. Fill(r2) <= Len(r2.buffer)
  BY <1>6, <1>8, <1>11, <1>2 DEF Fill, b
<1>13. wire' \in [WS!End -> Seq(Items)] /\ wire'[e] = v /\ wire'[p] = wire[p]
  BY <1>2, <1>4, <1>9
<1>14. reader'[e] = r2
  BY <1>2, <1>5, <1>11, OneReader
<1>15. reader'[p] = reader[p]
  BY <1>2, <1>5, <1>11, OneReader
<1>16. Well(p \in foreign, lost[p], w, rd, got[e], sent[p], open[p], sock[e])
       => Well(p \in foreign, lost[p], v, r2, got[e], sent[p], open[p], sock[e])
  BY <1>1, <1>2, <1>4, <1>10, <1>11, WellPayload DEF v, b, part, y
<1>17. Wells'
  BY <1>1, <1>2, <1>13, <1>14, <1>15, <1>16, OnWell DEF Apart
<1>18. WS!PongEchoes'
  BY <1>1, <1>2 DEF WS!PongEchoes
<1> QED
  BY <1>1, <1>2, <1>5, <1>11, <1>12, <1>13, <1>17, <1>18, OnInv

LEMMA ReadFailsInv ==
  ASSUME WsInv, NEW e \in WS!End, WS!ReadFails(e)
  PROVE  WsInv'
<1>1. /\ reader[e].pc \in {"header", "payload"}
      /\ \E err \in {"SOCKET_ERROR", "assertion"} : WS!Fails(e, err)
      /\ got' = got /\ foreign' = foreign /\ sent' = sent /\ open' = open
      /\ lost' = lost /\ pongs' = pongs /\ wire' = wire
  BY DEF WS!ReadFails
<1>2. reader[e].pc \notin {"off", "done"}
  BY <1>1
<1> QED
  BY <1>1, <1>2, FailInv

\* A frame is done that ends no message; it was no PING.
LEMMA AgainFacts ==
  ASSUME WsInv, NEW e \in WS!End, reader[e].pc = "frame", WS!Again(e, WS!Counted(e))
  PROVE  \E q \in {"loop", "header"}, r2 \in Readers :
           /\ reader' = [reader EXCEPT ![e] = r2] /\ reader'[e] = r2
           /\ reader'[WS!Peer(e)] = reader[WS!Peer(e)]
           /\ r2 = [reader[e] EXCEPT !.count = reader[e].count + reader[e].head.len, !.pc = q]
           /\ r2.pc = q /\ Fill(r2) <= Len(r2.buffer)
<1> DEFINE rd == reader[e]
           c == rd.count + rd.head.len
           q == IF e = "server" THEN "loop" ELSE "header"
           r2 == [rd EXCEPT !.count = c, !.pc = q]
<1>1. /\ WsTypes /\ rd \in Readers /\ rd.head \in Heads /\ rd.count \in Nat /\ rd.buffer \in Seq(Items)
      /\ Fill(rd) <= Len(rd.buffer)
  BY ReaderAt
<1>2. reader \in [WS!End -> Readers] /\ q \in {"loop", "header"}
  BY <1>1 DEF WsTypes
<1>3. c \in Nat /\ Fill(rd) = c
  BY <1>1 DEF Heads, Fill
<1>4. reader' = [reader EXCEPT ![e].count = c, ![e].pc = q]
  BY DEF WS!Again, WS!Counted
<1>5. r2 = [rd EXCEPT !.count = c, !.pc = q]
  OBVIOUS
<1> HIDE DEF c, q, r2
<1>6. reader' = [reader EXCEPT ![e] = r2]
  BY <1>2, <1>4, <1>5 DEF Readers
<1>7. r2 \in Readers /\ r2.pc = q /\ r2.count = c /\ r2.buffer = rd.buffer
  BY <1>1, <1>2, <1>3, <1>5 DEF Readers, Pcs, Live
<1>8. Fill(r2) <= Len(r2.buffer)
  BY <1>1, <1>2, <1>3, <1>7 DEF Fill
<1>9. reader'[e] = r2 /\ reader'[WS!Peer(e)] = reader[WS!Peer(e)]
  BY <1>1, <1>6, <1>7, OneReader
<1> QED
  BY <1>2, <1>5, <1>6, <1>7, <1>8, <1>9 DEF c

LEMMA GoesOnInv ==
  ASSUME WsInv, NEW e \in WS!End, reader[e].pc = "frame", reader[e].head \notin Lasts,
         WS!Again(e, WS!Counted(e)),
         got' = got, foreign' = foreign, sent' = sent, open' = open, wire' = wire,
         lost' = lost, pongs' = pongs,
         sock' = sock, is_close' = is_close, closes' = closes, result' = result
  PROVE  WsInv'
<1> DEFINE rd == reader[e]
           p == WS!Peer(e)
<1>1. /\ WsTypes /\ WS!PongEchoes /\ rd \in Readers /\ wire[e] \in Seq(Items)
      /\ got[e] \in Seq(Seq(Items)) /\ wire \in [WS!End -> Seq(Items)] /\ got \in [WS!End -> Seq(Seq(Items))]
      /\ pongs \in Seq([payload : Seq(Items), count : Nat])
  BY ReaderAt
<1>2. PICK q \in {"loop", "header"}, r2 \in Readers :
        /\ reader' = [reader EXCEPT ![e] = r2] /\ reader'[e] = r2 /\ reader'[p] = reader[p]
        /\ r2 = [rd EXCEPT !.count = rd.count + rd.head.len, !.pc = q]
        /\ r2.pc = q /\ Fill(r2) <= Len(r2.buffer)
  BY AgainFacts
<1>3. Well(p \in foreign, lost[p], wire[e], rd, got[e], sent[p], open[p], sock[e])
       => Well(p \in foreign, lost[p], wire[e], r2, got[e], sent[p], open[p], sock[e])
  BY <1>1, <1>2, WellFrame
<1>4. Wells'
  BY <1>2, <1>3, OnWell DEF Apart
<1>5. WS!PongEchoes'
  BY <1>1 DEF WS!PongEchoes
<1>6. r2.pc \notin {"off", "done"}
  BY <1>2
<1> QED
  BY <1>1, <1>2, <1>4, <1>5, <1>6, OnInv

LEMMA PongFrameInv ==
  ASSUME WsInv, NEW e \in WS!End, WS!PongFrame(e)
  PROVE  WsInv'
<1> DEFINE rd == reader[e]
<1>1. /\ rd.pc = "frame" /\ rd.head.op = "PONG" /\ WS!Again(e, WS!Counted(e))
      /\ got' = got /\ foreign' = foreign /\ sent' = sent /\ open' = open /\ wire' = wire
      /\ lost' = lost /\ pongs' = pongs
      /\ sock' = sock /\ is_close' = is_close /\ closes' = closes /\ result' = result
  BY DEF WS!PongFrame
<1>2. rd.head \notin Lasts
  BY <1>1 DEF Lasts, WS!Control
<1> QED
  BY <1>1, <1>2, GoesOnInv

LEMMA DataFrameInv ==
  ASSUME WsInv, NEW e \in WS!End, WS!DataFrame(e)
  PROVE  WsInv'
<1> DEFINE rd == reader[e]
           p == WS!Peer(e)
<1>1. /\ rd.pc = "frame" /\ rd.head.op \notin WS!Control
      /\ foreign' = foreign /\ sent' = sent /\ open' = open /\ wire' = wire
      /\ lost' = lost /\ pongs' = pongs
  BY DEF WS!DataFrame
<1>2. /\ WsTypes /\ WS!PongEchoes /\ p \in WS!End /\ p # e /\ rd \in Readers /\ wire[e] \in Seq(Items)
      /\ got[e] \in Seq(Seq(Items)) /\ wire \in [WS!End -> Seq(Items)] /\ got \in [WS!End -> Seq(Seq(Items))]
      /\ pongs \in Seq([payload : Seq(Items), count : Nat]) /\ sent[p] \in Seq(Nat)
      /\ rd.head \in Heads /\ rd.count \in Nat /\ rd.buffer \in Seq(Items) /\ Fill(rd) <= Len(rd.buffer)
  BY ReaderAt
<1>3. CASE e = "server" /\ WS!Counted(e) > MaxFrameSize
  <2>1. WS!Accepted("too large", 0) /\ got' = got
    BY <1>3 DEF WS!DataFrame
  <2>2. 0 \in {0, 1} /\ (0 = 1 <=> "too large" = "none")
    OBVIOUS
  <2>3. reader["server"].pc \notin {"off", "done"}
    BY <1>1, <1>3
  <2>4. wire' \in [WS!End -> Seq(Items)] /\ wire'["client"] = wire["client"]
        /\ wire'["server"] = wire["server"]
    BY <1>1, <1>2
  <2> QED
    BY <1>1, <2>1, <2>2, <2>3, <2>4, AcceptInv
<1>4. ASSUME ~ (e = "server" /\ WS!Counted(e) > MaxFrameSize)
      PROVE  /\ sock' = sock /\ is_close' = is_close /\ closes' = closes /\ result' = result
             /\ IF rd.head.fin
                THEN /\ got' = [got EXCEPT ![e] = Append(@, SubSeq(rd.buffer, 1, WS!Counted(e)))]
                     /\ reader' = [reader EXCEPT ![e].count = 0, ![e].buffer = << >>,
                                     ![e].pc = IF e = "server" THEN "loop" ELSE "idle"]
                ELSE WS!Again(e, WS!Counted(e)) /\ got' = got
  BY <1>4 DEF WS!DataFrame
<1>5. ASSUME ~ (e = "server" /\ WS!Counted(e) > MaxFrameSize), rd.head.fin
      PROVE  WsInv'
  <2> DEFINE msg == SubSeq(rd.buffer, 1, WS!Counted(e))
             q == IF e = "server" THEN "loop" ELSE "idle"
             r2 == Reset(rd, q)
             m == Append(got[e], msg)
  <2>1. /\ sock' = sock /\ is_close' = is_close /\ closes' = closes /\ result' = result
        /\ got' = [got EXCEPT ![e] = m]
        /\ reader' = [reader EXCEPT ![e].count = 0, ![e].buffer = << >>, ![e].pc = q]
    BY <1>4, <1>5
  <2>2. q \in {"loop", "idle"}
    OBVIOUS
  <2>3. Fill(rd) = WS!Counted(e) /\ Fill(rd) \in 0 .. Len(rd.buffer) /\ rd.head \in Lasts
    BY <1>1, <1>2, <1>5 DEF Fill, WS!Counted, Lasts, Heads
  <2>4. msg = Has(rd)
    BY <2>3 DEF Has
  <2>5. msg \in Seq(Items)
    BY <1>2, <2>3, <2>4, CutFacts DEF Has
  <2> HIDE DEF q, msg
  <2>6. /\ r2 \in Readers /\ r2.pc = q /\ r2.count = 0 /\ r2.buffer = << >>
    <3>1. << >> \in Seq(Items)
      OBVIOUS
    <3> QED
      BY <1>2, <2>2, <3>1 DEF Readers, Reset, Pcs, Live
  <2>7. reader' = [reader EXCEPT ![e] = r2]
    <3>1. reader \in [WS!End -> Readers]
      BY <1>2 DEF WsTypes
    <3> QED
      BY <2>1, <3>1 DEF Reset, Readers
  <2> HIDE DEF r2
  <2>8. reader'[e] = r2 /\ reader'[p] = reader[p]
    BY <1>2, <2>6, <2>7, OneReader
  <2>9. m \in Seq(Seq(Items))
    BY <1>2, <2>5
  <2> HIDE DEF m
  <2>10. got' \in [WS!End -> Seq(Seq(Items))] /\ got'[e] = m /\ got'[p] = got[p]
    BY <1>2, <2>1, <2>9
  <2>11. Well(p \in foreign, lost[p], wire[e], rd, got[e], sent[p], open[p], sock[e])
         => Well(p \in foreign, lost[p], wire[e], r2, m, sent[p], open[p], sock[e])
    BY <1>1, <1>2, <2>2, <2>3, <2>4, <2>5, WellMessage DEF r2, m
  <2>12. Wells'
    BY <1>1, <2>1, <2>8, <2>10, <2>11, OnWell DEF Apart
  <2>13. WS!PongEchoes'
    BY <1>1, <1>2 DEF WS!PongEchoes
  <2>14. Fill(r2) <= Len(r2.buffer) /\ r2.pc \notin {"off", "done"}
    BY <2>2, <2>6 DEF Fill
  <2> QED
    BY <1>1, <1>2, <2>1, <2>6, <2>7, <2>10, <2>12, <2>13, <2>14, OnInv
<1>6. ASSUME ~ (e = "server" /\ WS!Counted(e) > MaxFrameSize), ~ rd.head.fin
      PROVE  WsInv'
  <2>1. /\ sock' = sock /\ is_close' = is_close /\ closes' = closes /\ result' = result
        /\ WS!Again(e, WS!Counted(e)) /\ got' = got
    BY <1>4, <1>6
  <2>2. rd.head \notin Lasts
    BY <1>6 DEF Lasts
  <2> QED
    BY <1>1, <2>1, <2>2, GoesOnInv
<1> QED
  BY <1>3, <1>5, <1>6

LEMMA PingFrameInv ==
  ASSUME Small \in Nat, WsInv, NEW e \in WS!End, WS!PingFrame(e)
  PROVE  WsInv'
<1> DEFINE rd == reader[e]
           p == WS!Peer(e)
           h == rd.head
           echo == SubSeq(rd.buffer, 1, h.len)
           f == WS!Frame("PONG", TRUE, echo, FALSE)
           new == [payload |-> echo, count |-> rd.count]
<1>1. /\ rd.pc = "frame" /\ h.op = "PING"
      /\ foreign' = foreign /\ sent' = sent /\ open' = open /\ lost' = lost /\ got' = got
  BY DEF WS!PingFrame
<1>2. /\ WsTypes /\ WS!PongEchoes /\ Wells /\ p \in WS!End /\ p # e /\ rd \in Readers /\ wire[e] \in Seq(Items)
      /\ got[e] \in Seq(Seq(Items)) /\ got \in [WS!End -> Seq(Seq(Items))] /\ sock[e] \in BOOLEAN
      /\ pongs \in Seq([payload : Seq(Items), count : Nat]) /\ wire \in [WS!End -> Seq(Items)]
      /\ h \in Heads /\ rd.count \in Nat /\ rd.buffer \in Seq(Items) /\ Fill(rd) <= Len(rd.buffer)
  BY ReaderAt
<1>3. CASE sock[e] = FALSE
  <2>1. WS!Fails(e, "SOCKET_ERROR") /\ wire' = wire /\ pongs' = pongs
    BY <1>3 DEF WS!PingFrame
  <2>2. rd.pc \notin {"off", "done"}
    BY <1>1
  <2> QED
    BY <1>1, <2>1, <2>2, FailInv
<1>4. CASE sock[e] = TRUE
  <2>1. /\ WS!Deliver(e, f) /\ WS!Again(e, WS!Counted(e))
        /\ pongs' = IF h.len = 0 THEN pongs ELSE Append(pongs, new)
        /\ sock' = sock /\ is_close' = is_close /\ closes' = closes /\ result' = result
    BY <1>4 DEF WS!PingFrame
  <2>2. h.len \in 0 .. Len(rd.buffer) /\ Fill(rd) = rd.count + h.len
    BY <1>1, <1>2 DEF Heads, Fill
  <2>3. /\ echo \in Seq(Items) /\ Len(echo) = h.len
        /\ \A k \in 1 .. h.len : echo[k] = rd.buffer[k]
    <3>1. PICK b \in Seq(Items), l \in Nat :
                 l \in 0 .. Len(b) /\ b = rd.buffer /\ l = h.len
      BY <1>2, <2>2
    <3>2. /\ SubSeq(b, 1, l) \in Seq(Items) /\ Len(SubSeq(b, 1, l)) = l
          /\ \A k \in 1 .. l : SubSeq(b, 1, l)[k] = b[k]
      BY <3>1, CutFacts
    <3> QED
      BY <3>1, <3>2
  <2> HIDE DEF echo
  <2>4. f \in Seq(Items)
    <3>1. "PONG" \in Ops
      BY DEF Ops
    <3> QED
      BY <2>3, <3>1, PlainFrame
  <2> HIDE DEF f
  <2>5. wire' \in [WS!End -> Seq(Items)] /\ wire'[e] = wire[e]
    BY <1>2, <2>1, <2>4, ArrivalFacts
  <2>6. Well(p \in foreign, lost[p], wire[e], rd, got[e], sent[p], open[p], sock[e]) /\ e \notin foreign
    BY <1>1, <1>2, NotForeign
  <2>7. p \notin foreign => h.len = 0
    BY <1>1, <2>6 DEF Well, Plain, WS!Control
  <2>8. p \notin foreign => echo = << >>
    BY <2>3, <2>7
  <2>9. PICK q \in {"loop", "header"}, r2 \in Readers :
          /\ reader' = [reader EXCEPT ![e] = r2] /\ reader'[e] = r2 /\ reader'[p] = reader[p]
          /\ r2 = [rd EXCEPT !.count = rd.count + h.len, !.pc = q]
          /\ r2.pc = q /\ Fill(r2) <= Len(r2.buffer)
    BY <1>1, <2>1, AgainFacts
  <2>10. h \notin Lasts
    BY <1>1 DEF Lasts, WS!Control
  <2>11. Well(p \in foreign, lost[p], wire[e], r2, got[e], sent[p], open[p], sock[e])
    BY <1>1, <1>2, <2>6, <2>9, <2>10, WellFrame
  <2>12. Apart(e)
    BY <1>1, <2>1, <2>9 DEF Apart
  <2>13. ReadsWell(e)'
    BY <1>1, <2>1, <2>5, <2>9, <2>11, <2>12, OwnWell
  <2>14. Wells'
    <3>1. "PONG" \in WS!Control
      BY DEF WS!Control
    <3> QED
      BY <1>1, <1>2, <2>1, <2>3, <2>6, <2>8, <2>12, <2>13, <3>1, ReplyStep DEF f
  <2>15. new \in [payload : Seq(Items), count : Nat]
    BY <1>2, <2>3
  <2>16. new.count = 0 => h.len = 0 \/ \A k \in DOMAIN new.payload : new.payload[k] = WS!Byte(0, FALSE)
    <3> SUFFICES ASSUME rd.count = 0, h.len # 0
                 PROVE  \A k \in DOMAIN echo : echo[k] = WS!Byte(0, FALSE)
      OBVIOUS
    <3>1. Told(wire[e], rd, got[e], sent[p], open[p], sock[e])
      BY <2>6, <2>7 DEF Well
    <3>2. Buffered(rd, Len(got[e]) + 1)
      BY <1>1, <3>1 DEF Told, Live, Reading
    <3>3. \A k \in rd.count + 1 .. Fill(rd) : rd.buffer[k] = WS!Byte(0, FALSE)
      BY <1>1, <3>2 DEF Buffered, WS!Control
    <3>4. DOMAIN echo = 1 .. h.len
      BY <2>3
    <3>5. \A k \in 1 .. h.len : rd.buffer[k] = WS!Byte(0, FALSE)
      <4>1. rd.count + 1 = 1 /\ Fill(rd) = h.len
        BY <1>2, <2>2
      <4> QED
        BY <3>3, <4>1
    <3> QED
      BY <2>3, <3>4, <3>5
  <2> HIDE DEF new
  <2>17. /\ pongs' \in Seq([payload : Seq(Items), count : Nat])
         /\ \A i \in DOMAIN pongs' : (i \in DOMAIN pongs /\ pongs'[i] = pongs[i]) \/ (h.len # 0 /\ pongs'[i] = new)
    <3>1. CASE h.len = 0
      BY <1>2, <2>1, <3>1
    <3>2. CASE h.len # 0
      <4>1. pongs' = Append(pongs, new)
        BY <2>1, <3>2
      <4> QED
        BY <1>2, <2>15, <3>2, <4>1, SMTT(40)
    <3> QED
      BY <3>1, <3>2
  <2>18. WS!PongEchoes'
    <3> SUFFICES ASSUME NEW i \in DOMAIN pongs', pongs'[i].count = 0
                 PROVE  \A k \in DOMAIN pongs'[i].payload : pongs'[i].payload[k] = WS!Byte(0, FALSE)
      BY DEF WS!PongEchoes
    <3> QED
      BY <1>2, <2>16, <2>17 DEF WS!PongEchoes
  <2>19. r2.pc \notin {"off", "done"} /\ rd.pc \notin {"off", "done"}
    BY <1>1, <2>9
  <2> QED
    BY <1>1, <1>2, <2>1, <2>5, <2>9, <2>14, <2>17, <2>18, <2>19, OnInv
<1> QED
  BY <1>2, <1>3, <1>4

LEMMA CloseFrameInv ==
  ASSUME Small \in Nat, WsInv, NEW e \in WS!End, WS!CloseFrame(e)
  PROVE  WsInv'
<1> DEFINE rd == reader[e]
           p == WS!Peer(e)
<1>1. /\ rd.pc = "frame"
      /\ foreign' = foreign /\ sent' = sent /\ open' = open /\ lost' = lost /\ got' = got
      /\ pongs' = pongs
  BY DEF WS!CloseFrame
<1>2. /\ WsTypes /\ WS!PongEchoes /\ Wells /\ p \in WS!End /\ p # e /\ rd \in Readers
      /\ wire \in [WS!End -> Seq(Items)] /\ sock[e] \in BOOLEAN /\ is_close[e] \in BOOLEAN
      /\ Fill(rd) <= Len(rd.buffer) /\ got \in [WS!End -> Seq(Seq(Items))]
      /\ pongs \in Seq([payload : Seq(Items), count : Nat]) /\ rd.count \in Nat
      /\ rd.buffer \in Seq(Items) /\ rd.head \in Heads /\ EndTold
  BY ReaderAt DEF WsInv
<1>3. rd.pc \notin {"off", "done"} /\ 0 \in {0, 1} /\ 1 \in {0, 1}
  BY <1>1
<1>4. CASE e = "server" /\ sock[e] = TRUE
  <2> DEFINE f == WS!Frame("CLOSE", TRUE, << >>, FALSE)
  <2>1. WS!Deliver(e, f) /\ WS!Accepted("none", 1)
    BY <1>4 DEF WS!CloseFrame
  <2>2. "CLOSE" \in WS!Control /\ "CLOSE" \in Ops /\ << >> \in Seq(Items)
    BY DEF WS!Control, Ops
  <2>3. f \in Seq(Items)
    BY <2>2, PlainFrame
  <2>4. wire' \in [WS!End -> Seq(Items)] /\ wire'[e] = wire[e]
    BY <1>2, <2>1, <2>3, ArrivalFacts
  <2> HIDE DEF f
  <2>5. Leaves("server")
    BY <1>2, <1>3, <2>1, AcceptedFacts
  <2>6. Leaves(e)
    BY <1>4, <2>5
  <2>7. EndTold'
    <3>1. reader["server"].pc # "done"
      BY <1>3, <1>4
    <3> QED
      BY <1>2, <1>3, <2>1, <3>1, EndAccepted
  <2>8. Alone(e) /\ Apart(e)
    BY <1>1, <2>6 DEF Alone, Apart, Leaves
  <2>9. e \notin foreign /\ ReadsWell(e)
    BY <1>2, <1>3, NotForeign DEF Wells
  <2>10. ReadsWell(e)'
    BY <1>1, <1>2, <2>4, <2>6, <2>8, <2>9, LeftWell
  <2>11. Wells'
    BY <1>1, <1>2, <2>1, <2>2, <2>8, <2>9, <2>10, ReplyStep DEF f
  <2>12. WsTypes' /\ Filled'
    <3>1. rd.count <= Len(rd.buffer)
      BY <1>1, <1>2, SMTT(40) DEF Fill, Heads
    <3>2. Fill(reader'[e]) <= Len(reader'[e].buffer)
      <4>1. /\ reader'[e].pc = "done" /\ reader'[e].count = rd.count
            /\ reader'[e].buffer = rd.buffer
        BY <2>6 DEF Leaves
      <4> QED
        BY <1>2, <3>1, <4>1 DEF Fill
    <3>3. reader[e].pc # "off" /\ reader'[e].pc # "off" /\ Filled
      BY <1>1, <2>6 DEF Leaves, WsInv
    <3> QED
      BY <1>1, <1>2, <2>4, <2>6, <3>2, <3>3, ReaderTypes DEF Leaves
  <2>13. WS!PongEchoes'
    BY <1>1, <1>2 DEF WS!PongEchoes
  <2> QED
    BY <2>7, <2>11, <2>12, <2>13 DEF WsInv
<1>5. CASE e = "server" /\ sock[e] = FALSE
  <2>1. wire' = wire /\ WS!Accepted("SOCKET_ERROR", 0)
    BY <1>5 DEF WS!CloseFrame
  <2>2. 0 = 1 <=> "SOCKET_ERROR" = "none"
    OBVIOUS
  <2>3. reader["server"].pc \notin {"off", "done"}
    BY <1>3, <1>5
  <2>4. wire' \in [WS!End -> Seq(Items)] /\ wire'["client"] = wire["client"]
        /\ wire'["server"] = wire["server"]
    BY <1>2, <2>1
  <2> QED
    BY <1>1, <1>3, <2>1, <2>2, <2>3, <2>4, AcceptInv
<1>6. CASE e # "server" /\ is_close[e] = TRUE
  <2>1. wire' = wire /\ WS!Rejected(e, "assertion") /\ e = "client"
    BY <1>6 DEF WS!CloseFrame, WS!End
  <2>2. "assertion" \in Results
    BY DEF Results
  <2> QED
    BY <1>1, <1>3, <2>1, <2>2, RejectInv
<1>7. CASE e # "server" /\ is_close[e] = FALSE
  <2>1. /\ wire' = wire /\ WS!CloseWebsocket(e) /\ WS!Pc(e, "done")
        /\ result' = [result EXCEPT ![e] = "closed"] /\ closes' = closes
    BY <1>7 DEF WS!CloseFrame
  <2>2. e = "client" /\ p = "server" /\ "server" \in WS!End
    BY <1>7 DEF WS!End, WS!Peer
  <2>3. result \in [WS!End -> Results] /\ closes \in Nat /\ "closed" \in Results
    BY <1>2 DEF WsTypes, Results
  <2>4. result' \in [WS!End -> Results] /\ result'[p] = result[p]
    BY <1>2, <2>1, <2>3
  <2>5. "done" \in Pcs
    BY DEF Pcs
  <2>6. Leaves(e)
    <3>1. /\ reader' \in [WS!End -> Readers] /\ reader'[p] = reader[p]
          /\ reader'[e].pc = "done" /\ reader'[e].head = reader[e].head
          /\ reader'[e].count = reader[e].count /\ reader'[e].buffer = reader[e].buffer
      BY <1>2, <2>1, <2>5, PcFacts
    <3>2. /\ is_close' \in [WS!End -> BOOLEAN] /\ sock' \in [WS!End -> BOOLEAN] /\ sock'[p] = sock[p]
      BY <1>2, <2>1, CloseFacts
    <3> QED
      BY <2>1, <2>3, <2>4, <3>1, <3>2 DEF Leaves
  <2>7. EndTold'
    <3>1. sock'[p] = sock[p] /\ sock'[e] = FALSE /\ is_close'[p] = is_close[p]
      BY <1>2, <2>1, CloseFacts
    <3>2. is_close[p] => ~ sock[p]
      BY <1>2 DEF EndTold
    <3>3. \A d \in WS!End : d = e \/ d = p
      BY WsPeers
    <3>4. \A d \in WS!End : is_close'[d] => ~ sock'[d]
      BY <3>1, <3>2, <3>3, Zenon
    <3>5. reader'[p] = reader[p]
      BY <2>6 DEF Leaves
    <3> QED
      BY <1>2, <2>1, <2>2, <2>4, <3>1, <3>4, <3>5, EndStays
  <2>8. wire' \in [WS!End -> Seq(Items)] /\ wire'[p] = wire[p] /\ wire'[e] = wire[e]
    BY <1>2, <2>1
  <2> QED
    BY <1>1, <1>3, <2>6, <2>7, <2>8, LeaveInv
<1> QED
  BY <1>2, <1>4, <1>5, <1>6, <1>7

\* An end sends a frame of its own accord.
LEMMA SendInv ==
  ASSUME WsInv, NEW e \in WS!End, NEW f \in Seq(Items), WS!Deliver(e, f), Wells',
         foreign' = foreign, sock' = sock, is_close' = is_close, reader' = reader, got' = got,
         pongs' = pongs, closes' = closes, result' = result,
         lost' \in [WS!End -> BOOLEAN], sent' \in [WS!End -> Seq(Nat)], open' \in [WS!End -> Nat]
  PROVE  WsInv'
<1>1. WsTypes /\ Filled /\ EndTold /\ WS!PongEchoes
  BY DEF WsInv
<1>2. wire' \in [WS!End -> Seq(Items)]
  BY <1>1, ArrivalFacts
<1>3. WsTypes' /\ Filled'
  <2>1. sock \in [WS!End -> BOOLEAN] /\ is_close \in [WS!End -> BOOLEAN]
    BY <1>1 DEF WsTypes
  <2> QED
    BY <1>1, <1>2, <2>1, SenderTypes
<1>4. EndTold' /\ WS!PongEchoes'
  BY <1>1 DEF EndTold, WS!PongEchoes
<1> QED
  BY <1>3, <1>4 DEF WsInv

LEMMA WriteInv ==
  ASSUME Small \in Nat, WsInv, NEW e \in WS!End, WS!Write(e)
  PROVE  WsInv'
<1>1. WsTypes /\ Wells
  BY DEF WsInv
<1>2. PICK len \in 1 .. Small, masked \in BOOLEAN :
        /\ sent' = [sent EXCEPT ![e] = Append(@, len)]
        /\ lost' = [lost EXCEPT ![e] = @ \/ (masked /\ len >= Small)]
        /\ WS!Deliver(e, WS!Frame("TEXT", TRUE, WS!Bytes(Len(sent[e]) + 1, FALSE, len), masked))
        /\ foreign' = foreign /\ sock' = sock /\ is_close' = is_close /\ reader' = reader
        /\ open' = open /\ got' = got /\ pongs' = pongs /\ closes' = closes /\ result' = result
  BY DEF WS!Write
<1> DEFINE n == Len(sent[e]) + 1
           f == WS!Frame("TEXT", TRUE, WS!Bytes(n, FALSE, len), masked)
<1>3. f \in Seq(Items)
  <2>1. n \in Nat \ {0} /\ len \in Nat /\ TRUE \in BOOLEAN /\ "TEXT" \in {"TEXT", "FRAME"}
    BY <1>1, TypesAt
  <2> HIDE DEF n
  <2> QED
    BY <2>1, DataFrameFor
<1>4. Wells'
  BY <1>1, WriteWell
<1>5. /\ sent \in [WS!End -> Seq(Nat)] /\ lost \in [WS!End -> BOOLEAN] /\ open \in [WS!End -> Nat]
      /\ sent[e] \in Seq(Nat) /\ len \in Nat /\ lost[e] \in BOOLEAN
  BY <1>1, TypesAt DEF WsTypes
<1>6. Append(sent[e], len) \in Seq(Nat)
  BY <1>5
<1>7. sent' \in [WS!End -> Seq(Nat)]
  BY <1>2, <1>5, <1>6
<1>8. lost' \in [WS!End -> BOOLEAN]
  BY <1>2, <1>5
<1>9. WS!Deliver(e, f)
  BY <1>2
<1> HIDE DEF f
<1> QED
  BY <1>2, <1>3, <1>4, <1>5, <1>7, <1>8, <1>9, SendInv

LEMMA ForeignDataInv ==
  ASSUME Small \in Nat, WsInv, NEW e \in WS!End, WS!ForeignData(e)
  PROVE  WsInv'
<1>1. WsTypes /\ Wells
  BY DEF WsInv
<1> DEFINE n == Len(sent[e]) + 1
           op == IF open[e] = 0 THEN "TEXT" ELSE "FRAME"
<1>2. PICK fin \in BOOLEAN, len \in 1 .. 2 :
        /\ WS!Deliver(e, WS!Frame(op, fin, WS!Bytes(n, FALSE, len), FALSE))
        /\ IF fin
           THEN /\ sent' = [sent EXCEPT ![e] = Append(@, open[e] + len)]
                /\ open' = [open EXCEPT ![e] = 0]
           ELSE /\ open' = [open EXCEPT ![e] = @ + len]
                /\ sent' = sent
        /\ foreign' = foreign /\ sock' = sock /\ is_close' = is_close /\ reader' = reader
        /\ lost' = lost /\ got' = got /\ pongs' = pongs /\ closes' = closes /\ result' = result
  BY DEF WS!ForeignData
<1> DEFINE f == WS!Frame(op, fin, WS!Bytes(n, FALSE, len), FALSE)
<1>3. f \in Seq(Items)
  <2>1. n \in Nat \ {0} /\ len \in Nat /\ FALSE \in BOOLEAN /\ op \in {"TEXT", "FRAME"}
    BY <1>1, TypesAt
  <2> HIDE DEF n, op
  <2> QED
    BY <2>1, DataFrameFor
<1>4. Wells'
  BY <1>1, ForeignDataWell
<1>5. /\ sent \in [WS!End -> Seq(Nat)] /\ lost \in [WS!End -> BOOLEAN] /\ open \in [WS!End -> Nat]
      /\ sent[e] \in Seq(Nat) /\ len \in Nat /\ open[e] \in Nat
  BY <1>1, TypesAt DEF WsTypes
<1>6. Append(sent[e], open[e] + len) \in Seq(Nat) /\ open[e] + len \in Nat
  BY <1>5
<1>7. sent' \in [WS!End -> Seq(Nat)] /\ open' \in [WS!End -> Nat]
  <2>1. CASE fin = TRUE
    <3>1. /\ sent' = [sent EXCEPT ![e] = Append(@, open[e] + len)]
          /\ open' = [open EXCEPT ![e] = 0]
      BY <1>2, <2>1
    <3> QED
      BY <1>5, <1>6, <3>1
  <2>2. CASE fin = FALSE
    <3>1. open' = [open EXCEPT ![e] = @ + len] /\ sent' = sent
      BY <1>2, <2>2
    <3> QED
      BY <1>5, <1>6, <3>1
  <2> QED
    BY <2>1, <2>2
<1>9. WS!Deliver(e, f)
  BY <1>2
<1> HIDE DEF f, op
<1> QED
  BY <1>2, <1>3, <1>4, <1>5, <1>7, <1>9, SendInv

\* The frames of controls.
LEMMA ControlInv ==
  ASSUME Small \in Nat, WsInv, NEW e \in WS!End, WS!Ping(e) \/ WS!ForeignControl(e)
  PROVE  WsInv'
<1>1. WsTypes /\ Wells
  BY DEF WsInv
<1>2. /\ lost \in [WS!End -> BOOLEAN] /\ sent \in [WS!End -> Seq(Nat)] /\ open \in [WS!End -> Nat]
  BY <1>1 DEF WsTypes
<1>3. Wells'
  BY <1>1, PingWell, ForeignControlWell
<1>4. /\ foreign' = foreign /\ sock' = sock /\ is_close' = is_close /\ reader' = reader /\ got' = got
      /\ pongs' = pongs /\ closes' = closes /\ result' = result /\ sent' = sent /\ open' = open
      /\ lost' = lost
  BY DEF WS!Ping, WS!ForeignControl
<1>5. \E f \in Seq(Items) : WS!Deliver(e, f)
  <2>1. CASE WS!Ping(e)
    <3>1. WS!Deliver(e, WS!Frame("PING", TRUE, << >>, FALSE))
      BY <2>1 DEF WS!Ping
    <3>2. "PING" \in Ops /\ << >> \in Seq(Items) /\ TRUE \in BOOLEAN
      BY DEF Ops
    <3>3. WS!Frame("PING", TRUE, << >>, FALSE) \in Seq(Items)
      BY <3>2, PlainFrame
    <3> QED
      BY <3>1, <3>3
  <2>2. CASE WS!ForeignControl(e)
    <3>1. PICK op \in WS!Control, len \in 0 .. 1 :
            WS!Deliver(e, WS!Frame(op, TRUE, WS!Bytes(0, FALSE, len), FALSE))
      BY <2>2 DEF WS!ForeignControl
    <3>2. WS!Bytes(0, FALSE, len) \in Seq(Items)
      <4>1. 0 \in Nat /\ len \in Nat
        OBVIOUS
      <4> QED
        BY <4>1, BytesFacts
    <3>3. op \in Ops /\ TRUE \in BOOLEAN
      BY DEF Ops, WS!Control
    <3>4. WS!Frame(op, TRUE, WS!Bytes(0, FALSE, len), FALSE) \in Seq(Items)
      BY <3>2, <3>3, PlainFrame
    <3> QED
      BY <3>1, <3>4
  <2> QED
    BY <2>1, <2>2
<1> QED
  BY <1>2, <1>3, <1>4, <1>5, SendInv

LEMMA CloseInv ==
  ASSUME Small \in Nat, WsInv, NEW e \in WS!End, WS!Close(e)
  PROVE  WsInv'
<1>1. WsTypes /\ Wells /\ Filled /\ EndTold /\ WS!PongEchoes
  BY DEF WsInv
<1>2. /\ foreign' = foreign /\ reader' = reader /\ got' = got /\ pongs' = pongs /\ closes' = closes
      /\ result' = result /\ sent' = sent /\ open' = open /\ lost' = lost
      /\ WS!CloseWebsocket(e)
      /\ IF sock[e] THEN WS!Deliver(e, WS!Frame("CLOSE", TRUE, << >>, FALSE)) ELSE wire' = wire
  BY DEF WS!Close
<1>3. /\ is_close' \in [WS!End -> BOOLEAN] /\ sock' \in [WS!End -> BOOLEAN]
      /\ sock'[WS!Peer(e)] = sock[WS!Peer(e)] /\ sock'[e] = FALSE
      /\ is_close'[WS!Peer(e)] = is_close[WS!Peer(e)] /\ is_close'[e] = TRUE
  BY <1>1, <1>2, CloseFacts
<1>4. Wells'
  BY <1>1, CloseWell
<1>5. wire' \in [WS!End -> Seq(Items)]
  <2>1. "CLOSE" \in Ops /\ << >> \in Seq(Items) /\ TRUE \in BOOLEAN
    BY DEF Ops
  <2>2. WS!Frame("CLOSE", TRUE, << >>, FALSE) \in Seq(Items)
    BY <2>1, PlainFrame
  <2>3. wire \in [WS!End -> Seq(Items)]
    BY <1>1 DEF WsTypes
  <2>4. WS!Deliver(e, WS!Frame("CLOSE", TRUE, << >>, FALSE)) \/ wire' = wire
    BY <1>2
  <2> QED
    BY <1>1, <2>2, <2>3, <2>4, ArrivalFacts
<1>6. /\ lost \in [WS!End -> BOOLEAN] /\ sent \in [WS!End -> Seq(Nat)] /\ open \in [WS!End -> Nat]
  BY <1>1 DEF WsTypes
<1>7. WsTypes' /\ Filled'
  BY <1>1, <1>2, <1>3, <1>5, <1>6, SenderTypes
<1>8. EndTold'
  <2>1. \A d \in WS!End : d = e \/ d = WS!Peer(e)
    BY WsPeers
  <2>2. is_close[WS!Peer(e)] => ~ sock[WS!Peer(e)]
    BY <1>1, WsPeers DEF EndTold
  <2>3. \A d \in WS!End : is_close'[d] => ~ sock'[d]
    BY <1>3, <2>1, <2>2, Zenon
  <2>4. "server" \in WS!End
    BY DEF WS!End
  <2>5. is_close["server"] => is_close'["server"]
    BY <1>3, <2>1, <2>4, Zenon
  <2> QED
    BY <1>1, <1>2, <2>3, <2>5, EndStays
<1>9. WS!PongEchoes'
  BY <1>1, <1>2 DEF WS!PongEchoes
<1> QED
  BY <1>4, <1>7, <1>8, <1>9 DEF WsInv

LEMMA ForeignGoneInv ==
  ASSUME WsInv, NEW e \in WS!End, WS!ForeignGone(e)
  PROVE  WsInv'
<1>1. WsTypes /\ Wells /\ Filled /\ EndTold /\ WS!PongEchoes
  BY DEF WsInv
<1>2. /\ foreign' = foreign /\ reader' = reader /\ got' = got /\ pongs' = pongs /\ closes' = closes
      /\ result' = result /\ sent' = sent /\ open' = open /\ lost' = lost /\ wire' = wire
      /\ is_close' = is_close /\ sock' = [sock EXCEPT ![e] = FALSE]
  BY DEF WS!ForeignGone
<1>3. Wells'
  BY <1>1, ForeignGoneWell
<1>4. /\ lost \in [WS!End -> BOOLEAN] /\ sent \in [WS!End -> Seq(Nat)] /\ open \in [WS!End -> Nat]
      /\ wire \in [WS!End -> Seq(Items)] /\ is_close \in [WS!End -> BOOLEAN] /\ sock \in [WS!End -> BOOLEAN]
  BY <1>1 DEF WsTypes
<1>5. sock' \in [WS!End -> BOOLEAN] /\ \A d \in WS!End : sock'[d] = FALSE \/ sock'[d] = sock[d]
  BY <1>2, <1>4
<1>6. WsTypes' /\ Filled'
  BY <1>1, <1>2, <1>4, <1>5, SenderTypes
<1>7. EndTold'
  <2>1. \A d \in WS!End : is_close'[d] => ~ sock'[d]
    BY <1>1, <1>2, <1>5, Zenon DEF EndTold
  <2> QED
    BY <1>1, <1>2, <2>1, EndStays
<1>8. WS!PongEchoes'
  BY <1>1, <1>2 DEF WS!PongEchoes
<1> QED
  BY <1>3, <1>6, <1>7, <1>8 DEF WsInv

LEMMA HandshakeInv ==
  ASSUME WsInv, WS!HandshakeOk
  PROVE  WsInv'
<1>1. WsTypes /\ Wells /\ Filled /\ EndTold /\ WS!PongEchoes
  BY DEF WsInv
<1>2. /\ \A e \in WS!End : e \notin foreign => reader[e].pc = "handshake"
      /\ reader' = [e \in WS!End |-> IF e \in foreign THEN reader[e]
                     ELSE [reader[e] EXCEPT !.pc = IF e = "server" THEN "loop" ELSE "answered"]]
      /\ got' = got /\ foreign' = foreign /\ sent' = sent /\ open' = open
      /\ sock' = sock /\ is_close' = is_close /\ pongs' = pongs
      /\ closes' = closes /\ result' = result
  BY DEF WS!HandshakeOk
<1>3. \A e \in WS!End :
        /\ reader'[e] \in Readers
        /\ e \in foreign <=> reader'[e].pc = "off"
        /\ reader'[e].pc # "done" /\ reader[e].pc # "done"
        /\ Fill(reader'[e]) <= Len(reader'[e].buffer)
  <2> SUFFICES ASSUME NEW e \in WS!End
               PROVE  /\ reader'[e] \in Readers
                      /\ e \in foreign <=> reader'[e].pc = "off"
                      /\ reader'[e].pc # "done" /\ reader[e].pc # "done"
                      /\ Fill(reader'[e]) <= Len(reader'[e].buffer)
    OBVIOUS
  <2>1. reader[e] \in Readers /\ Fill(reader[e]) <= Len(reader[e].buffer)
        /\ (e \in foreign <=> reader[e].pc = "off")
    BY <1>1, TypesAt DEF Filled, WsTypes
  <2>2. CASE e \in foreign
    BY <1>2, <2>1, <2>2
  <2>3. CASE e \notin foreign
    <3> DEFINE q == IF e = "server" THEN "loop" ELSE "answered"
               r2 == [reader[e] EXCEPT !.pc = q]
    <3>1. reader'[e] = r2 /\ reader[e].pc = "handshake"
      BY <1>2, <2>3
    <3>2. q \in {"loop", "answered"}
      OBVIOUS
    <3> HIDE DEF q
    <3>3. r2 \in Readers /\ r2.pc = q /\ r2.count = reader[e].count /\ r2.buffer = reader[e].buffer
      BY <2>1, <3>2 DEF Readers, Pcs, Live
    <3>4. Fill(r2) = Fill(reader[e])
      BY <3>1, <3>2, <3>3 DEF Fill
    <3> HIDE DEF r2
    <3> QED
      BY <2>1, <2>3, <3>1, <3>2, <3>3, <3>4
  <2> QED
    BY <2>2, <2>3
<1>4. reader' \in [WS!End -> Readers]
  BY <1>2, <1>3
<1>5. Wells'
  BY <1>1, HandshakeWell
<1>6. WsTypes' /\ Filled'
  BY <1>1, <1>2, <1>3, <1>4, HandshakeFacts DEF WsTypes, Filled
<1>7. EndTold'
  <2>1. "server" \in WS!End
    BY DEF WS!End
  <2> QED
    BY <1>1, <1>2, <1>3, <2>1 DEF EndTold
<1>8. WS!PongEchoes'
  BY <1>1, <1>2 DEF WS!PongEchoes
<1> QED
  BY <1>5, <1>6, <1>7, <1>8 DEF WsInv

LEMMA ConnectedInv ==
  ASSUME WsInv, WS!Connected
  PROVE  WsInv'
<1>1. WsTypes /\ Wells /\ Filled /\ EndTold /\ WS!PongEchoes
  BY DEF WsInv
<1>2. /\ got' = got /\ foreign' = foreign /\ sent' = sent /\ open' = open /\ sock' = sock
      /\ is_close' = is_close /\ pongs' = pongs /\ closes' = closes /\ result' = result
  BY DEF WS!Connected
<1>3. \A e \in WS!End :
        /\ e \in foreign <=> reader'[e].pc = "off"
        /\ Fill(reader'[e]) <= Len(reader'[e].buffer)
  <2> SUFFICES ASSUME NEW e \in WS!End
               PROVE  /\ e \in foreign <=> reader'[e].pc = "off"
                      /\ Fill(reader'[e]) <= Len(reader'[e].buffer)
    OBVIOUS
  <2>1. Fill(reader[e]) <= Len(reader[e].buffer) /\ (e \in foreign <=> reader[e].pc = "off")
    BY <1>1 DEF Filled, WsTypes
  <2>2. CASE e = "server"
    BY <1>1, <2>1, <2>2, ConnectedReader
  <2>3. CASE e = "client"
    <3>1. /\ reader[e].pc = "answered" /\ e \notin foreign /\ reader'[e].pc = "idle"
          /\ reader'[e].count = reader[e].count /\ reader'[e].buffer = reader[e].buffer
          /\ reader[e] \in Readers
      BY <1>1, <2>3, ConnectedReader, TypesAt
    <3>2. Fill(reader'[e]) = Fill(reader[e])
      BY <3>1 DEF Fill, Readers
    <3> QED
      BY <2>1, <3>1, <3>2
  <2> QED
    BY <2>2, <2>3 DEF WS!End
<1>4. Wells'
  BY <1>1, ConnectedWell
<1>5. WsTypes' /\ Filled'
  BY <1>1, <1>2, <1>3, ConnectedReader, ConnectedFacts DEF WsTypes, Filled
<1>6. EndTold'
  BY <1>1, <1>2, ConnectedReader DEF EndTold
<1>7. WS!PongEchoes'
  BY <1>1, <1>2 DEF WS!PongEchoes
<1> QED
  BY <1>4, <1>5, <1>6, <1>7 DEF WsInv

LEMMA RefusedInv ==
  ASSUME WsInv, WS!ServerRefuses \/ WS!ClientRefused
  PROVE  WsInv'
<1>1. /\ wire' = wire /\ got' = got /\ foreign' = foreign /\ sent' = sent /\ open' = open
      /\ lost' = lost /\ pongs' = pongs
  BY DEF WS!ServerRefuses, WS!ClientRefused
<1>2. wire \in [WS!End -> Seq(Items)]
  BY DEF WsInv, WsTypes
<1>3. CASE WS!ServerRefuses
  <2>1. /\ reader["server"].pc \notin {"off", "done"}
        /\ WS!Accepted("none", 1) \/ WS!Accepted("assertion", 0) \/ WS!Accepted("SOCKET_ERROR", 0)
    BY <1>3 DEF WS!ServerRefuses
  <2>2. 0 \in {0, 1} /\ 1 \in {0, 1} /\ (1 = 1 <=> "none" = "none") /\ (0 = 1 <=> "SOCKET_ERROR" = "none")
    OBVIOUS
  <2>3. wire'["client"] = wire["client"] /\ wire'["server"] = wire["server"]
        /\ wire' \in [WS!End -> Seq(Items)]
    BY <1>1, <1>2
  <2> QED
    BY <1>1, <2>1, <2>2, <2>3, AcceptInv
<1>4. CASE WS!ClientRefused
  <2>1. WS!Rejected("client", "refused") /\ "refused" \in Results
        /\ reader["client"].pc \notin {"off", "done"}
    BY <1>4 DEF WS!ClientRefused, Results
  <2> QED
    BY <1>1, <2>1, RejectInv
<1> QED
  BY <1>3, <1>4

\* A reader that has read nothing.
LEMMA FirstWell ==
  ASSUME NEW rd \in Readers, rd.pc = "handshake", rd.count = 0, rd.buffer = << >>,
         rd.head.len = 0, NEW alien, NEW bad, bad = FALSE, NEW up, NEW o, o = 0
  PROVE  Well(alien, bad, << >>, rd, << >>, << >>, o, up)
<1> DEFINE z == << >>
<1>1. Due(rd) = 0 /\ Hand(rd) = 0 /\ Fill(rd) = 0
  BY DEF Due, Hand, Fill
<1>2. Has(rd) = z
  BY <1>1 DEF Has
<1>3. Chain(z, 0, 1)
  BY DEF Chain, NoneBefore
<1>4. Buffered(rd, 1)
  BY <1>1 DEF Buffered
<1>5. \A S : CountIn(z, S) = 0
  BY CountEmpty
<1>6. Len(z) = 0 /\ DOMAIN z = {}
  OBVIOUS
<1> HIDE DEF z
<1>7. Whole(z, rd, 0) = 0 /\ \A n : Amount(z, rd, n) = 0
  BY <1>1, <1>2, <1>5 DEF Whole, Amount
<1>8. Measured(z, rd, 0, z, o, up)
  BY <1>6, <1>7 DEF Measured
<1>9. Reading(z, rd, 0, z, o, up)
  <2>1. 0 + Hand(rd) + 1 = 1 /\ 0 + 1 = 1
    BY <1>1
  <2>2. Chain(z, Due(rd), 0 + Hand(rd) + 1)
    BY <1>1, <1>3, <2>1, Zenon
  <2> QED
    BY <1>4, <1>8, <2>1, <2>2 DEF Reading
<1>10. Told(z, rd, z, z, o, up)
  <2>1. AllGiven(z, z)
    BY <1>6 DEF AllGiven
  <2>2. Reading(z, rd, Len(z), z, o, up)
    BY <1>6, <1>9
  <2> QED
    BY <2>1, <2>2 DEF Told
<1>11. Plain(z, rd)
  BY <1>6 DEF Plain
<1>12. Well(alien, bad, z, rd, z, z, o, up)
  BY <1>10, <1>11 DEF Well
<1> QED
  BY <1>12 DEF z

LEMMA FirstInv ==
  ASSUME WS!Init
  PROVE  WsInv
<1>1. /\ foreign \in {{}, {"client"}, {"server"}}
      /\ wire = [e \in WS!End |-> << >>] /\ sock = [e \in WS!End |-> TRUE]
      /\ is_close = [e \in WS!End |-> FALSE]
      /\ reader = [e \in WS!End |->
           [pc |-> IF e \in foreign THEN "off" ELSE "handshake",
            head |-> WS!NoHead, count |-> 0, buffer |-> << >>]]
      /\ sent = [e \in WS!End |-> << >>] /\ open = [e \in WS!End |-> 0]
      /\ lost = [e \in WS!End |-> FALSE] /\ got = [e \in WS!End |-> << >>]
      /\ pongs = << >> /\ closes = 0 /\ result = [e \in WS!End |-> "none"]
  BY DEF WS!Init
<1>2. WS!NoHead \in Heads /\ WS!NoHead.len = 0
  BY DEF WS!NoHead, Heads
<1>3. "server" \in WS!End /\ \A e \in WS!End : WS!Peer(e) \in WS!End
  BY DEF WS!End, WS!Peer
<1>4. \A e \in WS!End :
        /\ reader[e] \in Readers /\ reader[e].count = 0 /\ reader[e].buffer = << >>
        /\ reader[e].head.len = 0 /\ (e \in foreign <=> reader[e].pc = "off")
        /\ e \notin foreign => reader[e].pc = "handshake"
        /\ reader[e].pc # "frame" /\ reader[e].pc # "done"
  <2> SUFFICES ASSUME NEW e \in WS!End
               PROVE  /\ reader[e] \in Readers /\ reader[e].count = 0 /\ reader[e].buffer = << >>
                      /\ reader[e].head.len = 0 /\ (e \in foreign <=> reader[e].pc = "off")
                      /\ e \notin foreign => reader[e].pc = "handshake"
                      /\ reader[e].pc # "frame" /\ reader[e].pc # "done"
    OBVIOUS
  <2> DEFINE q == IF e \in foreign THEN "off" ELSE "handshake"
             h == WS!NoHead
             r == [pc |-> q, head |-> h, count |-> 0, buffer |-> << >>]
  <2>1. reader[e] = r
    BY <1>1
  <2>2. q \in {"off", "handshake"} /\ (q = "off" <=> e \in foreign)
    OBVIOUS
  <2>3. << >> \in Seq(Items) /\ 0 \in Nat /\ h \in Heads
    BY <1>2
  <2> HIDE DEF q, h
  <2>4. r \in Readers
    BY <2>2, <2>3 DEF Readers, Pcs, Live
  <2>5. reader[e].pc = q /\ reader[e].head = h /\ reader[e].count = 0 /\ reader[e].buffer = << >>
    BY <2>1
  <2> HIDE DEF r
  <2> QED
    BY <1>2, <2>1, <2>2, <2>4, <2>5 DEF h
<1>5. WsTypes
  <2>1. reader \in [WS!End -> Readers]
    BY <1>1, <1>4
  <2>2. << >> \in Seq(Items) /\ << >> \in Seq(Nat) /\ << >> \in Seq(Seq(Items))
        /\ << >> \in Seq([payload : Seq(Items), count : Nat]) /\ "none" \in Results
    BY DEF Results
  <2>3. /\ wire \in [WS!End -> Seq(Items)] /\ sent \in [WS!End -> Seq(Nat)]
        /\ got \in [WS!End -> Seq(Seq(Items))] /\ result \in [WS!End -> Results]
    BY <1>1, <2>2
  <2>4. /\ sock \in [WS!End -> BOOLEAN] /\ is_close \in [WS!End -> BOOLEAN]
        /\ lost \in [WS!End -> BOOLEAN] /\ open \in [WS!End -> Nat]
    BY <1>1
  <2> QED
    BY <1>1, <1>4, <2>1, <2>2, <2>3, <2>4 DEF WsTypes
<1>6. Filled
  BY <1>4 DEF Filled, Fill
<1>7. Wells
  <2> SUFFICES ASSUME NEW e \in WS!End, e \notin foreign
               PROVE  ReadsWell(e) /\ open[e] = 0
    BY DEF Wells
  <2> DEFINE p == WS!Peer(e)
  <2>1. /\ wire[e] = << >> /\ got[e] = << >> /\ sent[p] = << >> /\ open[p] = 0 /\ open[e] = 0
        /\ lost[p] = FALSE /\ sock[e] = TRUE
    BY <1>1, <1>3
  <2>2. Well(p \in foreign, FALSE, << >>, reader[e], << >>, << >>, 0, TRUE)
    BY <1>4, FirstWell
  <2> QED
    BY <2>1, <2>2 DEF ReadsWell
<1>8. WS!PongEchoes
  BY <1>1 DEF WS!PongEchoes
<1>9. EndTold
  BY <1>1, <1>3, <1>4 DEF EndTold
<1> QED
  BY <1>5, <1>6, <1>7, <1>8, <1>9 DEF WsInv

LEMMA StillInv ==
  ASSUME WsInv, UNCHANGED WS!vars
  PROVE  WsInv'
<1>1. /\ foreign' = foreign /\ reader' = reader /\ got' = got /\ pongs' = pongs /\ closes' = closes
      /\ result' = result /\ sent' = sent /\ open' = open /\ lost' = lost /\ wire' = wire
      /\ is_close' = is_close /\ sock' = sock
  BY DEF WS!vars
<1>2. WsTypes /\ Wells /\ Filled /\ EndTold /\ WS!PongEchoes /\ "server" \in WS!End
  BY DEF WsInv, WS!End
<1>3. Wells'
  BY <1>1, <1>2, QuietWell
<1>4. WsTypes' /\ Filled' /\ EndTold' /\ WS!PongEchoes'
  BY <1>1, <1>2 DEF WsTypes, Filled, EndTold, WS!PongEchoes
<1> QED
  BY <1>3, <1>4 DEF WsInv

\* The library's count is that of the module.
LEMMA SameSize == \A S : WS!Cardinality(S) = Cardinality(S)
  BY DEF WS!Cardinality, Cardinality

LEMMA WsInvSafe ==
  ASSUME WsInv
  PROVE  WebSocketSafe
<1>1. WsTypes /\ Wells /\ EndTold /\ WS!PongEchoes
  BY DEF WsInv
<1>2. WS!MessagesArrive
  <2> SUFFICES ASSUME NEW e \in WS!End \ foreign, ~ lost[WS!Peer(e)]
               PROVE  /\ reader[e].pc # "garbled"
                      /\ \A i \in DOMAIN got[e] :
                           /\ i <= Len(sent[WS!Peer(e)])
                           /\ WS!Cardinality({k \in DOMAIN got[e][i] : got[e][i][k] = WS!Byte(i, FALSE)})
                                = sent[WS!Peer(e)][i]
                           /\ \A k \in DOMAIN got[e][i] : got[e][i][k] \in {WS!Byte(i, FALSE), WS!Byte(0, FALSE)}
    BY DEF WS!MessagesArrive
  <2>1. Told(wire[e], reader[e], got[e], sent[WS!Peer(e)], open[WS!Peer(e)], sock[e])
    BY <1>1 DEF Wells, ReadsWell, Well
  <2>2. \A i \in DOMAIN got[e] : IsMessage(got[e][i], sent[WS!Peer(e)], i)
    BY <2>1 DEF Told, AllGiven
  <2>3. ASSUME NEW i \in DOMAIN got[e]
        PROVE  /\ i <= Len(sent[WS!Peer(e)])
               /\ WS!Cardinality({k \in DOMAIN got[e][i] : got[e][i][k] = WS!Byte(i, FALSE)})
                    = sent[WS!Peer(e)][i]
               /\ \A k \in DOMAIN got[e][i] : got[e][i][k] \in {WS!Byte(i, FALSE), WS!Byte(0, FALSE)}
    <3> DEFINE m == got[e][i]
               s == sent[WS!Peer(e)]
               b == WS!Byte(i, FALSE)
    <3>1. IsMessage(m, s, i)
      BY <2>2
    <3> HIDE DEF m, s, b
    <3>2. i <= Len(s) /\ CountIn(m, {b}) = s[i]
          /\ \A k \in DOMAIN m : m[k] \in {b, WS!Byte(0, FALSE)}
      BY <3>1 DEF IsMessage, b
    <3>3. {k \in DOMAIN m : m[k] = b} = {k \in DOMAIN m : m[k] \in {b}}
      OBVIOUS
    <3>4. WS!Cardinality({k \in DOMAIN m : m[k] = b}) = s[i]
      BY <3>2, <3>3, SameSize DEF CountIn
    <3> QED
      BY <3>2, <3>4 DEF m, s, b
  <2> QED
    BY <2>1, <2>3 DEF Told
<1>3. WS!EndIsToldOnce
  BY <1>1 DEF EndTold, WS!EndIsToldOnce, WS!End
<1> QED
  BY <1>1, <1>2, <1>3 DEF WebSocketSafe, WS!WebSocketSafe

\* Messages of a web socket arrive whole, once and in order, however they were
\* cut and whoever closes meanwhile; a PONG echoes its PING; the server learns
\* of the connection's end exactly once.  Messages of an end of which a frame is
\* lost, to a missing mask bit or to the handshake, are excepted.  For any Small,
\* and any number of messages and frames.
THEOREM WebSocketCorrect ==
  ASSUME Small \in Nat
  PROVE  WS!Spec => []WebSocketSafe
<1>1. WS!Init => WsInv
  BY FirstInv
<1>2. WsInv /\ [WS!Next]_WS!vars => WsInv'
  <2> SUFFICES ASSUME WsInv, [WS!Next]_WS!vars
               PROVE  WsInv'
    OBVIOUS
  <2>1. CASE WS!HandshakeOk
    BY <2>1, HandshakeInv
  <2>2. CASE WS!ServerRefuses \/ WS!ClientRefused
    BY <2>2, RefusedInv
  <2>3. CASE WS!ReadCall
    BY <2>3, ReadCallInv
  <2>4. CASE WS!LoopTop
    BY <2>4, LoopTopInv
  <2>5. ASSUME NEW e \in WS!End, WS!Write(e)
        PROVE  WsInv'
    BY <2>5, WriteInv
  <2>6. ASSUME NEW e \in WS!End, WS!Ping(e) \/ WS!ForeignControl(e)
        PROVE  WsInv'
    BY <2>6, ControlInv
  <2>7. ASSUME NEW e \in WS!End, WS!Close(e)
        PROVE  WsInv'
    BY <2>7, CloseInv
  <2>8. ASSUME NEW e \in WS!End, WS!ForeignData(e)
        PROVE  WsInv'
    BY <2>8, ForeignDataInv
  <2>9. ASSUME NEW e \in WS!End, WS!ForeignGone(e)
        PROVE  WsInv'
    BY <2>9, ForeignGoneInv
  <2>10. ASSUME NEW e \in WS!End, WS!ReadHeader(e)
         PROVE  WsInv'
    BY <2>10, ReadHeaderInv
  <2>11. ASSUME NEW e \in WS!End, WS!ReadPayload(e)
         PROVE  WsInv'
    BY <2>11, ReadPayloadInv
  <2>12. ASSUME NEW e \in WS!End, WS!ReadFails(e)
         PROVE  WsInv'
    BY <2>12, ReadFailsInv
  <2>13. ASSUME NEW e \in WS!End, WS!CloseFrame(e)
         PROVE  WsInv'
    BY <2>13, CloseFrameInv
  <2>14. ASSUME NEW e \in WS!End, WS!PingFrame(e)
         PROVE  WsInv'
    BY <2>14, PingFrameInv
  <2>15. ASSUME NEW e \in WS!End, WS!PongFrame(e)
         PROVE  WsInv'
    BY <2>15, PongFrameInv
  <2>16. ASSUME NEW e \in WS!End, WS!DataFrame(e)
         PROVE  WsInv'
    BY <2>16, DataFrameInv
  <2>17. CASE UNCHANGED WS!vars
    BY <2>17, StillInv
  <2>18. CASE WS!Connected
    BY <2>18, ConnectedInv
  <2> QED
    BY <2>1, <2>2, <2>3, <2>4, <2>5, <2>6, <2>7, <2>8, <2>9, <2>10, <2>11, <2>12, <2>13,
       <2>14, <2>15, <2>16, <2>17, <2>18 DEF WS!Next
<1>3. WsInv => WebSocketSafe
  BY WsInvSafe
<1> QED
  BY <1>1, <1>2, <1>3, PTL DEF WS!Spec
=============================================================================
