---------------------------- MODULE ServiceStart ----------------------------
(***************************************************************************)
(* How a service starts: its module is loaded (ts/lib/loader.ts, init_cb   *)
(* of src/lib.rs), skynet.start() sets a timer, and init_service awaits    *)
(* the functions that were given to init(), the function of start(), and   *)
(* the functions given to init() meanwhile (index.ts).  .launcher, which   *)
(* answers the newservice() of whoever launched it, is told the result.    *)
(*                                                                         *)
(* The name of a function is left out: it can only make init() throw,      *)
(* after the function was pushed, and whoever calls init() may throw here  *)
(* anyway.                                                                 *)
(***************************************************************************)
EXTENDS Integers, Sequences

CONSTANT MaxFn  \* Bound: the functions given to init().

Fn == 1 .. MaxFn
Start == MaxFn + 1  \* The function given to start().
Nothing == 0

VARIABLES
  loader,     \* The module: "loading", "loaded" or "failed".
  pc,         \* Where init_service is.
  defined,    \* Whether init_func is defined ...
  init_func,  \* ... and what is in it.
  funcs,      \* What the loop of init_all has before it.
  awaited,    \* What init_service awaits.
  state,      \* Of each function: "new", "queued", "runs", "ended" or "threw".
  status,     \* Of the service: "up", "exiting" or "gone".
  told,       \* The messages to .launcher.
  order       \* History: the functions that were pushed, in order.

startVars == <<loader, pc, defined, init_func, funcs, awaited, state, status, told, order>>

Init ==
  /\ loader = "loading" /\ pc = "none"
  /\ defined = TRUE /\ init_func = << >> /\ funcs = << >> /\ awaited = Nothing
  /\ state = [f \in Fn \cup {Start} |-> "new"]
  /\ status = "up" /\ told = << >> /\ order = << >>

-----------------------------------------------------------------------------

\* The module's code calls start().
CallStart ==
  /\ status # "gone" /\ pc = "none" /\ loader # "failed"
  /\ pc' = "timer"
  /\ UNCHANGED <<loader, defined, init_func, funcs, awaited, state, status, told, order>>

Loaded ==
  /\ status # "gone" /\ loader = "loading"
  /\ loader' = "loaded"
  /\ UNCHANGED <<pc, defined, init_func, funcs, awaited, state, status, told, order>>

\* It throws, before or behind its start(): the service exits, and .launcher
\* is told nothing.
LoadFails ==
  /\ status # "gone" /\ loader = "loading"
  /\ loader' = "failed" /\ status' = "exiting"
  /\ UNCHANGED <<pc, defined, init_func, funcs, awaited, state, told, order>>

\* init(), called by the module, by a function or by a handler.  While
\* init_func is undefined, nobody awaits the function.
InitFn(f) ==
  /\ status # "gone" /\ state[f] = "new"
  /\ \/ /\ defined
        /\ init_func' = Append(init_func, f) /\ order' = Append(order, f)
        /\ state' = [state EXCEPT ![f] = "queued"]
     \/ /\ ~ defined
        /\ state' = [state EXCEPT ![f] = "runs"]
        /\ UNCHANGED <<init_func, order>>
  /\ UNCHANGED <<loader, pc, defined, funcs, awaited, status, told>>

\* The loop of init_all goes on with the first function of queue.
LoopOver(queue) ==
  \/ /\ queue = << >> /\ awaited' = Nothing /\ funcs' = queue
     /\ UNCHANGED state
  \/ /\ queue # << >> /\ awaited' = Head(queue) /\ funcs' = Tail(queue)
     /\ state' = [state EXCEPT ![Head(queue)] = "runs"]

\* Faulty variant of InitAll: init_func stays as it is until the loop is over.
InitAllLate ==
  /\ init_func' = << >> /\ UNCHANGED defined
  /\ LoopOver(init_func)

\* init_all takes the functions over and begins the first.
InitAll ==
  /\ defined' = FALSE /\ init_func' = << >>
  /\ LoopOver(init_func)

DispatchTimer ==
  /\ status # "gone" /\ pc = "timer"
  /\ pc' = "first" /\ InitAll
  /\ UNCHANGED <<loader, status, told, order>>

LoopGoesOn ==
  /\ status # "gone" /\ pc \in {"first", "second"}
  /\ awaited # Nothing /\ state[awaited] = "ended"
  /\ LoopOver(funcs)
  /\ UNCHANGED <<loader, pc, defined, init_func, status, told, order>>

\* The first init_all has returned: init_func = [], and start_func is called.
StartFunc ==
  /\ status # "gone" /\ pc = "first" /\ awaited = Nothing
  /\ pc' = "start" /\ awaited' = Start
  /\ defined' = TRUE /\ init_func' = << >>
  /\ state' = [state EXCEPT ![Start] = "runs"]
  /\ UNCHANGED <<loader, funcs, status, told, order>>

Started ==
  /\ status # "gone" /\ pc = "start" /\ state[Start] = "ended"
  /\ pc' = "second" /\ InitAll
  /\ UNCHANGED <<loader, status, told, order>>

Launched ==
  /\ status # "gone" /\ pc = "second" /\ awaited = Nothing
  /\ pc' = "launched" /\ told' = Append(told, "LAUNCHOK")
  /\ UNCHANGED <<loader, defined, init_func, funcs, awaited, state, status, order>>

\* The catch of init_service: ERROR, and the REMOVE of exit().
InitFails ==
  /\ status # "gone" /\ awaited # Nothing /\ state[awaited] = "threw"
  /\ pc' = "failed" /\ told' = told \o <<"ERROR", "REMOVE">>
  /\ awaited' = Nothing /\ status' = "exiting"
  /\ UNCHANGED <<loader, defined, init_func, funcs, state, order>>

Ends(f) ==
  /\ status # "gone" /\ state[f] = "runs"
  /\ \E end \in {"ended", "threw"} : state' = [state EXCEPT ![f] = end]
  /\ UNCHANGED <<loader, pc, defined, init_func, funcs, awaited, status, told, order>>

\* The service calls exit(), and goes on until the round is over.
Exit ==
  /\ status = "up"
  /\ status' = "exiting" /\ told' = Append(told, "REMOVE")
  /\ UNCHANGED <<loader, pc, defined, init_func, funcs, awaited, state, order>>

Retire ==
  /\ status = "exiting" /\ status' = "gone"
  /\ UNCHANGED <<loader, pc, defined, init_func, funcs, awaited, state, told, order>>

Continues ==
  \/ DispatchTimer \/ LoopGoesOn \/ StartFunc \/ Started \/ Launched \/ InitFails

Next ==
  \/ CallStart \/ Loaded \/ LoadFails \/ Exit \/ Retire \/ Continues
  \/ \E f \in Fn : InitFn(f)
  \/ \E f \in Fn \cup {Start} : Ends(f)

Spec == Init /\ [][Next]_startVars

\* The timer comes, what is settled resumes, and the functions of the service
\* come to an end.
Progress == Continues \/ \E f \in Fn \cup {Start} : Ends(f)

-----------------------------------------------------------------------------
(* Properties.                                                             *)

\* The functions are awaited one after the other, in the order in which they
\* were given to init(): those before one that runs or has run have ended.
OneByOne ==
  \A i, j \in DOMAIN order :
    i < j /\ state[order[j]] # "queued" => state[order[i]] = "ended"

\* No function is forgotten between the two init_all's, and none pushed twice.
NoneForgotten ==
  LET waiting == init_func \o funcs
  IN  \A f \in Fn : state[f] = "queued" <=>
        \E i \in DOMAIN waiting : \A j \in DOMAIN waiting : waiting[j] = f <=> j = i

\* .launcher learns one result: LAUNCHOK if all that was pushed has ended, and
\* start_func after the functions that were there before; ERROR if something
\* that was awaited threw, and then the REMOVE of exit() comes next.
ToldTruly ==
  /\ \A i, j \in DOMAIN told : told[i] # "REMOVE" /\ told[j] # "REMOVE" => i = j
  /\ \A i \in DOMAIN told :
       /\ told[i] = "LAUNCHOK" => \A f \in {Start} \cup {order[j] : j \in DOMAIN order} :
                                    state[f] = "ended"
       /\ told[i] = "ERROR" => /\ \E f \in {Start} \cup {order[j] : j \in DOMAIN order} :
                                    state[f] = "threw"
                               /\ i < Len(told) /\ told[i + 1] = "REMOVE"

StartSafe == OneByOne /\ NoneForgotten /\ ToldTruly

\* Whoever launched the service hears of it, unless its module fails to load
\* (the exit of the loader tells nobody).
Starts == pc = "timer"
LauncherTold == told # << >> \/ loader = "failed"
=============================================================================
