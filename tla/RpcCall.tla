------------------------------ MODULE RpcCall ------------------------------
(***************************************************************************)
(* What a call of one service to another promises, without sessions, maps  *)
(* or mailboxes: the callee (or its death) decides a call at most once, the*)
(* first decision stands, and the caller's promise settles as decided -    *)
(* unless the caller itself gives the call up.                             *)
(***************************************************************************)
CONSTANTS Service, CallId

VARIABLES
  state,    \* [Service -> [CallId -> State]]: the caller's side.
  verdict   \* [Service -> [CallId -> Verdict]]: the callee's side.

State   == {"idle", "open", "ok", "failed", "void"}
Verdict == {"none", "ok", "failed"}

Init ==
  /\ state = [c \in Service |-> [i \in CallId |-> "idle"]]
  /\ verdict = [c \in Service |-> [i \in CallId |-> "none"]]

Moves(c, i, from, to) == state[c][i] \in from /\ state'[c][i] = to

\* The callee may be going down already, and have said so.
Open(c, i) == Moves(c, i, {"idle"}, "open") /\ verdict'[c][i] \in {"none", "failed"}

\* The callee answers, refuses or dies.
Decide(c, i) ==
  /\ Moves(c, i, {"open"}, "open")
  /\ verdict[c][i] = "none"
  /\ verdict'[c][i] \in {"ok", "failed"}

Settle(c, i) ==
  /\ verdict[c][i] \in {"ok", "failed"}
  /\ Moves(c, i, {"open"}, verdict[c][i])
  /\ verdict'[c][i] = verdict[c][i]

\* The caller is told by other means that the callee is down.
GiveUp(c, i) == Moves(c, i, {"open"}, "failed") /\ verdict'[c][i] = "failed"

\* The caller exits, or its request was never accepted.
Void(c, i) == Moves(c, i, State, "void") /\ verdict'[c][i] = "none"

Step(c, i) == Open(c, i) \/ Decide(c, i) \/ Settle(c, i) \/ GiveUp(c, i) \/ Void(c, i)

Next ==
  \A c \in Service, i \in CallId :
    \/ Step(c, i)
    \/ state'[c][i] = state[c][i] /\ verdict'[c][i] = verdict[c][i]

Spec == Init /\ [][Next]_<<state, verdict>>
=============================================================================
