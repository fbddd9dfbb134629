---------------------- MODULE SkynetSessionRefinement ----------------------
(***************************************************************************)
(* The session bookkeeping implements RpcCall.  A call is decided by the   *)
(* first message in the caller's mailbox that can settle it.               *)
(***************************************************************************)
EXTENDS SkynetSession

\* The caller has exited, or the request was not accepted.
IsVoid(c, i) == status[c] # "up" \/ (call[c][i].state # "idle" /\ call[c][i].session = 0)

StateOf(c, i) ==
  LET state == call[c][i].state
  IN  CASE IsVoid(c, i)                                       -> "void"
        [] ~IsVoid(c, i) /\ state = "idle"                    -> "idle"
        [] ~IsVoid(c, i) /\ state = "waiting"                 -> "open"
        [] ~IsVoid(c, i) /\ state \in {"resolved", "returned"} -> "ok"
        [] ~IsVoid(c, i) /\ state \in {"rejected", "failed"}   -> "failed"

\* Where the answers to the call i are in the mailbox of c.
Answers(c, i) == {k \in 1 .. Len(mailbox[c]) : Decides(mailbox[c][k], c, i)}

VerdictOf(c, i) ==
  CASE StateOf(c, i) \in {"ok", "failed"} -> StateOf(c, i)
    [] StateOf(c, i) = "open" /\ Answers(c, i) # {} ->
         LET first == CHOOSE k \in Answers(c, i) : \A l \in Answers(c, i) : k <= l
         IN  IF mailbox[c][first].type = "RESPONSE" THEN "ok" ELSE "failed"
    [] OTHER -> "none"

Rpc == INSTANCE RpcCall WITH
         state   <- [c \in Service |-> [i \in CallId |-> StateOf(c, i)]],
         verdict <- [c \in Service |-> [i \in CallId |-> VerdictOf(c, i)]]

\* dispatch_message_impl, _error_dispatch, ret, response and exit together
\* give a caller what RpcCall promises: the first answer that the callee
\* sends decides, later ones and the callee's death change nothing.
ImplementsRpc == Rpc!Spec

=============================================================================
