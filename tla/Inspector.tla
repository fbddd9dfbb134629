----------------------------- MODULE Inspector -----------------------------
(***************************************************************************)
(* Debugging a service: the service itself (src/mod_inspector.rs with the  *)
(* debug command "v8inspector"), the service .v8_inspector                 *)
(* (ts/service/v8_inspector.ts), which has a web socket to every tool, and *)
(* the tools.  A service that stands at a breakpoint does not read its     *)
(* mailbox: it reads a web socket of its own, the pipe, that it opens to   *)
(* .v8_inspector, until it is told to quit.                                *)
(***************************************************************************)
EXTENDS Naturals, Sequences, SequencesExt, FiniteSets

CONSTANTS
  Tool,        \* Numbers.
  MaxPauses,   \* Bound: breakpoints the service stops at.
  MaxEvents    \* Bound: messages of the tools.

VARIABLES
  listed,      \* services has the service.
  disabling,   \* command_disable: "no" | "sent" | "closing" | "done"
  tool,        \* Where the handler of /ws stands for each tool.
  events,      \* What a tool has sent and the handler has not seen.
  count,       \* How many messages the tools have sent.
  sessions,    \* service.sessions: the session of each tool, 0 for none.
  proxy,       \* service.proxy: "none", or a web socket that is "open" or "closed".
  request,     \* The handler of /pause: "none" | "requested" | "accepting"
  pipe,        \* What is on its way on the pipe.
  mailbox,     \* The debug messages of the service.
  target,      \* The service: "running" | "connecting" | "paused" | "resuming" | "leaving"
  pauses,
  live,        \* inspector.sessions, each with its tool.
  next_session_id,
  delivered    \* What the sessions of each tool were given, and how it came.

vars == <<listed, disabling, tool, events, count, sessions, proxy, request, pipe,
          mailbox, target, pauses, live, next_session_id, delivered>>
serviceVars == <<target, pauses, live, next_session_id, delivered>>
proxyVars == <<listed, disabling, tool, events, count, sessions, proxy, request>>

Message(t, n, resume) == [cmd |-> "msg", tool |-> t, n |-> n, resume |-> resume]
Command(c, t) == [cmd |-> c, tool |-> t, n |-> 0, resume |-> FALSE]
Quit == Command("quit", CHOOSE t \in Tool : TRUE)
SessionOf(t) == {s \in live : s.tool = t}
Stopped == target \in {"paused", "leaving"}

Init ==
  /\ listed = TRUE /\ disabling = "no"
  /\ tool = [t \in Tool |-> "off"]
  /\ events = [t \in Tool |-> << >>] /\ count = 0
  /\ sessions = [t \in Tool |-> 0]
  /\ proxy = "none" /\ request = "none" /\ pipe = << >> /\ mailbox = << >>
  /\ target = "running" /\ pauses = 0
  /\ live = {} /\ next_session_id = 1
  /\ delivered = [t \in Tool |-> << >>]

-----------------------------------------------------------------------------
(* The tools.                                                              *)

\* The handler of /ws asserts that the service is listed, accepts the web socket
\* and calls the service.  Tools come in the order of their numbers.
ToolConnects(t) ==
  /\ \A u \in Tool : u < t => tool[u] # "off"
  /\ tool[t] = "off" /\ listed
  /\ tool' = [tool EXCEPT ![t] = "calling"]
  /\ mailbox' = Append(mailbox, Command("connect", t))
  /\ UNCHANGED <<listed, disabling, events, count, sessions, proxy, request, pipe, serviceVars>>

Over(t) == events[t] # << >> /\ Last(events[t]).cmd # "msg"
ToolSends(t) ==
  /\ tool[t] \in {"calling", "answered", "open"} /\ ~ Over(t)
  /\ \/ /\ count < MaxEvents /\ count' = count + 1
        /\ \E r \in BOOLEAN : events' = [events EXCEPT ![t] = Append(@, Message(t, count', r))]
     \/ /\ \E c \in {"close", "break"} : events' = [events EXCEPT ![t] = Append(@, Command(c, t))]
        /\ UNCHANGED count
  /\ UNCHANGED <<listed, disabling, tool, sessions, proxy, request, pipe, mailbox, serviceVars>>

-----------------------------------------------------------------------------
(* .v8_inspector                                                           *)

\* /ws: the session is known, then its events are read.
ConnectAnswered(t) ==
  /\ tool[t] = "answered"
  /\ tool' = [tool EXCEPT ![t] = "open"]
  /\ sessions' = [sessions EXCEPT ![t] = (CHOOSE s \in SessionOf(t) : TRUE).id]
  /\ UNCHANGED <<listed, disabling, events, count, proxy, request, pipe, mailbox, serviceVars>>

\* A send on a closed web socket throws, which ends the handler.
Forward(t) ==
  /\ Head(events[t]).cmd = "msg"
  /\ pipe' = IF proxy = "open" THEN Append(pipe, Head(events[t])) ELSE pipe
  /\ mailbox' = IF proxy = "none" THEN Append(mailbox, Head(events[t])) ELSE mailbox
  /\ tool' = IF proxy = "closed" THEN [tool EXCEPT ![t] = "lost"] ELSE tool
  /\ UNCHANGED <<sessions, proxy>>

\* close_ws
CloseWs(t) ==
  /\ Head(events[t]).cmd = "close"
  /\ tool' = [tool EXCEPT ![t] = "closed"]
  /\ mailbox' = Append(mailbox, Command("disconnect", t))
  /\ sessions' = [sessions EXCEPT ![t] = 0]
  /\ IF proxy = "open" /\ \A u \in Tool : sessions'[u] = 0
     THEN pipe' = Append(pipe, Quit) /\ proxy' = "none"
     ELSE UNCHANGED <<pipe, proxy>>

\* The iterator of a connection that breaks ends without an event.
Breaks(t) ==
  /\ Head(events[t]).cmd = "break"
  /\ tool' = [tool EXCEPT ![t] = "lost"]
  /\ UNCHANGED <<pipe, mailbox, sessions, proxy>>

ToolEvent(t) ==
  /\ tool[t] = "open" /\ events[t] # << >>
  /\ Forward(t) \/ CloseWs(t) \/ Breaks(t)
  /\ events' = [events EXCEPT ![t] = Tail(@)]
  /\ UNCHANGED <<listed, disabling, count, request, serviceVars>>

\* /pause: refused when the service is not listed; its proxy is set when the
\* web socket is accepted, and told to quit if there is no tool any more.
Pause ==
  /\ request = "requested"
  /\ IF listed THEN request' = "accepting" /\ UNCHANGED target
     ELSE request' = "none" /\ target' = "running"
  /\ UNCHANGED <<listed, disabling, tool, events, count, sessions, proxy, pipe, mailbox,
                 pauses, live, next_session_id, delivered>>

PauseAccepted ==
  /\ request = "accepting" /\ request' = "none"
  /\ target' = "paused"
  /\ IF \A t \in Tool : sessions[t] = 0
     THEN pipe' = <<Quit>> /\ proxy' = "none"
     ELSE pipe' = << >> /\ proxy' = "open"
  /\ UNCHANGED <<listed, disabling, tool, events, count, sessions, mailbox,
                 pauses, live, next_session_id, delivered>>

\* /resume asserts that the service is listed; its caller does not wait for
\* ever for the answer of a failed handler.
Resume ==
  /\ target = "resuming" /\ target' = "leaving"
  /\ IF listed /\ proxy = "open" THEN pipe' = Append(pipe, Quit) /\ proxy' = "none"
     ELSE UNCHANGED <<pipe, proxy>>
  /\ UNCHANGED <<listed, disabling, tool, events, count, sessions, request, mailbox,
                 pauses, live, next_session_id, delivered>>

\* command_disable, called for by the service: what follows the closing of the
\* pipe comes after an await.  The sessions stay in the map.
Disable ==
  /\ disabling = "sent" /\ listed' = FALSE
  /\ disabling' = "closing"
  /\ IF proxy = "open" THEN pipe' = Append(pipe, Quit) /\ proxy' = "closed"
     ELSE UNCHANGED <<pipe, proxy>>
  /\ UNCHANGED <<tool, events, count, sessions, request, mailbox, serviceVars>>

DisableSessions ==
  LET shut == {t \in Tool : sessions[t] # 0}
  IN  /\ disabling = "closing" /\ disabling' = "done"
      /\ mailbox' = mailbox \o SetToSeq({Command("disconnect", t) : t \in shut})
      /\ tool' = [t \in Tool |-> IF t \in shut THEN "closed" ELSE tool[t]]
      /\ UNCHANGED <<listed, events, count, sessions, proxy, request, pipe, serviceVars>>

-----------------------------------------------------------------------------
(* The service.                                                            *)

\* dispatch_protocol_message
Deliver(m, via) ==
  delivered' = IF SessionOf(m.tool) = {} THEN delivered
               ELSE [delivered EXCEPT ![m.tool] = Append(@, <<m.n, via>>)]

Connect(m) ==
  /\ m.cmd = "connect"
  /\ next_session_id' = next_session_id + 1
  /\ live' = live \cup {[id |-> next_session_id', tool |-> m.tool]}
  /\ tool' = [tool EXCEPT ![m.tool] = "answered"]
  /\ UNCHANGED delivered

\* Faulty variant of Disconnect: it ends the session that came last.
DisconnectLast(m) ==
  /\ m.cmd = "disconnect" /\ live' = {s \in live : \E r \in live : r.id > s.id}
  /\ UNCHANGED <<next_session_id, tool, delivered>>

Disconnect(m) ==
  /\ m.cmd = "disconnect" /\ live' = live \ SessionOf(m.tool)
  /\ UNCHANGED <<next_session_id, tool, delivered>>
DebugCommand ==
  /\ target = "running" /\ mailbox # << >>
  /\ LET m == Head(mailbox)
     IN  \/ Connect(m) \/ Disconnect(m)
         \/ m.cmd = "msg" /\ Deliver(m, "mailbox") /\ UNCHANGED <<live, next_session_id, tool>>
  /\ mailbox' = Tail(mailbox)
  /\ UNCHANGED <<listed, disabling, events, count, sessions, proxy, request, pipe, target, pauses>>

\* v8inspector.disable()
CallDisable ==
  /\ target = "running" /\ disabling = "no" /\ disabling' = "sent"
  /\ UNCHANGED <<listed, tool, events, count, sessions, proxy, request, pipe, mailbox, serviceVars>>

\* run_message_loop_on_pause: connect, then the messages until quit.
Breakpoint ==
  /\ target = "running" /\ live # {} /\ pauses < MaxPauses
  /\ target' = "connecting" /\ pauses' = pauses + 1 /\ request' = "requested"
  /\ UNCHANGED <<listed, disabling, tool, events, count, sessions, proxy, pipe, mailbox,
                 live, next_session_id, delivered>>

ReadMessage ==
  /\ Stopped /\ pipe # << >>
  /\ LET m == Head(pipe)
     IN  IF m.cmd = "quit"
         THEN target' = "running" /\ pipe' = << >> /\ UNCHANGED delivered
         ELSE /\ Deliver(m, "pipe") /\ pipe' = Tail(pipe)
              /\ target' = IF m.resume /\ target = "paused" /\ SessionOf(m.tool) # {}
                           THEN "resuming" ELSE target
  /\ UNCHANGED <<proxyVars, mailbox, pauses, live, next_session_id>>

Next ==
  \/ \E t \in Tool : ToolConnects(t) \/ ToolSends(t) \/ ConnectAnswered(t) \/ ToolEvent(t)
  \/ Pause \/ PauseAccepted \/ Resume \/ Disable \/ DisableSessions
  \/ DebugCommand \/ CallDisable \/ Breakpoint \/ ReadMessage

Spec == Init /\ [][Next]_vars

\* What both services do with what has come to them; the tools do as they like.
Progress ==
  \/ \E t \in Tool : ConnectAnswered(t) \/ ToolEvent(t)
  \/ Pause \/ PauseAccepted \/ Resume \/ Disable \/ DisableSessions \/ DebugCommand \/ ReadMessage
FairSpec == Spec /\ WF_vars(Progress)

-----------------------------------------------------------------------------
(* Properties.                                                             *)

\* A tool's messages are given to its own session, each once and in order, but
\* for those that have gone to the mailbox: one on the pipe may overtake them.
OnlyPipeOvertakes ==
  \A t \in Tool : LET d == delivered[t] IN
    \A i, j \in DOMAIN d : i < j =>
      \/ d[i][1] < d[j][1]
      \/ d[i][1] > d[j][1] /\ d[i][2] = "pipe" /\ d[j][2] = "mailbox"

\* When the service has read its mailbox it has a session for the tools that
\* are connected and no others, except those whose connection has broken or whose
\* handler has failed: nothing disconnects them (v8_inspector.ts:175).
SessionsAreTools ==
  mailbox = << >> =>
    {s.tool : s \in live} = {t \in Tool : tool[t] \in {"answered", "open", "lost"}}

InspectorSafe == OnlyPipeOvertakes /\ SessionsAreTools

\* A service at a breakpoint whose tools are all leaving goes on, unless one has
\* gone without a close frame, or command_disable came while the web socket of
\* the pause was being accepted: the socket that is kept then is never closed.
KeptOpen == ~ listed /\ proxy = "open"
AllLeave ==
  /\ target \in {"connecting", "paused"}
  /\ \A t \in Tool :
       \/ tool[t] \in {"off", "calling", "closed"}
       \/ tool[t] = "open" /\ \E i \in DOMAIN events[t] : events[t][i].cmd = "close"
GoesOn == target = "running" \/ KeptOpen
=============================================================================
