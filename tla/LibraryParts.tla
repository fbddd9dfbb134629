---------------------------- MODULE LibraryParts ----------------------------
(***************************************************************************)
(* The modules of MCLibrary about which there are proofs: HttpClient,      *)
(* Inspector, ServiceStart, ChannelConnect, MongoCursor, WebSocket and     *)
(* Mysql.                                                                  *)
(* They share no state, so that a behaviour is one of any of them: "which" *)
(* names it, and its variables are v1, v2 and so on.  The definitions      *)
(* below give them the names they have in its module.                      *)
(***************************************************************************)
EXTENDS Integers, Sequences

CONSTANTS
  Tool, MaxPauses, MaxEvents,                            \* Inspector
  MaxFn,                                                 \* ServiceStart
  MaxAddr, MaxBackup, MaxTask, MaxFaults, MaxMoves, MaxAsks, \* ChannelConnect
  MaxDocs, MaxLoss, MaxAnswers,                          \* MongoCursor
  Small, MaxFrameSize, MaxSends, MaxFrames,              \* WebSocket
  MaxCalls                                               \* Mysql, Grpc

VARIABLES which, v1, v2, v3, v4, v5, v6, v7, v8, v9, v10, v11, v12, v13, v14, v15,
          v16

\* HttpClient
timed == v1
https == v2
caller == v3
socket == v4
dial == v5
fdKnown == v6
drop_fd == v7
nap == v8
napTimer == v9
guard == v10
finish == v11
tls == v12
\* Inspector
listed == v1
disabling == v2
tool == v3
events == v4
count == v5
sessions == v6
proxy == v7
request == v8
pipe == v9
mailbox == v10
target == v11
pauses == v12
live == v13
next_session_id == v14
delivered == v15
\* ServiceStart
loader == v1
pc == v2
defined == v3
init_func == v4
funcs == v5
awaited == v6
state == v7
status == v8
told == v9
order == v10
\* ChannelConnect (whose socket is that of HttpClient)
host == v1
backup == v2
closed == v3
peer == v5
connector == v6
task == v7
at == v8
addr == v9
addr_set == v10
addr_list == v11
dispatch_thread == v12
auth == v13
budget == v14
past == v15
\* MongoCursor (whose pc is that of ServiceStart)
docs == v1
amount == v3
cursors == v4
answers == v5
reply == v6
losses == v7
_data == v8
_ptr == v9
_eof == v10
_cursor == v11
_limit == v12
given == v13
unkilled == v14
\* WebSocket
foreign == v1
wire == v2
sock == v3
is_close == v4
reader == v5
sent == v6
open == v7
frames == v8
lost == v9
got == v10
pongs == v11
closes == v12
result == v13
\* Mysql (whose pc is that of ServiceStart)
calls == v1
queue == v3
coming == v4
linked == v5
packet_no == v6
left == v7
value == v8
results == v9

HC == INSTANCE HttpClient
VI == INSTANCE Inspector
SS == INSTANCE ServiceStart
CC == INSTANCE ChannelConnect
MO == INSTANCE MongoCursor
WS == INSTANCE WebSocket
MY == INSTANCE Mysql

-----------------------------------------------------------------------------
(* Their properties, each under the name it has in its module.             *)

\* No socket is lost between a connect, its timer and the request's timer.
NoSocketLost == which = "http client" => HC!NoSocketLost

\* Messages of the tools reach their sessions in order, and a service has the
\* sessions of the tools that are connected.
InspectorSafe == which = "inspector" => VI!InspectorSafe

\* The functions of init() run one by one, all of them, and .launcher is told
\* how it went.
StartSafe == which = "service" => SS!StartSafe

\* Whoever waits for a channel's connection gets the one it names, with auth
\* done, after every backup was tried if need be.
ConnectSafe == which = "connect" => CC!ConnectSafe

\* A cursor of MongoDB gives every document once and in order.
CursorSafe == which = "mongo" => MO!CursorSafe

\* Messages of a web socket arrive whole, once and in order; PONGs echo their
\* PINGs; the end of a connection is told to the server exactly once.
WebSocketSafe == which = "websocket" => WS!WebSocketSafe

\* Every call of the MySQL client returns what its own answer says, and takes
\* all of it.
MysqlSafe == which = "mysql" => MY!MysqlSafe
=============================================================================
