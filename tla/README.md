# skynet_ts in TLA+

skynet_ts runs TypeScript services inside the skynet actor framework: a Rust
cdylib embeds one V8 isolate (deno_core) in each service, and a TypeScript
library (`ts/lib/skynet`) gives the script what the Lua library of skynet gives
to Lua services: requests and answers between services, sleeping, sockets,
connection pools, database clients. This directory holds TLA+ models of the
parts whose correctness depends on the order of events, the TLC instances that
check them, and proofs of their main invariants.

Paths below are relative to the root of the repository. `index.ts` is
`ts/lib/skynet/skynet/index.ts`.

## 1. Inventory

| Component | Source | State | Operations | What is hard |
|---|---|---|---|---|
| Session runtime | `index.ts`, `src/01_skynet.js` | `session_id_callback`, `watching_request`, `watching_response`, `unresponse` | `call`, `ret`, `response`, `exit`, `term`, dispatch of requests, RESPONSE, ERROR | Handlers and calls interleave at every `await`; the four maps are keyed by sessions of *different* allocators; services die with requests in their mailboxes |
| Sleeping | `index.ts` | `session_id_callback` (with a BREAK flag), `sleep_session` | `sleep`, `wait`, `wakeup`, `timeout` | The timer's message races `wakeup`; a promise that is settled resumes its task only after the messages of the turn |
| Message batches | `src/lib.rs`, `src/mod_skynet.rs`, `dispatch_message` of `index.ts` | `bs`, `bs_offset`, `bs_flag`, `cb`, `remainder_message`; `shared_bs` in the script | `dispatch_th_cb`, `dispatch_cb`, `dispatch`, `get_shared_bs` | A buffer shared by Rust and the script is replaced in the middle of a batch; a bit in a number announces it |
| Start-up | `index.ts`, `ts/lib/loader.ts`, `src/lib.rs`, `src/loader.rs` | `init_func` | `init`, `init_all`, `start`, `init_cb` | Functions are registered while others are being awaited |
| Sockets | `socket/index.ts` | `socket_pool`: buffer, `read_required`, `callback`, `lock` | `open`, `read`, `readline`, `block`, `lock`, `close`, dispatch of socket messages | One slot for the reader of a socket; close while others read; DATA and CLOSE in one turn |
| Socket channel | `socket/channel.ts` | `_request`, `_thread`, `_connecting`, `_socket`, `_closed` | `request`, `response`, `connect`, `close`, `change_host`, dispatch loops | Pairing of queued requests with answers over reconnections; authentication inside the connect |
| DNS | `dns.ts` | `request_pool`, `next_tid`, `dns_servers`, `cached` | `resolve`, `udp_query`, `tcp_query`, `response`, `check`, `check_alive`, `normalize` | Answers are matched by an id alone and may be late; a timer closes the connection that is being read; one server list shared by calls that await; names in answers are compressed |
| HTTP client | `http/helper.ts`, `http/httpc.ts` | the socket, `drop_fd`, `finish`, two timers | `connect`, `request` | A connect races its timeout; the socket that comes too late belongs to nobody |
| HTTP messages | `http/internal.ts`, `http/httpd.ts` | what was read and not used | `recvheader`, `chunksize`, `recvchunkedbody`, `write_response` | Bytes come cut anywhere; lengths count characters |
| WebSocket | `http/websocket.ts` | `ws_pool`, the buffer of a message | `accept`, `connect`, `read`, `write`, `ping`, `close` | Control frames between fragments; either end closes while the other reads |
| TLS | `src/mod_tls.rs`, `src/01_tls.js`, `http/helper.ts` | OpenSSL context and BIOs | `handshake`, `read`, `write` | Items arrive cut and joined in any way; output of a handshake must go out |
| Inspector | `src/mod_inspector.rs`, `service/v8_inspector.ts`, `debug.ts` | sessions, pause flag, web sockets | connect, message, pause, resume, disable | A paused service reads only a web socket of its own, while its mailbox fills |
| MongoDB | `db/mongo/index.ts`, `db/mongo/bson.ts` | cursors | `find`, `next`, `has_next`, commands | A cursor's request fails before or after the server has it; BSON's lengths and widths |
| MySQL | `db/mysql.ts` | packet numbers | `query`, `prepare`, `execute`, `ping` | Only the form of an answer tells where it ends |
| Serialisation | `lua_seri.ts`, `pack.ts`, `utf8.ts` | none | pack, unpack | Integer widths, signs, chunks of a string |
| Log, crypt | `log.ts`, `service/log_service.ts`, `crypt/` | tables of commands | | wrappers |
| gRPC over HTTP/2 | `ts/lib/x/grpc_basic` | streams, windows, header tables, buckets of frames | `_callUnary`, `_callStream`, `handleStream`, flow control, frames, HPACK | Header blocks are compressed in one order and leave in another; windows run out |
| Router | `ts/lib/x/router` | routes | | third-party |
| std, protobufjs, jsSHA, dts | `ts/lib/std`, ... | | | vendored or generated |

How they interact. The skynet core (C, a git submodule, external to this
repository) owns mailboxes, sessions and timers. A worker thread takes a round
of messages from a mailbox and hands them to `dispatch_cb`, which copies them
into the shared buffer and calls `dispatch_message` of the script. That settles
promises or starts handlers; sends go straight to the core. Everything above -
sockets, channels, DNS, databases - is built from `call`, `wait`, `wakeup` and
socket messages that come through the same mailbox.

What makes each component correct:

- *Sessions*: a call ends exactly as its callee decided, with an answer of that
  callee; nobody waits for an answer that no one owes; the maps hold what is
  open and nothing else.
- *Sleeping*: every sleep ends, by one party only; a stale timer touches no
  later sleep; nothing stays in the maps.
- *Batches*: the script sees each message once and in order, whatever buffers
  are replaced.
- *Start-up*: each function runs once, after those registered before it.
- *Sockets and channels*: bytes come out in the order they went in; each
  request gets its own answer or an error; nobody waits on a closed socket.
- *DNS*: an answer goes to the query that asked, an id is free again after it,
  every call returns although servers need not answer; `resolve` gives what the
  server last told within its time.
- *What stands on sockets* (HTTP, WebSocket, TLS, MySQL, MongoDB, gRPC): what was sent is
  read, whole, in order and by its owner, however the bytes are cut; no socket is
  lost; what is waited for comes.
- *Codecs*: what is read is what was written, or the read fails.

The hazards these properties are aimed at are listed, at their lines, in
`PROJECT.json`.

## 2. Modules

| Module | Role |
|---|---|
| `SkynetSession` | Services that call each other: `index.ts` sessions, errors, deferred answers, exit |
| `RpcCall` | Abstract: what a call promises (decided at most once, settled as decided) |
| `SkynetSessionRefinement` | The refinement mapping of `SkynetSession` to `RpcCall` |
| `SkynetSession_proofs` | Inductive invariants and safety theorems of `SkynetSession`; no call is orphaned; it implements `RpcCall` |
| `MessageBatch` | Rounds, shared buffer, flag, script's view: `lib.rs`, `mod_skynet.rs`, `dispatch_message` |
| `FifoMailbox` | Abstract: a mailbox delivers in order, each message once |
| `MessageBatch_proofs` | Inductive invariant, safety theorems and refinement of `MessageBatch` |
| `SleepWakeup`, `SleepWakeup_proofs` | `sleep`, `wait`, `wakeup` against their timers; the invariant proved |
| `SocketBuffer` | The bytes of a socket: DATA messages, `read`, `readline` of `socket/index.ts` |
| `ByteStream` | Abstract: a reader takes from a plain sequence of bytes |
| `Socket`, `Socket_proofs` | The life of a socket: open, suspended readers, closing tasks, the lock; the invariant proved |
| `Channel`, `Channel_proofs` | `socket/channel.ts`: requests over a connection that is made again; the pairing proved |
| `Dns`, `Dns_proofs` | `dns.ts`: queries, ids, timers, servers; the invariant proved |
| `ChannelConnect` | `socket/channel.ts`: who gets a connection, backup addresses, authentication |
| `ServiceStart` | `init`, `start`, `init_all` of `index.ts`, the loader, what `.launcher` is told |
| `HttpClient` | `connect` of `http/helper.ts`, `request` of `http/httpc.ts`: socket against timers |
| `Library_proofs` | `HttpClient`, `ServiceStart`, `ChannelConnect`, `Inspector`, `MongoCursor` and `WebSocket`: their invariants proved |
| `HttpMessage` | Headers, chunks and bodies of `http/internal.ts` and `http/httpd.ts` |
| `WebSocket` | `http/websocket.ts`: both ends of a connection |
| `Tls` | One end of a TLS connection over OpenSSL's BIOs |
| `Inspector` | A service that is debugged, `.v8_inspector` and its tools |
| `Mysql`, `Mysql_proofs` | Commands of `db/mysql.ts` and the packets that answer them; the invariant proved |
| `MongoCursor` | `MongoCursor` of `db/mongo/index.ts` and a server that may fail |
| `Pack`, `LuaSeri`, `Bson` | `pack.ts` and `utf8.ts`; the two serialisations that rest on them |
| `DnsMessage` | `dns.ts`: answers of a name server, and the cache |
| `Http2Flow`, `Http2Frames`, `Hpack`, `Grpc` | `x/grpc_basic`: windows, frames, header tables, calls |
| `LibraryParts`, `MCLibrary` | All modules from `ChannelConnect` on, for TLC: one of them runs in a behaviour. The first has those about which there are proofs |
| `MCSession`, `MCBatch`, `MCSleep`, `MCBuffer`, `MCSocket` | Instances for TLC (`Channel` and `Dns` have numbers for constants and need none) |

`SkynetSession` and `MessageBatch` meet at the mailbox: the first takes one
message at a time from a FIFO mailbox, the second shows (`ImplementsFifoMailbox`)
that the buffer and its batches are such a mailbox for the script.
`SocketBuffer` has the bytes of a socket and one reader, `Socket` has the tasks
and only the number of bytes; they meet at `read` (`Enough`, `Left`). `Channel`
and `Dns` use sockets: what they see of one (its DATA and CLOSE, a read that waits,
a write that fails) is part of their own state.

The modules of the table from `ChannelConnect` on stand on sockets, on the core or on nothing
and do not meet each other: what they see of a socket is part of their state. They share
no variable, so that one instance (`MCLibrary`) holds them all, with a variable `which` that
says whose behaviour it is. Its properties bear the names that they have in the modules
(`BS!DocumentsComeBack` counts to `ValuesComeBack`). `Channel` and `ChannelConnect` divide
`channel.ts` at the connection: what is sent over it, and how it is made. `Dns` and `DnsMessage`
divide `dns.ts` at the packet. `Grpc` leaves windows to `Http2Flow` and bytes to `Http2Frames`.

The modules of sessions, sleeping, sockets, channels and DNS keep the two halves of a turn of the script apart where it matters:
messages of a batch are dispatched and only settle promises; then, when the callback
of Rust returns, the microtasks run until none is left. Where it does not matter, as in the
modules of `MCLibrary`, continuations run in any order.

### SkynetSession

State: for each service, `status` (the core's view: `up`; `reporting` while
`exit()` sends its reports; `exiting` once the handle is retired and the rest
of the round is dispatched; `gone`), its mailbox, the next session, and the maps
of `index.ts` under their own names. Activations of async functions are
explicit: `call` for `_yield_call`, `handler` for the request handlers
of `dispatch_message_impl`, `tail` for the dispatch of an ERROR.

| Action | Code |
|---|---|
| `Call`, `Continue` | `call`, `_yield_call` before and after its `await` |
| `DispatchResponse`, `DispatchError`, `DispatchRequest` | `dispatch_message_impl` up to its `await`, with `_error_dispatch` |
| `ErrorTail`, `HandlerReturn`, `HandlerThrow` | `dispatch_message_impl` after its `await` |
| `Ret`, `Response`, `Respond` | `ret`/`retpack`, `response`, the closure it returns |
| `Term` | `term` |
| `ExitBegin`, `ReportCaller`, `ReportDeferred`, `ReportCallee`, `ExitEnd` | `exit`, one step to a report |
| `Retire`, `DropMessage` | the core: end of the last round, `drop_message` |

Decisions a reader may want to question:

- `exit()` is one synchronous function, but the services it reports to run on
  other threads. It is split into one step for each send; the exiting service
  does nothing else in between. The model takes an entry off a map when it is
  reported, where the code clears the map afterwards; nobody looks in between.
  The `REMOVE` sent to `.launcher` is left out.
- Messages and continuations of one service interleave freely. The real order
  (all messages of a batch, then all microtasks) is one of these. The counterexamples under *Findings* do not need more freedom than the code has.
- Each service allocates sessions from its own counter (`FirstSession`), as the
  core does. A send to a retired handle fails, `skynet_rt.send` returns null
  and the call is registered under the key null, here 0. Since a service can
  register several calls under that key, their entries overwrite each other.
- The application is any program that answers a request at most once, by
  `ret` or by `response`. It may forget, throw, answer late, or use a closure
  after an `await`. An unhandled rejection is only logged by `dispatch_impl`,
  so `HandlerThrow` skips the code behind the `await` and nothing else.
- A service that has exited still dispatches the messages of the round it was
  handed (`rest`, at most `MaxBatch - 1`). Requests among them enter
  `watching_response` after the reports have been sent; nobody answers them or
  reports to their callers.
- The sessions of all services start alike, and the callee's map has one entry for
  a session. A request loses its entry when another service's request with its
  session is dispatched (`index.ts:214`), when the handler of such a one answers
  or returns, and when an ERROR for a call of the callee's own with that session comes
  (`ignoreret`, `index.ts:98`). The history variable `excused` has exactly the
  requests this may happen to (`Beside`, `IgnoreOwn`), and those of the last point.
- `Named` services are called by name: `watching_request` then holds a name
  and `_error_dispatch` compares it with a handle.

### MessageBatch

State: the mailbox, `remainder_message`, `bs_offset` and `bs_flag` under their
own names; `cap` and `content`, the length of the shared buffer and the messages
in it; `view`, which buffer the script's `shared_bs` is: none yet, the current
one or an older one, whose messages are then `old`. `delivered` is the history of
what `dispatch_message` has dispatched.

| Action | Code |
|---|---|
| `RoundBegin`, `RoundEnd` | `dispatch_th_cb` with `stype` 0 and 1 |
| `RoundDispatch`, `SingleDispatch` | `dispatch_cb` within and outside a round |
| `DispatchImpl` | `dispatch_impl`: poll of the event loop, or `mod_skynet::dispatch` |
| `Copy`, `Fits`, `FlagAfter`, `ViewAfter` | `get_shared_bs` and the copy |
| `Hold`, `Flush`, `CallWord` | the end of `dispatch` |
| `CallScript`, `Dispatched` | `dispatch_message` and its `get_shared_bs` |

A message is a number, the place at which it was sent, and a size. `lost`
counts what arrived before `skynet.start` registered the callback: `dispatch`
consumes it. `CallWord` and `CallScript` do the arithmetic of the flag: the bit
is `or`ed to the byte count and the script splits the two again, with the bound
`NewBit` for `2^24`. All statements below are for sizes that keep clear of that
bit (`FlagFits`: `FlushSize` and one more message stay below it). In the code
`FlushSize` is 1 MiB, `NewBit` 16 MiB, so a single message of 15 MiB is beyond the
model; such a message is cut off.

### SleepWakeup

State: the maps of `index.ts`, the tasks that sleep or wait, running timers and
the mailbox of their RESPONSEs, and the turn of the script: messages are
dispatched, then the settled tasks resume in order (V8 runs microtasks when the
callback returns). `wakeup` may be called in either half. Each task has a token
of its own, which tasks may wake for each other; `gen_token` never gives one twice, and so
two tasks asleep on one token do not occur. `timeout` puts a function into the same map
(`Func`); `called` is the history of those that were called. A `wakeup` that comes between the
dispatch of the timer and the resumption of the sleeper fails `assert(response_func)`
(`index.ts:258`): the code does so, and nobody is lost by it.

### SocketBuffer

State: `node` and `offset` for the list from `sb.head` to `sb.tail` and the place in
its first node, `size`, `read_required` and `read_required_skip` under their own
names, `reader` and `want` for the one task that reads. `freed` is the history of
`_buffer_free`, after which `size` says more than the nodes hold (finding 2).

| Action | Code |
|---|---|
| `Data` (`DataSome`, `DataLine`, `Overflows`) | the DATA handler with its three forms of `read_required` and `buffer_limit` |
| `Down`, `Shutdown` | the CLOSE and ERROR handlers; `shutdown` |
| `Read`, `Resume` | `read`, `readline` before and after `suspend` |
| `Readall` | `readall`, which tests `connecting` (`socket/index.ts:277`) and so never waits |
| `Pop`, `Fetch`, `SepAt`, `SkipAfter`, `ReadAll` | `_pop_message`, `_peek`, `_read_line`, its skip, `_read_all` |

A byte is 0 or 1 and the separator is two bytes that overlap with themselves, so
that a separator lies in a node, across two nodes, or across the place where the last
search ended. `ByteStream` has no nodes at all: a read takes a prefix of what is
unread. That the one implements the other is `ImplementsByteStream`.

### Socket

State: the core's socket and its messages; the fields of the pool entry; what each
task is in the middle of (`doing`); `ready`, the continuations that are due. A token
is named by the task that waits for it. A task that was woken comes up several times
in `ready`: at the end of `skynet.wait` (`WaitReturns`), of `suspend` (`SuspendReturns`),
of the operation (`OpenResumes`, `ReadResumes`, `CloseResumes`, `LockResumes`) and
in the application. `close()` depends on that order, since `suspend` wakes the closer
before the operation it belongs to continues.

| Action | Code |
|---|---|
| `Open`, `Read`, `Block`, `Close`, `Abandon`, `Lock`, `Unlock` | the functions of that name up to their `await` |
| `Data`, `Connect`, `Down` | the handlers of DATA, CONNECT, CLOSE and ERROR |
| `CoreSettles`, `CoreData`, `CoreBreaks`, `CoreCloses` | the core (external) |

Decisions a reader may want to question:

- The application calls what it likes in any order, within the sets `Reader`,
  `Closer`, `Abandoner` and `Locker`. It does not read with the id before `open`
  has returned (`Known`), does not close a socket that has a closer waiting (the
  code asserts that) and unlocks only what it holds.
- A task that calls `suspend` after another was woken but before that one has
  resumed finds `suspend_token` free again only for a moment: the closer that the
  first resumption wakes takes the socket away, and the second task waits for ever.
  The code does that; the history variable `late` marks such tasks, and the
  properties do not speak of them.
- Where `skynet.wakeup` fails its assertion, the operation ends with a rejection
  (`FailResumes`).
- `unlock` wakes the next in line one step earlier than the code's promise does.
  `abandon` drops the entry with the tasks that wait for its lock; a close that
  finds the lock held fails its assertion behind the read and leaves the entry.
- Out of the model: `listen`, UDP, `warning`, `pause`.

### Channel

State: the fields of the class under their own names without the underscore; the
dispatcher (`dispatch_thread`) with what it has taken from the queues; `pc` and
`outcome` of every task; connections with what is written to them (`wire`), on its way
back (`answers`) and received (`buffer`). `by_session` chooses between the two
dispatch loops. The name of a request is also its token, its session and the
function that reads its answer.

| Action | Code |
|---|---|
| `Enter`, `Queue`, `Write`, `WriteFails`, `Resume` | `request`, `connect` in their pieces between awaits |
| `Open`, `Opens`, `OpenFails`, `Join`, `Rejoin`, `Attach` | `block_connect`, `connect`, `connect_once`, `try_connect`; waiting for the last dispatcher |
| `Pop`, `PopWaits`, `PopTerm`, `Reads`, `AnswerByOrder`, `AnswerUnawaited`, `AnswerBySession`, `ReadFails` | `pop_response`, `dispatch_by_order`, `dispatch_by_session`, `wakeup_all` |
| `TermDispatchThread`, `Push`, `Cleared` | `term_dispatch_thread`, `push_response`, `wakeup_all` |
| `Close`, `ChangeHost` | `close`, `change_host` |

- Tasks call in the order of their numbers; since they are alike, this loses nothing.
- By order the server answers in order, by session in any order. It may not answer
  at all unless liveness is asked: `RequestEnds` assumes that a server answers what
  it has received or the connection breaks, as requests have no timeout.
- The core's messages reach the script one at a time; a turn ends before the next
  batch of them (`TurnSettles`, `TurnEnds`).
- Two things put the channel out of step, and the code does both: a wakeup that fails
  its assertion, so that `wakeup_all` stops before it clears `_thread` (`asserted`,
  finding 3), and a dispatcher that leaves its loop because the socket was changed by
  `close()` or `change_host()` while it delivered an answer (`left`); requests in its
  queues then get the answers of the next connection or none. After that nothing
  is claimed (`InStep`).
- `close()` while a connection is being opened sets `_closed`, and the connection is
  used all the same; the model does so too.
- Out of the model: `auth`, backup addresses and `once` (they are in `ChannelConnect`),
  `response()` without a request, requests without an answer, the overload callback.

### ChannelConnect

State: `_host`, `_backup`, `_closed`, `_socket` and `_connecting` (here `connector`, the one
task that connects), the variables of `connect_once` (`addr`, `addr_set`, `addr_list`), the
calls of `block_connect` (`task`), and how far `auth` is. What is sent over the connection
is left to `Channel`; a channel without `auth` is one whose `auth` returns at once.

- `auth` belongs to the application: it may send requests, throw, call `change_host` or go
  on when the connection is lost. In the last case its request waits for a connection that
  waits for it: the Lua library knows the coroutine of `auth`, this one does not. The model
  ends there (`"stuck"`), and `WaitsEnd` excepts it.
- `_socket` is set before `auth` is called, so that a request of another task goes out
  unauthenticated. `AuthComesFirst` speaks of those that wait.
- A `change_host()` between `socket.open` and the end of the last dispatcher is missed
  (`past.moved`).

### Dns

State: `next_tid`, `pool` (`request_pool`) and `servers` (`dns_servers`); for each
server its UDP socket with its `retire` time (`udp`) and its `check_alive` (`alive`);
for each call of `resolve` where it is, its `list` of servers not yet placed,
`valid_nameserver` (`good` before `valid_amount`, `bad` behind), the request, and the TCP
connection. `sent` has every query a server may still answer, once, twice, late
or never. A call resolves a name of its own, so an answer is named by its call.

| Action | Code |
|---|---|
| `Resolve`, `Proceed` | `remote_resolve`, to the first await and from one server to the next |
| `UdpQuery`, `UdpReturns` | `udp_query` before and after its `await` |
| `TcpQuery`, `TcpFails`, `TcpOpened`, `ReadHeader`, `ReadBody`, `ReadThrows`, `ReadFails` | `tcp_query` between its awaits |
| `Packet` | `response`, called for a UDP packet |
| `Check`, `CheckAlive` | the closures `check` and `check_alive` after their sleeps |
| `Expires` | `now()` passes `retire` |

- The ids do not wrap around within the instance (`MAX_TID` is the number of queries
  it can make), as 65535 of them do not within a timeout. The timer of a query that is
  over would find nothing; it is taken out (`TimerIsMoot`), unless it has fired in the
  turn in which the answer came.
- `check` and the query resume in either order within a turn. The code's order is that
  of their messages. Where `check` finds the task already woken, its `wakeup` fails; the
  rejection is not handled, and the query reports a timeout with a result.
- A TCP connection closed by the timer between the reads of length and answer
  makes `socket.read(0)` fail, or the answer is gone from the buffer: `resolve()`
  throws (`Throws`).
- `resolve()` throws too where a server refuses the TCP connection.
- Out of the model: `set_servers`. The cache, the hosts file and the bytes of an answer are
  in `DnsMessage`.

### DnsMessage

The way of a query is in `Dns`; here one server answers at once, with any records in any
order of the sections, its names in full or with pointers to the first or last place where an
end of them stands. `UnpackName`, `UnpackData`, `UnpackSection`, `Normalize` and `SetCache`
are the functions of that name; `told` is the history of what the server said. Addresses of
other names (glue) are taken for the name's (`dns.ts:687`); an address of a name that no SRV
record before it points to fails an assertion (`dns.ts:729`); the lifetime is that of the last
record; two SRV records with one target become one; without a hosts file every `resolve` fails. The
property says what comes out in each of these cases.

### ServiceStart

State: the loader's module, `init_func` (and whether it is defined), the loop of `init_all`, what
`init_service` awaits, and what `.launcher` was told. `CallStart`,
`InitFn`, `InitAll`, `DispatchTimer`, `LoopGoesOn`, `StartFunc`, `Started`, `Launched` and
`InitFails` are the pieces of `start`, `init`, `init_all` and `init_service` between awaits.
Functions given to `init()` while `init_func` is undefined run at once and unawaited. A module
that fails to load exits without telling `.launcher`, and a function that throws makes
`init_service` tell `ERROR` and exit.

### HttpClient and HttpMessage

`HttpClient` has one request: `connect()` with its `async_conn` and its sleep, the timer that
shuts the request down, `finish`, the socket and its TLS state. Continuations run in any order.
A TLS handshake that fails stands before the `try` (`httpc.ts:71`), so that the socket and
the TLS state are kept; a connection that is refused is noticed only when the timer ends.

`HttpMessage` has the bytes: what `request` and `write_response` write, cut anywhere, ended or
broken anywhere, read by `recvheader`, `chunksize`, `readcrln` and `recvchunkedbody`. A start
line, a header and a chunk size are one byte each. Lengths count UTF-16 units (`httpd.ts:117`).
A reader may refuse a header that has not ended at `LIMIT` (`internal.ts:50`) and a body above its
`bodylimit`, chunked or not (`TooLong`, `TooLarge`); that a line with a chunk size exceeds 128 bytes
(`internal.ts:105`) does not happen with the writers here, which end it after a few digits.
The peer is this library: a body whose only end is that of the connection is not written here,
and `request` would not get all of it, because `readall` does not wait (see `SocketBuffer`).

### WebSocket

Each end has the loop of `accept` or calls of `read`, and tasks that `write`, `ping` and `close`
whenever they like; an end may be foreign, which fragments messages and fills PINGs. A frame
crosses the wire as header, key and payload, and the reader takes as many items as it believes
are due. The bytes of a control frame are counted into the message around it
(`websocket.ts:329`), and a masked frame of 126 bytes or more lacks the mask bit (`:242`), after
which its reader is out of step (`lost`).

An accepting end is in `ws_pool`, under the id of its socket, before its handshake is over, so its
tasks may write already; a connecting end's id is known when `connect()` returns. What the
accepting end wrote before the answer, and what comes in one read with it, the client
drops (`internal.ts:208`, `240-241`; `HandshakeOk`, `Connected`): this too counts as `lost`. Foreign ends
wait for the handshake.

### Tls

One end, client or server, TLS 1.2 or 1.3, over two memory BIOs. OpenSSL and the peer are external:
a message of the handshake, a record and an alert are one item, and part of one is as good as
none. `HelloStep` and `InitStep` are the loops
of the handshake, `WriteStep` and `ReadStep` the functions that write and read. A read of unknown
length that meets a `close_notify` behind the last bytes fails and loses them (`mod_tls.rs:475`).

### Inspector

The service (`mod_inspector.rs`, the debug command), `.v8_inspector`, and the tools. A service at a
breakpoint reads the pipe, a web socket to `.v8_inspector`, until it is told to quit; before and after
it reads its mailbox. Answers on their way back to a tool are left out. A tool whose
connection breaks without a close frame is never disconnected (`v8_inspector.ts:175`);
`command_disable` that comes while the pause's socket is accepted leaves that socket open.

### Mysql and MongoCursor

`Mysql` has the packets of a server for every command (results with rows of either protocol,
several results, prepared statements, errors amid rows), pipelined calls, and the response
functions that take packets off the channel one after the other. `ERR` amid rows is taken for a
row (`mysql.ts:614`, `969`); and at a column of a type that `_binary_parse` does not have (DECIMAL,
DATE, TIME, YEAR, JSON) `_parse_row_data_binary` throws (`:922-925`), so that its call fails with the
other rows and the EOF unread on a connection that stands (`:1002`, `:1020`). Of what follows either
nothing is claimed (`Torn`). Of the four bytes of a MEDIUMINT three are read (`:887-889`), so that the
next value begins in it. That all integers are read as unsigned (`:926`) is left out with their values.

`MongoCursor` has one caller that asks `has_next` and `next`, and a server whose requests fail
before or after it has them, and that may forget a cursor. The retry of an answered `get_more`
skips that answer's documents. At the limit `has_next` has set `_data`, `_ptr` and `_limit` = 0
when it awaits the kill (`Close`, `mongo/index.ts:447`): if that throws, the cursor is kept, the next
`has_next` succeeds and later ones ask for more without a limit. `unkilled` remembers it.

### Pack, LuaSeri and Bson

Encoders and decoders as functions on sequences of bytes, checked on all values up to the bounds, in
both directions and for streams cut anywhere. `Base` stands for the 256 values of a byte,
so that all widths overflow within the bounds. Where the code does not give a value back
(negative integers and `2^31` in `LuaSeri`; negative integers, dates before 1970 and the texts of
some classes in `Bson`; a string whose chunk ends in a pair in both) the property says so, as an
equivalence: nothing else may be lost, and these are.

### Http2Flow, Http2Frames, Hpack and Grpc

`Http2Flow` has one stream and its connection: what is written, the queue of what the window does not
allow, the output, the wire, and WINDOW_UPDATEs. A connection carries no more than its first
window in each direction, since nothing ever restores it, and then fails `conn.ts:340`; a message that
is cut is written with the whole buffer behind each part's header (`frames.ts:379`).
The properties and the liveness claim what comes before that (`TooMuch`, `garbled`).

`Http2Frames` has every kind of frame that `DeserializerFrames` knows (PRIORITY, PUSH_PROMISE,
CONTINUATION, ALTSVC and ORIGIN too; the text of an ALTSVC's value is not parsed), padded or not,
legal or not, cut into reads anywhere, and the `Deserializer`. DATA that is all padding is refused (`frames.ts:439`), and so is a PRELUDE
that is read in two pieces.

`Hpack` has the table and the two transformations as functions, `Grpc` the calls: unary and
streamed, `OK` or with errors, over streams with the states of `_transition`, forwarded
one frame of each stream in turn. Blocks are compressed when they are written and can be
forwarded in another order, so that two answers of one turn on a fresh connection can make the
client's decompressor fail (`hpack.ts:293`); its read loop ends and all calls hang
(`overtaken`). Until then the tables are in step and each call ends as its handler did, with the
exceptions of `Told`: an error with a bare `%` in its message becomes a `URIError`
(`client.ts:29`; the server does not encode it, `server.ts:290`), and one of code 0 ends a streamed call
as if it had succeeded. A response that cannot be encoded fails after the HEADERS (`EncodeFails`).

## 3. Runs

| Run | Question | Instance |
|---|---|---|
| `session_pair` | Is a waiting call always on somebody's books, and do all calls to a service that has gone end? | two services that call each other, one of them by name, and may both exit; disjoint sessions |
| `session_collide` | What still holds if the sessions of services coincide? (`CallBookkeeping`, `ReplyFromCallee`, `SessionIsKept`, `ImplementsRpc`) | a chain of three services, of which one calls its caller back, all sessions equal |
| `batch` | Order, announcement of buffers, held messages, refinement of `FifoMailbox`; is every message handled? | 4 messages of 3 sizes in rounds of up to 3 |
| `sleep` | Stale timers, lost sleepers, leaks; does every sleep end? | 2 tasks, 4 sessions |
| `buffer` | Are reads exact, in order and as soon as they can be? (`ImplementsByteStream`) | 5 bytes in messages of up to 2, a limit of 4, a separator of 2 |
| `socket` | Are suspended tasks found, closers told, the lock handed on; does every close end? | three tasks of two operations each: a reader that opens and locks, a reader that closes and locks, a closer that abandons |
| `channel` | Are requests and answers paired, nobody forgotten; does every request end? | three requests and one `connect(true)`, two connections, one `close()` or `change_host()`, by order and by session |
| `dns` | Are answers those of the query, ids free again, servers kept; does every call return? | two calls, two servers, of which the second may truncate and the first is retired; two messages in a turn |
| `library` | Does each of the modules of `MCLibrary` deliver what it was given, whole, in order and to its owner, and does what it waits for come? | the bounds below; 2.1 million states, in two to three minutes |
| `session_response_assert`, `buffer_assert`, `channel_assert` | the findings below | violated |

The properties, and what each would catch:

- `CallBookkeeping`: a promise is registered exactly as long as it is open, its
  callee stays watched, and a finished call leaves nothing. Broken by a
  rejected promise that keeps its entry.
- `ReplyFromCallee`: `dispatch_message_impl` matches a RESPONSE by session
  alone; only the callee of that very call can have sent it. Broken by an exit
  report with a session of the wrong allocator.
- `NoCallOrphaned`: for every waiting call there is a request in a mailbox, an
  entry that `ret`, `response` or `exit()` will answer from, or an answer on its
  way. The excepted cases (a handler that forgot, requests dispatched after
  exit or beside another of the same session, calls by name to a dropped mailbox)
  are cases in which the code may leave the caller waiting. The run has disjoint
  sessions, so that the other cases are not excused; the theorem is for all.
- `SessionIsKept`: the session that `response()` asserts stays watched, and for
  the source of the request, until another of that session comes. That it stays
  watched without that exception is what the assertion says, and false (finding 1).
- `ImplementsRpc`: the first answer the callee sends decides the call, and late
  or duplicate answers, reports and the death of the callee change nothing.
- `GoneCalleeSettles`: exit reports and `drop_message` together end every call.
- `DeliveredInOrder`, `StaleViewFlagged`, `ImplementsFifoMailbox`: nothing is
  lost, repeated or read from the wrong buffer.
- `HeldBehindAsync`, `EveryMessageHandled`: messages stay in the buffer after a
  round only if it ended with a `PTYPE_DENO_ASYNC`, which polls the event loop
  without handing the buffer over. They wait for the next ordinary message (an endless stream of polls
  does not hand them over).
- `SleepInv` (types, `StaleTimerHarmless`, `AsleepCanWake`, `TimeoutOnce`, `NothingLeaks`)
  and `SleepEnds`: the race of timer and `wakeup`; a timeout calls its function once.
- `BufferInv` (types, `WaitsForMissing`), `WokenReadsSucceed`, `ImplementsByteStream`: a
  separator is not missed because the search starts too late, a woken reader finds
  what it was woken for, bytes come out in order whatever nodes they lie in.
- `SocketInv` (types, `SuspendedIsFound`, `ClosingIsAwaited`, `LockIsHandedOn`,
  `ReaderIsServed`) and `SocketEnds` (`CloseEnds`, `ClosedEndsAll`):
  `suspend_token` and `closing` name those who wait, so that the CLOSE of the core
  reaches whoever reads and through it whoever closes; the lock has one owner, the first in line
  next; a reader is not left asleep with its bytes in the buffer.
- `ChannelInv` (types, `QueuesAligned`, `WaitingIsHeld`), `AnswerIsOwn`, `RequestEnds`: the two
  queues stay in step over reconnections, a waiting request is known to a dispatcher, nobody
  gets another's answer.
- `DnsInv` (types, `AnswerIsOwn`, `PoolIsCurrent`, `UdpIsOpen`, `ServersKept`) and
  `ResolveEnds`: ids in the pool are those of queries in progress, and hold those that wait; the
  list of servers stays a permutation although calls overlap; a server's socket is
  open when it is written to.
- `WebSocketSafe`: messages arrive whole and in order among control frames and closes; the end
  is told to the server once. `NoSocketLost`: whoever wins the race of connect and timer, the
  socket is closed. `BodyIsWhole`, `ReadsAreWhole`: no message that breaks off is taken for a whole
  one; no byte of TLS is lost. `MysqlSafe`: each call gets its own answer and takes all of it.
  `CursorSafe`: no document twice or out of order. `ValuesComeBack`, `ResolvedAsTold`,
  `FramesComeBack`: what is read is what was written. `InspectorSafe`: messages go to their
  tool's session, and sessions are those of connected tools. `StartSafe`: functions of `init`
  run one by one, and `.launcher` is told the truth once. `ConnectSafe`: whoever waits for
  a connection gets one to the host that is named, authenticated, after all backups if need be.
  `FlowSafe`: every window adds up to its first size at any time, counting what is under way.
  `GrpcSafe`: both ends agree on streams and tables, and calls end as their handlers did.
- `WaitsEnd`: `accept()` ends when the client has gone, a request with a timeout ends, a
  handshake is over, a paused service goes on, `.launcher` hears of a service, whoever waits for
  a connection hears of it, the bytes of a stream arrive.

Where a property excepts a case, the code does go wrong there, and the comment of the property names the
line.

Bounds. The constants whose names begin with `Max`, and `MayExit`, `Reader`, `Closer`,
`Abandoner`, `Locker`, `Connector`, `Retiree` and `Truncator`, bound the instances
only. One call to a pair of services is enough for all orders of request, answer, error,
exit, retirement and drop; three sessions leave room for exits that report several.
Three sizes around a flush limit of 6 bytes give batches that fit, that replace the
buffer at their first, second and third message, and that exceed the flush limit.
Four sessions for two tasks let a task sleep again while the timer of its earlier sleep
is still out. Five bytes in blocks of one and two give separators that start and end at
every place of a node. Three tasks with two operations are the fewest with a reader, a
closer and one more that closes, reads or waits for the lock. Two connections are
needed for a request of the first to meet an answer of the second, three requests and a
`connect` for queues that have an answered, a waiting and a late member. Two calls of
`resolve` with two servers let an id be handed on while an answer to its former owner is
still out. Of `library`: a frame of `Small` = 2 bytes needs the long header; bodies of 2 characters
cover all cuts of a separator; 4 bytes over TLS are read as 2 of a header and the rest; two
calls of MySQL or gRPC are a neighbour for each other; 3 documents with 5 answers and 2 losses
let a retry be retried; `Base` = 4 and numbers to 300 go through all widths of four digits (`Dword` is
256) and beyond; two tools and one pause; three functions of `init` (before, during and after the first
`init_all`); two addresses, two backups, two tasks and two faults let every backup fail once
and be asked for again; a window of 3, frames of 2 and 4 bytes let a window run out and be
restored; payloads of up to 4 cells; a header table of 3 entries evicts. Runs switch off the deadlock check because their bounded instances stop
when all calls, messages or sessions are used up.

Fairness. Mailboxes are served (`Dispatch`, `DropMessage`, `Retire`), `exit()`
goes through (`Report`) and settled promises resume (`Continue`): the core's
workers and V8's microtask queue do that unconditionally. Nothing is assumed of
the application: handlers need not answer and closures need not be used.
`FairSpec` of `SleepWakeup` needs strong fairness for `DispatchTimer`: a script
turn may end with the message still in the mailbox, since turns differ in how many messages
they take, but the mailbox is FIFO and the message cannot be left out of
infinitely many turns. Fairness of `Dispatch` in `SkynetSession` ignores that a
message may wait behind a `PTYPE_DENO_ASYNC` until another message comes
(`HeldBehindAsync`). In `Socket`, `Channel` and `Dns` a turn is worked off and ends, and
the core answers every `socket_connect` and `socket_close`: with strong fairness, since
turns in between disable its messages again and again. `Dns` assumes the timers
besides, and nothing of the servers; `Channel` has no timers and must assume that a
server answers. Where one fairness condition covers several actions, each of
them can occur finitely often only. `FairSpec` of `MCLibrary` has one condition for the
`Progress` of whichever module runs: continuations, messages of the core, timers, and bytes that are
on their way. Of the application `ServiceStart` assumes that the functions of `init` end, and
`ChannelConnect` that `auth` returns and is answered; faults are bounded there. `Http2Flow`
assumes that node's streams and the timers of windows go on. No liveness is asked of `Grpc`:
its steps are finitely many, and `GrpcSafe` says that a call has ended when nothing of it is left to
be sent.

## 4. Proofs

`SkynetSession_proofs` proves, for any services, names, bounds and first sessions
that satisfy `ServiceAssumption` and `BoundAssumption`:

- `TypeCorrect`: `Spec => []TypeOK`
- `BookkeepingCorrect`: `Spec => []CallBookkeeping`
- `RepliesCorrect`: `Spec => []ReplyFromCallee`

None of them assumes that sessions of different services differ. The inductive
invariant `IInv` adds what the three leave unsaid. `Allocation`: sessions are
issued in order, each to one call, and none beyond the counter is in use.
`Registered` and `Watches`: the entries of the two maps of a caller, read in both
directions. `Origins`: every answer, and everything an answer will be made from -
a request in a mailbox, a handler that runs, an unused closure, an entry of
`watching_response` - is about a call that was made to that very service
(`Called`). `CallBookkeeping` is not inductive without `Allocation` (a session
issued twice would find its old entry), and `ReplyFromCallee` not without
`Origins`. There is a lemma per action. The steps of a callee and of the core
leave the caller's maps alone and share one argument (`CalleeStep`: a step that
`Respects` the calls preserves the invariant), and so do the steps that settle
promises (`SettleKeeps`).

`MessageBatch_proofs` proves, assuming `SizeAssumption` and `FlagFits`:

- `BatchTypeCorrect`: `Spec => []TypeOK`
- `DeliveryCorrect`: `Spec => []DeliveredInOrder`
- `StaleViewCorrect`: `Spec => []StaleViewFlagged`
- `HoldingCorrect`: `Spec => []HeldBehindAsync`
- `MailboxImplemented`: `Spec => ImplementsFifoMailbox`

`FlagFits` is a hypothesis of the theorems and not an assumption of the module: it is
the condition under which the code is right, and the configurations satisfy it.
The invariant `BInv` says that delivered, buffered and queued messages carry
consecutive numbers (`Filled`, `Queued`, with `Handed` for the last number that has
left the mailbox), that every buffered message ends before `bs_offset` - so that
the loop of `dispatch_message` finds all of them (`DispatchesAll`) -, that an old
view is flagged (`Flags`), and how the counters of a round relate (`Rounds`).
The refinement of `FifoMailbox` follows from it: the queue of the mailbox, the messages of the
buffer and the ordinary ones of the inbox, is in every state the range of numbers from the first
that was not handed over to the last sent (`PendingFacts`), and on ranges each step is a `Send`, a
`Start`, a `Deliver`, a `Discard` or none (`SendMove`, `QuietMove`, `DeliverMove`, `DiscardMove`).
That the k-th ordinary message of the inbox has the k-th number (`Ranks`, `PlaceFacts`) needs an
induction along the inbox. It is done without an induction theorem: a set of counterexamples would have a least
element (`Least`, from the well-foundedness of the subsets of a finite set).

`SleepWakeup_proofs` proves `SleepCorrect`, `Spec => []SleepInv`, from `OwnTokens`: every task
sleeps on a token of its own, as `gen_token` gives them. The invariant says what an entry of
`session_id_callback` can still be about: the sleep its task is in, or one that was broken off
and whose timer or `wait` will clear it (`Entries`). Sessions that are in use have been allocated
(`Fresh`), so no sleep finds the entry of an earlier one.

`SkynetSession_proofs` also proves, with no assumption about the sessions that services use:

- `NoCallIsOrphaned`: `Spec => []NoCallOrphaned`
- `ResponseIsSafe`: `Spec => []SessionIsKept`

Sessions coincide in the code, so an entry of `watching_response` may be overwritten by a
request of another service, dropped with the answer to it, or dropped for a call of the
callee's own. The proof shows that nothing else can take a request off the books: the invariant follows a
request from the mailbox (`Requests`: it is there once, before its handler starts) to its handler
(`Entries`: an entry is that of a handler that has not answered), and says that two handlers
of one session are never both unended at a service unless the one that can lose its entry is in
`excused` (`Alone`). `Notices` says that only services that have left `exit()` are said to be
down, so no closure is dropped for a caller that waits. What happens to the requests in `excused`
is finding 1.

Its last part proves `RpcImplemented`, `Spec => ImplementsRpc`, for any
constants, sessions that coincide included. The verdict on a call is what the first message
in the caller's mailbox that decides it says (`Says`). A message that is appended decides only what
is undecided, one that is taken settles the calls it decides, and the caller's own steps
settle no others; so each call moves on its own as `RpcCall` allows (`Moves`), and the calls together
make a step of `RpcCall`.

`Channel_proofs` proves, for any numbers of requests and connections and both dispatch
loops:

- `ChannelCorrect`: `Spec => []ChannelInv`
- `AnswersAreOwn`: `Spec => []AnswerIsOwn`

Answers by order carry no name. That each goes to the request it is for rests on `Paired`:
what the dispatcher still waits for is, in order, what is in the buffer, then what is on its way
back, then what the server has yet to read. This survives reconnection only because a
connection is not used before the dispatcher of the last one has ended (`Attached`, `Connecting`) and
because that one leaves nothing behind (`Connections`, `Taken`).

`Socket_proofs` proves `SocketCorrect`, `Spec => []SocketInv`, for any tasks. The hard steps
are those of `close()`: it wakes the reader, sets `closing` and waits, and the reader's
`suspend` is to wake it when it resumes. In between, other tasks may suspend on the same
slot. The invariant orders the resumptions in the queue: a task resumes, and wakes the closer,
before any that suspended later (`InOrder`); the closer is there and asleep as long as a
suspension has not returned (`ClosingWaits`); when somebody is suspended whom a message may
wake, no end of an earlier suspension is still to come (`Settled`). The proof needs the test
`suspend_token = NoTask` of `suspend`: without it exactly the step of `suspend` fails.

`Dns_proofs` proves

- `ServersCorrect`: `Spec => [](UdpIsOpen /\ ServersKept)`, from nothing: the three lists of a
  call are the servers in parts (`Whole`), and the retirement of a socket that was selected has just
  been put off (`SelectedIsFresh`);
- `DnsCorrect`: `Spec /\ FreshTids => []DnsInv`.

`FreshTids` says that the id a query takes is not that of another query in progress, of a timer
or of an answer that may still come. `gen_tid` looks at `request_pool` only, from which a query is
missing until it is sent and again once its timer has fired; the rest is kept apart by the cycle
of 65535 ids and by nothing else. The instance of the run `dns` has it. The invariant
says whose every carrier of an id is (`CarriedByOwner`) and when a timer runs
(`TimersMatch`), so that neither can take what belongs to a later query.

`Library_proofs` proves the properties that the run `library` checks of six modules, and
`Mysql_proofs` that of a seventh, as `LibraryParts` states them (`HC`, `SS`, `CC`, `VI`, `MO`, `WS` and
`MY` are the instances of `HttpClient`, `ServiceStart`, `ChannelConnect`, `Inspector`,
`MongoCursor`, `WebSocket` and `Mysql`, whose variables it calls by their own names). Their specifications say nothing of `which`, so the property holds of each whatever it is:

- `ClientCorrect`: `HC!Spec => []NoSocketLost`. The invariant says who sees to the socket at
  each place of `connect`, `async_conn` and `request` (`Owner`).
- `StartCorrect`: `SS!Spec => []StartSafe`, for any number of functions (`MaxFn \in Nat`). All
  functions that were given to `init()` are one list, of which a first part has been taken
  (`Splits`): what waits is the rest of it, wherever the code keeps it.
- `ConnectCorrect`: `CC!Spec => []ConnectSafe`, for any tasks, addresses and bounds. That who
  waits finds an authenticated connection rests on the order of resumptions: those that were
  woken look before the next connection is attached (`LooksAreSafe`). That each backup is tried
  once rests on `NoneTwice`: what was tried, what is being tried and what is still to be
  tried are three parts of `addr_set`, also after `auth` has changed the backups.
- `InspectorCorrect`: `VI!Spec => []InspectorSafe`, for any finite set of tools (not empty: the
  message to quit names one). Messages of a tool are numbered, and the invariant says of each
  place they pass, tool, pipe, mailbox and session, that what is behind has a higher number
  (`Numbers`). The mailbox alone may be overtaken, since the pipe is empty when it is read
  (`Pausing`). A tool that has left has a session only as long as its disconnect is in the mailbox
  (`Linked`), and this one cannot end a later session, as a tool connects once (`Once`).
- `CursorCorrect`: `MO!Spec => []CursorSafe`, for any number of documents and any batches. The
  client has had documents up to some `s` (`Received`), a cursor that the server keeps
  for it stands behind them (`Serving`), and so does an answer under way (`Answering`), also after
  failures, when documents between were lost. `_limit` is what the limit has left, before
  `get_more` and after, unless a kill has failed (`unkilled`), after which the documents have none
  (`Limited`); without failures what was had is all up to `s`, and the cursor is there as long as more
  is to come (`Complete`).
- `WebSocketCorrect`: `WS!Spec => []WebSocketSafe`, for any `Small` and any number of messages,
  fragments and control frames, foreign ends included. What is on the wire is the rest of a
  frame and then whole frames, each of the message whose number the frames before it give
  (`Chain`), so that a reader that takes what a header announces meets a header next. Of every message
  not yet given, the bytes in the buffer and on the wire are as many as were sent
  (`Measured`), and as long as the reader has its socket that holds of the unfinished message too: what
  `write` appends then completes no message of which a part was dropped. What the reader has
  counted is in its buffer, of this message or of a control frame (`Buffered`). All this is
  said only of a peer none of whose frames is `lost`: after a long masked one the wire is no
  longer a `Chain`, and neither is the rest of what the handshake has cut (`HandshakeFacts`,
  `ConnectedFacts`). `EndIsToldOnce` rests on the one place where the server is done (`EndTold`).
- `MysqlCorrect`: `MY!Spec => []MysqlSafe`, for any number of calls, of every kind and with every
  answer that the module has. An answer does not say how long it is: where it ends, and
  the next begins, is what the response function finds packet by packet. Every answer is of one or two
  results or the lists of a `prepare` (`Answered`, from the definitions of the answers). Of the
  call that is being answered, what has been read is a first part of such an answer
  (`Follows`, `Within`, `PrepareFollows`), so that the last packet and no other ends it
  (`AnswerStep`, `PrepareStep`). The answers of the queue lie one behind the other among the packets
  on their way, the first one without what has been read (`Arranged`). All this is said until
  an answer that is torn is met (`Clear`): one with an error amid its rows, or with a row that cannot
  be read.

`ServiceStart`, `ChannelConnect`, `Pending` of `MessageBatch`, `InOrder` of `MongoCursor` and `MessagesArrive` of `WebSocket`, and the rows of `Mysql`, were
rewritten where they filtered a sequence (`SelectSeq`), about which no facts are known to the
provers: in `ChannelConnect` the filtered list is now the one that has the right addresses in the
right order (`NewBackups`), an ordinary message of the inbox is found by how many there are up to
it (`Place`), the documents of a cursor are a set, whose order is that of `given`, and the bytes of a message
are counted where they stand, and the cells of a binary row, of which there are two, are told apart by name.

All these invariants were checked with TLC before they were proved. Four attempts showed that a
model was wrong. The report that a callee is down may wait in the caller's mailbox when the call is made, and then
decides it at once: `Open` of `RpcCall` allows that, and in the instance of `session_collide`
a service calls its caller back, which shows it. Two branches of `StateOf` held at once. An answer by
session removes the first token of its name from `_thread`, where the model removed all. And a
read may ask for more bytes than the instance has.

Only model-checked: the liveness properties, which are beyond the prover, as is `ENABLED`;
`SocketBuffer` and the modules of `MCLibrary` that compute with RECURSIVE operators: `Tls`, `Pack`,
`LuaSeri`, `Bson`, `DnsMessage` and `Http2Flow`; and `Hpack`, `Grpc`, `Http2Frames` and
`HttpMessage`, whose properties say what a recursive function or a fold over what was sent returns,
which takes an induction over data.

## 5. Findings

1. *response() fails for a request that is open* (`session_response_assert`).
   `watching_response` is keyed by the session alone, and every service has its own
   allocator. Two callers whose requests carry the same session share an entry
   (`index.ts:214`): answering one request removes the entry of the other, whose
   handler then fails `assert(watching_response.has(...), "no session")`
   (`index.ts:408`). For the same reason `exit()`, which is to "report the sources that
   call me" (`index.ts:285`), tells one of the two only.
2. *A read after shutdown finds no nodes* (`buffer_assert`). `_buffer_free`
   (`socket/index.ts:704`) drops the nodes and not `sb.size`; `read` then passes the test
   on the size and `_pop_message` fails `assert(current)` (`socket/index.ts:610`).
3. *close() while an answer is awaited leaves the channel out of step*
   (`channel_assert`). The close signal (token 0) is pushed onto `_thread`; when the read
   fails, `wakeup_all` (`socket/channel.ts:169`) wakes it like a token and
   `skynet.wakeup` fails its assertion (`index.ts:256`) before `_thread` is cleared.

Two more assertions of the code can fail, and the models have it: `assert(response_func)` of
`wakeup` for a task whose timer has fired in this turn (`index.ts:258`), and that of
`conn.ts:340` when a connection's window is used up. The exceptions that the properties of
`library` make are of the same kind; nothing in the repository claims otherwise.

## 6. Not modelled, and the plan

Left out on purpose: the contents of messages, logging and tracing, `skynet_rt` commands that
only read, start-up of V8, the search for modules, OpenSSL, text parsing (headers of HTTP,
names, the hosts file), digests of logins, real numbers in the serialisations, Huffman codes.
`send` with session 0 puts nothing on any map.

Not modelled: the commands and the login of MongoDB (a request and its answer on `Channel`;
digests), log and crypt services (tables and wrappers), the router (a list of routes, third
party), and the vendored or generated code (`std`, `protobufjs`, `jsSHA`, `dts`). The latter makes
up most of the repository's 70,000 lines; the code that belongs to skynet_ts itself
(`ts/lib/skynet`, `ts/service`, `src`) has some 10,000.

Not modelled of gRPC over HTTP/2: settings, priorities, pushed streams, GOAWAY and the loss of a
connection, at which no call is told. Of `Socket`: listening and UDP sockets. Of
`Channel`: requests without an answer and `response()` alone. Of `Dns`: `set_servers`.

Next: listening and UDP sockets; the loss of a gRPC connection. Of the modules without a theorem,
`Tls` and `SocketBuffer` are those whose properties are about state and not about data: their
recursion would first have to be rewritten as functions, and a buffer is still read by a loop
over its nodes.

## 7. Running

    tlc -config SessionPair.cfg MCSession      (also SessionCollide.cfg)
    tlc -config Batch.cfg MCBatch
    tlc -config Sleep.cfg MCSleep
    tlc -config Buffer.cfg MCBuffer
    tlc -config Socket.cfg MCSocket
    tlc -config Channel.cfg Channel
    tlc -config Dns.cfg Dns
    tlc -config Library.cfg MCLibrary
    tlapm SkynetSession_proofs.tla
    tlapm MessageBatch_proofs.tla                  (and so for every module named ..._proofs)

The configurations that end in `Finding` show the findings.

Every property has a mutant in `PROJECT.json`: a definition of the model replaced
by a plausible slip of the code (`...KeepingEntry`, `...Silent`, `Copy` without the
copy), with which TLC finds the property violated. The faulty variants stand
before the definitions they replace.
