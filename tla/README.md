# A verification project for MyFRP

MyFRP is a reverse proxy: `frps` runs on a public machine, `frpc` next to the
services to publish. `frpc` keeps one control connection (and, if the server
has a `data_port`, one data connection) to `frps`; a user's connection to a
public port is announced over it, dialled locally by `frpc`, and copied as
`DATA` messages. This directory holds TLA+ models of that system, TLC
configurations that check them on small instances, and proofs checked by TLAPS.

Both programs are single-threaded asyncio: coroutines interleave only where one
awaits something that may really suspend it. That is the grain of the models:
**one action is what one coroutine does between two such awaits.** `drain()`
suspends only while the transport's buffer is above its high-water mark, so
whether it may is a constant of a model; `FlowControl` has the buffers themselves.

## 1. Inventory

| Component | State | Operations | Hard behaviour | Correct when |
|---|---|---|---|---|
| Control connections and sessions (`frps.py` 204-355, 615-632, 1733-1777) | `total_connections`, `sessions`, `session["data_writer"]` | accept, `LOGIN`, idle timeout, disconnect, cleanup | many ways out of one handler, two cleanup functions that share tables | the limit counts what is served; nothing of a client outlives it |
| Proxy registry (`frps.py` 357-484, 770-890, 981-1023) | `proxies`, `proxy_servers`, `http_proxies`, `stcp_providers`, `stcp_visitors`, `total_proxies` | `REGISTER` of six types, routing by host | a check before an await, the record after it | one owner per name, one route per host, one socket per proxy |
| TCP/HTTP tunnel, server side (`frps.py` 634-768, 1375-1574, 1684-1702) | `conn_pool`: reader, writer, `client_writer`, `client_ready` | `NEW_CONN`, forward, `INIT_CONN`, `DATA`, `CLOSE`, timeouts | drain before the pool is filled, timeouts racing `INIT_CONN`, disconnects | byte stream each way; every public socket freed |
| TCP/HTTP tunnel, client side (`frpc.py` 406-616) | `state.conn_pool`, one task per connection | dial, forward, `DATA`, `CLOSE` | the reader blocks while it dials | the same stream, seen from the other end |
| Data channel (`frps.py` 500-613, `frpc.py` 169-265) | `data_writer`, `data_task` | `DATA_AUTH`, timeouts, end, fallback | two TCP connections without mutual order; a side that believes it is up when it is not | falling back loses nothing |
| STCP relay (`frps.py` 892-979, 1485-1549, 1704-1719; `frpc.py` 711-872) | `stcp_conns`: two writers, two buffers | `STCP_NEW_VISITOR`, `STCP_VISITOR_READY`, `DATA`, `CLOSE` | data before the other side is known, an await inside a flush, three ways for a side to vanish | byte stream each way; neither end is left hanging |
| frpc session loop (`frpc.py` 81-167, 267-404, 874-885) | `retry_count`, `session_id`, `heartbeat_task`, `reader_task` | connect, login, register, heartbeat, reconnect | what one session leaves to the next | reconnects until the limit, nothing of the old session is used |
| Remote commands (`frps.py` 1609-1661, `frpc.py` 887-928) | `pending_cmds`, `cmd_results` | send, answer, timeout | late answers, disconnects while waiting | each answer reaches its own caller, tables do not grow |
| FTP proxy (`frps.py` 1041-1373, 1576-1597; `frpc.py` 618-703) | `ftp_data_ports`, listeners, `ready_event`, buffer | PASV/EPSV rewriting, data connections | data before the listener's client, timeouts that leak | one data connection per PASV, all listeners closed |
| UDP proxy (`frps.py` 1880-1927; `frpc.py` 1184-1204) | `conn_pool` entries without writer | datagrams in and out | documented as incomplete | no entry lives for ever |
| Framing (`protocol.py` 82-178) | receive buffers | `encode`, `decode`, resynchronisation | bad bytes between frames | what was encoded is decoded, in order |
| Access control, statistics (`access.py`, `stats.py`) | port ranges, networks; counters under a lock | `check_port`, `check_ip`; `on_*` | ranges and clamps | counters equal what they count |
| Forward proxy (`forward_proxy.py`) | none of its own | `CONNECT`, plain HTTP | one direction ending before the other | both sockets closed |
| Service manager (`webadmin/api/service_manager.py`, `log_buffer.py`) | `process`, `_stopping`, `_tasks`, `restart_count`; the ring | start, stop, restart, automatic restart, subscribe | start and stop crossing at awaits | one process per service, none after stop |
| Web admin users and configuration (`webadmin/api/auth.py`, `config_manager.py`, `routes/proxies.py`) | `users`, `_fail_records`, files | login, lock, CRUD | read-modify-write of files, lock expiry | names stay unique, locks expire |
| Front end, command lines, other routes | view state | | I/O | not modelled |

Interaction: users' sockets -> tunnel (server side) -> control or data
connection -> tunnel (client side) -> local service. A control connection's end
calls `_remove_session` and `cleanup_client_by_writer`, which reach into the
registry, the tunnels and the STCP relay. Every component reports to the
statistics. The web admin starts both programs as subprocesses and talks to
the WebAPI of `frps`.

## 2. Modules

| Module | Models | Uses |
|---|---|---|
| `Pipe` | abstract specification: one direction of a connection is a byte stream | |
| `Framing`, `MCFraming` | encoding, TCP's pieces and the three kinds of decoding loop | `Pipe` (refinement) |
| `Tunnel` | a TCP or HTTP connection from accept to close, at both programs, with control connection and data channel | `Pipe` (refinement) |
| `FlowControl`, `MCFlowControl` | the tunnels of one session when buffers fill | |
| `Registry`, `MCRegistry` | control connections, sessions and the proxy tables | |
| `StcpRelay`, `MCStcpRelay` | an STCP connection: frps between two clients | `Pipe` (refinement) |
| `Session` | one frpc that reconnects, frps' sessions, remote commands | |
| `FtpData` | the data connections of an FTP proxy | `Pipe` (refinement) |
| `ForwardProxy` | a connection through the forward proxy | `Pipe` (refinement) |
| `ServiceManager`, `MCServiceManager` | frps or frpc as a subprocess of the web admin | |
| `Tunnel_proofs`, `FlowControl_proofs`, `Registry_proofs`, `StcpRelay_proofs`, `Session_proofs`, `ForwardProxy_proofs`, `ServiceManager_proofs`, `Framing_proofs` | theorems about the module they are named after | that module |

The modules meet in three places. `Framing` shows of a TCP connection between
the programs what all the others take for granted: a channel of whole messages in
order (`MessagesArePipe`). `Pipe` is what a tunnel, a relay, an FTP data
connection and the forward proxy all promise. `Registry` and `Session` cut one
thing in two: `Registry` has many clients and the tables in full, each connection
used once; `Session` has one client that comes back, and one name.

Definitions headed *Faulty variant* stand before the definition they vary and are
used by nothing: each is a plausible bug, put in place of the definition to see
that a property notices (`mutants` in PROJECT.json).

### Framing

`wire` holds bytes in flight, `buffer` the bytes a reader has read and not decoded,
`got` the messages handed to their handler. A read returns any number of the
bytes that have arrived; `Decode` is one call of `Protocol.decode`, and
`DecodeLoop`, `DecodeAuth`, `DecodeAnswer` are one turn each of the loops that call
it (control handlers of both programs; `handle_data_conn` step 1; `_login` and
`_connect_data_channel`). The magic byte is a number that also occurs as a length,
an id and data. `eager` says whether the writer goes on before its first message
has been answered.

### Tunnel

State: `pool`, `clientWriter`, `ready` are `conn_pool` and the fields of its
entries; `task` is where the coroutine of a public connection stands
(`accepted` - in `handle_tcp_proxy_conn` or `handle_http_vhost_conn`;
`draining` - NEW_CONN written, drain suspended; `failed` - that drain has raised;
`waiting`, `forwarding` - in `forward_proxy_data`). `sock` is the set of public sockets that frps has not
closed, `counted` the entries of `StatsManager.conn_stats`. On the other side
`cpool`, `ctask` and `dialing` are `state.conn_pool`, the `forward_local_data`
tasks and the dial `handle_new_conn` awaits. `dataWriter`/`dataOpen` are the
server's, `dataUp`/`dataReader` the client's view of the data channel; they
differ, which is where the trouble is. Messages in flight are FIFO per TCP
connection and direction; the two TCP connections are not ordered.

Chunks are numbered, so a stream is `<<1, 2, ...>>`. A user's `UserWrite` may
happen before anything has been announced (it then waits in the socket). The
request head that the HTTP handler reads and keeps as `prepend_data` is the
user's first chunk.

Failures: `DataFails` lets the ten-second wait of the setup and the idle timeout
of `handle_data_conn` fire at any time; `CtrlFails` lets the control connection
break; `DrainPauses` lets the drain of NEW_CONN suspend (and then succeed or raise).
Whatever `DrainPauses` is, a drain on a control connection that has been reset may
raise at once (`AnnounceFails`).

### FlowControl

Several connections of one session, with both forwarding tasks running. An end is a
pair of a side and a connection: the user at frps, the local service at frpc.
`link[s]` is the buffer of the connection side `s` writes to, with what is in
flight; `toEnd[e]` what has been written to an end and not been read. `drain()`
waits while a buffer holds more than `High` chunks: `forwarder[e]` is then
`draining`, and `blocked[s]` names the end for which the reader of side `s`
waits, or is `Link` while it waits for the buffer of its own answers. `Wake` is
asyncio's resuming of *all* tasks that wait for one transport. Ends may be deaf
(read nothing), leave, or be given up by the idle timeout.

`dataChannel` is fixed in a behaviour. Without a data channel the DATA share the
control connection with calls and answers: frps' reader answers PING with PONG,
frpc's answers NEW_CONN with INIT_CONN, and each drains what it has written before
it reads on (`HandleCall`). With one, that traffic is on another connection and
fills nothing. A call or an answer takes no room (`Load` counts DATA), and a
side calls again once it has been answered. Neither program announces a close and
each answers one kind of call, so both sides are described by the same actions. The two
water marks of a transport are one limit here. Left out: the connections of FTP and
STCP, whose handlers drain other connections (frps.py:1273, 1534, frpc.py:655).

### Registry

One control connection is one element of `Ctrls`; it is opened at most once, so a
client that reconnects is another element. A registration with a port is suspended
twice inside `start_tcp_proxy` (or UDP, FTP): as `checked[k]` it has passed the
checks and is about to bind, as `starting[k]` the socket is bound, and neither
`proxies` nor `proxy_servers` knows it yet. `BindPort` may also fail, whatever frps
itself has bound, because another program may have the port. `bound[s]` records who
opened a listening socket, which no table of the program does; it is what the leak
shows in. `Disconnect` is the whole `finally` block: `_remove_session` takes out
HTTP and STCP entries of the session without telling the statistics, then
`cleanup_client_by_writer` takes out what is left and does. In `LoginRespFails` the
connection breaks while LOGIN is being answered: the session is stored, and the
handler ends without knowing of it.

### StcpRelay

`writer[side][c]` and `buffer[side][c]` are the two writers and the two buffers of
an entry of `stcp_conns`. A writer is a pair of client and TCP connection, so
that "the same writer" is what it is in the code: identity of the connection.
`flushing[w]` is a message handler of connection `w` suspended in the drain after
a flush. `mode` is fixed in a behaviour: whether clients have sessions (it decides
which cleanup function finds the provider), whether drains suspend, and which
clients have a data channel.

### Session

The connections of one frpc process are numbered (`gen` is the latest). `phase` is
where `start` and `_connect_and_run` stand; `executing` holds the remote command its
reader task awaits, during which it reads nothing. frps' side has `serving` (running
`handle_control_conn`), `sessions` and `owner` (who has the proxy's name). The two
ends notice a broken connection independently, so frpc may have reconnected while
frps still serves the connection before; `FrpsRestarts` empties frps. Each
`send_remote_cmd` is a `cmd[c]`: new, waiting for its event, woken, answered, timed
out or failed; `pending` and `results` are the unions of the sessions'
`pending_cmds` and `cmd_results`. `prompt` restricts behaviours to those in which
frps notices first; `portFree` to those in which no other program takes the proxy's
port (else a REGISTER may be dropped without an answer); both are fixed in a
behaviour. `LoginRespFails` is the drain of LOGIN_RESP that raises: the session stays
in `sessions`, the connection leaves `serving`. The heartbeat only keeps connections from timing out and is left
out with its timeouts: a connection may end at any time.

### FtpData

One FTP control connection and the data connections asked for on it. `entry` and
`listening` are `ftp_data_ports` and its listeners; `creating` is where
`_create_ftp_data_listener` is suspended (it runs inside `handle_data`, so the
reader of that connection waits); `task`, `proxyWriter`, `buffer`,
`clientWriter` and `ready` are `_handle_ftp_data_conn` and the fields of
`data_info` (`closing` - the CLOSE is sent, the user's socket is being closed, and entry
and listener are still there). `cconns`, `reading`, `dialing` are frpc's side. The text of the
answers, port numbers and EPSV's form are left out. So is `ftp_data_conns` of the
control connection, which is written and never read. A data port is used by one user.

### ForwardProxy

`stage[c]` is where `handle_conn` stands (`head`, `dialing`, `body`, `piping`,
`done`), `pipes[c]` the running pipes of `_tunnel` by the side they read.
`got[s][c]` is what has been written to a side, with who wrote it: after a plain
HTTP request each pipe has the two ends of one and the same connection (operator
`Target`), so it is not implied that the other end did. Heads are read or
refused, not parsed; dialling succeeds, fails or times out. `_active_conns`, written
and never read, is left out.

### ServiceManager

`pc[k]` is where each coroutine is suspended: a request's handler (`killing` - the
half second after killing leftovers, `spawning`, `stopping`, `cleaning`) or the wait
task of a process (`waiting`, `sleeping` before an automatic restart,
`spawning`). `process`, `stopping`, `autoRestart` and `tasks` are fields of the
manager; `proc[p]` are processes of the operating system, which may be left over
from elsewhere, fail or end. `External` is what a listing of processes shows; whether
listings may fail (`ps` missing, too slow, or with an error), which counts as nothing
found, is `psWorks`, fixed in a behaviour. `start` looks for processes and spawns without an await
in between (unless it kills leftovers), which the model keeps in one action.

## 3. Runs

| Run | Expect | Bounds | States | Question |
|---|---|---|---|---|
| `tunnel_pipe` | pass | 1 TCP connection, 2 chunks each way, control may break | 59,764 | is the tunnel a byte stream in each direction, and is every socket freed? |
| `tunnel_faults` | pass | 1 HTTP connection, 2 chunks, every failure | 165,047 | do pool, sockets, tasks and statistics agree whatever fails? |
| `tunnel_fallback` | violation | 1 TCP connection, data channel fails | – | does the fallback keep the stream? |
| `flow_control` | pass | data channel or not; 2 connections, 2 chunks of one service and 1 of every other end, limit 0, a user that may be deaf, and may leave | 466,078 | are buffers bounded, and who waits for whom? |
| `registry` | pass | 4 control connections (1 blocked, limit 2), 2 names, 3 ports (1 not allowed), 10 requests | 400,912 | are the tables consistent under every interleaving? |
| `registry_leak` | violation | the same | – | is every listening socket closed with its client? |
| `stcp_relay` | pass | 1 connection, 2 chunks each way, 3 modes, clients may break | 67,815 | is the relay a byte stream that delivers and ends, the visitor told, the right provider linked? |
| `session` | pass | 2 retries, 1 command | 55,789 | does a reconnect bring the proxy back, are sessions ended and commands answered? |
| `services` | pass | 2 concurrent requests, 3 processes | 901,965 | one process at most? does a stop stop? |
| `ftp` | pass | 1 data connection, 2 chunks each way | 17,595 | does a transfer arrive, and does leaving end all? |
| `forward` | pass | 2 connections, one refused, 2 chunks each way | 9,249 | is CONNECT a byte stream, and do its ends end together? |
| `framing` | pass | 3 messages, 3 readers, eager writers or not | 20,419 | does a reader stay at the start of a frame? |

What the properties say:

* **Streams** (`UpstreamIsPipe`, `DownstreamIsPipe`, `TransfersArePipes`,
  `ConnectIsPipe`, `MessagesArePipe`). The detailed specification implements
  `Pipe` with `sent`/`got` mapped to the two ends: no chunk is lost, duplicated
  or overtaken by another as long as the connection lives. The chunks may stop
  at any point. `tunnel_pipe` checks this with and without a data channel and
  while the control connection breaks; `tunnel_fallback` shows that it fails once
  the data channel does.
* **Sockets** (`PoolIsTended`, `NoOrphanSocket`, `SocketsAreFreed`). Each public
  socket is in `conn_pool` with a task that will end it, or in the hands of a
  handler; and it is closed eventually.
* **Disconnect** (`TcpConnsEndWithProxy`, `NoStaleOwner`, `LimitHolds`,
  `GaugeNeverUnder`, `StatsFollowPool`). After a disconnect nothing of the client is
  left in the tables, and the counters count what they claim to; `StatsFollowPool`
  says which connections the statistics keep besides those in `conn_pool`.
* **Dialling** (`DataFollowsDial`, `AnnouncedOnce`, `ProviderIsDialled`). No byte
  travels towards a service that has not been connected; no connection is
  announced twice; the provider linked to a relay is one that has dialled.
* **Full buffers** (`BuffersAreBounded`, `FlowsUnlessDeaf`). What
  the programs hold of data is bounded by the limits and one chunk per task. With a
  data channel a connection is held up only while an end at its receiving side
  neither reads nor leaves. Without one, such an end at either side stops both
  directions: its side's reader, or by way of a full buffer the reader that wants
  to write PONG or INIT_CONN into it. There is one more way, `Circle`: both readers
  wait to write their answers, each for the other one to read. `FlowsUnlessDeaf`
  says that there are no others; without the disjunct `Circle` it is false even where
  every end reads.
* **Registry** (`RoutesAreUnique`, `ListenersMatchProxies`). Names, hosts and
  sockets have one owner, although a registration is suspended between check and
  record.
* **Relay** (`RelayDelivers`, `EndsTogether`, `VisitorIsTold`,
  `ProviderGoneClosesConns`). What one end writes arrives while both stay; when
  one leaves, the other is told.
* **Sessions** (`ProxyComesBack`, `OldSessionsEnd`). A client that is back in a
  session gets its proxy back if frps knew of the end before (`prompt`) and the port
  can be bound (`portFree`); frps gives up every connection that frpc has given up,
  and with it the session it knows of. The session of a LOGIN that could not be
  answered stays.
* **Remote commands** (`CommandBooks`, `RemoteCmdIsAnswered`). An event is pending
  for exactly those that wait, one that is woken finds its own result, and what
  reaches a reader is answered.
* **FTP** (`DownloadDelivers`, `LeavingEndsAll`). A user that stays gets all the
  server wrote, whichever of the user and `FTP_DATA_READY` comes first; a user that
  leaves takes entry, listener and dialled connection along.
* **Forward proxy** (`BodyComesFirst`, `EndsTogether`). A target gets the body
  before anything of its own, and an end that leaves does not leave sockets behind.
* **Services** (`AtMostOneProcess`, `StopCancelsRestart`). However starts, stops,
  restarts and automatic restarts cross, one process, as long as processes can be
  listed; and a stop also cancels the restart that is pending.
* **Framing** (`FramesIntact`, `NothingWaits`). The undecoded bytes are exactly the
  frames not yet handled, and a reader does not go back to `read` while it has a
  whole one.

### Bounds, and why they are enough

Connections do not share state in `Tunnel` and `StcpRelay` except the channels
and the dial that blocks frpc's reader; one connection already meets each of its
own messages in every order across two TCP connections, and two chunks suffice to
show loss, duplication and reordering. What connections do share, room in the
buffers, is `FlowControl`'s, where two of them can block each other in either
direction, and one chunk is already too much for a buffer (`High` = 0). Without a
data channel one service writes two chunks and every other end one, which fills both
buffers and closes the circle. Proofs cover what several connections could disturb (section 5). In `Registry` three
unblocked connections exceed the limit of two and let one name be registered, lost
and registered again by a third party, while two registrations of the same name
are suspended. Ctrls are used once, which bounds `total`. `Session` has three
connections: the one before the last may be given up by one end and not by the
other while the last is in use. `ServiceManager` has three processes: one left
over or started first, one started meanwhile, and the automatic restart of
either; the third to be spawned is the last (`MaxProcs`). Two handlers and the wait
tasks cross at every await; its `Requests` are interchangeable and no property
names one, so symmetry is sound (and no liveness is checked there). `Framing`'s
three messages allow one frame to be cut, one whole and one more to come with the
same read.

`CHECK_DEADLOCK FALSE` everywhere: users may do nothing, connections are used
once, so every model may come to rest.

### Where a property holds

Some properties hold under a condition that the formula or the constants state. Each
condition marks a place where the program does something else:

* `StatsFollowPool` counts the connections whose NEW_CONN could not be sent: the
  handler of that exception (frps.py:1424) closes the socket and does not undo
  `on_connect`, so the statistics keep them for ever. It does not take a full buffer;
  a control connection that has been reset is enough.
* `TcpConnsEndWithProxy` fails when the drain of NEW_CONN is suspended across the disconnect:
  the connection enters `conn_pool` after `_remove_proxy` has looked there. Its
  task and the ready timeout still end it, which is `PoolIsTended`.
* `DownstreamIsPipe` of `Tunnel` is proved where that drain does not suspend
  (`~DrainPauses`, as in `tunnel_pipe`): DATA for a connection that is not in
  `conn_pool` yet is dropped by `handle_data`, and what follows the entry
  (frps.py:1414) is handed on. For this the drain would have to outlast frpc's dial and
  its first chunk; a suspended drain of the model may take any time.
* `SocketsAreFreed` speaks of frps' sockets. docs/connection_flow.md:994 says that a
  CLOSE is sent to the client when the user leaves; `close_conn`
  (frps.py:1691) sends none, and frpc keeps its connection until the service ends it.
* `ProviderGoneClosesConns` holds for clients without a session only: with one,
  `_remove_session` has emptied `stcp_providers` before `cleanup_client_by_writer`
  looks for the connections to close (frps.py:622 and 1747).
* The visitor's stream through the relay is compared where no drain suspends
  (`Steady`): the buffer is emptied after the drain of its flush (frps.py:969,
  1527), so that a chunk handled in between is sent behind a second copy.
* Streams, delivery and end of a relay are compared where no client has a data channel
  (`OnControl`). frps records and uses control writers for STCP (frps.py:915, 958),
  while README.md:391 moves DATA and CLOSE to the data channel and frpc skips them
  elsewhere (frpc.py:438); the other way DATA on the data connection overtakes
  the messages that link it. `VisitorIsTold` and `ProviderIsDialled` are checked
  with a data channel at the provider, and need the visitor to have none.
* `ProxyComesBack` needs `prompt`: if frps still serves the old connection, the name is
  refused, and frpc only logs the ERROR (frpc.py:443). It also needs `portFree`: a bind
  that fails is logged and not answered (frps.py:992), against docs/connection_flow.md:996, which says that ERROR is sent.
* `OldSessionsEnd` speaks of sessions whose connection is served. A session whose
  LOGIN_RESP could not be drained is stored (frps.py:314), not assigned by the handler
  (320, 255) and therefore never removed (281), although docs/new_conn_detail.md:1029
  says that the `finally` block removes it.
* `LeavingEndsAll` needs a session without data channel: FTP_DATA_READY sets
  `client_writer` to the control connection (frps.py:1371). Also visible in `FtpData`:
  frpc sends no CLOSE at the end of a download (frpc.py:694) and does not report a
  failed dial (frpc.py:663); after the ready timeout entry and listener stay
  (frps.py:1305).
* `ConnectIsPipe` is about CONNECT. The reversed tunnel of other methods pipes
  each connection back into itself (forward_proxy.py:273, 346), although its
  comment (line 272) announces the target's response.
* `AtMostOneProcess` needs process listings that succeed (`psWorks`): when `ps` fails,
  takes more than three seconds or is missing, `_find_external_processes` returns an empty
  list (service_manager.py:66, 92), and two starts that cross before
  `create_subprocess_exec` has returned both spawn. It also needs requests that
  do not ask to kill leftovers: after the half
  second of service_manager.py:156 nobody looks again. `StopCancelsRestart` speaks
  of the task in `_tasks`: a start during the second before an automatic restart
  replaces it, and the older task is out of every stop's reach
  (service_manager.py:214; docs/dashboard_spec.md:382).
* `FramesIntact` names the case it excludes, `Handover`: what one read brought after
  the answer to LOGIN or DATA_AUTH goes away with a local buffer (frpc.py:302),
  against docs/connection_flow.md:1023. "auth" loses whole messages, never a
  part of one.
* `FlowsUnlessDeaf` excludes ends that do not read and stay: the reader waits for them
  in drain (frps.py:1571), and with it every connection of that client, against
  docs/connection_flow.md:978. Without a data channel it also excludes `Circle`, the two
  drains of frps.py:1605 and frpc.py:487 that wait for each other.

### Fairness

Each `FairSpec` assumes weak fairness of the coroutines of both event loops: message
readers, forwarding tasks, and the timers they wait on (`wait_for` with 30 s or
`idle_timeout`), as well as noticing the end of a connection. An event loop runs
every ready task and every expired timer, so this is what asyncio gives. Nothing
is assumed of users, local services, the network's failures, or which branch a
failing write takes. Where more or less than that is assumed:

* `EndsTogether` of `StcpRelay` in addition assumes the idle sweep, a loop with a sleep
  in it (frps.py:1779), and states that assumption in the formula.
* `Session`: frpc's loop, frps' handler of each connection and the caller that takes
  its result are fair; breaks, restarts and timeouts of commands are not.
* `FtpData`: the suspended listener creation, the readers, and the tasks of both ends.
* `ForwardProxy`: `handle_conn` and its pipes, and the closing of a socket nobody holds
  any more (by its own end or the garbage collector).
* `FlowControl`: readers (`ReaderTask`) and forwarding tasks, and that ends that are not
  deaf read what is there (`EndReads`). Neither the idle timeout nor another call is
  assumed to happen.
* `ServiceManager`, `Registry` and `Framing` have no liveness properties and no fairness.

## 4. Findings

1. `tunnel_fallback`: docs/connection_flow.md:304 promises a fallback to the
   control channel. `_connect_data_channel` leaves `data_writer` set when the
   authentication fails (frpc.py:171), and `process_message` then drops DATA on
   the control connection (frpc.py:438) until a failing write clears it.
2. `registry_leak`: docs/connection_flow.md:993 promises that all listeners of a
   client close with it. Two concurrent registrations of one name leave a socket
   nobody knows (frps.py:388, 397).

Further disagreements of code and documents, which a condition of a property marks, are in
section 3, "Where a property holds".

## 5. Proofs

All proofs are for every value of the constants that the named assumption of the
module (`ConstantsAssumption`) allows.

**Registry.** `InvHolds` proves the inductive invariant `IInv`: `TypeOK`,
`LimitHolds`, `NoStaleOwner`, `RoutesAreUnique`, `HttpAndStcpDisjoint`,
`ListenersMatchProxies`, and what makes them inductive: `CheckedIsServed` (a
registration that is about to bind has an authenticated client) and
`StartingHoldsItsSocket`: the socket a suspended registration has bound is bound
in its connection's name, belongs to no recorded proxy and to no other suspended
registration, and the connection is still served. Without it `ListenerStarted`
could record a socket that another proxy has. `LimitHolds` needs the cardinality
lemmas of `FiniteSetTheorems`, and hence `IsFiniteSet(Ctrls)`. `GaugeCorrect` adds
the gauge: a registration counts once, and a disconnect takes away no more than it
removes, clamped or not. Theorems: `TypeCorrect`, `LimitCorrect`, `OwnersCorrect`,
`RoutingCorrect`, `ListenersCorrect`, `GaugeCorrect`.

**Tunnel.** `TypeCorrect`; `PoolCorrect` and `SocketsCorrect` from an invariant on
task, pool and socket of each connection (`SocksInv`); `StatsCorrect`, whatever
fails, since with `SocksInv` it is inductive itself; `CountersCorrect` from `CountInv`, under
the assumption `~DrainPauses` that section 3 shows it needs; `DialCorrect` from the chain that a DATA
to frpc needs `client_ready`, which needs an INIT_CONN, which needs the dial:
`DialledInv` says of each link that the local connection exists, wherever the
message is. `AnnouncedCorrect` from `OnceInv`: a connection is still with its
handler, or its NEW_CONN is in one channel, or past it. The lemmas about `Holds` say
how a message type's presence in a channel changes with `Append` and `Tail`.

`UpstreamCorrect` and `DownstreamCorrect` are the refinements: a tunnel implements
`Pipe` in both directions, for any number of connections and chunks. Both assume
`~DataFails`, without which `tunnel_fallback` has a counterexample, and the downstream
one `~DrainPauses` (section 3). The argument: (1) the two programs agree on the
channel in use. If frpc believes that the data channel is up, it is, or frps has
ended the session and sends nothing more (`SessInv`, `AuthInv`); frps writes
to the channel that frpc reads (`WriterInv`), and no DATA is on the control
connection while frps has the data channel (`CtrlIdle`). So the DATA of a connection
is in one queue, not spread over two that are not ordered. (2) In that queue it has
consecutive numbers. `Numbered` says that the DATA messages of a connection go up by one; `Reaches` says
from which number to which. What has been received, what is under way and what has
been taken from the writer's socket then fit together (`UpInv`, `DownInv`), as long
as the reader is still there; after that, nothing further arrives.

**FlowControl.** `BoundsCorrect` from `BoundsInv`: a buffer above its limit is
charged to those who wait for it. `Load(link[s])`, the DATA in it, exceeds `High` by at
most the number of forwarding tasks that drain there, since a task that goes on adds one
chunk and becomes one of them, and they are woken together once the buffer is within its
limit; answers of the readers add nothing. An end that holds more than `High` is the one
its side's reader waits for, or has left. `LoadAppend` and `LoadTail` say what the two
ends of a queue do to its load.

**StcpRelay.** `TypeCorrect`; `VisitorCorrect` and `ProviderCorrect`, for modes where
the visitor has no data channel: `LinkInv` ties the messages in flight, the writers
in frps' table and the ends to each other, so that every way of closing a
connection finds the visitor's writer. `GoneCorrect` from `GoneInv`.

`DownstreamCorrect` and `UpstreamCorrect`: the relay implements `Pipe` in both
directions under the conditions in the properties themselves (`OnControl`, `Steady`).
A message of the relay carries several chunks, so positions take the place of
message numbers: `Carries(q, c, n, m)` says that the DATA of `c` in the queue `q`
leads from position `n` of the stream to position `m`, by way of a function that
gives the position after each message (`Track`). `Flow` puts one direction
together: the reader's end has the first chunks; the queue to it leads from `n` to
`m`, the queue from the writer's end from `k` to what has been written. Between `m`
and `k` is frps. From the provider nothing waits there (`DownInv`: `m = k` while the
connection can be handed on), which needs `OrderInv`: frps hears of a connection
before any of its data, and the provider does once, so that data never comes
from a side it would be taken for the other's. From the visitor the chunks between `m`
and `k` are those in the buffer (`UpInv`), whichever of `handle_stcp_visitor_ready`
and `handle_data` flushes it. This alone is not inductive: when the
visitor is gone its last messages are lost, `k` moves on and the buffer does not.
`Waits` therefore keeps the position `b` up to which frps has buffered apart
from `k`, and ties them together while frps serves the visitor.

**Session.** `TypeCorrect` (in it: the name belongs to a connection that is served and
has a session, which is true also where a session outlives its connection) and
`BooksCorrect`: a command is in flight in one place
only, in a queue once, or in the hands of frpc's reader (`FlightInv`), on a connection
that is up (`LinkInv`); with `ExecInv`, `RetryInv` and `LoginInv` an answer that
arrives belongs to a command that waits or has timed out.

**ForwardProxy.** `TypeCorrect`; `BodyFirstCorrect`; `ConnectCorrect`, the
refinement: each direction of a CONNECT tunnel implements `Pipe`. Its invariant says
that what an end has received are the first chunks of the other end, and all that
have been read from there as long as the end takes what is written to it.

**ServiceManager.** `AtMostOneCorrect`, under the conditions in the property itself
(listings succeed, nobody asks to kill): it is inductive with `KillingIsAsked`
(without the request to kill, nobody waits between looking for processes and spawning).
`StopCorrect` from `StopInv`: a stop that has answered has
cancelled and awaited the task in `_tasks`, and one that has not is about to.

**Framing.** `TypeCorrect`; `FramesCorrect` and `WaitCorrect`, the two invariants; and
`PipeCorrect`, the refinement: where the writer waits for the answer to its first
message, or none is waited for, messages arrive as `Pipe` says. The inductive
invariant adds to `TypeOK` the phase of a connection (`PhaseInv`: which loop reads
it, and what may have been written by then) and the stream of bytes (`StreamInv`:
what is in the buffer and on the wire are the frames that have been written and not
been handled). The bytes of several frames are a fold, `FlattenSeq`, whose
value an induction would give. Instead the recursive function behind it is compared
with the one wanted at the least length at which they differ (`Least`), which
exists since lengths are natural numbers.

Model-checked only: every liveness property (`FairSpec`), which is out of the
prover's reach, and `FtpData` with its refinement `TransfersArePipes`, which would
need what `StcpRelay`'s does and, in addition, the listener whose reader waits.

## 6. Plan

Done: `Pipe`, `Framing`, `Tunnel`, `FlowControl`, `Registry`, `StcpRelay`,
`Session` (with the remote commands), `FtpData`, `ForwardProxy`, `ServiceManager`, and
the proofs above. What is left, in order:

1. A `Tunnel` with two sessions, in which `conn_pool` of frpc survives a reconnect
   (frpc.py:148) and its tasks write to the new control connection.
2. The log streams of the web admin: history against subscription.
3. Concurrent changes of users and configuration files, and the lock after failed
   logins; they are handlers without awaits, so little can interleave.
4. The reconnecting WebSocket hook of the front end.

Theorem worth proving next: the refinement `TransfersArePipes` of `FtpData`, by
positions as in `StcpRelay`. The refinements of `Tunnel` without `~DataFails` are
false; a weaker one, in which a stream may lose chunks at the moment the data channel
goes and only then, would say what is left.

## 7. Not modelled

* Contents of messages and HTTP heads (a chunk is a number, a route is a set of
  domains), TLS, byte counters, logging, what a remote command does to a machine.
* The web admin's users, logs, configuration files, file routes and schemas:
  synchronous handlers, or input and output; the front end; the command lines.
* UDP datagrams: the repository calls replies incomplete. The parsing of port ranges
  and networks in `access.py`: constants of `Registry` stand for its results.
* A user or a service that writes while its FTP or STCP peer is deaf (section 2,
  `FlowControl`). Buffers have limits in `FlowControl` only; in the other models a write never fills
  one, and `pauses`, `DrainPauses` say where a drain may suspend all the same.
* A user whose address `check_ip` refuses is closed at once and leaves no trace, so
  `Tunnel` has no such users; its `IdleSweep` may find a connection idle at any time,
  which includes every time the code does.
* Clients of `StcpRelay` do not reconnect within the model, and a client's data
  connection breaks with its control connection. `max_retries` = 0 (no limit) is an
  infinite `Session`.
* The end of a process is modelled where another one notices (`FrpsRestarts`,
  `Exits`): nothing is persisted but configuration.
