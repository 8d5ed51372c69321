# A TLA+ model of hajimi

hajimi is a reverse proxy. A client behind a NAT keeps one connection (TCP, or a
stream of a QUIC connection) to a public server; the server listens on ports,
and every connection accepted there becomes a *tunnel* that the session of the
named client carries to a target in the client's network. Both programs are
written as C++23 coroutines over the `ilias` runtime and each runs on a single
thread, so a step of a program is what it executes between two `co_await`s.

Below, `src/...` is the program's source directory, `client/...` the desktop program, and
`README.md` the repository's own documentation.

## 1. Inventory

| Component | Code | State | Operations |
|---|---|---|---|
| Tunnels | `src/tunnel.cpp` | per peer: `mTunnels`; per tunnel end: `sendWindow`, `sendWindowUpdated`, `closed`, the queue behind `bytesSender`, `peerSum` | `addTunnel` and its coroutine (two copy workers), `closeTunnel`, `onWindowUpdate`, `onDataExchange` |
| Server session | `ClientSession`, `handleSession` in `src/server.cpp` | `mSessions`, `mStreamId`, `mPongArrive`, latency and rates | registration, read/write/ping/rate workers, `openTunnel`, `onPeerOpenTunnel` |
| Client session | `src/client.cpp` | `mStreamId`, the retry delay | `run`, `connectOnce`, `runOnce`, read/write/ping/forward workers |
| Proxy rules | `addRule`, `removeRule`, `ProxyRule::run`, `openTunnel`, `onPeerOpenTunnel` in `src/server.cpp` | `mRules`, stop sources, connection counters | add, remove, accept, forward |
| Wire protocol | `src/protocol.hpp` | the reader's buffer | framing, parsing, writing |
| Buffers | `src/skbuf.hpp` | reference counts, free lists | allocate, release, refill |
| QUIC | `src/quic/quic.cpp` | streams, connections, the context's deadline and wake-up events | callbacks of ngtcp2, receive/send/timer workers, read, write, flush, shutdown, reset, close, connect, accept |
| UDP batching | `src/quic/udp_batch.cpp` | whether the kernel segments | send, receive |
| Happy eyeballs | `src/utils/he2.hpp` | attempts under way | connect |
| WebUI, DuckDNS | `src/web.cpp`, `src/duckdns.cpp` | the last answer | HTTP handlers, the update loop |
| GUI | `client/` | the child process and a stop timer | start, stop, kill |

**How they interact.** The server and client sessions exchange messages over one
ordered byte stream. Everything a session wants to say goes through one
unbounded channel (`mMessageSender`) to its write worker; everything it hears is
handled one message after the other by its read worker, which calls the
`TunnelManager` directly. The rules find a session by name in `mSessions` when
they accept a connection and call its `openTunnel`; a client may ask for a tunnel
to another client, and the server then couples two tunnels of two sessions with
an in-memory stream. The WebUI calls `addRule`, `removeRule` and `status`. A QUIC
context drives its connections from three workers that share events, and calls
back into the streams the sessions read and write.

**What is hard.** Tunnels open, refuse and close at both peers at once while
messages cross; flow control reads the window before an await and charges it
after; credits are batched; the end of one copy cancels the other; registration,
time-outs and reconnection race; a session is still found by name while it ends;
`addRule` checks before an await what it inserts after. `PROJECT.json` lists each
at its line under "hazards".

**What makes each component correct.**

* Tunnels: bytes in order, none lost or repeated, while an end lasts; a bounded
  buffer; no credit lost; a slow program does not block the others; a close
  reaches the other end; nothing is left behind.
* Sessions: at most one session per name; whoever stops answering is removed;
  a client without a session tries again; nothing opens in a session that ends.
* Rules: one listener per port; a removed rule stops; the counters give back
  what they take.
* QUIC: credits match what was consumed or discarded; a waiter is woken; a
  deadline is not missed; a close reaches the peer.
* Wire protocol and buffers: what is written is parsed back; a buffer is free or owned.

## 2. Modules

| Module | Models |
|---|---|
| `TunnelPipe` | what one direction of a tunnel promises: an ordered byte pipe of bounded capacity that delivers while its receiving end is up |
| `TunnelManager` | the tunnels of one session at both peers, with the connection between them |
| `MCTunnelManager` | the bounds of the instances TLC checks |
| `TunnelManager_proofs` | the theorems about `TunnelManager` |
| `SessionRegistry` | what the server promises about names: one session each |
| `Session` | registration, heartbeat, loss of connections and the reconnect loop, of any number of clients |
| `MCSession` | the instances of `Session` TLC checks |
| `Session_proofs` | the theorems about `Session` |
| `ProxyRules` | the server's rules, the sessions they find by name, the tunnels opened in them and their counters |
| `MCProxyRules`, `ProxyRules_proofs` | the instance TLC checks; the theorems |
| `QuicStream` | the streams of one QUIC connection, and how their packets reach the socket |
| `UdpBatch` | one batch of datagrams handed to the kernel; composed by `QuicStream` |
| `QuicContext` | the connections of a QUIC context, its three workers, connect, accept, close, stop |
| `MCQuicStream`, `MCQuicContext` | the instances TLC checks |
| `Queues` | what is left of a queue when some of its elements are taken out, in their order; used by `QuicStream` and `QuicContext` |
| `InductionLemmas` | sums over finite sets, `Kept`, `SetToSeq`: what the proof modules below need of them |
| `QuicContext_proofs`, `QuicStream_proofs` | the theorems about `QuicContext`; about `QuicStream` with `UdpBatch` |
| `SkBufferPool` | the pool of buffers and the operations of a buffer; a data structure, without a next-state relation |
| `Frames` | messages written, framed, read and parsed in those buffers, by both peers; composes `SkBufferPool` |
| `MCFrames` | the instance TLC checks |
| `SkBufferPool_proofs`, `Frames_proofs` | the theorems about the pool's operators; about `Frames` |

A definition `X_Y` before `X` is `X` with one plausible bug: it is used nowhere, and each
shows, put in the place of `X`, that a property notices the bug.

### TunnelManager

The two peers are `"server"` and `"client"`; an end of a tunnel is a pair
`<<peer, id>>`, and every variable of an end is a function on those pairs.

| Variable | Code |
|---|---|
| `chan[p]` | the channel of p's `mMessageSender`, its write worker, the connection and what the other read worker has not yet handled: one FIFO |
| `mStreamId[p]` | the next id: even at the server, odd at the client |
| `mTunnels` | the keys of both `mTunnels` maps |
| `worker[e]` | where the tunnel's coroutine is: `none`, `spawned` (inside `entry()`), `copying`, `ending` (`whenAny` or `entry` has returned, the `ScopeExit` has not run), `gone` |
| `sendWindow`, `updated`, `closed`, `bytes`, `peerSum` | the fields of `Tunnel`, its queue and the local of `writeCopyWorker` |
| `bufsize[e]` | the size of the read that `readCopyWorker` waits for; 0 while it waits for the window |
| `nread`, `nwritten` | how far the local streams were read and written: history only |

Actions: `ServerOpenTunnel` (`openTunnel`), `ClientForward` (`forwardWorker`),
`StartCopy` and `ConnectFailed` (the two ways `entry()` returns), `ReadData` and
`WindowWake` (`readCopyWorker`), `WriteData` (`writeCopyWorker`), `CopyEnds` (the
`whenAny`), `Cleanup` (the `ScopeExit`), and one action per message: `OnOpenTunnel`,
`RefuseOpenTunnel`, `OnDataExchange`, `OnWindowUpdate`, `OnTunnelClose`.

A step covers what the code does between two awaits. `trySend` on the unbounded
channel, the map operations and the event are synchronous, so `ReadData` sends the
message, charges the window and starts the next read in one step, and a
message handler is one step. The awaits that separate steps are the read, the
write, the wait for the window, `entry()`, and the end of `whenAny`: between the
last two copy steps and `Cleanup` other coroutines run, which is why `ending` is a
state of its own. A write is a step when it completes; how much of a chunk was
written when it fails is not modelled.

A byte is its offset in the stream it was read from. `DataExchange` and
`WindowUpdate` carry the offsets they cover, so that order, loss and repetition can
be stated; no guard reads an offset, and the number the code sees is the
difference. Windows and counts are integers, not 64-bit words: that `sendWindow`
never goes below zero nor above its initial value is a property (`FlowControl`), so
the width never matters.

Left out: the session's end (all tunnels and the connection vanish together), the
messages that are not about tunnels, and the allocation of buffers.

### Session

The clients are any set of programs with a name and a transport each; two may have the
same name. A connection is a slot: TCP, or a QUIC connection with its one stream.

| Variable | Code |
|---|---|
| `client[c]` | where `ProxyClient::run` is: `trying` (`connectOnce`), `hello` (`runOnce` waits for the answer), `online` (the workers run), `closing` (the scope drains), `sleeping` (the retry delay), `exited` |
| `quic[c]` | the client's QUIC context still runs |
| `slot[c]`, `owner`, `kind` | the stream a client holds, who opened it and over what |
| `link`, `lost` | the connection passes messages; whose last messages it did not deliver |
| `toServer`, `toClient` | the channels, write workers and sockets of both ends |
| `handler[k]` | where `handleSession` is: `hello` (reads Hello), `acking` and `rejecting` (write the answer), `running`, `draining` (`waitAll`), `free` |
| `mSessions` | the map, from name to slot |
| `waiting`, `mPongArrive` | `pingWorker` waits; its event |
| `faults` | history only: how many faults there were |

Server actions: `OnHello`, `StartWorkers`, `OnPing`, `OnPong`, `PongArrived`, `PingAgain`,
`PongTimeout`, `ServerLoses`, `EndSession`. Client actions: `Connect`, `ConnectFailed`,
`OnHelloAck`, `Rejected`, `AnswerPing`, `IgnorePong`, `SendPing`, `ClientLoses`,
`ForwardFailed`, `Leave`, `Retry`, `ContextFailed`. `CutLink` is the network.

`OnHello` ends where the handler awaits the write of its answer: a session is
registered before HelloAck is written and served only after, and `ServerLoses` may come in
between. `draining` is a state of its own because the name is taken until the scope
is empty.

The network is modelled from how the code depends on it. `CutLink` kills a connection
without a word; what was on its way may or may not have arrived. The end whose messages
were not delivered gets an error (`Notices`); a QUIC end does so anyway after its idle
timeout (`src/quic/quic.hpp:109`); a TCP end that has nothing to send does not. Over
QUIC a close overtakes what was sent before it, since a stream that is dropped is
reset and a connection that is dropped is closed at once.

Left out: the tunnels (module `TunnelManager`), a Hello of another version, time. A
timeout may fire when it is armed and what it waits for is not there; on a live link
that is the fault `slow`. The length of the retry delay has no effect on what can
happen, only on when.

### ProxyRules

| Variable | Code |
|---|---|
| `rule[r]` | where the coroutine `addRule` spawned is: `spawned` (not yet run), `binding`, `listening`; its port and client |
| `stop` | the rules whose `mStopSource` was asked to stop |
| `mRules` | the map, from port to rule |
| `session[n]` | the session in `mSessions`; `acking`: it is registered and HelloAck is being written; `draining`: its scope is stopped and waits for its coroutines |
| `conn[c]`, `leg[c][i]` | a connection: the rule that accepted it, and the coroutines of its one or two tunnels, each in the scope of a session (`in`; `None` once `handleSession` has left it behind) |
| `activeConnections[r]` | the counter the wrapper stream of `openTunnel` changes |
| `raced` | history only: the ports where a second `addRule` came before the first one's coroutine |

Actions: `AddRule` and `RemoveRule` (which the WebUI's POST and DELETE call), `RuleStarts`,
`RuleListens`, `BindFails`, `RuleStops` (the coroutine of a rule, with its `ScopeExit`),
`AcceptConn` (`ProxyRule::run`), `ForwardConn` (`onPeerOpenTunnel`), `LegStarts`, `LegCanceled`,
`LegEnds` (the coroutine of a tunnel), `SessionRegisters`, `SessionUp`, `AckFails`, `SessionDrains`,
`SessionGone` (`handleSession`). `AckFails` is the early return behind the registration: the name goes, the
scope is only asked to stop, and the legs in it have no session any more. What the tunnels carry is `TunnelManager`'s. Registration and heartbeat are
`Session`'s, from which this module keeps what a rule can see of a session.

### QuicStream and UdpBatch

`strm[s]` is `StreamState`, `conn` the part of `ConnectionState` that is about streams, and both
keep the names of the code. `handle`, `reader`, `writer` and `want` are the coroutines of the
program: the reader's and the writer's mutex allow one of each, `waiting` is an await of `changed`,
`woken` the time between the event and the coroutine. `phase` and `batch` are `sendPackets` and
its `PacketBatch`, `udp` is `UdpBatchSocket::send`. `peer` is history: what went out, what was acknowledged and
granted, what the peer ended; no guard of the program reads it.

Packet generation and the reading of a batch of datagrams are synchronous in the code. Each takes several
actions here, one per packet and one per callback, during which nobody else moves (`Busy`,
`conn.receiving`); `Notify` is called at the end, as in the code. Between `StartSend` and
`SendReturns` the sender awaits the socket and everything else may happen: acknowledgements
of datagrams that are already out, resets, closes, the end of the connection. `UdpBatch` sends a
batch as one segmented message, or, once the kernel has refused that, in any
partial submissions.

ngtcp2 is external. It delivers data within the windows it was granted, acknowledges only what went out,
closes a stream when both directions are over, and reports an error of a direction as
`stream_close2` does. It may refuse a change or a packet in the sender's own turn (`PacketsFail`): what was packed is
dropped. Bytes are counted, not named.

Two branches of `sendPackets` need no action. A stream that ngtcp2 no longer lets write (`NGTCP2_ERR_STREAM_SHUT_WR`,
`NOT_FOUND`, `src/quic/quic.cpp:691`) has had its `writeError` set before, by the callbacks or by
`reset`, and is passed over by the condition in front. A refused probe of the path's MTU (`:773`) carries no stream:
it is `NothingToSend`.

A behaviour follows one of `Plans`: what the program does with each stream, how much either side
sends, whether the peer may reset or stop, what may end the connection. The plan is
chosen in the initial state, so that one run covers several small scenarios whose
product would be too large.

### QuicContext

| Variable | Code |
|---|---|
| `conns[c]` | `ConnectionState`: handshake, queued, error, closeRequested, closeSent, draining, retireAt, expiry; and whether it is in `connections` |
| `incoming` | `ContextState::incoming` |
| `sender`, `timer` | where `sendWorker` (with `sendPackets`) and `timerWorker` are, and the copy of the connections a turn walks over |
| `sync` | the events `wake` and `timerChanged`, `deadline`, `armedDeadline` |
| `race`, `handle` | `connect(string)` with its attempts; the connections the program holds |
| `run` | stopped, and where `runContext` is: `working`, `closing` (`closeConnections`), `ended` |

There is no clock. A time is a rank up to `Horizon`, ngtcp2 moves an expiry to any rank when a
packet is read or written, and a sleep may end at any moment; what matters is which deadline the
timer was armed with. The receive worker is the actions `ReceiveInitial`, `ReceivePacket`, `Handshake`,
`ReceiveEnd`, `ReceiveLate`, `ReceiveOther`: each reads one packet, notifies and wakes the sender, as the worker
does after a batch; `StreamWork` is the application's `wake`, of `read`, `write` and the rest of a stream's
operations. A step of the sender ends at the await of the socket, where other
coroutines may add, close or break connections. What may fail has an action each: `Expires` (a timeout of
`handle_expiry`), `WriteFails` (ngtcp2 fails a stream's change or a packet, the turn goes on), `CloseFails`
(it cannot encode the close) and `SendFails` (the socket); the last two stop the context, or in the closing pass
go on with the next peer. `ClosingStarts` is the end of `whenAny` (a worker
returned, or `run()` was canceled) and the start of the shielded `finally`.

`dirty`, `wrote`, `gaveUp`, `broken`, `failed`, `healthy`, `woken` and `untold` are history, but for `wrote`, which
is ngtcp2's (it writes no close before its first packet), and `woken`: which connections were in the list when
`stop()` notified them, what a suspended `close()` depends on. `Plans` works as in `QuicStream`.

### SkBufferPool and Frames

A pool is a record of free lists, nodes and the count `mBuffers`; a buffer is a node with `head` and
`tail`. The operators on a pair of both are the members of `SkBuffer` the program calls.
A node keeps its bytes, so that a buffer that is used by two, or freed too early, shows.
The program never calls `clone`, `slice`, `makeWritable` or `compact`: a buffer has one owner and the
reference count is left out.

`Frames` is one direction of a session. `ReadLocal` is a read of `readCopyWorker` with the buffer
it prepared, `SendControl` any other message; `WriteControl` and `WriteData` are the two
halves of `writeMessage`; `ReadHeader`, `ReadPayload` and `ReadEmpty` are `readMessage`, split at
its await, with `parse`; `WriteLocal` is `writeCopyWorker`, which frees what it was given.
`ReceiveForeign` is a frame with a payload of another length than this version writes: too long, or too short
for the integer it begins with, which `parse` refuses. A name, an endpoint or a text has any length. Where it does
not fit the writer's buffer the assert of `prepareBack` fails, and the program ends (`WriterAborts`): that is the debug
build; a release build writes past the buffer, which is undefined and not modelled. `Message` is what the writer can be given; that a
`FatalError` always has a text is how `src/src/server.cpp:217` and `:248` make one. The end
of a session may come at any time, in the middle of a frame too, and gives every buffer back.
An integer is the sequence of its bytes and its width a constant; byte order does not show.

## 3. What TLC checks

| Run | Instance | Properties |
|---|---|---|
| `one_tunnel` | one tunnel, window 4, messages of at most 3, 7 bytes one way and 3 the other | `DataInOrder`, `CreditConserved`, `FlowControl`, `PipesSafe` |
| `two_tunnels` | one tunnel opened by each peer, window 2, both carrying data to one side each | `TypeOK`, `QueueHasReader`, `FreshOpen`, `NoOrphan` |
| `tunnel_liveness` | two tunnels, window 2, the program behind one of them may stop reading for good | `BothEndsClose`, `WindowReopens`, `PipesDeliver` |
| `truncation` | as `one_tunnel`; expected to fail | `NoTruncation` |
| `sessions` | two clients of one name, `auto` and TCP, three connections, two faults among `cut`, `slow`, `context` | `TypeOK`, `AckMeansRegistered`, `PongAnswersPing`, `RegistrySafe` |
| `session_liveness` | two clients of one name, QUIC and TCP, three connections, one fault of any kind | `StaleForgotten`, `NameServed`, `Reconnects` |
| `half_open` | one TCP client, one `cut`; expected to fail | `KeepsTrying` |
| `context_failure` | one client, one `context`; expected to fail | `KeepsTrying` |
| `rules` | one port, two rules, two sessions of which one has rules, two connections | `CountersExact`, `ListedListens`, `SessionOutlives`, `RemovedEnds` |
| `quic_stream` | a stream of each end, five plans, buffers and windows of one or two bytes, batches of two | `TypeOK`, `SendBuffers`, `CreditExact`, `ReceiptsHonest`, `WaitersBlocked`, `SentOnce`, `Flushed` |
| `quic_context` | two connections, six plans: a client that races two candidates, a server with two peers | `TypeOK`, `NothingUnserved`, `TimerCovers`, `AcceptOnce`, `RaceLeavesOne`, `PeerTold`, `StopEnds`, `CloseEnds` |
| `frames` | size classes of 2 and 9 bytes, a writer's buffer of 10, payloads of one and two bytes, control messages with and without text, one of them a byte too long, one message in each queue and two at the tunnels | `RoundTrip`, `AssertsHold`, `PoolsSound` |

Tunnels:

* `DataInOrder`: what an end has written, has queued and is still to receive are
  consecutive parts of what the other end read.
* `CreditConserved`: window, credits on their way and unacknowledged bytes of a
  registered end always add up.
* `FlowControl`: the unsigned window never wraps or exceeds its initial value, and an end
  never holds more than a window of one tunnel.
* `QueueHasReader`: the `assert(mustOk)` of `onDataExchange`.
* `FreshOpen`: an `OpenTunnel` meets a peer that never saw its id, with the right
  parity, and nothing of that tunnel overtakes it.
* `NoOrphan`: a tunnel known to one peer only has a message on its way that mends it.
* `BothEndsClose`, `WindowReopens`, `PipesDeliver`: a close reaches the other end, a
  used-up window reopens, and a tunnel whose program reads delivers whatever the
  program of another tunnel does.
* `PipesSafe`, `PipesDeliver`: each direction of each tunnel implements
  `TunnelPipe`, in its safety and in its liveness part.

Sessions:

* `AckMeansRegistered`: a client that has read HelloAck is the session the server
  holds under its name, or that session has ended and the client was told so as far as the
  link allows. Never are two clients of a name both served.
* `PongAnswersPing`: a Pong, on its way or remembered by the event, answers the Ping
  `pingWorker` is waiting for.
* `RegistrySafe`: the sessions implement `SessionRegistry`.
* `StaleForgotten`: a session whose link is dead gives its name back.
* `NameServed`: once the faults are over, a name that a QUIC client asks for is served,
  though another client wants it too.
* `Reconnects`: a client that is cut off tries again if it was registered or uses
  QUIC. `KeepsTrying`, without that condition, is what `README.md` promises and does
  not hold.

Rules:

* `CountersExact`: a rule's `activeConnections` is the number of its tunnels that copy, whatever
  ends them: an end of either stream, a session that drains, a cancellation before the
  coroutine has started.
* `ListedListens`: a port that forwards is listed with the rule that forwards it, and what is listed
  forwards; not so while two additions of the port cross (see the findings).
* `SessionOutlives`: no tunnel outlives the session it refers to, also when it was opened while
  the session was draining. Both `ClientSession` and the pool of buffers live in that scope. Excepted is a
  tunnel that was opened while HelloAck was written, when writing it fails (see the findings).
* `RemovedEnds`: a removed rule ends and frees its port though its connections go on.

QUIC streams:

* `TypeOK` holds the limits of the send buffers, from which `write` subtracts in unsigned arithmetic.
* `SendBuffers`: the buffered bytes of a connection are those of its streams, those of a stream its
  chunks, though an acknowledgement, a close and a reset race to give them back.
* `CreditExact`: every received byte is credited once, by the read or discard that consumes it, and
  nothing is left uncredited in a stream that is dropped and closed, but for one interleaving (see the findings).
* `ReceiptsHonest`, `SentOnce`: what `flush` and `shutdown` report was handed to the kernel, once
  and in order, across refused segmentation, partial submissions and failed sends.
* `WaitersBlocked`, `Flushed`: no wake-up is lost, and `flush` and `shutdown` return; but for a stream
  that closes during its last send (see the findings).

QUIC contexts:

* `TypeOK` holds `maxConnections`, against which closing connections count.
* `NothingUnserved`, `TimerCovers`: the sender does not sleep on anything that became due while it
  awaited the socket (data of the program, a packet, a new connection, a close, a close that is to be sent again),
  nor past a deadline: no order of publishing, arming, firing and interrupting
  loses one. Excepted is the first close of a connection that ngtcp2 failed in the sender's own turn (see the
  findings).
* `AcceptOnce`, `RaceLeavesOne`: a completed handshake is handed out once; `connect` leaves one
  connection, and closes those that completed too late.
* `PeerTold`: a connection that is given up, or healthy when the context stops, is not forgotten before
  its close was sent. Excepted, one by one, are those that broke by themselves, that never sent a packet, and that the closing
  pass could not send to or did not reach in its 250 ms: one peer's failure takes nothing from the others.
* `StopEnds`, `CloseEnds`: `run()` and `close()` return; the latter not if the connection broke or had never
  sent anything (see the findings).

Frames:

* `RoundTrip`: a message is parsed as it was written, whatever frames came before, and data keeps its
  bytes until its tunnel has written it.
* `AssertsHold`: of the asserts of `SkBuffer` and the writer on the room in a buffer, on what is popped from it
  and on the size of a data message only one can fail, at a control message whose name, endpoint or text is too long for the
  writer's buffer. Frames of a peer of another version are included: the parser never pops more than there is.
  Nothing ensures that every control message fits (see the findings).
* `PoolsSound`: every node is in one buffer or once in its free list, and a pool has all its
  buffers back when its session is over.

**Bounds.** `MaxSlot` bounds the connections that exist at a time: with two clients, three
leave one for a stale session. `MaxFaults` bounds the faults; a second one may hit the
recovery from the first. `SendPing` waits until its previous Ping is answered: the client
pings every 10 s and the bound keeps the queues finite. `MaxStreamId` bounds the ids a session hands out and `MaxBytes` what each
local program sends; both are guards that only stop new input. A window of 4 with
messages of 3 makes a full read, a short read, a read limited by the window and a
wait for the window all happen, and 7 bytes need the window to be granted again.
The threshold of the credits (half the window) lies between two messages and
within one. Two tunnels are enough for ids of both parities and for one tunnel
to stand in another's way.

`rules`: two rules of one port are a rule and the one added while it still runs; the same coroutines of
different ports share nothing. Two connections of two legs meet a session that drains from both sides.
`quic_stream`: the limits are below what is sent, so every window and buffer fills; two
packets make a batch that can be sent in part, with two streams in it. `quic_context`: two
connections are enough for one to change while the sender serves the other; with room for one, a second
attempt is refused; two ranks let a deadline come closer or move away. `frames`: a payload fits neither class
exactly, the larger class is exceeded by the writer's buffer (oversize), and a slab of the small class is used
up, so every path of `allocate` is taken; two messages at the tunnels keep a buffer alive
while its successor is read.

**Deadlock** is not checked: a session without further connections is at rest when all
its tunnels are, and a client may have stopped for good (`exited`, or half-open). Rules, connections,
contexts and sessions end in the other modules, and then nothing is left to do.

**Fairness** (`FairSpec`). Weak fairness of the read workers and of every step of a
coroutine that is ready: the executor runs what is ready and the connection
delivers. `CopyEnds` is fair only when `closed` is set: nothing else makes a local
stream end. `WriteData` is fair only for the tunnels of `FairIds`; the others belong
to programs that may never take another byte. No read is fair: a program need not send.

In `Session` every step of a coroutine that is ready, the delivery of a live link, a timer
and the error of a dead link are weakly fair; `PongTimeout` only on a dead link. `Connect` is
strongly fair: two clients compete for the slots of a bounded model, which the real network
does not have, and the fairness keeps that bound from starving one. No fault is fair.

In `ProxyRules` only the coroutines of the rules are fair; connections may last for ever. In `QuicContext`
the sender, the timer, the closing pass and a `close()` that may return are weakly fair: the executor
resumes what is ready, sends complete and sleeps end; the race, the program and the peers
are not. `QuicStream` has strong fairness where a step is disabled over and over while another
coroutine has its turn: a woken reader or writer, which the executor resumes before long, and
the packets of a stream, which ngtcp2's flow control may hold back but not for ever.

**Finding** (`truncation`). A tunnel ends with
`whenAny(readCopyWorker, writeCopyWorker, closed)`. An end that reads the end of
its stream sends `TunnelClose` behind its last data; the other end then stops
its write worker although chunks that have arrived are still in its queue, and
they are never written. The shortest run TLC finds needs one message. For the
same reason a half-closed connection is not carried: the end of one direction ends
both.

**Finding** (`half_open`). `runOnce` waits for HelloAck without a timeout and without a ping of
its own (`src/client.cpp:162`). If a TCP connection dies after Hello was delivered, the client
has nothing to retransmit; it waits for ever and never reconnects. The server side, waiting for
Hello (`src/server.cpp:213`), holds its coroutine in the same way.

**Finding** (`context_failure`). `ProxyClient::run` puts the QUIC context's `run` and the
reconnect loop into one `whenAny` (`src/client.cpp:108`). A failed send or receive of the UDP
socket ends the context, the reconnect loop and, in `main.cpp`, the program, of a TCP
client as well.

The findings that follow have no run of their own; the property named excepts each, and `PROJECT.json` quotes what
the code says.

* HelloAck cannot be written: `handleSession` returns without the `waitAll` every other path has, and the tunnels that
  rules and other clients opened meanwhile outlive the session and its pool (`SessionOutlives`, `src/server.cpp:261`).
* ngtcp2 fails a connection in the sender's own turn: the close that tells the peer why is due but not sent in this turn,
  and `wake` is not set. The sender may sleep on it, and `removeExpired` may erase the connection before it is sent
  (`NothingUnserved`, `src/quic/quic.cpp:759`; also 648 and 654).
* A stream closes during its last send: the acknowledgement of datagrams that are out already ends it while `sendPackets`
  awaits the socket. Its receipts are then applied after it has left the map, `notify` no longer reaches it, and a `flush`
  or `shutdown` that waits for them is never woken (`Flushed`, `WaitersBlocked`, `src/quic/quic.cpp:765`).
* A FIN arrives between `reset()` and its application: the bytes that come with it are neither read nor discarded, and
  never credited to the connection (`CreditExact`, `src/quic/quic.cpp:655`).
* `close()` of a connection that the peer closes first, or that never sent a packet, waits for a close that is not sent.
  A stop of the context wakes it, but not when the connection was erased before: then it waits for good. A connection
  that never sent a packet is not removed either before the context stops (`CloseEnds`, `src/quic/quic.cpp:1195`).
* Nothing bounds the names, endpoints and texts that are written into the writer's 256 bytes but the assert of
  `prepareBack` (`AssertsHold`, `src/protocol.hpp:319`).
* Two additions of one port in a row: the second one's `ScopeExit` erases the first from the list, which goes on
  listening and can no longer be removed (`ListedListens`, `src/server.cpp:388`).
* Found by reading: a DELETE of any path removes a rule (`src/web.cpp:147`), a persistent error of
  `accept` spins (`src/server.cpp:191`), the GUI's stop timer may kill the next process
  (`client/connection.cpp:97`), and the initial window and the first retry delay differ from what is documented.

## 4. What is proved

`TunnelManager_proofs` proves, for every window, message size, number of tunnels and
amount of data (the assumptions are those of `TunnelManager`: window and message
size are positive naturals, bounds are naturals):

| Theorem | Statement |
|---|---|
| `TypeCorrect` | `Spec => []TypeOK` |
| `Invariant` | `Spec => []IInv` |
| `DataStaysInOrder`, `CreditStaysConserved`, `FlowStaysControlled`, `QueueKeepsReader`, `OpensStayFresh` | the safety properties above |
| `PipesImplemented` | `Spec => PipesSafe`, the refinement |
| `NothingOrphaned` | `Spec => []NoOrphan` |

`FlowControl` is not inductive: it follows from the counters of both ends and the
messages between them. `IInv` therefore adds

* `Lifecycle`: a tunnel begins unknown to both peers; until its `OpenTunnel` is sent
  the other end is untouched and nothing about it is under way (`Reserved`, `Quiet`).
  This gives `FreshOpen`, and that a new registration is the first of its id;
* `Counters`: for every end, closed ones included, credited <= written <= received <=
  read, and the window of a sender is at most what the receiver has acknowledged;
* `HonestMessages`: a message on its way speaks of bytes that were really read or
  written.

With these, `DataInOrder` and `CreditConserved` are inductive: both say through
`Contiguous` that the messages of one kind cover consecutive offsets, and the lemmas
`ContiguousAppendIn`, `ContiguousAppendOut` and `ContiguousTail` say what
sending and receiving do to that. There is one lemma per action (`ReadDataInv`,
`CleanupInv`, ...), joined in `NextInv`. `PipesImplemented` maps `sent` to the far
end's `nread`, `got` to `nwritten` and `receiver` to the life of the
coroutine; every step is a step of the pipe or leaves it alone.

`NothingOrphaned` has an invariant of its own on top of `IInv`, for `NoOrphan` says nothing of the end that
is not registered:

* `CloseFinal`: a `TunnelClose` is the last word of its sender. That end is gone for good, or it is the server's,
  which refused the tunnel and will not be asked again. So when a close is read, the end it removes leaves nobody behind;
* `Announced`: who has an `OpenTunnel` on its way holds the tunnel, or has closed it and said so. So an end that is
  added meets its far end, or the close of it;
* `Held`: a tunnel of the server that is not announced yet is registered.

`Session_proofs` proves, for any number of clients, names, connections and faults, any
assignment of names and transports (the assumptions are those of `Session`: there is a
client, every client has a name and a transport, the bounds are naturals):

| Theorem | Statement |
|---|---|
| `Invariant`, `TypeCorrect` | `Spec => []IInv`, `Spec => []TypeOK` |
| `AckStaysTrue` | `Spec => []AckMeansRegistered` |
| `RegistryImplemented` | `Spec => RegistrySafe`, the refinement |
| `PongsAnswer` | `Spec => []PongAnswersPing` |

Its `IInv` joins `TypeOK` with

* `Connected`: a client holds a connection exactly while it is inside `runOnce`, and
  it is its own; so no two clients share one;
* `Names`: `mSessions` and the handlers agree in both directions. `mSessions.erase` goes by
  name, not by identity: this is why it never erases another session;
* `Acked`: where HelloAck has been read, or is on its way, the session is registered or
  has ended and said so. `AckMeansRegistered` alone is not inductive, for HelloAck may be
  read long after it was written.

The refinement maps `holder` to `mSessions` and `served` to the registered handlers; the first
half of `OnHello` is `Claim`, the end of a registered session is `Release`, and every
other step leaves the registry alone.

`PongsAnswer` counts: `PingSum` is the number of Pings on their way to the client, of Pongs on their way
back, and of the event that is set. `PingInv` says that the sum is at most one while a session waits and
zero while it sleeps or has not begun, and that a free slot has no event set: `EndSession` and the early ends
leave none behind, and without this a new session on the slot might begin with the Pong of the last one. The client's
steps never make the sum larger: a Pong replaces the Ping it answers.

`ProxyRules_proofs` proves, for any number of ports, rules, names and connections (the assumptions are those of
`ProxyRules`: rules forward to names, the connections are a finite set, `None` is no rule and no name):

| Theorem | Statement |
|---|---|
| `Invariant`, `TypeCorrect` | `Spec => []IInv`, `Spec => []TypeOK` |
| `CountersStayExact`, `ListingsStayTrue`, `SessionsOutlive` | the safety properties above |

`TypeOK` has no run of its own: TLC checks what it says through `CountersExact` and the theorem covers
the rest. Its `IInv` adds

* `RulesInv`: a port where no two additions crossed has at most one rule, which is listed from the first
  step of its coroutine to the last. `ListedListens` is not inductive: without this, the `ScopeExit` of one
  rule might erase another, as it does where they cross;
* `LegsInv`: a leg has no session unless it is used, and a rule's connection has one leg
  only; with it, what a leg's end subtracts is what its start added;
* `ScopesInv`: a leg that is there is in the scope of a registered session, or was left behind by one whose
  HelloAck was not written. This is `SessionOutlives` leg by leg: it holds of each leg only because a session that drains
  keeps its name until the last leg is gone, and because a new leg finds its session by that name.

The counters are cardinalities: `CountersExact` is preserved because a leg that starts or ends adds or removes
one element of `Copying` (`FS_AddElement`, `FS_RemoveElement`). `Types` lets the counter be an integer; that it is
a natural number, so that the unsigned counter never wraps, follows from `CountersExact`.

`SkBufferPool_proofs` proves of the operators of the pool, for any configuration of size classes (`ClassesAssumption`:
positive sizes, sorted, as the constructor leaves them):

| Theorem | Statement |
|---|---|
| `NewPoolSound` | a new pool is sound |
| `AllocateSound` | from a sound pool, `Allocate` gives a buffer that nobody else holds, with the capacity asked for, leaves the bytes of all others alone, and the pool is sound with it |
| `FreeSound` | `Free` of any buffer in use leaves the pool sound for the others, and their bytes alone |

`Sound` is what `PoolsSound` says of each pool; `IsPool` adds the shape of a pool, that a node of a class has
the capacity of the class, and that no node has a number yet to be given out. The lemmas
follow the code: `AddNodesFacts`, `RefillSound`, `TakeSound`, `OversizeSound` are the paths of `allocate`.
The theorems are about one call; `Frames_proofs` proves that every call of `Frames` is made as they assume.

`Frames_proofs` proves, for any widths of integers, size classes, sets of messages, payloads and foreign
frames, and any bounds of the queues (the assumptions are those of `Frames`: widths are positive, the small buffer has room for a message of integers, a
message is one the writer can be given, of any length, a read has at least a byte and at most the maximum of a `DataExchange`,
a stream id has its width):

| Theorem | Statement |
|---|---|
| `Invariant` | `Spec => []IInv` |
| `BytesRoundTrip`, `RoomIsEnough`, `PoolsStaySound` | `Spec => []RoundTrip`, `Spec => []AssertsHold`, `Spec => []PoolsSound` |

Its `IInv` joins

* `SenderInv`: every queued message with data has a buffer that holds exactly these bytes, with room for a header
  before them; the writer's buffer has the capacity of a control message; no two are the same node, and the pool is sound
  for just these;
* `WireInv`: the payload of a frame of this version is what its message encodes to;
* `ReceiverInv`: the buffer of an awaited frame is empty and large enough, the buffers in the tunnels hold
  the data that came for them, no two of these are the same node, and the pool is sound for just these. `RoundTrip` is not inductive: a buffer is
  filled before the await in which others are allocated, filled and freed, and only that they are other nodes keeps it intact;
* `HistoryInv`: the three history variables. For `AssertsHold` it takes that a message which does not fit has a text
  (`LongIsText`): one of integers has at most `U64 + U32` bytes, for which there is room.

Two groups of lemmas carry the steps. `Stored`, `Appended`, `Prepended` and `Consumed` say what the members of
`SkBuffer` make of the bytes between `head` and `tail`, and that they leave all other nodes alone. The end of a session
gives back a set of buffers, in no particular order (`FreeAll`, a fold): that the pool stays sound for the others is proved
from the least number of buffers for which it would not.
The proof found the model wrong in one place: it let a payload that is shorter than the leading integer of its type
pass as good where the rest has any length, and `popIntBE` (`src/src/skbuf.hpp:329`) refuses it. A frame of that kind
is among those TLC checks now.

`QuicContext_proofs` proves, for any set of connections, any plans, any limit of connections and any horizon
(the assumptions are those of `QuicContext`):

| Theorem | Statement |
|---|---|
| `Invariant`, `TypeCorrect` | `Spec => []IInv`, `Spec => []TypeOK` |
| `SenderMissesNothing`, `TimerMissesNothing` | `Spec => []NothingUnserved`, `Spec => []TimerCovers` |
| `OfferedOnce`, `OneConnectionLeft`, `ClosesAreSent` | `Spec => []AcceptOnce`, `Spec => []RaceLeavesOne`, `Spec => []PeerTold` |

Its `IInv` has one part per actor, and a step is looked at part by part: what the connections are, `run()` and
its closing pass, the sender with the copy of the connections it walks over, what that turn still owes, the timer and
what it was armed with, the queue of `accept`, the race of `connect`. The two wake-up properties are the
reason for most of it. `NothingUnserved` and `TimerCovers` speak of a sender that sleeps, so the invariant
has to say of every earlier place of a turn which connections were served already, and which the turn is
still to reach or `wake` is set for; a connection that ngtcp2 failed in its own turn is the one that may be neither.
That the copy of a turn holds each connection once, and that a queue loses only
what it was to lose, is about sequences of any length (`Kept`, `SetToSeq`).

`QuicStream_proofs` proves, for any finite set of streams, any plans, windows, limits and batch sizes
(the assumptions are those of `QuicStream` and `UdpBatch`; that the streams are finite is what makes the
connection's counters sums):

| Theorem | Statement |
|---|---|
| `Invariant`, `TypeCorrect` | `Spec => []IInv`, `Spec => []TypeOK` |
| `BuffersBalance`, `WindowsHold` | `Spec => []SendBuffers`, `Spec => []CreditExact` |
| `ReportsWhatWasSent`, `WaitersAreBlocked` | `Spec => []ReceiptsHonest`, `Spec => []WaitersBlocked` |
| `DatagramsSentOnce` | `Spec => []SentOnce` |

Its `IInv` joins

* `StreamsInv`: for each stream, its receive side, its send side and what a dropped one owes, each against what the
  peer has done; the bytes counted as buffered are those of its chunks, in order and acknowledged up to a point;
* `BatchInv`: the receipts of the batch under way, in their order, cover what was packed and not yet reported; the
  datagrams that were sent are on the wire, and those that were not lie ahead of it. `ReceiptsHonest` is not
  inductive without: receipts are applied after an await in which the stream may be reset, closed or dropped, and
  only the batch knows what of it went out;
* `UdpInv`: the datagrams on the wire are the first of the batch, each once, whatever was refused;
* `TaskInv`: a coroutine that waits belongs to a handle the program holds, and wants what it waits for;
* `SumInv`: what the connection counts as buffered and as consumed are the sums over its streams, and the streams
  of the peer that closed are as many as it was credited. `SendBuffers` and `CreditExact` compare one counter with
  all streams: every step changes one stream and the counter by the same number;
* `WaitersBlocked` itself.

The steps are proved actor by actor: the program's (those that only begin or end a wait, and those that change a stream),
the peer's with the callbacks of ngtcp2, `Notify`, the socket, the sender. A lemma about one stream's record says
what each does to it (`Good`: the stream part is kept, the batch is not disturbed, the connection's counters move
with it), and a lemma lifts it to all streams.

`InductionLemmas` proves what a sum over a finite set, `Kept` and `SetToSeq` do, for sets and sequences of any
size. The induction theorems of the library cannot be instantiated here; these facts are proved from the least
element of a set of naturals at which they fail, which takes no operator as a parameter.

Every invariant and every action property of the passing runs is a theorem. Only model-checked are the liveness
properties `BothEndsClose`, `WindowReopens`, `PipesDeliver`, `StaleForgotten`, `NameServed`, `Reconnects`, `RemovedEnds`,
`Flushed`, `StopEnds` and `CloseEnds` (liveness under fairness is outside the proof system used).

## 5. Not modelled, and what is left

Not modelled, with the reason:

* TLS set-up (`src/quic/crypto.cpp`), the command line, the static page, HTTP parsing and replies
  (`src/web.cpp`), DuckDNS, the QML and its controller: no state that outlives a call, or state
  that is only shown.
* `src/utils/he2.hpp`: a race of the shape `RaceLeavesOne` is about, over sockets nobody else sees.
* Receiving in `src/quic/udp_batch.cpp` and control messages (`cmsg.hpp`): the datagrams are
  parsed before the next await, and the rest is layout.
* Connection ids and routes, the configuration, path and token handling in `src/quic/quic.cpp`: data that
  ngtcp2 hands back.
* The statistics (`rateWorker`, `status()`, `totalConnections`) and the length of the
  retry delay: nothing depends on them.
* `clone`, `slice`, `makeWritable` and `compact` of `SkBuffer`: nothing calls them. An
  allocation that throws ends the program.
* The GUI's `Connection`: one process and one timer; what is wrong with them is a finding.

Left to do: of what is modelled, no safety property is without a theorem. What would widen the
model are a `Hello` of another version, the statistics, and the race of TCP attempts in `he2.hpp`.
