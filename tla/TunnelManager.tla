---------------------------- MODULE TunnelManager ----------------------------
(***************************************************************************)
(* The tunnels of one session: the TunnelManager of the server and that of *)
(* the client (src/tunnel.cpp), the handlers of the four tunnel messages   *)
(* in the two read workers, and the places that open tunnels               *)
(* (ClientSession::openTunnel, ClientSession::onPeerOpenTunnel and         *)
(* ClientState::forwardWorker).                                            *)
(*                                                                         *)
(* A tunnel has an end at each peer; an end is a pair <<peer, id>>.  Each  *)
(* end copies between the tunnel and a local stream.  All tunnels share    *)
(* one ordered connection, so chan[p] is a FIFO: the messages p has passed *)
(* to its mMessageSender and the other peer's read worker has not handled. *)
(*                                                                         *)
(* Bytes are named by their offset in the stream they were read from: a    *)
(* DataExchange carries the bytes from..to, and a WindowUpdate credits the *)
(* bytes from..to; the number on the wire is to - from.  The code never    *)
(* sees an offset, so no guard reads one.                                  *)
(***************************************************************************)
EXTENDS Integers, Sequences

CONSTANTS
    InitWindow,    \* HAJIMI_INIT_WINDOW_SIZE
    MaxData,       \* HAJIMI_MAX_DATA_EXCHANGE
    MaxStreamId,   \* bound: the largest stream id a session hands out
    MaxBytes,      \* bound: end -> the bytes its local stream provides
    FairIds        \* the tunnels whose local programs keep taking bytes

Peer == {"server", "client"}
Id == 0 .. MaxStreamId

ASSUME WindowAssumption == InitWindow \in Nat \ {0} /\ MaxData \in Nat \ {0}
ASSUME BoundAssumption == MaxStreamId \in Nat /\ MaxBytes \in [Peer \X Id -> Nat]
ASSUME FairAssumption == FairIds \subseteq Id

VARIABLES
    chan,         \* peer -> the messages on their way from it
    mStreamId,    \* peer -> the id its next tunnel gets
    mTunnels,     \* the ends present in their peer's mTunnels
    worker,       \* end -> where the coroutine that serves the tunnel is
    sendWindow,   \* end -> Tunnel::sendWindow
    updated,      \* end -> Tunnel::sendWindowUpdated, an AutoClear event
    closed,       \* end -> Tunnel::closed
    bytes,        \* end -> the queue behind Tunnel::bytesSender
    bufsize,      \* end -> size of the outstanding read, 0 when there is none
    peerSum,      \* end -> bytes written and not yet credited to the peer
    nread,        \* end -> bytes read from the local stream
    nwritten      \* end -> bytes written to the local stream

window == <<sendWindow, updated, bufsize, nread>>
inflow == <<bytes, peerSum, nwritten>>
vars == <<chan, mStreamId, mTunnels, worker, closed, window, inflow>>

Other(p) == IF p = "server" THEN "client" ELSE "server"
End == Peer \X Id
Far(e) == <<Other(e[1]), e[2]>>

\* The server hands out even ids, the client odd ones.
OpenedBy(i) == IF i % 2 = 0 THEN "server" ELSE "client"

OpenTunnel(i) == [type |-> "OpenTunnel", id |-> i]
TunnelClose(i) == [type |-> "TunnelClose", id |-> i]
DataExchange(i, a, b) ==
    [type |-> "DataExchange", id |-> i, from |-> a, to |-> b]
WindowUpdate(i, a, b) ==
    [type |-> "WindowUpdate", id |-> i, from |-> a, to |-> b]

Span == [type : {"DataExchange", "WindowUpdate"}, id : Id, from : Int, to : Int]
Message == [type : {"OpenTunnel", "TunnelClose"}, id : Id] \cup Span

-----------------------------------------------------------------------------
(***************************************************************************)
(* The arithmetic of the flow control.                                     *)
(***************************************************************************)

\* How many bytes the next read may ask for; 0: wait for the window instead.
BufSize_NoWindow(w) == IF w = 0 THEN 0 ELSE MaxData
BufSize(w) == IF w < MaxData THEN w ELSE MaxData

Charge_Never(w, n) == w
Charge(w, n) == w - n

Grant_Sets(w, n) == n
Grant(w, n) == w + n

\* Written bytes are credited in batches of half a window.
Credits_Late(sum) == sum > InitWindow
Credits(sum) == sum >= InitWindow \div 2

-----------------------------------------------------------------------------
(***************************************************************************)
(* The book-keeping of the tunnels.  A definition X_Y before X is X with   *)
(* one plausible bug in it; PROJECT.json names the property it breaks.     *)
(***************************************************************************)
NextId_Neighbour(i) == i + 1
NextId_Same(i) == i
NextId(i) == i + 2

\* mTunnels.erase.
Unregister_Skip(e) == mTunnels
Unregister(e) == mTunnels \ {e}

\* The mTunnels.contains of the ScopeExit.
StillOpen_Not(e) == e \notin mTunnels
StillOpen(e) == e \in mTunnels

\* Tunnel::closed.set().
SetClosed_Skip(e) == closed
SetClosed(e) == [closed EXCEPT ![e] = TRUE]

\* p passes message m to its mMessageSender.
Send_Front(p, m) == chan' = [chan EXCEPT ![p] = <<m>> \o @]
Send(p, m) == chan' = [chan EXCEPT ![p] = Append(@, m)]

Init ==
    /\ chan = [p \in Peer |-> <<>>]
    /\ mStreamId = [p \in Peer |-> IF p = "server" THEN 0 ELSE 1]
    /\ mTunnels = {}
    /\ worker = [e \in End |-> "none"]
    /\ sendWindow = [e \in End |-> InitWindow]
    /\ updated = [e \in End |-> FALSE]
    /\ closed = [e \in End |-> FALSE]
    /\ bytes = [e \in End |-> <<>>]
    /\ bufsize = [e \in End |-> 0]
    /\ peerSum = [e \in End |-> 0]
    /\ nread = [e \in End |-> 0]
    /\ nwritten = [e \in End |-> 0]

\* addTunnel: an id already present is left alone; otherwise the end is
\* registered and its coroutine spawned.  A new Tunnel has the values Init
\* gives an end that was never opened.
AddTunnel(e) ==
    IF e \in mTunnels
    THEN UNCHANGED <<mTunnels, worker>>
    ELSE /\ mTunnels' = mTunnels \cup {e}
         /\ worker' = [worker EXCEPT ![e] = "spawned"]

\* ClientSession::openTunnel: a connection was accepted for a client.  The
\* OpenTunnel is sent by the spawned coroutine, see StartCopy.
ServerOpenTunnel ==
    /\ mStreamId["server"] \in Id
    /\ AddTunnel(<<"server", mStreamId["server"]>>)
    /\ mStreamId' = [mStreamId EXCEPT !["server"] = NextId(@)]
    /\ UNCHANGED <<chan, closed, window, inflow>>

\* The listener of ClientState::forwardWorker accepted a connection.
ClientForward ==
    LET i == mStreamId["client"] IN
    /\ i \in Id
    /\ Send("client", OpenTunnel(i))
    /\ AddTunnel(<<"client", i>>)
    /\ mStreamId' = [mStreamId EXCEPT !["client"] = NextId(@)]
    /\ UNCHANGED <<closed, window, inflow>>

\* entry() returned a stream and the two copy workers run up to their first
\* await.  The server's entry of a tunnel of its own announces it first; the
\* client's entry of a server's tunnel has connected to the target.
StartCopy(e) ==
    /\ worker[e] = "spawned"
    /\ worker' = [worker EXCEPT ![e] = "copying"]
    /\ bufsize' = [bufsize EXCEPT ![e] = BufSize(sendWindow[e])]
    /\ IF e[1] = "server" /\ OpenedBy(e[2]) = "server"
       THEN Send("server", OpenTunnel(e[2]))
       ELSE UNCHANGED chan
    /\ UNCHANGED <<mStreamId, mTunnels, closed, sendWindow, updated, nread, inflow>>

\* The client's lookup or connect failed.
ConnectFailed(e) ==
    /\ worker[e] = "spawned"
    /\ e[1] = "client" /\ OpenedBy(e[2]) = "server"
    /\ worker' = [worker EXCEPT ![e] = "ending"]
    /\ UNCHANGED <<chan, mStreamId, mTunnels, closed, window, inflow>>

-----------------------------------------------------------------------------
(***************************************************************************)
(* The coroutine of an end: readCopyWorker, writeCopyWorker, and the       *)
(* whenAny over both and `closed', which the first of them to return ends. *)
(***************************************************************************)

\* readCopyWorker: the read returned n bytes.
ReadData(e, n) ==
    /\ worker[e] = "copying"
    /\ n \in 1 .. bufsize[e]
    /\ nread[e] + n <= MaxBytes[e]
    /\ Send(e[1], DataExchange(e[2], nread[e], nread[e] + n))
    /\ nread' = [nread EXCEPT ![e] = @ + n]
    /\ sendWindow' = [sendWindow EXCEPT ![e] = Charge(@, n)]
    /\ bufsize' = [bufsize EXCEPT ![e] = BufSize(Charge(sendWindow[e], n))]
    /\ UNCHANGED <<mStreamId, mTunnels, worker, closed, updated, inflow>>

\* readCopyWorker: sendWindowUpdated.wait() returned, which clears the event.
WindowWake(e) ==
    /\ worker[e] = "copying"
    /\ bufsize[e] = 0
    /\ updated[e]
    /\ updated' = [updated EXCEPT ![e] = FALSE]
    /\ bufsize' = [bufsize EXCEPT ![e] = BufSize(sendWindow[e])]
    /\ UNCHANGED <<chan, mStreamId, mTunnels, worker, closed, sendWindow, nread,
                   inflow>>

\* writeCopyWorker: writeAll of the oldest chunk is done.
WriteData(e) ==
    /\ worker[e] = "copying"
    /\ bytes[e] # <<>>
    /\ LET chunk == Head(bytes[e])
           sum == peerSum[e] + (chunk.to - chunk.from)
       IN /\ nwritten' = [nwritten EXCEPT ![e] = chunk.to]
          /\ IF Credits(sum)
             THEN /\ peerSum' = [peerSum EXCEPT ![e] = 0]
                  /\ Send(e[1], WindowUpdate(e[2], chunk.to - sum, chunk.to))
             ELSE /\ peerSum' = [peerSum EXCEPT ![e] = sum]
                  /\ UNCHANGED chan
    /\ bytes' = [bytes EXCEPT ![e] = Tail(@)]
    /\ UNCHANGED <<mStreamId, mTunnels, worker, closed, window>>

\* A copy worker returned: the read met the end of the stream or an error,
\* the write an error, or `closed' is set.
CopyEnds(e) ==
    /\ worker[e] = "copying"
    /\ bufsize[e] > 0 \/ bytes[e] # <<>> \/ closed[e]
    /\ worker' = [worker EXCEPT ![e] = "ending"]
    /\ bufsize' = [bufsize EXCEPT ![e] = 0]
    /\ UNCHANGED <<chan, mStreamId, mTunnels, closed, sendWindow, updated, nread,
                   inflow>>

\* The ScopeExit of the coroutine, which also destroys the queue.
Cleanup(e) ==
    /\ worker[e] = "ending"
    /\ worker' = [worker EXCEPT ![e] = "gone"]
    /\ bytes' = [bytes EXCEPT ![e] = <<>>]
    /\ mTunnels' = Unregister(e)
    /\ IF StillOpen(e)
       THEN Send(e[1], TunnelClose(e[2]))
       ELSE UNCHANGED chan
    /\ UNCHANGED <<mStreamId, closed, window, peerSum, nwritten>>

-----------------------------------------------------------------------------
(***************************************************************************)
(* The read worker of peer p handles the oldest message of the other peer. *)
(***************************************************************************)
Incoming_Waits(p, type) ==
    /\ chan[Other(p)] # <<>>
    /\ Head(chan[Other(p)]).type = type
    /\ bytes[<<p, Head(chan[Other(p)]).id>>] = <<>>
Incoming(p, type) ==
    /\ chan[Other(p)] # <<>>
    /\ Head(chan[Other(p)]).type = type

Target(p) == <<p, Head(chan[Other(p)]).id>>
Consume(p) == chan' = [chan EXCEPT ![Other(p)] = Tail(@)]

\* OpenTunnel of the wrong parity ends the session; see FreshOpen.
OnOpenTunnel(p) ==
    /\ Incoming(p, "OpenTunnel")
    /\ OpenedBy(Target(p)[2]) = Other(p)
    /\ Consume(p)
    /\ AddTunnel(Target(p))
    /\ UNCHANGED <<mStreamId, closed, window, inflow>>

\* ClientSession::onPeerOpenTunnel found no session of that name, or no port.
RefuseOpenTunnel ==
    /\ Incoming("server", "OpenTunnel")
    /\ OpenedBy(Target("server")[2]) = "client"
    /\ chan' = [chan EXCEPT !["client"] = Tail(@),
                            !["server"] = Append(@, TunnelClose(Target("server")[2]))]
    /\ UNCHANGED <<mStreamId, mTunnels, worker, closed, window, inflow>>

OnDataExchange(p) ==
    /\ Incoming(p, "DataExchange")
    /\ Consume(p)
    /\ bytes' = IF Target(p) \in mTunnels
                THEN [bytes EXCEPT ![Target(p)] = Append(@, Head(chan[Other(p)]))]
                ELSE bytes
    /\ UNCHANGED <<mStreamId, mTunnels, worker, closed, window, peerSum, nwritten>>

OnWindowUpdate(p) ==
    /\ Incoming(p, "WindowUpdate")
    /\ Consume(p)
    /\ IF Target(p) \in mTunnels
       THEN LET m == Head(chan[Other(p)]) IN
            /\ sendWindow' = [sendWindow EXCEPT ![Target(p)] = Grant(@, m.to - m.from)]
            /\ updated' = [updated EXCEPT ![Target(p)] = TRUE]
       ELSE UNCHANGED <<sendWindow, updated>>
    /\ UNCHANGED <<mStreamId, mTunnels, worker, closed, bufsize, nread, inflow>>

\* closeTunnel.
OnTunnelClose(p) ==
    /\ Incoming(p, "TunnelClose")
    /\ Consume(p)
    /\ IF Target(p) \in mTunnels
       THEN /\ closed' = SetClosed(Target(p))
            /\ mTunnels' = Unregister(Target(p))
       ELSE UNCHANGED <<closed, mTunnels>>
    /\ UNCHANGED <<mStreamId, worker, window, inflow>>

Receive(p) ==
    \/ OnOpenTunnel(p)
    \/ OnDataExchange(p)
    \/ OnWindowUpdate(p)
    \/ OnTunnelClose(p)

-----------------------------------------------------------------------------
Work(e) ==
    \/ StartCopy(e)
    \/ ConnectFailed(e)
    \/ \E n \in 1 .. MaxData : ReadData(e, n)
    \/ WindowWake(e)
    \/ WriteData(e)
    \/ CopyEnds(e)
    \/ Cleanup(e)

Next ==
    \/ ServerOpenTunnel
    \/ ClientForward
    \/ RefuseOpenTunnel
    \/ \E p \in Peer : Receive(p)
    \/ \E e \in End : Work(e)

\* The executor runs every coroutine that is ready and the connection
\* delivers: a connect ends one way or the other, and `closed' is noticed.
\* Only the local programs of FairIds are assumed to take the bytes written
\* to them, and none is assumed to send or to end its stream.
Fairness ==
    /\ \A p \in Peer : WF_vars(Receive(p) \/ (p = "server" /\ RefuseOpenTunnel))
    /\ \A e \in End :
        /\ WF_vars(StartCopy(e) \/ ConnectFailed(e))
        /\ WF_vars(WindowWake(e))
        /\ WF_vars(closed[e] /\ CopyEnds(e))
        /\ WF_vars(Cleanup(e))
    /\ \A e \in Peer \X FairIds : WF_vars(WriteData(e))

Spec == Init /\ [][Next]_vars
FairSpec == Spec /\ Fairness

-----------------------------------------------------------------------------
(***************************************************************************)
(* Properties.                                                             *)
(***************************************************************************)
DataOf(i) == [type : {"DataExchange"}, id : {i}, from : Int, to : Int]
CreditOf(i) == [type : {"WindowUpdate"}, id : {i}, from : Int, to : Int]

\* The elements of the queue s that are in S span the offsets from a to b, in
\* order and without gap or overlap.
Contiguous(s, S, a, b) ==
    LET K == {k \in 1 .. Len(s) : s[k] \in S} IN
    /\ \A k \in K : s[k].from < s[k].to
    /\ \A k \in K : (\A j \in K : j >= k) => s[k].from = a
    /\ \A k \in K : (\A j \in K : j <= k) => s[k].to = b
    /\ \A j, k \in K : j < k /\ (\A l \in K : l <= j \/ l >= k)
                        => s[j].to = s[k].from
    /\ K = {} => a = b

InFlight(p, m) == \E k \in 1 .. Len(chan[p]) : chan[p][k] = m

\* How far the stream of the far end has been queued at e.
Received(e) ==
    IF bytes[e] = <<>> THEN nwritten[e] ELSE bytes[e][Len(bytes[e])].to

\* The end e is or will be there for what the far end sends.
Expecting(e) == e \in mTunnels \/ InFlight(Other(e[1]), OpenTunnel(e[2]))

\* The types of the variables, and each peer's ids keep their parity.  That the
\* unsigned numbers of the code never wrap below zero is part of FlowControl.
TypeOK ==
    /\ chan \in [Peer -> Seq(Message)]
    /\ mStreamId \in [Peer -> Nat]
    /\ \A p \in Peer : OpenedBy(mStreamId[p]) = p
    /\ mTunnels \subseteq End
    /\ worker \in [End -> {"none", "spawned", "copying", "ending", "gone"}]
    /\ sendWindow \in [End -> Int]
    /\ updated \in [End -> BOOLEAN]
    /\ closed \in [End -> BOOLEAN]
    /\ bytes \in [End -> Seq(Span)]
    /\ bufsize \in [End -> Int]
    /\ peerSum \in [End -> Int]
    /\ nread \in [End -> Nat]
    /\ nwritten \in [End -> Int]

\* Bytes reach the local stream in the order the far end read them, none lost
\* and none twice: what is queued at an end follows what it has written, and
\* while the end is there the messages under way follow what is queued.
DataInOrder ==
    \A e \in End :
        /\ Contiguous(bytes[e], DataOf(e[2]), nwritten[e], Received(e))
        /\ Expecting(e) => Contiguous(chan[Other(e[1])], DataOf(e[2]),
                                     Received(e), nread[Far(e)])

\* No credit is lost or granted twice: the credits on their way to an end take
\* its window from what it has used to what the far end has acknowledged.
CreditConserved ==
    \A e \in mTunnels :
        Contiguous(chan[Other(e[1])], CreditOf(e[2]),
                   sendWindow[e] + nread[e] - InitWindow,
                   nwritten[Far(e)] - peerSum[Far(e)])

\* sendWindow never wraps below zero nor grows past its initial size, the read
\* outstanding never asks for more than it, and so an end never holds more
\* than a window of a tunnel, however slow its local program.
FlowControl ==
    \A e \in End :
        /\ sendWindow[e] \in 0 .. InitWindow
        /\ bufsize[e] \in 0 .. sendWindow[e]
        /\ peerSum[e] \in 0 .. nwritten[e]
        /\ Received(e) - nwritten[e] <= InitWindow

\* The assert(mustOk) of onDataExchange: a registered end has a coroutine that
\* still owns the receiving side of its queue.
QueueHasReader ==
    \A e \in mTunnels : worker[e] \in {"spawned", "copying", "ending"}

\* An OpenTunnel on its way has the parity of its sender and an id the other
\* peer has never seen, and nothing else about the tunnel overtakes it:
\* readWorker does not end the session over it, addTunnel does not drop it as a
\* duplicate, and no data finds its tunnel missing.
FreshOpen ==
    \A p \in Peer : \A k \in 1 .. Len(chan[p]) :
        chan[p][k].type = "OpenTunnel" =>
            /\ OpenedBy(chan[p][k].id) = p
            /\ worker[<<Other(p), chan[p][k].id>>] = "none"
            /\ \A j \in 1 .. k - 1 : chan[p][j].id # chan[p][k].id

\* A tunnel that is registered at one peer only has a message under way that
\* makes the other peer register or this one close: no half of a tunnel is
\* left behind, whichever end closes, refuses or fails to connect.
NoOrphan ==
    \A e \in mTunnels :
        \/ Far(e) \in mTunnels
        \/ InFlight(e[1], OpenTunnel(e[2]))
        \/ InFlight(Other(e[1]), TunnelClose(e[2]))
        \/ worker[e] = "spawned" /\ e[1] = "server" /\ OpenedBy(e[2]) = "server"

\* Once a copy at one end is over, both ends get rid of the tunnel.
BothEndsClose ==
    \A e \in End :
        worker[e] = "ending" ~>
            [](worker[e] = "gone" /\ worker[Far(e)] \in {"none", "gone"})

\* What the read side was sent before the tunnel was closed is written before
\* the end goes: README.md promises that the traffic is forwarded.
NoTruncation ==
    [][\A e \in End :
         worker[e] = "copying" /\ worker'[e] = "ending" /\ closed[e]
            => bytes[e] = <<>>]_vars

\* A sender whose window is used up gets to send again or is closed: the
\* batching of the credits never holds back the last ones it needs.
WindowReopens ==
    \A e \in Peer \X FairIds :
        worker[e] = "copying" /\ sendWindow[e] = 0
            ~> bufsize[e] > 0 \/ worker[e] # "copying"

(***************************************************************************)
(* Each direction of a tunnel is a TunnelPipe.                             *)
(***************************************************************************)
Receiver(e) == CASE worker[e] = "none" -> "new"
                 [] worker[e] \in {"spawned", "copying"} -> "up"
                 [] OTHER -> "down"

Pipe(e) == INSTANCE TunnelPipe WITH
    Capacity <- InitWindow, sent <- nread[Far(e)], got <- nwritten[e],
    receiver <- Receiver(e)

\* Every step of the tunnels is a step of each pipe or leaves it alone: never
\* more than a window between the two programs, and nothing delivered that was
\* not sent.
PipesSafe ==
    /\ \A e \in End : Pipe(e)!Init
    /\ [][\A e \in End : [Pipe(e)!Next]_(Pipe(e)!vars)]_vars

\* The pipe into an end whose program keeps taking bytes delivers while the end
\* is up, whatever the other tunnels' programs do: a slow one does not block
\* the others.
PipesDeliver == \A e \in Peer \X FairIds : Pipe(e)!Live
=============================================================================
