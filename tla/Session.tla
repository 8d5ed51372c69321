------------------------------ MODULE Session ------------------------------
(***************************************************************************)
(* The sessions of the clients: ProxyServer::handleSession with its ping   *)
(* worker (src/server.cpp), the reconnect loop of ProxyClient with         *)
(* connectOnce and runOnce (src/client.cpp), and the connections between   *)
(* them, which may die without a word.  The tunnels of a session are the   *)
(* module TunnelManager; here they are left out.                           *)
(*                                                                         *)
(* A connection is a slot, used again once both ends have let go of it.    *)
(* Closing an end sends an Eof, behind what it has sent before over TCP,   *)
(* and past it over QUIC.  When the link of a slot is dead, nothing passes *)
(* any more; what is then sent is lost, and the kernel of the sender       *)
(* reports an error when it gets no acknowledgement.  A TCP end that has   *)
(* sent nothing since hears nothing; a QUIC end has its idle timeout.      *)
(*                                                                         *)
(* Time is left out: a timeout may fire whenever it is armed and the       *)
(* answer is not there, but on a live link only as a fault ("slow").       *)
(* A definition X_Y before X is X with one plausible bug in it.            *)
(***************************************************************************)
EXTENDS Integers, Sequences, FiniteSets

CONSTANTS
    Client,       \* the client programs
    Name,         \* Hello::name
    NameOf,       \* client -> its Config::name
    Transport,    \* client -> its Config::transport
    MaxSlot,      \* bound: the connections that exist at the same time
    Faults,       \* the kinds of faults that happen
    MaxFaults     \* bound: how many faults happen

ASSUME ClientAssumption ==
    /\ Client # {}
    /\ NameOf \in [Client -> Name]
    /\ Transport \in [Client -> {"tcp", "quic", "auto"}]
ASSUME SlotAssumption == MaxSlot \in Nat
ASSUME FaultAssumption ==
    MaxFaults \in Nat /\ Faults \subseteq
        {"cut", "slow", "connect", "forward", "context"}

Slot == 1 .. MaxSlot
Nobody == 0       \* no slot

VARIABLES
    client,       \* client -> where ProxyClient::run is
    quic,         \* client -> its QUIC context runs
    slot,         \* client -> its connection
    owner,        \* slot -> the client that has opened it
    kind,         \* slot -> "tcp" or "quic"
    link,         \* slot -> "up" or "dead"
    lost,         \* slot -> the ends whose last messages were not delivered
    toServer,     \* slot -> the messages on their way to the server
    toClient,     \* slot -> the messages on their way to the client
    handler,      \* slot -> where handleSession is, "free" without one
    mSessions,    \* name -> the slot of its session
    waiting,      \* slot -> pingWorker waits for mPongArrive
    mPongArrive,  \* slot -> the AutoClear event
    faults        \* faults so far

connection == <<owner, kind>>
network == <<link, lost, toServer, toClient>>
pings == <<waiting, mPongArrive>>
vars == <<client, quic, slot, connection, network, handler, mSessions, pings, faults>>

Message == {"Hello", "HelloAck", "FatalError", "Ping", "Pong", "Eof"}

Fault(f) == f \in Faults /\ faults < MaxFaults /\ faults' = faults + 1

-----------------------------------------------------------------------------
(***************************************************************************)
(* The connections.                                                        *)
(***************************************************************************)
HasServer(k) == handler[k] # "free"
HasClient(k) == \E c \in Client : slot[c] = k

Unused(k) == ~ HasServer(k) /\ ~ HasClient(k)

\* What is sent to an end that is closed reaches nobody.
ToServer(k, m) ==
    /\ lost' = IF link[k] = "dead" THEN [lost EXCEPT ![k] = @ \cup {"client"}] ELSE lost
    /\ toServer' = IF link[k] = "up" /\ HasServer(k)
                   THEN [toServer EXCEPT ![k] = Append(@, m)]
                   ELSE toServer

ToClient(k, m) ==
    /\ lost' = IF link[k] = "dead" THEN [lost EXCEPT ![k] = @ \cup {"server"}] ELSE lost
    /\ toClient' = IF link[k] = "up" /\ HasClient(k)
                   THEN [toClient EXCEPT ![k] = Append(@, m)]
                   ELSE toClient

\* Closing an end tells the other one, and drops what was not read.
ServerCloses(k) == ToClient(k, "Eof") /\ toServer' = [toServer EXCEPT ![k] = <<>>]
ClientCloses(k) == ToServer(k, "Eof") /\ toClient' = [toClient EXCEPT ![k] = <<>>]

\* A read or a write at that end of k fails.
Notices(k, side) == link[k] = "dead" /\ (kind[k] = "quic" \/ side \in lost[k])

Has(q, m) == \E j \in 1 .. Len(q) : q[j] = m

AtServer(k, m) == toServer[k] # <<>> /\ Head(toServer[k]) = m
AtClient(k, m) == toClient[k] # <<>> /\ Head(toClient[k]) = m

\* The close of the other end is there; over QUIC it overtakes what was sent before.
EofAtServer(k) == AtServer(k, "Eof") \/ (kind[k] = "quic" /\ Has(toServer[k], "Eof"))
EofAtClient(k) == AtClient(k, "Eof") \/ (kind[k] = "quic" /\ Has(toClient[k], "Eof"))

Init ==
    /\ client = [c \in Client |-> "trying"]
    /\ quic = [c \in Client |-> TRUE]
    /\ slot = [c \in Client |-> Nobody]
    /\ owner = [k \in Slot |-> CHOOSE c \in Client : TRUE]
    /\ kind = [k \in Slot |-> "tcp"]
    /\ link = [k \in Slot |-> "up"]
    /\ lost = [k \in Slot |-> {}]
    /\ toServer = [k \in Slot |-> <<>>]
    /\ toClient = [k \in Slot |-> <<>>]
    /\ handler = [k \in Slot |-> "free"]
    /\ mSessions = [n \in Name |-> Nobody]
    /\ waiting = [k \in Slot |-> FALSE]
    /\ mPongArrive = [k \in Slot |-> FALSE]
    /\ faults = 0

-----------------------------------------------------------------------------
(***************************************************************************)
(* The server: handleSession of the connection k.                          *)
(***************************************************************************)
NameOn(k) == NameOf[owner[k]]

\* The handlers that have passed the emplace and not yet run the ScopeExit.
Registered(k) == handler[k] \in {"acking", "running", "draining"}

\* mSessions.emplace does not insert.
Taken_Never(k) == FALSE
Taken(k) == mSessions[NameOn(k)] # Nobody

\* mSessions.erase(mName), by the ScopeExit of a registered session.
Unregister_Always(k) == [mSessions EXCEPT ![NameOn(k)] = Nobody]
Unregister_Never(k) == mSessions
Unregister(k) ==
    IF Registered(k) THEN [mSessions EXCEPT ![NameOn(k)] = Nobody] ELSE mSessions

\* The sleep between two pings is over, which begins with the Pong.
PingDue_Always(k) == TRUE
PingDue(k) == ~ waiting[k]

\* The Hello is there: register the session and write HelloAck, or reject it.
OnHello(k) ==
    /\ handler[k] = "hello"
    /\ AtServer(k, "Hello")
    /\ toServer' = [toServer EXCEPT ![k] = Tail(@)]
    /\ IF Taken(k)
       THEN /\ handler' = [handler EXCEPT ![k] = "rejecting"]
            /\ ToClient(k, "FatalError")
            /\ UNCHANGED mSessions
       ELSE /\ handler' = [handler EXCEPT ![k] = "acking"]
            /\ ToClient(k, "HelloAck")
            /\ mSessions' = [mSessions EXCEPT ![NameOn(k)] = k]
    /\ UNCHANGED <<client, quic, slot, connection, link, pings, faults>>

\* HelloAck is written: the workers start, and pingWorker sends its first Ping.
StartWorkers(k) ==
    /\ handler[k] = "acking"
    /\ handler' = [handler EXCEPT ![k] = "running"]
    /\ waiting' = [waiting EXCEPT ![k] = TRUE]
    /\ ToClient(k, "Ping")
    /\ UNCHANGED <<client, quic, slot, connection, link, toServer, mSessions,
                   mPongArrive, faults>>

\* readWorker answers a Ping.
OnPing(k) ==
    /\ handler[k] = "running"
    /\ AtServer(k, "Ping")
    /\ toServer' = [toServer EXCEPT ![k] = Tail(@)]
    /\ ToClient(k, "Pong")
    /\ UNCHANGED <<client, quic, slot, connection, link, handler, mSessions, pings,
                   faults>>

\* readWorker sets mPongArrive.
OnPong(k) ==
    /\ handler[k] = "running"
    /\ AtServer(k, "Pong")
    /\ toServer' = [toServer EXCEPT ![k] = Tail(@)]
    /\ mPongArrive' = [mPongArrive EXCEPT ![k] = TRUE]
    /\ UNCHANGED <<client, quic, slot, connection, link, lost, toClient, handler,
                   mSessions, waiting, faults>>

\* pingWorker: the wait for mPongArrive is over, and clears it.
PongArrived(k) ==
    /\ handler[k] = "running"
    /\ waiting[k] /\ mPongArrive[k]
    /\ waiting' = [waiting EXCEPT ![k] = FALSE]
    /\ mPongArrive' = [mPongArrive EXCEPT ![k] = FALSE]
    /\ UNCHANGED <<client, quic, slot, connection, network, handler, mSessions, faults>>

\* pingWorker: the sleep is over.
PingAgain(k) ==
    /\ handler[k] = "running"
    /\ PingDue(k)
    /\ waiting' = [waiting EXCEPT ![k] = TRUE]
    /\ ToClient(k, "Ping")
    /\ UNCHANGED <<client, quic, slot, connection, link, toServer, handler, mSessions,
                   mPongArrive, faults>>

\* pingWorker: no Pong within 10 s.
PongTimeout(k) ==
    /\ handler[k] = "running"
    /\ waiting[k] /\ ~ mPongArrive[k]
    /\ IF link[k] = "up" THEN Fault("slow") ELSE UNCHANGED faults
    /\ handler' = [handler EXCEPT ![k] = "draining"]
    /\ UNCHANGED <<client, quic, slot, connection, network, mSessions, pings>>

\* The connection is over at the server: closed by the client, or broken.
ServerLoses(k) ==
    /\ handler[k] \in {"hello", "acking", "running"}
    /\ EofAtServer(k) \/ Notices(k, "server")
    /\ IF handler[k] = "running"
       THEN /\ handler' = [handler EXCEPT ![k] = "draining"]
            /\ UNCHANGED <<mSessions, lost, toServer, toClient>>
       ELSE /\ handler' = [handler EXCEPT ![k] = "free"]
            /\ mSessions' = Unregister(k)
            /\ ServerCloses(k)
    /\ UNCHANGED <<client, quic, slot, connection, link, pings, faults>>

\* handleSession returns, once its scope is empty or the FatalError is written.
EndSession(k) ==
    /\ handler[k] \in {"draining", "rejecting"}
    /\ handler' = [handler EXCEPT ![k] = "free"]
    /\ mSessions' = Unregister(k)
    /\ ServerCloses(k)
    /\ waiting' = [waiting EXCEPT ![k] = FALSE]
    /\ mPongArrive' = [mPongArrive EXCEPT ![k] = FALSE]
    /\ UNCHANGED <<client, quic, slot, connection, link, faults>>

-----------------------------------------------------------------------------
(***************************************************************************)
(* The client c: ProxyClient::run with connectOnce and runOnce.            *)
(***************************************************************************)

\* The transports connectOnce may end up with.
Kinds_Raw(c) == {Transport[c]}
Kinds(c) == CASE Transport[c] = "auto" -> {"quic", "tcp"}
              [] OTHER -> {Transport[c]}

\* Where the loop of run goes when an attempt has failed.
AfterFailure_GivesUp == "exited"
AfterFailure == "sleeping"

\* Connected, and Hello written; the server has spawned handleSession.
Connect(c) ==
    /\ client[c] = "trying"
    /\ \E k \in Slot, t \in Kinds(c) :
        /\ Unused(k) /\ \A j \in 1 .. k - 1 : ~ Unused(j)
        /\ client' = [client EXCEPT ![c] = "hello"]
        /\ slot' = [slot EXCEPT ![c] = k]
        /\ owner' = [owner EXCEPT ![k] = c]
        /\ kind' = [kind EXCEPT ![k] = t]
        /\ link' = [link EXCEPT ![k] = "up"]
        /\ lost' = [lost EXCEPT ![k] = {}]
        /\ toServer' = [toServer EXCEPT ![k] = <<"Hello">>]
        /\ toClient' = [toClient EXCEPT ![k] = <<>>]
        /\ handler' = [handler EXCEPT ![k] = "hello"]
    /\ UNCHANGED <<quic, mSessions, pings, faults>>

\* No transport connects.
ConnectFailed(c) ==
    /\ client[c] = "trying"
    /\ Fault("connect")
    /\ client' = [client EXCEPT ![c] = AfterFailure]
    /\ UNCHANGED <<quic, slot, connection, network, handler, mSessions, pings>>

\* runOnce got HelloAck and starts the workers.
OnHelloAck(c) ==
    /\ client[c] = "hello"
    /\ AtClient(slot[c], "HelloAck")
    /\ toClient' = [toClient EXCEPT ![slot[c]] = Tail(@)]
    /\ client' = [client EXCEPT ![c] = "online"]
    /\ UNCHANGED <<quic, slot, connection, link, lost, toServer, handler, mSessions,
                   pings, faults>>

\* The stream of runOnce is destroyed.
Hangup(c) == ClientCloses(slot[c]) /\ slot' = [slot EXCEPT ![c] = Nobody]

\* runOnce got FatalError instead, or the connection is over.
Rejected(c) ==
    /\ client[c] = "hello"
    /\ \/ AtClient(slot[c], "FatalError")
       \/ EofAtClient(slot[c])
       \/ Notices(slot[c], "client")
    /\ client' = [client EXCEPT ![c] = AfterFailure]
    /\ Hangup(c)
    /\ UNCHANGED <<quic, connection, link, handler, mSessions, pings, faults>>

\* readWorker answers a Ping.
AnswerPing(c) ==
    /\ client[c] = "online"
    /\ AtClient(slot[c], "Ping")
    /\ toClient' = [toClient EXCEPT ![slot[c]] = Tail(@)]
    /\ ToServer(slot[c], "Pong")
    /\ UNCHANGED <<client, quic, slot, connection, link, handler, mSessions, pings,
                   faults>>

\* readWorker takes no notice of a Pong.
IgnorePong(c) ==
    /\ client[c] = "online"
    /\ AtClient(slot[c], "Pong")
    /\ toClient' = [toClient EXCEPT ![slot[c]] = Tail(@)]
    /\ UNCHANGED <<client, quic, slot, connection, link, lost, toServer, handler,
                   mSessions, pings, faults>>

\* pingWorker; bound: the Pong to the last Ping is there within 10 s.
SendPing(c) ==
    /\ client[c] = "online"
    /\ LET k == slot[c] IN
        /\ ~ Has(toServer[k], "Ping")
        /\ ~ Has(toClient[k], "Pong")
        /\ "client" \notin lost[k]
        /\ ToServer(k, "Ping")
    /\ UNCHANGED <<client, quic, slot, connection, link, toClient, handler, mSessions,
                   pings, faults>>

\* A worker of runOnce returned: the connection is closed or broken.
ClientLoses(c) ==
    /\ client[c] = "online"
    /\ EofAtClient(slot[c]) \/ Notices(slot[c], "client")
    /\ client' = [client EXCEPT ![c] = "closing"]
    /\ UNCHANGED <<quic, slot, connection, network, handler, mSessions, pings, faults>>

\* forwardWorker cannot listen, which ends the session like any other worker.
ForwardFailed(c) ==
    /\ client[c] = "online"
    /\ Fault("forward")
    /\ client' = [client EXCEPT ![c] = "closing"]
    /\ UNCHANGED <<quic, slot, connection, network, handler, mSessions, pings>>

\* runOnce returns, once its scope is empty.
Leave(c) ==
    /\ client[c] = "closing"
    /\ client' = [client EXCEPT ![c] = "sleeping"]
    /\ Hangup(c)
    /\ UNCHANGED <<quic, connection, link, handler, mSessions, pings, faults>>

\* The retry delay is over.
Retry(c) ==
    /\ client[c] = "sleeping"
    /\ client' = [client EXCEPT ![c] = "trying"]
    /\ UNCHANGED <<quic, slot, connection, network, handler, mSessions, pings, faults>>

\* QuicContext::run fails, and whenAny ends the reconnect loop with it: the context
\* is there whatever the transport.  A QUIC connection dies with it without a word.
ContextFailed(c) ==
    /\ client[c] # "exited"
    /\ Fault("context")
    /\ quic' = [quic EXCEPT ![c] = FALSE]
    /\ client' = [client EXCEPT ![c] = "exited"]
    /\ \/ slot[c] = Nobody /\ UNCHANGED <<slot, network>>
       \/ slot[c] # Nobody /\ kind[slot[c]] = "tcp" /\ Hangup(c) /\ UNCHANGED link
       \/ /\ slot[c] # Nobody /\ kind[slot[c]] = "quic"
          /\ slot' = [slot EXCEPT ![c] = Nobody]
          /\ link' = [link EXCEPT ![slot[c]] = "dead"]
          /\ toClient' = [toClient EXCEPT ![slot[c]] = <<>>]
          /\ UNCHANGED <<lost, toServer>>
    /\ UNCHANGED <<connection, handler, mSessions, pings>>

-----------------------------------------------------------------------------
\* The link of k dies; what is on its way is lost or was delivered before.
CutLink(k) ==
    /\ link[k] = "up"
    /\ Fault("cut")
    /\ ~ Unused(k)
    /\ link' = [link EXCEPT ![k] = "dead"]
    /\ \E L \in SUBSET {"client", "server"} :
        /\ "client" \in L => toServer[k] # <<>>
        /\ "server" \in L => toClient[k] # <<>>
        /\ lost' = [lost EXCEPT ![k] = L]
        /\ toServer' = IF "client" \in L THEN [toServer EXCEPT ![k] = <<>>] ELSE toServer
        /\ toClient' = IF "server" \in L THEN [toClient EXCEPT ![k] = <<>>] ELSE toClient
    /\ UNCHANGED <<client, quic, slot, connection, handler, mSessions, pings>>

Serve(k) ==
    \/ OnHello(k)
    \/ StartWorkers(k)
    \/ OnPing(k)
    \/ OnPong(k)
    \/ PongArrived(k)
    \/ PingAgain(k)
    \/ PongTimeout(k)
    \/ ServerLoses(k)
    \/ EndSession(k)

RunClient(c) ==
    \/ Connect(c)
    \/ ConnectFailed(c)
    \/ OnHelloAck(c)
    \/ Rejected(c)
    \/ AnswerPing(c)
    \/ IgnorePong(c)
    \/ SendPing(c)
    \/ ClientLoses(c)
    \/ ForwardFailed(c)
    \/ Leave(c)
    \/ Retry(c)
    \/ ContextFailed(c)

Next ==
    \/ \E k \in Slot : Serve(k) \/ CutLink(k)
    \/ \E c \in Client : RunClient(c)

\* The executors run what is ready, live links deliver, timers fire, and a
\* client that keeps trying gets a slot.  No fault is fair.
Fairness ==
    /\ \A k \in Slot :
        /\ WF_vars(OnHello(k))
        /\ WF_vars(StartWorkers(k))
        /\ WF_vars(OnPing(k) \/ OnPong(k))
        /\ WF_vars(PongArrived(k))
        /\ WF_vars(PingAgain(k))
        /\ WF_vars(link[k] = "dead" /\ PongTimeout(k))
        /\ WF_vars(ServerLoses(k))
        /\ WF_vars(EndSession(k))
    /\ \A c \in Client :
        /\ SF_vars(Connect(c))
        /\ WF_vars(OnHelloAck(c) \/ Rejected(c))
        /\ WF_vars(AnswerPing(c) \/ IgnorePong(c))
        /\ WF_vars(SendPing(c))
        /\ WF_vars(ClientLoses(c))
        /\ WF_vars(Leave(c))
        /\ WF_vars(Retry(c))

Spec == Init /\ [][Next]_vars
FairSpec == Spec /\ Fairness

-----------------------------------------------------------------------------
(***************************************************************************)
(* Properties.                                                             *)
(***************************************************************************)
Count(q, m) == Cardinality({j \in 1 .. Len(q) : q[j] = m})

TypeOK ==
    /\ client \in [Client -> {"trying", "hello", "online", "closing", "sleeping",
                              "exited"}]
    /\ quic \in [Client -> BOOLEAN]
    /\ slot \in [Client -> Slot \cup {Nobody}]
    /\ owner \in [Slot -> Client]
    /\ kind \in [Slot -> {"tcp", "quic"}]
    /\ link \in [Slot -> {"up", "dead"}]
    /\ lost \in [Slot -> SUBSET {"client", "server"}]
    /\ toServer \in [Slot -> Seq(Message)]
    /\ toClient \in [Slot -> Seq(Message)]
    /\ handler \in [Slot -> {"free", "hello", "acking", "rejecting", "running",
                             "draining"}]
    /\ mSessions \in [Name -> Slot \cup {Nobody}]
    /\ waiting \in [Slot -> BOOLEAN]
    /\ mPongArrive \in [Slot -> BOOLEAN]
    /\ faults \in 0 .. MaxFaults

Told(k) == Has(toClient[k], "Eof")

\* A client that believes itself registered is the one the server serves under
\* its name, or the server has ended that session and told it so as far as the
\* link allows: HelloAck never goes to a second client of the name.
AckMeansRegistered ==
    \A c \in Client : client[c] = "online" =>
        LET k == slot[c] IN
        \/ Registered(k) /\ mSessions[NameOf[c]] = k
        \/ handler[k] = "free" /\ (link[k] = "dead" \/ Told(k))

\* Every Pong answers the Ping that pingWorker is waiting for: neither the
\* AutoClear event nor the connection keeps one from an earlier ping, which would
\* hide a dead client for a round and falsify mLatencyMs.
PongAnswersPing ==
    \A k \in Slot : handler[k] = "running" =>
        Count(toClient[k], "Ping") + Count(toServer[k], "Pong")
            + (IF mPongArrive[k] THEN 1 ELSE 0) <= (IF waiting[k] THEN 1 ELSE 0)

\* A session whose link is dead gives its name back: the ping timeout or the
\* transport ends it, whatever the client does.
StaleForgotten ==
    \A n \in Name, k \in Slot :
        mSessions[n] = k /\ link[k] = "dead" ~> mSessions[n] # k

\* Once the faults are over, a name that a client over QUIC asks for is served for
\* good, though another client wants it too.
NameServed ==
    \A c \in Client : Transport[c] = "quic" =>
        <>[](mSessions[NameOf[c]] # Nobody \/ ~ quic[c])

\* The connection of c is dead, and c may find out: once registered by its pings,
\* before that by the idle timeout of QUIC.
CutOff(c) ==
    /\ client[c] = "online" \/ (client[c] = "hello" /\ kind[slot[c]] = "quic")
    /\ link[slot[c]] = "dead"

\* A client that is cut off tries again: registered, or over QUIC.
Reconnects ==
    \A c \in Client : CutOff(c) ~> client[c] = "trying" \/ ~ quic[c]

\* README.md: the client reconnects when it is disconnected.  So it is online or
\* tries to be, again and again.
KeepsTrying == \A c \in Client : []<>(client[c] \in {"trying", "online"})

Registry == INSTANCE SessionRegistry WITH
    Session <- Slot, holder <- mSessions, served <- {k \in Slot : Registered(k)}

\* The sessions implement the registry: one per name, the name is taken before the
\* workers start, and freed by nobody else, a rejected client included.
RegistrySafe == Registry!Spec
=============================================================================
