--------------------------- MODULE Session_proofs ---------------------------
(***************************************************************************)
(* The names of the sessions: one session per name, and a client that has  *)
(* read HelloAck is the registered one; and the pings of a session: every  *)
(* Pong answers the last Ping.  For any number of clients, names,          *)
(* connections and faults.                                                 *)
(***************************************************************************)
EXTENDS Session, FiniteSetTheorems, TLAPS

-----------------------------------------------------------------------------
(* The messages of a queue. *)

LEMMA HasAppend ==
    ASSUME NEW q \in Seq(Message), NEW x \in Message, NEW m
    PROVE  Has(Append(q, x), m) <=> Has(q, m) \/ x = m
<1>1. Len(q) \in Nat /\ Len(Append(q, x)) = Len(q) + 1
  OBVIOUS
<1>2. \A j \in 1 .. Len(q) : Append(q, x)[j] = q[j]
  OBVIOUS
<1>3. Append(q, x)[Len(q) + 1] = x
  OBVIOUS
<1>4. \A j : j \in 1 .. Len(q) + 1 <=> j \in 1 .. Len(q) \/ j = Len(q) + 1
  BY <1>1
<1> QED
  BY <1>1, <1>2, <1>3, <1>4, Zenon DEF Has

LEMMA HasTail ==
    ASSUME NEW q \in Seq(Message), q # <<>>, NEW m
    PROVE  /\ Has(Tail(q), m) => Has(q, m)
           /\ Has(q, m) /\ Head(q) # m => Has(Tail(q), m)
           /\ Has(q, Head(q))
<1>1. Len(q) \in Nat /\ Len(q) # 0 /\ Len(Tail(q)) = Len(q) - 1 /\ Head(q) = q[1]
  OBVIOUS
<1>2. \A j \in 1 .. Len(q) - 1 : Tail(q)[j] = q[j + 1]
  OBVIOUS
<1>3. Has(Tail(q), m) => Has(q, m)
  <2>1. \A j \in 1 .. Len(q) - 1 : j + 1 \in 1 .. Len(q)
    BY <1>1
  <2> QED
    BY <1>1, <1>2, <2>1, Zenon DEF Has
<1>4. Has(q, m) /\ Head(q) # m => Has(Tail(q), m)
  <2> SUFFICES ASSUME NEW j \in 1 .. Len(q), q[j] = m, Head(q) # m
               PROVE  Has(Tail(q), m)
    BY DEF Has
  <2>1. j # 1
    BY <1>1
  <2>2. j - 1 \in 1 .. Len(q) - 1 /\ (j - 1) + 1 = j
    BY <1>1, <2>1
  <2>3. Tail(q)[j - 1] = q[j]
    BY <1>2, <2>2
  <2> QED
    BY <1>1, <2>2, <2>3, Zenon DEF Has
<1>5. Has(q, Head(q))
  BY <1>1 DEF Has
<1> QED
  BY <1>3, <1>4, <1>5

LEMMA HasNone == ASSUME NEW m PROVE ~ Has(<<>>, m)
BY DEF Has

-----------------------------------------------------------------------------
(* The inductive invariant. *)

\* A client has a connection while it is inside runOnce, and it is its own.
Connected ==
    \A c \in Client :
        /\ client[c] \in {"hello", "online", "closing"} <=> slot[c] # Nobody
        /\ slot[c] # Nobody => owner[slot[c]] = c

\* mSessions and the handlers agree.
Names ==
    /\ \A k \in Slot : Registered(k) => mSessions[NameOn(k)] = k
    /\ \A n \in Name, k \in Slot :
            mSessions[n] = k => Registered(k) /\ NameOn(k) = n

\* The server served k, and serves it still or told its client that it does not.
Answered(k) ==
    Registered(k) \/ (handler[k] = "free" /\ (link[k] = "dead" \/ Told(k)))

\* HelloAck, on its way or read, is never wrong.
Acked ==
    \A c \in Client :
        slot[c] # Nobody /\ (client[c] = "online" \/ Has(toClient[slot[c]], "HelloAck"))
            => Answered(slot[c])

IInv == TypeOK /\ Connected /\ Names /\ Acked

-----------------------------------------------------------------------------
(* Types. *)

LEMMA Assumptions ==
    /\ NameOf \in [Client -> Name] /\ Client # {} /\ MaxFaults \in Nat /\ MaxSlot \in Nat
    /\ Nobody \notin Slot
    /\ \A c \in Client : Kinds(c) \subseteq {"tcp", "quic"}
<1>1. Nobody \notin Slot
  BY SlotAssumption DEF Nobody, Slot
<1> QED
  BY <1>1, ClientAssumption, SlotAssumption, FaultAssumption DEF Kinds

LEMMA SlotOf ==
    ASSUME TypeOK, Connected, NEW c \in Client,
           client[c] \in {"hello", "online", "closing"} \/ slot[c] # Nobody
    PROVE  slot[c] \in Slot /\ owner[slot[c]] = c /\ HasClient(slot[c])
BY DEF TypeOK, Connected, HasClient

LEMMA ToServerType ==
    ASSUME TypeOK, NEW k \in Slot, NEW m \in Message, ToServer(k, m)
    PROVE  /\ lost' \in [Slot -> SUBSET {"client", "server"}]
           /\ toServer' \in [Slot -> Seq(Message)]
BY DEF TypeOK, ToServer

LEMMA ToClientType ==
    ASSUME TypeOK, NEW k \in Slot, NEW m \in Message, ToClient(k, m)
    PROVE  /\ lost' \in [Slot -> SUBSET {"client", "server"}]
           /\ toClient' \in [Slot -> Seq(Message)]
BY DEF TypeOK, ToClient

LEMMA ServerClosesType ==
    ASSUME TypeOK, NEW k \in Slot, ServerCloses(k)
    PROVE  /\ lost' \in [Slot -> SUBSET {"client", "server"}]
           /\ toClient' \in [Slot -> Seq(Message)]
           /\ toServer' \in [Slot -> Seq(Message)]
<1>1. "Eof" \in Message
  BY DEF Message
<1> QED
  BY <1>1, ToClientType DEF ServerCloses, TypeOK

LEMMA HangupType ==
    ASSUME TypeOK, NEW c \in Client, slot[c] \in Slot, Hangup(c)
    PROVE  /\ lost' \in [Slot -> SUBSET {"client", "server"}]
           /\ toClient' \in [Slot -> Seq(Message)]
           /\ toServer' \in [Slot -> Seq(Message)]
           /\ slot' \in [Client -> Slot \cup {Nobody}]
<1>1. "Eof" \in Message
  BY DEF Message
<1> QED
  BY <1>1, ToServerType DEF Hangup, ClientCloses, TypeOK

LEMMA UnregisterType ==
    ASSUME TypeOK, NEW k \in Slot
    PROVE  Unregister(k) \in [Name -> Slot \cup {Nobody}]
BY DEF TypeOK, Unregister

LEMMA FaultType == ASSUME TypeOK, NEW f, Fault(f) PROVE faults' \in 0 .. MaxFaults
BY Assumptions DEF TypeOK, Fault

LEMMA ServeType ==
    ASSUME TypeOK, NEW k \in Slot, Serve(k)
    PROVE  TypeOK'
<1>0. {"HelloAck", "FatalError", "Ping", "Pong", "Eof"} \subseteq Message
  BY DEF Message
<1> USE Assumptions DEF connection, network, pings
<1>1. CASE OnHello(k)
  <2>1. toServer' \in [Slot -> Seq(Message)]
    BY <1>1 DEF OnHello, AtServer, TypeOK
  <2>2. \E m \in Message : ToClient(k, m)
    BY <1>0, <1>1 DEF OnHello
  <2>3. CASE Taken(k)
    BY <1>1, <2>1, <2>2, <2>3, ToClientType DEF OnHello, TypeOK
  <2>4. CASE ~ Taken(k)
    <3>0. mSessions' = [mSessions EXCEPT ![NameOn(k)] = k]
      BY <1>1, <2>4 DEF OnHello
    <3>1. mSessions' \in [Name -> Slot \cup {Nobody}]
      BY <3>0 DEF TypeOK
    <3> QED
      BY <1>1, <2>1, <2>2, <2>4, <3>1, ToClientType DEF OnHello, TypeOK
  <2> QED
    BY <2>3, <2>4
<1>2. CASE StartWorkers(k)
  BY <1>0, <1>2, ToClientType DEF StartWorkers, TypeOK
<1>3. CASE OnPing(k)
  BY <1>0, <1>3, ToClientType DEF OnPing, AtServer, TypeOK
<1>4. CASE OnPong(k)
  BY <1>4 DEF OnPong, AtServer, TypeOK
<1>5. CASE PongArrived(k)
  BY <1>5 DEF PongArrived, TypeOK
<1>6. CASE PingAgain(k)
  BY <1>0, <1>6, ToClientType DEF PingAgain, TypeOK
<1>7. CASE PongTimeout(k)
  BY <1>7, FaultType DEF PongTimeout, TypeOK
<1>8. CASE ServerLoses(k)
  <2>1. CASE handler[k] = "running"
    BY <1>8, <2>1 DEF ServerLoses, TypeOK
  <2>2. CASE handler[k] # "running"
    <3>1. /\ handler' = [handler EXCEPT ![k] = "free"]
          /\ mSessions' = Unregister(k)
          /\ ServerCloses(k)
          /\ UNCHANGED <<client, quic, slot, owner, kind, link, waiting, mPongArrive, faults>>
      BY <1>8, <2>2 DEF ServerLoses
    <3>2. mSessions' \in [Name -> Slot \cup {Nobody}]
      BY <3>1, UnregisterType
    <3> QED
      BY <3>1, <3>2, ServerClosesType DEF TypeOK
  <2> QED
    BY <2>1, <2>2
<1>9. CASE EndSession(k)
  BY <1>9, ServerClosesType, UnregisterType DEF EndSession, TypeOK
<1> QED
  BY <1>1, <1>2, <1>3, <1>4, <1>5, <1>6, <1>7, <1>8, <1>9, Zenon DEF Serve

LEMMA ClientType ==
    ASSUME TypeOK, Connected, NEW c \in Client, RunClient(c)
    PROVE  TypeOK'
<1>0. {"Hello", "Ping", "Pong", "Eof"} \subseteq Message
  BY DEF Message
<1> USE Assumptions DEF connection, network, pings
<1>1. CASE Connect(c)
  <2>1. <<"Hello">> \in Seq(Message) /\ <<>> \in Seq(Message)
    BY <1>0
  <2> QED
    BY <1>1, <2>1 DEF Connect, TypeOK
<1>2. CASE ConnectFailed(c)
  BY <1>2, FaultType DEF ConnectFailed, AfterFailure, TypeOK
<1>3. CASE OnHelloAck(c)
  BY <1>3, SlotOf DEF OnHelloAck, AtClient, TypeOK
<1>4. CASE Rejected(c)
  BY <1>4, SlotOf, HangupType DEF Rejected, AfterFailure, TypeOK
<1>5. CASE AnswerPing(c)
  BY <1>0, <1>5, SlotOf, ToServerType DEF AnswerPing, AtClient, TypeOK
<1>6. CASE IgnorePong(c)
  BY <1>6, SlotOf DEF IgnorePong, AtClient, TypeOK
<1>7. CASE SendPing(c)
  BY <1>0, <1>7, SlotOf, ToServerType DEF SendPing, TypeOK
<1>8. CASE ClientLoses(c)
  BY <1>8 DEF ClientLoses, TypeOK
<1>9. CASE ForwardFailed(c)
  BY <1>9, FaultType DEF ForwardFailed, TypeOK
<1>10. CASE Leave(c)
  BY <1>10, SlotOf, HangupType DEF Leave, TypeOK
<1>11. CASE Retry(c)
  BY <1>11 DEF Retry, TypeOK
<1>12. CASE ContextFailed(c)
  <2>1. faults' \in 0 .. MaxFaults
    BY <1>12, FaultType DEF ContextFailed
  <2>2. CASE slot[c] = Nobody
    BY <1>12, <2>1, <2>2 DEF ContextFailed, TypeOK
  <2>3. CASE slot[c] # Nobody
    <3>1. slot[c] \in Slot
      BY <2>3, SlotOf
    <3>2. CASE kind[slot[c]] = "tcp"
      BY <1>12, <2>1, <2>3, <3>1, <3>2, HangupType DEF ContextFailed, TypeOK
    <3>3. CASE kind[slot[c]] # "tcp"
      <4>1. /\ slot' = [slot EXCEPT ![c] = Nobody]
            /\ link' = [link EXCEPT ![slot[c]] = "dead"]
            /\ toClient' = [toClient EXCEPT ![slot[c]] = <<>>]
            /\ client' = [client EXCEPT ![c] = "exited"]
            /\ quic' = [quic EXCEPT ![c] = FALSE]
            /\ UNCHANGED <<owner, kind, lost, toServer, handler, mSessions, waiting,
                           mPongArrive>>
        BY <1>12, <2>3, <3>3 DEF ContextFailed
      <4>2. /\ toClient' \in [Slot -> Seq(Message)]
            /\ link' \in [Slot -> {"up", "dead"}]
            /\ slot' \in [Client -> Slot \cup {Nobody}]
        <5>1. <<>> \in Seq(Message)
          OBVIOUS
        <5>2. toClient' \in [Slot -> Seq(Message)]
          BY <4>1, <5>1 DEF TypeOK
        <5>3. link' \in [Slot -> {"up", "dead"}]
          BY <4>1 DEF TypeOK
        <5>4. slot' \in [Client -> Slot \cup {Nobody}]
          BY <4>1 DEF TypeOK
        <5> QED
          BY <5>2, <5>3, <5>4
      <4> QED
        BY <2>1, <4>1, <4>2 DEF TypeOK
    <3> QED
      BY <3>2, <3>3
  <2> QED
    BY <2>2, <2>3
<1> QED
  BY <1>1, <1>2, <1>3, <1>4, <1>5, <1>6, <1>7, <1>8, <1>9, <1>10, <1>11, <1>12, Zenon
  DEF RunClient

LEMMA CutLinkType ==
    ASSUME TypeOK, NEW k \in Slot, CutLink(k)
    PROVE  TypeOK'
BY Assumptions, FaultType DEF CutLink, connection, pings, TypeOK

LEMMA NextType ==
    ASSUME TypeOK, Connected, [Next]_vars
    PROVE  TypeOK'
<1>1. CASE UNCHANGED vars
  BY <1>1 DEF vars, connection, network, pings, TypeOK
<1>2. CASE Next
  BY <1>2, ServeType, ClientType, CutLinkType DEF Next
<1> QED
  BY <1>1, <1>2

-----------------------------------------------------------------------------
(* The clients and their connections. *)

LEMMA NextConnected ==
    ASSUME TypeOK, Connected, [Next]_vars
    PROVE  Connected'
<1> USE Assumptions DEF connection
<1>1. CASE \E k \in Slot : Serve(k) \/ CutLink(k)
  <2>1. UNCHANGED <<client, slot, owner>>
    BY <1>1 DEF Serve, OnHello, StartWorkers, OnPing, OnPong, PongArrived, PingAgain,
                PongTimeout, ServerLoses, EndSession, CutLink
  <2> QED
    BY <2>1 DEF Connected
<1>2. ASSUME NEW c \in Client, RunClient(c)
      PROVE  Connected'
  <2>1. CASE Connect(c)
    BY <2>1 DEF Connect, Connected, Unused, HasClient, TypeOK
  <2>2. CASE ConnectFailed(c) \/ OnHelloAck(c) \/ Retry(c) \/ ClientLoses(c)
             \/ ForwardFailed(c) \/ AnswerPing(c) \/ IgnorePong(c) \/ SendPing(c)
    BY <2>2 DEF ConnectFailed, OnHelloAck, Retry, ClientLoses, ForwardFailed, AnswerPing,
                IgnorePong, SendPing, AfterFailure, Connected, TypeOK
  <2>3. CASE Rejected(c) \/ Leave(c)
    <3>1. /\ client' = [client EXCEPT ![c] = "sleeping"]
          /\ slot' = [slot EXCEPT ![c] = Nobody]
          /\ UNCHANGED owner
      BY <2>3 DEF Rejected, Leave, Hangup, AfterFailure
    <3> QED
      BY <3>1 DEF Connected, TypeOK
  <2>4. CASE ContextFailed(c)
    BY <2>4 DEF ContextFailed, Hangup, Connected, TypeOK
  <2> QED
    BY <1>2, <2>1, <2>2, <2>3, <2>4, Zenon DEF RunClient
<1>3. CASE UNCHANGED vars
  BY <1>3 DEF vars, Connected
<1> QED
  BY <1>1, <1>2, <1>3 DEF Next

-----------------------------------------------------------------------------
(* The names. *)

LEMMA SessionsKept ==
    ASSUME Names, UNCHANGED <<owner, mSessions>>,
           \A k \in Slot : Registered(k)' <=> Registered(k)
    PROVE  Names'
BY DEF Names, NameOn

\* A session that is not registered may come and go without touching the names.
LEMMA ClaimNames ==
    ASSUME TypeOK, Names, NEW k \in Slot, ~ Taken(k), ~ Registered(k),
           mSessions' = [mSessions EXCEPT ![NameOn(k)] = k],
           handler' = [handler EXCEPT ![k] = "acking"], UNCHANGED owner
    PROVE  Names'
<1>1. \A j \in Slot : NameOn(j) \in Name /\ NameOn(j)' = NameOn(j)
  BY Assumptions DEF NameOn, TypeOK
<1>2. \A j \in Slot : Registered(j)' <=> Registered(j) \/ j = k
  BY DEF Registered, TypeOK
<1>3. mSessions[NameOn(k)] = Nobody
  BY DEF Taken
<1>4. \A n \in Name : mSessions'[n] = IF n = NameOn(k) THEN k ELSE mSessions[n]
  BY <1>1 DEF TypeOK
<1> QED
  BY <1>1, <1>2, <1>3, <1>4, Assumptions DEF Names

LEMMA ReleaseNames ==
    ASSUME TypeOK, Names, NEW k \in Slot, mSessions' = Unregister(k),
           handler' = [handler EXCEPT ![k] = "free"], UNCHANGED owner
    PROVE  Names'
<1>1. \A j \in Slot : NameOn(j) \in Name /\ NameOn(j)' = NameOn(j)
  BY Assumptions DEF NameOn, TypeOK
<1>2. \A j \in Slot : Registered(j)' <=> Registered(j) /\ j # k
  BY DEF Registered, TypeOK
<1>3. CASE Registered(k)
  <2>1. \A n \in Name : mSessions'[n] = IF n = NameOn(k) THEN Nobody ELSE mSessions[n]
    BY <1>1, <1>3 DEF TypeOK, Unregister
  <2> QED
    BY <1>1, <1>2, <1>3, <2>1, Assumptions DEF Names
<1>4. CASE ~ Registered(k)
  <2>1. mSessions' = mSessions
    BY <1>4 DEF Unregister
  <2> QED
    BY <1>1, <1>2, <1>4, <2>1 DEF Names
<1> QED
  BY <1>3, <1>4

\* What the handlers, the names and the owners see of a step.
LEMMA ServeNames ==
    ASSUME TypeOK, Names, NEW k \in Slot, Serve(k)
    PROVE  Names'
<1> USE DEF connection
<1>1. CASE OnHello(k)
  <2>1. ~ Registered(k)
    BY <1>1 DEF OnHello, Registered
  <2>2. CASE Taken(k)
    BY <1>1, <2>1, <2>2, SessionsKept DEF OnHello, Registered, TypeOK
  <2>3. CASE ~ Taken(k)
    BY <1>1, <2>1, <2>3, ClaimNames DEF OnHello
  <2> QED
    BY <2>2, <2>3
<1>2. CASE StartWorkers(k) \/ PongTimeout(k)
  BY <1>2, SessionsKept DEF StartWorkers, PongTimeout, Registered, TypeOK
<1>3. CASE OnPing(k) \/ OnPong(k) \/ PongArrived(k) \/ PingAgain(k)
  BY <1>3, SessionsKept DEF OnPing, OnPong, PongArrived, PingAgain, Registered
<1>4. CASE ServerLoses(k)
  <2>1. CASE handler[k] = "running"
    BY <1>4, <2>1, SessionsKept DEF ServerLoses, Registered, TypeOK
  <2>2. CASE handler[k] # "running"
    BY <1>4, <2>2, ReleaseNames DEF ServerLoses
  <2> QED
    BY <2>1, <2>2
<1>5. CASE EndSession(k)
  BY <1>5, ReleaseNames DEF EndSession
<1> QED
  BY <1>1, <1>2, <1>3, <1>4, <1>5, Zenon DEF Serve

\* The clients touch the names only where a connection begins.
LEMMA ClientNames ==
    ASSUME TypeOK, Names, NEW c \in Client, RunClient(c)
    PROVE  Names' /\ mSessions' = mSessions
           /\ \A k \in Slot : Registered(k)' <=> Registered(k)
<1> USE DEF connection
<1>1. CASE Connect(c)
  <2>1. mSessions' = mSessions
    BY <1>1 DEF Connect
  <2>2. PICK k \in Slot : /\ Unused(k)
                          /\ owner' = [owner EXCEPT ![k] = c]
                          /\ handler' = [handler EXCEPT ![k] = "hello"]
    BY <1>1 DEF Connect
  <2>3. ~ Registered(k)
    BY <2>2 DEF Unused, HasServer, Registered
  <2>4. \A j \in Slot : Registered(j)' <=> Registered(j)
    BY <2>2, <2>3 DEF Registered, TypeOK
  <2>5. \A j \in Slot : j # k => NameOn(j)' = NameOn(j)
    BY <2>2 DEF NameOn, TypeOK
  <2> QED
    BY <2>1, <2>3, <2>4, <2>5 DEF Names
<1>2. CASE ~ Connect(c)
  <2>1. UNCHANGED <<owner, mSessions, handler>>
    BY <1>2 DEF RunClient, ConnectFailed, OnHelloAck, Rejected, AnswerPing, IgnorePong,
                SendPing, ClientLoses, ForwardFailed, Leave, Retry, ContextFailed
  <2> QED
    BY <2>1, SessionsKept DEF Registered
<1> QED
  BY <1>1, <1>2

LEMMA NextNames ==
    ASSUME TypeOK, Names, [Next]_vars
    PROVE  Names'
<1>1. CASE UNCHANGED vars \/ \E k \in Slot : CutLink(k)
  BY <1>1, SessionsKept DEF vars, CutLink, connection, Registered
<1> QED
  BY <1>1, ServeNames, ClientNames DEF Next

-----------------------------------------------------------------------------
(* The registry. *)

LEMMA RegistryInit == Init => Registry!Init
BY DEF Init, Registry!Init, Registered

LEMMA RegistryIdle ==
    ASSUME mSessions' = mSessions, \A k \in Slot : Registered(k)' <=> Registered(k)
    PROVE  UNCHANGED Registry!vars
BY DEF Registry!vars

LEMMA RegistryRelease ==
    ASSUME TypeOK, Names, NEW k \in Slot, mSessions' = Unregister(k),
           handler' = [handler EXCEPT ![k] = "free"]
    PROVE  [Registry!Next]_(Registry!vars)
<1>1. NameOn(k) \in Name
  BY Assumptions DEF NameOn, TypeOK
<1>2. \A j \in Slot : Registered(j)' <=> Registered(j) /\ j # k
  BY DEF Registered, TypeOK
<1>3. CASE Registered(k)
  <2>1. mSessions[NameOn(k)] = k
    BY <1>3 DEF Names
  <2>2. Registry!Release(NameOn(k), k)
    BY <1>2, <1>3, <2>1 DEF Registry!Release, Unregister
  <2> QED
    BY <1>1, <2>2 DEF Registry!Next
<1>4. CASE ~ Registered(k)
  BY <1>2, <1>4, RegistryIdle DEF Unregister
<1> QED
  BY <1>3, <1>4

\* Every step of the sessions is a step of the registry or leaves it alone.
LEMMA NextRegistry ==
    ASSUME TypeOK, Names, [Next]_vars
    PROVE  [Registry!Next]_(Registry!vars)
<1> USE DEF connection
<1>1. ASSUME NEW k \in Slot, OnHello(k)
      PROVE  [Registry!Next]_(Registry!vars)
  <2>1. CASE Taken(k)
    BY <1>1, <2>1, RegistryIdle DEF OnHello, Registered, TypeOK
  <2>2. CASE ~ Taken(k)
    <3>1. NameOn(k) \in Name /\ mSessions[NameOn(k)] = Nobody
      BY <2>2, Assumptions DEF Taken, NameOn, TypeOK
    <3>2. ~ Registered(k)
      BY <1>1 DEF OnHello, Registered
    <3>3. \A j \in Slot : Registered(j)' <=> Registered(j) \/ j = k
      BY <1>1, <2>2 DEF OnHello, Registered, TypeOK
    <3>4. Registry!Claim(NameOn(k), k)
      BY <1>1, <2>2, <3>1, <3>2, <3>3 DEF OnHello, Registry!Claim
    <3> QED
      BY <3>1, <3>4 DEF Registry!Next
  <2> QED
    BY <2>1, <2>2
<1>2. ASSUME NEW k \in Slot, ServerLoses(k) \/ EndSession(k)
      PROVE  [Registry!Next]_(Registry!vars)
  <2>1. CASE ServerLoses(k) /\ handler[k] = "running"
    BY <2>1, RegistryIdle DEF ServerLoses, Registered, TypeOK
  <2>2. CASE ServerLoses(k) /\ handler[k] # "running"
    BY <2>2, RegistryRelease DEF ServerLoses
  <2>3. CASE EndSession(k)
    BY <2>3, RegistryRelease DEF EndSession
  <2> QED
    BY <1>2, <2>1, <2>2, <2>3
<1>3. ASSUME NEW k \in Slot,
             \/ StartWorkers(k) \/ PongTimeout(k) \/ CutLink(k)
             \/ OnPing(k) \/ OnPong(k) \/ PongArrived(k) \/ PingAgain(k)
      PROVE  [Registry!Next]_(Registry!vars)
  BY <1>3, RegistryIdle DEF StartWorkers, PongTimeout, CutLink, OnPing, OnPong,
                            PongArrived, PingAgain, Registered, TypeOK
<1>4. ASSUME NEW c \in Client, RunClient(c)
      PROVE  [Registry!Next]_(Registry!vars)
  BY <1>4, ClientNames, RegistryIdle
<1>5. CASE UNCHANGED vars
  BY <1>5, RegistryIdle DEF vars, Registered
<1> QED
  BY <1>1, <1>2, <1>3, <1>4, <1>5 DEF Next, Serve

-----------------------------------------------------------------------------
(* HelloAck. *)

\* c has read HelloAck on k, or will.
Trusts(c) == slot[c] # Nobody /\ (client[c] = "online" \/ Has(toClient[slot[c]], "HelloAck"))

LEMMA OwnSlots ==
    ASSUME Connected, NEW c \in Client, NEW d \in Client,
           slot[c] = slot[d], slot[c] # Nobody
    PROVE  c = d
BY DEF Connected

\* A step of the server at k leaves the other slots alone.
LEMMA AckedAtServer ==
    ASSUME TypeOK, Acked, NEW k \in Slot, UNCHANGED <<client, slot, link>>,
           \A j \in Slot \ {k} : handler'[j] = handler[j] /\ toClient'[j] = toClient[j],
           \A c \in Client : slot[c] = k /\ Trusts(c)' => Answered(k)'
    PROVE  Acked'
<1> SUFFICES ASSUME NEW c \in Client, Trusts(c)'
             PROVE  Answered(slot[c])'
  BY DEF Acked, Trusts
<1>1. slot[c] \in Slot /\ slot'[c] = slot[c]
  BY DEF Trusts, TypeOK
<1>2. CASE slot[c] = k
  BY <1>2 DEF Answered, Registered, Told
<1>3. CASE slot[c] # k
  <2>1. Trusts(c)
    BY <1>1, <1>3 DEF Trusts
  <2>2. Answered(slot[c])
    BY <2>1 DEF Acked, Trusts
  <2> QED
    BY <1>1, <1>3, <2>2 DEF Answered, Registered, Told
<1> QED
  BY <1>2, <1>3

\* Closing a session tells its client, as far as the link allows.
LEMMA ClosedAnswered ==
    ASSUME TypeOK, NEW k \in Slot, HasClient(k), ServerCloses(k),
           handler' = [handler EXCEPT ![k] = "free"], UNCHANGED link
    PROVE  Answered(k)'
<1>1. handler'[k] = "free"
  BY DEF TypeOK
<1>2. CASE link[k] = "dead"
  BY <1>1, <1>2 DEF Answered
<1>3. CASE link[k] # "dead"
  <2>1. link[k] = "up"
    BY <1>3 DEF TypeOK
  <2>2. toClient'[k] = Append(toClient[k], "Eof")
    BY <2>1 DEF ServerCloses, ToClient, TypeOK
  <2>3. "Eof" \in Message /\ toClient[k] \in Seq(Message)
    BY DEF Message, TypeOK
  <2>4. Has(toClient'[k], "Eof")
    BY <2>2, <2>3, HasAppend
  <2> QED
    BY <1>1, <2>4 DEF Answered, Told
<1> QED
  BY <1>2, <1>3

LEMMA SentElsewhere ==
    ASSUME TypeOK, NEW k \in Slot, NEW m, ToClient(k, m)
    PROVE  \A j \in Slot \ {k} : toClient'[j] = toClient[j]
BY DEF ToClient, TypeOK

LEMMA ServeAcked ==
    ASSUME TypeOK, Acked, NEW k \in Slot, Serve(k)
    PROVE  Acked'
<1>0. UNCHANGED <<client, slot, link>>
  <2>1. CASE OnHello(k) \/ StartWorkers(k) \/ OnPing(k) \/ OnPong(k) \/ PingAgain(k)
    BY <2>1 DEF OnHello, StartWorkers, OnPing, OnPong, PingAgain
  <2>2. CASE PongArrived(k) \/ PongTimeout(k)
    BY <2>2 DEF PongArrived, PongTimeout, network
  <2>3. CASE ServerLoses(k) \/ EndSession(k)
    BY <2>3 DEF ServerLoses, EndSession
  <2> QED
    BY <2>1, <2>2, <2>3, Zenon DEF Serve
<1>1. \A j \in Slot \ {k} : handler'[j] = handler[j]
  <2>1. CASE OnHello(k)
    BY <2>1 DEF OnHello, TypeOK
  <2>2. CASE ServerLoses(k)
    BY <2>2 DEF ServerLoses, TypeOK
  <2>3. CASE ~ OnHello(k) /\ ~ ServerLoses(k)
    BY <2>3 DEF Serve, StartWorkers, OnPing, OnPong, PongArrived, PingAgain,
                PongTimeout, EndSession, TypeOK
  <2> QED
    BY <2>1, <2>2, <2>3
<1>2. \A j \in Slot \ {k} : toClient'[j] = toClient[j]
  <2>1. \/ toClient' = toClient
        \/ \E m \in Message : ToClient(k, m)
    <3>1. {"HelloAck", "FatalError", "Ping", "Pong", "Eof"} \subseteq Message
      BY DEF Message
    <3>2. CASE OnHello(k)
      BY <3>1, <3>2 DEF OnHello
    <3>3. CASE StartWorkers(k) \/ OnPing(k) \/ PingAgain(k)
      BY <3>1, <3>3 DEF StartWorkers, OnPing, PingAgain
    <3>4. CASE OnPong(k) \/ PongArrived(k) \/ PongTimeout(k)
      BY <3>4 DEF OnPong, PongArrived, PongTimeout, network
    <3>5. CASE ServerLoses(k) \/ EndSession(k)
      BY <3>1, <3>5 DEF ServerLoses, EndSession, ServerCloses
    <3> QED
      BY <3>2, <3>3, <3>4, <3>5, Zenon DEF Serve
  <2> QED
    BY <2>1, SentElsewhere
<1>3. ASSUME NEW c \in Client, slot[c] = k, Trusts(c)'
      PROVE  Answered(k)'
  <2>1. HasClient(k)
    BY <1>3 DEF HasClient
  <2>2. CASE OnHello(k) /\ Taken(k)
    <3>1. ~ Answered(k)
      BY <2>2 DEF OnHello, Answered, Registered
    <3>2. client[c] # "online" /\ ~ Has(toClient[k], "HelloAck")
      BY <1>3, <3>1, Assumptions DEF Acked
    <3>3. toClient'[k] = toClient[k] \/ toClient'[k] = Append(toClient[k], "FatalError")
      BY <2>2 DEF OnHello, ToClient, TypeOK
    <3>4. "FatalError" \in Message /\ toClient[k] \in Seq(Message)
      BY DEF Message, TypeOK
    <3>5. ~ Has(Append(toClient[k], "FatalError"), "HelloAck")
      BY <3>2, <3>4, HasAppend
    <3>6. ~ Has(toClient'[k], "HelloAck")
      BY <3>2, <3>3, <3>5, Zenon
    <3> QED
      BY <1>0, <1>3, <3>2, <3>6 DEF Trusts
  <2>3. CASE \/ OnHello(k) /\ ~ Taken(k)
             \/ StartWorkers(k) \/ OnPing(k) \/ OnPong(k) \/ PongArrived(k)
             \/ PingAgain(k) \/ PongTimeout(k)
             \/ ServerLoses(k) /\ handler[k] = "running"
    BY <2>3 DEF OnHello, StartWorkers, OnPing, OnPong, PongArrived, PingAgain,
                PongTimeout, ServerLoses, Answered, Registered, TypeOK
  <2>4. CASE (ServerLoses(k) /\ handler[k] # "running") \/ EndSession(k)
    BY <1>0, <2>1, <2>4, ClosedAnswered DEF ServerLoses, EndSession
  <2> QED
    BY <2>2, <2>3, <2>4, Zenon DEF Serve
<1> QED
  BY <1>0, <1>1, <1>2, <1>3, AckedAtServer

\* A step of c leaves the connections of the other clients alone.
LEMMA AckedAtClient ==
    ASSUME TypeOK, Connected, Acked, NEW c \in Client, UNCHANGED handler,
           \A j \in Slot : j # slot[c] => link'[j] = link[j],
           \A d \in Client \ {c} : client'[d] = client[d] /\ slot'[d] = slot[d],
           \A j \in Slot : j # slot[c] => toClient'[j] = toClient[j],
           Trusts(c)' => Answered(slot[c])'
    PROVE  Acked'
<1> SUFFICES ASSUME NEW d \in Client, d # c, Trusts(d)'
             PROVE  Answered(slot[d])'
  BY DEF Acked, Trusts
<1>1. slot'[d] = slot[d] /\ client'[d] = client[d] /\ slot[d] # Nobody /\ slot[d] \in Slot
  BY DEF Trusts, TypeOK
<1>2. slot[d] # slot[c]
  BY <1>1, OwnSlots
<1>3. toClient'[slot[d]] = toClient[slot[d]] /\ link'[slot[d]] = link[slot[d]]
  BY <1>1, <1>2
<1>4. Answered(slot[d])
  BY <1>1, <1>3 DEF Acked, Trusts
<1> QED
  BY <1>1, <1>3, <1>4 DEF Answered, Registered, Told

LEMMA ConsumedAnswered ==
    ASSUME TypeOK, NEW k \in Slot, NEW m, AtClient(k, m), m # "Eof", Answered(k),
           toClient' = [toClient EXCEPT ![k] = Tail(@)], UNCHANGED <<handler, link>>
    PROVE  Answered(k)'
<1>1. toClient[k] \in Seq(Message) /\ toClient[k] # <<>> /\ Head(toClient[k]) = m
  BY DEF AtClient, TypeOK
<1>2. toClient'[k] = Tail(toClient[k])
  BY DEF TypeOK
<1>3. Told(k) => Told(k)'
  BY <1>1, <1>2, HasTail DEF Told
<1> QED
  BY <1>3 DEF Answered, Registered

LEMMA ClientAcked ==
    ASSUME TypeOK, Connected, Acked, NEW c \in Client, RunClient(c)
    PROVE  Acked'
<1> USE DEF connection, network
<1>1. CASE Connect(c)
  <2>1. PICK k \in Slot :
            /\ Unused(k)
            /\ client' = [client EXCEPT ![c] = "hello"]
            /\ slot' = [slot EXCEPT ![c] = k]
            /\ link' = [link EXCEPT ![k] = "up"]
            /\ toClient' = [toClient EXCEPT ![k] = <<>>]
            /\ handler' = [handler EXCEPT ![k] = "hello"]
    BY <1>1 DEF Connect
  <2>2. \A d \in Client : slot[d] # k
    BY <2>1 DEF Unused, HasClient
  <2> SUFFICES ASSUME NEW d \in Client, Trusts(d)'
               PROVE  Answered(slot[d])' /\ d # c
    BY <2>1 DEF Acked, Trusts, TypeOK
  <2>3. d # c
    <3>1. slot'[c] = k /\ client'[c] = "hello" /\ toClient'[k] = <<>>
      BY <2>1 DEF TypeOK
    <3>2. ~ Trusts(c)'
      BY <3>1, HasNone DEF Trusts
    <3> QED
      BY <3>2
  <2>4. slot'[d] = slot[d] /\ client'[d] = client[d] /\ slot[d] # Nobody
        /\ slot[d] \in Slot /\ slot[d] # k
    BY <2>1, <2>2, <2>3 DEF Trusts, TypeOK
  <2>5. /\ toClient'[slot[d]] = toClient[slot[d]]
        /\ handler'[slot[d]] = handler[slot[d]]
        /\ link'[slot[d]] = link[slot[d]]
    BY <2>1, <2>4 DEF TypeOK
  <2>6. Answered(slot[d])
    BY <2>4, <2>5 DEF Acked, Trusts
  <2> QED
    BY <2>3, <2>4, <2>5, <2>6 DEF Answered, Registered, Told
<1>2. CASE ~ Connect(c)
  <2>1. handler' = handler /\ \A j \in Slot : j # slot[c] => link'[j] = link[j]
    BY <1>2 DEF RunClient, ConnectFailed, OnHelloAck, Rejected, AnswerPing, IgnorePong,
                SendPing, ClientLoses, ForwardFailed, Leave, Retry, ContextFailed,
                Hangup, TypeOK
  <2>2. \A d \in Client \ {c} : client'[d] = client[d] /\ slot'[d] = slot[d]
    BY <1>2 DEF RunClient, ConnectFailed, OnHelloAck, Rejected, AnswerPing, IgnorePong,
                SendPing, ClientLoses, ForwardFailed, Leave, Retry, ContextFailed,
                Hangup, TypeOK
  <2>3. \A j \in Slot : j # slot[c] => toClient'[j] = toClient[j]
    BY <1>2 DEF RunClient, ConnectFailed, OnHelloAck, Rejected, AnswerPing, IgnorePong,
                SendPing, ClientLoses, ForwardFailed, Leave, Retry, ContextFailed,
                Hangup, ClientCloses, TypeOK
  <2>4. ASSUME Trusts(c)'
        PROVE  Answered(slot[c])'
    <3>1. CASE OnHelloAck(c)
      <4>1. slot[c] \in Slot /\ slot' = slot
        BY <3>1, SlotOf DEF OnHelloAck
      <4>2. Has(toClient[slot[c]], "HelloAck")
        BY <3>1, <4>1, HasTail DEF OnHelloAck, AtClient, TypeOK
      <4>3. Answered(slot[c])
        BY <4>1, <4>2, Assumptions DEF Acked
      <4> QED
        BY <3>1, <4>1, <4>3, ConsumedAnswered DEF OnHelloAck
    <3>2. CASE AnswerPing(c) \/ IgnorePong(c)
      <4>1. slot[c] \in Slot /\ slot' = slot /\ client[c] = "online"
        BY <3>2, SlotOf DEF AnswerPing, IgnorePong
      <4>2. Answered(slot[c])
        BY <4>1, Assumptions DEF Acked
      <4> QED
        BY <3>2, <4>1, <4>2, ConsumedAnswered DEF AnswerPing, IgnorePong
    <3>3. CASE SendPing(c) \/ ConnectFailed(c) \/ Retry(c) \/ ClientLoses(c)
               \/ ForwardFailed(c)
      <4>1. UNCHANGED <<slot, toClient, link>> /\ (client'[c] = "online" => client[c] = "online")
        BY <3>3 DEF SendPing, ConnectFailed, Retry, ClientLoses, ForwardFailed,
                    AfterFailure, TypeOK
      <4>2. Trusts(c)
        BY <2>4, <4>1 DEF Trusts
      <4>3. Answered(slot[c])
        BY <4>2 DEF Acked, Trusts
      <4> QED
        BY <2>1, <4>1, <4>3 DEF Answered, Registered, Told
    <3>4. CASE Rejected(c) \/ Leave(c) \/ ContextFailed(c)
      <4>1. slot'[c] = Nobody
        BY <3>4 DEF Rejected, Leave, ContextFailed, Hangup, TypeOK
      <4> QED
        BY <2>4, <4>1 DEF Trusts
    <3> QED
      BY <1>2, <3>1, <3>2, <3>3, <3>4, Zenon DEF RunClient
  <2> QED
    BY <2>1, <2>2, <2>3, <2>4, AckedAtClient
<1> QED
  BY <1>1, <1>2

LEMMA CutLinkAcked ==
    ASSUME TypeOK, Acked, NEW k \in Slot, CutLink(k)
    PROVE  Acked'
<1>1. UNCHANGED <<client, slot, handler>> /\ link' = [link EXCEPT ![k] = "dead"]
  BY DEF CutLink
<1>2. \/ toClient' = toClient
      \/ toClient' = [toClient EXCEPT ![k] = <<>>]
  BY DEF CutLink
<1> SUFFICES ASSUME NEW c \in Client, Trusts(c)'
             PROVE  Answered(slot[c])'
  BY <1>1 DEF Acked, Trusts
<1>3. Trusts(c) /\ slot[c] \in Slot /\ slot'[c] = slot[c]
  <2>1. slot'[c] = slot[c] /\ client'[c] = client[c] /\ slot[c] \in Slot
        /\ slot[c] # Nobody
    BY <1>1 DEF Trusts, TypeOK
  <2>2. toClient'[slot[c]] = toClient[slot[c]] \/ toClient'[slot[c]] = <<>>
    BY <1>2, <2>1 DEF TypeOK
  <2>3. Has(toClient'[slot[c]], "HelloAck") => Has(toClient[slot[c]], "HelloAck")
    BY <2>2, HasNone
  <2> QED
    BY <2>1, <2>3 DEF Trusts
<1>4. Answered(slot[c])
  BY <1>3 DEF Acked, Trusts
<1>5. CASE slot[c] = k
  BY <1>1, <1>4, <1>5 DEF Answered, Registered, TypeOK
<1>6. CASE slot[c] # k
  <2>1. toClient'[slot[c]] = toClient[slot[c]] /\ link'[slot[c]] = link[slot[c]]
    BY <1>1, <1>2, <1>3, <1>6 DEF TypeOK
  <2> QED
    BY <1>1, <1>4, <2>1 DEF Answered, Registered, Told
<1> QED
  BY <1>5, <1>6

-----------------------------------------------------------------------------
(* The theorems. *)

LEMMA InitInv == Init => IInv
<1> SUFFICES ASSUME Init PROVE IInv
  OBVIOUS
<1>1. TypeOK
  BY Assumptions DEF Init, TypeOK
<1>2. Connected /\ Names /\ Acked
  BY Assumptions DEF Init, Connected, Names, Acked, Registered
<1> QED
  BY <1>1, <1>2 DEF IInv

LEMMA NextInv == IInv /\ [Next]_vars => IInv'
<1> SUFFICES ASSUME IInv, [Next]_vars PROVE IInv'
  OBVIOUS
<1>1. TypeOK /\ Connected /\ Names /\ Acked
  BY DEF IInv
<1>2. TypeOK' /\ Connected' /\ Names'
  BY <1>1, NextType, NextConnected, NextNames
<1>3. Acked'
  <2>1. CASE UNCHANGED vars
    BY <1>1, <2>1 DEF vars, network, Acked, Answered, Registered, Told
  <2>2. CASE Next
    BY <1>1, <2>2, ServeAcked, ClientAcked, CutLinkAcked DEF Next
  <2> QED
    BY <2>1, <2>2
<1> QED
  BY <1>2, <1>3 DEF IInv

\* The invariant holds: clients own their connections, mSessions and the handlers
\* agree, and no HelloAck is wrong.
THEOREM Invariant == Spec => []IInv
BY InitInv, NextInv, PTL DEF Spec

\* Every variable keeps its type.
THEOREM TypeCorrect == Spec => []TypeOK
<1>1. IInv => TypeOK
  BY DEF IInv
<1> QED
  BY <1>1, Invariant, PTL

\* A client that believes itself registered is registered, or its session has ended
\* and the server has told it so as far as the link allows (runOnce, handleSession).
THEOREM AckStaysTrue == Spec => []AckMeansRegistered
<1>1. IInv => AckMeansRegistered
  <2> SUFFICES ASSUME IInv, NEW c \in Client, client[c] = "online"
               PROVE  \/ Registered(slot[c]) /\ mSessions[NameOf[c]] = slot[c]
                      \/ /\ handler[slot[c]] = "free"
                         /\ link[slot[c]] = "dead" \/ Told(slot[c])
    BY DEF AckMeansRegistered
  <2>1. slot[c] \in Slot /\ slot[c] # Nobody /\ NameOn(slot[c]) = NameOf[c]
    BY SlotOf, Assumptions DEF IInv, NameOn
  <2>2. Answered(slot[c])
    BY <2>1 DEF IInv, Acked
  <2>3. Registered(slot[c]) => mSessions[NameOf[c]] = slot[c]
    BY <2>1 DEF IInv, Names
  <2> QED
    BY <2>2, <2>3 DEF Answered
<1> QED
  BY <1>1, Invariant, PTL

\* The sessions implement the registry: mSessions.emplace and the ScopeExit of
\* handleSession keep a name with one session from before it is served to after.
THEOREM RegistryImplemented == Spec => RegistrySafe
<1>1. IInv /\ [Next]_vars => [Registry!Next]_(Registry!vars)
  BY NextRegistry DEF IInv
<1> QED
  BY <1>1, RegistryInit, Invariant, PTL DEF Spec, RegistrySafe, Registry!Spec

-----------------------------------------------------------------------------
(* The pings: how many Pings and Pongs of a session are about. *)

LEMMA CountIs ==
    ASSUME NEW q \in Seq(Message), NEW m
    PROVE  /\ IsFiniteSet({j \in 1 .. Len(q) : q[j] = m})
           /\ Count(q, m) \in Nat
<1>1. IsFiniteSet(1 .. Len(q))
  BY FS_Interval
<1>2. IsFiniteSet({j \in 1 .. Len(q) : q[j] = m})
  BY <1>1, FS_Subset
<1> QED
  BY <1>2, FS_CardinalityType DEF Count

LEMMA CountNone == ASSUME NEW m PROVE Count(<<>>, m) = 0
<1>1. {j \in 1 .. Len(<<>>) : <<>>[j] = m} = {}
  OBVIOUS
<1> QED
  BY <1>1, FS_EmptySet DEF Count

LEMMA CountAppend ==
    ASSUME NEW q \in Seq(Message), NEW x \in Message, NEW m
    PROVE  Count(Append(q, x), m) = Count(q, m) + (IF x = m THEN 1 ELSE 0)
<1>1. PICK r : r = Append(q, x)
  OBVIOUS
<1>2. PICK n \in Nat : n = Len(q)
  OBVIOUS
<1>3. PICK S, T : S = {j \in 1 .. n : q[j] = m} /\ T = {j \in 1 .. n + 1 : r[j] = m}
  OBVIOUS
<1>4. Len(r) = n + 1 /\ r[n + 1] = x /\ \A j \in 1 .. n : r[j] = q[j]
  <2>1. Len(Append(q, x)) = Len(q) + 1 /\ Append(q, x)[Len(q) + 1] = x
    OBVIOUS
  <2>2. \A j \in 1 .. Len(q) : Append(q, x)[j] = q[j]
    OBVIOUS
  <2> QED
    BY <1>1, <1>2, <2>1, <2>2
<1>5. IsFiniteSet(S) /\ Cardinality(S) \in Nat /\ Cardinality(S) = Count(q, m)
  BY <1>2, <1>3, CountIs DEF Count
<1>6. Cardinality(T) = Count(r, m)
  BY <1>3, <1>4 DEF Count
<1>7. n + 1 \notin S
  BY <1>3
<1>8. \A j : j \in 1 .. n + 1 <=> j \in 1 .. n \/ j = n + 1
  OBVIOUS
<1>9. CASE x = m
  <2>1. T = S \cup {n + 1}
    BY <1>3, <1>4, <1>8, <1>9
  <2>2. Cardinality(T) = Cardinality(S) + 1
    BY <1>5, <1>7, <2>1, FS_AddElement
  <2> QED
    BY <1>1, <1>5, <1>6, <1>9, <2>2
<1>10. CASE x # m
  <2>1. T = S
    BY <1>3, <1>4, <1>8, <1>10
  <2> QED
    BY <1>1, <1>5, <1>6, <1>10, <2>1
<1> QED
  BY <1>9, <1>10

LEMMA CountTail ==
    ASSUME NEW q \in Seq(Message), q # <<>>, NEW m
    PROVE  /\ Tail(q) \in Seq(Message)
           /\ Count(q, m) = Count(Tail(q), m) + (IF Head(q) = m THEN 1 ELSE 0)
<1>1. PICK r : r = Tail(q)
  OBVIOUS
<1>0. r \in Seq(Message)
  <2>1. Tail(q) \in Seq(Message)
    OBVIOUS
  <2> QED
    BY <1>1, <2>1
<1>2. PICK n \in Nat : n = Len(r)
  BY <1>0
<1>3. Len(q) = n + 1 /\ \A j \in 1 .. n : r[j] = q[j + 1]
  BY <1>1, <1>2
<1>4. PICK S, T : S = {j \in 1 .. n : r[j] = m} /\ T = {j \in 1 .. n + 1 : q[j] = m}
  OBVIOUS
<1>5. /\ IsFiniteSet(S) /\ Cardinality(S) = Count(r, m) /\ Count(r, m) \in Nat
      /\ IsFiniteSet(T) /\ Cardinality(T) = Count(q, m) /\ Count(q, m) \in Nat
  BY <1>0, <1>2, <1>3, <1>4, CountIs DEF Count
<1>6. Cardinality(T \ {1}) = Cardinality(S)
  <2>1. PICK f : f = [j \in S |-> j + 1]
    OBVIOUS
  <2>2. \A j \in S : f[j] = j + 1 /\ j \in Nat /\ j + 1 \in T \ {1}
    BY <1>3, <1>4, <2>1
  <2>3. \A k \in T \ {1} : k - 1 \in S /\ k = f[k - 1]
    <3> SUFFICES ASSUME NEW k \in T \ {1}
                 PROVE  k - 1 \in S /\ k = f[k - 1]
      OBVIOUS
    <3>1. k \in 1 .. n + 1 /\ q[k] = m /\ k # 1
      BY <1>4
    <3>2. k - 1 \in 1 .. n /\ (k - 1) + 1 = k
      BY <3>1
    <3>3. r[k - 1] = m
      BY <1>3, <3>1, <3>2
    <3> QED
      BY <1>4, <2>1, <3>2, <3>3
  <2>4. f \in [S -> T \ {1}]
    BY <2>1, <2>2
  <2>5. \A i, j \in S : f[i] = f[j] => i = j
    BY <2>2
  <2>6. f \in Injection(S, T \ {1})
    BY <2>4, <2>5 DEF Injection, IsInjective
  <2>7. f \in Surjection(S, T \ {1})
    BY <2>3, <2>4 DEF Surjection
  <2>8. f \in Bijection(S, T \ {1})
    BY <2>6, <2>7 DEF Bijection
  <2>9. ExistsBijection(S, T \ {1})
    BY <2>8 DEF ExistsBijection
  <2> QED
    BY <1>5, <2>9, FS_Bijection
<1>7. Cardinality(T \ {1}) = IF 1 \in T THEN Cardinality(T) - 1 ELSE Cardinality(T)
  BY <1>5, FS_RemoveElement
<1>8. 1 \in T <=> Head(q) = m
  BY <1>2, <1>3, <1>4
<1> QED
  BY <1>0, <1>1, <1>5, <1>6, <1>7, <1>8
\* What a step may do to a queue without adding an m.
Shrunk(q, r, m) ==
    \/ r = q
    \/ r = <<>>
    \/ q # <<>> /\ r = Tail(q)
    \/ \E x \in Message \ {m} : r = Append(q, x)

LEMMA ShrunkCount ==
    ASSUME NEW q \in Seq(Message), NEW r, NEW m, Shrunk(q, r, m)
    PROVE  Count(r, m) \in Nat /\ Count(q, m) \in Nat /\ Count(r, m) <= Count(q, m)
<1>1. Count(q, m) \in Nat
  BY CountIs
<1>2. CASE r = q
  BY <1>1, <1>2
<1>3. CASE r = <<>>
  BY <1>1, <1>3, CountNone
<1>4. CASE q # <<>> /\ r = Tail(q)
  <2>1. r \in Seq(Message) /\ Count(q, m) = Count(r, m) + (IF Head(q) = m THEN 1 ELSE 0)
    BY <1>4, CountTail
  <2>2. Count(r, m) \in Nat
    BY <2>1, CountIs
  <2> QED
    BY <1>1, <2>1, <2>2
<1>5. ASSUME NEW x \in Message \ {m}, r = Append(q, x)
      PROVE  Count(r, m) = Count(q, m)
  BY <1>1, <1>5, CountAppend
<1> QED
  BY <1>1, <1>2, <1>3, <1>4, <1>5 DEF Shrunk

\* The Pings and Pongs of the session k that are about.
PingSum(k) ==
    Count(toClient[k], "Ping") + Count(toServer[k], "Pong")
        + (IF mPongArrive[k] THEN 1 ELSE 0)

PingOK(k) ==
    /\ handler[k] = "running" => PingSum(k) <= IF waiting[k] THEN 1 ELSE 0
    /\ handler[k] \in {"hello", "acking", "rejecting"} => PingSum(k) = 0
    /\ handler[k] = "free" => ~ mPongArrive[k]

PingInv == \A k \in Slot : PingOK(k)

LEMMA PingSumIs ==
    ASSUME TypeOK, NEW k \in Slot
    PROVE  /\ toClient[k] \in Seq(Message) /\ toServer[k] \in Seq(Message)
           /\ Count(toClient[k], "Ping") \in Nat /\ Count(toServer[k], "Pong") \in Nat
           /\ PingSum(k) \in Nat
           /\ PingSum(k) = 0 <=> /\ Count(toClient[k], "Ping") = 0
                                 /\ Count(toServer[k], "Pong") = 0
                                 /\ ~ mPongArrive[k]
<1>1. toClient[k] \in Seq(Message) /\ toServer[k] \in Seq(Message)
  BY DEF TypeOK
<1>2. Count(toClient[k], "Ping") \in Nat /\ Count(toServer[k], "Pong") \in Nat
  BY <1>1, CountIs
<1>3. PICK a \in Nat, b \in Nat :
          a = Count(toClient[k], "Ping") /\ b = Count(toServer[k], "Pong")
  BY <1>2
<1>4. PICK p \in {0, 1} : p = IF mPongArrive[k] THEN 1 ELSE 0
  OBVIOUS
<1>5. PingSum(k) = a + b + p
  BY <1>3, <1>4 DEF PingSum
<1>6. PingSum(k) \in Nat
  BY <1>5
<1>7. PingSum(k) = 0 <=> a = 0 /\ b = 0 /\ p = 0
  BY <1>5
<1>8. p = 0 <=> ~ mPongArrive[k]
  BY <1>4
<1> QED
  BY <1>1, <1>2, <1>3, <1>6, <1>7, <1>8

\* The slot k is not touched, or only loses and gets messages of no matter.
LEMMA PingKept ==
    ASSUME TypeOK, NEW k \in Slot, PingOK(k), handler'[k] = handler[k],
           waiting'[k] = waiting[k], mPongArrive'[k] = mPongArrive[k],
           Shrunk(toClient[k], toClient'[k], "Ping"),
           Shrunk(toServer[k], toServer'[k], "Pong")
    PROVE  PingOK(k)'
<1>1. /\ Count(toClient'[k], "Ping") \in Nat
      /\ Count(toClient'[k], "Ping") <= Count(toClient[k], "Ping")
  BY PingSumIs, ShrunkCount
<1>2. /\ Count(toServer'[k], "Pong") \in Nat
      /\ Count(toServer'[k], "Pong") <= Count(toServer[k], "Pong")
  BY PingSumIs, ShrunkCount
<1>3. PingSum(k)' \in Nat /\ PingSum(k)' <= PingSum(k)
  BY <1>1, <1>2, PingSumIs DEF PingSum
<1>4. PingSum(k) \in Nat
  BY PingSumIs
<1> QED
  BY <1>3, <1>4 DEF PingOK

LEMMA SentToClient ==
    ASSUME TypeOK, NEW k \in Slot, NEW m \in Message, ToClient(k, m)
    PROVE  /\ toClient'[k] = toClient[k] \/ toClient'[k] = Append(toClient[k], m)
           /\ \A x : x # m => Shrunk(toClient[k], toClient'[k], x)
<1>1. toClient'[k] = toClient[k] \/ toClient'[k] = Append(toClient[k], m)
  BY DEF ToClient, TypeOK
<1> QED
  BY <1>1 DEF Shrunk

LEMMA SentToServer ==
    ASSUME TypeOK, NEW k \in Slot, NEW m \in Message, ToServer(k, m)
    PROVE  /\ toServer'[k] = toServer[k] \/ toServer'[k] = Append(toServer[k], m)
           /\ \A x : x # m => Shrunk(toServer[k], toServer'[k], x)
           /\ \A j \in Slot \ {k} : toServer'[j] = toServer[j]
<1>1. toServer'[k] = toServer[k] \/ toServer'[k] = Append(toServer[k], m)
  BY DEF ToServer, TypeOK
<1>2. \A j \in Slot \ {k} : toServer'[j] = toServer[j]
  BY DEF ToServer, TypeOK
<1> QED
  BY <1>1, <1>2 DEF Shrunk

-----------------------------------------------------------------------------
(* The steps of the clients and the link. *)

LEMMA HangupPings ==
    ASSUME TypeOK, PingInv, NEW k \in Slot, ClientCloses(k),
           UNCHANGED <<handler, waiting, mPongArrive>>
    PROVE  PingInv'
<1>0. "Eof" \in Message
  BY DEF Message
<1>1. toClient' = [toClient EXCEPT ![k] = <<>>] /\ ToServer(k, "Eof")
  BY DEF ClientCloses
<1>2. ASSUME NEW j \in Slot
      PROVE  PingOK(j)'
  <2>1. Shrunk(toClient[j], toClient'[j], "Ping")
    BY <1>1 DEF Shrunk, TypeOK
  <2>2. Shrunk(toServer[j], toServer'[j], "Pong")
    BY <1>0, <1>1, SentToServer DEF Shrunk
  <2> QED
    BY <2>1, <2>2, PingKept DEF PingInv
<1> QED
  BY <1>2 DEF PingInv

\* A client that has read its Ping puts a Pong in its place, or nothing.
LEMMA AnswerPings ==
    ASSUME TypeOK, PingInv, NEW k \in Slot, AtClient(k, "Ping"),
           toClient' = [toClient EXCEPT ![k] = Tail(@)], ToServer(k, "Pong"),
           UNCHANGED <<handler, waiting, mPongArrive>>
    PROVE  PingInv'
<1>0. "Pong" \in Message
  BY DEF Message
<1>1. ASSUME NEW j \in Slot, j # k
      PROVE  PingOK(j)'
  <2>1. toClient'[j] = toClient[j] /\ toServer'[j] = toServer[j]
    BY <1>0, <1>1, SentToServer DEF TypeOK
  <2> QED
    BY <2>1, PingKept DEF PingInv, Shrunk
<1>2. PingOK(k)'
  <2>1. /\ toClient[k] # <<>> /\ Head(toClient[k]) = "Ping"
        /\ toClient'[k] = Tail(toClient[k])
    BY DEF AtClient, TypeOK
  <2>2. /\ Tail(toClient[k]) \in Seq(Message)
        /\ Count(toClient[k], "Ping") = Count(Tail(toClient[k]), "Ping") + 1
    BY <2>1, PingSumIs, CountTail
  <2>3. /\ Count(toClient'[k], "Ping") \in Nat
        /\ Count(toClient[k], "Ping") = Count(toClient'[k], "Ping") + 1
    BY <2>1, <2>2, CountIs
  <2>4. /\ Count(toServer'[k], "Pong") \in Nat
        /\ Count(toServer'[k], "Pong") <= Count(toServer[k], "Pong") + 1
    <3>1. Count(Append(toServer[k], "Pong"), "Pong") = Count(toServer[k], "Pong") + 1
      BY <1>0, PingSumIs, CountAppend
    <3>2. toServer'[k] = toServer[k] \/ toServer'[k] = Append(toServer[k], "Pong")
      BY <1>0, SentToServer
    <3>3. PICK a \in Nat : a = Count(toServer[k], "Pong")
      BY PingSumIs
    <3>4. Count(toServer'[k], "Pong") = a \/ Count(toServer'[k], "Pong") = a + 1
      BY <3>1, <3>2, <3>3
    <3> QED
      BY <3>3, <3>4
  <2>5. PingSum(k)' \in Nat /\ PingSum(k)' <= PingSum(k)
    BY <2>3, <2>4, PingSumIs DEF PingSum
  <2>6. PingSum(k) \in Nat /\ PingOK(k)
    BY PingSumIs DEF PingInv
  <2> QED
    BY <2>5, <2>6 DEF PingOK
<1> QED
  BY <1>1, <1>2 DEF PingInv

\* A new connection finds a slot without a Pong.
LEMMA ConnectPings ==
    ASSUME TypeOK, PingInv, NEW c \in Client, Connect(c)
    PROVE  PingInv'
<1>1. PICK k \in Slot : /\ Unused(k)
                        /\ toServer' = [toServer EXCEPT ![k] = <<"Hello">>]
                        /\ toClient' = [toClient EXCEPT ![k] = <<>>]
                        /\ handler' = [handler EXCEPT ![k] = "hello"]
  BY DEF Connect
<1>2. UNCHANGED <<waiting, mPongArrive>>
  BY DEF Connect, pings
<1>3. ASSUME NEW j \in Slot, j # k
      PROVE  PingOK(j)'
  <2>1. toClient'[j] = toClient[j] /\ toServer'[j] = toServer[j] /\ handler'[j] = handler[j]
    BY <1>1, <1>3 DEF TypeOK
  <2> QED
    BY <1>2, <2>1, PingKept DEF PingInv, Shrunk
<1>4. PingOK(k)'
  <2>1. ~ mPongArrive'[k]
    BY <1>1, <1>2 DEF Unused, HasServer, PingInv, PingOK
  <2>2. /\ toClient'[k] = <<>> /\ toServer'[k] = Append(<<>>, "Hello")
        /\ handler'[k] = "hello"
    BY <1>1 DEF TypeOK
  <2>3. Count(Append(<<>>, "Hello"), "Pong") = 0
    <3>1. "Hello" \in Message /\ <<>> \in Seq(Message)
      BY DEF Message
    <3>2. Count(<<>>, "Pong") = 0
      BY CountNone
    <3>3. Count(Append(<<>>, "Hello"), "Pong")
              = Count(<<>>, "Pong") + (IF "Hello" = "Pong" THEN 1 ELSE 0)
      BY <3>1, CountAppend, Zenon
    <3> QED
      BY <3>2, <3>3
  <2>4. PingSum(k)' = 0
    BY <2>1, <2>2, <2>3, CountNone DEF PingSum
  <2> QED
    BY <2>2, <2>4 DEF PingOK
<1> QED
  BY <1>3, <1>4 DEF PingInv

LEMMA ClientPings ==
    ASSUME TypeOK, Connected, PingInv, NEW c \in Client, RunClient(c)
    PROVE  PingInv'
<1> USE DEF connection, network, pings
<1>1. CASE Connect(c)
  BY <1>1, ConnectPings
<1>2. CASE OnHelloAck(c) \/ IgnorePong(c)
  <2>1. /\ slot[c] \in Slot /\ toClient[slot[c]] # <<>>
        /\ toClient' = [toClient EXCEPT ![slot[c]] = Tail(@)]
        /\ UNCHANGED <<toServer, handler, waiting, mPongArrive>>
    BY <1>2, SlotOf DEF OnHelloAck, IgnorePong, AtClient
  <2>2. \A k \in Slot : Shrunk(toClient[k], toClient'[k], "Ping")
    BY <2>1 DEF Shrunk, TypeOK
  <2> QED
    BY <2>1, <2>2, PingKept DEF PingInv, Shrunk
<1>3. CASE AnswerPing(c)
  BY <1>3, SlotOf, AnswerPings DEF AnswerPing
<1>4. CASE SendPing(c)
  <2>1. /\ slot[c] \in Slot /\ ToServer(slot[c], "Ping") /\ "Ping" \in Message
        /\ UNCHANGED <<toClient, handler, waiting, mPongArrive>>
    BY <1>4, SlotOf DEF SendPing, Message
  <2>2. \A k \in Slot : Shrunk(toServer[k], toServer'[k], "Pong")
    BY <2>1, SentToServer DEF Shrunk
  <2> QED
    BY <2>1, <2>2, PingKept DEF PingInv, Shrunk
<1>5. CASE Rejected(c) \/ Leave(c)
  <2>1. /\ slot[c] \in Slot /\ ClientCloses(slot[c])
        /\ UNCHANGED <<handler, waiting, mPongArrive>>
    BY <1>5, SlotOf DEF Rejected, Leave, Hangup
  <2> QED
    BY <2>1, HangupPings
<1>6. CASE ConnectFailed(c) \/ ClientLoses(c) \/ ForwardFailed(c) \/ Retry(c)
  <2>1. UNCHANGED <<toClient, toServer, handler, waiting, mPongArrive>>
    BY <1>6 DEF ConnectFailed, ClientLoses, ForwardFailed, Retry
  <2> QED
    BY <2>1, PingKept DEF PingInv, Shrunk
<1>7. CASE ContextFailed(c)
  <2>1. UNCHANGED <<handler, waiting, mPongArrive>>
    BY <1>7 DEF ContextFailed
  <2>2. CASE slot[c] = Nobody
    <3>1. UNCHANGED <<toClient, toServer>>
      BY <1>7, <2>2 DEF ContextFailed
    <3> QED
      BY <2>1, <3>1, PingKept DEF PingInv, Shrunk
  <2>3. CASE slot[c] # Nobody /\ kind[slot[c]] = "tcp"
    BY <1>7, <2>1, <2>3, SlotOf, HangupPings DEF ContextFailed, Hangup
  <2>4. CASE slot[c] # Nobody /\ kind[slot[c]] # "tcp"
    <3>1. toClient' = [toClient EXCEPT ![slot[c]] = <<>>] /\ UNCHANGED toServer
      BY <1>7, <2>4 DEF ContextFailed
    <3>2. \A k \in Slot : Shrunk(toClient[k], toClient'[k], "Ping")
      BY <3>1 DEF Shrunk, TypeOK
    <3> QED
      BY <2>1, <3>1, <3>2, PingKept DEF PingInv, Shrunk
  <2> QED
    BY <2>2, <2>3, <2>4
<1> QED
  BY <1>1, <1>2, <1>3, <1>4, <1>5, <1>6, <1>7, Zenon DEF RunClient

LEMMA CutLinkPings ==
    ASSUME TypeOK, PingInv, NEW k \in Slot, CutLink(k)
    PROVE  PingInv'
<1>1. UNCHANGED <<handler, waiting, mPongArrive>>
  BY DEF CutLink, pings
<1>2. toClient' = toClient \/ toClient' = [toClient EXCEPT ![k] = <<>>]
  BY DEF CutLink
<1>3. toServer' = toServer \/ toServer' = [toServer EXCEPT ![k] = <<>>]
  BY DEF CutLink
<1>4. \A j \in Slot : Shrunk(toClient[j], toClient'[j], "Ping")
  BY <1>2 DEF Shrunk, TypeOK
<1>5. \A j \in Slot : Shrunk(toServer[j], toServer'[j], "Pong")
  BY <1>3 DEF Shrunk, TypeOK
<1> QED
  BY <1>1, <1>4, <1>5, PingKept DEF PingInv

-----------------------------------------------------------------------------
(* The steps of the server. *)

\* A step of the handler of k leaves the other slots alone.
LEMMA PingElsewhere ==
    ASSUME TypeOK, PingInv, NEW k \in Slot, Serve(k)
    PROVE  \A j \in Slot \ {k} : PingOK(j)'
<1>1. \A j \in Slot \ {k} : /\ handler'[j] = handler[j]
                            /\ waiting'[j] = waiting[j]
                            /\ mPongArrive'[j] = mPongArrive[j]
  <2>1. CASE OnHello(k) \/ OnPing(k)
    BY <2>1 DEF OnHello, OnPing, pings, TypeOK
  <2>2. CASE StartWorkers(k) \/ PingAgain(k)
    BY <2>2 DEF StartWorkers, PingAgain, TypeOK
  <2>3. CASE OnPong(k) \/ PongArrived(k) \/ PongTimeout(k)
    BY <2>3 DEF OnPong, PongArrived, PongTimeout, pings, TypeOK
  <2>4. CASE ServerLoses(k)
    BY <2>4 DEF ServerLoses, pings, TypeOK
  <2>5. CASE EndSession(k)
    BY <2>5 DEF EndSession, TypeOK
  <2> QED
    BY <2>1, <2>2, <2>3, <2>4, <2>5, Zenon DEF Serve
<1>2. \A j \in Slot \ {k} : toClient'[j] = toClient[j]
  <2>1. CASE OnHello(k)
    BY <2>1, SentElsewhere DEF OnHello
  <2>2. CASE StartWorkers(k) \/ OnPing(k) \/ PingAgain(k)
    BY <2>2, SentElsewhere DEF StartWorkers, OnPing, PingAgain
  <2>3. CASE OnPong(k) \/ PongArrived(k) \/ PongTimeout(k)
    BY <2>3 DEF OnPong, PongArrived, PongTimeout, network
  <2>4. CASE ServerLoses(k) \/ EndSession(k)
    BY <2>4, SentElsewhere DEF ServerLoses, EndSession, ServerCloses
  <2> QED
    BY <2>1, <2>2, <2>3, <2>4, Zenon DEF Serve
<1>3. \A j \in Slot \ {k} : toServer'[j] = toServer[j]
  <2>1. CASE OnHello(k) \/ OnPing(k) \/ OnPong(k)
    BY <2>1 DEF OnHello, OnPing, OnPong, TypeOK
  <2>2. CASE StartWorkers(k) \/ PingAgain(k) \/ PongArrived(k) \/ PongTimeout(k)
    BY <2>2 DEF StartWorkers, PingAgain, PongArrived, PongTimeout, network
  <2>3. CASE ServerLoses(k) \/ EndSession(k)
    BY <2>3 DEF ServerLoses, EndSession, ServerCloses, TypeOK
  <2> QED
    BY <2>1, <2>2, <2>3, Zenon DEF Serve
<1> QED
  BY <1>1, <1>2, <1>3, PingKept DEF PingInv, Shrunk

\* The slot of a handler that is not running holds no more than nothing.
LEMMA StillNone ==
    ASSUME TypeOK, NEW k \in Slot, PingSum(k) = 0, mPongArrive'[k] = mPongArrive[k],
           Shrunk(toClient[k], toClient'[k], "Ping"),
           Shrunk(toServer[k], toServer'[k], "Pong")
    PROVE  PingSum(k)' = 0
<1>1. Count(toClient'[k], "Ping") = 0
  <2>1. /\ Count(toClient'[k], "Ping") \in Nat
        /\ Count(toClient'[k], "Ping") <= Count(toClient[k], "Ping")
    BY PingSumIs, ShrunkCount
  <2> QED
    BY <2>1, PingSumIs
<1>2. Count(toServer'[k], "Pong") = 0
  <2>1. /\ Count(toServer'[k], "Pong") \in Nat
        /\ Count(toServer'[k], "Pong") <= Count(toServer[k], "Pong")
    BY PingSumIs, ShrunkCount
  <2> QED
    BY <2>1, PingSumIs
<1>3. ~ mPongArrive'[k]
  BY PingSumIs
<1> QED
  BY <1>1, <1>2, <1>3 DEF PingSum

\* A Ping is sent where nothing is about.
LEMMA FirstPing ==
    ASSUME TypeOK, NEW k \in Slot, PingSum(k) = 0, ToClient(k, "Ping"),
           toServer' = toServer, mPongArrive' = mPongArrive,
           waiting' = [waiting EXCEPT ![k] = TRUE], handler'[k] = "running"
    PROVE  PingOK(k)'
<1>0. "Ping" \in Message
  BY DEF Message
<1>1. waiting'[k]
  BY DEF TypeOK
<1>2. Count(toClient'[k], "Ping") = 0 \/ Count(toClient'[k], "Ping") = 1
  <2>1. toClient'[k] = toClient[k] \/ toClient'[k] = Append(toClient[k], "Ping")
    BY <1>0, SentToClient
  <2>2. Count(toClient[k], "Ping") = 0
    BY PingSumIs
  <2>3. Count(Append(toClient[k], "Ping"), "Ping") = Count(toClient[k], "Ping") + 1
    BY <1>0, PingSumIs, CountAppend
  <2>4. Count(Append(toClient[k], "Ping"), "Ping") = 1
    BY <2>2, <2>3
  <2>5. CASE toClient'[k] = toClient[k]
    BY <2>2, <2>5
  <2>6. CASE toClient'[k] = Append(toClient[k], "Ping")
    BY <2>4, <2>6
  <2> QED
    BY <2>1, <2>5, <2>6
<1>3. Count(toServer'[k], "Pong") = 0 /\ ~ mPongArrive'[k]
  BY PingSumIs
<1>4. PingSum(k)' = 0 \/ PingSum(k)' = 1
  BY <1>2, <1>3 DEF PingSum
<1> QED
  BY <1>1, <1>4 DEF PingOK

LEMMA OnHelloPing ==
    ASSUME TypeOK, NEW k \in Slot, PingOK(k), OnHello(k)
    PROVE  PingOK(k)'
<1>1. PingSum(k) = 0
  BY DEF PingOK, OnHello
<1>2. \E m \in {"HelloAck", "FatalError"} : ToClient(k, m)
  BY DEF OnHello
<1>3. Shrunk(toClient[k], toClient'[k], "Ping")
  <2>1. {"HelloAck", "FatalError"} \subseteq Message /\ "Ping" \notin {"HelloAck", "FatalError"}
    BY DEF Message
  <2> QED
    BY <1>2, <2>1, SentToClient
<1>4. Shrunk(toServer[k], toServer'[k], "Pong")
  BY DEF OnHello, AtServer, Shrunk, TypeOK
<1>5. PingSum(k)' = 0
  <2>1. mPongArrive' = mPongArrive
    BY DEF OnHello, pings
  <2> QED
    BY <1>1, <1>3, <1>4, <2>1, StillNone
<1>6. handler'[k] \in {"rejecting", "acking"}
  BY DEF OnHello, TypeOK
<1> QED
  BY <1>5, <1>6 DEF PingOK

LEMMA OnPongPing ==
    ASSUME TypeOK, NEW k \in Slot, PingOK(k), OnPong(k)
    PROVE  PingOK(k)'
<1>1. handler[k] = "running" /\ handler'[k] = "running" /\ waiting'[k] = waiting[k]
      /\ mPongArrive'[k]
  BY DEF OnPong, TypeOK
<1>2. PICK w \in {0, 1} : w = IF waiting[k] THEN 1 ELSE 0
  OBVIOUS
<1>3. PICK p \in {0, 1} : p = IF mPongArrive[k] THEN 1 ELSE 0
  OBVIOUS
<1>4. PICK a \in Nat : a = Count(toClient[k], "Ping")
  BY PingSumIs
<1>5. PICK b \in Nat : b = Count(toServer[k], "Pong")
  BY PingSumIs
<1>6. a + b + p <= w
  BY <1>1, <1>2, <1>3, <1>4, <1>5 DEF PingOK, PingSum
<1>7. Count(toClient'[k], "Ping") = a
  BY <1>4 DEF OnPong
<1>8. Count(toServer'[k], "Pong") \in Nat /\ b = Count(toServer'[k], "Pong") + 1
  <2>1. /\ toServer[k] # <<>> /\ Head(toServer[k]) = "Pong"
        /\ toServer'[k] = Tail(toServer[k])
    BY DEF OnPong, AtServer, TypeOK
  <2>2. /\ Tail(toServer[k]) \in Seq(Message)
        /\ Count(toServer[k], "Pong") = Count(Tail(toServer[k]), "Pong") + 1
    BY <2>1, PingSumIs, CountTail
  <2>3. Count(Tail(toServer[k]), "Pong") \in Nat
    BY <2>2, CountIs
  <2> QED
    BY <1>5, <2>1, <2>2, <2>3
<1>9. PICK d \in Nat : d = Count(toServer'[k], "Pong")
  BY <1>8
<1>10. a + d + 1 <= w
  BY <1>6, <1>8, <1>9
<1>11. PingSum(k)' = a + d + 1
  BY <1>1, <1>7, <1>9 DEF PingSum
<1>12. (IF waiting[k] THEN 1 ELSE 0)' = w
  BY <1>1, <1>2
<1> QED
  BY <1>1, <1>10, <1>11, <1>12 DEF PingOK

LEMMA PongArrivedPing ==
    ASSUME TypeOK, NEW k \in Slot, PingOK(k), PongArrived(k)
    PROVE  PingOK(k)'
<1>1. /\ handler[k] = "running" /\ handler'[k] = "running"
      /\ waiting[k] /\ mPongArrive[k] /\ ~ waiting'[k] /\ ~ mPongArrive'[k]
      /\ toClient' = toClient /\ toServer' = toServer
  BY DEF PongArrived, network, TypeOK
<1>2. PICK a \in Nat : a = Count(toClient[k], "Ping")
  BY PingSumIs
<1>3. PICK b \in Nat : b = Count(toServer[k], "Pong")
  BY PingSumIs
<1>4. a + b + 1 <= 1
  BY <1>1, <1>2, <1>3 DEF PingOK, PingSum
<1>5. a = 0 /\ b = 0
  BY <1>4
<1>6. PingSum(k)' = 0
  BY <1>1, <1>2, <1>3, <1>5 DEF PingSum
<1> QED
  BY <1>1, <1>6 DEF PingOK

\* The handler is over: draining, which promises nothing, or free without a Pong.
LEMMA LosesPing ==
    ASSUME TypeOK, NEW k \in Slot, PingOK(k), ServerLoses(k)
    PROVE  PingOK(k)'
<1>1. mPongArrive' = mPongArrive
  BY DEF ServerLoses, pings
<1>2. CASE handler[k] = "running"
  <2>1. handler'[k] = "draining"
    BY <1>2 DEF ServerLoses, TypeOK
  <2> QED
    BY <2>1 DEF PingOK
<1>3. CASE handler[k] # "running"
  <2>1. handler'[k] = "free" /\ handler[k] \in {"hello", "acking"}
    BY <1>3 DEF ServerLoses, TypeOK
  <2>2. ~ mPongArrive[k]
    BY <2>1, PingSumIs DEF PingOK
  <2> QED
    BY <1>1, <2>1, <2>2 DEF PingOK
<1> QED
  BY <1>2, <1>3

LEMMA ServePings ==
    ASSUME TypeOK, PingInv, NEW k \in Slot, Serve(k)
    PROVE  PingInv'
<1>0. PingOK(k) /\ PingSum(k) \in Nat
  BY PingSumIs DEF PingInv
<1> SUFFICES PingOK(k)'
  BY PingElsewhere DEF PingInv
<1>1. CASE OnHello(k)
  BY <1>0, <1>1, OnHelloPing
<1>2. CASE StartWorkers(k)
  <2>1. PingSum(k) = 0
    BY <1>0, <1>2 DEF PingOK, StartWorkers
  <2>2. handler'[k] = "running"
    BY <1>2 DEF StartWorkers, TypeOK
  <2> QED
    BY <1>2, <2>1, <2>2, FirstPing DEF StartWorkers
<1>3. CASE OnPing(k)
  <2>1. "Pong" \in Message
    BY DEF Message
  <2>2. Shrunk(toClient[k], toClient'[k], "Ping")
    BY <1>3, <2>1, SentToClient DEF OnPing
  <2>3. Shrunk(toServer[k], toServer'[k], "Pong")
    BY <1>3 DEF OnPing, AtServer, Shrunk, TypeOK
  <2> QED
    BY <1>0, <1>3, <2>2, <2>3, PingKept DEF OnPing, pings
<1>4. CASE OnPong(k)
  BY <1>0, <1>4, OnPongPing
<1>5. CASE PongArrived(k)
  BY <1>0, <1>5, PongArrivedPing
<1>6. CASE PingAgain(k)
  <2>1. PingSum(k) = 0
    BY <1>0, <1>6 DEF PingOK, PingAgain, PingDue
  <2>2. handler'[k] = "running"
    BY <1>6 DEF PingAgain
  <2> QED
    BY <1>6, <2>1, <2>2, FirstPing DEF PingAgain
<1>7. CASE PongTimeout(k)
  <2>1. handler'[k] = "draining"
    BY <1>7 DEF PongTimeout, TypeOK
  <2> QED
    BY <2>1 DEF PingOK
<1>8. CASE ServerLoses(k)
  BY <1>0, <1>8, LosesPing
<1>9. CASE EndSession(k)
  <2>1. handler'[k] = "free" /\ ~ mPongArrive'[k]
    BY <1>9 DEF EndSession, TypeOK
  <2> QED
    BY <2>1 DEF PingOK
<1> QED
  BY <1>1, <1>2, <1>3, <1>4, <1>5, <1>6, <1>7, <1>8, <1>9, Zenon DEF Serve

-----------------------------------------------------------------------------
\* Every Pong that reaches pingWorker answers its last Ping: what was sent for an
\* earlier one is used up before the next is sent (pingWorker and AutoClear).
THEOREM PongsAnswer == Spec => []PongAnswersPing
<1>1. Init => PingInv
  <2> SUFFICES ASSUME Init, NEW k \in Slot PROVE PingOK(k)
    BY DEF PingInv
  <2>1. handler[k] = "free" /\ ~ mPongArrive[k]
    BY DEF Init
  <2> QED
    BY <2>1 DEF PingOK
<1>2. IInv /\ PingInv /\ [Next]_vars => PingInv'
  <2> SUFFICES ASSUME TypeOK, Connected, PingInv, [Next]_vars PROVE PingInv'
    BY DEF IInv
  <2>1. CASE UNCHANGED vars
    BY <2>1, PingKept DEF vars, network, pings, PingInv, Shrunk
  <2>2. CASE Next
    BY <2>2, ServePings, CutLinkPings, ClientPings DEF Next
  <2> QED
    BY <2>1, <2>2
<1>3. PingInv => PongAnswersPing
  BY DEF PingInv, PingOK, PingSum, PongAnswersPing
<1> QED
  BY <1>1, <1>2, <1>3, Invariant, PTL DEF Spec
=============================================================================
