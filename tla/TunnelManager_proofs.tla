------------------------ MODULE TunnelManager_proofs ------------------------
(***************************************************************************)
(* The tunnels keep the order of the bytes and the bound on the buffers,   *)
(* for every window, every size of message and any number of tunnels.      *)
(***************************************************************************)
EXTENDS TunnelManager, TLAPS

-----------------------------------------------------------------------------
(* The two peers and the two ends of a tunnel. *)

LEMMA OtherPeer ==
    ASSUME NEW p \in Peer
    PROVE  /\ Other(p) \in Peer /\ Other(p) # p /\ Other(Other(p)) = p
           /\ \A q \in Peer : q = p \/ q = Other(p)
BY DEF Other, Peer

LEMMA FarEnd ==
    ASSUME NEW e \in End
    PROVE  /\ e[1] \in Peer /\ e[2] \in Id /\ e = <<e[1], e[2]>>
           /\ Far(e) \in End /\ Far(e) # e /\ Far(Far(e)) = e
           /\ Far(e)[1] = Other(e[1]) /\ Far(e)[2] = e[2]
           /\ \A f \in End : f[2] = e[2] => f = e \/ f = Far(e)
BY OtherPeer DEF End, Far, Other, Peer

-----------------------------------------------------------------------------
(* Queues whose messages of one kind span consecutive offsets. *)

LEMMA TailShorter ==
    ASSUME NEW X, NEW s \in Seq(X), s # <<>>
    PROVE  /\ s # Tail(s)
           /\ \A m \in X : Append(s, m) # Tail(s)
<1>1. Len(s) \in Nat
  OBVIOUS
<1>2. Len(Tail(s)) = Len(s) - 1
  OBVIOUS
<1>3. \A m \in X : Len(Append(s, m)) = Len(s) + 1
  OBVIOUS
<1>4. Len(Tail(s)) # Len(s) /\ \A m \in X : Len(Append(s, m)) # Len(Tail(s))
  <2>1. Len(s) - 1 # Len(s) /\ Len(s) + 1 # Len(s) - 1
    BY <1>1
  <2> QED
    BY <1>2, <1>3, <2>1, Zenon
<1> QED
  BY <1>4, Zenon

LEMMA EmptyLength == ASSUME NEW X, NEW s \in Seq(X) PROVE s = <<>> <=> Len(s) = 0
OBVIOUS

LEMMA TailLast ==
    ASSUME NEW X, NEW s \in Seq(X), s # <<>>
    PROVE  /\ Tail(s) = <<>> => s[Len(s)] = Head(s)
           /\ Tail(s) # <<>> => Tail(s)[Len(Tail(s))] = s[Len(s)]
<1>1. Len(s) \in Nat /\ Len(s) # 0 /\ Len(Tail(s)) = Len(s) - 1 /\ Head(s) = s[1]
      /\ \A k \in 1 .. Len(s) - 1 : Tail(s)[k] = s[k + 1]
  OBVIOUS
<1>2. Tail(s) \in Seq(X)
  OBVIOUS
<1>3. Tail(s) = <<>> <=> Len(Tail(s)) = 0
  BY <1>2, EmptyLength, Zenon
<1>4. Tail(s) = <<>> <=> Len(s) = 1
  <2>1. Len(s) - 1 = 0 <=> Len(s) = 1
    BY <1>1
  <2> QED
    BY <1>1, <1>3, <2>1, Zenon
<1>5. Len(s) = 1 => s[Len(s)] = Head(s)
  BY <1>1
<1>6. Len(s) # 1 => Tail(s)[Len(Tail(s))] = s[Len(s)]
  BY <1>1
<1> QED
  BY <1>4, <1>5, <1>6, Zenon

LEMMA ContiguousNone ==
    ASSUME NEW s, NEW S, NEW a,
           \A k \in 1 .. Len(s) : s[k] \notin S
    PROVE  Contiguous(s, S, a, a)
BY DEF Contiguous

LEMMA ContiguousAppendIn ==
    ASSUME NEW X, NEW s \in Seq(X), NEW S, NEW a, NEW b, NEW m \in X,
           Contiguous(s, S, a, b), m \in S, m.from = b, m.from < m.to
    PROVE  Contiguous(Append(s, m), S, a, m.to)
<1> DEFINE t == Append(s, m)
           n == Len(s)
           K == {k \in 1 .. n : s[k] \in S}
           L == {k \in 1 .. Len(t) : t[k] \in S}
<1>1. n \in Nat /\ Len(t) = n + 1 /\ t[n + 1] = m
      /\ \A k \in 1 .. n : t[k] = s[k]
  OBVIOUS
<1>2. L = K \cup {n + 1} /\ K \subseteq 1 .. n
  BY <1>1
<1>3. \A k \in K : s[k].from < s[k].to
  BY DEF Contiguous
<1>4. \A k \in K : (\A j \in K : j >= k) => s[k].from = a
  BY DEF Contiguous
<1>5. \A k \in K : (\A j \in K : j <= k) => s[k].to = b
  BY DEF Contiguous
<1>6. \A j, k \in K : j < k /\ (\A l \in K : l <= j \/ l >= k)
                        => s[j].to = s[k].from
  BY DEF Contiguous
<1>7. K = {} => a = b
  BY DEF Contiguous
<1> HIDE DEF K, L, t, n
<1>8. \A k \in L : t[k].from < t[k].to
  BY <1>1, <1>2, <1>3
<1>9. ASSUME NEW k \in L, \A j \in L : j >= k
      PROVE  t[k].from = a
  <2>1. CASE k \in K
    BY <1>1, <1>2, <1>4, <1>9, <2>1
  <2>2. CASE k = n + 1
    <3>1. K = {}
      BY <1>1, <1>2, <1>9, <2>2
    <3> QED
      BY <1>1, <1>7, <2>2, <3>1
  <2> QED
    BY <1>2, <2>1, <2>2
<1>10. \A k \in L : (\A j \in L : j <= k) => t[k].to = m.to
  BY <1>1, <1>2
<1>11. ASSUME NEW j \in L, NEW k \in L, j < k,
              \A l \in L : l <= j \/ l >= k
       PROVE  t[j].to = t[k].from
  <2>1. j \in K /\ t[j] = s[j]
    BY <1>1, <1>2, <1>11
  <2>2. CASE k \in K
    BY <1>1, <1>2, <1>6, <1>11, <2>1, <2>2
  <2>3. CASE k = n + 1
    <3>1. \A l \in K : l <= j
      BY <1>1, <1>2, <1>11, <2>3
    <3>2. s[j].to = b
      BY <1>5, <2>1, <3>1
    <3> QED
      BY <1>1, <2>1, <2>3, <3>2
  <2> QED
    BY <1>2, <2>2, <2>3
<1>12. L # {}
  BY <1>2
<1> QED
  BY <1>8, <1>9, <1>10, <1>11, <1>12 DEF Contiguous, L, t

LEMMA ContiguousAppendOut ==
    ASSUME NEW X, NEW s \in Seq(X), NEW S, NEW a, NEW b, NEW m \in X,
           Contiguous(s, S, a, b), m \notin S
    PROVE  Contiguous(Append(s, m), S, a, b)
<1>1. {k \in 1 .. Len(Append(s, m)) : Append(s, m)[k] \in S}
      = {k \in 1 .. Len(s) : s[k] \in S}
  OBVIOUS
<1>2. \A k \in 1 .. Len(s) : Append(s, m)[k] = s[k]
  OBVIOUS
<1> QED
  BY <1>1, <1>2 DEF Contiguous

LEMMA ContiguousTail ==
    ASSUME NEW X, NEW s \in Seq(X), NEW S, NEW a, NEW b,
           Contiguous(s, S, a, b), s # <<>>
    PROVE  /\ Head(s) \in S => /\ Head(s).from = a /\ Head(s).from < Head(s).to
                              /\ Contiguous(Tail(s), S, Head(s).to, b)
           /\ Head(s) \notin S => Contiguous(Tail(s), S, a, b)
<1> DEFINE t == Tail(s)
           n == Len(s)
           K == {k \in 1 .. n : s[k] \in S}
           L == {k \in 1 .. Len(t) : t[k] \in S}
<1>1. n \in Nat \ {0} /\ Len(t) = n - 1 /\ Head(s) = s[1]
      /\ \A k \in 1 .. n - 1 : t[k] = s[k + 1]
  OBVIOUS
<1>2. /\ K \subseteq 1 .. n /\ L \subseteq 1 .. n - 1
      /\ \A k \in L : k + 1 \in K /\ t[k] = s[k + 1]
      /\ \A k \in K : k = 1 \/ k - 1 \in L
      /\ 1 \in K <=> Head(s) \in S
  BY <1>1
<1>3. \A k \in K : s[k].from < s[k].to
  BY DEF Contiguous
<1>4. \A k \in K : (\A j \in K : j >= k) => s[k].from = a
  BY DEF Contiguous
<1>5. \A k \in K : (\A j \in K : j <= k) => s[k].to = b
  BY DEF Contiguous
<1>6. \A j, k \in K : j < k /\ (\A l \in K : l <= j \/ l >= k)
                        => s[j].to = s[k].from
  BY DEF Contiguous
<1>7. K = {} => a = b
  BY DEF Contiguous
<1> HIDE DEF K, L, t, n
<1>8. \A k \in L : t[k].from < t[k].to
  BY <1>2, <1>3
<1>9. ASSUME NEW k \in L, \A j \in L : j <= k
      PROVE  t[k].to = b
  <2>1. \A j \in K : j <= k + 1
    BY <1>1, <1>2, <1>9
  <2> QED
    BY <1>2, <1>5, <2>1
<1>10. ASSUME NEW j \in L, NEW k \in L, j < k,
              \A l \in L : l <= j \/ l >= k
       PROVE  t[j].to = t[k].from
  <2>1. j + 1 < k + 1 /\ \A l \in K : l <= j + 1 \/ l >= k + 1
    BY <1>1, <1>2, <1>10
  <2> QED
    BY <1>2, <1>6, <2>1
<1>11. CASE Head(s) \in S
  <2>1. Head(s).from = a /\ Head(s).from < Head(s).to
    BY <1>1, <1>2, <1>3, <1>4, <1>11
  <2>2. ASSUME NEW k \in L, \A j \in L : j >= k
        PROVE  t[k].from = Head(s).to
    <3>1. 1 < k + 1 /\ \A l \in K : l <= 1 \/ l >= k + 1
      BY <1>1, <1>2, <2>2
    <3> QED
      BY <1>1, <1>2, <1>6, <1>11, <3>1
  <2>3. L = {} => Head(s).to = b
    BY <1>1, <1>2, <1>5, <1>11
  <2>4. Contiguous(t, S, Head(s).to, b)
    BY <1>8, <1>9, <1>10, <2>2, <2>3 DEF Contiguous, L
  <2> QED
    BY <1>11, <2>1, <2>4 DEF t
<1>12. CASE Head(s) \notin S
  <2>1. ASSUME NEW k \in L, \A j \in L : j >= k
        PROVE  t[k].from = a
    <3>1. \A j \in K : j >= k + 1
      BY <1>1, <1>2, <1>12, <2>1
    <3> QED
      BY <1>2, <1>4, <3>1
  <2>2. L = {} => a = b
    BY <1>2, <1>7, <1>12
  <2>3. Contiguous(t, S, a, b)
    BY <1>8, <1>9, <1>10, <2>1, <2>2 DEF Contiguous, L
  <2> QED
    BY <1>12, <2>3 DEF t
<1> QED
  BY <1>11, <1>12

-----------------------------------------------------------------------------
(* The type invariant. *)

LEMMA MessageTypes ==
    /\ \A i \in Id : OpenTunnel(i) \in Message /\ TunnelClose(i) \in Message
    /\ \A i \in Id : \A a, b \in Int :
          DataExchange(i, a, b) \in Message /\ WindowUpdate(i, a, b) \in Message
    /\ \A m \in Message : m.id \in Id
    /\ \A m \in Message : m.type \in {"DataExchange", "WindowUpdate"} => m \in Span
    /\ \A m \in Span : m \in Message /\ m.from \in Int /\ m.to \in Int
BY DEF OpenTunnel, TunnelClose, DataExchange, WindowUpdate, Message, Span

LEMMA SendType ==
    ASSUME chan \in [Peer -> Seq(Message)], NEW p \in Peer, NEW m \in Message,
           Send(p, m)
    PROVE  chan' \in [Peer -> Seq(Message)]
BY DEF Send

\* The message a read worker handles, and what is left of its queue.
LEMMA IncomingType ==
    ASSUME chan \in [Peer -> Seq(Message)], NEW p \in Peer, NEW type,
           Incoming(p, type)
    PROVE  /\ Head(chan[Other(p)]) \in Message
           /\ Target(p) \in End
           /\ Tail(chan[Other(p)]) \in Seq(Message)
           /\ Consume(p) => chan' \in [Peer -> Seq(Message)]
<1>1. Other(p) \in Peer /\ chan[Other(p)] \in Seq(Message) /\ chan[Other(p)] # <<>>
  BY OtherPeer DEF Incoming
<1>2. Head(chan[Other(p)]) \in Message /\ Tail(chan[Other(p)]) \in Seq(Message)
  BY <1>1
<1> QED
  BY <1>1, <1>2, MessageTypes DEF Target, Consume, End

LEMMA AddTunnelType ==
    ASSUME TypeOK, NEW e \in End, AddTunnel(e)
    PROVE  /\ mTunnels' \subseteq End
           /\ worker' \in [End -> {"none", "spawned", "copying", "ending", "gone"}]
BY DEF TypeOK, AddTunnel

LEMMA InitType == Init => TypeOK
BY WindowAssumption DEF Init, TypeOK, OpenedBy, Peer, End

LEMMA NextType == TypeOK /\ [Next]_vars => TypeOK'
<1> SUFFICES ASSUME TypeOK, [Next]_vars
             PROVE  TypeOK'
  OBVIOUS
<1> USE DEF TypeOK
<1>1. CASE ServerOpenTunnel
  <2>1. <<"server", mStreamId["server"]>> \in End /\ "server" \in Peer
    BY <1>1 DEF ServerOpenTunnel, End, Peer
  <2>2. \A i \in Nat : OpenedBy(NextId(i)) = OpenedBy(i) /\ NextId(i) \in Nat
    BY DEF OpenedBy, NextId
  <2>3. mStreamId' \in [Peer -> Nat] /\ \A p \in Peer : OpenedBy(mStreamId'[p]) = p
    BY <1>1, <2>1, <2>2 DEF ServerOpenTunnel
  <2> QED
    BY <1>1, <2>1, <2>3, AddTunnelType DEF ServerOpenTunnel, window, inflow
<1>2. CASE ClientForward
  <2>1. <<"client", mStreamId["client"]>> \in End /\ "client" \in Peer
        /\ mStreamId["client"] \in Id
    BY <1>2 DEF ClientForward, End, Peer
  <2>2. \A i \in Nat : OpenedBy(NextId(i)) = OpenedBy(i) /\ NextId(i) \in Nat
    BY DEF OpenedBy, NextId
  <2>3. mStreamId' \in [Peer -> Nat] /\ \A p \in Peer : OpenedBy(mStreamId'[p]) = p
    BY <1>2, <2>1, <2>2 DEF ClientForward
  <2>4. chan' \in [Peer -> Seq(Message)]
    BY <1>2, <2>1, MessageTypes, SendType DEF ClientForward
  <2> QED
    BY <1>2, <2>1, <2>3, <2>4, AddTunnelType DEF ClientForward, window, inflow
<1>3. CASE RefuseOpenTunnel
  <2>1. "server" \in Peer /\ "client" \in Peer /\ Other("server") = "client"
    BY DEF Peer, Other
  <2>2. Target("server")[2] \in Id /\ Tail(chan["client"]) \in Seq(Message)
    BY <1>3, <2>1, IncomingType, FarEnd DEF RefuseOpenTunnel
  <2>3. Append(chan["server"], TunnelClose(Target("server")[2])) \in Seq(Message)
    BY <2>1, <2>2, MessageTypes
  <2>4. chan' \in [Peer -> Seq(Message)]
    BY <1>3, <2>1, <2>2, <2>3 DEF RefuseOpenTunnel
  <2> QED
    BY <1>3, <2>4 DEF RefuseOpenTunnel, window, inflow
<1>4. ASSUME NEW p \in Peer, Receive(p)
      PROVE  TypeOK'
  <2>1. CASE OnOpenTunnel(p)
    BY <2>1, IncomingType, AddTunnelType DEF OnOpenTunnel, window, inflow
  <2>2. CASE OnDataExchange(p)
    <3>1. /\ Target(p) \in End /\ Head(chan[Other(p)]) \in Span
          /\ chan' \in [Peer -> Seq(Message)]
      BY <2>2, IncomingType, MessageTypes DEF OnDataExchange, Incoming
    <3>2. bytes' \in [End -> Seq(Span)]
      BY <2>2, <3>1 DEF OnDataExchange
    <3> QED
      BY <2>2, <3>1, <3>2 DEF OnDataExchange, window
  <2>3. CASE OnWindowUpdate(p)
    <3>1. /\ Target(p) \in End /\ Head(chan[Other(p)]) \in Span
          /\ chan' \in [Peer -> Seq(Message)]
      BY <2>3, IncomingType, MessageTypes DEF OnWindowUpdate, Incoming
    <3>. DEFINE m == Head(chan[Other(p)])
    <3>4. m.from \in Int /\ m.to \in Int
      BY <3>1, MessageTypes
    <3>5. sendWindow[Target(p)] \in Int
      BY <3>1 DEF TypeOK
    <3>2. sendWindow[Target(p)] + (m.to - m.from) \in Int
      <4> HIDE DEF m
      <4> QED
        BY <3>4, <3>5
    <3>3. sendWindow' \in [End -> Int] /\ updated' \in [End -> BOOLEAN]
      BY <2>3, <3>1, <3>2 DEF OnWindowUpdate, Grant
    <3> QED
      BY <2>3, <3>1, <3>3 DEF OnWindowUpdate, inflow
  <2>4. CASE OnTunnelClose(p)
    BY <2>4, IncomingType DEF OnTunnelClose, SetClosed, Unregister, window, inflow
  <2> QED
    BY <1>4, <2>1, <2>2, <2>3, <2>4 DEF Receive
<1>5. ASSUME NEW e \in End, Work(e)
      PROVE  TypeOK'
  <2> e[1] \in Peer /\ e[2] \in Id
    BY FarEnd
  <2>0. \A w \in Int : BufSize(w) \in Int
    BY WindowAssumption DEF BufSize
  <2>1. CASE StartCopy(e)
    <3>1. chan' \in [Peer -> Seq(Message)]
      BY <2>1, MessageTypes, SendType DEF StartCopy
    <3> QED
      BY <2>0, <2>1, <3>1 DEF StartCopy, inflow
  <2>2. CASE ConnectFailed(e)
    BY <2>2 DEF ConnectFailed, window, inflow
  <2>3. ASSUME NEW n \in 1 .. MaxData, ReadData(e, n)
        PROVE  TypeOK'
    <3>1. n \in Nat /\ nread[e] + n \in Int /\ nread[e] + n \in Nat
      BY WindowAssumption
    <3>2. chan' \in [Peer -> Seq(Message)]
      BY <2>3, <3>1, MessageTypes, SendType DEF ReadData
    <3>3. /\ nread' \in [End -> Nat] /\ sendWindow' \in [End -> Int]
          /\ bufsize' \in [End -> Int]
      BY <2>0, <2>3, <3>1 DEF ReadData, Charge
    <3> QED
      BY <2>3, <3>2, <3>3 DEF ReadData, inflow
  <2>4. CASE WindowWake(e)
    BY <2>0, <2>4 DEF WindowWake, inflow
  <2>5. CASE WriteData(e)
    <3> DEFINE chunk == Head(bytes[e])
               sum == peerSum[e] + (chunk.to - chunk.from)
    <3>1. chunk \in Span /\ Tail(bytes[e]) \in Seq(Span)
      BY <2>5 DEF WriteData
    <3>2. chunk.to \in Int /\ sum \in Int /\ chunk.to - sum \in Int
      BY <3>1, MessageTypes
    <3>3. WindowUpdate(e[2], chunk.to - sum, chunk.to) \in Message
      BY <3>2, MessageTypes
    <3>4. \/ /\ Send(e[1], WindowUpdate(e[2], chunk.to - sum, chunk.to))
             /\ peerSum' = [peerSum EXCEPT ![e] = 0]
          \/ UNCHANGED chan /\ peerSum' = [peerSum EXCEPT ![e] = sum]
      BY <2>5 DEF WriteData
    <3>5. chan' \in [Peer -> Seq(Message)]
      <4> HIDE DEF chunk, sum
      <4> QED
        BY <3>3, <3>4, SendType
    <3>6. peerSum' \in [End -> Int]
      BY <3>2, <3>4
    <3>7. nwritten' \in [End -> Int] /\ bytes' \in [End -> Seq(Span)]
      BY <2>5, <3>1, <3>2 DEF WriteData
    <3> QED
      BY <2>5, <3>5, <3>6, <3>7 DEF WriteData, window
  <2>6. CASE CopyEnds(e)
    BY <2>6 DEF CopyEnds, inflow
  <2>7. CASE Cleanup(e)
    <3>1. chan' \in [Peer -> Seq(Message)]
      BY <2>7, MessageTypes, SendType DEF Cleanup
    <3>2. bytes' \in [End -> Seq(Span)]
      BY <2>7 DEF Cleanup
    <3>3. worker' \in [End -> {"none", "spawned", "copying", "ending", "gone"}]
          /\ mTunnels' \subseteq End
      BY <2>7 DEF Cleanup, Unregister
    <3> QED
      BY <2>7, <3>1, <3>2, <3>3 DEF Cleanup, window
  <2> QED
    BY <1>5, <2>1, <2>2, <2>3, <2>4, <2>5, <2>6, <2>7 DEF Work
<1>6. CASE UNCHANGED vars
  BY <1>6 DEF vars, window, inflow
<1> QED
  BY <1>1, <1>2, <1>3, <1>4, <1>5, <1>6 DEF Next

\* Every variable keeps its type and every peer its half of the ids
\* (ClientSession::openTunnel, ClientState::forwardWorker).
THEOREM TypeCorrect == Spec => []TypeOK
<1>1. TypeOK /\ [Next]_vars => TypeOK'
  BY NextType
<1> QED
  BY InitType, <1>1, PTL DEF Spec

-----------------------------------------------------------------------------
(***************************************************************************)
(* The inductive invariant.                                                *)
(***************************************************************************)

\* Nothing about tunnel i is on its way from p.
Silent(p, i) == \A k \in 1 .. Len(chan[p]) : chan[p][k].id # i

\* An end that has not copied anything yet.
Untouched(e) == /\ nread[e] = 0 /\ nwritten[e] = 0 /\ peerSum[e] = 0
                /\ bufsize[e] = 0 /\ sendWindow[e] >= InitWindow

Quiet(i) == /\ Silent("server", i) /\ Silent("client", i)
            /\ worker[<<OpenedBy(i), i>>] \in {"none", "spawned"}
            /\ worker[<<Other(OpenedBy(i)), i>>] = "none"

\* Tunnel i has not been announced to the peer that did not open it.
Reserved(i) == \/ i >= mStreamId[OpenedBy(i)]
               \/ OpenedBy(i) = "server" /\ worker[<<"server", i>>] = "spawned"

\* A tunnel begins unknown to both peers and is announced first.
Lifecycle ==
    /\ QueueHasReader
    /\ FreshOpen
    /\ \A e \in End : worker[e] = "none" => bytes[e] = <<>>
    /\ \A e \in End : worker[e] \in {"none", "spawned"} => Untouched(e)
    /\ \A i \in Id : Reserved(i) => Quiet(i)
    /\ \A i \in Id : i >= mStreamId[OpenedBy(i)]
                        => worker[<<OpenedBy(i), i>>] = "none"

\* The counters of the two ends of a direction stay in step, also when the
\* tunnel is already closed at one of them.
Counters ==
    \A e \in End :
        /\ bufsize[e] \in 0 .. sendWindow[e]
        /\ 0 <= peerSum[e] /\ peerSum[e] <= nwritten[e]
        /\ nwritten[e] <= Received(e) /\ Received(e) <= nread[Far(e)]
        /\ sendWindow[e] + nread[e] - InitWindow <= nwritten[Far(e)] - peerSum[Far(e)]
        /\ \A k \in 1 .. Len(bytes[e]) :
              bytes[e][k] \in DataOf(e[2]) /\ bytes[e][k].to <= Received(e)

\* A message speaks of bytes that were read, a credit of bytes that were written.
Honest(p, m) ==
    /\ m.type = "DataExchange" =>
         0 <= m.from /\ m.from < m.to /\ m.to <= nread[<<p, m.id>>]
    /\ m.type = "WindowUpdate" =>
         /\ 0 <= m.from /\ m.from < m.to
         /\ m.to <= nwritten[<<p, m.id>>] - peerSum[<<p, m.id>>]

HonestMessages == \A p \in Peer : \A k \in 1 .. Len(chan[p]) : Honest(p, chan[p][k])

IInv == /\ TypeOK /\ Lifecycle /\ Counters /\ HonestMessages
        /\ DataInOrder /\ CreditConserved

LEMMA InitInv == Init => IInv
<1> SUFFICES ASSUME Init PROVE IInv
  OBVIOUS
<1>1. TypeOK
  BY InitType
<1>2. \A e \in End : Received(e) = 0 /\ Far(e) \in End /\ Other(e[1]) \in Peer
  BY FarEnd, OtherPeer DEF Init, Received
<1>3. \A p \in Peer : chan[p] = <<>>
  BY DEF Init
<1>4. \A i \in Id : OpenedBy(i) \in Peer
  BY DEF OpenedBy, Peer
<1>5. Lifecycle
  <2>1. QueueHasReader /\ FreshOpen
    BY <1>3 DEF Init, QueueHasReader, FreshOpen
  <2>2. \A e \in End : Untouched(e) /\ bytes[e] = <<>> /\ worker[e] = "none"
    BY WindowAssumption DEF Init, Untouched
  <2>3. \A p \in Peer, i \in Id : <<p, i>> \in End /\ Silent(p, i)
    BY <1>3 DEF Silent, End
  <2>4. \A i \in Id : Quiet(i)
    BY <1>4, <2>2, <2>3, OtherPeer DEF Quiet, Peer
  <2> QED
    BY <1>4, <2>1, <2>2, <2>3, <2>4 DEF Lifecycle
<1>6. Counters
  BY <1>2, WindowAssumption DEF Init, Counters
<1>7. HonestMessages
  BY <1>3 DEF HonestMessages
<1>8. DataInOrder
  <2> SUFFICES ASSUME NEW e \in End
               PROVE  /\ Contiguous(bytes[e], DataOf(e[2]), nwritten[e], Received(e))
                      /\ Contiguous(chan[Other(e[1])], DataOf(e[2]),
                                    Received(e), nread[Far(e)])
    BY DEF DataInOrder
  <2>1. bytes[e] = <<>> /\ chan[Other(e[1])] = <<>> /\ nwritten[e] = 0
        /\ nread[Far(e)] = 0 /\ Received(e) = 0
    BY <1>2, <1>3 DEF Init
  <2> QED
    BY <2>1, ContiguousNone
<1>9. CreditConserved
  BY DEF Init, CreditConserved
<1> QED
  BY <1>1, <1>5, <1>6, <1>7, <1>8, <1>9 DEF IInv

-----------------------------------------------------------------------------
(* Steps that move no bytes and no credit. *)

Control == [type : {"OpenTunnel", "TunnelClose"}, id : Id]

ControlStep ==
    \A q \in Peer :
        \/ chan'[q] = chan[q]
        \/ chan[q] # <<>> /\ Head(chan[q]) \in Control /\ chan'[q] = Tail(chan[q])
        \/ \E m \in Control : chan'[q] = Append(chan[q], m)

LEMMA ControlContiguous ==
    ASSUME TypeOK, ControlStep, NEW q \in Peer, NEW i \in Id, NEW a, NEW b
    PROVE  /\ Contiguous(chan[q], DataOf(i), a, b)
                => Contiguous(chan'[q], DataOf(i), a, b)
           /\ Contiguous(chan[q], CreditOf(i), a, b)
                => Contiguous(chan'[q], CreditOf(i), a, b)
<1>1. \A m \in Control : m \notin DataOf(i) /\ m \notin CreditOf(i) /\ m \in Message
  BY DEF Control, DataOf, CreditOf, Message
<1>2. chan[q] \in Seq(Message)
  BY DEF TypeOK
<1>3. CASE chan[q] # <<>> /\ Head(chan[q]) \in Control /\ chan'[q] = Tail(chan[q])
  BY <1>1, <1>2, <1>3, ContiguousTail
<1>4. CASE \E m \in Control : chan'[q] = Append(chan[q], m)
  BY <1>1, <1>2, <1>4, ContiguousAppendOut
<1> QED
  BY <1>3, <1>4 DEF ControlStep

LEMMA ControlElements ==
    ASSUME TypeOK, ControlStep, NEW q \in Peer, NEW k \in 1 .. Len(chan'[q])
    PROVE  \/ \E j \in 1 .. Len(chan[q]) : chan'[q][k] = chan[q][j]
           \/ chan'[q][k] \in Control
<1>1. chan[q] \in Seq(Message)
  BY DEF TypeOK
<1>2. CASE chan[q] # <<>> /\ chan'[q] = Tail(chan[q])
  <2>1. k + 1 \in 1 .. Len(chan[q]) /\ chan'[q][k] = chan[q][k + 1]
    BY <1>1, <1>2
  <2> QED
    BY <2>1
<1>3. ASSUME NEW m \in Control, chan'[q] = Append(chan[q], m)
      PROVE  \/ \E j \in 1 .. Len(chan[q]) : chan'[q][k] = chan[q][j]
             \/ chan'[q][k] \in Control
  BY <1>1, <1>3
<1> QED
  BY <1>2, <1>3 DEF ControlStep

\* Such a step keeps the flow control's invariants, provided an end it adds has
\* not copied anything and nothing is under way for it.
LEMMA ControlFlow ==
    ASSUME IInv, TypeOK', ControlStep,
           UNCHANGED <<bytes, nread, nwritten, peerSum, sendWindow>>,
           \A e \in End : bufsize'[e] \in 0 .. sendWindow[e],
           \A e \in End : Expecting(e)' =>
               \/ Expecting(e)
               \/ /\ Silent(Other(e[1]), e[2]) /\ bytes[e] = <<>>
                  /\ nwritten[e] = 0 /\ nread[Far(e)] = 0,
           \A e \in mTunnels' : e \in mTunnels \/ Untouched(e)
    PROVE  Counters' /\ HonestMessages' /\ DataInOrder' /\ CreditConserved'
<1> USE DEF IInv
<1>1. \A e \in End : Received(e)' = Received(e)
  BY DEF Received
<1>2. Counters'
  BY <1>1, FarEnd DEF Counters
<1>3. HonestMessages'
  <2> SUFFICES ASSUME NEW p \in Peer, NEW k \in 1 .. Len(chan'[p]),
                      NEW m, m = chan'[p][k]
               PROVE  Honest(p, m)'
    BY DEF HonestMessages, Honest
  <2>1. CASE m \in Control
    BY <2>1 DEF Honest, Control
  <2>2. ASSUME NEW j \in 1 .. Len(chan[p]), m = chan[p][j]
        PROVE  Honest(p, m)'
    BY <2>2 DEF HonestMessages, Honest
  <2> QED
    BY <2>1, <2>2, ControlElements
<1>4. DataInOrder'
  <2> SUFFICES ASSUME NEW e \in End
               PROVE  /\ Contiguous(bytes[e], DataOf(e[2]), nwritten[e], Received(e))
                      /\ Expecting(e)' =>
                           Contiguous(chan'[Other(e[1])], DataOf(e[2]),
                                      Received(e), nread[Far(e)])
    BY <1>1, FarEnd DEF DataInOrder
  <2>1. Contiguous(bytes[e], DataOf(e[2]), nwritten[e], Received(e))
    BY DEF DataInOrder
  <2>2. e[2] \in Id /\ Other(e[1]) \in Peer
    BY FarEnd, OtherPeer
  <2>3. CASE Expecting(e)
    BY <2>2, <2>3, ControlContiguous DEF DataInOrder
  <2>4. CASE Silent(Other(e[1]), e[2]) /\ bytes[e] = <<>>
             /\ nwritten[e] = 0 /\ nread[Far(e)] = 0
    <3>1. \A k \in 1 .. Len(chan[Other(e[1])]) :
             chan[Other(e[1])][k] \notin DataOf(e[2])
      BY <2>4 DEF Silent, DataOf
    <3>2. Received(e) = 0
      BY <2>4 DEF Received
    <3>3. Contiguous(chan[Other(e[1])], DataOf(e[2]), 0, 0)
      BY <3>1, ContiguousNone
    <3> QED
      BY <2>1, <2>2, <2>4, <3>2, <3>3, ControlContiguous
  <2> QED
    BY <2>1, <2>3, <2>4
<1>5. CreditConserved'
  <2> SUFFICES ASSUME NEW e \in mTunnels'
               PROVE  Contiguous(chan'[Other(e[1])], CreditOf(e[2]),
                                 sendWindow[e] + nread[e] - InitWindow,
                                 nwritten[Far(e)] - peerSum[Far(e)])
    BY DEF CreditConserved
  <2>1. e \in End /\ Far(e) \in End /\ Far(Far(e)) = e
        /\ e[2] \in Id /\ Other(e[1]) \in Peer /\ Far(e) = <<Other(e[1]), e[2]>>
    BY FarEnd, OtherPeer DEF TypeOK, Far
  <2>2. CASE e \in mTunnels
    BY <2>1, <2>2, ControlContiguous DEF CreditConserved
  <2>3. CASE Untouched(e)
    <3>1. /\ nwritten[Far(e)] = 0 /\ peerSum[Far(e)] = 0
          /\ sendWindow[e] + nread[e] - InitWindow = 0
      <4>1. /\ 0 <= peerSum[Far(e)] /\ peerSum[Far(e)] <= nwritten[Far(e)]
            /\ nwritten[Far(e)] <= Received(Far(e)) /\ Received(Far(e)) <= nread[e]
            /\ sendWindow[e] + nread[e] - InitWindow <= nwritten[Far(e)] - peerSum[Far(e)]
        BY <2>1 DEF Counters
      <4>2. nread[e] = 0 /\ sendWindow[e] >= InitWindow
        BY <2>3 DEF Untouched
      <4>3. Received(Far(e)) \in Int
        <5>1. bytes[Far(e)] \in Seq(Span) /\ nwritten[Far(e)] \in Int
          BY <2>1 DEF TypeOK
        <5> QED
          BY <5>1, MessageTypes DEF Received
      <4>4. /\ nwritten[Far(e)] \in Int /\ peerSum[Far(e)] \in Int
            /\ sendWindow[e] \in Int /\ nread[e] \in Int
        BY <2>1 DEF TypeOK
      <4>5. nwritten[Far(e)] = 0 /\ peerSum[Far(e)] = 0
        BY <4>1, <4>2, <4>3, <4>4
      <4> QED
        BY <4>1, <4>2, <4>4, <4>5, WindowAssumption
    <3>2. \A k \in 1 .. Len(chan[Other(e[1])]) :
             chan[Other(e[1])][k] \notin CreditOf(e[2])
      BY <2>1, <3>1 DEF HonestMessages, Honest, CreditOf
    <3>3. Contiguous(chan[Other(e[1])], CreditOf(e[2]), 0, 0)
      BY <3>2, ContiguousNone
    <3> QED
      BY <2>1, <3>1, <3>3, ControlContiguous
  <2> QED
    BY <2>2, <2>3
<1> QED
  BY <1>2, <1>3, <1>4, <1>5

\* What every step does to the queues and the coroutines, as far as the beginning
\* of a tunnel is concerned.
LEMMA LifecycleStep ==
    ASSUME IInv, TypeOK', QueueHasReader',
           \A e \in End : worker'[e] = "none" => worker[e] = "none" /\ bytes'[e] = <<>>,
           \A e \in End : worker'[e] \in {"none", "spawned"} => Untouched(e)',
           \A e \in End : worker[e] = "none" /\ worker'[e] # "none" =>
               \/ OpenedBy(e[2]) = e[1]
               \/ /\ chan[Other(e[1])] # <<>> /\ Head(chan[Other(e[1])]).id = e[2]
                  /\ chan'[Other(e[1])] = Tail(chan[Other(e[1])]),
           \A i \in Id : Reserved(i)' =>
               /\ Reserved(i)
               /\ worker'[<<OpenedBy(i), i>>] \in {"none", "spawned"}
               /\ worker'[<<Other(OpenedBy(i)), i>>] = "none",
           \A i \in Id : i >= mStreamId'[OpenedBy(i)]
                              => worker'[<<OpenedBy(i), i>>] = "none",
           \A q \in Peer :
               \/ chan'[q] = chan[q]
               \/ chan[q] # <<>> /\ chan'[q] = Tail(chan[q])
               \/ \E m \in Message :
                     /\ chan'[q] = Append(chan[q], m)
                     /\ ~ Reserved(m.id)'
                     /\ m.type = "OpenTunnel" =>
                          /\ OpenedBy(m.id) = q
                          /\ worker'[<<Other(q), m.id>>] = "none"
                          /\ Silent(q, m.id)
    PROVE  Lifecycle'
<1> USE DEF IInv
<1>1. \A q \in Peer : chan[q] \in Seq(Message)
  BY DEF TypeOK
<1>2. FreshOpen'
  <2> SUFFICES ASSUME NEW q \in Peer, NEW k \in 1 .. Len(chan'[q]),
                      chan'[q][k].type = "OpenTunnel"
               PROVE  /\ OpenedBy(chan'[q][k].id) = q
                      /\ worker'[<<Other(q), chan'[q][k].id>>] = "none"
                      /\ \A j \in 1 .. k - 1 : chan'[q][j].id # chan'[q][k].id
    BY DEF FreshOpen
  <2>0. \A j \in 1 .. Len(chan[q]) : chan[q][j].type = "OpenTunnel" =>
           /\ OpenedBy(chan[q][j].id) = q
           /\ worker[<<Other(q), chan[q][j].id>>] = "none"
           /\ \A l \in 1 .. j - 1 : chan[q][l].id # chan[q][j].id
    BY DEF Lifecycle, FreshOpen
  <2>1. ASSUME NEW i \in Id, OpenedBy(i) = q, worker[<<Other(q), i>>] = "none",
               \/ chan'[q] # Tail(chan[q])
               \/ chan[q] # <<>> /\ Head(chan[q]).id # i
        PROVE  worker'[<<Other(q), i>>] = "none"
    <3>1. <<Other(q), i>> \in End /\ Other(q) # q /\ Other(Other(q)) = q
      BY OtherPeer DEF End
    <3> QED
      BY <2>1, <3>1
  <2>2. CASE chan'[q] = chan[q]
    <3>1. /\ OpenedBy(chan[q][k].id) = q /\ worker[<<Other(q), chan[q][k].id>>] = "none"
          /\ \A j \in 1 .. k - 1 : chan[q][j].id # chan[q][k].id
          /\ chan[q][k] \in Message /\ chan[q] # <<>>
      BY <1>1, <2>0, <2>2
    <3>2. chan[q] # Tail(chan[q])
      BY <1>1, <3>1, TailShorter
    <3> QED
      BY <2>1, <2>2, <3>1, <3>2, MessageTypes
  <2>3. CASE chan[q] # <<>> /\ chan'[q] = Tail(chan[q])
    <3>1. /\ k + 1 \in 1 .. Len(chan[q]) /\ Head(chan[q]) = chan[q][1]
          /\ \A j \in 1 .. k : j + 1 \in 1 .. Len(chan[q])
                              /\ chan'[q][j] = chan[q][j + 1]
          /\ 1 \in 1 .. (k + 1) - 1
      BY <1>1, <2>3
    <3>2. /\ OpenedBy(chan[q][k + 1].id) = q
          /\ worker[<<Other(q), chan[q][k + 1].id>>] = "none"
          /\ \A l \in 1 .. (k + 1) - 1 : chan[q][l].id # chan[q][k + 1].id
          /\ chan'[q][k] = chan[q][k + 1] /\ chan[q][k + 1] \in Message
      BY <1>1, <2>0, <3>1
    <3>3. Head(chan[q]).id # chan[q][k + 1].id
      BY <3>1, <3>2
    <3>4. worker'[<<Other(q), chan'[q][k].id>>] = "none"
      BY <2>1, <2>3, <3>2, <3>3, MessageTypes
    <3>5. ASSUME NEW j \in 1 .. k - 1
          PROVE  chan'[q][j].id # chan'[q][k].id
      <4>1. j \in 1 .. k /\ j + 1 \in 1 .. (k + 1) - 1
        OBVIOUS
      <4> QED
        BY <3>1, <3>2, <4>1
    <3> QED
      BY <3>2, <3>4, <3>5
  <2>4. ASSUME NEW m \in Message, chan'[q] = Append(chan[q], m),
               m.type = "OpenTunnel" =>
                  /\ OpenedBy(m.id) = q
                  /\ worker'[<<Other(q), m.id>>] = "none"
                  /\ Silent(q, m.id)
        PROVE  /\ OpenedBy(chan'[q][k].id) = q
               /\ worker'[<<Other(q), chan'[q][k].id>>] = "none"
               /\ \A j \in 1 .. k - 1 : chan'[q][j].id # chan'[q][k].id
    <3>1. /\ Len(chan'[q]) = Len(chan[q]) + 1 /\ Len(chan[q]) \in Nat
          /\ chan'[q][Len(chan[q]) + 1] = m
          /\ \A j \in 1 .. Len(chan[q]) : chan'[q][j] = chan[q][j]
      BY <1>1, <2>4
    <3>2. CASE k = Len(chan[q]) + 1
      BY <2>4, <3>1, <3>2 DEF Silent
    <3>3. CASE k \in 1 .. Len(chan[q])
      <4>1. /\ chan'[q][k] = chan[q][k] /\ chan[q][k] \in Message
            /\ \A j \in 1 .. k - 1 : chan'[q][j] = chan[q][j]
        BY <1>1, <3>1, <3>3
      <4>2. /\ OpenedBy(chan[q][k].id) = q
            /\ worker[<<Other(q), chan[q][k].id>>] = "none"
            /\ \A j \in 1 .. k - 1 : chan[q][j].id # chan[q][k].id
        BY <2>0, <3>3, <4>1
      <4>3. chan'[q] # Tail(chan[q])
        <5>1. chan[q] # <<>>
          BY <1>1, <3>3
        <5> QED
          BY <1>1, <2>4, <5>1, TailShorter
      <4> QED
        BY <2>1, <4>1, <4>2, <4>3, MessageTypes
    <3> QED
      BY <3>1, <3>2, <3>3
  <2> QED
    BY <2>2, <2>3, <2>4
<1>3. ASSUME NEW i \in Id, Reserved(i)'
      PROVE  Quiet(i)'
  <2>1. Reserved(i) /\ Quiet(i)
    BY <1>3 DEF Lifecycle
  <2>2. ASSUME NEW q \in Peer, Silent(q, i)
        PROVE  Silent(q, i)'
    <3>1. CASE chan'[q] = chan[q]
      BY <2>2, <3>1 DEF Silent
    <3>2. CASE chan[q] # <<>> /\ chan'[q] = Tail(chan[q])
      BY <1>1, <2>2, <3>2 DEF Silent
    <3>3. ASSUME NEW m \in Message, chan'[q] = Append(chan[q], m), m.id # i
          PROVE  Silent(q, i)'
      BY <1>1, <2>2, <3>3 DEF Silent
    <3> QED
      BY <1>3, <3>1, <3>2, <3>3
  <2>3. Silent("server", i)' /\ Silent("client", i)'
    BY <2>1, <2>2 DEF Quiet, Peer
  <2> QED
    BY <1>3, <2>3 DEF Quiet
<1> QED
  BY <1>2, <1>3 DEF Lifecycle

\* The two ends of a tunnel are the end its opener holds and the other one.
LEMMA EndOfTunnel ==
    ASSUME NEW e \in End
    PROVE  /\ OpenedBy(e[2]) \in Peer /\ e[2] \in Id
           /\ e = <<OpenedBy(e[2]), e[2]>> \/ e = <<Other(OpenedBy(e[2])), e[2]>>
BY OtherPeer, FarEnd DEF OpenedBy, Peer

\* An end that copies, or is past that, belongs to a tunnel that was announced.
LEMMA CopyingNotReserved ==
    ASSUME IInv, NEW e \in End, worker[e] \notin {"none", "spawned"}
    PROVE  ~ Reserved(e[2])
BY EndOfTunnel DEF IInv, Lifecycle, Quiet

\* The steps that begin no tunnel: a coroutine can only get further.
LaterWorker ==
    \/ worker' = worker
    \/ \E e \in End, v \in {"copying", "ending", "gone"} :
           worker[e] # "none" /\ worker' = [worker EXCEPT ![e] = v]

LEMMA LaterReserved ==
    ASSUME IInv, mStreamId' = mStreamId, LaterWorker
    PROVE  /\ \A e \in End : /\ worker'[e] = "none" <=> worker[e] = "none"
                             /\ worker'[e] = "spawned" => worker[e] = "spawned"
           /\ \A i \in Id : Reserved(i)' =>
                 /\ Reserved(i)
                 /\ worker'[<<OpenedBy(i), i>>] \in {"none", "spawned"}
                 /\ worker'[<<Other(OpenedBy(i)), i>>] = "none"
           /\ \A i \in Id : i >= mStreamId'[OpenedBy(i)]
                               => worker'[<<OpenedBy(i), i>>] = "none"
<1>1. worker \in [End -> {"none", "spawned", "copying", "ending", "gone"}]
  BY DEF IInv, TypeOK
<1>2. \A e \in End : /\ worker'[e] = "none" <=> worker[e] = "none"
                     /\ worker'[e] = "spawned" => worker[e] = "spawned"
  BY <1>1 DEF LaterWorker
<1>3. ASSUME NEW i \in Id
      PROVE  /\ OpenedBy(i) \in Peer /\ Other(OpenedBy(i)) \in Peer
             /\ <<OpenedBy(i), i>> \in End /\ <<Other(OpenedBy(i)), i>> \in End
             /\ OpenedBy(i) = "server" => <<"server", i>> = <<OpenedBy(i), i>>
  BY OtherPeer DEF OpenedBy, Peer, End
<1>4. ASSUME NEW i \in Id, Reserved(i)'
      PROVE  /\ Reserved(i)
             /\ worker'[<<OpenedBy(i), i>>] \in {"none", "spawned"}
             /\ worker'[<<Other(OpenedBy(i)), i>>] = "none"
  <2>1. Reserved(i)
    BY <1>2, <1>3, <1>4 DEF Reserved
  <2>2. worker[<<Other(OpenedBy(i)), i>>] = "none"
    BY <2>1 DEF IInv, Lifecycle, Quiet
  <2>3. i >= mStreamId[OpenedBy(i)] => worker[<<OpenedBy(i), i>>] = "none"
    BY DEF IInv, Lifecycle
  <2> QED
    BY <1>2, <1>3, <1>4, <2>1, <2>2, <2>3 DEF Reserved
<1>5. \A i \in Id : i >= mStreamId'[OpenedBy(i)]
                       => worker'[<<OpenedBy(i), i>>] = "none"
  BY <1>2, <1>3 DEF IInv, Lifecycle
<1> QED
  BY <1>2, <1>4, <1>5

LEMMA LaterStep ==
    ASSUME IInv, TypeOK', QueueHasReader', mStreamId' = mStreamId,
           LaterWorker,
           \A e \in End : worker'[e] = "none" => bytes'[e] = <<>>,
           \A e \in End : worker'[e] \in {"none", "spawned"} => Untouched(e)',
           \A q \in Peer :
               \/ chan'[q] = chan[q]
               \/ chan[q] # <<>> /\ chan'[q] = Tail(chan[q])
               \/ \E m \in Message :
                     /\ chan'[q] = Append(chan[q], m)
                     /\ m.type # "OpenTunnel" /\ ~ Reserved(m.id)
    PROVE  Lifecycle'
<1>1. ASSUME NEW m \in Message, ~ Reserved(m.id)
      PROVE  ~ Reserved(m.id)'
  <2>1. m.id \in Id
    BY MessageTypes
  <2> QED
    BY <1>1, <2>1, LaterReserved
<1>2. \A q \in Peer :
        \/ chan'[q] = chan[q]
        \/ chan[q] # <<>> /\ chan'[q] = Tail(chan[q])
        \/ \E m \in Message :
              /\ chan'[q] = Append(chan[q], m)
              /\ ~ Reserved(m.id)'
              /\ m.type # "OpenTunnel"
  BY <1>1
<1>3. \A e \in End : worker'[e] = "none" => worker[e] = "none" /\ bytes'[e] = <<>>
  BY LaterReserved
<1>4. \A e \in End : worker[e] = "none" => worker'[e] = "none"
  BY LaterReserved
<1> QED
  BY <1>2, <1>3, <1>4, LaterReserved, LifecycleStep

-----------------------------------------------------------------------------
(* The invariant under each action. *)

LEMMA SendShape ==
    ASSUME TypeOK, NEW p \in Peer, NEW m, Send(p, m)
    PROVE  \A q \in Peer : \/ q = p /\ chan'[q] = Append(chan[q], m)
                           \/ q = Other(p) /\ chan'[q] = chan[q]
BY OtherPeer DEF TypeOK, Send

LEMMA ConsumeShape ==
    ASSUME TypeOK, NEW p \in Peer, NEW type, Incoming(p, type), Consume(p)
    PROVE  \A q \in Peer :
              \/ q = p /\ chan'[q] = chan[q]
              \/ q = Other(p) /\ chan[q] # <<>> /\ chan'[q] = Tail(chan[q])
BY OtherPeer DEF TypeOK, Incoming, Consume

\* No step but those that announce a tunnel or add an end makes one expected.
LEMMA ExpectingKept ==
    ASSUME TypeOK, mTunnels' \subseteq mTunnels,
           \A q \in Peer :
               \/ chan'[q] = chan[q]
               \/ chan[q] # <<>> /\ chan'[q] = Tail(chan[q])
               \/ \E m \in Message :
                     chan'[q] = Append(chan[q], m) /\ m.type # "OpenTunnel",
           NEW e \in End, Expecting(e)'
    PROVE  Expecting(e)
<1>1. ASSUME NEW q \in Peer, NEW i \in Id, NEW k \in 1 .. Len(chan'[q]),
             chan'[q][k] = OpenTunnel(i)
      PROVE  InFlight(q, OpenTunnel(i))
  <2>1. chan[q] \in Seq(Message)
    BY DEF TypeOK
  <2>2. CASE chan'[q] = chan[q]
    BY <1>1, <2>2 DEF InFlight
  <2>3. CASE chan[q] # <<>> /\ chan'[q] = Tail(chan[q])
    <3>1. k + 1 \in 1 .. Len(chan[q]) /\ chan'[q][k] = chan[q][k + 1]
      BY <2>1, <2>3
    <3> QED
      BY <1>1, <3>1 DEF InFlight
  <2>4. ASSUME NEW m \in Message, chan'[q] = Append(chan[q], m),
               m.type # "OpenTunnel"
        PROVE  InFlight(q, OpenTunnel(i))
    <3>1. \/ chan'[q][k] = m
          \/ k \in 1 .. Len(chan[q]) /\ chan'[q][k] = chan[q][k]
      BY <2>1, <2>4
    <3>2. m # OpenTunnel(i)
      <4>1. OpenTunnel(i).type = "OpenTunnel"
        BY DEF OpenTunnel
      <4> QED
        BY <2>4, <4>1
    <3> QED
      BY <1>1, <3>1, <3>2 DEF InFlight
  <2> QED
    BY <2>2, <2>3, <2>4
<1>2. e \in mTunnels' => e \in mTunnels
  OBVIOUS
<1>3. CASE \E k \in 1 .. Len(chan'[Other(e[1])]) :
              chan'[Other(e[1])][k] = OpenTunnel(e[2])
  BY <1>1, <1>3, FarEnd, OtherPeer DEF Expecting
<1> QED
  BY <1>2, <1>3 DEF Expecting, InFlight, OpenTunnel

LEMMA ConnectFailedInv ==
    ASSUME IInv, TypeOK', NEW e \in End, ConnectFailed(e)
    PROVE  IInv'
<1>1. IInv /\ TypeOK
  BY DEF IInv
<1>2. /\ UNCHANGED <<chan, mStreamId, mTunnels, sendWindow, bufsize, nread, bytes,
                     peerSum, nwritten>>
      /\ worker[e] = "spawned" /\ worker' = [worker EXCEPT ![e] = "ending"]
  BY DEF ConnectFailed, window, inflow
<1>3. Counters' /\ HonestMessages' /\ DataInOrder' /\ CreditConserved'
  <2>1. ControlStep
    BY <1>2 DEF ControlStep
  <2>2. \A f \in End : Expecting(f)' => Expecting(f)
    BY <1>1, <1>2, ExpectingKept
  <2>3. \A f \in End : bufsize'[f] \in 0 .. sendWindow[f]
    BY <1>2 DEF IInv, Counters
  <2>4. \A f \in mTunnels' : f \in mTunnels \/ Untouched(f)
    BY <1>2
  <2> QED
    BY <1>2, <2>1, <2>2, <2>3, <2>4, ControlFlow
<1>4. Lifecycle'
  <2>1. QueueHasReader'
    BY <1>2 DEF IInv, Lifecycle, QueueHasReader, TypeOK
  <2>2. \A f \in End : /\ worker'[f] = "none" => bytes'[f] = <<>>
                       /\ worker'[f] \in {"none", "spawned"} => Untouched(f)'
    BY <1>2 DEF IInv, Lifecycle, TypeOK, Untouched
  <2> QED
    BY <1>2, <2>1, <2>2, LaterStep DEF LaterWorker
<1> QED
  BY <1>3, <1>4 DEF IInv

LEMMA CopyEndsInv ==
    ASSUME IInv, TypeOK', NEW e \in End, CopyEnds(e)
    PROVE  IInv'
<1>1. IInv /\ TypeOK
  BY DEF IInv
<1>2. /\ UNCHANGED <<chan, mStreamId, mTunnels, sendWindow, nread, bytes,
                     peerSum, nwritten>>
      /\ worker[e] = "copying" /\ worker' = [worker EXCEPT ![e] = "ending"]
      /\ bufsize' = [bufsize EXCEPT ![e] = 0]
  BY DEF CopyEnds, inflow
<1>3. Counters' /\ HonestMessages' /\ DataInOrder' /\ CreditConserved'
  <2>1. ControlStep
    BY <1>2 DEF ControlStep
  <2>2. \A f \in End : Expecting(f)' => Expecting(f)
    BY <1>1, <1>2, ExpectingKept
  <2>3. \A f \in End : bufsize'[f] \in 0 .. sendWindow[f]
    BY <1>1, <1>2 DEF IInv, Counters, TypeOK
  <2>4. \A f \in mTunnels' : f \in mTunnels \/ Untouched(f)
    BY <1>2
  <2> QED
    BY <1>2, <2>1, <2>2, <2>3, <2>4, ControlFlow
<1>4. Lifecycle'
  <2>1. QueueHasReader'
    BY <1>2 DEF IInv, Lifecycle, QueueHasReader, TypeOK
  <2>2. \A f \in End : worker'[f] = "none" => bytes'[f] = <<>>
    BY <1>1, <1>2 DEF IInv, Lifecycle, TypeOK
  <2>3. \A f \in End : worker'[f] \in {"none", "spawned"} => Untouched(f)'
    BY <1>1, <1>2 DEF IInv, Lifecycle, TypeOK, Untouched
  <2> QED
    BY <1>2, <2>1, <2>2, <2>3, LaterStep DEF LaterWorker
<1> QED
  BY <1>3, <1>4 DEF IInv

LEMMA WindowWakeInv ==
    ASSUME IInv, TypeOK', NEW e \in End, WindowWake(e)
    PROVE  IInv'
<1>1. IInv /\ TypeOK
  BY DEF IInv
<1>2. /\ UNCHANGED <<chan, mStreamId, mTunnels, worker, sendWindow, nread, bytes,
                     peerSum, nwritten>>
      /\ worker[e] = "copying"
      /\ bufsize' = [bufsize EXCEPT ![e] = BufSize(sendWindow[e])]
  BY DEF WindowWake, inflow
<1>3. Counters' /\ HonestMessages' /\ DataInOrder' /\ CreditConserved'
  <2>1. ControlStep
    BY <1>2 DEF ControlStep
  <2>2. \A f \in End : Expecting(f)' => Expecting(f)
    BY <1>1, <1>2, ExpectingKept
  <2>3. ASSUME NEW f \in End
        PROVE  bufsize'[f] \in 0 .. sendWindow[f]
    <3>1. bufsize[f] \in 0 .. sendWindow[f] /\ sendWindow[f] \in Int
      BY <1>1 DEF IInv, Counters, TypeOK
    <3>2. BufSize(sendWindow[f]) \in 0 .. sendWindow[f]
      BY <3>1, WindowAssumption DEF BufSize
    <3> QED
      BY <1>1, <1>2, <3>1, <3>2 DEF TypeOK
  <2>4. \A f \in mTunnels' : f \in mTunnels \/ Untouched(f)
    BY <1>2
  <2> QED
    BY <1>2, <2>1, <2>2, <2>3, <2>4, ControlFlow
<1>4. Lifecycle'
  <2>1. QueueHasReader'
    BY <1>2 DEF IInv, Lifecycle, QueueHasReader
  <2>2. \A f \in End : worker'[f] = "none" => bytes'[f] = <<>>
    BY <1>1, <1>2 DEF IInv, Lifecycle
  <2>3. \A f \in End : worker'[f] \in {"none", "spawned"} => Untouched(f)'
    BY <1>1, <1>2 DEF IInv, Lifecycle, TypeOK, Untouched
  <2> QED
    BY <1>2, <2>1, <2>2, <2>3, LaterStep DEF LaterWorker
<1> QED
  BY <1>3, <1>4 DEF IInv

LEMMA OnTunnelCloseInv ==
    ASSUME IInv, TypeOK', NEW p \in Peer, OnTunnelClose(p)
    PROVE  IInv'
<1>1. IInv /\ TypeOK
  BY DEF IInv
<1>2. /\ UNCHANGED <<mStreamId, worker, sendWindow, bufsize, nread, bytes,
                     peerSum, nwritten>>
      /\ mTunnels' \subseteq mTunnels
      /\ Incoming(p, "TunnelClose") /\ Consume(p)
  BY DEF OnTunnelClose, Unregister, window, inflow
<1>3. \A q \in Peer : \/ chan'[q] = chan[q]
                      \/ /\ chan[q] # <<>> /\ Head(chan[q]) \in Control
                         /\ chan'[q] = Tail(chan[q])
  <2>1. Head(chan[Other(p)]) \in Control
    <3>1. Head(chan[Other(p)]) \in Message
          /\ Head(chan[Other(p)]).type = "TunnelClose"
      BY <1>1, <1>2, IncomingType DEF TypeOK, Incoming
    <3> QED
      BY <3>1 DEF Message, Control, Span
  <2> QED
    BY <1>1, <1>2, <2>1, ConsumeShape
<1>4. Counters' /\ HonestMessages' /\ DataInOrder' /\ CreditConserved'
  <2>1. ControlStep
    BY <1>3 DEF ControlStep
  <2>2. \A f \in End : Expecting(f)' => Expecting(f)
    BY <1>1, <1>2, <1>3, ExpectingKept
  <2>3. \A f \in End : bufsize'[f] \in 0 .. sendWindow[f]
    BY <1>1, <1>2 DEF IInv, Counters
  <2>4. \A f \in mTunnels' : f \in mTunnels \/ Untouched(f)
    BY <1>2
  <2> QED
    BY <1>2, <2>1, <2>2, <2>3, <2>4, ControlFlow
<1>5. Lifecycle'
  <2>1. QueueHasReader'
    BY <1>2 DEF IInv, Lifecycle, QueueHasReader
  <2>2. \A f \in End : worker'[f] = "none" => bytes'[f] = <<>>
    BY <1>1, <1>2 DEF IInv, Lifecycle
  <2>3. \A f \in End : worker'[f] \in {"none", "spawned"} => Untouched(f)'
    BY <1>1, <1>2 DEF IInv, Lifecycle, Untouched
  <2> QED
    BY <1>2, <1>3, <2>1, <2>2, <2>3, LaterStep DEF LaterWorker
<1> QED
  BY <1>4, <1>5 DEF IInv

\* A tunnel somebody writes about was announced.
LEMMA HeadNotReserved ==
    ASSUME IInv, NEW q \in Peer, chan[q] # <<>>
    PROVE  /\ Head(chan[q]) = chan[q][1] /\ 1 \in 1 .. Len(chan[q])
           /\ Head(chan[q]) \in Message /\ Head(chan[q]).id \in Id
           /\ ~ Reserved(Head(chan[q]).id) /\ ~ Silent(q, Head(chan[q]).id)
<1>1. chan[q] \in Seq(Message)
  BY DEF IInv, TypeOK
<1>2. Head(chan[q]) = chan[q][1] /\ 1 \in 1 .. Len(chan[q]) /\ Head(chan[q]) \in Message
  BY <1>1
<1>3. Head(chan[q]).id \in Id
  BY <1>2, MessageTypes
<1>4. ~ Silent(q, Head(chan[q]).id)
  BY <1>2 DEF Silent
<1> QED
  BY <1>2, <1>3, <1>4 DEF IInv, Lifecycle, Quiet, Peer

LEMMA RefuseOpenTunnelInv ==
    ASSUME IInv, TypeOK', RefuseOpenTunnel
    PROVE  IInv'
<1> DEFINE i == Target("server")[2]
<1>1. IInv /\ TypeOK /\ "server" \in Peer /\ "client" \in Peer
      /\ Other("server") = "client" /\ chan["client"] # <<>>
  BY DEF IInv, Peer, Other, RefuseOpenTunnel, Incoming
<1>2. /\ UNCHANGED <<mStreamId, mTunnels, worker, sendWindow, bufsize, nread, bytes,
                     peerSum, nwritten>>
      /\ chan' = [chan EXCEPT !["client"] = Tail(@),
                              !["server"] = Append(@, TunnelClose(i))]
      /\ Incoming("server", "OpenTunnel")
  BY DEF RefuseOpenTunnel, window, inflow
<1>3. i = Head(chan["client"]).id /\ i \in Id /\ ~ Reserved(i)
  BY <1>1, HeadNotReserved DEF Target
<1>4. Head(chan["client"]) \in Control
  <2>1. Head(chan["client"]) \in Message
        /\ Head(chan["client"]).type = "OpenTunnel"
    BY <1>1, <1>2, HeadNotReserved DEF Incoming
  <2> QED
    BY <2>1 DEF Message, Control, Span
<1>5. /\ TunnelClose(i) \in Control /\ TunnelClose(i) \in Message
      /\ TunnelClose(i).id = i /\ TunnelClose(i).type = "TunnelClose"
  BY <1>3, MessageTypes DEF TunnelClose, Control
<1> HIDE DEF i
<1>6. /\ chan'["client"] = Tail(chan["client"])
      /\ chan'["server"] = Append(chan["server"], TunnelClose(i))
      /\ \A q \in Peer : q = "client" \/ q = "server"
  BY <1>1, <1>2 DEF TypeOK, Peer
<1>7. Counters' /\ HonestMessages' /\ DataInOrder' /\ CreditConserved'
  <2>1. ControlStep
    BY <1>1, <1>4, <1>5, <1>6 DEF ControlStep
  <2>2. \A q \in Peer :
          \/ chan'[q] = chan[q]
          \/ chan[q] # <<>> /\ chan'[q] = Tail(chan[q])
          \/ \E m \in Message :
                chan'[q] = Append(chan[q], m) /\ m.type # "OpenTunnel"
    BY <1>1, <1>5, <1>6
  <2>3. \A f \in End : Expecting(f)' => Expecting(f)
    BY <1>1, <1>2, <2>2, ExpectingKept
  <2>4. \A f \in End : bufsize'[f] \in 0 .. sendWindow[f]
    BY <1>1, <1>2 DEF IInv, Counters
  <2>5. \A f \in mTunnels' : f \in mTunnels \/ Untouched(f)
    BY <1>2
  <2> QED
    BY <1>2, <2>1, <2>3, <2>4, <2>5, ControlFlow
<1>8. Lifecycle'
  <2>1. QueueHasReader'
    BY <1>2 DEF IInv, Lifecycle, QueueHasReader
  <2>2. \A f \in End : worker'[f] = "none" => bytes'[f] = <<>>
    BY <1>1, <1>2 DEF IInv, Lifecycle
  <2>3. \A f \in End : worker'[f] \in {"none", "spawned"} => Untouched(f)'
    BY <1>1, <1>2 DEF IInv, Lifecycle, Untouched
  <2>4. \A q \in Peer :
          \/ chan'[q] = chan[q]
          \/ chan[q] # <<>> /\ chan'[q] = Tail(chan[q])
          \/ \E m \in Message :
                /\ chan'[q] = Append(chan[q], m)
                /\ m.type # "OpenTunnel" /\ ~ Reserved(m.id)
    BY <1>1, <1>3, <1>5, <1>6
  <2> QED
    BY <1>2, <2>1, <2>2, <2>3, <2>4, LaterStep DEF LaterWorker
<1> QED
  BY <1>7, <1>8 DEF IInv

LEMMA OnOpenTunnelInv ==
    ASSUME IInv, TypeOK', NEW p \in Peer, OnOpenTunnel(p)
    PROVE  IInv'
<1> DEFINE e == Target(p)
           s == chan[Other(p)]
<1>1. IInv /\ TypeOK /\ Other(p) \in Peer /\ s # <<>>
  BY OtherPeer DEF IInv, OnOpenTunnel, Incoming
<1>2. /\ UNCHANGED <<mStreamId, sendWindow, bufsize, nread, bytes, peerSum, nwritten>>
      /\ Incoming(p, "OpenTunnel") /\ Consume(p) /\ AddTunnel(e)
      /\ OpenedBy(e[2]) = Other(p)
  BY DEF OnOpenTunnel, window, inflow
<1>3. /\ e = <<p, Head(s).id>> /\ e \in End /\ e[1] = p /\ e[2] = Head(s).id
      /\ s[1] = Head(s) /\ 1 \in 1 .. Len(s) /\ Head(s).type = "OpenTunnel"
      /\ Head(s) \in Message /\ e[2] \in Id /\ ~ Reserved(e[2])
  BY <1>1, <1>2, HeadNotReserved DEF Target, Incoming, End
<1>4. worker[e] = "none" /\ bytes[e] = <<>> /\ Untouched(e) /\ e \notin mTunnels
  <2>1. worker[e] = "none"
    BY <1>1, <1>3, OtherPeer DEF IInv, Lifecycle, FreshOpen
  <2> QED
    BY <1>3, <2>1 DEF IInv, Lifecycle, QueueHasReader
<1>5. mTunnels' = mTunnels \cup {e} /\ worker' = [worker EXCEPT ![e] = "spawned"]
  BY <1>2, <1>4 DEF AddTunnel
<1>6. Head(s) \in Control /\ Head(s) = OpenTunnel(e[2])
  BY <1>3 DEF Message, Control, Span, OpenTunnel
<1>7. \A q \in Peer : \/ q = p /\ chan'[q] = chan[q]
                      \/ q = Other(p) /\ chan'[q] = Tail(chan[q])
  BY <1>1, <1>2, ConsumeShape
<1>8. Counters' /\ HonestMessages' /\ DataInOrder' /\ CreditConserved'
  <2>1. ControlStep
    BY <1>1, <1>6, <1>7 DEF ControlStep
  <2>2. ASSUME NEW f \in End, Expecting(f)'
        PROVE  Expecting(f)
    <3>1. CASE f = e
      BY <1>1, <1>3, <1>6, <3>1 DEF Expecting, InFlight
    <3>2. CASE f \in mTunnels
      BY <3>2 DEF Expecting
    <3>3. CASE /\ f # e
               /\ \E k \in 1 .. Len(chan'[Other(f[1])]) :
                     chan'[Other(f[1])][k] = OpenTunnel(f[2])
      <4>1. PICK k \in 1 .. Len(chan'[Other(f[1])]) :
                     chan'[Other(f[1])][k] = OpenTunnel(f[2])
        BY <3>3
      <4>2. Other(f[1]) \in Peer /\ chan[Other(f[1])] \in Seq(Message)
        BY <1>1, FarEnd, OtherPeer DEF TypeOK
      <4>3. CASE chan'[Other(f[1])] = chan[Other(f[1])]
        BY <4>1, <4>3 DEF Expecting, InFlight
      <4>4. CASE /\ chan[Other(f[1])] # <<>>
                 /\ chan'[Other(f[1])] = Tail(chan[Other(f[1])])
        <5>1. /\ k + 1 \in 1 .. Len(chan[Other(f[1])])
              /\ chan'[Other(f[1])][k] = chan[Other(f[1])][k + 1]
          BY <4>1, <4>2, <4>4
        <5> QED
          BY <4>1, <5>1 DEF Expecting, InFlight
      <4> QED
        BY <1>1, <1>7, <4>2, <4>3, <4>4
    <3> QED
      BY <1>5, <2>2, <3>1, <3>2, <3>3 DEF Expecting, InFlight, OpenTunnel
  <2>3. \A f \in End : bufsize'[f] \in 0 .. sendWindow[f]
    BY <1>1, <1>2 DEF IInv, Counters
  <2>4. \A f \in mTunnels' : f \in mTunnels \/ Untouched(f)
    BY <1>4, <1>5
  <2> HIDE DEF e, s
  <2> QED
    BY <1>2, <2>1, <2>2, <2>3, <2>4, ControlFlow
<1>9. Lifecycle'
  <2>1. QueueHasReader'
    BY <1>1, <1>3, <1>5 DEF IInv, Lifecycle, QueueHasReader, TypeOK
  <2>2. \A f \in End : worker'[f] = "none" => worker[f] = "none" /\ bytes'[f] = <<>>
    BY <1>1, <1>2, <1>3, <1>5 DEF IInv, Lifecycle, TypeOK
  <2>3. \A f \in End : worker'[f] \in {"none", "spawned"} => Untouched(f)'
    <3>1. \A f \in End : Untouched(f)' <=> Untouched(f)
      BY <1>2 DEF Untouched
    <3> QED
      BY <1>1, <1>3, <1>4, <1>5, <3>1 DEF IInv, Lifecycle, TypeOK
  <2>4. \A f \in End : worker[f] = "none" /\ worker'[f] # "none" =>
           /\ chan[Other(f[1])] # <<>> /\ Head(chan[Other(f[1])]).id = f[2]
           /\ chan'[Other(f[1])] = Tail(chan[Other(f[1])])
    <3>1. p # Other(p)
      BY OtherPeer
    <3>2. \A f \in End : worker[f] = "none" /\ worker'[f] # "none" => f = e
      BY <1>1, <1>3, <1>5 DEF TypeOK
    <3>3. chan'[Other(p)] = Tail(s)
      BY <1>1, <1>7, <3>1
    <3> QED
      BY <1>1, <1>3, <3>2, <3>3
  <2>5. ASSUME NEW i \in Id, Reserved(i)'
        PROVE  /\ Reserved(i)
               /\ worker'[<<OpenedBy(i), i>>] \in {"none", "spawned"}
               /\ worker'[<<Other(OpenedBy(i)), i>>] = "none"
    <3>1. e # <<OpenedBy(e[2]), e[2]>>
      BY <1>2, <1>3, OtherPeer
    <3>2. \A j \in Id : worker'[<<OpenedBy(j), j>>] = worker[<<OpenedBy(j), j>>]
      <4>1. \A j \in Id : <<OpenedBy(j), j>> \in End /\ e # <<OpenedBy(j), j>>
        BY <1>3, <3>1 DEF OpenedBy, End, Peer
      <4> QED
        BY <1>1, <1>5, <4>1 DEF TypeOK
    <3>3. Reserved(i)
      BY <1>2, <2>5, <3>2 DEF Reserved, OpenedBy
    <3>4. i # e[2] /\ Quiet(i)
      BY <1>1, <1>3, <3>3 DEF IInv, Lifecycle
    <3>5. <<Other(OpenedBy(i)), i>> # e /\ <<Other(OpenedBy(i)), i>> \in End
      BY <1>3, <3>4, OtherPeer DEF OpenedBy, End, Peer
    <3> QED
      BY <1>1, <1>5, <3>2, <3>3, <3>4, <3>5 DEF Quiet, TypeOK
  <2>6. \A i \in Id : i >= mStreamId'[OpenedBy(i)]
                         => worker'[<<OpenedBy(i), i>>] = "none"
    <3>1. ASSUME NEW i \in Id
          PROVE  e # <<OpenedBy(i), i>> /\ <<OpenedBy(i), i>> \in End
      BY <1>2, <1>3, OtherPeer DEF OpenedBy, End, Peer
    <3> QED
      BY <1>1, <1>2, <1>5, <3>1 DEF IInv, Lifecycle, TypeOK
  <2>7. \A q \in Peer : \/ chan'[q] = chan[q]
                        \/ chan[q] # <<>> /\ chan'[q] = Tail(chan[q])
    BY <1>1, <1>7
  <2> HIDE DEF e, s
  <2> QED
    BY <1>1, <2>1, <2>2, <2>3, <2>4, <2>5, <2>6, <2>7, LifecycleStep
<1> QED
  BY <1>8, <1>9 DEF IInv

LEMMA StartCopyInv ==
    ASSUME IInv, TypeOK', NEW e \in End, StartCopy(e)
    PROVE  IInv'
<1> DEFINE announces == e[1] = "server" /\ OpenedBy(e[2]) = "server"
<1>1. IInv /\ TypeOK
  BY DEF IInv
<1>2. /\ UNCHANGED <<mStreamId, mTunnels, sendWindow, nread, bytes, peerSum, nwritten>>
      /\ worker[e] = "spawned" /\ worker' = [worker EXCEPT ![e] = "copying"]
      /\ bufsize' = [bufsize EXCEPT ![e] = BufSize(sendWindow[e])]
      /\ announces => Send("server", OpenTunnel(e[2]))
      /\ ~ announces => chan' = chan
  BY DEF StartCopy, inflow
<1>3. LaterWorker
  BY <1>2 DEF LaterWorker
<1>4. ASSUME announces
      PROVE  /\ e = <<"server", e[2]>> /\ Far(e) = <<"client", e[2]>>
             /\ Silent("server", e[2]) /\ worker[Far(e)] = "none"
             /\ bytes[Far(e)] = <<>> /\ nwritten[Far(e)] = 0 /\ nread[e] = 0
             /\ OpenTunnel(e[2]) \in Control /\ OpenTunnel(e[2]) \in Message
             /\ OpenTunnel(e[2]).id = e[2] /\ OpenTunnel(e[2]).type = "OpenTunnel"
             /\ \A q \in Peer :
                  \/ q = "server" /\ chan'[q] = Append(chan[q], OpenTunnel(e[2]))
                  \/ q = "client" /\ chan'[q] = chan[q]
  <2>1. e[2] \in Id /\ e = <<"server", e[2]>> /\ Far(e) = <<"client", e[2]>>
        /\ Far(e) \in End
    BY <1>4, FarEnd DEF Far, Other
  <2>2. Reserved(e[2])
    BY <1>2, <1>4, <2>1 DEF Reserved
  <2>3. Silent("server", e[2]) /\ worker[Far(e)] = "none"
    BY <1>1, <1>4, <2>1, <2>2 DEF IInv, Lifecycle, Quiet, Other
  <2>4. bytes[Far(e)] = <<>> /\ Untouched(Far(e)) /\ Untouched(e)
    BY <1>1, <1>2, <2>1, <2>3 DEF IInv, Lifecycle
  <2>5. \A q \in Peer :
          \/ q = "server" /\ chan'[q] = Append(chan[q], OpenTunnel(e[2]))
          \/ q = "client" /\ chan'[q] = chan[q]
    BY <1>1, <1>2, <1>4, SendShape DEF Peer, Other
  <2> QED
    BY <2>1, <2>3, <2>4, <2>5, MessageTypes DEF Untouched, OpenTunnel, Control
<1> HIDE DEF announces
<1>5. Counters' /\ HonestMessages' /\ DataInOrder' /\ CreditConserved'
  <2>1. ControlStep
    BY <1>2, <1>4 DEF ControlStep
  <2>2. ASSUME NEW f \in End, Expecting(f)'
        PROVE  \/ Expecting(f)
               \/ /\ Silent(Other(f[1]), f[2]) /\ bytes[f] = <<>>
                  /\ nwritten[f] = 0 /\ nread[Far(f)] = 0
    <3>1. CASE f \in mTunnels \/ chan'[Other(f[1])] = chan[Other(f[1])]
      BY <1>2, <2>2, <3>1 DEF Expecting, InFlight, OpenTunnel
    <3>2. CASE f \notin mTunnels /\ chan'[Other(f[1])] # chan[Other(f[1])]
      <4>1. Other(f[1]) \in Peer /\ f[2] \in Id /\ chan[Other(f[1])] \in Seq(Message)
        BY <1>1, FarEnd, OtherPeer DEF TypeOK
      <4>2. Other(f[1]) = "server" /\ announces
            /\ chan'["server"] = Append(chan["server"], OpenTunnel(e[2]))
        BY <1>2, <1>4, <3>2, <4>1
      <4>3. PICK k \in 1 .. Len(chan'["server"]) :
                    chan'["server"][k] = OpenTunnel(f[2])
        BY <1>2, <2>2, <3>2, <4>2 DEF Expecting, InFlight, OpenTunnel
      <4>4. CASE k \in 1 .. Len(chan["server"])
        BY <4>1, <4>2, <4>3, <4>4 DEF Expecting, InFlight
      <4>5. CASE k \notin 1 .. Len(chan["server"])
        <5>1. OpenTunnel(f[2]) = OpenTunnel(e[2])
          BY <4>1, <4>2, <4>3, <4>5
        <5>2. f[2] = e[2]
          BY <5>1 DEF OpenTunnel
        <5>3. f = Far(e) /\ Far(f) = e
          BY <1>4, <4>2, <5>2, FarEnd DEF Other
        <5> QED
          BY <1>4, <4>2, <5>2, <5>3
      <4> QED
        BY <4>4, <4>5
    <3> QED
      BY <3>1, <3>2
  <2>3. ASSUME NEW f \in End
        PROVE  bufsize'[f] \in 0 .. sendWindow[f]
    <3>1. bufsize[f] \in 0 .. sendWindow[f] /\ sendWindow[f] \in Int
      BY <1>1 DEF IInv, Counters, TypeOK
    <3>2. BufSize(sendWindow[f]) \in 0 .. sendWindow[f]
      BY <3>1, WindowAssumption DEF BufSize
    <3> QED
      BY <1>1, <1>2, <3>1, <3>2 DEF TypeOK
  <2>4. \A f \in mTunnels' : f \in mTunnels \/ Untouched(f)
    BY <1>2
  <2> QED
    BY <1>2, <2>1, <2>2, <2>3, <2>4, ControlFlow
<1>6. Lifecycle'
  <2>1. QueueHasReader'
    BY <1>2 DEF IInv, Lifecycle, QueueHasReader, TypeOK
  <2>2. \A f \in End : worker'[f] = "none" => worker[f] = "none" /\ bytes'[f] = <<>>
    BY <1>1, <1>2 DEF IInv, Lifecycle, TypeOK
  <2>3. \A f \in End : worker'[f] \in {"none", "spawned"} => Untouched(f)'
    BY <1>1, <1>2 DEF IInv, Lifecycle, TypeOK, Untouched
  <2>4. \A f \in End : worker[f] = "none" => worker'[f] = "none"
    BY <1>2, <1>3, LaterReserved
  <2>5. ASSUME announces
        PROVE  ~ Reserved(e[2])' /\ worker'[<<"client", e[2]>>] = "none"
    <3>1. worker'[e] = "copying"
      BY <1>1, <1>2 DEF TypeOK
    <3>2. e[2] \in Id /\ <<"client", e[2]>> \in End
      BY FarEnd DEF End, Peer
    <3>3. OpenedBy(e[2]) = "server"
      BY <2>5 DEF announces
    <3>4. e = <<"server", e[2]>>
      BY <1>4, <2>5
    <3>5. ~ Reserved(e[2])'
      <4>1. e[2] >= mStreamId'[OpenedBy(e[2])]
              => worker'[<<OpenedBy(e[2]), e[2]>>] = "none"
        BY <1>2, <1>3, <3>2, LaterReserved
      <4>2. worker'[<<"server", e[2]>>] = "copying"
        BY <3>1, <3>4
      <4> QED
        BY <3>3, <4>1, <4>2 DEF Reserved
    <3>6. worker'[<<"client", e[2]>>] = "none"
      BY <1>2, <1>4, <2>5, <2>4, <3>2
    <3> QED
      BY <3>5, <3>6
  <2>6. \A q \in Peer :
          \/ chan'[q] = chan[q]
          \/ \E m \in Message :
                /\ chan'[q] = Append(chan[q], m)
                /\ ~ Reserved(m.id)'
                /\ m.type = "OpenTunnel" =>
                     /\ OpenedBy(m.id) = q
                     /\ worker'[<<Other(q), m.id>>] = "none"
                     /\ Silent(q, m.id)
    <3>1. CASE ~ announces
      BY <1>2, <3>1
    <3>2. CASE announces
      <4> DEFINE m == OpenTunnel(e[2])
      <4>1. m \in Message /\ m.id = e[2] /\ m.type = "OpenTunnel"
        BY <1>4, <3>2
      <4>2. OpenedBy(e[2]) = "server" /\ Other("server") = "client"
        BY <3>2 DEF announces, Other
      <4>3. ~ Reserved(m.id)'
        BY <2>5, <3>2, <4>1
      <4> HIDE DEF m
      <4>4. \A q \in Peer : \/ q = "server" /\ chan'[q] = Append(chan[q], m)
                            \/ q = "client" /\ chan'[q] = chan[q]
        BY <1>4, <3>2 DEF m
      <4> QED
        BY <1>4, <2>5, <3>2, <4>1, <4>2, <4>3, <4>4
    <3> QED
      BY <3>1, <3>2
  <2> QED
    BY <1>2, <1>3, <2>1, <2>2, <2>3, <2>4, <2>6, LaterReserved, LifecycleStep
<1> QED
  BY <1>5, <1>6 DEF IInv

\* The end that its peer is about to open: nothing about the tunnel exists.
LEMMA NextEnd ==
    ASSUME IInv, NEW p \in Peer, NEW i \in Id, i = mStreamId[p],
           NEW e, e = <<p, i>>
    PROVE  /\ e \in End /\ e[1] = p /\ e[2] = i /\ Far(e) = <<Other(p), i>>
           /\ OpenedBy(i) = p /\ e \notin mTunnels
           /\ Silent("server", i) /\ Silent("client", i)
           /\ \A f \in End : f[2] = i =>
                worker[f] = "none" /\ bytes[f] = <<>> /\ Untouched(f)
<1>1. e \in End /\ e[1] = p /\ e[2] = i /\ Far(e) = <<Other(p), i>>
  BY DEF End, Far
<1>2. OpenedBy(i) = p
  BY DEF IInv, TypeOK
<1>3. i >= mStreamId[OpenedBy(i)]
  BY <1>2 DEF IInv, TypeOK, Id
<1>4. Reserved(i)
  BY <1>3 DEF Reserved
<1>5. Quiet(i) /\ worker[<<OpenedBy(i), i>>] = "none"
  BY <1>3, <1>4 DEF IInv, Lifecycle
<1>6. \A f \in End : f[2] = i => worker[f] = "none"
  BY <1>1, <1>2, <1>5, FarEnd DEF Quiet
<1> QED
  BY <1>1, <1>2, <1>5, <1>6 DEF IInv, Lifecycle, Quiet, QueueHasReader

LEMMA OpenReserved ==
    ASSUME IInv, NEW p \in Peer, NEW i \in Id, i = mStreamId[p],
           NEW e, e = <<p, i>>,
           mStreamId' = [mStreamId EXCEPT ![p] = NextId(@)],
           worker' = [worker EXCEPT ![e] = "spawned"]
    PROVE  /\ \A j \in Id : Reserved(j)' =>
                 /\ Reserved(j)
                 /\ worker'[<<OpenedBy(j), j>>] \in {"none", "spawned"}
                 /\ worker'[<<Other(OpenedBy(j)), j>>] = "none"
           /\ \A j \in Id : j >= mStreamId'[OpenedBy(j)]
                               => worker'[<<OpenedBy(j), j>>] = "none"
           /\ p = "client" => ~ Reserved(i)'
<1>1. /\ worker \in [End -> {"none", "spawned", "copying", "ending", "gone"}]
      /\ mStreamId \in [Peer -> Nat] /\ i \in Nat
  BY DEF IInv, TypeOK, Id
<1>2. /\ e \in End /\ OpenedBy(i) = p /\ worker[e] = "none"
      /\ worker[<<Other(p), i>>] = "none"
  BY NextEnd, OtherPeer DEF End
<1>3. \A j \in Id : /\ OpenedBy(j) \in Peer /\ Other(OpenedBy(j)) \in Peer
                    /\ <<OpenedBy(j), j>> \in End /\ <<Other(OpenedBy(j)), j>> \in End
                    /\ OpenedBy(j) = "server" => <<"server", j>> = <<OpenedBy(j), j>>
  BY OtherPeer DEF OpenedBy, Peer, End
<1>4. worker'[e] = "spawned" /\ \A f \in End : f # e => worker'[f] = worker[f]
  BY <1>1, <1>2
<1>5. mStreamId'[p] = i + 2 /\ \A q \in Peer : q # p => mStreamId'[q] = mStreamId[q]
  BY <1>1 DEF NextId
<1>6. ASSUME NEW j \in Id, j >= mStreamId'[OpenedBy(j)]
      PROVE  j # i /\ j >= mStreamId[OpenedBy(j)]
  <2>1. CASE OpenedBy(j) = p
    BY <1>1, <1>5, <1>6, <2>1 DEF Id
  <2>2. CASE OpenedBy(j) # p
    BY <1>2, <1>3, <1>5, <1>6, <2>2
  <2> QED
    BY <2>1, <2>2
<1>7. ASSUME NEW j \in Id, j # i
      PROVE  /\ worker'[<<OpenedBy(j), j>>] = worker[<<OpenedBy(j), j>>]
             /\ worker'[<<Other(OpenedBy(j)), j>>] = worker[<<Other(OpenedBy(j)), j>>]
  <2>1. <<OpenedBy(j), j>> # e /\ <<Other(OpenedBy(j)), j>> # e
    BY <1>7
  <2> QED
    BY <1>3, <1>4, <2>1
<1>8. ASSUME NEW j \in Id, Reserved(j)'
      PROVE  /\ Reserved(j)
             /\ worker'[<<OpenedBy(j), j>>] \in {"none", "spawned"}
             /\ worker'[<<Other(OpenedBy(j)), j>>] = "none"
  <2>1. CASE j = i
    <3>1. Reserved(j)
      BY <1>1, <1>2, <2>1 DEF Reserved
    <3>2. <<Other(p), i>> # e /\ <<Other(p), i>> \in End
      BY <1>2, <1>3, OtherPeer
    <3> QED
      BY <1>2, <1>4, <2>1, <3>1, <3>2
  <2>2. CASE j # i
    <3>1. Reserved(j)
      BY <1>3, <1>6, <1>7, <1>8, <2>2 DEF Reserved
    <3>2. Quiet(j)
      BY <3>1 DEF IInv, Lifecycle
    <3> QED
      BY <1>7, <2>2, <3>1, <3>2 DEF Quiet
  <2> QED
    BY <2>1, <2>2
<1>9. \A j \in Id : j >= mStreamId'[OpenedBy(j)]
                      => worker'[<<OpenedBy(j), j>>] = "none"
  BY <1>6, <1>7 DEF IInv, Lifecycle
<1>10. p = "client" => ~ Reserved(i)'
  BY <1>2, <1>6 DEF Reserved
<1> QED
  BY <1>8, <1>9, <1>10

LEMMA ServerOpenTunnelInv ==
    ASSUME IInv, TypeOK', ServerOpenTunnel
    PROVE  IInv'
<1> DEFINE i == mStreamId["server"]
           e == <<"server", i>>
<1>1. IInv /\ TypeOK /\ "server" \in Peer /\ i \in Id
  BY DEF IInv, Peer, ServerOpenTunnel
<1>2. /\ UNCHANGED <<chan, sendWindow, bufsize, nread, bytes, peerSum, nwritten>>
      /\ mStreamId' = [mStreamId EXCEPT !["server"] = NextId(@)]
      /\ AddTunnel(e)
  BY DEF ServerOpenTunnel, window, inflow
<1>3. /\ e \in End /\ e[1] = "server" /\ e[2] = i /\ OpenedBy(i) = "server"
      /\ e \notin mTunnels /\ Silent("client", i)
      /\ \A f \in End : f[2] = i =>
            worker[f] = "none" /\ bytes[f] = <<>> /\ Untouched(f)
  BY <1>1, NextEnd
<1>4. mTunnels' = mTunnels \cup {e} /\ worker' = [worker EXCEPT ![e] = "spawned"]
  BY <1>2, <1>3 DEF AddTunnel
<1>5. /\ \A j \in Id : Reserved(j)' =>
                 /\ Reserved(j)
                 /\ worker'[<<OpenedBy(j), j>>] \in {"none", "spawned"}
                 /\ worker'[<<Other(OpenedBy(j)), j>>] = "none"
      /\ \A j \in Id : j >= mStreamId'[OpenedBy(j)]
                         => worker'[<<OpenedBy(j), j>>] = "none"
  BY <1>1, <1>2, <1>4, OpenReserved
<1> HIDE DEF e, i
<1>6. Counters' /\ HonestMessages' /\ DataInOrder' /\ CreditConserved'
  <2>1. ControlStep
    BY <1>2 DEF ControlStep
  <2>2. ASSUME NEW f \in End, Expecting(f)'
        PROVE  \/ Expecting(f)
               \/ /\ Silent(Other(f[1]), f[2]) /\ bytes[f] = <<>>
                  /\ nwritten[f] = 0 /\ nread[Far(f)] = 0
    <3>1. CASE f # e
      BY <1>2, <1>4, <2>2, <3>1 DEF Expecting, InFlight, OpenTunnel
    <3>2. CASE f = e
      BY <1>3, <3>2, FarEnd DEF Untouched, Other
    <3> QED
      BY <3>1, <3>2
  <2>3. \A f \in End : bufsize'[f] \in 0 .. sendWindow[f]
    BY <1>1, <1>2 DEF IInv, Counters
  <2>4. \A f \in mTunnels' : f \in mTunnels \/ Untouched(f)
    BY <1>3, <1>4
  <2> QED
    BY <1>2, <2>1, <2>2, <2>3, <2>4, ControlFlow
<1>7. Lifecycle'
  <2>1. QueueHasReader'
    BY <1>1, <1>3, <1>4 DEF IInv, Lifecycle, QueueHasReader, TypeOK
  <2>2. \A f \in End : worker'[f] = "none" => worker[f] = "none" /\ bytes'[f] = <<>>
    BY <1>1, <1>2, <1>3, <1>4 DEF IInv, Lifecycle, TypeOK
  <2>3. \A f \in End : worker'[f] \in {"none", "spawned"} => Untouched(f)'
    <3>1. \A f \in End : Untouched(f)' <=> Untouched(f)
      BY <1>2 DEF Untouched
    <3> QED
      BY <1>1, <1>3, <1>4, <3>1 DEF IInv, Lifecycle, TypeOK
  <2>4. \A f \in End : worker[f] = "none" /\ worker'[f] # "none" =>
                          OpenedBy(f[2]) = f[1]
    BY <1>1, <1>3, <1>4 DEF TypeOK
  <2> QED
    BY <1>2, <1>5, <2>1, <2>2, <2>3, <2>4, LifecycleStep
<1> QED
  BY <1>6, <1>7 DEF IInv

LEMMA ClientForwardInv ==
    ASSUME IInv, TypeOK', ClientForward
    PROVE  IInv'
<1> PICK i \in Id : i = mStreamId["client"]
  BY DEF ClientForward
<1> DEFINE e == <<"client", i>>
           m == OpenTunnel(i)
<1>1. /\ IInv /\ TypeOK /\ "client" \in Peer /\ i \in Id
      /\ Other("client") = "server" /\ Other("server") = "client"
  BY DEF IInv, Peer, Other, ClientForward
<1>2. /\ UNCHANGED <<sendWindow, bufsize, nread, bytes, peerSum, nwritten>>
      /\ mStreamId' = [mStreamId EXCEPT !["client"] = NextId(@)]
      /\ AddTunnel(e) /\ Send("client", m)
  BY DEF ClientForward, window, inflow
<1>3. /\ e \in End /\ e[1] = "client" /\ e[2] = i /\ OpenedBy(i) = "client"
      /\ Far(e) = <<"server", i>>
      /\ e \notin mTunnels /\ Silent("server", i) /\ Silent("client", i)
      /\ \A f \in End : f[2] = i =>
            worker[f] = "none" /\ bytes[f] = <<>> /\ Untouched(f)
  BY <1>1, NextEnd
<1>4. mTunnels' = mTunnels \cup {e} /\ worker' = [worker EXCEPT ![e] = "spawned"]
  BY <1>2, <1>3 DEF AddTunnel
<1>5. /\ \A j \in Id : Reserved(j)' =>
                 /\ Reserved(j)
                 /\ worker'[<<OpenedBy(j), j>>] \in {"none", "spawned"}
                 /\ worker'[<<Other(OpenedBy(j)), j>>] = "none"
      /\ \A j \in Id : j >= mStreamId'[OpenedBy(j)]
                         => worker'[<<OpenedBy(j), j>>] = "none"
      /\ ~ Reserved(i)'
  BY <1>1, <1>2, <1>4, OpenReserved
<1>6. m \in Message /\ m \in Control /\ m.id = i /\ m.type = "OpenTunnel"
  BY <1>1, MessageTypes DEF OpenTunnel, Control
<1>7. \A q \in Peer : \/ q = "client" /\ chan'[q] = Append(chan[q], m)
                      \/ q = "server" /\ chan'[q] = chan[q]
  BY <1>1, <1>2, SendShape
<1> HIDE DEF e, m
<1>8. Counters' /\ HonestMessages' /\ DataInOrder' /\ CreditConserved'
  <2>1. ControlStep
    BY <1>6, <1>7 DEF ControlStep
  <2>2. ASSUME NEW f \in End, Expecting(f)'
        PROVE  \/ Expecting(f)
               \/ /\ Silent(Other(f[1]), f[2]) /\ bytes[f] = <<>>
                  /\ nwritten[f] = 0 /\ nread[Far(f)] = 0
    <3>0. /\ f[2] \in Id /\ Far(f) \in End /\ Far(f)[2] = f[2]
          /\ Other(f[1]) \in Peer
      BY FarEnd, OtherPeer
    <3>1. CASE f[2] = i
      BY <1>3, <3>0, <3>1 DEF Untouched, Peer
    <3>2. CASE f[2] # i
      <4>1. f \in mTunnels' => f \in mTunnels
        BY <1>3, <1>4, <3>2
      <4>2. ASSUME NEW k \in 1 .. Len(chan'[Other(f[1])]),
                   chan'[Other(f[1])][k] = OpenTunnel(f[2])
            PROVE  Expecting(f)
        <5>1. CASE chan'[Other(f[1])] = chan[Other(f[1])]
          BY <4>2, <5>1 DEF Expecting, InFlight
        <5>2. CASE chan'[Other(f[1])] = Append(chan[Other(f[1])], m)
          <6>1. chan[Other(f[1])] \in Seq(Message)
            BY <1>1, <3>0 DEF TypeOK
          <6>2. \/ chan'[Other(f[1])][k] = m
                \/ /\ k \in 1 .. Len(chan[Other(f[1])])
                   /\ chan'[Other(f[1])][k] = chan[Other(f[1])][k]
            BY <4>2, <5>2, <6>1
          <6>3. OpenTunnel(f[2]).id = f[2]
            BY DEF OpenTunnel
          <6> QED
            BY <1>6, <3>2, <4>2, <6>2, <6>3 DEF Expecting, InFlight
        <5> QED
          BY <1>7, <3>0, <5>1, <5>2
      <4> QED
        BY <2>2, <4>1, <4>2 DEF Expecting, InFlight, OpenTunnel
    <3> QED
      BY <3>1, <3>2
  <2>3. \A f \in End : bufsize'[f] \in 0 .. sendWindow[f]
    BY <1>1, <1>2 DEF IInv, Counters
  <2>4. \A f \in mTunnels' : f \in mTunnels \/ Untouched(f)
    BY <1>3, <1>4
  <2> QED
    BY <1>2, <2>1, <2>2, <2>3, <2>4, ControlFlow
<1>9. Lifecycle'
  <2>1. QueueHasReader'
    BY <1>1, <1>3, <1>4 DEF IInv, Lifecycle, QueueHasReader, TypeOK
  <2>2. \A f \in End : worker'[f] = "none" => worker[f] = "none" /\ bytes'[f] = <<>>
    BY <1>1, <1>2, <1>3, <1>4 DEF IInv, Lifecycle, TypeOK
  <2>3. \A f \in End : worker'[f] \in {"none", "spawned"} => Untouched(f)'
    <3>1. \A f \in End : Untouched(f)' <=> Untouched(f)
      BY <1>2 DEF Untouched
    <3> QED
      BY <1>1, <1>3, <1>4, <3>1 DEF IInv, Lifecycle, TypeOK
  <2>4. \A f \in End : worker[f] = "none" /\ worker'[f] # "none" =>
                          OpenedBy(f[2]) = f[1]
    BY <1>1, <1>3, <1>4 DEF TypeOK
  <2>5. worker'[<<"server", i>>] = "none"
    <3>1. <<"server", i>> # e /\ <<"server", i>> \in End
      BY <1>1, <1>3 DEF End, Peer
    <3> QED
      BY <1>1, <1>3, <1>4, <3>1 DEF TypeOK
  <2>6. \A q \in Peer :
          \/ chan'[q] = chan[q]
          \/ \E n \in Message :
                /\ chan'[q] = Append(chan[q], n)
                /\ ~ Reserved(n.id)'
                /\ n.type = "OpenTunnel" =>
                     /\ OpenedBy(n.id) = q
                     /\ worker'[<<Other(q), n.id>>] = "none"
                     /\ Silent(q, n.id)
    <3>1. ~ Reserved(m.id)'
      BY <1>5, <1>6
    <3>2. /\ chan'["client"] = Append(chan["client"], m)
          /\ OpenedBy(m.id) = "client" /\ Silent("client", m.id)
          /\ worker'[<<Other("client"), m.id>>] = "none"
      BY <1>1, <1>3, <1>6, <1>7, <2>5
    <3> QED
      BY <1>6, <1>7, <3>1, <3>2
  <2> QED
    BY <1>5, <2>1, <2>2, <2>3, <2>4, <2>6, LifecycleStep
<1> QED
  BY <1>8, <1>9 DEF IInv

-----------------------------------------------------------------------------
(* The invariant under the actions that move bytes or credit. *)

LEMMA SpanKinds ==
    ASSUME NEW i \in Id, NEW j \in Id, NEW a \in Int, NEW b \in Int
    PROVE  /\ DataExchange(i, a, b) \in DataOf(j) <=> i = j
           /\ DataExchange(i, a, b) \notin CreditOf(j)
           /\ WindowUpdate(i, a, b) \in CreditOf(j) <=> i = j
           /\ WindowUpdate(i, a, b) \notin DataOf(j)
BY DEF DataExchange, WindowUpdate, DataOf, CreditOf

LEMMA MessageKinds ==
    ASSUME NEW m \in Message, NEW j \in Id
    PROVE  /\ m \in DataOf(j) <=> m.type = "DataExchange" /\ m.id = j
           /\ m \in CreditOf(j) <=> m.type = "WindowUpdate" /\ m.id = j
BY DEF DataOf, CreditOf, Message, Span

LEMMA ReceivedType ==
    ASSUME TypeOK, NEW e \in End
    PROVE  /\ Received(e) \in Int /\ nwritten[e] \in Int /\ peerSum[e] \in Int
           /\ sendWindow[e] \in Int /\ nread[e] \in Nat /\ bufsize[e] \in Int
<1>1. bytes[e] \in Seq(Span) /\ nwritten[e] \in Int
  BY DEF TypeOK
<1>2. bytes[e] # <<>> => bytes[e][Len(bytes[e])] \in Span
  BY <1>1
<1> QED
  BY <1>1, <1>2, MessageTypes DEF Received, TypeOK

LEMMA HonestKept ==
    ASSUME TypeOK, TypeOK', NEW p \in Peer, NEW m \in Message, Honest(p, m),
           \A e \in End : nread[e] <= nread'[e],
           \A e \in End : nwritten[e] - peerSum[e] <= nwritten'[e] - peerSum'[e]
    PROVE  Honest(p, m)'
<1>1. <<p, m.id>> \in End
  BY MessageTypes DEF End
<1>2. /\ nread[<<p, m.id>>] \in Int /\ nread'[<<p, m.id>>] \in Int
      /\ nwritten[<<p, m.id>>] - peerSum[<<p, m.id>>] \in Int
      /\ nwritten'[<<p, m.id>>] - peerSum'[<<p, m.id>>] \in Int
  <2>1. /\ nread[<<p, m.id>>] \in Int /\ nread'[<<p, m.id>>] \in Int
        /\ nwritten[<<p, m.id>>] \in Int /\ peerSum[<<p, m.id>>] \in Int
        /\ nwritten'[<<p, m.id>>] \in Int /\ peerSum'[<<p, m.id>>] \in Int
    BY <1>1 DEF TypeOK
  <2> QED
    BY <2>1
<1>3. CASE m.type = "DataExchange"
  <2>1. m.to \in Int
    BY <1>3, MessageTypes
  <2> QED
    BY <1>1, <1>2, <1>3, <2>1 DEF Honest
<1>4. CASE m.type = "WindowUpdate"
  <2>1. m.to \in Int
    BY <1>4, MessageTypes
  <2> QED
    BY <1>1, <1>2, <1>4, <2>1 DEF Honest
<1> QED
  BY <1>3, <1>4 DEF Honest

LEMMA HonestStep ==
    ASSUME IInv, TypeOK',
           \A e \in End : nread[e] <= nread'[e],
           \A e \in End : nwritten[e] - peerSum[e] <= nwritten'[e] - peerSum'[e],
           \A q \in Peer :
               \/ chan'[q] = chan[q]
               \/ chan[q] # <<>> /\ chan'[q] = Tail(chan[q])
               \/ \E m \in Message :
                     chan'[q] = Append(chan[q], m) /\ Honest(q, m)'
    PROVE  HonestMessages'
<1> SUFFICES ASSUME NEW q \in Peer, NEW k \in 1 .. Len(chan'[q]),
                    NEW n, n = chan'[q][k]
             PROVE  Honest(q, n)'
  BY DEF HonestMessages, Honest
<1>1. TypeOK /\ chan[q] \in Seq(Message)
  BY DEF IInv, TypeOK
<1>2. ASSUME NEW j \in 1 .. Len(chan[q]), n = chan[q][j]
      PROVE  Honest(q, n)'
  <2>1. Honest(q, n) /\ n \in Message
    BY <1>1, <1>2 DEF IInv, HonestMessages
  <2> QED
    BY <1>1, <2>1, HonestKept
<1>3. CASE chan'[q] = chan[q]
  BY <1>2, <1>3
<1>4. CASE chan[q] # <<>> /\ chan'[q] = Tail(chan[q])
  <2>1. k + 1 \in 1 .. Len(chan[q]) /\ chan'[q][k] = chan[q][k + 1]
    BY <1>1, <1>4
  <2> QED
    BY <1>2, <2>1
<1>5. ASSUME NEW m \in Message, chan'[q] = Append(chan[q], m), Honest(q, m)'
      PROVE  Honest(q, n)'
  <2>1. n = m \/ (k \in 1 .. Len(chan[q]) /\ n = chan[q][k])
    BY <1>1, <1>5
  <2> QED
    BY <1>2, <1>5, <2>1
<1> QED
  BY <1>3, <1>4, <1>5

LEMMA ReadDataInv ==
    ASSUME IInv, TypeOK', NEW e \in End, NEW n \in Nat, ReadData(e, n)
    PROVE  IInv'
<1> PICK a \in Nat : a = nread[e]
  BY DEF IInv, TypeOK
<1> DEFINE m == DataExchange(e[2], a, a + n)
<1>1. IInv /\ TypeOK /\ e[1] \in Peer /\ e[2] \in Id
      /\ Far(e) \in End /\ e = <<e[1], e[2]>>
  BY FarEnd DEF IInv
<1>2. /\ UNCHANGED <<mStreamId, mTunnels, worker, bytes, peerSum, nwritten>>
      /\ worker[e] = "copying" /\ n \in 1 .. bufsize[e] /\ Send(e[1], m)
      /\ nread' = [nread EXCEPT ![e] = @ + n]
      /\ sendWindow' = [sendWindow EXCEPT ![e] = @ - n]
      /\ bufsize' = [bufsize EXCEPT ![e] = BufSize(sendWindow[e] - n)]
  BY DEF ReadData, Charge, inflow
<1>3. /\ m \in Message /\ m.id = e[2] /\ m.type = "DataExchange"
      /\ m.from = a /\ m.to = a + n /\ m.from < m.to
  BY <1>1, <1>2, MessageTypes DEF DataExchange
<1>4. \A q \in Peer : \/ q = e[1] /\ chan'[q] = Append(chan[q], m)
                      \/ q # e[1] /\ chan'[q] = chan[q]
  BY <1>1, <1>2, SendShape, OtherPeer
<1>5. m \in DataOf(e[2])
      /\ \A i \in Id : m \notin CreditOf(i) /\ (i # e[2] => m \notin DataOf(i))
  BY <1>1, SpanKinds
<1> HIDE DEF m
<1>6. \A f \in End : /\ f # e => /\ nread'[f] = nread[f] /\ bufsize'[f] = bufsize[f]
                                 /\ sendWindow'[f] = sendWindow[f]
                     /\ nread[f] <= nread'[f]
                     /\ sendWindow'[f] + nread'[f] - InitWindow
                          = sendWindow[f] + nread[f] - InitWindow
                     /\ bufsize'[f] \in 0 .. sendWindow'[f]
  <2>1. n \in Int /\ bufsize[e] \in 0 .. sendWindow[e] /\ sendWindow[e] \in Int
        /\ nread[e] \in Int
    BY <1>1 DEF IInv, Counters, TypeOK
  <2>2. sendWindow[e] - n \in Int /\ sendWindow[e] - n >= 0 /\ n >= 0
    BY <1>2, <2>1
  <2>3. BufSize(sendWindow[e] - n) \in 0 .. (sendWindow[e] - n)
    BY <2>2, WindowAssumption DEF BufSize
  <2>4. /\ nread'[e] = nread[e] + n /\ sendWindow'[e] = sendWindow[e] - n
        /\ bufsize'[e] = BufSize(sendWindow[e] - n)
        /\ \A f \in End : f # e => /\ nread'[f] = nread[f] /\ bufsize'[f] = bufsize[f]
                                   /\ sendWindow'[f] = sendWindow[f]
    BY <1>1, <1>2 DEF TypeOK
  <2>5. \A f \in End : /\ nread[f] \in Int /\ sendWindow[f] \in Int
                       /\ bufsize[f] \in 0 .. sendWindow[f]
    BY <1>1 DEF IInv, Counters, TypeOK
  <2> QED
    BY <2>1, <2>2, <2>3, <2>4, <2>5, WindowAssumption
<1>7. \A f \in End : Received(f)' = Received(f)
  BY <1>2 DEF Received
<1>8. Counters'
  <2> SUFFICES ASSUME NEW f \in End
               PROVE  /\ bufsize'[f] \in 0 .. sendWindow'[f]
                      /\ 0 <= peerSum[f] /\ peerSum[f] <= nwritten[f]
                      /\ nwritten[f] <= Received(f) /\ Received(f) <= nread'[Far(f)]
                      /\ sendWindow'[f] + nread'[f] - InitWindow
                            <= nwritten[Far(f)] - peerSum[Far(f)]
                      /\ \A k \in 1 .. Len(bytes[f]) :
                            bytes[f][k] \in DataOf(f[2]) /\ bytes[f][k].to <= Received(f)
    BY <1>2, <1>7 DEF Counters
  <2>1. Far(f) \in End /\ nread'[Far(f)] \in Int
    BY FarEnd DEF TypeOK
  <2>2. Received(f) <= nread'[Far(f)]
    <3>1. Received(f) <= nread[Far(f)] /\ nread[Far(f)] <= nread'[Far(f)]
      BY <1>1, <1>6, <2>1 DEF IInv, Counters
    <3> QED
      BY <1>1, <2>1, <3>1, ReceivedType
  <2>3. sendWindow'[f] + nread'[f] - InitWindow <= nwritten[Far(f)] - peerSum[Far(f)]
    <3>1. sendWindow'[f] + nread'[f] - InitWindow
          = sendWindow[f] + nread[f] - InitWindow
      BY <1>6
    <3>2. sendWindow[f] + nread[f] - InitWindow <= nwritten[Far(f)] - peerSum[Far(f)]
      BY DEF IInv, Counters
    <3> QED
      BY <3>1, <3>2, Zenon
  <2>4. bufsize'[f] \in 0 .. sendWindow'[f]
    BY <1>6
  <2> QED
    BY <1>1, <2>2, <2>3, <2>4 DEF IInv, Counters
<1>9. HonestMessages'
  <2>1. nread'[e] = a + n
    BY <1>1, <1>2 DEF TypeOK
  <2>2. Honest(e[1], m)'
    BY <1>1, <1>3, <2>1 DEF Honest
  <2>3. \A f \in End : nwritten[f] - peerSum[f] <= nwritten'[f] - peerSum'[f]
    BY <1>1, <1>2, ReceivedType
  <2> QED
    BY <1>3, <1>4, <1>6, <2>2, <2>3, HonestStep
<1>10. DataInOrder'
  <2> SUFFICES ASSUME NEW f \in End
               PROVE  /\ Contiguous(bytes[f], DataOf(f[2]), nwritten[f], Received(f))
                      /\ Expecting(f)' =>
                           Contiguous(chan'[Other(f[1])], DataOf(f[2]),
                                      Received(f), nread'[Far(f)])
    BY <1>2, <1>7 DEF DataInOrder
  <2>1. Contiguous(bytes[f], DataOf(f[2]), nwritten[f], Received(f))
    BY DEF IInv, DataInOrder
  <2>2. /\ f[2] \in Id /\ Other(f[1]) \in Peer /\ Far(f) \in End
        /\ Far(f) = <<Other(f[1]), f[2]>> /\ chan[Other(f[1])] \in Seq(Message)
    BY <1>1, FarEnd, OtherPeer DEF TypeOK, Far
  <2>3. ASSUME Expecting(f)'
        PROVE  Contiguous(chan'[Other(f[1])], DataOf(f[2]), Received(f), nread'[Far(f)])
    <3>1. Expecting(f)
      BY <1>1, <1>2, <1>3, <1>4, <2>3, ExpectingKept
    <3>2. Contiguous(chan[Other(f[1])], DataOf(f[2]), Received(f), nread[Far(f)])
      BY <3>1 DEF IInv, DataInOrder
    <3>3. CASE Far(f) = e
      <4>1. Other(f[1]) = e[1] /\ f[2] = e[2]
        BY <2>2, <3>3
      <4>2. chan'[Other(f[1])] = Append(chan[Other(f[1])], m)
        BY <1>4, <2>2, <4>1
      <4>3. m.from = nread[Far(f)] /\ nread'[Far(f)] = m.to /\ m \in DataOf(f[2])
        BY <1>1, <1>2, <1>3, <1>5, <3>3, <4>1 DEF TypeOK
      <4> QED
        BY <1>3, <2>2, <3>2, <4>2, <4>3, ContiguousAppendIn
    <3>4. CASE Far(f) # e
      <4>1. nread'[Far(f)] = nread[Far(f)]
        BY <1>6, <2>2, <3>4
      <4>2. CASE chan'[Other(f[1])] = chan[Other(f[1])]
        BY <3>2, <4>1, <4>2
      <4>3. CASE Other(f[1]) = e[1] /\ chan'[Other(f[1])] = Append(chan[Other(f[1])], m)
        <5>1. m \notin DataOf(f[2])
          BY <1>1, <1>5, <2>2, <3>4, <4>3
        <5> QED
          BY <1>3, <2>2, <3>2, <4>1, <4>3, <5>1, ContiguousAppendOut
      <4> QED
        BY <1>4, <2>2, <4>2, <4>3
    <3> QED
      BY <3>3, <3>4
  <2> QED
    BY <2>1, <2>3
<1>11. CreditConserved'
  <2> SUFFICES ASSUME NEW f \in mTunnels
               PROVE  Contiguous(chan'[Other(f[1])], CreditOf(f[2]),
                                 sendWindow'[f] + nread'[f] - InitWindow,
                                 nwritten[Far(f)] - peerSum[Far(f)])
    BY <1>2 DEF CreditConserved
  <2>1. f \in End /\ f[2] \in Id /\ Other(f[1]) \in Peer
        /\ chan[Other(f[1])] \in Seq(Message)
    BY <1>1, FarEnd, OtherPeer DEF TypeOK
  <2>2. Contiguous(chan[Other(f[1])], CreditOf(f[2]),
                   sendWindow'[f] + nread'[f] - InitWindow,
                   nwritten[Far(f)] - peerSum[Far(f)])
    <3>1. sendWindow'[f] + nread'[f] - InitWindow
          = sendWindow[f] + nread[f] - InitWindow
      BY <1>6, <2>1
    <3>2. Contiguous(chan[Other(f[1])], CreditOf(f[2]),
                     sendWindow[f] + nread[f] - InitWindow,
                     nwritten[Far(f)] - peerSum[Far(f)])
      BY DEF IInv, CreditConserved
    <3> QED
      BY <3>1, <3>2, Zenon
  <2>3. CASE chan'[Other(f[1])] = chan[Other(f[1])]
    BY <2>2, <2>3
  <2>4. CASE chan'[Other(f[1])] = Append(chan[Other(f[1])], m)
    <3>1. m \notin CreditOf(f[2])
      BY <1>5, <2>1
    <3> QED
      BY <1>3, <2>1, <2>2, <2>4, <3>1, ContiguousAppendOut
  <2> QED
    BY <1>4, <2>1, <2>3, <2>4
<1>12. Lifecycle'
  <2>1. QueueHasReader'
    BY <1>2 DEF IInv, Lifecycle, QueueHasReader
  <2>2. \A f \in End : worker'[f] = "none" => bytes'[f] = <<>>
    BY <1>2 DEF IInv, Lifecycle
  <2>3. \A f \in End : worker'[f] \in {"none", "spawned"} => Untouched(f)'
    BY <1>2, <1>6 DEF IInv, Lifecycle, Untouched
  <2>4. ~ Reserved(m.id)
    BY <1>2, <1>3, CopyingNotReserved
  <2> QED
    BY <1>2, <1>3, <1>4, <2>1, <2>2, <2>3, <2>4, LaterStep DEF LaterWorker
<1> QED
  BY <1>8, <1>9, <1>10, <1>11, <1>12 DEF IInv

\* What a write does to the numbers of its end: it takes the next chunk, and the
\* bytes it has acknowledged grow up to the chunk's end or not at all.
LEMMA WriteDataStep ==
    ASSUME IInv, TypeOK', NEW e \in End, WriteData(e),
           NEW c, c = Head(bytes[e]), NEW a, a = nwritten[e] - peerSum[e],
           NEW m, m = WindowUpdate(e[2], a, c.to)
    PROVE  /\ c \in Span /\ c.to \in Int /\ a \in Int /\ 0 <= a /\ a < c.to
           /\ nwritten'[e] = c.to /\ nwritten[e] < c.to /\ c.to <= Received(e)
           /\ bytes'[e] = Tail(bytes[e]) /\ Received(e)' = Received(e)
           /\ Contiguous(bytes'[e], DataOf(e[2]), c.to, Received(e))
           /\ \A k \in 1 .. Len(bytes'[e]) :
                 /\ bytes'[e][k] \in DataOf(e[2])
                 /\ bytes'[e][k].to <= Received(e)
           /\ 0 <= peerSum'[e] /\ peerSum'[e] <= nwritten'[e]
           /\ \/ nwritten'[e] - peerSum'[e] = a /\ chan' = chan
              \/ nwritten'[e] - peerSum'[e] = c.to /\ Send(e[1], m)
           /\ \A f \in End : f # e => /\ bytes'[f] = bytes[f]
                                      /\ nwritten'[f] = nwritten[f]
                                      /\ peerSum'[f] = peerSum[f]
                                      /\ Received(f)' = Received(f)
<1> DEFINE sum == peerSum[e] + (c.to - c.from)
<1>1. TypeOK /\ bytes[e] \in Seq(Span) /\ bytes[e] # <<>>
  BY DEF IInv, TypeOK, WriteData
<1>2. /\ nwritten' = [nwritten EXCEPT ![e] = c.to]
      /\ bytes' = [bytes EXCEPT ![e] = Tail(bytes[e])]
      /\ \/ /\ peerSum' = [peerSum EXCEPT ![e] = 0]
            /\ Send(e[1], WindowUpdate(e[2], c.to - sum, c.to))
         \/ peerSum' = [peerSum EXCEPT ![e] = sum] /\ chan' = chan
  BY DEF WriteData
<1>3. /\ c = bytes[e][1] /\ c \in Span /\ Len(bytes[e]) \in Nat \ {0}
      /\ 1 \in 1 .. Len(bytes[e]) /\ Len(Tail(bytes[e])) = Len(bytes[e]) - 1
      /\ \A k \in 1 .. Len(bytes[e]) - 1 : Tail(bytes[e])[k] = bytes[e][k + 1]
  BY <1>1
<1>4. /\ c.to \in Int /\ c.from \in Int /\ nwritten[e] \in Int /\ peerSum[e] \in Int
      /\ Received(e) \in Int
  BY <1>1, <1>3, MessageTypes, ReceivedType
<1>5. c \in DataOf(e[2]) /\ c.to <= Received(e)
  BY <1>3 DEF IInv, Counters
<1>6. Contiguous(bytes[e], DataOf(e[2]), nwritten[e], Received(e))
  BY DEF IInv, DataInOrder
<1>7. /\ c.from = nwritten[e] /\ c.from < c.to
      /\ Contiguous(Tail(bytes[e]), DataOf(e[2]), c.to, Received(e))
  BY <1>1, <1>5, <1>6, ContiguousTail
<1>8. 0 <= peerSum[e] /\ peerSum[e] <= nwritten[e]
  BY DEF IInv, Counters
<1>9. /\ sum \in Int /\ c.to - sum = a /\ a \in Int /\ 0 <= a /\ a < c.to
      /\ 0 <= sum /\ sum <= c.to /\ 0 <= c.to
  BY <1>4, <1>7, <1>8
<1> HIDE DEF sum
<1>10. /\ nwritten'[e] = c.to /\ bytes'[e] = Tail(bytes[e])
       /\ \A f \in End : f # e => /\ bytes'[f] = bytes[f]
                                  /\ nwritten'[f] = nwritten[f]
                                  /\ peerSum'[f] = peerSum[f]
  BY <1>1, <1>2 DEF TypeOK
<1>11. \/ peerSum'[e] = 0 /\ Send(e[1], m)
       \/ peerSum'[e] = sum /\ chan' = chan
  BY <1>1, <1>2, <1>9 DEF TypeOK
<1>12. \/ nwritten'[e] - peerSum'[e] = a /\ chan' = chan
       \/ nwritten'[e] - peerSum'[e] = c.to /\ Send(e[1], m)
  BY <1>4, <1>9, <1>10, <1>11
<1>13. 0 <= peerSum'[e] /\ peerSum'[e] <= nwritten'[e]
  BY <1>4, <1>9, <1>10, <1>11
<1>14. \A f \in End : f # e => Received(f)' = Received(f)
  BY <1>10 DEF Received
<1>15. Received(e)' = Received(e)
  <2>1. CASE Tail(bytes[e]) = <<>>
    <3>1. bytes[e][Len(bytes[e])] = Head(bytes[e])
      BY <1>1, <2>1, TailLast
    <3> QED
      BY <1>1, <1>10, <2>1, <3>1 DEF Received
  <2>2. CASE Tail(bytes[e]) # <<>>
    <3>1. Tail(bytes[e])[Len(Tail(bytes[e]))] = bytes[e][Len(bytes[e])]
      BY <1>1, <2>2, TailLast
    <3> QED
      BY <1>1, <1>10, <2>2, <3>1, Zenon DEF Received
  <2> QED
    BY <2>1, <2>2
<1>16. ASSUME NEW k \in 1 .. Len(Tail(bytes[e]))
       PROVE  /\ Tail(bytes[e])[k] \in DataOf(e[2])
              /\ Tail(bytes[e])[k].to <= Received(e)
  <2>1. k + 1 \in 1 .. Len(bytes[e]) /\ Tail(bytes[e])[k] = bytes[e][k + 1]
    BY <1>3
  <2> QED
    BY <2>1 DEF IInv, Counters
<1> QED
  BY <1>3, <1>4, <1>5, <1>7, <1>9, <1>10, <1>12, <1>13, <1>14, <1>15, <1>16

LEMMA WriteDataInv ==
    ASSUME IInv, TypeOK', NEW e \in End, WriteData(e)
    PROVE  IInv'
<1> PICK c : c = Head(bytes[e])
  OBVIOUS
<1> PICK a : a = nwritten[e] - peerSum[e]
  OBVIOUS
<1> PICK m : m = WindowUpdate(e[2], a, c.to)
  OBVIOUS
<1>1. IInv /\ TypeOK /\ e[1] \in Peer /\ e[2] \in Id
      /\ Far(e) \in End /\ e = <<e[1], e[2]>>
  BY FarEnd DEF IInv
<1>2. /\ UNCHANGED <<mStreamId, mTunnels, worker, sendWindow, bufsize, nread>>
      /\ worker[e] = "copying"
  BY DEF WriteData, window
<1>3. /\ c \in Span /\ c.to \in Int /\ a \in Int /\ 0 <= a /\ a < c.to
      /\ nwritten'[e] = c.to /\ nwritten[e] < c.to /\ c.to <= Received(e)
      /\ Contiguous(bytes'[e], DataOf(e[2]), c.to, Received(e))
      /\ \A k \in 1 .. Len(bytes'[e]) :
            bytes'[e][k] \in DataOf(e[2]) /\ bytes'[e][k].to <= Received(e)
      /\ 0 <= peerSum'[e] /\ peerSum'[e] <= nwritten'[e]
  BY WriteDataStep
<1>4. \/ nwritten'[e] - peerSum'[e] = a /\ chan' = chan
      \/ nwritten'[e] - peerSum'[e] = c.to /\ Send(e[1], m)
  BY WriteDataStep
<1>5. \A f \in End : f # e => /\ bytes'[f] = bytes[f] /\ nwritten'[f] = nwritten[f]
                              /\ peerSum'[f] = peerSum[f]
  BY WriteDataStep
<1>6. \A f \in End : Received(f)' = Received(f)
  BY WriteDataStep
<1>7. /\ m \in Message /\ m.id = e[2] /\ m.type = "WindowUpdate"
      /\ m.from = a /\ m.to = c.to /\ m.from < m.to
  BY <1>1, <1>3, MessageTypes DEF WindowUpdate
<1>8. m \in CreditOf(e[2])
      /\ \A i \in Id : m \notin DataOf(i) /\ (i # e[2] => m \notin CreditOf(i))
  BY <1>1, <1>3, SpanKinds
<1>9. \A q \in Peer :
        \/ chan'[q] = chan[q]
        \/ /\ q = e[1] /\ chan'[q] = Append(chan[q], m)
           /\ nwritten'[e] - peerSum'[e] = c.to
  BY <1>1, <1>4, SendShape, OtherPeer
<1>10. \A f \in End : nwritten[f] - peerSum[f] <= nwritten'[f] - peerSum'[f]
  <2>1. \A f \in End : nwritten[f] \in Int /\ peerSum[f] \in Int
    BY <1>1, ReceivedType
  <2> QED
    BY <1>3, <1>4, <1>5, <2>1
<1>11. Counters'
  <2> SUFFICES ASSUME NEW f \in End
               PROVE  /\ bufsize[f] \in 0 .. sendWindow[f]
                      /\ 0 <= peerSum'[f] /\ peerSum'[f] <= nwritten'[f]
                      /\ nwritten'[f] <= Received(f) /\ Received(f) <= nread[Far(f)]
                      /\ sendWindow[f] + nread[f] - InitWindow
                            <= nwritten'[Far(f)] - peerSum'[Far(f)]
                      /\ \A k \in 1 .. Len(bytes'[f]) :
                            bytes'[f][k] \in DataOf(f[2]) /\ bytes'[f][k].to <= Received(f)
    BY <1>2, <1>6 DEF Counters
  <2>1. bufsize[f] \in 0 .. sendWindow[f] /\ Received(f) <= nread[Far(f)]
    BY <1>1 DEF IInv, Counters
  <2>2. sendWindow[f] + nread[f] - InitWindow <= nwritten'[Far(f)] - peerSum'[Far(f)]
    <3>1. sendWindow[f] + nread[f] - InitWindow <= nwritten[Far(f)] - peerSum[Far(f)]
      BY <1>1 DEF IInv, Counters
    <3>2. nwritten[Far(f)] - peerSum[Far(f)] <= nwritten'[Far(f)] - peerSum'[Far(f)]
      BY <1>10, FarEnd
    <3>3. /\ sendWindow[f] \in Int /\ nread[f] \in Int /\ Far(f) \in End
          /\ nwritten[Far(f)] \in Int /\ peerSum[Far(f)] \in Int
      BY <1>1, FarEnd, ReceivedType
    <3>4. nwritten'[Far(f)] \in Int /\ peerSum'[Far(f)] \in Int
      BY <3>3 DEF TypeOK
    <3> QED
      BY <3>1, <3>2, <3>3, <3>4, WindowAssumption
  <2>3. CASE f = e
    BY <1>3, <2>1, <2>2, <2>3
  <2>4. CASE f # e
    BY <1>1, <1>5, <2>1, <2>2, <2>4 DEF IInv, Counters
  <2> QED
    BY <2>3, <2>4
<1>12. HonestMessages'
  <2>1. \A f \in End : nread[f] <= nread'[f]
    BY <1>1, <1>2, ReceivedType
  <2>2. ASSUME nwritten'[e] - peerSum'[e] = c.to
        PROVE  Honest(e[1], m)'
    BY <1>1, <1>3, <1>7, <2>2 DEF Honest
  <2> QED
    BY <1>7, <1>9, <1>10, <2>1, <2>2, HonestStep
<1>13. DataInOrder'
  <2> SUFFICES ASSUME NEW f \in End
               PROVE  /\ Contiguous(bytes'[f], DataOf(f[2]), nwritten'[f], Received(f))
                      /\ Expecting(f)' =>
                           Contiguous(chan'[Other(f[1])], DataOf(f[2]),
                                      Received(f), nread[Far(f)])
    BY <1>2, <1>6 DEF DataInOrder
  <2>1. Contiguous(bytes'[f], DataOf(f[2]), nwritten'[f], Received(f))
    <3>1. CASE f = e
      BY <1>3, <3>1
    <3>2. CASE f # e
      BY <1>5, <3>2 DEF IInv, DataInOrder
    <3> QED
      BY <3>1, <3>2
  <2>2. f[2] \in Id /\ Other(f[1]) \in Peer /\ chan[Other(f[1])] \in Seq(Message)
    BY <1>1, FarEnd, OtherPeer DEF TypeOK
  <2>3. ASSUME Expecting(f)'
        PROVE  Contiguous(chan'[Other(f[1])], DataOf(f[2]), Received(f), nread[Far(f)])
    <3>1. Expecting(f)
      <4>1. mTunnels' \subseteq mTunnels
        BY <1>2
      <4>2. m.type # "OpenTunnel"
        BY <1>7
      <4> QED
        BY <1>1, <1>7, <1>9, <2>3, <4>1, <4>2, ExpectingKept
    <3>2. Contiguous(chan[Other(f[1])], DataOf(f[2]), Received(f), nread[Far(f)])
      BY <3>1 DEF IInv, DataInOrder
    <3>3. m \notin DataOf(f[2])
      BY <1>8, <2>2
    <3> QED
      BY <1>7, <1>9, <2>2, <3>2, <3>3, ContiguousAppendOut
  <2> QED
    BY <2>1, <2>3
<1>14. CreditConserved'
  <2> SUFFICES ASSUME NEW f \in mTunnels
               PROVE  Contiguous(chan'[Other(f[1])], CreditOf(f[2]),
                                 sendWindow[f] + nread[f] - InitWindow,
                                 nwritten'[Far(f)] - peerSum'[Far(f)])
    BY <1>2 DEF CreditConserved
  <2> DEFINE b == sendWindow[f] + nread[f] - InitWindow
  <2>1. /\ f \in End /\ f[2] \in Id /\ Other(f[1]) \in Peer /\ Far(f) \in End
        /\ Far(f) = <<Other(f[1]), f[2]>> /\ chan[Other(f[1])] \in Seq(Message)
    BY <1>1, FarEnd, OtherPeer DEF TypeOK, Far
  <2>2. Contiguous(chan[Other(f[1])], CreditOf(f[2]), b,
                   nwritten[Far(f)] - peerSum[Far(f)])
    BY DEF IInv, CreditConserved
  <2> HIDE DEF b
  <2> SUFFICES Contiguous(chan'[Other(f[1])], CreditOf(f[2]), b,
                          nwritten'[Far(f)] - peerSum'[Far(f)])
    BY DEF b
  <2>3. CASE Far(f) = e
    <3>1. Other(f[1]) = e[1] /\ f[2] = e[2]
      BY <2>1, <2>3
    <3>2. Contiguous(chan[Other(f[1])], CreditOf(f[2]), b, a)
      BY <2>2, <2>3
    <3>3. CASE chan'[Other(f[1])] = chan[Other(f[1])] /\ nwritten'[e] - peerSum'[e] = a
      BY <2>3, <3>2, <3>3
    <3>4. CASE Send(e[1], m) /\ nwritten'[e] - peerSum'[e] = c.to
      <4>1. chan'[Other(f[1])] = Append(chan[Other(f[1])], m)
        BY <1>1, <3>1, <3>4, SendShape, OtherPeer
      <4>2. m \in CreditOf(f[2]) /\ m.from = a /\ m.to = c.to
        BY <1>7, <1>8, <3>1
      <4>3. Contiguous(chan'[Other(f[1])], CreditOf(f[2]), b, m.to)
        BY <1>7, <2>1, <3>2, <4>1, <4>2, ContiguousAppendIn
      <4> QED
        BY <2>3, <3>4, <4>2, <4>3
    <3> QED
      BY <1>4, <3>3, <3>4
  <2>4. CASE Far(f) # e
    <3>1. nwritten'[Far(f)] = nwritten[Far(f)] /\ peerSum'[Far(f)] = peerSum[Far(f)]
      BY <1>5, <2>1, <2>4
    <3>2. CASE chan'[Other(f[1])] = chan[Other(f[1])]
      BY <2>2, <3>1, <3>2
    <3>3. CASE Other(f[1]) = e[1] /\ chan'[Other(f[1])] = Append(chan[Other(f[1])], m)
      <4>1. m \notin CreditOf(f[2])
        BY <1>1, <1>8, <2>1, <2>4, <3>3
      <4> QED
        BY <1>7, <2>1, <2>2, <3>1, <3>3, <4>1, ContiguousAppendOut
    <3> QED
      BY <1>9, <2>1, <3>2, <3>3
  <2> QED
    BY <2>3, <2>4
<1>15. Lifecycle'
  <2>1. QueueHasReader'
    BY <1>2 DEF IInv, Lifecycle, QueueHasReader
  <2>2. \A f \in End : worker'[f] = "none" => bytes'[f] = <<>>
    BY <1>1, <1>2, <1>5 DEF IInv, Lifecycle
  <2>3. \A f \in End : worker'[f] \in {"none", "spawned"} => Untouched(f)'
    BY <1>1, <1>2, <1>5 DEF IInv, Lifecycle, Untouched
  <2>4. ~ Reserved(m.id)
    BY <1>2, <1>7, CopyingNotReserved
  <2>5. m.type # "OpenTunnel"
    BY <1>7
  <2> QED
    BY <1>2, <1>7, <1>9, <2>1, <2>2, <2>3, <2>4, <2>5, LaterStep DEF LaterWorker
<1> QED
  BY <1>11, <1>12, <1>13, <1>14, <1>15 DEF IInv

\* What the queue of the other peer looks like once its oldest message, which is
\* no OpenTunnel, is handled; and no tunnel whose data is not expected by then is
\* expected afterwards.
LEMMA HandleStep ==
    ASSUME IInv, NEW p \in Peer, NEW type, type # "OpenTunnel",
           Incoming(p, type), Consume(p), UNCHANGED mTunnels,
           NEW e, e = Target(p), NEW m, m = Head(chan[Other(p)])
    PROVE  /\ e \in End /\ e[1] = p /\ e[2] \in Id /\ e = <<p, e[2]>>
           /\ Far(e) \in End /\ Far(e) = <<Other(p), e[2]>>
           /\ m \in Message /\ m.type = type /\ m.id = e[2] /\ Honest(Other(p), m)
           /\ \A q \in Peer :
                \/ chan'[q] = chan[q] /\ q = p
                \/ chan[q] # <<>> /\ chan'[q] = Tail(chan[q]) /\ q = Other(p)
           /\ \A f \in End : Expecting(f)' => Expecting(f)
           /\ Expecting(e)' => e \in mTunnels
<1>1. TypeOK /\ Other(p) \in Peer /\ Other(p) # p /\ chan[Other(p)] # <<>>
      /\ chan[Other(p)] \in Seq(Message)
  BY OtherPeer DEF IInv, Incoming, TypeOK
<1>2. /\ m = chan[Other(p)][1] /\ 1 \in 1 .. Len(chan[Other(p)])
      /\ m \in Message /\ m.id \in Id /\ m.type = type
  BY <1>1, HeadNotReserved DEF Incoming
<1>3. e = <<p, m.id>> /\ e \in End /\ e[1] = p /\ e[2] = m.id
  BY <1>2 DEF Target, End
<1>4. Far(e) \in End /\ Far(e) = <<Other(p), e[2]>>
  BY <1>3, FarEnd DEF Far
<1>5. Honest(Other(p), m)
  BY <1>1, <1>2 DEF IInv, HonestMessages
<1>6. \A q \in Peer :
        \/ chan'[q] = chan[q] /\ q = p
        \/ chan[q] # <<>> /\ chan'[q] = Tail(chan[q]) /\ q = Other(p)
  BY <1>1, ConsumeShape
<1>7. \A f \in End : Expecting(f)' => Expecting(f)
  BY <1>1, <1>6, ExpectingKept
<1>8. ASSUME Expecting(e)', e \notin mTunnels
      PROVE  FALSE
  <2>1. chan'[Other(p)] = Tail(chan[Other(p)])
    BY <1>1, <1>6
  <2>2. PICK k \in 1 .. Len(chan'[Other(p)]) : chan'[Other(p)][k] = OpenTunnel(e[2])
    BY <1>3, <1>8 DEF Expecting, InFlight, OpenTunnel
  <2>3. /\ k + 1 \in 1 .. Len(chan[Other(p)]) /\ 1 \in 1 .. (k + 1) - 1
        /\ chan[Other(p)][k + 1] = OpenTunnel(e[2])
    BY <1>1, <2>1, <2>2
  <2>4. OpenTunnel(e[2]).type = "OpenTunnel" /\ OpenTunnel(e[2]).id = e[2]
    BY DEF OpenTunnel
  <2>5. chan[Other(p)][1].id # chan[Other(p)][k + 1].id
    BY <1>1, <2>3, <2>4 DEF IInv, Lifecycle, FreshOpen
  <2> QED
    BY <1>2, <1>3, <2>3, <2>4, <2>5
<1> QED
  BY <1>2, <1>3, <1>4, <1>5, <1>6, <1>7, <1>8

LEMMA OnDataExchangeInv ==
    ASSUME IInv, TypeOK', NEW p \in Peer, OnDataExchange(p)
    PROVE  IInv'
<1> PICK m : m = Head(chan[Other(p)])
  OBVIOUS
<1> PICK e : e = Target(p)
  OBVIOUS
<1>1. /\ UNCHANGED <<mStreamId, mTunnels, worker, sendWindow, bufsize, nread,
                     peerSum, nwritten>>
      /\ Incoming(p, "DataExchange") /\ Consume(p)
      /\ e \in mTunnels => bytes' = [bytes EXCEPT ![e] = Append(@, m)]
      /\ e \notin mTunnels => bytes' = bytes
  BY DEF OnDataExchange, window
<1>2. /\ e \in End /\ e[1] = p /\ e[2] \in Id /\ e = <<p, e[2]>>
      /\ Far(e) \in End /\ Far(e) = <<Other(p), e[2]>>
      /\ m \in Message /\ m.type = "DataExchange" /\ m.id = e[2] /\ Honest(Other(p), m)
      /\ \A q \in Peer :
           \/ chan'[q] = chan[q] /\ q = p
           \/ chan[q] # <<>> /\ chan'[q] = Tail(chan[q]) /\ q = Other(p)
      /\ \A f \in End : Expecting(f)' => Expecting(f)
      /\ Expecting(e)' => e \in mTunnels
  BY <1>1, HandleStep
<1>3. TypeOK /\ Other(p) \in Peer /\ Other(p) # p
  BY OtherPeer DEF IInv
<1>4. /\ m \in Span /\ m.from \in Int /\ m.to \in Int /\ m \in DataOf(e[2])
      /\ \A i \in Id : m \notin CreditOf(i) /\ (i # e[2] => m \notin DataOf(i))
  BY <1>2, MessageTypes, MessageKinds
<1>5. m.to <= nread[Far(e)]
  BY <1>2 DEF Honest
<1>6. ASSUME e \in mTunnels
      PROVE  /\ m.from = Received(e) /\ m.from < m.to
             /\ Contiguous(chan'[Other(p)], DataOf(e[2]), m.to, nread[Far(e)])
             /\ bytes'[e] = Append(bytes[e], m) /\ Received(e)' = m.to
             /\ Contiguous(bytes'[e], DataOf(e[2]), nwritten[e], m.to)
             /\ \A f \in End : f # e => bytes'[f] = bytes[f]
  <2>1. Contiguous(chan[Other(p)], DataOf(e[2]), Received(e), nread[Far(e)])
    BY <1>2, <1>6 DEF IInv, DataInOrder, Expecting
  <2>2. chan[Other(p)] \in Seq(Message) /\ chan[Other(p)] # <<>>
        /\ chan'[Other(p)] = Tail(chan[Other(p)])
    BY <1>2, <1>3 DEF TypeOK
  <2>3. /\ m.from = Received(e) /\ m.from < m.to
        /\ Contiguous(chan'[Other(p)], DataOf(e[2]), m.to, nread[Far(e)])
    BY <1>4, <2>1, <2>2, ContiguousTail
  <2>4. bytes'[e] = Append(bytes[e], m) /\ bytes[e] \in Seq(Span)
        /\ \A f \in End : f # e => bytes'[f] = bytes[f]
    <3>1. bytes \in [End -> Seq(Span)]
      BY <1>3 DEF TypeOK
    <3>2. bytes' = [bytes EXCEPT ![e] = Append(bytes[e], m)]
      BY <1>1, <1>6
    <3> QED
      BY <1>2, <3>1, <3>2
  <2>5. Received(e)' = m.to
    <3>1. bytes'[e] # <<>> /\ bytes'[e][Len(bytes'[e])] = m
      BY <1>4, <2>4
    <3> QED
      BY <3>1 DEF Received
  <2>6. Contiguous(bytes[e], DataOf(e[2]), nwritten[e], Received(e))
    BY <1>2 DEF IInv, DataInOrder
  <2>7. Contiguous(bytes'[e], DataOf(e[2]), nwritten[e], m.to)
    <3>1. Contiguous(Append(bytes[e], m), DataOf(e[2]), nwritten[e], m.to)
      BY <1>4, <2>3, <2>4, <2>6, ContiguousAppendIn
    <3> QED
      BY <2>4, <3>1
  <2> QED
    BY <2>3, <2>4, <2>5, <2>7
<1>7. \A f \in End : f # e \/ e \notin mTunnels =>
         Received(f)' = Received(f) /\ bytes'[f] = bytes[f]
  <2>1. \A f \in End : f # e \/ e \notin mTunnels => bytes'[f] = bytes[f]
    BY <1>1, <1>6
  <2> QED
    BY <1>1, <2>1 DEF Received
<1>8. Counters'
  <2> SUFFICES ASSUME NEW f \in End
               PROVE  /\ bufsize[f] \in 0 .. sendWindow[f]
                      /\ 0 <= peerSum[f] /\ peerSum[f] <= nwritten[f]
                      /\ nwritten[f] <= Received(f)' /\ Received(f)' <= nread[Far(f)]
                      /\ sendWindow[f] + nread[f] - InitWindow
                            <= nwritten[Far(f)] - peerSum[Far(f)]
                      /\ \A k \in 1 .. Len(bytes'[f]) :
                            bytes'[f][k] \in DataOf(f[2]) /\ bytes'[f][k].to <= Received(f)'
    BY <1>1 DEF Counters
  <2>1. CASE f # e \/ e \notin mTunnels
    BY <1>7, <2>1 DEF IInv, Counters
  <2>2. CASE f = e /\ e \in mTunnels
    <3>1. /\ nwritten[e] <= Received(e) /\ Received(e) < m.to /\ Received(e)' = m.to
          /\ bytes'[e] = Append(bytes[e], m) /\ bytes[e] \in Seq(Span)
          /\ nwritten[e] \in Int /\ Received(e) \in Int
      BY <1>2, <1>3, <1>6, <2>2, ReceivedType DEF IInv, Counters, TypeOK
    <3>2. nwritten[e] <= m.to
      BY <1>4, <3>1
    <3>3. ASSUME NEW k \in 1 .. Len(bytes'[e])
          PROVE  bytes'[e][k] \in DataOf(e[2]) /\ bytes'[e][k].to <= m.to
      <4>1. \/ bytes'[e][k] = m
            \/ k \in 1 .. Len(bytes[e]) /\ bytes'[e][k] = bytes[e][k]
        BY <1>4, <3>1
      <4>2. CASE bytes'[e][k] = m
        BY <1>4, <4>2
      <4>3. CASE k \in 1 .. Len(bytes[e]) /\ bytes'[e][k] = bytes[e][k]
        <5>1. bytes[e][k] \in DataOf(e[2]) /\ bytes[e][k].to <= Received(e)
          BY <1>2, <4>3 DEF IInv, Counters
        <5>2. bytes[e][k].to \in Int
          BY <5>1 DEF DataOf
        <5> QED
          BY <1>4, <3>1, <4>3, <5>1, <5>2
      <4> QED
        BY <4>1, <4>2, <4>3
    <3> QED
      BY <1>5, <2>2, <3>1, <3>2, <3>3 DEF IInv, Counters
  <2> QED
    BY <2>1, <2>2
<1>9. HonestMessages'
  <2>1. \A f \in End : /\ nread[f] <= nread'[f]
                       /\ nwritten[f] - peerSum[f] <= nwritten'[f] - peerSum'[f]
    BY <1>1, <1>3, ReceivedType
  <2> QED
    BY <1>2, <2>1, HonestStep
<1>10. DataInOrder'
  <2> SUFFICES ASSUME NEW f \in End
               PROVE  /\ Contiguous(bytes'[f], DataOf(f[2]), nwritten[f], Received(f)')
                      /\ Expecting(f)' =>
                           Contiguous(chan'[Other(f[1])], DataOf(f[2]),
                                      Received(f)', nread[Far(f)])
    BY <1>1 DEF DataInOrder
  <2>1. f[2] \in Id /\ Other(f[1]) \in Peer /\ chan[Other(f[1])] \in Seq(Message)
    BY <1>3, FarEnd, OtherPeer DEF TypeOK
  <2>2. CASE f = e /\ e \in mTunnels
    BY <1>2, <1>6, <2>2
  <2>3. CASE f # e \/ e \notin mTunnels
    <3>1. Contiguous(bytes'[f], DataOf(f[2]), nwritten[f], Received(f)')
      BY <1>7, <2>3 DEF IInv, DataInOrder
    <3>2. ASSUME Expecting(f)'
          PROVE  Contiguous(chan'[Other(f[1])], DataOf(f[2]), Received(f)', nread[Far(f)])
      <4>1. f # e /\ Expecting(f)
        BY <1>2, <2>3, <3>2
      <4>2. Contiguous(chan[Other(f[1])], DataOf(f[2]), Received(f)', nread[Far(f)])
        BY <1>7, <4>1 DEF IInv, DataInOrder
      <4>3. CASE chan'[Other(f[1])] = chan[Other(f[1])]
        BY <4>2, <4>3
      <4>4. CASE /\ Other(f[1]) = Other(p) /\ chan[Other(f[1])] # <<>>
                 /\ chan'[Other(f[1])] = Tail(chan[Other(f[1])])
        <5>1. f[1] = p
          BY <4>4, FarEnd, OtherPeer
        <5>2. f[2] # e[2]
          BY <1>2, <4>1, <5>1, FarEnd
        <5>3. Head(chan[Other(f[1])]) \notin DataOf(f[2])
          BY <1>4, <2>1, <4>4, <5>2
        <5> QED
          BY <2>1, <4>2, <4>4, <5>3, ContiguousTail
      <4> QED
        BY <1>2, <2>1, <4>3, <4>4
    <3> QED
      BY <3>1, <3>2
  <2> QED
    BY <2>2, <2>3
<1>11. CreditConserved'
  <2> SUFFICES ASSUME NEW f \in mTunnels
               PROVE  Contiguous(chan'[Other(f[1])], CreditOf(f[2]),
                                 sendWindow[f] + nread[f] - InitWindow,
                                 nwritten[Far(f)] - peerSum[Far(f)])
    BY <1>1 DEF CreditConserved
  <2>1. f \in End /\ f[2] \in Id /\ Other(f[1]) \in Peer
        /\ chan[Other(f[1])] \in Seq(Message)
    BY <1>3, FarEnd, OtherPeer DEF TypeOK
  <2>2. Contiguous(chan[Other(f[1])], CreditOf(f[2]),
                   sendWindow[f] + nread[f] - InitWindow,
                   nwritten[Far(f)] - peerSum[Far(f)])
    BY DEF IInv, CreditConserved
  <2>3. CASE chan'[Other(f[1])] = chan[Other(f[1])]
    BY <2>2, <2>3
  <2>4. CASE /\ Other(f[1]) = Other(p) /\ chan[Other(f[1])] # <<>>
             /\ chan'[Other(f[1])] = Tail(chan[Other(f[1])])
    <3>1. Head(chan[Other(f[1])]) \notin CreditOf(f[2])
      BY <1>4, <2>1, <2>4
    <3> QED
      BY <2>1, <2>2, <2>4, <3>1, ContiguousTail
  <2> QED
    BY <1>2, <2>1, <2>3, <2>4
<1>12. Lifecycle'
  <2>1. QueueHasReader'
    BY <1>1 DEF IInv, Lifecycle, QueueHasReader
  <2>2. \A f \in End : worker'[f] = "none" => bytes'[f] = <<>>
    BY <1>1, <1>7 DEF IInv, Lifecycle, QueueHasReader
  <2>3. \A f \in End : worker'[f] \in {"none", "spawned"} => Untouched(f)'
    BY <1>1 DEF IInv, Lifecycle, Untouched
  <2> QED
    BY <1>1, <1>2, <2>1, <2>2, <2>3, LaterStep DEF LaterWorker
<1> QED
  BY <1>8, <1>9, <1>10, <1>11, <1>12 DEF IInv

LEMMA OnWindowUpdateInv ==
    ASSUME IInv, TypeOK', NEW p \in Peer, OnWindowUpdate(p)
    PROVE  IInv'
<1> PICK m : m = Head(chan[Other(p)])
  OBVIOUS
<1> PICK e : e = Target(p)
  OBVIOUS
<1>1. /\ UNCHANGED <<mStreamId, mTunnels, worker, bufsize, nread, bytes, peerSum,
                     nwritten>>
      /\ Incoming(p, "WindowUpdate") /\ Consume(p)
      /\ e \in mTunnels =>
            sendWindow' = [sendWindow EXCEPT ![e] = @ + (m.to - m.from)]
      /\ e \notin mTunnels => sendWindow' = sendWindow
  BY DEF OnWindowUpdate, Grant, inflow
<1>2. /\ e \in End /\ e[1] = p /\ e[2] \in Id /\ e = <<p, e[2]>>
      /\ Far(e) \in End /\ Far(e) = <<Other(p), e[2]>>
      /\ m \in Message /\ m.type = "WindowUpdate" /\ m.id = e[2] /\ Honest(Other(p), m)
      /\ \A q \in Peer :
           \/ chan'[q] = chan[q] /\ q = p
           \/ chan[q] # <<>> /\ chan'[q] = Tail(chan[q]) /\ q = Other(p)
      /\ \A f \in End : Expecting(f)' => Expecting(f)
  BY <1>1, HandleStep
<1>3. TypeOK /\ Other(p) \in Peer /\ Other(p) # p
  BY OtherPeer DEF IInv
<1>4. /\ m \in Span /\ m.from \in Int /\ m.to \in Int /\ m \in CreditOf(e[2])
      /\ \A i \in Id : m \notin DataOf(i) /\ (i # e[2] => m \notin CreditOf(i))
  BY <1>2, MessageTypes, MessageKinds
<1>5. m.from < m.to /\ m.to <= nwritten[Far(e)] - peerSum[Far(e)]
  BY <1>2 DEF Honest
<1>6. \A f \in End : f # e \/ e \notin mTunnels => sendWindow'[f] = sendWindow[f]
  <2>1. sendWindow \in [End -> Int]
    BY <1>3 DEF TypeOK
  <2> QED
    BY <1>1, <2>1
<1>7. ASSUME e \in mTunnels
      PROVE  /\ sendWindow'[e] + nread[e] - InitWindow = m.to
             /\ sendWindow[e] <= sendWindow'[e]
             /\ Contiguous(chan'[Other(p)], CreditOf(e[2]), m.to,
                           nwritten[Far(e)] - peerSum[Far(e)])
  <2>1. Contiguous(chan[Other(p)], CreditOf(e[2]),
                   sendWindow[e] + nread[e] - InitWindow,
                   nwritten[Far(e)] - peerSum[Far(e)])
    BY <1>2, <1>7 DEF IInv, CreditConserved
  <2>2. chan[Other(p)] \in Seq(Message) /\ chan[Other(p)] # <<>>
        /\ chan'[Other(p)] = Tail(chan[Other(p)])
    BY <1>2, <1>3 DEF TypeOK
  <2>3. /\ m.from = sendWindow[e] + nread[e] - InitWindow
        /\ Contiguous(chan'[Other(p)], CreditOf(e[2]), m.to,
                      nwritten[Far(e)] - peerSum[Far(e)])
    BY <1>4, <2>1, <2>2, ContiguousTail
  <2>4. sendWindow[e] \in Int /\ nread[e] \in Int
        /\ sendWindow'[e] = sendWindow[e] + (m.to - m.from)
    BY <1>1, <1>2, <1>3, <1>7 DEF TypeOK
  <2> QED
    BY <1>4, <1>5, <2>3, <2>4, WindowAssumption
<1>8. \A f \in End : sendWindow[f] <= sendWindow'[f]
  BY <1>3, <1>6, <1>7, ReceivedType
<1>9. \A f \in End : Received(f)' = Received(f)
  BY <1>1 DEF Received
<1>10. Counters'
  <2> SUFFICES ASSUME NEW f \in End
               PROVE  /\ bufsize[f] \in 0 .. sendWindow'[f]
                      /\ 0 <= peerSum[f] /\ peerSum[f] <= nwritten[f]
                      /\ nwritten[f] <= Received(f) /\ Received(f) <= nread[Far(f)]
                      /\ sendWindow'[f] + nread[f] - InitWindow
                            <= nwritten[Far(f)] - peerSum[Far(f)]
                      /\ \A k \in 1 .. Len(bytes[f]) :
                            bytes[f][k] \in DataOf(f[2]) /\ bytes[f][k].to <= Received(f)
    BY <1>1, <1>9 DEF Counters
  <2>1. bufsize[f] \in 0 .. sendWindow'[f]
    <3>1. bufsize[f] \in 0 .. sendWindow[f] /\ sendWindow[f] <= sendWindow'[f]
          /\ sendWindow[f] \in Int /\ sendWindow'[f] \in Int
      BY <1>3, <1>8 DEF IInv, Counters, TypeOK
    <3> QED
      BY <3>1
  <2>2. CASE f = e /\ e \in mTunnels
    BY <1>5, <1>7, <2>1, <2>2 DEF IInv, Counters
  <2>3. CASE f # e \/ e \notin mTunnels
    BY <1>6, <2>1, <2>3 DEF IInv, Counters
  <2> QED
    BY <2>2, <2>3
<1>11. HonestMessages'
  <2>1. \A f \in End : /\ nread[f] <= nread'[f]
                       /\ nwritten[f] - peerSum[f] <= nwritten'[f] - peerSum'[f]
    BY <1>1, <1>3, ReceivedType
  <2> QED
    BY <1>2, <2>1, HonestStep
<1>12. DataInOrder'
  <2> SUFFICES ASSUME NEW f \in End
               PROVE  /\ Contiguous(bytes[f], DataOf(f[2]), nwritten[f], Received(f))
                      /\ Expecting(f)' =>
                           Contiguous(chan'[Other(f[1])], DataOf(f[2]),
                                      Received(f), nread[Far(f)])
    BY <1>1, <1>9 DEF DataInOrder
  <2>1. f[2] \in Id /\ Other(f[1]) \in Peer /\ chan[Other(f[1])] \in Seq(Message)
    BY <1>3, FarEnd, OtherPeer DEF TypeOK
  <2>2. ASSUME Expecting(f)'
        PROVE  Contiguous(chan'[Other(f[1])], DataOf(f[2]), Received(f), nread[Far(f)])
    <3>1. Contiguous(chan[Other(f[1])], DataOf(f[2]), Received(f), nread[Far(f)])
      BY <1>2, <2>2 DEF IInv, DataInOrder
    <3>2. CASE chan'[Other(f[1])] = chan[Other(f[1])]
      BY <3>1, <3>2
    <3>3. CASE /\ Other(f[1]) = Other(p) /\ chan[Other(f[1])] # <<>>
               /\ chan'[Other(f[1])] = Tail(chan[Other(f[1])])
      <4>1. Head(chan[Other(f[1])]) \notin DataOf(f[2])
        BY <1>4, <2>1, <3>3
      <4> QED
        BY <2>1, <3>1, <3>3, <4>1, ContiguousTail
    <3> QED
      BY <1>2, <2>1, <3>2, <3>3
  <2> QED
    BY <2>2 DEF IInv, DataInOrder
<1>13. CreditConserved'
  <2> SUFFICES ASSUME NEW f \in mTunnels
               PROVE  Contiguous(chan'[Other(f[1])], CreditOf(f[2]),
                                 sendWindow'[f] + nread[f] - InitWindow,
                                 nwritten[Far(f)] - peerSum[Far(f)])
    BY <1>1 DEF CreditConserved
  <2>1. f \in End /\ f[2] \in Id /\ Other(f[1]) \in Peer
        /\ chan[Other(f[1])] \in Seq(Message)
    BY <1>3, FarEnd, OtherPeer DEF TypeOK
  <2>2. CASE f = e
    BY <1>2, <1>7, <2>2
  <2>3. CASE f # e
    <3>1. Contiguous(chan[Other(f[1])], CreditOf(f[2]),
                     sendWindow'[f] + nread[f] - InitWindow,
                     nwritten[Far(f)] - peerSum[Far(f)])
      BY <1>6, <2>1, <2>3 DEF IInv, CreditConserved
    <3>2. CASE chan'[Other(f[1])] = chan[Other(f[1])]
      BY <3>1, <3>2
    <3>3. CASE /\ Other(f[1]) = Other(p) /\ chan[Other(f[1])] # <<>>
               /\ chan'[Other(f[1])] = Tail(chan[Other(f[1])])
      <4>1. f[1] = p
        BY <2>1, <3>3, FarEnd, OtherPeer
      <4>2. f[2] # e[2]
        BY <1>2, <2>1, <2>3, <4>1, FarEnd
      <4>3. Head(chan[Other(f[1])]) \notin CreditOf(f[2])
        BY <1>4, <2>1, <3>3, <4>2
      <4> QED
        BY <2>1, <3>1, <3>3, <4>3, ContiguousTail
    <3> QED
      BY <1>2, <2>1, <3>2, <3>3
  <2> QED
    BY <2>2, <2>3
<1>14. Lifecycle'
  <2>1. QueueHasReader'
    BY <1>1 DEF IInv, Lifecycle, QueueHasReader
  <2>2. \A f \in End : worker'[f] = "none" => bytes'[f] = <<>>
    BY <1>1 DEF IInv, Lifecycle
  <2>3. ASSUME NEW f \in End, worker'[f] \in {"none", "spawned"}
        PROVE  Untouched(f)'
    <3>1. Untouched(f) /\ sendWindow[f] <= sendWindow'[f]
          /\ sendWindow[f] \in Int /\ sendWindow'[f] \in Int
      BY <1>1, <1>3, <1>8, <2>3 DEF IInv, Lifecycle, TypeOK
    <3> QED
      BY <1>1, <3>1, WindowAssumption DEF Untouched
  <2> QED
    BY <1>1, <1>2, <2>1, <2>2, <2>3, LaterStep DEF LaterWorker
<1> QED
  BY <1>10, <1>11, <1>12, <1>13, <1>14 DEF IInv

LEMMA CleanupInv ==
    ASSUME IInv, TypeOK', NEW e \in End, Cleanup(e)
    PROVE  IInv'
<1> DEFINE m == TunnelClose(e[2])
<1>1. /\ UNCHANGED <<mStreamId, sendWindow, bufsize, nread, peerSum, nwritten>>
      /\ worker[e] = "ending" /\ worker' = [worker EXCEPT ![e] = "gone"]
      /\ bytes' = [bytes EXCEPT ![e] = <<>>] /\ mTunnels' = mTunnels \ {e}
      /\ Send(e[1], m) \/ chan' = chan
  BY DEF Cleanup, Unregister, window
<1>2. IInv /\ TypeOK /\ e[1] \in Peer /\ e[2] \in Id /\ Other(e[1]) \in Peer
      /\ Other(e[1]) # e[1] /\ Other(Other(e[1])) = e[1] /\ e = <<e[1], e[2]>>
  BY FarEnd, OtherPeer DEF IInv
<1>3. m \in Message /\ m \in Control /\ m.id = e[2] /\ m.type = "TunnelClose"
  BY <1>2, MessageTypes DEF TunnelClose, Control
<1> HIDE DEF m
<1>4. \A q \in Peer : \/ chan'[q] = chan[q]
                      \/ q = e[1] /\ chan'[q] = Append(chan[q], m)
  BY <1>1, <1>2, SendShape
<1>5. ControlStep
  BY <1>3, <1>4 DEF ControlStep
<1>6. \A f \in End : f # e => bytes'[f] = bytes[f] /\ Received(f)' = Received(f)
  <2>1. \A f \in End : f # e => bytes'[f] = bytes[f]
    BY <1>1, <1>2 DEF TypeOK
  <2> QED
    BY <1>1, <2>1 DEF Received
<1>7. bytes'[e] = <<>> /\ Received(e)' = nwritten[e]
  <2>1. bytes'[e] = <<>>
    BY <1>1, <1>2 DEF TypeOK
  <2> QED
    BY <1>1, <2>1 DEF Received
<1>8. \A f \in End : Expecting(f)' => Expecting(f)
  BY <1>1, <1>2, <1>3, <1>4, ExpectingKept
<1>9. ~ Expecting(e)'
  <2> SUFFICES ASSUME NEW k \in 1 .. Len(chan'[Other(e[1])]),
                      chan'[Other(e[1])][k] = OpenTunnel(e[2])
               PROVE  FALSE
    BY <1>1 DEF Expecting, InFlight, OpenTunnel
  <2>1. chan'[Other(e[1])] = chan[Other(e[1])]
    BY <1>2, <1>4
  <2>2. OpenTunnel(e[2]).type = "OpenTunnel" /\ OpenTunnel(e[2]).id = e[2]
    BY DEF OpenTunnel
  <2>3. worker[<<Other(Other(e[1])), e[2]>>] = "none"
    BY <1>2, <2>1, <2>2 DEF IInv, Lifecycle, FreshOpen
  <2> QED
    BY <1>1, <1>2, <2>3
<1>10. Counters'
  <2> SUFFICES ASSUME NEW f \in End
               PROVE  /\ bufsize[f] \in 0 .. sendWindow[f]
                      /\ 0 <= peerSum[f] /\ peerSum[f] <= nwritten[f]
                      /\ nwritten[f] <= Received(f)' /\ Received(f)' <= nread[Far(f)]
                      /\ sendWindow[f] + nread[f] - InitWindow
                            <= nwritten[Far(f)] - peerSum[Far(f)]
                      /\ \A k \in 1 .. Len(bytes'[f]) :
                            bytes'[f][k] \in DataOf(f[2]) /\ bytes'[f][k].to <= Received(f)'
    BY <1>1 DEF Counters
  <2>1. CASE f # e
    BY <1>6, <2>1 DEF IInv, Counters
  <2>2. CASE f = e
    <3>1. nwritten[e] <= Received(e)' /\ Received(e)' <= nread[Far(e)]
      <4>1. nwritten[e] <= Received(e) /\ Received(e) <= nread[Far(e)]
        BY DEF IInv, Counters
      <4>2. /\ nwritten[e] \in Int /\ Received(e) \in Int /\ Far(e) \in End
            /\ nread[Far(e)] \in Int
        BY <1>2, FarEnd, ReceivedType
      <4>3. nwritten[e] <= nwritten[e] /\ nwritten[e] <= nread[Far(e)]
        BY <4>1, <4>2
      <4> QED
        BY <1>7, <4>3
    <3>2. \A k \in 1 .. Len(bytes'[e]) :
             bytes'[e][k] \in DataOf(e[2]) /\ bytes'[e][k].to <= Received(e)'
      BY <1>7
    <3> QED
      BY <2>2, <3>1, <3>2 DEF IInv, Counters
  <2> QED
    BY <2>1, <2>2
<1>11. HonestMessages'
  <2>1. \A f \in End : /\ nread[f] <= nread'[f]
                       /\ nwritten[f] - peerSum[f] <= nwritten'[f] - peerSum'[f]
    BY <1>1, <1>2, ReceivedType
  <2>2. \A q \in Peer : Honest(q, m)'
    BY <1>3 DEF Honest
  <2> QED
    BY <1>3, <1>4, <2>1, <2>2, HonestStep
<1>12. DataInOrder'
  <2> SUFFICES ASSUME NEW f \in End
               PROVE  /\ Contiguous(bytes'[f], DataOf(f[2]), nwritten[f], Received(f)')
                      /\ Expecting(f)' =>
                           Contiguous(chan'[Other(f[1])], DataOf(f[2]),
                                      Received(f)', nread[Far(f)])
    BY <1>1 DEF DataInOrder
  <2>1. CASE f = e
    <3>1. Contiguous(<<>>, DataOf(f[2]), nwritten[f], nwritten[f])
      BY ContiguousNone
    <3> QED
      BY <1>7, <1>9, <2>1, <3>1
  <2>2. CASE f # e
    <3>1. Contiguous(bytes'[f], DataOf(f[2]), nwritten[f], Received(f)')
      BY <1>6, <2>2 DEF IInv, DataInOrder
    <3>2. ASSUME Expecting(f)'
          PROVE  Contiguous(chan'[Other(f[1])], DataOf(f[2]), Received(f)', nread[Far(f)])
      <4>1. Contiguous(chan[Other(f[1])], DataOf(f[2]), Received(f)', nread[Far(f)])
        BY <1>6, <1>8, <2>2, <3>2 DEF IInv, DataInOrder
      <4>2. f[2] \in Id /\ Other(f[1]) \in Peer
        BY FarEnd, OtherPeer
      <4> QED
        BY <1>2, <1>5, <4>1, <4>2, ControlContiguous
    <3> QED
      BY <3>1, <3>2
  <2> QED
    BY <2>1, <2>2
<1>13. CreditConserved'
  <2> SUFFICES ASSUME NEW f \in mTunnels'
               PROVE  Contiguous(chan'[Other(f[1])], CreditOf(f[2]),
                                 sendWindow[f] + nread[f] - InitWindow,
                                 nwritten[Far(f)] - peerSum[Far(f)])
    BY <1>1 DEF CreditConserved
  <2>1. f \in mTunnels /\ f \in End
    BY <1>1, <1>2 DEF TypeOK
  <2>2. f[2] \in Id /\ Other(f[1]) \in Peer
    BY <2>1, FarEnd, OtherPeer
  <2>3. Contiguous(chan[Other(f[1])], CreditOf(f[2]),
                   sendWindow[f] + nread[f] - InitWindow,
                   nwritten[Far(f)] - peerSum[Far(f)])
    BY <2>1 DEF IInv, CreditConserved
  <2> QED
    BY <1>2, <1>5, <2>2, <2>3, ControlContiguous
<1>14. Lifecycle'
  <2>1. QueueHasReader'
    BY <1>1, <1>2 DEF IInv, Lifecycle, QueueHasReader, TypeOK
  <2>2. \A f \in End : worker'[f] = "none" => bytes'[f] = <<>>
    BY <1>1, <1>2, <1>6, <1>7 DEF IInv, Lifecycle, TypeOK
  <2>3. ASSUME NEW f \in End, worker'[f] \in {"none", "spawned"}
        PROVE  Untouched(f)'
    <3>1. worker[f] \in {"none", "spawned"}
      BY <1>1, <1>2, <2>3 DEF TypeOK
    <3> QED
      BY <1>1, <3>1 DEF IInv, Lifecycle, Untouched
  <2>4. ~ Reserved(m.id)
    BY <1>1, <1>3, CopyingNotReserved
  <2>5. m.type # "OpenTunnel"
    BY <1>3
  <2>6. LaterWorker
    BY <1>1 DEF LaterWorker
  <2> QED
    BY <1>1, <1>3, <1>4, <2>1, <2>2, <2>3, <2>4, <2>5, <2>6, LaterStep
<1> QED
  BY <1>10, <1>11, <1>12, <1>13, <1>14 DEF IInv

-----------------------------------------------------------------------------
(* What holds in every state. *)

LEMMA NextInv == IInv /\ [Next]_vars => IInv'
<1> SUFFICES ASSUME IInv, [Next]_vars
             PROVE  IInv'
  OBVIOUS
<1>1. TypeOK'
  BY NextType DEF IInv
<1>2. CASE ServerOpenTunnel
  BY <1>1, <1>2, ServerOpenTunnelInv
<1>3. CASE ClientForward
  BY <1>1, <1>3, ClientForwardInv
<1>4. CASE RefuseOpenTunnel
  BY <1>1, <1>4, RefuseOpenTunnelInv
<1>5. ASSUME NEW p \in Peer, Receive(p)
      PROVE  IInv'
  BY <1>1, <1>5, OnOpenTunnelInv, OnDataExchangeInv, OnWindowUpdateInv,
     OnTunnelCloseInv DEF Receive
<1>6. ASSUME NEW e \in End, Work(e)
      PROVE  IInv'
  <2>1. ASSUME NEW n \in 1 .. MaxData, ReadData(e, n)
        PROVE  IInv'
    <3>1. n \in Nat
      BY WindowAssumption
    <3> QED
      BY <1>1, <2>1, <3>1, ReadDataInv
  <2> QED
    BY <1>1, <1>6, <2>1, StartCopyInv, ConnectFailedInv, WindowWakeInv,
       WriteDataInv, CopyEndsInv, CleanupInv DEF Work
<1>7. CASE UNCHANGED vars
  <2>1. UNCHANGED <<chan, mStreamId, mTunnels, worker, closed, sendWindow, updated,
                    bufsize, nread, bytes, peerSum, nwritten>>
    BY <1>7 DEF vars, window, inflow
  <2>2. \A e \in End : /\ Received(e)' = Received(e) /\ (Untouched(e)' <=> Untouched(e))
                       /\ (Expecting(e)' <=> Expecting(e))
    BY <2>1 DEF Received, Untouched, Expecting, InFlight
  <2>3. Lifecycle'
    <3>1. QueueHasReader' /\ FreshOpen'
      BY <2>1 DEF IInv, Lifecycle, QueueHasReader, FreshOpen
    <3>2. \A i \in Id : (Reserved(i)' <=> Reserved(i)) /\ (Quiet(i)' <=> Quiet(i))
      BY <2>1 DEF Reserved, Quiet, Silent
    <3> QED
      BY <2>1, <2>2, <3>1, <3>2 DEF IInv, Lifecycle
  <2>4. Counters' /\ HonestMessages'
    BY <2>1, <2>2 DEF IInv, Counters, HonestMessages, Honest
  <2>5. DataInOrder' /\ CreditConserved'
    BY <2>1, <2>2 DEF IInv, DataInOrder, CreditConserved
  <2> QED
    BY <1>1, <2>3, <2>4, <2>5 DEF IInv
<1> QED
  BY <1>2, <1>3, <1>4, <1>5, <1>6, <1>7 DEF Next

\* The inductive invariant holds in every state.
THEOREM Invariant == Spec => []IInv
BY InitInv, NextInv, PTL DEF Spec

\* No byte of a tunnel is lost, repeated or reordered between the read at one end
\* and the write at the other (readCopyWorker, onDataExchange, writeCopyWorker).
THEOREM DataStaysInOrder == Spec => []DataInOrder
<1>1. IInv => DataInOrder
  BY DEF IInv
<1> QED
  BY <1>1, Invariant, PTL

\* The WindowUpdates of an end add up to what it has written, whatever the size
\* of the batches (writeCopyWorker, onWindowUpdate).
THEOREM CreditStaysConserved == Spec => []CreditConserved
<1>1. IInv => CreditConserved
  BY DEF IInv
<1> QED
  BY <1>1, Invariant, PTL

\* onDataExchange never finds the receiving side of a queue gone.
THEOREM QueueKeepsReader == Spec => []QueueHasReader
<1>1. IInv => QueueHasReader
  BY DEF IInv, Lifecycle
<1> QED
  BY <1>1, Invariant, PTL

\* An OpenTunnel is always the first thing its receiver hears of the tunnel.
THEOREM OpensStayFresh == Spec => []FreshOpen
<1>1. IInv => FreshOpen
  BY DEF IInv, Lifecycle
<1> QED
  BY <1>1, Invariant, PTL

LEMMA FlowControlInv == IInv => FlowControl
<1> SUFFICES ASSUME IInv, NEW e \in End
             PROVE  /\ sendWindow[e] \in 0 .. InitWindow
                    /\ bufsize[e] \in 0 .. sendWindow[e]
                    /\ peerSum[e] \in 0 .. nwritten[e]
                    /\ Received(e) - nwritten[e] <= InitWindow
  BY DEF FlowControl
<1>1. TypeOK /\ Far(e) \in End /\ Far(Far(e)) = e
  BY FarEnd DEF IInv
<1>2. ASSUME NEW f \in End
      PROVE  /\ bufsize[f] \in 0 .. sendWindow[f]
             /\ 0 <= peerSum[f] /\ peerSum[f] <= nwritten[f]
             /\ nwritten[f] <= Received(f) /\ Received(f) <= nread[Far(f)]
             /\ sendWindow[f] + nread[f] - InitWindow
                   <= nwritten[Far(f)] - peerSum[Far(f)]
  BY DEF IInv, Counters
<1>3. ASSUME NEW f \in End
      PROVE  /\ Received(f) \in Int /\ nwritten[f] \in Int /\ peerSum[f] \in Int
             /\ sendWindow[f] \in Int /\ nread[f] \in Int /\ bufsize[f] \in Int
  BY <1>1, ReceivedType
<1>4. sendWindow[e] >= 0 /\ sendWindow[Far(e)] >= 0
  BY <1>1, <1>2, <1>3
<1>5. sendWindow[e] <= InitWindow
  <2>1. nwritten[Far(e)] <= nread[e]
    BY <1>1, <1>2, <1>3
  <2>2. nwritten[Far(e)] - peerSum[Far(e)] <= nread[e]
    BY <1>1, <1>2, <1>3, <2>1
  <2> QED
    BY <1>1, <1>2, <1>3, <2>2, WindowAssumption
<1>6. Received(e) - nwritten[e] <= InitWindow
  <2>1. sendWindow[Far(e)] + nread[Far(e)] - InitWindow <= nwritten[e] - peerSum[e]
    BY <1>1, <1>2
  <2>2. nread[Far(e)] - InitWindow <= nwritten[e]
    BY <1>1, <1>2, <1>3, <1>4, <2>1, WindowAssumption
  <2> QED
    BY <1>1, <1>2, <1>3, <2>2, WindowAssumption
<1> QED
  BY <1>2, <1>3, <1>4, <1>5, <1>6

\* Whatever the windows and however slow the local programs, sendWindow never
\* wraps and an end never has to hold more than InitWindow bytes of a tunnel.
THEOREM FlowStaysControlled == Spec => []FlowControl
BY Invariant, FlowControlInv, PTL

-----------------------------------------------------------------------------
(* Each direction of a tunnel implements TunnelPipe. *)

PipeStep(e) == [Pipe(e)!Next]_(Pipe(e)!vars)

LEMMA PipeInit == Init => \A e \in End : Pipe(e)!Init
BY FarEnd DEF Init, Pipe!Init, Receiver

\* A step that reads and writes nothing may only raise or cut the pipe.
LEMMA PipeIdle ==
    ASSUME UNCHANGED <<nread, nwritten>>, NEW e \in End,
           \/ Receiver(e)' = Receiver(e)
           \/ Receiver(e) = "new" /\ Receiver(e)' = "up"
           \/ Receiver(e) = "up" /\ Receiver(e)' = "down"
    PROVE  PipeStep(e)
BY DEF PipeStep, Pipe!Next, Pipe!vars, Pipe!Raise, Pipe!Cut

LEMMA PipeAdd ==
    ASSUME IInv, TypeOK', NEW g \in End, AddTunnel(g),
           g \in mTunnels \/ worker[g] = "none",
           UNCHANGED <<nread, nwritten>>, NEW e \in End
    PROVE  PipeStep(e)
<1>1. worker' = worker
      \/ (worker[g] = "none" /\ worker' = [worker EXCEPT ![g] = "spawned"])
  BY DEF AddTunnel
<1>2. worker'[e] = worker[e] \/ (worker[e] = "none" /\ worker'[e] = "spawned")
  BY <1>1 DEF IInv, TypeOK
<1>3. Receiver(e)' = Receiver(e) \/ (Receiver(e) = "new" /\ Receiver(e)' = "up")
  BY <1>2 DEF Receiver
<1> QED
  BY <1>3, PipeIdle

LEMMA PipeRead ==
    ASSUME IInv, IInv', NEW g \in End, NEW n \in Nat, ReadData(g, n), NEW e \in End
    PROVE  PipeStep(e)
<1>1. /\ UNCHANGED <<worker, nwritten>> /\ n \in 1 .. bufsize[g]
      /\ nread' = [nread EXCEPT ![g] = @ + n]
  BY DEF ReadData, inflow
<1>2. TypeOK /\ Far(e) \in End /\ FlowControl /\ Receiver(e)' = Receiver(e)
  BY <1>1, FarEnd, FlowControlInv DEF IInv, Receiver
<1>3. CASE Far(e) = g
  <2>1. /\ nread[g] \in Int /\ sendWindow[g] \in Int /\ nwritten[e] \in Int
        /\ bufsize[g] \in Int /\ peerSum[e] \in Int /\ Far(g) = e
    BY <1>2, <1>3, FarEnd, ReceivedType
  <2>2. /\ bufsize[g] <= sendWindow[g] /\ sendWindow[g] <= InitWindow
        /\ sendWindow[g] + nread[g] - InitWindow <= nwritten[e] - peerSum[e]
        /\ 0 <= peerSum[e]
    BY <1>2, <2>1 DEF FlowControl, IInv, Counters
  <2>3. n \in 1 .. InitWindow /\ nread[g] + n <= nwritten[e] + InitWindow
    BY <1>1, <2>1, <2>2, WindowAssumption
  <2>4. nread'[Far(e)] = nread[Far(e)] + n
    BY <1>1, <1>2, <1>3 DEF TypeOK
  <2>5. Pipe(e)!Put(n)
    BY <1>1, <1>2, <1>3, <2>3, <2>4 DEF Pipe!Put
  <2> QED
    BY <2>3, <2>5 DEF PipeStep, Pipe!Next
<1>4. CASE Far(e) # g
  <2>1. nread'[Far(e)] = nread[Far(e)]
    BY <1>1, <1>2, <1>4 DEF TypeOK
  <2> QED
    BY <1>1, <1>2, <2>1 DEF PipeStep, Pipe!vars
<1> QED
  BY <1>3, <1>4

LEMMA PipeWrite ==
    ASSUME IInv, IInv', NEW g \in End, WriteData(g), NEW e \in End
    PROVE  PipeStep(e)
<1> PICK c : c = Head(bytes[g])
  OBVIOUS
<1>1. UNCHANGED <<worker, nread>> /\ worker[g] = "copying"
  BY DEF WriteData, window
<1>2. TypeOK /\ TypeOK' /\ FlowControl /\ Receiver(e)' = Receiver(e)
  BY <1>1, FlowControlInv DEF IInv, Receiver
<1>3. /\ c.to \in Int /\ nwritten'[g] = c.to /\ nwritten[g] < c.to
      /\ c.to <= Received(g)
      /\ \A f \in End : f # g => nwritten'[f] = nwritten[f]
  BY <1>2, WriteDataStep
<1>4. CASE e = g
  <2> DEFINE n == c.to - nwritten[e]
  <2>1. /\ nwritten[e] \in Int /\ Received(e) \in Int /\ nread[Far(e)] \in Int
        /\ Received(e) <= nread[Far(e)] /\ Received(e) - nwritten[e] <= InitWindow
    BY <1>2, FarEnd, ReceivedType DEF IInv, Counters, FlowControl
  <2>2. /\ n \in 1 .. InitWindow /\ nwritten[e] + n <= nread[Far(e)]
        /\ nwritten'[e] = nwritten[e] + n
    BY <1>3, <1>4, <2>1, WindowAssumption
  <2>3. Receiver(e) = "up"
    BY <1>1, <1>4 DEF Receiver
  <2> HIDE DEF n
  <2>4. Pipe(e)!Take(n)
    BY <1>1, <1>2, <2>2, <2>3 DEF Pipe!Take
  <2> QED
    BY <2>2, <2>4 DEF PipeStep, Pipe!Next
<1>5. CASE e # g
  BY <1>1, <1>2, <1>3, <1>5 DEF PipeStep, Pipe!vars
<1> QED
  BY <1>4, <1>5

LEMMA NextPipe ==
    ASSUME IInv, IInv', [Next]_vars, NEW e \in End
    PROVE  PipeStep(e)
<1>1. TypeOK /\ TypeOK'
  BY DEF IInv
<1>2. CASE ServerOpenTunnel
  <2>1. /\ mStreamId["server"] \in Id /\ AddTunnel(<<"server", mStreamId["server"]>>)
        /\ UNCHANGED <<nread, nwritten>> /\ "server" \in Peer
    BY <1>2 DEF ServerOpenTunnel, window, inflow, Peer
  <2>2. <<"server", mStreamId["server"]>> \in End
        /\ worker[<<"server", mStreamId["server"]>>] = "none"
    BY <2>1, NextEnd
  <2> QED
    BY <1>1, <2>1, <2>2, PipeAdd
<1>3. CASE ClientForward
  <2>1. /\ mStreamId["client"] \in Id /\ AddTunnel(<<"client", mStreamId["client"]>>)
        /\ UNCHANGED <<nread, nwritten>> /\ "client" \in Peer
    BY <1>3 DEF ClientForward, window, inflow, Peer
  <2>2. <<"client", mStreamId["client"]>> \in End
        /\ worker[<<"client", mStreamId["client"]>>] = "none"
    BY <2>1, NextEnd
  <2> QED
    BY <1>1, <2>1, <2>2, PipeAdd
<1>4. CASE RefuseOpenTunnel
  BY <1>4, PipeIdle DEF RefuseOpenTunnel, window, inflow, Receiver
<1>5. ASSUME NEW p \in Peer, OnOpenTunnel(p)
      PROVE  PipeStep(e)
  <2> PICK g : g = Target(p)
    OBVIOUS
  <2>1. Incoming(p, "OpenTunnel") /\ AddTunnel(g) /\ UNCHANGED <<nread, nwritten>>
        /\ Other(p) \in Peer /\ chan[Other(p)] # <<>> /\ Other(Other(p)) = p
    BY <1>5, OtherPeer DEF OnOpenTunnel, Incoming, window, inflow
  <2>2. g = <<p, Head(chan[Other(p)]).id>> /\ g \in End
    BY <1>1, <2>1, IncomingType DEF TypeOK, Target
  <2>3. worker[g] = "none"
    <3>1. /\ chan[Other(p)][1] = Head(chan[Other(p)]) /\ 1 \in 1 .. Len(chan[Other(p)])
          /\ Head(chan[Other(p)]).type = "OpenTunnel"
      BY <2>1, HeadNotReserved DEF Incoming
    <3>2. worker[<<Other(Other(p)), chan[Other(p)][1].id>>] = "none"
      <4>1. FreshOpen
        BY Zenon DEF IInv, Lifecycle
      <4> QED
        BY <2>1, <3>1, <4>1 DEF FreshOpen
    <3> QED
      BY <2>1, <2>2, <3>1, <3>2, Zenon
  <2> QED
    BY <1>1, <2>1, <2>2, <2>3, PipeAdd
<1>6. ASSUME NEW p \in Peer, OnDataExchange(p) \/ OnWindowUpdate(p) \/ OnTunnelClose(p)
      PROVE  PipeStep(e)
  <2>1. UNCHANGED <<worker, nread, nwritten>>
    BY <1>6 DEF OnDataExchange, OnWindowUpdate, OnTunnelClose, window, inflow
  <2> QED
    BY <2>1, PipeIdle DEF Receiver
<1>7. ASSUME NEW g \in End, StartCopy(g) \/ ConnectFailed(g) \/ WindowWake(g)
                            \/ CopyEnds(g) \/ Cleanup(g)
      PROVE  PipeStep(e)
  <2>1. UNCHANGED <<nread, nwritten>>
    BY <1>7 DEF StartCopy, ConnectFailed, WindowWake, CopyEnds, Cleanup, window, inflow
  <2>2. \/ worker'[e] = worker[e]
        \/ worker[e] = "spawned" /\ worker'[e] \in {"copying", "ending"}
        \/ worker[e] = "copying" /\ worker'[e] = "ending"
        \/ worker[e] = "ending" /\ worker'[e] = "gone"
    <3>1. worker \in [End -> {"none", "spawned", "copying", "ending", "gone"}]
      BY <1>1 DEF TypeOK
    <3>2. \/ worker' = worker
          \/ worker[g] = "spawned" /\ worker' = [worker EXCEPT ![g] = "copying"]
          \/ worker[g] \in {"spawned", "copying"}
                /\ worker' = [worker EXCEPT ![g] = "ending"]
          \/ worker[g] = "ending" /\ worker' = [worker EXCEPT ![g] = "gone"]
      BY <1>7 DEF StartCopy, ConnectFailed, WindowWake, CopyEnds, Cleanup
    <3> QED
      BY <3>1, <3>2
  <2>3. \/ Receiver(e)' = Receiver(e)
        \/ Receiver(e) = "up" /\ Receiver(e)' = "down"
    BY <2>2 DEF Receiver
  <2> QED
    BY <2>1, <2>3, PipeIdle
<1>8. ASSUME NEW g \in End, NEW n \in 1 .. MaxData, ReadData(g, n)
      PROVE  PipeStep(e)
  <2>1. n \in Nat
    BY WindowAssumption
  <2> QED
    BY <1>8, <2>1, PipeRead
<1>9. ASSUME NEW g \in End, WriteData(g)
      PROVE  PipeStep(e)
  BY <1>9, PipeWrite
<1>10. CASE UNCHANGED vars
  BY <1>10, PipeIdle DEF vars, window, inflow, Receiver
<1> QED
  BY <1>2, <1>3, <1>4, <1>5, <1>6, <1>7, <1>8, <1>9, <1>10 DEF Next, Receive, Work

\* Seen from its two programs, a direction of a tunnel is a byte pipe that keeps
\* the order and holds at most a window: the tunnels implement TunnelPipe.
THEOREM PipesImplemented == Spec => PipesSafe
<1>1. IInv /\ IInv' /\ [Next]_vars
        => [\A e \in End : [Pipe(e)!Next]_(Pipe(e)!vars)]_vars
  BY NextPipe DEF PipeStep
<1>2. Init => \A e \in End : Pipe(e)!Init
  BY PipeInit
<1>3. Spec => \A e \in End : Pipe(e)!Init
  BY <1>2 DEF Spec
<1>4. Spec => [][\A e \in End : [Pipe(e)!Next]_(Pipe(e)!vars)]_vars
  BY <1>1, Invariant, PTL DEF Spec
<1> QED
  BY <1>3, <1>4 DEF PipesSafe

-----------------------------------------------------------------------------
(* No tunnel is left at one end only. *)

\* A close is the last word of its sender about a tunnel: that end is gone, or never was
\* there, because the server refused the tunnel.
CloseFinal ==
    \A p \in Peer, i \in Id : InFlight(p, TunnelClose(i)) =>
        /\ <<p, i>> \notin mTunnels
        /\ \/ worker[<<p, i>>] = "gone"
           \/ /\ p = "server" /\ OpenedBy(i) = "client" /\ worker[<<p, i>>] = "none"
              /\ ~ InFlight("client", OpenTunnel(i))

\* Whoever announces a tunnel holds it, or has closed it and said so.
Announced ==
    \A p \in Peer, i \in Id : InFlight(p, OpenTunnel(i)) =>
        <<p, i>> \in mTunnels \/ InFlight(p, TunnelClose(i))

\* The server holds a tunnel of its own that it has not announced yet.
Held ==
    \A i \in Id : OpenedBy(i) = "server" /\ worker[<<"server", i>>] = "spawned"
        => <<"server", i>> \in mTunnels

OrphanInv == NoOrphan /\ CloseFinal /\ Announced /\ Held

\* The messages about the life of a tunnel.
Signal == {OpenTunnel(i) : i \in Id} \cup {TunnelClose(i) : i \in Id}

LEMMA SignalTypes ==
    /\ \A i, j \in Id : OpenTunnel(i) # TunnelClose(j)
    /\ \A i, j \in Id : OpenTunnel(i) = OpenTunnel(j) => i = j
    /\ \A i, j \in Id : TunnelClose(i) = TunnelClose(j) => i = j
    /\ \A m \in Message : m.type = "OpenTunnel" => m = OpenTunnel(m.id)
    /\ \A m \in Message : m.type = "TunnelClose" => m = TunnelClose(m.id)
    /\ \A m \in Message : m.type \notin {"OpenTunnel", "TunnelClose"} => m \notin Signal
    /\ \A i \in Id : OpenTunnel(i) \in Signal /\ TunnelClose(i) \in Signal
<1>1. \A m \in Message : m.type = "OpenTunnel" => m = OpenTunnel(m.id)
  BY DEF Message, Span, OpenTunnel
<1>2. \A m \in Message : m.type = "TunnelClose" => m = TunnelClose(m.id)
  BY DEF Message, Span, TunnelClose
<1>3. \A i \in Id : /\ OpenTunnel(i).type = "OpenTunnel" /\ OpenTunnel(i).id = i
                     /\ TunnelClose(i).type = "TunnelClose" /\ TunnelClose(i).id = i
  BY DEF OpenTunnel, TunnelClose
<1>4. \A i, j \in Id : OpenTunnel(i) # TunnelClose(j)
  BY <1>3, Zenon
<1>5. \A i, j \in Id : OpenTunnel(i) = OpenTunnel(j) => i = j
  BY <1>3, Zenon
<1>6. \A i, j \in Id : TunnelClose(i) = TunnelClose(j) => i = j
  BY <1>3, Zenon
<1>7. \A m \in Message : m.type \notin {"OpenTunnel", "TunnelClose"} => m \notin Signal
  <2> SUFFICES ASSUME NEW m \in Signal
               PROVE  m.type \in {"OpenTunnel", "TunnelClose"}
    OBVIOUS
  <2>1. PICK i \in Id : m = OpenTunnel(i) \/ m = TunnelClose(i)
    BY DEF Signal
  <2> QED
    BY <1>3, <2>1
<1>8. \A i \in Id : OpenTunnel(i) \in Signal /\ TunnelClose(i) \in Signal
  BY DEF Signal
<1> QED
  BY <1>1, <1>2, <1>4, <1>5, <1>6, <1>7, <1>8

LEMMA InFlightSent ==
    ASSUME TypeOK, NEW q \in Peer, NEW x \in Message, chan'[q] = Append(chan[q], x), NEW m
    PROVE  InFlight(q, m)' <=> InFlight(q, m) \/ m = x
<1>1. chan[q] \in Seq(Message)
  BY DEF TypeOK
<1>2. /\ Len(chan'[q]) = Len(chan[q]) + 1 /\ Len(chan[q]) \in Nat
      /\ chan'[q][Len(chan[q]) + 1] = x
      /\ \A j \in 1 .. Len(chan[q]) : chan'[q][j] = chan[q][j]
  BY <1>1
<1>3. \A j : j \in 1 .. Len(chan[q]) + 1 <=> j \in 1 .. Len(chan[q]) \/ j = Len(chan[q]) + 1
  BY <1>2
<1> QED
  BY <1>2, <1>3, Zenon DEF InFlight

LEMMA InFlightRead ==
    ASSUME TypeOK, NEW q \in Peer, chan[q] # <<>>, chan'[q] = Tail(chan[q]), NEW m
    PROVE  /\ InFlight(q, m)' => InFlight(q, m)
           /\ InFlight(q, m) /\ Head(chan[q]) # m => InFlight(q, m)'
           /\ InFlight(q, Head(chan[q]))
<1>1. chan[q] \in Seq(Message)
  BY DEF TypeOK
<1>2. /\ Len(chan[q]) \in Nat /\ Len(chan[q]) # 0 /\ Len(chan'[q]) = Len(chan[q]) - 1
      /\ Head(chan[q]) = chan[q][1]
  BY <1>1
<1>3. \A j \in 1 .. Len(chan[q]) - 1 : chan'[q][j] = chan[q][j + 1]
  BY <1>1
<1>4. InFlight(q, m)' => InFlight(q, m)
  <2>1. \A j \in 1 .. Len(chan[q]) - 1 : j + 1 \in 1 .. Len(chan[q])
    BY <1>2
  <2> QED
    BY <1>2, <1>3, <2>1, Zenon DEF InFlight
<1>5. ASSUME NEW j \in 1 .. Len(chan[q]), chan[q][j] = m, Head(chan[q]) # m
      PROVE  InFlight(q, m)'
  <2>1. j # 1
    BY <1>2, <1>5
  <2>2. j - 1 \in 1 .. Len(chan[q]) - 1 /\ (j - 1) + 1 = j
    BY <1>2, <2>1
  <2>3. chan'[q][j - 1] = m
    BY <1>3, <1>5, <2>2
  <2> QED
    BY <1>2, <2>2, <2>3, Zenon DEF InFlight
<1>6. InFlight(q, Head(chan[q]))
  BY <1>2 DEF InFlight
<1> QED
  BY <1>4, <1>5, <1>6 DEF InFlight

\* A step that neither sends nor reads a signal.
SameSignals ==
    \A q \in Peer :
        \/ chan'[q] = chan[q]
        \/ chan[q] # <<>> /\ Head(chan[q]) \notin Signal /\ chan'[q] = Tail(chan[q])
        \/ \E x \in Message \ Signal : chan'[q] = Append(chan[q], x)

LEMMA SignalsStay ==
    ASSUME TypeOK, SameSignals, NEW q \in Peer, NEW m \in Signal
    PROVE  InFlight(q, m)' <=> InFlight(q, m)
<1>1. CASE chan'[q] = chan[q]
  BY <1>1 DEF InFlight
<1>2. CASE chan[q] # <<>> /\ Head(chan[q]) \notin Signal /\ chan'[q] = Tail(chan[q])
  BY <1>2, InFlightRead
<1>3. ASSUME NEW x \in Message \ Signal, chan'[q] = Append(chan[q], x)
      PROVE  InFlight(q, m)' <=> InFlight(q, m)
  BY <1>3, InFlightSent
<1> QED
  BY <1>1, <1>2, <1>3 DEF SameSignals

LEMMA OrphanKept ==
    ASSUME TypeOK, OrphanInv, SameSignals, mTunnels' = mTunnels,
           \A e \in End : /\ worker[e] = "gone" => worker'[e] = "gone"
                          /\ worker[e] = "none" => worker'[e] = "none"
                          /\ worker'[e] = "spawned" => worker[e] = "spawned"
                          /\ worker[e] = "spawned" /\ e[1] = "server"
                                /\ OpenedBy(e[2]) = "server" => worker'[e] = "spawned"
    PROVE  OrphanInv'
<1>1. \A q \in Peer, i \in Id : /\ InFlight(q, OpenTunnel(i))' <=> InFlight(q, OpenTunnel(i))
                                /\ InFlight(q, TunnelClose(i))' <=> InFlight(q, TunnelClose(i))
  BY SignalsStay, SignalTypes
<1>2. NoOrphan'
  <2> SUFFICES ASSUME NEW e \in mTunnels
               PROVE  \/ Far(e) \in mTunnels
                      \/ InFlight(e[1], OpenTunnel(e[2]))'
                      \/ InFlight(Other(e[1]), TunnelClose(e[2]))'
                      \/ /\ worker'[e] = "spawned" /\ e[1] = "server"
                         /\ OpenedBy(e[2]) = "server"
    BY DEF NoOrphan
  <2>1. e \in End /\ e[1] \in Peer /\ e[2] \in Id /\ Other(e[1]) \in Peer
    BY FarEnd, OtherPeer DEF TypeOK
  <2> QED
    BY <1>1, <2>1 DEF OrphanInv, NoOrphan
<1>3. CloseFinal'
  <2>1. "client" \in Peer /\ \A p \in Peer, i \in Id : <<p, i>> \in End
    BY DEF Peer, End
  <2> QED
    BY <1>1, <2>1 DEF OrphanInv, CloseFinal
<1>4. Announced'
  BY <1>1 DEF OrphanInv, Announced
<1>5. Held'
  <2>1. \A i \in Id : <<"server", i>> \in End
    BY DEF Peer, End
  <2> QED
    BY <2>1 DEF OrphanInv, Held
<1> QED
  BY <1>2, <1>3, <1>4, <1>5 DEF OrphanInv

\* The steps that neither begin nor end a tunnel.
LEMMA QuietOrphan ==
    ASSUME TypeOK, OrphanInv, NEW e \in End,
           \/ ConnectFailed(e) \/ WindowWake(e) \/ CopyEnds(e) \/ WriteData(e)
           \/ \E n \in 1 .. MaxData : ReadData(e, n)
    PROVE  OrphanInv'
<1>1. e[1] \in Peer /\ e[2] \in Id
  BY FarEnd
<1>2. mTunnels' = mTunnels
  BY DEF ConnectFailed, WindowWake, CopyEnds, WriteData, ReadData
<1>3. \A f \in End : /\ worker[f] = "gone" => worker'[f] = "gone"
                     /\ worker[f] = "none" => worker'[f] = "none"
                     /\ worker'[f] = "spawned" => worker[f] = "spawned"
                     /\ worker[f] = "spawned" /\ f[1] = "server"
                           /\ OpenedBy(f[2]) = "server" => worker'[f] = "spawned"
  BY DEF ConnectFailed, WindowWake, CopyEnds, WriteData, ReadData, TypeOK
<1>4. SameSignals
  <2>1. CASE ConnectFailed(e) \/ WindowWake(e) \/ CopyEnds(e)
    BY <2>1 DEF ConnectFailed, WindowWake, CopyEnds, SameSignals
  <2>2. ASSUME NEW x \in Message \ Signal, Send(e[1], x)
        PROVE  SameSignals
    BY <1>1, <2>2, SendShape, OtherPeer DEF SameSignals
  <2>3. ASSUME NEW n \in 1 .. MaxData, ReadData(e, n)
        PROVE  SameSignals
    <3>1. nread[e] \in Int /\ nread[e] + n \in Int
      BY DEF TypeOK
    <3>2. DataExchange(e[2], nread[e], nread[e] + n) \in Message
      BY <1>1, <3>1, MessageTypes
    <3>3. DataExchange(e[2], nread[e], nread[e] + n).type = "DataExchange"
      BY DEF DataExchange
    <3>4. DataExchange(e[2], nread[e], nread[e] + n) \notin Signal
      BY <3>2, <3>3, SignalTypes
    <3> QED
      BY <2>2, <2>3, <3>2, <3>4 DEF ReadData
  <2>4. CASE WriteData(e)
    <3>1. Head(bytes[e]) \in Span /\ peerSum[e] \in Int
      BY <2>4 DEF WriteData, TypeOK
    <3>2. PICK a \in Int, b \in Int : a = Head(bytes[e]).from /\ b = Head(bytes[e]).to
      BY <3>1, MessageTypes
    <3>3. chan' = chan \/ \E c \in Int : Send(e[1], WindowUpdate(e[2], b - c, b))
      <4>1. PICK c \in Int : c = peerSum[e] + (b - a)
        BY <3>1
      <4>2. c = peerSum[e] + (Head(bytes[e]).to - Head(bytes[e]).from)
        BY <3>2, <4>1
      <4>3. chan' = chan \/ Send(e[1], WindowUpdate(e[2], Head(bytes[e]).to - c,
                                                   Head(bytes[e]).to))
        BY <2>4, <4>2 DEF WriteData
      <4> QED
        BY <3>2, <4>3
    <3>4. ASSUME NEW c \in Int, Send(e[1], WindowUpdate(e[2], b - c, b))
          PROVE  SameSignals
      <4>1. WindowUpdate(e[2], b - c, b) \in Message
        BY <1>1, MessageTypes
      <4>2. WindowUpdate(e[2], b - c, b).type = "WindowUpdate"
        BY DEF WindowUpdate
      <4>3. WindowUpdate(e[2], b - c, b) \notin Signal
        BY <4>1, <4>2, SignalTypes
      <4> QED
        BY <2>2, <3>4, <4>1, <4>3
    <3> QED
      BY <3>3, <3>4 DEF SameSignals
  <2> QED
    BY <2>1, <2>3, <2>4
<1> QED
  BY <1>2, <1>3, <1>4, OrphanKept

\* The messages about data and credits.
LEMMA HandleOrphan ==
    ASSUME TypeOK, OrphanInv, NEW p \in Peer, OnDataExchange(p) \/ OnWindowUpdate(p)
    PROVE  OrphanInv'
<1>1. mTunnels' = mTunnels /\ worker' = worker
  BY DEF OnDataExchange, OnWindowUpdate
<1>2. PICK type \in {"DataExchange", "WindowUpdate"} : Incoming(p, type) /\ Consume(p)
  BY DEF OnDataExchange, OnWindowUpdate
<1>3. Head(chan[Other(p)]) \notin Signal
  <2>1. Head(chan[Other(p)]) \in Message /\ Head(chan[Other(p)]).type = type
    BY <1>2, IncomingType DEF TypeOK, Incoming
  <2> QED
    BY <2>1, SignalTypes
<1>4. SameSignals
  BY <1>2, <1>3, ConsumeShape DEF SameSignals
<1> QED
  BY <1>1, <1>4, OrphanKept

\* An end goes and says so.
LEMMA CleanupOrphan ==
    ASSUME IInv, OrphanInv, NEW e \in End, Cleanup(e)
    PROVE  OrphanInv'
<1>1. TypeOK /\ e[1] \in Peer /\ e[2] \in Id /\ e = <<e[1], e[2]>>
  BY FarEnd DEF IInv
<1>2. worker' = [worker EXCEPT ![e] = "gone"] /\ worker[e] = "ending"
  BY DEF Cleanup
<1>3. \A f \in End : worker'[f] = IF f = e THEN "gone" ELSE worker[f]
  BY <1>1, <1>2 DEF TypeOK
<1>4. mTunnels' = mTunnels \ {e}
  BY DEF Cleanup, Unregister
<1>5. CASE e \notin mTunnels
  <2>1. mTunnels' = mTunnels /\ SameSignals
    BY <1>4, <1>5 DEF Cleanup, StillOpen, SameSignals
  <2> QED
    BY <1>1, <1>2, <1>3, <2>1, OrphanKept
<1>6. CASE e \in mTunnels
  <2>1. Send(e[1], TunnelClose(e[2])) /\ TunnelClose(e[2]) \in Message
    BY <1>1, <1>6, MessageTypes DEF Cleanup, StillOpen
  <2>2. \A q \in Peer : \A m : InFlight(q, m)' <=> \/ InFlight(q, m)
                                                   \/ q = e[1] /\ m = TunnelClose(e[2])
    <3> SUFFICES ASSUME NEW q \in Peer, NEW m
                 PROVE  InFlight(q, m)' <=> \/ InFlight(q, m)
                                            \/ q = e[1] /\ m = TunnelClose(e[2])
      OBVIOUS
    <3>1. CASE q = e[1]
      <4>1. chan'[q] = Append(chan[q], TunnelClose(e[2]))
        BY <1>1, <2>1, <3>1, SendShape, OtherPeer
      <4> QED
        BY <1>1, <2>1, <3>1, <4>1, InFlightSent
    <3>2. CASE q # e[1]
      <4>1. chan'[q] = chan[q]
        BY <1>1, <2>1, <3>2, SendShape
      <4> QED
        BY <3>2, <4>1 DEF InFlight
    <3> QED
      BY <3>1, <3>2
  <2>3. NoOrphan'
    <3> SUFFICES ASSUME NEW f \in mTunnels, f # e
                 PROVE  \/ Far(f) \in mTunnels /\ Far(f) # e
                        \/ InFlight(f[1], OpenTunnel(f[2]))'
                        \/ InFlight(Other(f[1]), TunnelClose(f[2]))'
                        \/ /\ worker'[f] = "spawned" /\ f[1] = "server"
                           /\ OpenedBy(f[2]) = "server"
      BY <1>4 DEF NoOrphan
    <3>1. f \in End /\ f[1] \in Peer /\ f[2] \in Id /\ Other(f[1]) \in Peer
          /\ Far(f)[1] = Other(f[1]) /\ Far(f)[2] = f[2]
      BY <1>1, FarEnd, OtherPeer DEF TypeOK
    <3>2. CASE Far(f) = e
      BY <2>2, <3>1, <3>2
    <3>3. CASE Far(f) # e
      BY <1>3, <2>2, <3>1, <3>3 DEF OrphanInv, NoOrphan
    <3> QED
      BY <3>2, <3>3
  <2>4. CloseFinal'
    <3> SUFFICES ASSUME NEW p \in Peer, NEW i \in Id, InFlight(p, TunnelClose(i))'
                 PROVE  /\ <<p, i>> \notin mTunnels \ {e}
                        /\ \/ worker'[<<p, i>>] = "gone"
                           \/ /\ p = "server" /\ OpenedBy(i) = "client"
                              /\ worker'[<<p, i>>] = "none"
                              /\ ~ InFlight("client", OpenTunnel(i))'
      BY <1>4 DEF CloseFinal
    <3>1. <<p, i>> \in End /\ "client" \in Peer
      BY DEF End, Peer
    <3>2. CASE <<p, i>> = e
      BY <1>3, <3>1, <3>2
    <3>3. CASE <<p, i>> # e
      <4>1. InFlight(p, TunnelClose(i))
        BY <1>1, <2>2, <3>3, SignalTypes
      <4>2. InFlight("client", OpenTunnel(i))' <=> InFlight("client", OpenTunnel(i))
        BY <1>1, <2>2, <3>1, SignalTypes
      <4> QED
        BY <1>3, <3>1, <3>3, <4>1, <4>2 DEF OrphanInv, CloseFinal
    <3> QED
      BY <3>2, <3>3
  <2>5. Announced'
    <3> SUFFICES ASSUME NEW p \in Peer, NEW i \in Id, InFlight(p, OpenTunnel(i))'
                 PROVE  <<p, i>> \in mTunnels \ {e} \/ InFlight(p, TunnelClose(i))'
      BY <1>4 DEF Announced
    <3>1. InFlight(p, OpenTunnel(i))
      BY <1>1, <2>2, SignalTypes
    <3>2. CASE <<p, i>> = e
      <4>1. p = e[1] /\ i = e[2]
        BY <3>2
      <4> QED
        BY <2>2, <4>1
    <3>3. CASE <<p, i>> # e
      BY <2>2, <3>1, <3>3 DEF OrphanInv, Announced
    <3> QED
      BY <3>2, <3>3
  <2>6. Held'
    <3>1. \A i \in Id : <<"server", i>> \in End
      BY DEF Peer, End
    <3> QED
      BY <1>3, <1>4, <3>1 DEF OrphanInv, Held
  <2> QED
    BY <2>3, <2>4, <2>5, <2>6 DEF OrphanInv
<1> QED
  BY <1>5, <1>6

\* The server announces its own tunnel.
LEMMA StartOrphan ==
    ASSUME IInv, OrphanInv, NEW e \in End, StartCopy(e)
    PROVE  OrphanInv'
<1>1. TypeOK /\ e[1] \in Peer /\ e[2] \in Id /\ e = <<e[1], e[2]>>
  BY FarEnd DEF IInv
<1>2. mTunnels' = mTunnels /\ worker' = [worker EXCEPT ![e] = "copying"]
      /\ worker[e] = "spawned"
  BY DEF StartCopy
<1>3. \A f \in End : worker'[f] = IF f = e THEN "copying" ELSE worker[f]
  BY <1>1, <1>2 DEF TypeOK
<1>4. CASE ~(e[1] = "server" /\ OpenedBy(e[2]) = "server")
  <2>1. SameSignals
    BY <1>4 DEF StartCopy, SameSignals
  <2> QED
    BY <1>1, <1>2, <1>3, <1>4, <2>1, OrphanKept
<1>5. CASE e[1] = "server" /\ OpenedBy(e[2]) = "server"
  <2>1. Send("server", OpenTunnel(e[2])) /\ OpenTunnel(e[2]) \in Message
        /\ "server" \in Peer /\ "client" \in Peer
    BY <1>1, <1>5, MessageTypes DEF StartCopy, Peer
  <2>2. \A q \in Peer : \A m : InFlight(q, m)' <=> \/ InFlight(q, m)
                                                   \/ q = "server" /\ m = OpenTunnel(e[2])
    <3> SUFFICES ASSUME NEW q \in Peer, NEW m
                 PROVE  InFlight(q, m)' <=> \/ InFlight(q, m)
                                            \/ q = "server" /\ m = OpenTunnel(e[2])
      OBVIOUS
    <3>1. CASE q = "server"
      <4>1. chan'[q] = Append(chan[q], OpenTunnel(e[2]))
        BY <1>1, <2>1, <3>1, SendShape, OtherPeer
      <4> QED
        BY <1>1, <2>1, <3>1, <4>1, InFlightSent
    <3>2. CASE q # "server"
      <4>1. chan'[q] = chan[q]
        BY <1>1, <2>1, <3>2, SendShape
      <4> QED
        BY <3>2, <4>1 DEF InFlight
    <3> QED
      BY <3>1, <3>2
  <2>3. e \in mTunnels
    BY <1>1, <1>2, <1>5 DEF OrphanInv, Held
  <2>4. NoOrphan'
    <3> SUFFICES ASSUME NEW f \in mTunnels
                 PROVE  \/ Far(f) \in mTunnels
                        \/ InFlight(f[1], OpenTunnel(f[2]))'
                        \/ InFlight(Other(f[1]), TunnelClose(f[2]))'
                        \/ /\ worker'[f] = "spawned" /\ f[1] = "server"
                           /\ OpenedBy(f[2]) = "server"
      BY <1>2 DEF NoOrphan
    <3>1. f \in End /\ f[1] \in Peer /\ f[2] \in Id /\ Other(f[1]) \in Peer
      BY <1>1, FarEnd, OtherPeer DEF TypeOK
    <3>2. CASE f = e
      BY <1>5, <2>1, <2>2, <3>1, <3>2
    <3>3. CASE f # e
      BY <1>3, <2>2, <3>1, <3>3 DEF OrphanInv, NoOrphan
    <3> QED
      BY <3>2, <3>3
  <2>5. CloseFinal'
    <3> SUFFICES ASSUME NEW p \in Peer, NEW i \in Id, InFlight(p, TunnelClose(i))'
                 PROVE  /\ <<p, i>> \notin mTunnels
                        /\ \/ worker'[<<p, i>>] = "gone"
                           \/ /\ p = "server" /\ OpenedBy(i) = "client"
                              /\ worker'[<<p, i>>] = "none"
                              /\ ~ InFlight("client", OpenTunnel(i))'
      BY <1>2 DEF CloseFinal
    <3>1. <<p, i>> \in End
      BY DEF End
    <3>2. InFlight(p, TunnelClose(i))
      BY <1>1, <2>2, SignalTypes
    <3>3. <<p, i>> # e
      BY <2>3, <3>2 DEF OrphanInv, CloseFinal
    <3>4. InFlight("client", OpenTunnel(i))' <=> InFlight("client", OpenTunnel(i))
      BY <2>1, <2>2
    <3> QED
      BY <1>3, <3>1, <3>2, <3>3, <3>4 DEF OrphanInv, CloseFinal
  <2>6. Announced'
    <3> SUFFICES ASSUME NEW p \in Peer, NEW i \in Id, InFlight(p, OpenTunnel(i))'
                 PROVE  <<p, i>> \in mTunnels \/ InFlight(p, TunnelClose(i))'
      BY <1>2 DEF Announced
    <3>1. InFlight(p, OpenTunnel(i)) \/ (p = "server" /\ i = e[2])
      BY <1>1, <2>2, SignalTypes
    <3>2. CASE p = "server" /\ i = e[2]
      BY <1>1, <1>5, <2>3, <3>2
    <3>3. CASE InFlight(p, OpenTunnel(i))
      BY <2>2, <3>3 DEF OrphanInv, Announced
    <3> QED
      BY <3>1, <3>2, <3>3
  <2>7. Held'
    <3>1. \A i \in Id : <<"server", i>> \in End
      BY DEF Peer, End
    <3> QED
      BY <1>2, <1>3, <3>1 DEF OrphanInv, Held
  <2> QED
    BY <2>4, <2>5, <2>6, <2>7 DEF OrphanInv
<1> QED
  BY <1>4, <1>5

\* A new tunnel of the server waits to be announced.
LEMMA ServerOpenOrphan ==
    ASSUME IInv, OrphanInv, ServerOpenTunnel
    PROVE  OrphanInv'
<1>1. PICK i \in Id : i = mStreamId["server"]
  BY DEF ServerOpenTunnel
<1>2. PICK e \in End : e = <<"server", i>>
  BY <1>1 DEF End, Peer
<1>3. TypeOK /\ OpenedBy(i) = "server" /\ "server" \in Peer
  BY <1>1 DEF IInv, TypeOK, Peer
<1>4. worker[e] = "none" /\ e \notin mTunnels
  <2>1. mStreamId["server"] \in Nat /\ i >= mStreamId[OpenedBy(i)]
    BY <1>1, <1>3 DEF TypeOK
  <2>2. worker[e] = "none"
    BY <1>2, <1>3, <2>1 DEF IInv, Lifecycle
  <2> QED
    BY <1>2, <2>2 DEF IInv, Lifecycle, QueueHasReader
<1>5. /\ mTunnels' = mTunnels \cup {e}
      /\ worker' = [worker EXCEPT ![e] = "spawned"]
      /\ chan' = chan
  BY <1>1, <1>2, <1>4 DEF ServerOpenTunnel, AddTunnel
<1>6. \A f \in End : worker'[f] = IF f = e THEN "spawned" ELSE worker[f]
  BY <1>3, <1>5 DEF TypeOK
<1>7. \A q, m : InFlight(q, m)' <=> InFlight(q, m)
  BY <1>5 DEF InFlight
<1>8. NoOrphan'
  <2> SUFFICES ASSUME NEW f \in mTunnels \cup {e}
               PROVE  \/ Far(f) \in mTunnels \cup {e}
                      \/ InFlight(f[1], OpenTunnel(f[2]))
                      \/ InFlight(Other(f[1]), TunnelClose(f[2]))
                      \/ /\ worker'[f] = "spawned" /\ f[1] = "server"
                         /\ OpenedBy(f[2]) = "server"
    BY <1>5, <1>7 DEF NoOrphan
  <2>1. CASE f = e
    BY <1>2, <1>3, <1>6, <2>1
  <2>2. CASE f # e
    BY <1>3, <1>6, <2>2 DEF OrphanInv, NoOrphan, TypeOK
  <2> QED
    BY <2>1, <2>2
<1>9. CloseFinal'
  <2> SUFFICES ASSUME NEW p \in Peer, NEW j \in Id, InFlight(p, TunnelClose(j))
               PROVE  /\ <<p, j>> \notin mTunnels \cup {e}
                      /\ \/ worker'[<<p, j>>] = "gone"
                         \/ /\ p = "server" /\ OpenedBy(j) = "client"
                            /\ worker'[<<p, j>>] = "none"
                            /\ ~ InFlight("client", OpenTunnel(j))
    BY <1>5, <1>7 DEF CloseFinal
  <2>1. <<p, j>> \in End
    BY DEF End
  <2>2. <<p, j>> # e
    <3>1. worker[e] # "gone" /\ OpenedBy(i) # "client"
      BY <1>3, <1>4
    <3> QED
      BY <1>2, <3>1 DEF OrphanInv, CloseFinal
  <2> QED
    BY <1>6, <2>1, <2>2 DEF OrphanInv, CloseFinal
<1>10. Announced'
  BY <1>5, <1>7 DEF OrphanInv, Announced
<1>11. Held'
  <2>1. \A j \in Id : <<"server", j>> \in End
    BY DEF Peer, End
  <2> QED
    BY <1>5, <1>6, <2>1 DEF OrphanInv, Held
<1> QED
  BY <1>8, <1>9, <1>10, <1>11 DEF OrphanInv

\* A new tunnel of the client is announced at once.
LEMMA ClientForwardOrphan ==
    ASSUME IInv, OrphanInv, ClientForward
    PROVE  OrphanInv'
<1>1. PICK i \in Id : i = mStreamId["client"]
  BY DEF ClientForward
<1>2. PICK e \in End : e = <<"client", i>>
  BY <1>1 DEF End, Peer
<1>3. TypeOK /\ OpenedBy(i) = "client" /\ "client" \in Peer /\ OpenTunnel(i) \in Message
  BY <1>1, MessageTypes DEF IInv, TypeOK, Peer
<1>4. worker[e] = "none" /\ e \notin mTunnels /\ \A q \in Peer : ~ InFlight(q, TunnelClose(i))
  <2>1. mStreamId["client"] \in Nat /\ i >= mStreamId[OpenedBy(i)]
    BY <1>1, <1>3 DEF TypeOK
  <2>2. worker[e] = "none"
    BY <1>2, <1>3, <2>1 DEF IInv, Lifecycle
  <2>3. Silent("server", i) /\ Silent("client", i)
    BY <2>1 DEF IInv, Lifecycle, Reserved, Quiet
  <2>4. TunnelClose(i).id = i
    BY DEF TunnelClose
  <2> QED
    BY <1>2, <2>2, <2>3, <2>4 DEF IInv, Lifecycle, QueueHasReader, Silent, InFlight, Peer
<1>5. /\ mTunnels' = mTunnels \cup {e}
      /\ worker' = [worker EXCEPT ![e] = "spawned"]
      /\ Send("client", OpenTunnel(i))
  BY <1>1, <1>2, <1>4 DEF ClientForward, AddTunnel
<1>6. \A f \in End : worker'[f] = IF f = e THEN "spawned" ELSE worker[f]
  BY <1>3, <1>5 DEF TypeOK
<1>7. \A q \in Peer : \A m : InFlight(q, m)' <=> \/ InFlight(q, m)
                                                 \/ q = "client" /\ m = OpenTunnel(i)
  <2> SUFFICES ASSUME NEW q \in Peer, NEW m
               PROVE  InFlight(q, m)' <=> \/ InFlight(q, m)
                                          \/ q = "client" /\ m = OpenTunnel(i)
    OBVIOUS
  <2>1. CASE q = "client"
    <3>1. chan'[q] = Append(chan[q], OpenTunnel(i))
      BY <1>3, <1>5, <2>1, SendShape, OtherPeer
    <3> QED
      BY <1>3, <2>1, <3>1, InFlightSent
  <2>2. CASE q # "client"
    <3>1. chan'[q] = chan[q]
      BY <1>3, <1>5, <2>2, SendShape
    <3> QED
      BY <2>2, <3>1 DEF InFlight
  <2> QED
    BY <2>1, <2>2
<1>8. NoOrphan'
  <2> SUFFICES ASSUME NEW f \in mTunnels \cup {e}
               PROVE  \/ Far(f) \in mTunnels \cup {e}
                      \/ InFlight(f[1], OpenTunnel(f[2]))'
                      \/ InFlight(Other(f[1]), TunnelClose(f[2]))'
                      \/ /\ worker'[f] = "spawned" /\ f[1] = "server"
                         /\ OpenedBy(f[2]) = "server"
    BY <1>5 DEF NoOrphan
  <2>1. f \in End /\ f[1] \in Peer /\ f[2] \in Id /\ Other(f[1]) \in Peer
    BY <1>3, FarEnd, OtherPeer DEF TypeOK
  <2>2. CASE f = e
    BY <1>2, <1>3, <1>7, <2>2
  <2>3. CASE f # e
    BY <1>6, <1>7, <2>1, <2>3 DEF OrphanInv, NoOrphan
  <2> QED
    BY <2>2, <2>3
<1>9. CloseFinal'
  <2> SUFFICES ASSUME NEW p \in Peer, NEW j \in Id, InFlight(p, TunnelClose(j))'
               PROVE  /\ <<p, j>> \notin mTunnels \cup {e}
                      /\ \/ worker'[<<p, j>>] = "gone"
                         \/ /\ p = "server" /\ OpenedBy(j) = "client"
                            /\ worker'[<<p, j>>] = "none"
                            /\ ~ InFlight("client", OpenTunnel(j))'
    BY <1>5 DEF CloseFinal
  <2>1. <<p, j>> \in End
    BY DEF End
  <2>2. InFlight(p, TunnelClose(j)) /\ j # i
    BY <1>4, <1>7, SignalTypes
  <2>3. <<p, j>> # e
    BY <1>2, <2>2
  <2>4. InFlight("client", OpenTunnel(j))' <=> InFlight("client", OpenTunnel(j))
    BY <1>3, <1>7, <2>2, SignalTypes
  <2> QED
    BY <1>6, <2>1, <2>2, <2>3, <2>4 DEF OrphanInv, CloseFinal
<1>10. Announced'
  <2> SUFFICES ASSUME NEW p \in Peer, NEW j \in Id, InFlight(p, OpenTunnel(j))'
               PROVE  <<p, j>> \in mTunnels \cup {e} \/ InFlight(p, TunnelClose(j))'
    BY <1>5 DEF Announced
  <2>1. InFlight(p, OpenTunnel(j)) \/ (p = "client" /\ j = i)
    BY <1>7, SignalTypes
  <2> QED
    BY <1>2, <1>7, <2>1 DEF OrphanInv, Announced
<1>11. Held'
  <2>1. \A j \in Id : <<"server", j>> \in End /\ <<"server", j>> # e
    BY <1>2 DEF Peer, End
  <2> QED
    BY <1>5, <1>6, <2>1 DEF OrphanInv, Held
<1> QED
  BY <1>8, <1>9, <1>10, <1>11 DEF OrphanInv

\* What is known when an OpenTunnel is read: its sender has announced it once, this peer
\* never saw it, and nothing about it comes from here.
LEMMA OpenArrives ==
    ASSUME IInv, OrphanInv, NEW p \in Peer, Incoming(p, "OpenTunnel"),
           chan'[Other(p)] = Tail(chan[Other(p)]), NEW i \in Id, Target(p) = <<p, i>>
    PROVE  /\ Head(chan[Other(p)]) = OpenTunnel(i)
           /\ InFlight(Other(p), OpenTunnel(i)) /\ ~ InFlight(Other(p), OpenTunnel(i))'
           /\ worker[<<p, i>>] = "none" /\ <<p, i>> \notin mTunnels
           /\ ~ InFlight(p, TunnelClose(i)) /\ ~ InFlight(p, OpenTunnel(i))
           /\ OpenedBy(i) = Other(p)
<1> DEFINE q == Other(p)
           s == chan[q]
<1>1. TypeOK /\ q \in Peer /\ Other(q) = p /\ q # p
  BY OtherPeer DEF IInv
<1>2. s \in Seq(Message) /\ s # <<>> /\ Head(s) \in Message /\ Head(s).type = "OpenTunnel"
      /\ Head(s).id = i
  BY <1>1, IncomingType DEF TypeOK, Incoming, Target
<1>3. Head(s) = OpenTunnel(i)
  BY <1>2, SignalTypes
<1>4. Len(s) \in Nat /\ 1 \in 1 .. Len(s) /\ s[1] = Head(s)
  BY <1>2
<1>5. InFlight(q, OpenTunnel(i))
  BY <1>3, <1>4 DEF InFlight
<1>6. worker[<<p, i>>] = "none" /\ OpenedBy(i) = q
  BY <1>1, <1>2, <1>4 DEF IInv, Lifecycle, FreshOpen
<1>7. <<p, i>> \notin mTunnels
  BY <1>6 DEF IInv, Lifecycle, QueueHasReader
<1>8. ~ InFlight(q, OpenTunnel(i))'
  <2> SUFFICES ASSUME NEW k \in 1 .. Len(chan'[q]), chan'[q][k] = OpenTunnel(i)
               PROVE  FALSE
    BY DEF InFlight
  <2>1. k + 1 \in 1 .. Len(s) /\ s[k + 1] = OpenTunnel(i) /\ 1 \in 1 .. (k + 1) - 1
    BY <1>2
  <2>2. OpenTunnel(i).type = "OpenTunnel" /\ OpenTunnel(i).id = i
    BY DEF OpenTunnel
  <2>3. s[1].id # s[k + 1].id
    BY <1>1, <2>1, <2>2 DEF IInv, Lifecycle, FreshOpen
  <2> QED
    BY <1>2, <1>4, <2>1, <2>2, <2>3
<1>9. ~ InFlight(p, TunnelClose(i))
  <2>1. CASE p = "server"
    BY <1>5, <1>6, <2>1 DEF OrphanInv, CloseFinal, Other
  <2>2. CASE p # "server"
    BY <1>6, <2>2 DEF OrphanInv, CloseFinal
  <2> QED
    BY <2>1, <2>2
<1>10. ~ InFlight(p, OpenTunnel(i))
  BY <1>7, <1>9 DEF OrphanInv, Announced
<1> QED
  BY <1>3, <1>5, <1>6, <1>7, <1>8, <1>9, <1>10

\* The tunnel that is opened is the one its opener still holds, or has closed since.
LEMMA OnOpenOrphan ==
    ASSUME IInv, OrphanInv, NEW p \in Peer, OnOpenTunnel(p)
    PROVE  OrphanInv'
<1> DEFINE q == Other(p)
<1>1. TypeOK /\ q \in Peer /\ Other(q) = p /\ q # p
      /\ Incoming(p, "OpenTunnel") /\ Consume(p)
  BY OtherPeer DEF IInv, OnOpenTunnel
<1>2. PICK i \in Id : Target(p) = <<p, i>>
  BY <1>1, IncomingType DEF TypeOK, Target, End
<1>3. PICK e \in End : e = <<p, i>>
  BY DEF End
<1>4. chan[q] # <<>> /\ chan'[q] = Tail(chan[q]) /\ chan'[p] = chan[p]
  BY <1>1, ConsumeShape
<1>5. /\ Head(chan[q]) = OpenTunnel(i)
      /\ InFlight(q, OpenTunnel(i)) /\ ~ InFlight(q, OpenTunnel(i))'
      /\ worker[e] = "none" /\ e \notin mTunnels
      /\ ~ InFlight(p, TunnelClose(i)) /\ ~ InFlight(p, OpenTunnel(i))
      /\ OpenedBy(i) = q
  BY <1>1, <1>2, <1>3, <1>4, OpenArrives
<1>6. mTunnels' = mTunnels \cup {e} /\ worker' = [worker EXCEPT ![e] = "spawned"]
  BY <1>2, <1>3, <1>5 DEF OnOpenTunnel, AddTunnel
<1>7. \A f \in End : worker'[f] = IF f = e THEN "spawned" ELSE worker[f]
  BY <1>1, <1>6 DEF TypeOK
<1>8. \A m : /\ InFlight(p, m)' <=> InFlight(p, m)
             /\ InFlight(q, m)' => InFlight(q, m)
             /\ m # OpenTunnel(i) /\ InFlight(q, m) => InFlight(q, m)'
  <2>1. \A m : InFlight(p, m)' <=> InFlight(p, m)
    BY <1>4 DEF InFlight
  <2> QED
    BY <1>1, <1>4, <1>5, <2>1, InFlightRead
<1>9. \A j \in Id, r \in Peer : InFlight(r, TunnelClose(j))' <=> InFlight(r, TunnelClose(j))
  BY <1>1, <1>2, <1>8, OtherPeer, SignalTypes
<1>10. <<q, i>> \in mTunnels \/ InFlight(q, TunnelClose(i))
  BY <1>1, <1>5 DEF OrphanInv, Announced
<1>11. NoOrphan'
  <2> SUFFICES ASSUME NEW f \in mTunnels \cup {e}
               PROVE  \/ Far(f) \in mTunnels \cup {e}
                      \/ InFlight(f[1], OpenTunnel(f[2]))'
                      \/ InFlight(Other(f[1]), TunnelClose(f[2]))'
                      \/ /\ worker'[f] = "spawned" /\ f[1] = "server"
                         /\ OpenedBy(f[2]) = "server"
    BY <1>6 DEF NoOrphan
  <2>1. f \in End /\ f[1] \in Peer /\ f[2] \in Id /\ Other(f[1]) \in Peer
        /\ f = <<f[1], f[2]>> /\ Far(f) = <<Other(f[1]), f[2]>>
    BY <1>1, FarEnd, OtherPeer DEF TypeOK, Far
  <2>2. CASE f = e
    BY <1>1, <1>3, <1>9, <1>10, <2>1, <2>2
  <2>3. CASE f # e /\ f = <<q, i>>
    BY <1>1, <1>3, <2>1, <2>3
  <2>4. CASE f # e /\ f # <<q, i>>
    <3>1. f[2] # i
      BY <1>3, <2>1, <2>4, OtherPeer
    <3>2. InFlight(f[1], OpenTunnel(f[2]))' <=> InFlight(f[1], OpenTunnel(f[2]))
      BY <1>1, <1>2, <1>8, <2>1, <3>1, OtherPeer, SignalTypes
    <3> QED
      BY <1>7, <1>9, <2>1, <2>4, <3>2 DEF OrphanInv, NoOrphan
  <2> QED
    BY <2>2, <2>3, <2>4
<1>12. CloseFinal'
  <2> SUFFICES ASSUME NEW r \in Peer, NEW j \in Id, InFlight(r, TunnelClose(j))
               PROVE  /\ <<r, j>> \notin mTunnels \cup {e}
                      /\ \/ worker'[<<r, j>>] = "gone"
                         \/ /\ r = "server" /\ OpenedBy(j) = "client"
                            /\ worker'[<<r, j>>] = "none"
                            /\ ~ InFlight("client", OpenTunnel(j))'
    BY <1>6, <1>9 DEF CloseFinal
  <2>1. <<r, j>> \in End /\ "client" \in Peer
    BY DEF End, Peer
  <2>2. <<r, j>> # e
    BY <1>3, <1>5
  <2>3. InFlight("client", OpenTunnel(j))' => InFlight("client", OpenTunnel(j))
    BY <1>8, <2>1, OtherPeer
  <2> QED
    BY <1>7, <2>1, <2>2, <2>3 DEF OrphanInv, CloseFinal
<1>13. Announced'
  <2> SUFFICES ASSUME NEW r \in Peer, NEW j \in Id, InFlight(r, OpenTunnel(j))'
               PROVE  <<r, j>> \in mTunnels \cup {e} \/ InFlight(r, TunnelClose(j))'
    BY <1>6 DEF Announced
  <2>1. InFlight(r, OpenTunnel(j))
    BY <1>8, OtherPeer
  <2> QED
    BY <1>9, <2>1 DEF OrphanInv, Announced
<1>14. Held'
  <2> SUFFICES ASSUME NEW j \in Id, OpenedBy(j) = "server", worker'[<<"server", j>>] = "spawned"
               PROVE  <<"server", j>> \in mTunnels \cup {e}
    BY <1>6 DEF Held
  <2>1. <<"server", j>> \in End
    BY DEF Peer, End
  <2> QED
    BY <1>7, <2>1 DEF OrphanInv, Held
<1> QED
  BY <1>11, <1>12, <1>13, <1>14 DEF OrphanInv

\* The server refuses a tunnel, and its client hears of it.
LEMMA RefuseOrphan ==
    ASSUME IInv, OrphanInv, RefuseOpenTunnel
    PROVE  OrphanInv'
<1>1. TypeOK /\ "server" \in Peer /\ "client" \in Peer /\ Other("server") = "client"
      /\ Other("client") = "server" /\ Incoming("server", "OpenTunnel")
  BY DEF IInv, RefuseOpenTunnel, Peer, Other
<1>2. PICK i \in Id : Target("server") = <<"server", i>>
  BY <1>1, IncomingType DEF TypeOK, Target, End
<1>3. /\ chan["client"] # <<>> /\ chan'["client"] = Tail(chan["client"])
      /\ chan'["server"] = Append(chan["server"], TunnelClose(i))
      /\ TunnelClose(i) \in Message
  <2>1. Target("server")[2] = i
    BY <1>2
  <2>2. chan' = [chan EXCEPT !["client"] = Tail(@),
                             !["server"] = Append(@, TunnelClose(i))]
    BY <2>1 DEF RefuseOpenTunnel
  <2>3. chan["client"] # <<>>
    BY <1>1 DEF Incoming
  <2> QED
    BY <1>1, <2>2, <2>3, MessageTypes DEF TypeOK
<1>4. /\ Head(chan["client"]) = OpenTunnel(i)
      /\ ~ InFlight("client", OpenTunnel(i))'
      /\ worker[<<"server", i>>] = "none" /\ <<"server", i>> \notin mTunnels
      /\ OpenedBy(i) = "client"
  BY <1>1, <1>2, <1>3, OpenArrives
<1>5. UNCHANGED <<mTunnels, worker>>
  BY DEF RefuseOpenTunnel
<1>6. \A m : /\ InFlight("server", m)' <=> InFlight("server", m) \/ m = TunnelClose(i)
             /\ InFlight("client", m)' => InFlight("client", m)
             /\ m # OpenTunnel(i) /\ InFlight("client", m) => InFlight("client", m)'
  BY <1>1, <1>3, <1>4, InFlightRead, InFlightSent
<1>7. \A r \in Peer : r = "server" \/ r = "client"
  BY DEF Peer
<1>8. NoOrphan'
  <2> SUFFICES ASSUME NEW f \in mTunnels
               PROVE  \/ Far(f) \in mTunnels
                      \/ InFlight(f[1], OpenTunnel(f[2]))'
                      \/ InFlight(Other(f[1]), TunnelClose(f[2]))'
                      \/ /\ worker[f] = "spawned" /\ f[1] = "server"
                         /\ OpenedBy(f[2]) = "server"
    BY <1>5 DEF NoOrphan
  <2>1. f \in End /\ f[1] \in Peer /\ f[2] \in Id /\ Other(f[1]) \in Peer
        /\ f = <<f[1], f[2]>>
    BY <1>1, FarEnd, OtherPeer DEF TypeOK
  <2>2. CASE f[1] = "client" /\ f[2] = i
    BY <1>1, <1>6, <2>2
  <2>3. CASE ~(f[1] = "client" /\ f[2] = i)
    <3>1. InFlight(f[1], OpenTunnel(f[2])) => InFlight(f[1], OpenTunnel(f[2]))'
      BY <1>2, <1>6, <1>7, <2>1, <2>3, SignalTypes
    <3>2. \A r \in Peer : InFlight(r, TunnelClose(f[2])) => InFlight(r, TunnelClose(f[2]))'
      BY <1>2, <1>6, <1>7, <2>1, SignalTypes
    <3> QED
      BY <2>1, <3>1, <3>2 DEF OrphanInv, NoOrphan
  <2> QED
    BY <2>2, <2>3
<1>9. CloseFinal'
  <2> SUFFICES ASSUME NEW r \in Peer, NEW j \in Id, InFlight(r, TunnelClose(j))'
               PROVE  /\ <<r, j>> \notin mTunnels
                      /\ \/ worker[<<r, j>>] = "gone"
                         \/ /\ r = "server" /\ OpenedBy(j) = "client"
                            /\ worker[<<r, j>>] = "none"
                            /\ ~ InFlight("client", OpenTunnel(j))'
    BY <1>5 DEF CloseFinal
  <2>1. CASE r = "server" /\ j = i
    BY <1>4, <2>1
  <2>2. CASE ~(r = "server" /\ j = i)
    <3>1. InFlight(r, TunnelClose(j))
      BY <1>2, <1>6, <1>7, <2>2, SignalTypes
    <3> QED
      BY <1>6, <3>1 DEF OrphanInv, CloseFinal
  <2> QED
    BY <2>1, <2>2
<1>10. Announced'
  <2> SUFFICES ASSUME NEW r \in Peer, NEW j \in Id, InFlight(r, OpenTunnel(j))'
               PROVE  <<r, j>> \in mTunnels \/ InFlight(r, TunnelClose(j))'
    BY <1>5 DEF Announced
  <2>1. InFlight(r, OpenTunnel(j))
    BY <1>2, <1>6, <1>7, SignalTypes
  <2>2. InFlight(r, TunnelClose(j)) => InFlight(r, TunnelClose(j))'
    BY <1>2, <1>6, <1>7, SignalTypes
  <2> QED
    BY <2>1, <2>2 DEF OrphanInv, Announced
<1>11. Held'
  BY <1>5 DEF OrphanInv, Held
<1> QED
  BY <1>8, <1>9, <1>10, <1>11 DEF OrphanInv

\* The end that is closed was the only one left, for its peer has closed before.
LEMMA OnCloseOrphan ==
    ASSUME IInv, OrphanInv, NEW p \in Peer, OnTunnelClose(p)
    PROVE  OrphanInv'
<1> DEFINE q == Other(p)
<1>1. TypeOK /\ q \in Peer /\ Other(q) = p /\ q # p
      /\ Incoming(p, "TunnelClose") /\ Consume(p)
  BY OtherPeer DEF IInv, OnTunnelClose
<1>2. PICK i \in Id : Target(p) = <<p, i>>
  BY <1>1, IncomingType DEF TypeOK, Target, End
<1>3. PICK e \in End : e = <<p, i>>
  BY DEF End
<1>4. chan[q] # <<>> /\ chan'[q] = Tail(chan[q]) /\ chan'[p] = chan[p]
  BY <1>1, ConsumeShape
<1>5. Head(chan[q]) = TunnelClose(i)
  <2>1. Head(chan[q]) \in Message /\ Head(chan[q]).type = "TunnelClose" /\ Head(chan[q]).id = i
    BY <1>1, <1>2, IncomingType DEF TypeOK, Incoming, Target
  <2> QED
    BY <2>1, SignalTypes
<1>6. mTunnels' = mTunnels \ {e} /\ worker' = worker
  BY <1>2, <1>3 DEF OnTunnelClose, Unregister
<1>7. \A m : /\ InFlight(p, m)' <=> InFlight(p, m)
             /\ InFlight(q, m)' => InFlight(q, m)
             /\ m # TunnelClose(i) /\ InFlight(q, m) => InFlight(q, m)'
             /\ InFlight(q, TunnelClose(i))
  <2>1. \A m : InFlight(p, m)' <=> InFlight(p, m)
    BY <1>4 DEF InFlight
  <2> QED
    BY <1>1, <1>4, <1>5, <2>1, InFlightRead
<1>8. /\ <<q, i>> \notin mTunnels
      /\ \/ worker[<<q, i>>] = "gone"
         \/ /\ q = "server" /\ OpenedBy(i) = "client" /\ ~ InFlight("client", OpenTunnel(i))
  BY <1>1, <1>7 DEF OrphanInv, CloseFinal
<1>9. \A r \in Peer, j \in Id :
        /\ InFlight(r, OpenTunnel(j))' <=> InFlight(r, OpenTunnel(j))
        /\ InFlight(r, TunnelClose(j))' => InFlight(r, TunnelClose(j))
        /\ InFlight(r, TunnelClose(j)) /\ ~(r = q /\ j = i) => InFlight(r, TunnelClose(j))'
  BY <1>1, <1>2, <1>7, OtherPeer, SignalTypes
\* What p announced, and q has not read, cannot be closed by q.
<1>10. ~ InFlight(p, OpenTunnel(i))
  <2> SUFFICES ASSUME NEW k \in 1 .. Len(chan[p]), chan[p][k] = OpenTunnel(i)
               PROVE  FALSE
    BY DEF InFlight
  <2>1. OpenTunnel(i).type = "OpenTunnel" /\ OpenTunnel(i).id = i
    BY DEF OpenTunnel
  <2>2. worker[<<q, i>>] = "none" /\ OpenedBy(i) = p
    BY <1>1, <2>1 DEF IInv, Lifecycle, FreshOpen
  <2>3. p = "client"
    BY <1>8, <2>2
  <2> QED
    BY <1>8, <2>2, <2>3 DEF InFlight
\* What q announced has been read before its close.
<1>11. ~ InFlight(q, OpenTunnel(i))
  <2> SUFFICES ASSUME NEW k \in 1 .. Len(chan[q]), chan[q][k] = OpenTunnel(i)
               PROVE  FALSE
    BY DEF InFlight
  <2>1. OpenTunnel(i).type = "OpenTunnel" /\ OpenTunnel(i).id = i
    BY DEF OpenTunnel
  <2>2. TunnelClose(i).type = "TunnelClose" /\ TunnelClose(i).id = i
    BY DEF TunnelClose
  <2>3. chan[q] \in Seq(Message) /\ Len(chan[q]) \in Nat /\ chan[q][1] = TunnelClose(i)
    BY <1>1, <1>4, <1>5 DEF TypeOK
  <2>4. k # 1
    BY <2>1, <2>2, <2>3
  <2>5. 1 \in 1 .. k - 1
    BY <2>3, <2>4
  <2>6. chan[q][1].id # chan[q][k].id
    BY <1>1, <2>1, <2>5 DEF IInv, Lifecycle, FreshOpen
  <2> QED
    BY <2>1, <2>2, <2>3, <2>6
<1>12. NoOrphan'
  <2> SUFFICES ASSUME NEW f \in mTunnels, f # e
               PROVE  \/ Far(f) \in mTunnels /\ Far(f) # e
                      \/ InFlight(f[1], OpenTunnel(f[2]))'
                      \/ InFlight(Other(f[1]), TunnelClose(f[2]))'
                      \/ /\ worker[f] = "spawned" /\ f[1] = "server"
                         /\ OpenedBy(f[2]) = "server"
    BY <1>6 DEF NoOrphan
  <2>1. f \in End /\ f[1] \in Peer /\ f[2] \in Id /\ Other(f[1]) \in Peer
        /\ f = <<f[1], f[2]>> /\ Far(f) = <<Other(f[1]), f[2]>>
    BY <1>1, FarEnd, OtherPeer DEF TypeOK, Far
  <2>2. f # <<q, i>>
    BY <1>8
  <2>3. f[2] # i
    BY <1>3, <2>1, <2>2, OtherPeer
  <2>4. Far(f) # e
    BY <1>3, <2>1, <2>3
  <2> QED
    BY <1>9, <2>1, <2>3, <2>4 DEF OrphanInv, NoOrphan
<1>13. CloseFinal'
  <2>1. "client" \in Peer
    BY DEF Peer
  <2> QED
    BY <1>6, <1>9, <2>1 DEF OrphanInv, CloseFinal
<1>14. Announced'
  <2> SUFFICES ASSUME NEW r \in Peer, NEW j \in Id, InFlight(r, OpenTunnel(j))
               PROVE  <<r, j>> \in mTunnels \ {e} \/ InFlight(r, TunnelClose(j))'
    BY <1>6, <1>9 DEF Announced
  <2>1. j # i
    BY <1>10, <1>11, OtherPeer
  <2>2. <<r, j>> # e
    BY <1>3, <2>1
  <2> QED
    BY <1>9, <2>1, <2>2 DEF OrphanInv, Announced
<1>15. Held'
  <2> SUFFICES ASSUME NEW j \in Id, OpenedBy(j) = "server", worker[<<"server", j>>] = "spawned"
               PROVE  <<"server", j>> \in mTunnels \ {e}
    BY <1>6 DEF Held
  <2>1. Silent("client", j)
    BY DEF IInv, Lifecycle, Reserved, Quiet
  <2>2. CASE <<"server", j>> = e
    <3>1. q = "client" /\ j = i
      BY <1>3, <2>2 DEF Other
    <3>2. TunnelClose(i).id = i
      BY DEF TunnelClose
    <3> QED
      BY <1>7, <2>1, <3>1, <3>2 DEF Silent, InFlight
  <2>3. CASE <<"server", j>> # e
    BY <2>3 DEF OrphanInv, Held
  <2> QED
    BY <2>2, <2>3
<1> QED
  BY <1>12, <1>13, <1>14, <1>15 DEF OrphanInv

\* A tunnel held by one peer only has a message under way that mends it, whichever end
\* closes, refuses or fails to connect (addTunnel, closeTunnel, the ScopeExit of a tunnel).
THEOREM NothingOrphaned == Spec => []NoOrphan
<1>1. Init => OrphanInv
  <2> SUFFICES ASSUME Init PROVE OrphanInv
    OBVIOUS
  <2>1. \A p \in Peer : \A m : ~ InFlight(p, m)
    BY DEF Init, InFlight
  <2>2. \A i \in Id : <<"server", i>> \in End
    BY DEF Peer, End
  <2> QED
    BY <2>1, <2>2 DEF Init, OrphanInv, NoOrphan, CloseFinal, Announced, Held
<1>2. IInv /\ OrphanInv /\ [Next]_vars => OrphanInv'
  <2> SUFFICES ASSUME IInv, OrphanInv, [Next]_vars PROVE OrphanInv'
    OBVIOUS
  <2>1. TypeOK
    BY DEF IInv
  <2>2. CASE UNCHANGED vars
    BY <2>1, <2>2, OrphanKept DEF vars, SameSignals
  <2>3. ASSUME NEW p \in Peer, Receive(p)
        PROVE  OrphanInv'
    BY <2>1, <2>3, OnOpenOrphan, HandleOrphan, OnCloseOrphan DEF Receive
  <2>4. ASSUME NEW e \in End, Work(e)
        PROVE  OrphanInv'
    BY <2>1, <2>4, StartOrphan, QuietOrphan, CleanupOrphan DEF Work
  <2> QED
    BY <2>2, <2>3, <2>4, ServerOpenOrphan, ClientForwardOrphan, RefuseOrphan DEF Next
<1>3. OrphanInv => NoOrphan
  BY DEF OrphanInv
<1> QED
  BY <1>1, <1>2, <1>3, Invariant, PTL DEF Spec
=============================================================================
