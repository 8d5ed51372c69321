-------------------------- MODULE QuicStream_proofs --------------------------
(***************************************************************************)
(* Proofs about QuicStream and the UdpBatch it composes: their invariants,  *)
(* for any number of streams, any limits and windows, any batch size and    *)
(* any order of what the program, the peer and the socket do.               *)
(***************************************************************************)
EXTENDS QuicStream, InductionLemmas

\* What one stream keeps, r, against what the peer has seen of it, p.  Receiving: a window
\* is only granted for what was consumed.  Sending: nothing runs ahead of what it reports.
ReceiveOK(r, p) ==
    /\ r.consumed <= r.received
    /\ p.granted + r.credit <= r.consumed
    /\ r.received <= StreamWindow + p.granted
SendOK(r, p) ==
    /\ r.sent <= p.wire /\ p.wire <= r.submitted /\ r.submitted <= r.accepted
    /\ r.finSubmitted => r.writeFin /\ r.submitted = r.accepted
    /\ p.finWire => r.writeFin /\ p.wire = r.accepted
    /\ r.finSent => p.finWire
\* A dropped stream was reset, or is over for its reader, who left nothing.
DropOK(r, h) ==
    h = "dropped" =>
        /\ r.resetRequested \/ (Unread(r) = 0 /\ (r.readFin \/ IsClosed(r)))
        /\ (IsClosed(r) /\ ~(r.resetRequested /\ r.readFin)) => Unread(r) = 0
StreamOK(r, p, h) ==
    /\ ReceiveOK(r, p) /\ SendOK(r, p) /\ DropOK(r, h)
    /\ r.buffered = SumFunction(r.tx)
StreamsInv == \A s \in Stream : StreamOK(strm[s], peer[s], handle[s])

\* The batch: the datagrams that are on the wire are those up to `completed`; their receipts
\* are in order and ahead of nothing that was accepted.
Out == IF phase = "sending" THEN udp.completed ELSE 0
BatchInv ==
    /\ phase = "idle" => batch = << >>
    /\ phase = "sending" => udp.count = Len(batch)
    /\ \A i \in DOMAIN batch :
           LET r == strm[batch[i].stream]
               p == peer[batch[i].stream]
           IN  /\ batch[i].offset <= r.submitted
               /\ batch[i].fin => r.writeFin /\ batch[i].offset = r.accepted
               /\ i <= Out => batch[i].offset <= p.wire /\ (batch[i].fin => p.finWire)
               /\ i > Out => p.wire <= batch[i].offset
    /\ \A i, j \in DOMAIN batch :
           (i < j /\ batch[i].stream = batch[j].stream) => batch[i].offset <= batch[j].offset

UdpInv ==
    /\ udp \in [segmentation : BOOLEAN, whole : BOOLEAN, count : Nat, completed : Nat,
                wire : Seq(Nat)]
    /\ udp.whole => udp.completed = 0
    /\ SentOnce

\* Who waits or holds a stream has one that exists; so has who may get it from acceptStream.
TaskInv ==
    \A s \in Stream : strm[s].where = "none" =>
        handle[s] = "none" /\ reader[s] = "none" /\ writer[s] = "none" /\ s \notin ToSet(conn.incoming)

\* The connection's counts are the sums of its streams'.
SumOf(S, f) == SumFunctionOnSet([s \in Stream |-> S[s][f]], Stream)
ClosedPeers(S) == {s \in Stream \ Local : IsClosed(S[s])}
ConnOK(S, C) ==
    /\ C.buffered = SumOf(S, "buffered")
    /\ C.granted + C.credit = SumOf(S, "consumed")
    /\ SumOf(S, "received") <= ConnWindow + C.granted
    /\ C.streamsGranted + C.streamCredit = Cardinality(ClosedPeers(S))
SumInv == ConnOK(strm, conn)

IInv == TypeOK /\ StreamsInv /\ BatchInv /\ UdpInv /\ TaskInv /\ SumInv /\ WaitersBlocked
-----------------------------------------------------------------------------
(* The types. *)

Conn == [credit : Nat, granted : Nat, buffered : 0..ConnSendLimit, streamCredit : Nat,
         streamsGranted : Nat, incoming : Seq(Stream), error : BOOLEAN, receiving : BOOLEAN]
Peer == [wire : Nat, finWire : BOOLEAN, acked : Nat, granted : Nat, reset : BOOLEAN, stop : BOOLEAN]
Receipt == [stream : Stream, offset : Nat, fin : BOOLEAN]
Handle == {"none", "held", "dropped"}
Want == {"none", "write", "flush", "shutdown"}

\* The types of a state, without the plan.
Types ==
    /\ strm \in [Stream -> Flow] /\ conn \in Conn /\ peer \in [Stream -> Peer]
    /\ handle \in [Stream -> Handle] /\ reader \in [Stream -> Task] /\ writer \in [Stream -> Task]
    /\ want \in [Stream -> Want]
    /\ phase \in {"idle", "writing", "sending"} /\ batch \in Seq(Receipt)

LEMMA TypeParts == TypeOK <=> plan \in Plans /\ Types
BY DEF TypeOK, Types, Conn, Peer, Receipt, Handle, Want

LEMMA TypePrimed == (plan \in Plans /\ Types)' => TypeOK'
<1>1. plan \in Plans /\ Types => TypeOK BY TypeParts
<1> QED BY <1>1, PTL

LEMMA Limits ==
    /\ IsFiniteSet(Stream) /\ Local \subseteq Stream
    /\ SendLimit \in Nat /\ ConnSendLimit \in Nat /\ StreamWindow \in Nat /\ ConnWindow \in Nat
    /\ MaxSegments \in Nat
BY QuicStreamAssumption

LEMMA PlanType ==
    ASSUME plan \in Plans, NEW s \in Stream
    PROVE plan.tx[s] \in Nat /\ plan.rx[s] \in Nat
BY QuicStreamAssumption DEF Plan

\* The sums of the properties are those of the invariant.
LEMMA SumsAre ==
    /\ SumOver(LAMBDA s : strm[s].buffered) = SumOf(strm, "buffered")
    /\ SumOver(LAMBDA s : strm[s].consumed) = SumOf(strm, "consumed")
    /\ SumOver(LAMBDA s : Unread(strm[s])) = SumFunctionOnSet([s \in Stream |-> Unread(strm[s])], Stream)
    /\ Received = SumOf(strm, "received")
BY DEF SumOver, SumOf, Received

LEMMA FlowFields ==
    ASSUME NEW S \in [Stream -> Flow]
    PROVE \A s \in Stream : /\ S[s]["buffered"] = S[s].buffered /\ S[s].buffered \in Nat
                            /\ S[s]["consumed"] = S[s].consumed /\ S[s].consumed \in Nat
                            /\ S[s]["received"] = S[s].received /\ S[s].received \in Nat
BY Limits DEF Flow

Counted == {"buffered", "consumed", "received"}

LEMMA SumsSame ==
    ASSUME NEW S \in [Stream -> Flow], NEW T \in [Stream -> Flow], NEW f,
           \A s \in Stream : S[s][f] = T[s][f]
    PROVE SumOf(S, f) = SumOf(T, f)
<1>1. PICK g : g = [s \in Stream |-> S[s][f]] OBVIOUS
<1>2. PICK h : h = [s \in Stream |-> T[s][f]] OBVIOUS
<1>3. \A s \in Stream : g[s] = h[s] BY <1>1, <1>2
<1>4. SumFunctionOnSet(g, Stream) = SumFunctionOnSet(h, Stream) BY <1>3, Limits, SumSame
<1> QED BY <1>1, <1>2, <1>4 DEF SumOf

LEMMA SumsOne ==
    ASSUME NEW S \in [Stream -> Flow], NEW T \in [Stream -> Flow], NEW f \in Counted,
           NEW a \in Stream, \A s \in Stream \ {a} : S[s] = T[s]
    PROVE SumOf(S, f) \in Nat /\ SumOf(T, f) = SumOf(S, f) + (T[a][f] - S[a][f])
<1>1. PICK g : g = [s \in Stream |-> S[s][f]] OBVIOUS
<1>2. PICK h : h = [s \in Stream |-> T[s][f]] OBVIOUS
<1>3. \A s \in Stream : g[s] \in Nat /\ h[s] \in Nat BY <1>1, <1>2, FlowFields DEF Counted
<1>4. \A s \in Stream \ {a} : g[s] = h[s] BY <1>1, <1>2
<1>5. \A s \in Stream : g[s] \in Int /\ h[s] \in Int BY <1>3
<1>6. SumFunctionOnSet(h, Stream) = SumFunctionOnSet(g, Stream) + (h[a] - g[a])
  BY <1>4, <1>5, Limits, SumChange
<1>7. SumFunctionOnSet(g, Stream) \in Nat BY <1>3, Limits, SumNat
<1> QED BY <1>1, <1>2, <1>6, <1>7 DEF SumOf

LEMMA SumsAbove ==
    ASSUME NEW S \in [Stream -> Flow], NEW f \in Counted, NEW a \in Stream
    PROVE SumOf(S, f) \in Nat /\ S[a][f] \in Nat /\ S[a][f] <= SumOf(S, f)
<1>1. PICK g : g = [s \in Stream |-> S[s][f]] OBVIOUS
<1>2. \A s \in Stream : g[s] \in Nat BY <1>1, FlowFields DEF Counted
<1>3. SumFunctionOnSet(g, Stream) \in Nat /\ g[a] <= SumFunctionOnSet(g, Stream)
  BY <1>2, Limits, SumNat, SumTerm
<1> QED BY <1>1, <1>2, <1>3 DEF SumOf


-----------------------------------------------------------------------------
(* What the operations make of one stream. *)

\* What the receipts of a batch rely on.
SameOut(p, q) == q.wire = p.wire /\ q.finWire = p.finWire
KeepsOut(r, p, l, q) ==
    /\ r.submitted <= l.submitted
    /\ r.writeFin => l.writeFin /\ l.accepted = r.accepted
    /\ SameOut(p, q)

ReadK(r, n) == [r EXCEPT !.consumed = @ + n, !.credit = @ + n]
ResetK(r) == [Discarded(r) EXCEPT !.resetRequested = TRUE, !.readError = TRUE, !.writeError = TRUE]
WriteK(r, n) == [r EXCEPT !.tx = Append(@, n), !.accepted = @ + n, !.buffered = @ + n]
FinK(r) == [r EXCEPT !.writeFin = @ \/ ~r.writeError]
ApplyK(r) == [r EXCEPT !.credit = 0, !.resetApplied = r.resetRequested]
PacketK(r, n, fin) == [r EXCEPT !.submitted = @ + n, !.finSubmitted = fin]
ReceiptK(r, n, fin) == [r EXCEPT !.sent = n, !.finSent = fin]
DataK(r, n, fin) == [r EXCEPT !.received = @ + n, !.readFin = fin]
AckK(r, k, n) == [r EXCEPT !.tx = SubSeq(@, k + 1, Len(@)), !.buffered = @ - n]
FailK(r) == [r EXCEPT !.readError = TRUE, !.writeError = TRUE]
StopK(r) == [r EXCEPT !.writeError = TRUE]
BrokenK(r) == [Discarded(r) EXCEPT !.readError = TRUE]
MappedK(r) == [r EXCEPT !.where = "map"]
NotifiedK(r) == [r EXCEPT !.where = IF @ = "closing" THEN "gone" ELSE @]

LEMMA DiscardedIs ==
    ASSUME NEW r \in Flow
    PROVE /\ Discarded(r) \in Flow /\ Unread(Discarded(r)) = 0
          /\ Discarded(r).consumed = r.received
<1>1. PICK n : n = r.received OBVIOUS
<1>2. n \in Nat BY <1>1 DEF Flow
<1>3. PICK l : l = [r EXCEPT !.consumed = n] OBVIOUS
<1>4. l \in Flow /\ l.consumed = n /\ l.received = n BY <1>1, <1>2, <1>3 DEF Flow
<1>5. Discarded(r) = l BY <1>1, <1>3 DEF Discarded
<1>6. Unread(l) = 0 BY <1>2, <1>4 DEF Unread
<1> QED BY <1>1, <1>4, <1>5, <1>6

LEMMA DiscardedOK ==
    ASSUME NEW r \in Flow, NEW p \in Peer, NEW h, StreamOK(r, p, h)
    PROVE StreamOK(Discarded(r), p, h)
<1>1. PICK l : l = Discarded(r) OBVIOUS
<1>2. l \in Flow BY <1>1, DiscardedIs
<1>3. /\ l.consumed = r.received /\ l.received = r.received /\ l.credit = r.credit
      /\ l.sent = r.sent /\ l.submitted = r.submitted /\ l.accepted = r.accepted
      /\ l.writeFin = r.writeFin /\ l.finSubmitted = r.finSubmitted /\ l.finSent = r.finSent
      /\ l.tx = r.tx /\ l.buffered = r.buffered /\ l.where = r.where
      /\ l.resetRequested = r.resetRequested /\ l.readFin = r.readFin
  BY <1>1 DEF Discarded, Flow
<1>4. r.received \in Nat /\ r.consumed \in Nat /\ r.credit \in Nat /\ p.granted \in Nat
  BY DEF Flow, Peer
<1>5. ReceiveOK(l, p) BY <1>3, <1>4, Limits DEF StreamOK, ReceiveOK
<1>6. SendOK(l, p) BY <1>3 DEF StreamOK, SendOK
<1>7. DropOK(l, h) BY <1>3, <1>4 DEF StreamOK, DropOK, Unread, IsClosed
<1>8. l.buffered = SumFunction(l.tx) BY <1>3 DEF StreamOK
<1> QED BY <1>1, <1>5, <1>6, <1>7, <1>8 DEF StreamOK

\* The fields that StreamOK reads, but for those of one direction.
SameReceive(r, l) ==
    /\ l.consumed = r.consumed /\ l.received = r.received /\ l.credit = r.credit
SameSend(r, l) ==
    /\ l.sent = r.sent /\ l.submitted = r.submitted /\ l.accepted = r.accepted
    /\ l.writeFin = r.writeFin /\ l.finSubmitted = r.finSubmitted /\ l.finSent = r.finSent
SameBuffer(r, l) == l.tx = r.tx /\ l.buffered = r.buffered
SameLife(r, l) ==
    /\ l.where = r.where \/ (r.where = "none" /\ l.where = "map")
       \/ (r.where = "closing" /\ l.where = "gone")
    /\ l.resetRequested = r.resetRequested /\ l.readFin = r.readFin

LEMMA SameOK ==
    ASSUME NEW r, NEW l, NEW p, NEW h, StreamOK(r, p, h),
           SameReceive(r, l), SameSend(r, l), SameBuffer(r, l), SameLife(r, l)
    PROVE StreamOK(l, p, h)
<1>1. ReceiveOK(l, p) BY DEF StreamOK, ReceiveOK, SameReceive
<1>2. SendOK(l, p) BY DEF StreamOK, SendOK, SameSend
<1>3. DropOK(l, h)
  BY DEF StreamOK, DropOK, SameReceive, SameLife, IsClosed, Unread
<1>4. l.buffered = SumFunction(l.tx) BY DEF StreamOK, SameBuffer
<1> QED BY <1>1, <1>2, <1>3, <1>4 DEF StreamOK

LEMMA KeepsSame ==
    ASSUME NEW r \in Flow, NEW p, NEW l, SameSend(r, l)
    PROVE KeepsOut(r, p, l, p)
BY DEF KeepsOut, SameOut, SameSend, Flow

\* The operations that change neither what was received nor what was sent.
LEMMA PlainMoves ==
    ASSUME NEW r \in Flow, NEW l, l \in {FailK(r), StopK(r), MappedK(r), NotifiedK(r)},
           l = MappedK(r) => r.where \in {"none", "map"}
    PROVE /\ l \in Flow
          /\ SameReceive(r, l) /\ SameSend(r, l) /\ SameBuffer(r, l) /\ SameLife(r, l)
<1>1. CASE l = FailK(r)
  BY <1>1 DEF FailK, Flow, SameReceive, SameSend, SameBuffer, SameLife
<1>2. CASE l = StopK(r)
  BY <1>2 DEF StopK, Flow, SameReceive, SameSend, SameBuffer, SameLife
<1>3. CASE l = MappedK(r)
  BY <1>3 DEF MappedK, Flow, SameReceive, SameSend, SameBuffer, SameLife
<1>4. CASE l = NotifiedK(r)
  <2>1. (IF r.where = "closing" THEN "gone" ELSE r.where) \in {"none", "map", "closing", "gone"}
    BY DEF Flow
  <2> QED BY <1>4, <2>1 DEF NotifiedK, Flow, SameReceive, SameSend, SameBuffer, SameLife
<1> QED BY <1>1, <1>2, <1>3, <1>4

LEMMA PeerOK ==
    ASSUME NEW r, NEW p, NEW q, NEW h, StreamOK(r, p, h), SameOut(p, q), q.granted = p.granted
    PROVE StreamOK(r, q, h)
<1>1. ReceiveOK(r, q) BY DEF StreamOK, ReceiveOK
<1>2. SendOK(r, q) BY DEF StreamOK, SendOK, SameOut
<1> QED BY <1>1, <1>2 DEF StreamOK

\* What a step may make of a stream: l and q of r and p, while the program has it as g.
Good(r, p, l, q, g) == l \in Flow /\ q \in Peer /\ StreamOK(l, q, g) /\ KeepsOut(r, p, l, q)

LEMMA SameGood ==
    ASSUME NEW r \in Flow, NEW p \in Peer, NEW h, NEW l \in Flow, NEW q \in Peer, StreamOK(r, p, h),
           SameReceive(r, l), SameSend(r, l), SameBuffer(r, l), SameLife(r, l),
           SameOut(p, q), q.granted = p.granted
    PROVE Good(r, p, l, q, h)
<1>1. StreamOK(l, q, h) BY SameOK, PeerOK
<1>2. KeepsOut(r, p, l, q) BY DEF KeepsOut, SameSend, Flow
<1> QED BY <1>1, <1>2 DEF Good

LEMMA StayGood ==
    ASSUME NEW r \in Flow, NEW p \in Peer, NEW h, StreamOK(r, p, h)
    PROVE Good(r, p, r, p, h)
BY DEF Good, KeepsOut, SameOut, Flow

LEMMA ReadGood ==
    ASSUME NEW r \in Flow, NEW p \in Peer, NEW h, StreamOK(r, p, h), h # "dropped",
           NEW n \in 1 .. Unread(r)
    PROVE Good(r, p, ReadK(r, n), p, h)
<1>1. PICK l : l = ReadK(r, n) OBVIOUS
<1>2. /\ r.consumed \in Nat /\ r.credit \in Nat /\ r.received \in Nat /\ n \in Nat
      /\ p.granted \in Nat /\ n <= r.received - r.consumed
  BY DEF Flow, Peer, Unread
<1>3. l \in Flow /\ l.consumed = r.consumed + n /\ l.credit = r.credit + n /\ l.received = r.received
  <2>1. PICK x, y : x = r.consumed + n /\ y = r.credit + n OBVIOUS
  <2>2. x \in Nat /\ y \in Nat BY <1>2, <2>1
  <2>3. l = [r EXCEPT !.consumed = x, !.credit = y] BY <1>1, <2>1 DEF ReadK, Flow
  <2> QED BY <2>1, <2>2, <2>3 DEF Flow
<1>4. SameSend(r, l) /\ SameBuffer(r, l) BY <1>1 DEF ReadK, Flow, SameSend, SameBuffer
<1>5. ReceiveOK(l, p) BY <1>2, <1>3 DEF StreamOK, ReceiveOK
<1>6. SendOK(l, p) BY <1>4 DEF StreamOK, SendOK, SameSend
<1>7. DropOK(l, h) BY DEF DropOK
<1>8. l.buffered = SumFunction(l.tx) BY <1>4 DEF StreamOK, SameBuffer
<1> QED BY <1>1, <1>3, <1>4, <1>5, <1>6, <1>7, <1>8, KeepsSame DEF StreamOK, Good

LEMMA ResetKIs ==
    ASSUME NEW r \in Flow
    PROVE LET l == ResetK(r) IN
          /\ l \in Flow /\ l.resetRequested /\ l.readError /\ l.writeError
          /\ l.consumed = r.received /\ l.received = r.received /\ l.credit = r.credit
          /\ SameSend(r, l) /\ SameBuffer(r, l) /\ l.where = r.where /\ l.readFin = r.readFin
          /\ l.resetApplied = r.resetApplied
BY DEF ResetK, Discarded, Flow, SameSend, SameBuffer

LEMMA ResetGood ==
    ASSUME NEW r \in Flow, NEW p \in Peer, NEW h, StreamOK(r, p, h), ~IsClosed(r), NEW g
    PROVE Good(r, p, ResetK(r), p, g)
<1>1. PICK l : l = ResetK(r) OBVIOUS
<1>2. /\ l \in Flow /\ l.resetRequested /\ l.consumed = r.received /\ l.received = r.received
      /\ l.credit = r.credit /\ SameSend(r, l) /\ SameBuffer(r, l) /\ l.where = r.where
  BY <1>1, ResetKIs
<1>3. r.received \in Nat /\ r.consumed \in Nat /\ r.credit \in Nat /\ p.granted \in Nat
  BY DEF Flow, Peer
<1>4. ReceiveOK(l, p) BY <1>2, <1>3 DEF StreamOK, ReceiveOK
<1>5. SendOK(l, p) BY <1>2 DEF StreamOK, SendOK, SameSend
<1>6. DropOK(l, g) BY <1>2 DEF DropOK, IsClosed
<1>7. l.buffered = SumFunction(l.tx) BY <1>2 DEF StreamOK, SameBuffer
<1> QED BY <1>1, <1>2, <1>4, <1>5, <1>6, <1>7, KeepsSame DEF StreamOK, Good

\* What a finished stream discards, and one that was reset before, may be dropped.
LEMMA DropGood ==
    ASSUME NEW r \in Flow, NEW p \in Peer, NEW h, StreamOK(r, p, h), NEW g \in {h, "dropped"},
           NEW l, \/ l = Discarded(r) /\ (g = h \/ IsClosed(r) \/ r.readFin)
                  \/ l = r /\ (g = h \/ (~IsClosed(r) /\ r.resetRequested))
    PROVE Good(r, p, l, p, g)
<1>1. CASE l = r /\ g = h BY <1>1, StayGood
<1>2. CASE l = Discarded(r) /\ g = h
  <2>1. l \in Flow /\ SameSend(r, l) BY <1>2, DiscardedIs DEF Discarded, SameSend, Flow
  <2> QED BY <1>2, <2>1, DiscardedOK, KeepsSame DEF Good
<1>3. CASE l = r /\ g # h /\ ~IsClosed(r) /\ r.resetRequested
  <2>1. DropOK(l, g) BY <1>3 DEF DropOK
  <2> QED BY <1>3, <2>1, StayGood DEF Good, StreamOK
<1>4. CASE l = Discarded(r) /\ g # h /\ (IsClosed(r) \/ r.readFin)
  <2>1. /\ l \in Flow /\ SameSend(r, l) /\ l.where = r.where /\ l.readFin = r.readFin
        /\ l.consumed = r.received /\ l.received = r.received
    BY <1>4, DiscardedIs DEF Discarded, SameSend, Flow
  <2>2. DropOK(l, g) BY <1>4, <2>1 DEF DropOK, Unread, IsClosed, Flow
  <2>3. StreamOK(l, p, h) BY <1>4, DiscardedOK
  <2> QED BY <2>1, <2>2, <2>3, KeepsSame DEF Good, StreamOK
<1> QED BY <1>1, <1>2, <1>3, <1>4

LEMMA WriteKIs ==
    ASSUME NEW r \in Flow, NEW n \in Nat \ {0}, r.buffered = SumFunction(r.tx),
           r.buffered + n <= SendLimit
    PROVE LET l == WriteK(r, n) IN
          /\ l \in Flow /\ l.buffered = SumFunction(l.tx) /\ l.buffered = r.buffered + n
          /\ l.accepted = r.accepted + n
<1>1. PICK l : l = WriteK(r, n) OBVIOUS
<1>2. r.tx \in Seq(Nat \ {0}) /\ r.tx \in Seq(Nat) /\ r.accepted \in Nat /\ r.buffered \in Nat
  BY Limits DEF Flow
<1>3. Append(r.tx, n) \in Seq(Nat \ {0}) BY <1>2
<1>4. l.tx = Append(r.tx, n) /\ l.buffered = r.buffered + n /\ l.accepted = r.accepted + n
  BY <1>1 DEF WriteK, Flow
<1>5. l.buffered \in 0 .. SendLimit /\ l.accepted \in Nat BY <1>2, <1>4, Limits
<1>6. l \in Flow BY <1>1, <1>3, <1>4, <1>5 DEF WriteK, Flow
<1>7. SumFunction(l.tx) = r.buffered + n BY <1>2, <1>4, SumAppend
<1> QED BY <1>1, <1>4, <1>6, <1>7

LEMMA WriteGood ==
    ASSUME NEW r \in Flow, NEW p \in Peer, NEW h, StreamOK(r, p, h), ~r.writeFin,
           NEW n \in Nat \ {0}, r.buffered + n <= SendLimit
    PROVE Good(r, p, WriteK(r, n), p, h)
<1>1. PICK l : l = WriteK(r, n) OBVIOUS
<1>2. l \in Flow /\ l.buffered = SumFunction(l.tx) /\ l.accepted = r.accepted + n
  BY <1>1, WriteKIs DEF StreamOK
<1>3. /\ l.consumed = r.consumed /\ l.received = r.received /\ l.credit = r.credit
      /\ l.sent = r.sent /\ l.submitted = r.submitted /\ l.writeFin = r.writeFin
      /\ l.finSubmitted = r.finSubmitted /\ l.finSent = r.finSent
      /\ l.where = r.where /\ l.resetRequested = r.resetRequested /\ l.readFin = r.readFin
  BY <1>1 DEF WriteK, Flow
<1>4. r.submitted \in Nat /\ r.accepted \in Nat BY DEF Flow
<1>5. ReceiveOK(l, p) BY <1>3 DEF StreamOK, ReceiveOK
<1>6. SendOK(l, p) BY <1>2, <1>3, <1>4 DEF StreamOK, SendOK
<1>7. DropOK(l, h) BY <1>3 DEF StreamOK, DropOK, IsClosed, Unread
<1>8. KeepsOut(r, p, l, p) BY <1>3, <1>4 DEF KeepsOut, SameOut
<1> QED BY <1>1, <1>2, <1>5, <1>6, <1>7, <1>8 DEF StreamOK, Good

LEMMA FinGood ==
    ASSUME NEW r \in Flow, NEW p \in Peer, NEW h, StreamOK(r, p, h)
    PROVE Good(r, p, FinK(r), p, h)
<1>1. PICK l : l = FinK(r) OBVIOUS
<1>2. (r.writeFin \/ ~r.writeError) \in BOOLEAN OBVIOUS
<1>3. l \in Flow /\ l.writeFin = (r.writeFin \/ ~r.writeError)
  BY <1>1, <1>2 DEF FinK, Flow
<1>4. /\ l.consumed = r.consumed /\ l.received = r.received /\ l.credit = r.credit
      /\ l.sent = r.sent /\ l.submitted = r.submitted /\ l.accepted = r.accepted
      /\ l.finSubmitted = r.finSubmitted /\ l.finSent = r.finSent
      /\ l.where = r.where /\ l.resetRequested = r.resetRequested /\ l.readFin = r.readFin
      /\ l.tx = r.tx /\ l.buffered = r.buffered
  BY <1>1 DEF FinK, Flow
<1>5. r.writeFin => l.writeFin BY <1>3
<1>6. ReceiveOK(l, p) BY <1>4 DEF StreamOK, ReceiveOK
<1>7. SendOK(l, p) BY <1>4, <1>5 DEF StreamOK, SendOK
<1>8. DropOK(l, h) BY <1>4 DEF StreamOK, DropOK, IsClosed, Unread
<1>9. KeepsOut(r, p, l, p) BY <1>4, <1>5 DEF KeepsOut, SameOut, Flow
<1> QED BY <1>1, <1>3, <1>4, <1>6, <1>7, <1>8, <1>9 DEF StreamOK, Good

LEMMA ApplyGood ==
    ASSUME NEW r \in Flow, NEW p \in Peer, NEW h, StreamOK(r, p, h)
    PROVE Good(r, p, ApplyK(r), [p EXCEPT !.granted = @ + r.credit], h)
<1>1. PICK l : l = ApplyK(r) OBVIOUS
<1>2. PICK q : q = [p EXCEPT !.granted = @ + r.credit] OBVIOUS
<1>3. r.credit \in Nat /\ p.granted \in Nat /\ r.consumed \in Nat /\ r.received \in Nat
  BY DEF Flow, Peer
<1>4. l \in Flow /\ q \in Peer
  <2>1. l \in Flow BY <1>1 DEF ApplyK, Flow
  <2>2. PICK x : x = p.granted + r.credit OBVIOUS
  <2>3. x \in Nat BY <1>3, <2>2
  <2>4. q = [p EXCEPT !.granted = x] BY <1>2, <2>2 DEF Peer
  <2> QED BY <2>1, <2>3, <2>4 DEF Peer
<1>5. /\ l.consumed = r.consumed /\ l.received = r.received /\ l.credit = 0
      /\ SameSend(r, l) /\ SameBuffer(r, l)
      /\ l.where = r.where /\ l.resetRequested = r.resetRequested /\ l.readFin = r.readFin
  BY <1>1 DEF ApplyK, Flow, SameSend, SameBuffer
<1>6. q.granted = p.granted + r.credit /\ SameOut(p, q) BY <1>2 DEF Peer, SameOut
<1>7. ReceiveOK(l, q) BY <1>3, <1>5, <1>6, Limits DEF StreamOK, ReceiveOK
<1>8. SendOK(l, q) BY <1>5, <1>6 DEF StreamOK, SendOK, SameSend, SameOut
<1>9. DropOK(l, h) BY <1>5 DEF StreamOK, DropOK, IsClosed, Unread
<1>10. KeepsOut(r, p, l, q) BY <1>5, <1>6 DEF KeepsOut, SameSend, Flow
<1>11. l.buffered = SumFunction(l.tx) BY <1>5 DEF StreamOK, SameBuffer
<1> QED BY <1>1, <1>2, <1>4, <1>7, <1>8, <1>9, <1>10, <1>11 DEF StreamOK, Good

LEMMA PacketGood ==
    ASSUME NEW r \in Flow, NEW p \in Peer, NEW h, StreamOK(r, p, h),
           NEW n \in 0 .. (r.accepted - r.submitted), NEW fin \in BOOLEAN,
           fin => r.writeFin /\ n = r.accepted - r.submitted
    PROVE Good(r, p, PacketK(r, n, fin), p, h)
<1>1. PICK l : l = PacketK(r, n, fin) OBVIOUS
<1>2. r.submitted \in Nat /\ r.accepted \in Nat /\ n \in Nat /\ r.submitted + n <= r.accepted
  BY DEF Flow
<1>3. fin => r.writeFin /\ r.submitted + n = r.accepted BY <1>2
<1>4. l \in Flow /\ l.submitted = r.submitted + n /\ l.finSubmitted = fin
  <2>1. PICK x : x = r.submitted + n OBVIOUS
  <2>2. x \in Nat BY <1>2, <2>1
  <2>3. l = [r EXCEPT !.submitted = x, !.finSubmitted = fin] BY <1>1, <2>1 DEF PacketK, Flow
  <2> QED BY <2>1, <2>2, <2>3 DEF Flow
<1>5. /\ l.consumed = r.consumed /\ l.received = r.received /\ l.credit = r.credit
      /\ l.sent = r.sent /\ l.accepted = r.accepted
      /\ l.writeFin = r.writeFin /\ l.finSent = r.finSent
      /\ l.where = r.where /\ l.resetRequested = r.resetRequested /\ l.readFin = r.readFin
      /\ l.tx = r.tx /\ l.buffered = r.buffered
  BY <1>1 DEF PacketK, Flow
<1>6. ReceiveOK(l, p) BY <1>5 DEF StreamOK, ReceiveOK
<1>7. p.wire \in Nat BY DEF Peer
<1>8. SendOK(l, p)
  <2>1. SendOK(r, p) BY DEF StreamOK
  <2>2. p.wire <= l.submitted /\ l.submitted <= l.accepted
    BY <1>2, <1>4, <1>5, <1>7, <2>1 DEF SendOK
  <2>3. fin => l.writeFin /\ l.submitted = l.accepted BY <1>3, <1>4, <1>5
  <2> QED BY <1>4, <1>5, <2>1, <2>2, <2>3 DEF SendOK
<1>9. DropOK(l, h) BY <1>5 DEF StreamOK, DropOK, IsClosed, Unread
<1>10. KeepsOut(r, p, l, p) BY <1>2, <1>4, <1>5 DEF KeepsOut, SameOut
<1> QED BY <1>1, <1>4, <1>5, <1>6, <1>8, <1>9, <1>10 DEF StreamOK, Good

LEMMA ReceiptGood ==
    ASSUME NEW r \in Flow, NEW p \in Peer, NEW h, StreamOK(r, p, h),
           NEW n \in Nat, n <= p.wire, NEW fin \in BOOLEAN, fin => p.finWire
    PROVE Good(r, p, ReceiptK(r, n, fin), p, h)
<1>1. PICK l : l = ReceiptK(r, n, fin) OBVIOUS
<1>2. l \in Flow /\ l.sent = n /\ l.finSent = fin BY <1>1 DEF ReceiptK, Flow
<1>3. /\ l.consumed = r.consumed /\ l.received = r.received /\ l.credit = r.credit
      /\ l.submitted = r.submitted /\ l.accepted = r.accepted
      /\ l.writeFin = r.writeFin /\ l.finSubmitted = r.finSubmitted
      /\ l.where = r.where /\ l.resetRequested = r.resetRequested /\ l.readFin = r.readFin
      /\ l.tx = r.tx /\ l.buffered = r.buffered
  BY <1>1 DEF ReceiptK, Flow
<1>4. ReceiveOK(l, p) BY <1>3 DEF StreamOK, ReceiveOK
<1>5. SendOK(l, p) BY <1>2, <1>3 DEF StreamOK, SendOK
<1>6. DropOK(l, h) BY <1>3 DEF StreamOK, DropOK, IsClosed, Unread
<1>7. KeepsOut(r, p, l, p) BY <1>3 DEF KeepsOut, SameOut, Flow
<1> QED BY <1>1, <1>2, <1>3, <1>4, <1>5, <1>6, <1>7 DEF StreamOK, Good

LEMMA DataGood ==
    ASSUME NEW r \in Flow, NEW p \in Peer, NEW h, StreamOK(r, p, h),
           ~r.readFin, r.where = "map",
           NEW n \in Nat, r.received + n <= StreamWindow + p.granted, NEW fin \in BOOLEAN
    PROVE Good(r, p, DataK(r, n, fin), p, h)
<1>1. PICK l : l = DataK(r, n, fin) OBVIOUS
<1>2. r.received \in Nat /\ r.consumed \in Nat /\ r.credit \in Nat /\ p.granted \in Nat
  BY DEF Flow, Peer
<1>3. l \in Flow /\ l.received = r.received + n
  <2>1. PICK x : x = r.received + n OBVIOUS
  <2>2. x \in Nat BY <1>2, <2>1
  <2>3. l = [r EXCEPT !.received = x, !.readFin = fin] BY <1>1, <2>1 DEF DataK, Flow
  <2> QED BY <2>1, <2>2, <2>3 DEF Flow
<1>4. /\ l.consumed = r.consumed /\ l.credit = r.credit /\ SameSend(r, l) /\ SameBuffer(r, l)
      /\ l.where = r.where /\ l.resetRequested = r.resetRequested
  BY <1>1 DEF DataK, Flow, SameSend, SameBuffer
<1>5. ReceiveOK(l, p) BY <1>2, <1>3, <1>4, Limits DEF StreamOK, ReceiveOK
<1>6. SendOK(l, p) BY <1>4 DEF StreamOK, SendOK, SameSend
<1>7. DropOK(l, h) BY <1>4 DEF StreamOK, DropOK, IsClosed
<1>8. l.buffered = SumFunction(l.tx) BY <1>4 DEF StreamOK, SameBuffer
<1> QED BY <1>1, <1>3, <1>4, <1>5, <1>6, <1>7, <1>8, KeepsSame DEF StreamOK, Good

\* An acknowledgement frees a prefix of the chunks and gives back what it held.
LEMMA Freed ==
    ASSUME NEW r \in Flow, r.buffered = SumFunction(r.tx), NEW offset \in Int, NEW freed,
           freed \subseteq DOMAIN r.tx,
           \A i \in DOMAIN r.tx : i \in freed <=>
               (r.accepted - r.buffered) + SumFunctionOnSet(r.tx, 1 .. i) <= offset
    PROVE LET k == Cardinality(freed)
              n == SumFunctionOnSet(r.tx, freed)
              tail == SubSeq(r.tx, k + 1, Len(r.tx))
          IN  /\ tail \in Seq(Nat \ {0}) /\ n \in 0 .. r.buffered
              /\ r.buffered - n = SumFunction(tail)
<1>1. PICK k : k = Cardinality(freed) OBVIOUS
<1>2. PICK t : t = r.tx OBVIOUS
<1>3. t \in Seq(Nat \ {0}) /\ t \in Seq(Nat) BY <1>2 DEF Flow
<1>4. PICK first : first = r.accepted - r.buffered OBVIOUS
<1>5. first \in Int /\ r.buffered \in Nat BY <1>4, Limits DEF Flow
<1>6. freed \subseteq DOMAIN t
      /\ \A i \in DOMAIN t : i \in freed <=> first + SumFunctionOnSet(t, 1 .. i) <= offset
  BY <1>2, <1>4
<1>7. k \in 0 .. Len(t) /\ freed = 1 .. k
  <2>1. t \in Seq(Nat) /\ first \in Int /\ offset \in Int BY <1>3, <1>5
  <2>2. Cardinality(freed) \in 0 .. Len(t) BY <1>6, <2>1, SumPrefix
  <2>3. freed = 1 .. Cardinality(freed) BY <1>6, <2>1, SumPrefix
  <2> QED BY <1>1, <2>2, <2>3
<1>8. PICK n : n = SumFunctionOnSet(t, 1 .. k) OBVIOUS
<1>9. PICK tail : tail = SubSeq(t, k + 1, Len(t)) OBVIOUS
<1>10. Len(t) \in Nat /\ k \in Nat /\ k <= Len(t) BY <1>3, <1>7
<1>11. tail \in Seq(Nat \ {0}) /\ Len(tail) = Len(t) - k BY <1>3, <1>9, <1>10
<1>12. tail \in Seq(Nat) /\ SumFunction(t) = n + SumFunction(tail)
  BY <1>3, <1>7, <1>8, <1>9, SumSplit
<1>13. n \in Nat
  <2>1. \A i \in 1 .. k : t[i] \in Nat BY <1>3, <1>10
  <2>2. IsFiniteSet(1 .. k) BY <1>10, FS_Interval
  <2> QED BY <1>8, <2>1, <2>2, SumNat
<1>14. SumFunction(tail) \in Nat
  <2>1. PICK S : S = DOMAIN tail OBVIOUS
  <2>2. S = 1 .. Len(tail) /\ Len(tail) \in Nat BY <1>12, <2>1
  <2>3. IsFiniteSet(S) BY <2>2, FS_Interval
  <2>4. \A i \in S : tail[i] \in Nat BY <1>12, <2>2
  <2> QED BY <2>1, <2>3, <2>4, SumNat DEF SumFunction
<1>15. SumFunctionOnSet(r.tx, freed) = n BY <1>2, <1>7, <1>8
<1>16. SubSeq(r.tx, Cardinality(freed) + 1, Len(r.tx)) = tail BY <1>1, <1>2, <1>9
<1>17. PICK m : m = SumFunction(tail) OBVIOUS
<1>18. r.buffered = n + m BY <1>2, <1>12, <1>17
<1>19. n \in 0 .. r.buffered /\ r.buffered - n = m BY <1>5, <1>13, <1>14, <1>17, <1>18
<1> QED BY <1>11, <1>15, <1>16, <1>17, <1>19

LEMMA AckGood ==
    ASSUME NEW r \in Flow, NEW p \in Peer, NEW h, StreamOK(r, p, h),
           NEW k, NEW n \in 0 .. r.buffered, NEW offset \in Nat,
           SubSeq(r.tx, k + 1, Len(r.tx)) \in Seq(Nat \ {0}),
           r.buffered - n = SumFunction(SubSeq(r.tx, k + 1, Len(r.tx)))
    PROVE Good(r, p, AckK(r, k, n), [p EXCEPT !.acked = offset], h)
<1>1. PICK l : l = AckK(r, k, n) OBVIOUS
<1>2. PICK q : q = [p EXCEPT !.acked = offset] OBVIOUS
<1>3. r.buffered \in 0 .. SendLimit /\ r.buffered - n \in 0 .. SendLimit BY Limits DEF Flow
<1>4. l \in Flow /\ l.buffered = r.buffered - n /\ l.tx = SubSeq(r.tx, k + 1, Len(r.tx))
  BY <1>1, <1>3 DEF AckK, Flow
<1>5. /\ SameReceive(r, l) /\ SameSend(r, l) /\ l.where = r.where
      /\ l.resetRequested = r.resetRequested /\ l.readFin = r.readFin
  BY <1>1 DEF AckK, Flow, SameReceive, SameSend
<1>6. q \in Peer /\ SameOut(p, q) /\ q.granted = p.granted BY <1>2 DEF Peer, SameOut
<1>7. ReceiveOK(l, q) BY <1>5, <1>6 DEF StreamOK, ReceiveOK, SameReceive
<1>8. SendOK(l, q) BY <1>5, <1>6 DEF StreamOK, SendOK, SameSend, SameOut
<1>9. DropOK(l, h) BY <1>5 DEF StreamOK, DropOK, IsClosed, Unread, SameReceive
<1>10. KeepsOut(r, p, l, q) BY <1>5, <1>6 DEF KeepsOut, SameSend, Flow
<1> QED BY <1>1, <1>2, <1>4, <1>6, <1>7, <1>8, <1>9, <1>10 DEF StreamOK, Good

LEMMA BrokenGood ==
    ASSUME NEW r \in Flow, NEW p \in Peer, NEW h, StreamOK(r, p, h)
    PROVE Good(r, p, BrokenK(r), [p EXCEPT !.reset = TRUE], h)
<1>1. PICK d : d = Discarded(r) OBVIOUS
<1>2. PICK l : l = [d EXCEPT !.readError = TRUE] OBVIOUS
<1>3. PICK q : q = [p EXCEPT !.reset = TRUE] OBVIOUS
<1>4. d \in Flow /\ StreamOK(d, p, h) BY <1>1, DiscardedIs, DiscardedOK
<1>5. SameSend(r, d) BY <1>1 DEF Discarded, Flow, SameSend
<1>6. l \in Flow /\ SameReceive(d, l) /\ SameSend(d, l) /\ SameBuffer(d, l) /\ SameLife(d, l)
  BY <1>2, <1>4 DEF Flow, SameReceive, SameSend, SameBuffer, SameLife
<1>7. q \in Peer /\ SameOut(p, q) /\ q.granted = p.granted BY <1>3 DEF Peer, SameOut
<1>8. Good(d, p, l, q, h) BY <1>4, <1>6, <1>7, SameGood
<1>9. l = BrokenK(r) BY <1>1, <1>2 DEF BrokenK
<1>10. KeepsOut(r, p, l, q) BY <1>5, <1>8 DEF Good, KeepsOut, SameSend
<1> QED BY <1>3, <1>8, <1>9, <1>10 DEF Good

LEMMA CloseIs ==
    ASSUME NEW r \in Flow, NEW rx \in BOOLEAN, NEW tx \in BOOLEAN
    PROVE LET l == ClosedStream(r, rx, tx) IN
          /\ l \in Flow /\ l.buffered = 0 /\ l.tx = << >> /\ l.where = "closing"
          /\ l.consumed = (IF rx THEN r.received ELSE r.consumed) /\ l.received = r.received
          /\ l.credit = r.credit /\ SameSend(r, l)
          /\ l.resetRequested = r.resetRequested /\ l.readFin = r.readFin
<1>1. PICK d : d = (IF rx THEN Discarded(r) ELSE r) OBVIOUS
<1>2. /\ d \in Flow /\ d.consumed = (IF rx THEN r.received ELSE r.consumed)
      /\ d.received = r.received /\ d.credit = r.credit /\ SameSend(r, d)
      /\ d.resetRequested = r.resetRequested /\ d.readFin = r.readFin
  <2>1. CASE rx BY <1>1, <2>1, DiscardedIs DEF Discarded, Flow, SameSend
  <2>2. CASE ~rx BY <1>1, <2>2 DEF SameSend
  <2> QED BY <2>1, <2>2
<1>3. PICK e, w : e = (d.readError \/ rx) /\ w = (d.writeError \/ tx) OBVIOUS
<1>4. e \in BOOLEAN /\ w \in BOOLEAN BY <1>3
<1>5. PICK l : l = [d EXCEPT !.readError = e, !.writeError = w, !.where = "closing",
                             !.tx = << >>, !.buffered = 0] OBVIOUS
<1>6. ClosedStream(r, rx, tx) = l BY <1>1, <1>3, <1>5 DEF ClosedStream
<1>7. /\ l.buffered = 0 /\ l.tx = << >> /\ l.where = "closing" /\ l.consumed = d.consumed
      /\ l.received = d.received /\ l.credit = d.credit /\ SameSend(d, l)
      /\ l.resetRequested = d.resetRequested /\ l.readFin = d.readFin
  BY <1>2, <1>5 DEF Flow, SameSend
<1>8. << >> \in Seq(Nat \ {0}) /\ 0 \in 0 .. SendLimit BY Limits
<1>9. l \in Flow
  <2>1. PICK t : t = << >> OBVIOUS
  <2>2. l = [d EXCEPT !.readError = e, !.writeError = w, !.where = "closing",
                      !.tx = t, !.buffered = 0]
    BY <1>5, <2>1
  <2>3. t \in Seq(Nat \ {0}) BY <1>8, <2>1
  <2>4. d \in Flow BY <1>2
  <2> HIDE DEF SameSend
  <2> QED BY <1>4, <1>8, <2>2, <2>3, <2>4 DEF Flow
<1> QED BY <1>2, <1>6, <1>7, <1>9 DEF SameSend

\* ngtcp2 only closes a stream whose reader is told, or which has ended.
LEMMA CloseGood ==
    ASSUME NEW r \in Flow, NEW p \in Peer, NEW h, StreamOK(r, p, h), r.where = "map",
           NEW rx \in BOOLEAN, NEW tx \in BOOLEAN, rx \/ r.readFin
    PROVE Good(r, p, ClosedStream(r, rx, tx), p, h)
<1>1. PICK l : l = ClosedStream(r, rx, tx) OBVIOUS
<1>2. /\ l \in Flow /\ l.buffered = 0 /\ l.tx = << >> /\ l.where = "closing"
      /\ l.consumed = (IF rx THEN r.received ELSE r.consumed) /\ l.received = r.received
      /\ l.credit = r.credit /\ SameSend(r, l)
      /\ l.resetRequested = r.resetRequested /\ l.readFin = r.readFin
  BY <1>1, CloseIs
<1>3. r.received \in Nat /\ r.consumed \in Nat /\ r.credit \in Nat /\ p.granted \in Nat
  BY DEF Flow, Peer
<1>4. ReceiveOK(l, p) BY <1>2, <1>3 DEF StreamOK, ReceiveOK
<1>5. SendOK(l, p) BY <1>2 DEF StreamOK, SendOK, SameSend
<1>6. ASSUME h = "dropped" PROVE DropOK(l, h)
  <2>1. r.resetRequested \/ Unread(r) = 0 BY <1>6 DEF StreamOK, DropOK, IsClosed
  <2>2. Unread(r) = 0 => Unread(l) = 0 BY <1>2, <1>3 DEF Unread
  <2>3. rx => Unread(l) = 0 BY <1>2, <1>3 DEF Unread
  <2> QED BY <1>2, <2>1, <2>2, <2>3 DEF DropOK, IsClosed
<1>7. DropOK(l, h) BY <1>6 DEF DropOK
<1>8. l.buffered = SumFunction(l.tx)
  <2>1. DOMAIN << >> = {} OBVIOUS
  <2> QED BY <1>2, <2>1, SumEmpty DEF SumFunction
<1> QED BY <1>1, <1>2, <1>4, <1>5, <1>7, <1>8, KeepsSame DEF StreamOK, Good

LEMMA PlainGood ==
    ASSUME NEW r \in Flow, NEW p \in Peer, NEW h, StreamOK(r, p, h),
           NEW l, l \in {FailK(r), StopK(r), MappedK(r), NotifiedK(r)},
           l = MappedK(r) => r.where \in {"none", "map"},
           NEW q \in Peer, SameOut(p, q), q.granted = p.granted
    PROVE Good(r, p, l, q, h)
<1>1. /\ l \in Flow
      /\ SameReceive(r, l) /\ SameSend(r, l) /\ SameBuffer(r, l) /\ SameLife(r, l)
  BY PlainMoves
<1> QED BY <1>1, SameGood

LEMMA NotifiedGood ==
    ASSUME NEW r \in Flow, NEW p \in Peer, NEW m, NEW q, NEW g, Good(r, p, m, q, g)
    PROVE Good(r, p, NotifiedK(m), q, g)
<1>1. m \in Flow /\ q \in Peer /\ StreamOK(m, q, g) BY DEF Good
<1>2. PICK l : l = NotifiedK(m) OBVIOUS
<1>3. /\ l \in Flow
      /\ SameReceive(m, l) /\ SameSend(m, l) /\ SameBuffer(m, l) /\ SameLife(m, l)
  <2>1. (IF m.where = "closing" THEN "gone" ELSE m.where) \in {"none", "map", "closing", "gone"}
    BY <1>1 DEF Flow
  <2> QED BY <1>1, <1>2, <2>1
       DEF NotifiedK, Flow, SameReceive, SameSend, SameBuffer, SameLife
<1>4. StreamOK(l, q, g) BY <1>1, <1>3, SameOK
<1>5. KeepsOut(r, p, l, q) BY <1>3 DEF Good, KeepsOut, SameSend
<1> QED BY <1>1, <1>2, <1>3, <1>4, <1>5 DEF Good

-----------------------------------------------------------------------------
(* The streams and the batch after a step. *)

AllGood == \A s \in Stream : Good(strm[s], peer[s], strm'[s], peer'[s], handle'[s])

LEMMA StreamsKept ==
    ASSUME AllGood
    PROVE StreamsInv'
BY DEF AllGood, Good, StreamsInv

LEMMA OneStream ==
    ASSUME Types, StreamsInv, NEW a \in Stream, NEW k,
           Good(strm[a], peer[a], k, peer'[a], handle'[a]), strm' = [strm EXCEPT ![a] = k],
           \A s \in Stream \ {a} : peer'[s] = peer[s] /\ handle'[s] = handle[s]
    PROVE strm' \in [Stream -> Flow] /\ AllGood
<1>1. k \in Flow BY DEF Good
<1>2. strm \in [Stream -> Flow] /\ peer \in [Stream -> Peer] BY DEF Types
<1>3. strm' \in [Stream -> Flow] /\ strm'[a] = k /\ \A s \in Stream \ {a} : strm'[s] = strm[s]
  BY <1>1, <1>2
<1>4. ASSUME NEW s \in Stream \ {a} PROVE Good(strm[s], peer[s], strm'[s], peer'[s], handle'[s])
  <2>1. strm[s] \in Flow /\ peer[s] \in Peer /\ StreamOK(strm[s], peer[s], handle[s])
    BY <1>2 DEF StreamsInv
  <2>2. Good(strm[s], peer[s], strm[s], peer[s], handle[s]) BY <2>1, StayGood
  <2>3. strm'[s] = strm[s] /\ peer'[s] = peer[s] /\ handle'[s] = handle[s] BY <1>3
  <2> QED BY <2>2, <2>3
<1> QED BY <1>3, <1>4 DEF AllGood

LEMMA NoStream ==
    ASSUME Types, StreamsInv, UNCHANGED <<strm, peer>>,
           \A s \in Stream : handle'[s] = handle[s] \/ handle'[s] = "held"
    PROVE strm' \in [Stream -> Flow] /\ AllGood
<1>1. ASSUME NEW s \in Stream PROVE Good(strm[s], peer[s], strm'[s], peer'[s], handle'[s])
  <2>1. strm[s] \in Flow /\ peer[s] \in Peer /\ StreamOK(strm[s], peer[s], handle[s])
    BY DEF StreamsInv, Types
  <2>2. StreamOK(strm[s], peer[s], handle'[s]) BY <2>1 DEF StreamOK, DropOK
  <2> QED BY <2>1, <2>2, StayGood
<1> QED BY <1>1 DEF AllGood, Types

LEMMA ReceiptParts ==
    ASSUME Types
    PROVE /\ Len(batch) \in Nat /\ DOMAIN batch = 1 .. Len(batch)
          /\ \A i \in DOMAIN batch : batch[i].stream \in Stream /\ batch[i].offset \in Nat
                                     /\ batch[i].fin \in BOOLEAN
<1>1. batch \in Seq(Receipt) BY DEF Types
<1>2. Len(batch) \in Nat /\ DOMAIN batch = 1 .. Len(batch) BY <1>1, LenProperties
<1>3. \A i \in DOMAIN batch : batch[i] \in Receipt BY <1>1, <1>2, ElementOfSeq
<1> QED BY <1>2, <1>3 DEF Receipt

LEMMA BatchKept ==
    ASSUME Types, BatchInv, AllGood, batch' = batch, Out' = Out,
           phase' = "idle" => phase = "idle", phase' = "sending" => udp'.count = Len(batch)
    PROVE BatchInv'
<1>1. ASSUME NEW i \in DOMAIN batch, NEW r, r = strm[batch[i].stream], NEW p, p = peer[batch[i].stream],
             NEW l, l = strm'[batch[i].stream], NEW q, q = peer'[batch[i].stream]
      PROVE /\ batch[i].offset <= l.submitted
            /\ batch[i].fin => l.writeFin /\ batch[i].offset = l.accepted
            /\ i <= Out => batch[i].offset <= q.wire /\ (batch[i].fin => q.finWire)
            /\ i > Out => q.wire <= batch[i].offset
  <2>1. batch[i].stream \in Stream /\ batch[i].offset \in Nat BY ReceiptParts
  <2>2. r \in Flow /\ l \in Flow /\ KeepsOut(r, p, l, q) BY <1>1, <2>1 DEF AllGood, Good, Types
  <2>3. r.submitted \in Nat /\ l.submitted \in Nat BY <2>2 DEF Flow
  <2>4. /\ batch[i].offset <= r.submitted
        /\ batch[i].fin => r.writeFin /\ batch[i].offset = r.accepted
        /\ i <= Out => batch[i].offset <= p.wire /\ (batch[i].fin => p.finWire)
        /\ i > Out => p.wire <= batch[i].offset
    BY <1>1 DEF BatchInv
  <2> QED BY <2>1, <2>2, <2>3, <2>4 DEF KeepsOut, SameOut
<1>2. \A i \in DOMAIN batch' :
          LET r == strm'[batch'[i].stream]
              p == peer'[batch'[i].stream]
          IN  /\ batch'[i].offset <= r.submitted
              /\ batch'[i].fin => r.writeFin /\ batch'[i].offset = r.accepted
              /\ i <= Out' => batch'[i].offset <= p.wire /\ (batch'[i].fin => p.finWire)
              /\ i > Out' => p.wire <= batch'[i].offset
  BY <1>1
<1> QED BY <1>2 DEF BatchInv

LEMMA BatchEmptied ==
    ASSUME batch' = << >>, phase' # "sending"
    PROVE BatchInv'
<1>1. DOMAIN batch' = {} OBVIOUS
<1> QED BY <1>1 DEF BatchInv

\* What a notify makes of the streams S and the connection C that a step left.
LEMMA NotifyParts ==
    ASSUME NEW S \in [Stream -> Flow], NEW C \in Conn, Notify(S, C),
           reader \in [Stream -> Task], writer \in [Stream -> Task]
    PROVE /\ strm' \in [Stream -> Flow] /\ \A s \in Stream : strm'[s] = NotifiedK(S[s])
          /\ conn' \in Conn /\ ToSet(conn'.incoming) \subseteq ToSet(C.incoming)
          /\ conn'.buffered = C.buffered /\ conn'.granted = C.granted /\ conn'.credit = C.credit
          /\ conn'.streamsGranted = C.streamsGranted /\ conn'.streamCredit = C.streamCredit
          /\ conn'.receiving = C.receiving
          /\ reader' \in [Stream -> Task] /\ writer' \in [Stream -> Task]
          /\ \A s \in Stream : S[s].where \in {"map", "closing"} =>
                 reader'[s] # "waiting" /\ writer'[s] # "waiting"
          /\ \A s \in Stream : reader'[s] = "waiting" => reader[s] = "waiting"
          /\ \A s \in Stream : writer'[s] = "waiting" => writer[s] = "waiting"
          /\ \A s \in Stream : reader[s] = "none" => reader'[s] = "none"
          /\ \A s \in Stream : writer[s] = "none" => writer'[s] = "none"
<1>1. strm' = [s \in Stream |-> NotifiedK(S[s])] BY DEF Notify, NotifiedK
<1>2. ASSUME NEW r \in Flow PROVE NotifiedK(r) \in Flow
  <2>1. (IF r.where = "closing" THEN "gone" ELSE r.where) \in {"none", "map", "closing", "gone"}
    BY DEF Flow
  <2> QED BY <2>1 DEF NotifiedK, Flow
<1>3. strm' \in [Stream -> Flow] /\ \A s \in Stream : strm'[s] = NotifiedK(S[s]) BY <1>1, <1>2
<1>4. PICK K : K = Kept(C.incoming, {s \in Stream : ~(IsClosed(S[s]) /\ S[s].readError)}) OBVIOUS
<1>5. C.incoming \in Seq(Stream) BY DEF Conn
<1>6. K \in Seq(Stream) /\ ToSet(K) \subseteq ToSet(C.incoming) BY <1>4, <1>5, KeptIs
<1>7. conn' = [C EXCEPT !.incoming = K] BY <1>4 DEF Notify
<1>8. conn' \in Conn /\ conn'.incoming = K BY <1>6, <1>7 DEF Conn
<1>9. /\ conn'.buffered = C.buffered /\ conn'.granted = C.granted /\ conn'.credit = C.credit
      /\ conn'.streamsGranted = C.streamsGranted /\ conn'.streamCredit = C.streamCredit
      /\ conn'.receiving = C.receiving
  BY <1>7 DEF Conn
<1>10. PICK reached : reached = {s \in Stream : S[s].where \in {"map", "closing"}} OBVIOUS
<1>11. reader' = Woken(reader, reached) /\ writer' = Woken(writer, reached)
  BY <1>10 DEF Notify
<1>12. ASSUME NEW task \in [Stream -> Task]
       PROVE /\ Woken(task, reached) \in [Stream -> Task]
             /\ \A s \in Stream : s \in reached => Woken(task, reached)[s] # "waiting"
             /\ \A s \in Stream : Woken(task, reached)[s] = "waiting" => task[s] = "waiting"
             /\ \A s \in Stream : task[s] = "none" => Woken(task, reached)[s] = "none"
  BY DEF Woken, Task
<1> QED BY <1>3, <1>6, <1>8, <1>9, <1>10, <1>11, <1>12

LEMMA NotifyGood ==
    ASSUME NEW S \in [Stream -> Flow], NEW C \in Conn, Notify(S, C), Types,
           \A s \in Stream : Good(strm[s], peer[s], S[s], peer'[s], handle'[s])
    PROVE AllGood
<1>1. \A s \in Stream : strm'[s] = NotifiedK(S[s]) BY NotifyParts DEF Types
<1>2. ASSUME NEW s \in Stream PROVE Good(strm[s], peer[s], strm'[s], peer'[s], handle'[s])
  <2>1. strm[s] \in Flow /\ peer[s] \in Peer BY DEF Types
  <2> QED BY <1>1, <2>1, NotifiedGood
<1> QED BY <1>2 DEF AllGood

-----------------------------------------------------------------------------
(* The counts of the connection after a step. *)

LEMMA ClosedSame ==
    ASSUME NEW S, NEW T, \A s \in Stream : IsClosed(S[s]) <=> IsClosed(T[s])
    PROVE ClosedPeers(S) = ClosedPeers(T)
BY DEF ClosedPeers

\* Steps that leave every count alone.
LEMMA CountsSame ==
    ASSUME NEW S \in [Stream -> Flow], NEW C \in Conn, ConnOK(S, C),
           NEW T \in [Stream -> Flow], NEW D \in Conn,
           \A s \in Stream : /\ T[s].buffered = S[s].buffered /\ T[s].consumed = S[s].consumed
                             /\ T[s].received = S[s].received
                             /\ IsClosed(T[s]) <=> IsClosed(S[s]),
           D.buffered = C.buffered, D.granted + D.credit = C.granted + C.credit,
           D.granted >= C.granted,
           D.streamsGranted + D.streamCredit = C.streamsGranted + C.streamCredit
    PROVE ConnOK(T, D)
<1>1. SumOf(T, "buffered") = SumOf(S, "buffered") BY SumsSame, FlowFields
<1>2. SumOf(T, "consumed") = SumOf(S, "consumed") BY SumsSame, FlowFields
<1>3. SumOf(T, "received") = SumOf(S, "received") BY SumsSame, FlowFields
<1>4. SumOf(S, "received") \in Nat
  <2>1. PICK g : g = [s \in Stream |-> S[s]["received"]] OBVIOUS
  <2>2. \A s \in Stream : g[s] \in Nat BY <2>1, FlowFields
  <2> QED BY <2>1, <2>2, Limits, SumNat DEF SumOf
<1>5. ClosedPeers(T) = ClosedPeers(S) BY ClosedSame
<1>6. C.granted \in Nat /\ D.granted \in Nat BY DEF Conn
<1> QED BY <1>1, <1>2, <1>3, <1>4, <1>5, <1>6, Limits DEF ConnOK

LEMMA NotifySums ==
    ASSUME NEW S \in [Stream -> Flow], NEW C \in Conn, Notify(S, C), ConnOK(S, C),
           reader \in [Stream -> Task], writer \in [Stream -> Task]
    PROVE SumInv'
<1>1. /\ strm' \in [Stream -> Flow] /\ \A s \in Stream : strm'[s] = NotifiedK(S[s])
      /\ conn' \in Conn
      /\ conn'.buffered = C.buffered /\ conn'.granted = C.granted /\ conn'.credit = C.credit
      /\ conn'.streamsGranted = C.streamsGranted /\ conn'.streamCredit = C.streamCredit
  BY NotifyParts
<1>2. \A r \in Flow : /\ NotifiedK(r).buffered = r.buffered /\ NotifiedK(r).consumed = r.consumed
                      /\ NotifiedK(r).received = r.received
                      /\ IsClosed(NotifiedK(r)) <=> IsClosed(r)
  BY DEF NotifiedK, Flow, IsClosed
<1>3. \A s \in Stream : /\ strm'[s].buffered = S[s].buffered /\ strm'[s].consumed = S[s].consumed
                        /\ strm'[s].received = S[s].received
                        /\ IsClosed(strm'[s]) <=> IsClosed(S[s])
  BY <1>1, <1>2
<1>4. conn'.granted \in Nat BY <1>1 DEF Conn
<1>5. ConnOK(strm', conn') BY <1>1, <1>3, <1>4, CountsSame
<1> QED BY <1>5 DEF SumInv, ConnOK, SumOf, ClosedPeers, IsClosed

\* Steps that change the counts of one stream that stays open, or closed.
LEMMA CountsOne ==
    ASSUME NEW S \in [Stream -> Flow], NEW C \in Conn, ConnOK(S, C), NEW a \in Stream,
           NEW T \in [Stream -> Flow], NEW D \in Conn, \A s \in Stream \ {a} : T[s] = S[s],
           IsClosed(T[a]) <=> IsClosed(S[a]),
           D.buffered = C.buffered + (T[a].buffered - S[a].buffered),
           D.granted + D.credit = C.granted + C.credit + (T[a].consumed - S[a].consumed),
           T[a].received = S[a].received, D.granted = C.granted,
           D.streamsGranted + D.streamCredit = C.streamsGranted + C.streamCredit
    PROVE ConnOK(T, D)
<1>1. SumOf(T, "buffered") = SumOf(S, "buffered") + (T[a].buffered - S[a].buffered)
  BY SumsOne, FlowFields DEF Counted
<1>2. SumOf(T, "consumed") = SumOf(S, "consumed") + (T[a].consumed - S[a].consumed)
  BY SumsOne, FlowFields DEF Counted
<1>3. SumOf(S, "received") \in Nat /\ T[a].received - S[a].received = 0
      /\ SumOf(T, "received") = SumOf(S, "received") + (T[a].received - S[a].received)
  BY SumsOne, FlowFields DEF Counted
<1>4. ClosedPeers(T) = ClosedPeers(S) BY ClosedSame
<1> QED BY <1>1, <1>2, <1>3, <1>4 DEF ConnOK

\* An open stream closes: its buffer and, of the peer's, its stream credit are given back.
LEMMA CountsClosed ==
    ASSUME NEW S \in [Stream -> Flow], NEW C \in Conn, ConnOK(S, C), NEW a \in Stream,
           ~IsClosed(S[a]), NEW rx \in BOOLEAN, NEW tx \in BOOLEAN,
           S[a].buffered = strm[a].buffered, Unread(S[a]) = Unread(strm[a]),
           StreamClosed(C, a, rx) \in Conn,
           NEW T \in [Stream -> Flow], T = [S EXCEPT ![a] = ClosedStream(@, rx, tx)]
    PROVE ConnOK(T, StreamClosed(C, a, rx))
<1>1. PICK r : r = S[a] /\ r \in Flow OBVIOUS
<1>2. PICK l : l = ClosedStream(r, rx, tx) OBVIOUS
<1>3. /\ l \in Flow /\ l.buffered = 0 /\ l.where = "closing"
      /\ l.consumed = (IF rx THEN r.received ELSE r.consumed) /\ l.received = r.received
  BY <1>1, <1>2, CloseIs
<1>4. T[a] = l /\ \A s \in Stream \ {a} : T[s] = S[s] BY <1>1, <1>2
<1>5. r.received \in Nat /\ r.consumed \in Nat /\ r.buffered \in Nat BY <1>1, Limits DEF Flow
<1>6. PICK one : one = (IF a \in Local THEN 0 ELSE 1) OBVIOUS
<1>7. PICK D : D = StreamClosed(C, a, rx) OBVIOUS
<1>8. /\ D \in Conn /\ D.granted = C.granted /\ D.streamsGranted = C.streamsGranted
      /\ D.buffered = C.buffered - r.buffered
      /\ D.streamCredit = C.streamCredit + one
      /\ D.credit = C.credit + (l.consumed - r.consumed)
  <2>1. CASE rx
    <3>1. D = [[C EXCEPT !.credit = @ + Unread(strm[a])] EXCEPT
                   !.buffered = @ - r.buffered, !.streamCredit = @ + one]
      BY <1>1, <1>6, <1>7, <2>1 DEF StreamClosed, Credited
    <3>2. Unread(strm[a]) = l.consumed - r.consumed BY <1>1, <1>3, <2>1 DEF Unread
    <3>3. PICK x : x = Unread(strm[a]) OBVIOUS
    <3>4. PICK E : E = [C EXCEPT !.credit = @ + x] OBVIOUS
    <3>5. /\ E.credit = C.credit + x /\ E.granted = C.granted /\ E.buffered = C.buffered
          /\ E.streamsGranted = C.streamsGranted /\ E.streamCredit = C.streamCredit
          /\ DOMAIN E = DOMAIN C
      BY <3>4 DEF Conn
    <3>6. D = [E EXCEPT !.buffered = @ - r.buffered, !.streamCredit = @ + one]
      BY <3>1, <3>3, <3>4
    <3>7. /\ D.credit = E.credit /\ D.granted = E.granted
          /\ D.buffered = E.buffered - r.buffered
          /\ D.streamsGranted = E.streamsGranted /\ D.streamCredit = E.streamCredit + one
      BY <3>5, <3>6 DEF Conn
    <3>8. D \in Conn BY <1>7
    <3> QED BY <3>2, <3>3, <3>5, <3>7, <3>8
  <2>2. CASE ~rx
    <3>1. D = [C EXCEPT !.buffered = @ - r.buffered, !.streamCredit = @ + one]
      BY <1>1, <1>6, <1>7, <2>2 DEF StreamClosed
    <3>2. l.consumed - r.consumed = 0 BY <1>3, <1>5, <2>2
    <3>3. C.credit \in Nat BY DEF Conn
    <3> QED BY <1>7, <3>1, <3>2, <3>3 DEF Conn
  <2> QED BY <2>1, <2>2
<1>9. SumOf(S, "buffered") \in Nat /\ SumOf(T, "buffered") = SumOf(S, "buffered") + (0 - r.buffered)
  BY <1>1, <1>3, <1>4, SumsOne, FlowFields DEF Counted
<1>10. SumOf(S, "consumed") \in Nat
       /\ SumOf(T, "consumed") = SumOf(S, "consumed") + (l.consumed - r.consumed)
  BY <1>1, <1>4, SumsOne, FlowFields DEF Counted
<1>11. SumOf(T, "received") = SumOf(S, "received")
  <2>1. SumOf(S, "received") \in Nat
        /\ SumOf(T, "received") = SumOf(S, "received") + (l.received - r.received)
    BY <1>1, <1>4, SumsOne, FlowFields DEF Counted
  <2> QED BY <1>3, <1>5, <2>1
<1>12. Cardinality(ClosedPeers(T)) = Cardinality(ClosedPeers(S)) + one
       /\ Cardinality(ClosedPeers(S)) \in Nat
  <2>1. ClosedPeers(S) \subseteq Stream /\ IsFiniteSet(ClosedPeers(S))
    BY Limits, FS_Subset DEF ClosedPeers
  <2>2. Cardinality(ClosedPeers(S)) \in Nat BY <2>1, FS_CardinalityType
  <2>3. IsClosed(T[a]) BY <1>3, <1>4 DEF IsClosed
  <2>4. CASE a \in Local
    <3>1. ClosedPeers(T) = ClosedPeers(S) BY <1>4, <2>4 DEF ClosedPeers
    <3> QED BY <1>6, <2>2, <2>4, <3>1
  <2>5. CASE a \notin Local
    <3>1. ClosedPeers(T) = ClosedPeers(S) \cup {a} /\ a \notin ClosedPeers(S)
      BY <1>4, <2>3, <2>5 DEF ClosedPeers
    <3>2. Cardinality(ClosedPeers(S) \cup {a}) = Cardinality(ClosedPeers(S)) + 1
      BY <2>1, <3>1, FS_AddElement
    <3> QED BY <1>6, <2>2, <2>5, <3>1, <3>2
  <2> QED BY <2>4, <2>5
<1>13. /\ C.buffered \in Nat /\ C.credit \in Nat /\ C.granted \in Nat
       /\ C.streamsGranted \in Nat /\ C.streamCredit \in Nat
  BY Limits DEF Conn
<1>14. one \in Nat /\ l.consumed \in Nat BY <1>3, <1>5, <1>6
<1>15. /\ C.buffered = SumOf(S, "buffered") /\ C.granted + C.credit = SumOf(S, "consumed")
       /\ SumOf(S, "received") <= ConnWindow + C.granted
       /\ C.streamsGranted + C.streamCredit = Cardinality(ClosedPeers(S))
  BY DEF ConnOK
<1>16. D.buffered = SumOf(T, "buffered") BY <1>5, <1>8, <1>9, <1>13, <1>15
<1>17. D.granted + D.credit = SumOf(T, "consumed") BY <1>5, <1>8, <1>10, <1>13, <1>14, <1>15
<1>18. D.streamsGranted + D.streamCredit = Cardinality(ClosedPeers(T))
  BY <1>8, <1>12, <1>13, <1>14, <1>15
<1>19. SumOf(T, "received") <= ConnWindow + D.granted BY <1>8, <1>11, <1>15
<1> QED BY <1>7, <1>16, <1>17, <1>18, <1>19 DEF ConnOK

\* What closing a stream leaves of the connection is a connection.
LEMMA StreamClosedType ==
    ASSUME NEW C \in Conn, NEW a \in Stream, NEW rx \in BOOLEAN, NEW r \in Flow, r = strm[a],
           r.consumed <= r.received, r.buffered <= C.buffered
    PROVE /\ StreamClosed(C, a, rx) \in Conn
          /\ StreamClosed(C, a, rx).receiving = C.receiving
          /\ StreamClosed(C, a, rx).incoming = C.incoming
<1>1. PICK one \in Nat : one = (IF a \in Local THEN 0 ELSE 1) OBVIOUS
<1>2. r.received \in Nat /\ r.consumed \in Nat /\ r.buffered \in Nat BY Limits DEF Flow
<1>3. C.buffered \in 0 .. ConnSendLimit /\ C.credit \in Nat /\ C.streamCredit \in Nat BY DEF Conn
<1>4. /\ C.buffered - r.buffered \in 0 .. ConnSendLimit /\ C.streamCredit + one \in Nat
      /\ C.credit + (r.received - r.consumed) \in Nat
  BY <1>1, <1>2, <1>3, Limits
<1>5. PICK B : B = (IF rx THEN Credited(C, r) ELSE C) OBVIOUS
<1>6. B \in Conn /\ B.buffered = C.buffered /\ B.streamCredit = C.streamCredit
      /\ B.receiving = C.receiving /\ B.incoming = C.incoming
  BY <1>4, <1>5 DEF Credited, Conn, Unread
<1>7. StreamClosed(C, a, rx) = [B EXCEPT !.buffered = @ - r.buffered, !.streamCredit = @ + one]
  BY <1>1, <1>5 DEF StreamClosed
<1>8. PICK x, y : x = C.buffered - r.buffered /\ y = C.streamCredit + one OBVIOUS
<1>9. StreamClosed(C, a, rx) = [B EXCEPT !.buffered = x, !.streamCredit = y] BY <1>6, <1>7, <1>8
<1> QED BY <1>4, <1>6, <1>8, <1>9 DEF Conn

-----------------------------------------------------------------------------
(* The waiters after a step. *)

LEMMA TaskKept ==
    ASSUME TaskInv,
           \A s \in Stream : strm'[s].where = "none" =>
               /\ strm[s].where = "none"
               /\ handle[s] = "none" => handle'[s] = "none"
               /\ reader[s] = "none" => reader'[s] = "none"
               /\ writer[s] = "none" => writer'[s] = "none"
               /\ s \in ToSet(conn'.incoming) => s \in ToSet(conn.incoming)
    PROVE TaskInv'
<1>1. ASSUME NEW s \in Stream, strm'[s].where = "none"
      PROVE /\ handle'[s] = "none" /\ reader'[s] = "none" /\ writer'[s] = "none"
            /\ s \notin ToSet(conn'.incoming)
  BY <1>1 DEF TaskInv
<1> QED BY <1>1 DEF TaskInv, ToSet

\* What a reader and a writer that waits for `op` look at.
NothingToRead(r) == ~r.readError /\ Unread(r) = 0 /\ ~r.readFin
NothingToDo(r, op, room) ==
    CASE op = "write" -> CanWrite(r) /\ room = 0
      [] op = "flush" -> ~r.writeError /\ r.sent < r.accepted
      [] OTHER -> ~r.writeError /\ ~r.finSent
Due == phase # "idle" \/ conn.receiving
ReaderOK(s) ==
    reader[s] = "waiting" => \/ NothingToRead(strm[s])
                             \/ Due /\ strm[s].where \in {"map", "closing"}
WriterOK(s) ==
    writer[s] = "waiting" => \/ NothingToDo(strm[s], want[s], Room(s))
                             \/ Due /\ strm[s].where \in {"map", "closing"}
                             \/ strm[s].where = "gone" /\ want[s] # "write"

LEMMA WaitersAre == WaitersBlocked <=> \A s \in Stream : ReaderOK(s) /\ WriterOK(s)
<1>1. \A s \in Stream : ReadBlocked(s) <=> NothingToRead(strm[s])
  BY DEF ReadBlocked, NothingToRead
<1>2. \A s \in Stream : WriteBlocked(s) = NothingToDo(strm[s], want[s], Room(s))
  BY DEF WriteBlocked, NothingToDo
<1> QED BY <1>1, <1>2 DEF WaitersBlocked, ReaderOK, WriterOK, Due

LEMMA WaitersArePrimed ==
    (\A s \in Stream : ReaderOK(s) /\ WriterOK(s))' => WaitersBlocked'
<1>1. (\A s \in Stream : ReaderOK(s) /\ WriterOK(s)) => WaitersBlocked BY WaitersAre
<1> QED BY <1>1, PTL

\* Of a stream that is gone nobody waits to write, and its reader waits for nothing else.
LEMMA GoneWaiters ==
    ASSUME WaitersBlocked, NEW s \in Stream, strm[s].where = "gone"
    PROVE /\ reader[s] = "waiting" => NothingToRead(strm[s])
          /\ writer[s] = "waiting" => want[s] # "write"
<1>1. ReaderOK(s) /\ WriterOK(s) BY WaitersAre
<1>2. ~CanWrite(strm[s]) BY DEF CanWrite, IsClosed
<1>3. want[s] = "write" => ~NothingToDo(strm[s], want[s], Room(s)) BY <1>2 DEF NothingToDo
<1> QED BY <1>1, <1>3 DEF ReaderOK, WriterOK

SameRead(r, l) ==
    l.received = r.received /\ l.consumed = r.consumed /\ l.readError = r.readError /\ l.readFin = r.readFin

\* While a turn of the sender or the receiver lasts, only who waits on a stream that is
\* gone needs a look.
LEMMA DueWaiters ==
    ASSUME Types, TaskInv, WaitersBlocked, strm' \in [Stream -> Flow],
           phase' # "idle" \/ conn'.receiving, UNCHANGED <<reader, writer, want>>,
           \A s \in Stream : /\ strm[s].where = "gone" => strm'[s].where = "gone" /\ SameRead(strm[s], strm'[s])
                             /\ strm[s].where \in {"map", "closing"} => strm'[s].where \in {"map", "closing"}
    PROVE WaitersBlocked'
<1>1. ASSUME NEW s \in Stream PROVE ReaderOK(s)' /\ WriterOK(s)'
  <2>1. strm[s].where \in {"none", "map", "closing", "gone"} BY DEF Types, Flow
  <2>2. CASE strm[s].where = "none" BY <2>2 DEF TaskInv, ReaderOK, WriterOK
  <2>3. CASE strm[s].where = "gone"
    <3>1. reader[s] = "waiting" => NothingToRead(strm'[s])
      BY <2>3, GoneWaiters DEF NothingToRead, Unread, SameRead
    <3> QED BY <2>3, <3>1, GoneWaiters DEF ReaderOK, WriterOK, NothingToRead, Unread
  <2>4. CASE strm[s].where \in {"map", "closing"}
    BY <2>4 DEF ReaderOK, WriterOK, Due
  <2> QED BY <2>1, <2>2, <2>3, <2>4
<1> QED BY <1>1, WaitersArePrimed

\* A notify leaves nobody waiting but on the streams that are gone.
LEMMA NotifyWaiters ==
    ASSUME Types, TaskInv, WaitersBlocked,
           NEW S \in [Stream -> Flow], NEW C \in Conn, Notify(S, C), UNCHANGED want,
           \A s \in Stream : S[s].where = strm[s].where
                             /\ (strm[s].where = "gone" => SameRead(strm[s], S[s]))
    PROVE WaitersBlocked'
<1>1. reader \in [Stream -> Task] /\ writer \in [Stream -> Task] BY DEF Types
<1>2. ASSUME NEW s \in Stream PROVE ReaderOK(s)' /\ WriterOK(s)'
  <2>1. /\ S[s].where \in {"map", "closing"} => reader'[s] # "waiting" /\ writer'[s] # "waiting"
        /\ reader'[s] = "waiting" => reader[s] = "waiting"
        /\ writer'[s] = "waiting" => writer[s] = "waiting"
        /\ strm'[s] = NotifiedK(S[s])
    BY <1>1, NotifyParts
  <2>2. S[s].where \in {"none", "map", "closing", "gone"} BY DEF Flow
  <2>3. CASE strm[s].where = "none" BY <2>1, <2>3 DEF TaskInv, ReaderOK, WriterOK
  <2>4. CASE strm[s].where = "gone"
    <3>1. strm'[s].where = "gone" /\ SameRead(strm[s], strm'[s])
      BY <2>1, <2>4 DEF NotifiedK, SameRead, Flow
    <3>2. reader'[s] = "waiting" => NothingToRead(strm'[s])
      BY <2>1, <2>4, <3>1, GoneWaiters DEF NothingToRead, Unread, SameRead
    <3> QED BY <2>1, <2>4, <3>1, <3>2, GoneWaiters DEF ReaderOK, WriterOK, NothingToRead, Unread
  <2>5. CASE strm[s].where \in {"map", "closing"} BY <2>1, <2>5 DEF ReaderOK, WriterOK
  <2> QED BY <2>2, <2>3, <2>4, <2>5
<1> QED BY <1>2, WaitersArePrimed

SameWrite(r, l) ==
    /\ l.buffered = r.buffered /\ l.accepted = r.accepted /\ l.sent = r.sent
    /\ l.writeError = r.writeError /\ l.writeFin = r.writeFin /\ l.finSent = r.finSent
    /\ l.where = r.where

LEMMA NoRoom ==
    ASSUME NEW s \in Stream, Types, strm' \in [Stream -> Flow], conn' \in Conn,
           strm'[s].buffered = strm[s].buffered, conn'.buffered >= conn.buffered, Room(s) = 0
    PROVE Room(s)' = 0
<1>1. PICK x, y, z : x = SendLimit - strm[s].buffered /\ y = ConnSendLimit - conn.buffered
                     /\ z = ConnSendLimit - conn'.buffered
  OBVIOUS
<1>2. strm[s].buffered \in 0 .. SendLimit /\ conn.buffered \in 0 .. ConnSendLimit
      /\ conn'.buffered \in 0 .. ConnSendLimit
  BY DEF Types, Flow, Conn
<1>3. x \in Nat /\ y \in Nat /\ z \in Nat /\ z <= y BY <1>1, <1>2, Limits
<1>4. Room(s) = SmallerOf(x, y) /\ Room(s)' = SmallerOf(x, z) BY <1>1 DEF Room
<1> QED BY <1>3, <1>4 DEF SmallerOf

LEMMA SameToDo ==
    ASSUME NEW r, NEW l, SameWrite(r, l), NEW op, NEW x, NEW y, x = 0 => y = 0,
           NothingToDo(r, op, x)
    PROVE NothingToDo(l, op, y)
<1>1. CanWrite(l) = CanWrite(r) BY DEF CanWrite, IsClosed, SameWrite
<1>2. CASE op = "write" BY <1>1, <1>2 DEF NothingToDo
<1>3. CASE op = "flush" BY <1>3 DEF NothingToDo, SameWrite
<1>4. CASE op # "write" /\ op # "flush" BY <1>4 DEF NothingToDo, SameWrite
<1> QED BY <1>2, <1>3, <1>4

\* Between the turns the program works on one stream; room in the shared buffer only shrinks.
LEMMA QuietWaiters ==
    ASSUME Types, WaitersBlocked, strm' \in [Stream -> Flow], conn' \in Conn,
           UNCHANGED phase, conn'.receiving = conn.receiving, conn'.buffered >= conn.buffered,
           NEW a \in Stream,
           \A s \in Stream \ {a} : strm'[s] = strm[s] /\ reader'[s] = reader[s]
                                   /\ writer'[s] = writer[s] /\ want'[s] = want[s],
           reader'[a] = "waiting" =>
               \/ NothingToRead(strm'[a])
               \/ /\ reader[a] = "waiting" /\ strm'[a].where = strm[a].where
                  /\ NothingToRead(strm[a]) => NothingToRead(strm'[a]),
           writer'[a] = "waiting" =>
               \/ NothingToDo(strm'[a], want'[a], Room(a)')
               \/ writer[a] = "waiting" /\ want'[a] = want[a] /\ SameWrite(strm[a], strm'[a])
    PROVE WaitersBlocked'
<1>1. \A s \in Stream : ReaderOK(s) /\ WriterOK(s) BY WaitersAre
<1>2. Due' = Due BY DEF Due
<1>3. ASSUME NEW s \in Stream, SameWrite(strm[s], strm'[s]), writer[s] = "waiting", want'[s] = want[s]
      PROVE WriterOK(s)'
  <2>1. Room(s) = 0 => Room(s)' = 0 BY <1>3, NoRoom DEF SameWrite
  <2>2. NothingToDo(strm[s], want[s], Room(s)) => NothingToDo(strm'[s], want[s], Room(s)')
    BY <1>3, <2>1, SameToDo
  <2>3. strm'[s].where = strm[s].where BY <1>3 DEF SameWrite
  <2>4. \/ NothingToDo(strm[s], want[s], Room(s))
        \/ Due /\ strm[s].where \in {"map", "closing"}
        \/ strm[s].where = "gone" /\ want[s] # "write"
    BY <1>1, <1>3 DEF WriterOK
  <2>5. \/ NothingToDo(strm'[s], want'[s], Room(s)')
        \/ Due' /\ strm'[s].where \in {"map", "closing"}
        \/ strm'[s].where = "gone" /\ want'[s] # "write"
    BY <1>2, <1>3, <2>2, <2>3, <2>4
  <2> QED BY <2>5 DEF WriterOK
<1>4. ASSUME NEW s \in Stream \ {a} PROVE ReaderOK(s)' /\ WriterOK(s)'
  <2>1. strm'[s] = strm[s] /\ reader'[s] = reader[s] /\ writer'[s] = writer[s] /\ want'[s] = want[s]
    BY <1>4
  <2>2. ReaderOK(s)'
    <3>1. reader[s] = "waiting" => \/ NothingToRead(strm[s])
                                   \/ Due /\ strm[s].where \in {"map", "closing"}
      BY <1>1 DEF ReaderOK
    <3> QED BY <1>2, <2>1, <3>1 DEF ReaderOK, NothingToRead, Unread
  <2>3. SameWrite(strm[s], strm'[s]) BY <2>1 DEF SameWrite
  <2>4. CASE writer[s] = "waiting" BY <1>3, <2>1, <2>2, <2>3, <2>4
  <2>5. CASE writer[s] # "waiting" BY <2>1, <2>2, <2>5 DEF WriterOK
  <2> QED BY <2>4, <2>5
<1>5. ReaderOK(a)'
  <2>1. CASE reader'[a] = "waiting" /\ ~NothingToRead(strm'[a])
    <3>1. reader[a] = "waiting" /\ strm'[a].where = strm[a].where /\ ~NothingToRead(strm[a])
      BY <2>1
    <3>2. Due /\ strm[a].where \in {"map", "closing"} BY <1>1, <3>1 DEF ReaderOK
    <3> QED BY <1>2, <3>1, <3>2 DEF ReaderOK
  <2>2. CASE reader'[a] # "waiting" BY <2>2 DEF ReaderOK
  <2>3. CASE NothingToRead(strm'[a]) BY <2>3 DEF ReaderOK, NothingToRead, Unread
  <2> QED BY <2>1, <2>2, <2>3
<1>6. WriterOK(a)'
  <2>1. CASE writer'[a] # "waiting" BY <2>1 DEF WriterOK
  <2>2. CASE writer'[a] = "waiting" /\ NothingToDo(strm'[a], want'[a], Room(a)')
    <3>1. NothingToDo(strm[a], want[a], Room(a))' BY <2>2 DEF NothingToDo, CanWrite, IsClosed
    <3> QED BY <3>1 DEF WriterOK
  <2>3. CASE writer[a] = "waiting" /\ want'[a] = want[a] /\ SameWrite(strm[a], strm'[a])
    BY <1>3, <2>3
  <2> QED BY <2>1, <2>2, <2>3
<1> QED BY <1>4, <1>5, <1>6, WaitersArePrimed

-----------------------------------------------------------------------------
(* send(): what is on the wire. *)

Udp == [segmentation : BOOLEAN, whole : BOOLEAN, count : Nat, completed : Nat, wire : Seq(Nat)]

LEMMA UdpSame == ASSUME UdpInv, UNCHANGED udp PROVE UdpInv'
BY DEF UdpInv, SentOnce

LEMMA WireIs ==
    ASSUME UdpInv
    PROVE /\ udp \in Udp /\ udp.completed \in Nat /\ udp.count \in Nat /\ udp.completed <= udp.count
          /\ udp.whole => udp.completed = 0
          /\ udp.wire = [i \in 1 .. udp.completed |-> i] /\ Len(udp.wire) = udp.completed
<1>1. udp \in Udp BY DEF UdpInv, Udp
<1>2. udp.completed \in Nat /\ udp.count \in Nat BY <1>1 DEF Udp
<1>3. udp.wire = [i \in 1 .. udp.completed |-> i] /\ udp.completed <= udp.count
  BY DEF UdpInv, SentOnce
<1>4. Len(udp.wire) = udp.completed BY <1>2, <1>3
<1> QED BY <1>1, <1>2, <1>3, <1>4 DEF UdpInv

LEMMA Counted1 == ASSUME NEW n \in Nat PROVE [i \in 1 .. n |-> i] \in Seq(Nat)
OBVIOUS

\* What was sent, extended by the next m.
LEMMA WireGrows ==
    ASSUME NEW w, NEW n \in Nat, w = [i \in 1 .. n |-> i], NEW m \in Nat
    PROVE w \o [i \in 1 .. m |-> n + i] = [i \in 1 .. n + m |-> i]
<1>1. PICK v : v = [i \in 1 .. m |-> n + i] OBVIOUS
<1>2. w \in Seq(Nat) /\ v \in Seq(Nat) /\ Len(w) = n /\ Len(v) = m BY <1>1
<1>3. PICK c : c = w \o v OBVIOUS
<1>4. c \in Seq(Nat) /\ Len(c) = n + m
  <2>1. c \in Seq(Nat) /\ Len(c) = Len(w) + Len(v) BY <1>2, <1>3, ConcatProperties
  <2> QED BY <1>2, <2>1
<1>5. ASSUME NEW i \in 1 .. n + m PROVE c[i] = i
  <2>1. CASE i <= n
    <3>1. c[i] = w[i] BY <1>2, <1>3, <2>1
    <3> QED BY <2>1, <3>1
  <2>2. CASE i > n
    <3>1. c[i] = v[i - n] BY <1>2, <1>3, <2>2
    <3>2. i - n \in 1 .. m BY <2>2
    <3>3. v[i - n] = n + (i - n) BY <1>1, <3>2
    <3> QED BY <3>1, <3>3
  <2> QED BY <2>1, <2>2
<1>6. DOMAIN c = 1 .. n + m BY <1>4
<1>7. c = [i \in DOMAIN c |-> c[i]] BY <1>4
<1> QED BY <1>1, <1>3, <1>5, <1>6, <1>7

\* What a step of send() leaves.
LEMMA UdpStep ==
    ASSUME NEW k, NEW b \in BOOLEAN, NEW w \in BOOLEAN, NEW c \in Nat, NEW n \in Nat, NEW v,
           v = [i \in 1 .. n |-> i], n <= c, w => n = 0,
           k = [segmentation |-> b, whole |-> w, count |-> c, completed |-> n, wire |-> v],
           udp' = k
    PROVE UdpInv' /\ udp'.completed = n /\ udp'.count = c
<1>1. v \in Seq(Nat) BY Counted1
<1>2. k \in Udp BY <1>1 DEF Udp
<1>3. k.completed = n /\ k.count = c /\ k.wire = v /\ k.whole = w OBVIOUS
<1> QED BY <1>2, <1>3 DEF UdpInv, SentOnce, Udp

LEMMA UdpFields ==
    ASSUME NEW u \in Udp
    PROVE u = [segmentation |-> u.segmentation, whole |-> u.whole, count |-> u.count,
               completed |-> u.completed, wire |-> u.wire]
BY DEF Udp

LEMMA UdpBegin ==
    ASSUME UdpInv, NEW c \in Nat, Begin(c)
    PROVE UdpInv' /\ udp'.completed = 0 /\ udp'.count = c
<1>1. udp \in Udp BY WireIs
<1>2. PICK b \in BOOLEAN : b = udp.segmentation BY <1>1 DEF Udp
<1>3. PICK w \in BOOLEAN : w = (c > 1 /\ udp.segmentation) BY <1>2
<1>4. PICK v : v = << >> OBVIOUS
<1>5. v = [i \in 1 .. 0 |-> i] BY <1>4
<1>6. udp' = [segmentation |-> b, whole |-> w, count |-> c, completed |-> 0, wire |-> v]
  <2>1. udp' = [udp EXCEPT !.count = c, !.completed = 0, !.wire = v, !.whole = w]
    BY <1>3, <1>4 DEF Begin
  <2> QED BY <1>1, <1>2, <2>1 DEF Udp
<1>7. 0 \in Nat /\ 0 <= c OBVIOUS
<1> QED BY <1>5, <1>6, <1>7, UdpStep

LEMMA UdpWhole ==
    ASSUME UdpInv, SendWhole
    PROVE UdpInv' /\ udp.completed = 0 /\ udp'.completed = udp.count /\ udp'.count = udp.count
<1>1. /\ udp \in Udp /\ udp.completed = 0 /\ udp.count \in Nat
      /\ udp.wire = [i \in 1 .. 0 |-> i]
  BY WireIs DEF SendWhole
<1>2. PICK c \in Nat : c = udp.count BY <1>1
<1>3. PICK u : u = udp.wire OBVIOUS
<1>4. PICK v : v = u \o [i \in 1 .. c |-> 0 + i] OBVIOUS
<1>5. v = [i \in 1 .. c |-> i]
  <2>1. u \o [i \in 1 .. c |-> 0 + i] = [i \in 1 .. 0 + c |-> i] BY <1>1, <1>3, WireGrows
  <2> QED BY <1>4, <2>1
<1>6. [i \in 1 .. c |-> 0 + i] = [i \in 1 .. c |-> i] OBVIOUS
<1>7. PICK b \in BOOLEAN : b = udp.segmentation BY <1>1 DEF Udp
<1>8. udp' = [segmentation |-> b, whole |-> FALSE, count |-> c, completed |-> c, wire |-> v]
  <2>1. udp.completed + udp.count = c BY <1>1, <1>2
  <2>2. udp' = [udp EXCEPT !.whole = FALSE, !.completed = c, !.wire = v]
    BY <1>1, <1>2, <1>3, <1>4, <1>6, <2>1 DEF SendWhole, Udp
  <2> QED BY <1>1, <1>2, <1>7, <2>2 DEF Udp
<1>9. c <= c /\ FALSE \in BOOLEAN OBVIOUS
<1>10. UdpInv' /\ udp'.completed = c /\ udp'.count = c BY <1>5, <1>8, <1>9, UdpStep
<1> QED BY <1>1, <1>2, <1>10

LEMMA UdpRefused ==
    ASSUME UdpInv, RefuseWhole
    PROVE UdpInv' /\ udp'.completed = udp.completed /\ udp'.count = udp.count
<1>1. /\ udp \in Udp /\ udp.completed \in Nat /\ udp.count \in Nat /\ udp.completed <= udp.count
      /\ udp.wire = [i \in 1 .. udp.completed |-> i]
  BY WireIs
<1>2. PICK c \in Nat, n \in Nat : c = udp.count /\ n = udp.completed
  BY <1>1
<1>20. PICK v : v = udp.wire
  OBVIOUS
<1>3. udp' = [segmentation |-> FALSE, whole |-> FALSE, count |-> c, completed |-> n, wire |-> v]
  BY <1>1, <1>2, <1>20 DEF RefuseWhole, Udp
<1>4. n <= c /\ v = [i \in 1 .. n |-> i] BY <1>1, <1>2, <1>20
<1>5. UdpInv' /\ udp'.completed = n /\ udp'.count = c BY <1>3, <1>4, UdpStep
<1> QED BY <1>2, <1>20, <1>5

LEMMA UdpSome ==
    ASSUME UdpInv, NEW m \in Nat, SendSome(m)
    PROVE /\ UdpInv' /\ udp'.completed = udp.completed + m /\ udp'.count = udp.count
          /\ udp.completed + m <= udp.count
<1>1. /\ udp \in Udp /\ udp.completed \in Nat /\ udp.count \in Nat /\ udp.completed <= udp.count
      /\ udp.wire = [i \in 1 .. udp.completed |-> i]
  BY WireIs
<1>2. PICK c \in Nat, n \in Nat : c = udp.count /\ n = udp.completed
  BY <1>1
<1>20. PICK u : u = udp.wire
  OBVIOUS
<1>3. n + m \in Nat /\ n + m <= c BY <1>2, <1>20 DEF SendSome
<1>4. PICK v : v = u \o [i \in 1 .. m |-> n + i] OBVIOUS
<1>5. v = [i \in 1 .. n + m |-> i] BY <1>1, <1>2, <1>20, <1>4, WireGrows
<1>6. PICK b \in BOOLEAN : b = udp.segmentation BY <1>1 DEF Udp
<1>7. udp.whole = FALSE BY <1>1 DEF SendSome, Udp
<1>8. PICK x : x = n + m OBVIOUS
<1>9. udp' = [segmentation |-> b, whole |-> FALSE, count |-> c, completed |-> x, wire |-> v]
  <2>1. udp' = [udp EXCEPT !.completed = x, !.wire = v]
    BY <1>1, <1>2, <1>20, <1>4, <1>8 DEF SendSome, Udp
  <2> QED BY <1>1, <1>2, <1>20, <1>6, <1>7, <2>1 DEF Udp
<1>10. UdpInv' /\ udp'.completed = x /\ udp'.count = c BY <1>3, <1>5, <1>8, <1>9, UdpStep
<1> QED BY <1>2, <1>20, <1>3, <1>8, <1>10

-----------------------------------------------------------------------------
(* What the datagrams of a batch carry. *)

\* The last of these datagrams that is about s says where its data ends.
LEMMA DataEndIs ==
    ASSUME Types, NEW which, which \subseteq DOMAIN batch, NEW s \in Stream, NEW before \in Nat,
           NEW e, e = DataEnd(which, s, before)
    PROVE /\ e \in Nat
          /\ (\A i \in which : batch[i].stream # s) => e = before
          /\ (\E i \in which : batch[i].stream = s) =>
                 \E m \in which : /\ batch[m].stream = s /\ e = batch[m].offset
                                  /\ \A j \in which : batch[j].stream = s => j <= m
<1>1. PICK mine : mine = Carried(which, s) OBVIOUS
<1>2. \A i : i \in mine <=> i \in which /\ batch[i].stream = s BY <1>1 DEF Carried
<1>3. CASE mine = {}
  <2>1. e = before BY <1>1, <1>3 DEF DataEnd
  <2> QED BY <1>2, <1>3, <2>1
<1>4. CASE mine # {}
  <2>1. PICK n \in Nat : n = Len(batch) /\ DOMAIN batch = 1 .. n BY ReceiptParts
  <2>2. mine \subseteq 1 .. n BY <1>2, <2>1
  <2>3. \E m \in mine : \A j \in mine : j <= m BY <1>4, <2>2, Greatest
  <2>4. PICK m : m = CHOOSE i \in mine : \A j \in mine : j <= i OBVIOUS
  <2>5. m \in mine /\ \A j \in mine : j <= m BY <2>3, <2>4
  <2>6. e = batch[m].offset BY <1>1, <1>4, <2>4 DEF DataEnd
  <2>7. batch[m].offset \in Nat BY <1>2, <2>5, ReceiptParts
  <2> QED BY <1>2, <1>4, <2>5, <2>6, <2>7
<1> QED BY <1>3, <1>4

\* What BatchInv says of one datagram and of two.
LEMMA BatchFacts ==
    ASSUME Types, BatchInv, NEW i \in DOMAIN batch, NEW s \in Stream, batch[i].stream = s
    PROVE /\ i \in Nat \ {0} /\ i <= Len(batch) /\ batch[i].offset \in Nat /\ batch[i].fin \in BOOLEAN
          /\ batch[i].offset <= strm[s].submitted
          /\ batch[i].fin => strm[s].writeFin /\ batch[i].offset = strm[s].accepted
          /\ i <= Out => batch[i].offset <= peer[s].wire /\ (batch[i].fin => peer[s].finWire)
          /\ i > Out => peer[s].wire <= batch[i].offset
          /\ \A j \in DOMAIN batch : (i < j /\ batch[j].stream = s) => batch[i].offset <= batch[j].offset
<1>1. /\ batch[i].offset \in Nat /\ batch[i].fin \in BOOLEAN
      /\ Len(batch) \in Nat /\ DOMAIN batch = 1 .. Len(batch)
  BY ReceiptParts
<1> QED BY <1>1 DEF BatchInv

\* The step that puts the next n datagrams on the wire.
LEMMA Transmit ==
    ASSUME Types, StreamsInv, BatchInv, UdpInv, phase = "sending",
           UNCHANGED <<strm, batch, phase, handle>>, NEW n \in Nat, Transmitted(n),
           udp'.completed = udp.completed + n, udp'.count = udp.count, udp.completed + n <= udp.count
    PROVE peer' \in [Stream -> Peer] /\ StreamsInv' /\ BatchInv'
<1>1. PICK o \in Nat, c \in Nat : o = udp.completed /\ c = udp.count BY WireIs
<1>2. Len(udp.wire) = o BY <1>1, WireIs
<1>3. PICK taken : taken = o + 1 .. o + n OBVIOUS
<1>4. /\ Out = o /\ Out' = o + n /\ c = Len(batch) /\ o + n <= c
      /\ DOMAIN batch = 1 .. c
  BY <1>1, ReceiptParts DEF Out, BatchInv
<1>5. taken \subseteq DOMAIN batch /\ \A i \in taken : i > o BY <1>3, <1>4
<1>6. peer' = [s \in Stream |->
          [peer[s] EXCEPT !.wire = DataEnd(taken, s, @), !.finWire = @ \/ CarriesFin(taken, s)]]
  BY <1>2, <1>3 DEF Transmitted
<1>7. ASSUME NEW s \in Stream
      PROVE /\ peer'[s] \in Peer /\ peer'[s].granted = peer[s].granted
            /\ peer'[s].wire = DataEnd(taken, s, peer[s].wire)
            /\ peer'[s].finWire <=> peer[s].finWire \/ \E i \in taken : batch[i].stream = s /\ batch[i].fin
  <2>1. PICK p \in Peer : p = peer[s] BY DEF Types
  <2>2. p.wire \in Nat BY DEF Peer
  <2>3. PICK e \in Nat : e = DataEnd(taken, s, p.wire) BY <1>5, <2>2, DataEndIs
  <2>4. PICK f \in BOOLEAN : f = (p.finWire \/ CarriesFin(taken, s)) OBVIOUS
  <2>5. peer'[s] = [p EXCEPT !.wire = e, !.finWire = f] BY <1>6, <2>1, <2>3, <2>4
  <2>6. peer'[s] \in Peer /\ peer'[s].granted = p.granted /\ peer'[s].wire = e /\ peer'[s].finWire = f
    BY <2>5 DEF Peer
  <2>7. CarriesFin(taken, s) <=> \E i \in taken : batch[i].stream = s /\ batch[i].fin
    BY DEF CarriesFin, Carried
  <2> QED BY <2>1, <2>3, <2>4, <2>6, <2>7
<1>8. peer' \in [Stream -> Peer] BY <1>6, <1>7
<1>9. ASSUME NEW s \in Stream, NEW i \in taken, batch[i].stream = s
      PROVE \E m \in taken : /\ batch[m].stream = s /\ peer'[s].wire = batch[m].offset
                             /\ \A j \in taken : batch[j].stream = s => j <= m
  <2>1. peer[s].wire \in Nat BY DEF Types, Peer
  <2> QED BY <1>5, <1>7, <1>9, <2>1, DataEndIs
<1>10. ASSUME NEW s \in Stream, \A i \in taken : batch[i].stream # s
       PROVE peer'[s].wire = peer[s].wire
  <2>1. peer[s].wire \in Nat BY DEF Types, Peer
  <2> QED BY <1>5, <1>7, <1>10, <2>1, DataEndIs
<1>11. ASSUME NEW s \in Stream
       PROVE /\ peer[s].wire <= peer'[s].wire /\ peer'[s].wire <= strm[s].submitted
             /\ peer'[s].finWire => strm[s].writeFin /\ peer'[s].wire = strm[s].accepted
  <2>1. /\ peer[s].wire \in Nat /\ peer'[s].wire \in Nat /\ strm[s].submitted \in Nat /\ strm[s].accepted \in Nat
    BY <1>8 DEF Types, Peer, Flow
  <2>2. /\ peer[s].wire <= strm[s].submitted /\ strm[s].submitted <= strm[s].accepted
        /\ peer[s].finWire => strm[s].writeFin /\ peer[s].wire = strm[s].accepted
    BY DEF StreamsInv, StreamOK, SendOK
  <2>3. CASE \A i \in taken : batch[i].stream # s BY <1>7, <1>10, <2>1, <2>2, <2>3
  <2>4. CASE \E i \in taken : batch[i].stream = s
    <3>1. PICK m \in taken : /\ batch[m].stream = s /\ peer'[s].wire = batch[m].offset
                             /\ \A j \in taken : batch[j].stream = s => j <= m
      BY <1>9, <2>4
    <3>2. m \in DOMAIN batch /\ m > Out BY <1>4, <1>5, <3>1
    <3>3. peer[s].wire <= batch[m].offset /\ batch[m].offset <= strm[s].submitted
      BY <3>1, <3>2, BatchFacts
    <3>4. ASSUME NEW i \in taken, batch[i].stream = s, batch[i].fin
          PROVE strm[s].writeFin /\ peer'[s].wire = strm[s].accepted
      <4>1. i \in DOMAIN batch /\ i <= m BY <1>5, <3>1, <3>4
      <4>2. strm[s].writeFin /\ batch[i].offset = strm[s].accepted BY <3>4, <4>1, BatchFacts
      <4>3. i < m => batch[i].offset <= batch[m].offset BY <3>1, <3>2, <3>4, <4>1, BatchFacts
      <4>4. i \in Nat /\ m \in Nat BY <1>4, <3>2, <4>1
      <4>5. batch[i].offset <= batch[m].offset BY <2>1, <4>1, <4>2, <4>3, <4>4
      <4> QED BY <2>1, <2>2, <3>1, <3>3, <4>2, <4>5
    <3>5. peer[s].finWire => peer'[s].wire = strm[s].accepted BY <2>1, <2>2, <3>1, <3>3
    <3> QED BY <1>7, <2>2, <3>1, <3>3, <3>4, <3>5
  <2> QED BY <2>3, <2>4
<1>12. StreamsInv'
  <2>1. ASSUME NEW s \in Stream PROVE StreamOK(strm[s], peer'[s], handle[s])
    <3>1. StreamOK(strm[s], peer[s], handle[s]) BY DEF StreamsInv
    <3>2. /\ peer[s].wire \in Nat /\ peer'[s].wire \in Nat /\ strm[s].submitted \in Nat
          /\ strm[s].accepted \in Nat /\ strm[s].sent \in Nat
      BY <1>8 DEF Types, Peer, Flow
    <3>3. SendOK(strm[s], peer'[s]) BY <1>7, <1>11, <3>1, <3>2 DEF StreamOK, SendOK
    <3>4. ReceiveOK(strm[s], peer'[s]) BY <1>7, <3>1 DEF StreamOK, ReceiveOK
    <3> QED BY <3>1, <3>3, <3>4 DEF StreamOK
  <2> QED BY <2>1 DEF StreamsInv
<1>13. ASSUME NEW i \in DOMAIN batch, NEW s \in Stream, batch[i].stream = s
       PROVE /\ i <= Out' => batch[i].offset <= peer'[s].wire /\ (batch[i].fin => peer'[s].finWire)
             /\ i > Out' => peer'[s].wire <= batch[i].offset
  <2>1. /\ peer[s].wire \in Nat /\ peer'[s].wire \in Nat /\ i \in Nat /\ batch[i].offset \in Nat
        /\ i <= Out => batch[i].offset <= peer[s].wire /\ (batch[i].fin => peer[s].finWire)
        /\ i > Out => peer[s].wire <= batch[i].offset
    BY <1>8, <1>13, BatchFacts DEF Types, Peer
  <2>2. CASE i <= Out BY <1>4, <1>7, <1>11, <2>1, <2>2
  <2>3. CASE i > Out /\ i <= Out'
    <3>1. i \in taken BY <1>3, <1>4, <2>1, <2>3
    <3>2. PICK m \in taken : /\ batch[m].stream = s /\ peer'[s].wire = batch[m].offset
                             /\ \A j \in taken : batch[j].stream = s => j <= m
      BY <1>9, <1>13, <3>1
    <3>3. i <= m /\ m \in DOMAIN batch /\ m \in Nat BY <1>3, <1>5, <1>13, <3>1, <3>2
    <3>4. i < m => batch[i].offset <= batch[m].offset BY <1>13, <3>2, <3>3, BatchFacts
    <3>5. batch[i].offset <= batch[m].offset BY <2>1, <3>3, <3>4
    <3>6. batch[i].offset <= peer'[s].wire BY <3>2, <3>5
    <3>7. batch[i].fin => peer'[s].finWire BY <1>7, <1>13, <3>1
    <3>8. ~(i > Out') BY <1>4, <2>1, <2>3
    <3> QED BY <3>6, <3>7, <3>8
  <2>4. CASE i > Out'
    <3>1. i > Out BY <1>4, <2>1, <2>4
    <3>2. CASE \A j \in taken : batch[j].stream # s
      <4>1. peer'[s].wire = peer[s].wire BY <1>10, <3>2
      <4>2. ~(i <= Out') BY <1>4, <2>1, <2>4
      <4> QED BY <2>1, <3>1, <4>1, <4>2
    <3>3. CASE \E j \in taken : batch[j].stream = s
      <4>1. PICK m \in taken : batch[m].stream = s /\ peer'[s].wire = batch[m].offset BY <1>9, <3>3
      <4>2. m \in DOMAIN batch /\ m < i BY <1>3, <1>4, <1>5, <2>1, <2>4, <4>1
      <4>3. batch[m].offset <= batch[i].offset BY <1>13, <4>1, <4>2, BatchFacts
      <4> QED BY <2>4, <4>1, <4>3, <2>1, <1>4
    <3> QED BY <3>2, <3>3
  <2> QED BY <1>4, <2>1, <2>2, <2>3, <2>4
<1>14. BatchInv'
  <2>1. \A i \in DOMAIN batch : batch[i].stream \in Stream BY ReceiptParts
  <2> QED BY <1>1, <1>4, <1>13, <2>1 DEF BatchInv
<1> QED BY <1>8, <1>12, <1>14

\* The receipts of what is on the wire report no more than that.
LEMMA ReceiptsGood ==
    ASSUME Types, StreamsInv, BatchInv, UdpInv, phase = "sending",
           NEW S, S = Receipted(strm, udp.completed)
    PROVE /\ S \in [Stream -> Flow]
          /\ \A s \in Stream :
                 \E m \in Nat, fin \in BOOLEAN :
                     /\ S[s] = ReceiptK(strm[s], m, fin)
                     /\ Good(strm[s], peer[s], S[s], peer[s], handle[s])
<1>1. PICK o \in Nat, c \in Nat : o = udp.completed /\ c = udp.count /\ o <= c BY WireIs
<1>2. Out = o /\ c = Len(batch) /\ DOMAIN batch = 1 .. c
  BY <1>1, ReceiptParts DEF Out, BatchInv
<1>3. PICK which : which = 1 .. o OBVIOUS
<1>4. which \subseteq DOMAIN batch /\ \A i \in which : i <= Out BY <1>1, <1>2, <1>3
<1>5. S = [s \in Stream |-> [strm[s] EXCEPT !.sent = DataEnd(which, s, @),
                                            !.finSent = @ \/ CarriesFin(which, s)]]
  BY <1>1, <1>3 DEF Receipted
<1>6. ASSUME NEW s \in Stream
      PROVE \E m \in Nat, fin \in BOOLEAN :
                /\ S[s] = ReceiptK(strm[s], m, fin)
                /\ Good(strm[s], peer[s], S[s], peer[s], handle[s])
  <2>1. PICK r \in Flow, p \in Peer : r = strm[s] /\ p = peer[s] BY DEF Types
  <2>2. r.sent \in Nat /\ p.wire \in Nat /\ r.finSent \in BOOLEAN BY DEF Flow, Peer
  <2>3. PICK m \in Nat : m = DataEnd(which, s, r.sent) BY <1>4, <2>2, DataEndIs
  <2>4. PICK fin \in BOOLEAN : fin = (r.finSent \/ CarriesFin(which, s)) OBVIOUS
  <2>5. S[s] = ReceiptK(r, m, fin) BY <1>5, <2>1, <2>3, <2>4 DEF ReceiptK
  <2>6. StreamOK(r, p, handle[s]) BY <2>1 DEF StreamsInv
  <2>7. m <= p.wire
    <3>1. CASE \A i \in which : batch[i].stream # s
      <4>1. m = r.sent BY <1>4, <2>2, <2>3, <3>1, DataEndIs
      <4> QED BY <2>6, <4>1 DEF StreamOK, SendOK
    <3>2. CASE \E i \in which : batch[i].stream = s
      <4>1. PICK l \in which : batch[l].stream = s /\ m = batch[l].offset
        BY <1>4, <2>2, <2>3, <3>2, DataEndIs
      <4>2. l \in DOMAIN batch /\ l <= Out BY <1>4, <4>1
      <4> QED BY <2>1, <4>1, <4>2, BatchFacts
    <3> QED BY <3>1, <3>2
  <2>8. fin => p.finWire
    <3>1. r.finSent => p.finWire BY <2>6 DEF StreamOK, SendOK
    <3>2. CarriesFin(which, s) => \E i \in which : batch[i].stream = s /\ batch[i].fin
      BY DEF CarriesFin, Carried
    <3>3. ASSUME NEW i \in which, batch[i].stream = s, batch[i].fin PROVE p.finWire
      <4>1. i \in DOMAIN batch /\ i <= Out BY <1>4
      <4> QED BY <2>1, <3>3, <4>1, BatchFacts
    <3> QED BY <2>4, <3>1, <3>2, <3>3
  <2>9. Good(r, p, ReceiptK(r, m, fin), p, handle[s]) BY <2>6, <2>7, <2>8, ReceiptGood
  <2> QED BY <2>1, <2>5, <2>9
<1>7. \A s \in Stream : S[s] \in Flow BY <1>6 DEF Good
<1> QED BY <1>5, <1>6, <1>7

\* A packet whose receipt reports all that its stream has submitted by then.
LEMMA Packed ==
    ASSUME Types, BatchInv, phase = "writing", UNCHANGED <<peer, phase>>,
           NEW s \in Stream, NEW r, r = strm[s], NEW l, l = strm'[s],
           strm' \in [Stream -> Flow], AllGood, peer[s].wire <= r.submitted,
           NEW fin \in BOOLEAN, fin => l.writeFin /\ l.submitted = l.accepted,
           batch' = Append(batch, [stream |-> s, offset |-> l.submitted, fin |-> fin])
    PROVE batch' \in Seq(Receipt) /\ BatchInv'
<1>1. PICK n \in Nat : n = Len(batch) /\ DOMAIN batch = 1 .. n BY ReceiptParts
<1>2. batch \in Seq(Receipt) BY DEF Types
<1>3. PICK k : k = [stream |-> s, offset |-> l.submitted, fin |-> fin] OBVIOUS
<1>4. r \in Flow /\ l \in Flow /\ KeepsOut(r, peer[s], l, peer'[s]) BY DEF Types, AllGood, Good
<1>5. r.submitted \in Nat /\ l.submitted \in Nat /\ l.accepted \in Nat /\ peer[s].wire \in Nat
  BY <1>4 DEF Flow, Peer, Types
<1>6. k \in Receipt /\ k.stream = s /\ k.offset = l.submitted /\ k.fin = fin
  BY <1>3, <1>5 DEF Receipt
<1>7. batch' = Append(batch, k) BY <1>3
<1>8. /\ batch' \in Seq(Receipt) /\ Len(batch') = n + 1 /\ batch'[n + 1] = k
      /\ \A i \in 1 .. n : batch'[i] = batch[i]
  BY <1>1, <1>2, <1>6, <1>7, AppendProperties
<1>9. DOMAIN batch' = 1 .. n + 1 BY <1>8, LenProperties
<1>10. Out = 0 /\ Out' = 0 BY DEF Out
<1>11. ASSUME NEW i \in 1 .. n, NEW t \in Stream, batch[i].stream = t
       PROVE /\ batch[i].offset \in Nat /\ batch[i].offset <= strm'[t].submitted
             /\ batch[i].offset <= strm[t].submitted
             /\ batch[i].fin => strm'[t].writeFin /\ batch[i].offset = strm'[t].accepted
             /\ peer'[t].wire <= batch[i].offset
  <2>1. i \in DOMAIN batch /\ i > Out BY <1>1, <1>10
  <2>2. /\ batch[i].offset \in Nat /\ batch[i].offset <= strm[t].submitted
        /\ batch[i].fin => strm[t].writeFin /\ batch[i].offset = strm[t].accepted
        /\ peer[t].wire <= batch[i].offset
    BY <1>11, <2>1, BatchFacts
  <2>3. strm[t] \in Flow /\ strm'[t] \in Flow /\ KeepsOut(strm[t], peer[t], strm'[t], peer'[t])
    BY DEF Types, AllGood, Good
  <2>4. strm[t].submitted \in Nat /\ strm'[t].submitted \in Nat BY <2>3 DEF Flow
  <2> QED BY <2>2, <2>3, <2>4 DEF KeepsOut
<1>12. /\ k.offset <= strm'[s].submitted
       /\ k.fin => strm'[s].writeFin /\ k.offset = strm'[s].accepted
       /\ peer'[s].wire <= k.offset
  BY <1>4, <1>5, <1>6 DEF KeepsOut
<1>13. ASSUME NEW i \in DOMAIN batch'
       PROVE /\ batch'[i].offset <= strm'[batch'[i].stream].submitted
             /\ batch'[i].fin => /\ strm'[batch'[i].stream].writeFin
                                 /\ batch'[i].offset = strm'[batch'[i].stream].accepted
             /\ peer'[batch'[i].stream].wire <= batch'[i].offset
             /\ i > 0
  <2>1. CASE i \in 1 .. n
    <3>1. batch[i].stream \in Stream BY <1>1, <2>1, ReceiptParts
    <3> QED BY <1>8, <1>11, <2>1, <3>1
  <2>2. CASE i = n + 1 BY <1>6, <1>8, <1>12, <2>2
  <2> QED BY <1>9, <2>1, <2>2
<1>14. ASSUME NEW i \in DOMAIN batch', NEW j \in DOMAIN batch', i < j,
              batch'[i].stream = batch'[j].stream
       PROVE batch'[i].offset <= batch'[j].offset
  <2>1. i \in 1 .. n BY <1>9, <1>14
  <2>2. batch'[i] = batch[i] /\ batch[i].stream \in Stream BY <1>1, <1>8, <2>1, ReceiptParts
  <2>3. CASE j \in 1 .. n
    <3>1. batch'[j] = batch[j] BY <1>8, <2>3
    <3> QED BY <1>1, <1>14, <2>1, <2>2, <2>3, <3>1 DEF BatchInv
  <2>4. CASE j = n + 1
    <3>1. batch[i].stream = s BY <1>6, <1>8, <1>14, <2>2, <2>4
    <3>2. batch[i].offset <= l.submitted BY <1>11, <2>1, <3>1
    <3> QED BY <1>6, <1>8, <2>2, <2>4, <3>2
  <2> QED BY <1>9, <2>3, <2>4
<1>15. BatchInv'
  <2>1. \A i \in DOMAIN batch' :
          LET q == strm'[batch'[i].stream]
              p == peer'[batch'[i].stream]
          IN  /\ batch'[i].offset <= q.submitted
              /\ batch'[i].fin => q.writeFin /\ batch'[i].offset = q.accepted
              /\ i <= Out' => batch'[i].offset <= p.wire /\ (batch'[i].fin => p.finWire)
              /\ i > Out' => p.wire <= batch'[i].offset
    <3>1. \A i \in DOMAIN batch' : ~(i <= 0) BY <1>9
    <3> QED BY <1>10, <1>13, <3>1
  <2>2. phase' # "idle" /\ phase' # "sending" OBVIOUS
  <2> QED BY <1>14, <2>1, <2>2 DEF BatchInv
<1> QED BY <1>8, <1>15

-----------------------------------------------------------------------------
(* The steps of the program: each works on one stream, between the turns. *)

LEMMA Parts ==
    ASSUME IInv
    PROVE /\ plan \in Plans /\ Types /\ StreamsInv /\ BatchInv /\ UdpInv /\ TaskInv /\ SumInv
          /\ WaitersBlocked
          /\ \A s \in Stream : /\ strm[s] \in Flow /\ peer[s] \in Peer
                               /\ StreamOK(strm[s], peer[s], handle[s])
BY TypeParts DEF IInv, Types, StreamsInv

LEMMA Together ==
    ASSUME plan \in Plans, UNCHANGED plan, Types', StreamsInv', BatchInv', UdpInv', TaskInv',
           SumInv', WaitersBlocked'
    PROVE IInv'
<1>1. (plan \in Plans /\ Types)' OBVIOUS
<1>2. TypeOK' BY <1>1, TypePrimed
<1> QED BY <1>2 DEF IInv

\* What a step of the program makes of the connection.
Uses(C, D, r, l) ==
    /\ D \in Conn /\ D.receiving = C.receiving /\ ToSet(D.incoming) \subseteq ToSet(C.incoming)
    /\ D.buffered = C.buffered + (l.buffered - r.buffered) /\ l.buffered >= r.buffered
    /\ D.granted = C.granted
    /\ D.granted + D.credit = C.granted + C.credit + (l.consumed - r.consumed)
    /\ l.received = r.received
    /\ D.streamsGranted + D.streamCredit = C.streamsGranted + C.streamCredit
    /\ l.where # "none" /\ (IsClosed(l) <=> IsClosed(r))

TaskTypes ==
    /\ handle \in [Stream -> Handle] /\ reader \in [Stream -> Task] /\ writer \in [Stream -> Task]
    /\ want \in [Stream -> Want]
OthersTasks(a) ==
    \A s \in Stream \ {a} : /\ handle'[s] = handle[s] /\ reader'[s] = reader[s]
                            /\ writer'[s] = writer[s] /\ want'[s] = want[s]

LEMMA QuietStep ==
    ASSUME IInv, UNCHANGED <<plan, phase, batch, peer, udp>>,
           NEW a \in Stream, NEW k, strm' = [strm EXCEPT ![a] = k],
           Good(strm[a], peer[a], k, peer[a], handle'[a]), Uses(conn, conn', strm[a], k),
           TaskTypes', OthersTasks(a),
           reader'[a] = "waiting" =>
               \/ NothingToRead(k)
               \/ /\ reader[a] = "waiting" /\ k.where = strm[a].where
                  /\ NothingToRead(strm[a]) => NothingToRead(k),
           writer'[a] = "waiting" =>
               \/ NothingToDo(k, want'[a], Room(a)')
               \/ writer[a] = "waiting" /\ want'[a] = want[a] /\ SameWrite(strm[a], k)
    PROVE IInv'
<1>1. /\ plan \in Plans /\ Types /\ StreamsInv /\ BatchInv /\ UdpInv /\ TaskInv /\ SumInv
      /\ WaitersBlocked
  BY Parts
<1>2. strm' \in [Stream -> Flow] /\ AllGood
  <2>1. \A s \in Stream \ {a} : peer'[s] = peer[s] /\ handle'[s] = handle[s] BY DEF OthersTasks
  <2>2. Good(strm[a], peer[a], k, peer'[a], handle'[a]) OBVIOUS
  <2> QED BY <1>1, <2>1, <2>2, OneStream
<1>3. strm \in [Stream -> Flow] /\ conn \in Conn /\ peer \in [Stream -> Peer] /\ batch \in Seq(Receipt)
      /\ phase \in {"idle", "writing", "sending"}
  BY <1>1 DEF Types
<1>4. strm'[a] = k /\ \A s \in Stream \ {a} : strm'[s] = strm[s] BY <1>3
<1>5. StreamsInv' BY <1>2, StreamsKept
<1>6. BatchInv'
  <2>1. Out' = Out BY DEF Out
  <2>2. phase' = "sending" => udp'.count = Len(batch) BY <1>1 DEF BatchInv
  <2> QED BY <1>1, <1>2, <2>1, <2>2, BatchKept
<1>7. UdpInv' BY <1>1, UdpSame
<1>8. conn' \in Conn BY DEF Uses
<1>9. Types' BY <1>2, <1>3, <1>8 DEF TaskTypes, Types
<1>10. TaskInv'
  <2>1. ASSUME NEW s \in Stream, strm'[s].where = "none" PROVE s # a BY <1>4, <2>1 DEF Uses
  <2> QED BY <1>1, <1>4, <2>1, TaskKept DEF OthersTasks, Uses
<1>11. SumInv'
  <2>1. ConnOK(strm, conn) BY <1>1 DEF SumInv
  <2>2. PICK T \in [Stream -> Flow], D \in Conn : T = strm' /\ D = conn' BY <1>2, <1>8
  <2>3. /\ T[a] = k /\ \A s \in Stream \ {a} : T[s] = strm[s]
        /\ IsClosed(T[a]) <=> IsClosed(strm[a])
        /\ D.buffered = conn.buffered + (T[a].buffered - strm[a].buffered)
        /\ D.granted + D.credit = conn.granted + conn.credit + (T[a].consumed - strm[a].consumed)
        /\ T[a].received = strm[a].received /\ D.granted = conn.granted
        /\ D.streamsGranted + D.streamCredit = conn.streamsGranted + conn.streamCredit
    BY <1>4, <2>2 DEF Uses
  <2>4. ConnOK(T, D) BY <1>3, <2>1, <2>3, CountsOne
  <2>5. ConnOK(strm', conn') BY <2>2, <2>4
  <2> QED BY <2>5 DEF SumInv, ConnOK, SumOf, ClosedPeers, IsClosed
<1>12. WaitersBlocked'
  <2>1. conn'.receiving = conn.receiving BY DEF Uses
  <2>2. conn'.buffered >= conn.buffered
    <3>1. k \in Flow /\ strm[a] \in Flow BY <1>2, <1>3, <1>4
    <3>2. k.buffered \in Int /\ strm[a].buffered \in Int BY <3>1, Limits DEF Flow
    <3>3. conn.buffered \in Int BY <1>3, Limits DEF Conn
    <3> QED BY <3>2, <3>3 DEF Uses
  <2> QED BY <1>1, <1>2, <1>4, <1>8, <2>1, <2>2, QuietWaiters DEF OthersTasks
<1> QED BY <1>1, <1>5, <1>6, <1>7, <1>9, <1>10, <1>11, <1>12, Together

\* The steps that leave the stream alone too.
LEMMA StillStep ==
    ASSUME IInv, UNCHANGED <<plan, strm, phase, batch, peer, udp>>,
           NEW a \in Stream, strm[a].where # "none",
           handle'[a] \in {handle[a], "held"},
           conn' \in Conn, conn'.receiving = conn.receiving,
           ToSet(conn'.incoming) \subseteq ToSet(conn.incoming),
           conn'.buffered = conn.buffered, conn'.granted = conn.granted,
           conn'.credit = conn.credit, conn'.streamsGranted = conn.streamsGranted,
           conn'.streamCredit = conn.streamCredit,
           TaskTypes', OthersTasks(a),
           reader'[a] = "waiting" => NothingToRead(strm[a]) \/ reader[a] = "waiting",
           writer'[a] = "waiting" =>
               \/ NothingToDo(strm[a], want'[a], Room(a)')
               \/ writer[a] = "waiting" /\ want'[a] = want[a]
    PROVE IInv'
<1>1. Types /\ strm[a] \in Flow /\ peer[a] \in Peer /\ StreamOK(strm[a], peer[a], handle[a])
  BY Parts
<1>2. PICK k \in Flow : k = strm[a] BY <1>1
<1>3. strm' = [strm EXCEPT ![a] = k] BY <1>1, <1>2 DEF Types
<1>4. Good(strm[a], peer[a], k, peer[a], handle'[a])
  <2>1. Good(strm[a], peer[a], k, peer[a], handle[a]) BY <1>1, <1>2, StayGood
  <2>2. handle'[a] = "held" => DropOK(k, handle'[a]) BY DEF DropOK
  <2> QED BY <2>1, <2>2 DEF Good, StreamOK
<1>5. Uses(conn, conn', strm[a], k)
  <2>1. k.buffered \in Int /\ k.consumed \in Int BY Limits DEF Flow
  <2>2. conn.buffered \in Int /\ conn.granted \in Int /\ conn.credit \in Int
    BY <1>1, Limits DEF Types, Conn
  <2> QED BY <1>2, <2>1, <2>2 DEF Uses
<1>6. SameWrite(strm[a], k) BY <1>2 DEF SameWrite
<1> QED BY <1>2, <1>3, <1>4, <1>5, <1>6, QuietStep

LEMMA HeldGood ==
    ASSUME NEW r, NEW p, NEW l, NEW q, NEW h, Good(r, p, l, q, h)
    PROVE Good(r, p, l, q, "held")
BY DEF Good, StreamOK, DropOK

\* What only credits the connection for what is consumed.
LEMMA UsesCredit ==
    ASSUME NEW C \in Conn, NEW D, NEW r \in Flow, NEW l \in Flow, NEW n \in Nat,
           D = [C EXCEPT !.credit = @ + n], l.consumed = r.consumed + n,
           l.received = r.received, l.buffered = r.buffered, l.where = r.where, l.where # "none"
    PROVE Uses(C, D, r, l)
<1>1. /\ C.credit \in Nat /\ C.granted \in Nat /\ C.buffered \in Int
      /\ r.buffered \in Int /\ r.consumed \in Nat
  BY Limits DEF Conn, Flow
<1>2. PICK x \in Nat : x = C.credit + n BY <1>1
<1>3. D = [C EXCEPT !.credit = x] BY <1>2
<1>4. /\ D \in Conn /\ D.credit = x /\ D.granted = C.granted /\ D.buffered = C.buffered
      /\ D.receiving = C.receiving /\ D.incoming = C.incoming
      /\ D.streamsGranted = C.streamsGranted /\ D.streamCredit = C.streamCredit
  BY <1>3 DEF Conn
<1>5. D.granted + D.credit = C.granted + C.credit + (l.consumed - r.consumed)
  BY <1>1, <1>2, <1>4
<1>6. D.buffered = C.buffered + (l.buffered - r.buffered) /\ l.buffered >= r.buffered BY <1>1, <1>4
<1> QED BY <1>4, <1>5, <1>6 DEF Uses, IsClosed

LEMMA Unchanged1 ==
    ASSUME NEW n \in Nat, NEW C \in Conn, n = 0 PROVE C = [C EXCEPT !.credit = @ + n]
<1>1. C.credit + n = C.credit BY DEF Conn
<1> QED BY <1>1 DEF Conn

LEMMA OpenStep ==
    ASSUME IInv, NEW a \in Stream, OpenStream(a)
    PROVE IInv'
<1>1. /\ Types /\ TaskInv /\ strm[a] \in Flow /\ peer[a] \in Peer
      /\ StreamOK(strm[a], peer[a], handle[a])
  BY Parts
<1>2. PICK r \in Flow : r = strm[a]
  BY <1>1
<1>20. PICK k : k = MappedK(r)
  OBVIOUS
<1>3. strm' = [strm EXCEPT ![a] = k] BY <1>1, <1>2, <1>20 DEF OpenStream, MappedK, Types
<1>4. r.where = "none" BY <1>2, <1>20 DEF OpenStream
<1>5. k \in Flow /\ Good(r, peer[a], k, peer[a], handle[a])
  <2>1. SameOut(peer[a], peer[a]) BY DEF SameOut
  <2>2. Good(r, peer[a], k, peer[a], handle[a]) BY <1>1, <1>2, <1>20, <1>4, <2>1, PlainGood
  <2> QED BY <2>2 DEF Good
<1>6. handle' = [handle EXCEPT ![a] = "held"] /\ UNCHANGED <<conn, reader, writer, want>>
  BY DEF OpenStream
<1>7. TaskTypes' /\ OthersTasks(a) /\ handle'[a] = "held"
  BY <1>1, <1>6 DEF TaskTypes, OthersTasks, Types, Handle
<1>8. Good(strm[a], peer[a], k, peer[a], handle'[a]) BY <1>2, <1>20, <1>5, <1>7, HeldGood
<1>9. reader'[a] = "none" /\ writer'[a] = "none" BY <1>1, <1>2, <1>20, <1>4, <1>6 DEF TaskInv
<1>10. Uses(conn, conn', strm[a], k)
  <2>1. SameReceive(r, k) /\ SameBuffer(r, k) /\ k.where = "map"
    BY <1>2, <1>20 DEF MappedK, Flow, SameReceive, SameBuffer
  <2>2. k.buffered \in Int /\ k.consumed \in Int BY <1>5, Limits DEF Flow
  <2>3. conn \in Conn /\ conn.buffered \in Int /\ conn.granted \in Int /\ conn.credit \in Int
    BY <1>1, Limits DEF Types, Conn
  <2> QED BY <1>2, <1>20, <1>4, <1>6, <2>1, <2>2, <2>3 DEF Uses, IsClosed, SameReceive, SameBuffer
<1> QED BY <1>3, <1>7, <1>8, <1>9, <1>10, QuietStep DEF OpenStream

\* The stream that acceptStream takes exists, and so do those it leaves.
LEMMA AcceptStep ==
    ASSUME IInv, AcceptStream
    PROVE IInv'
<1>1. Types /\ TaskInv /\ conn \in Conn BY Parts DEF Types
<1>2. conn.incoming \in Seq(Stream) BY <1>1 DEF Conn
<1>3. PICK i \in DOMAIN conn.incoming :
          /\ handle' = [handle EXCEPT ![conn.incoming[i]] = "held"]
          /\ conn' = [conn EXCEPT !.incoming = SubSeq(@, i + 1, Len(@))]
  BY DEF AcceptStream
<1>4. PICK a \in Stream : a = conn.incoming[i] BY <1>2, <1>3
<1>5. a \in ToSet(conn.incoming) BY <1>3, <1>4 DEF ToSet
<1>6. strm[a].where # "none" BY <1>1, <1>5 DEF TaskInv
<1>7. PICK q : q = SubSeq(conn.incoming, i + 1, Len(conn.incoming)) OBVIOUS
<1>8. q \in Seq(Stream) /\ ToSet(q) \subseteq ToSet(conn.incoming)
  <2>1. PICK n \in Nat : n = Len(conn.incoming) /\ DOMAIN conn.incoming = 1 .. n
    BY <1>2, LenProperties
  <2>2. i \in 1 .. n BY <1>3, <2>1
  <2>3. q \in Seq(Stream) /\ Len(q) = n - i /\ \A j \in 1 .. n - i : q[j] = conn.incoming[i + j]
    BY <1>2, <1>7, <2>1, <2>2
  <2>4. DOMAIN q = 1 .. n - i BY <2>2, <2>3, LenProperties
  <2>5. \A j \in DOMAIN q : i + j \in DOMAIN conn.incoming BY <2>1, <2>2, <2>4
  <2> QED BY <2>3, <2>4, <2>5 DEF ToSet
<1>9. conn' = [conn EXCEPT !.incoming = q] BY <1>3, <1>7
<1>10. /\ conn' \in Conn /\ conn'.incoming = q /\ conn'.receiving = conn.receiving
       /\ conn'.buffered = conn.buffered /\ conn'.granted = conn.granted
       /\ conn'.credit = conn.credit /\ conn'.streamsGranted = conn.streamsGranted
       /\ conn'.streamCredit = conn.streamCredit
  BY <1>1, <1>8, <1>9 DEF Conn
<1>11. UNCHANGED <<plan, strm, reader, writer, want, phase, batch, peer, udp>> BY DEF AcceptStream
<1>12. TaskTypes' /\ OthersTasks(a) /\ handle'[a] = "held"
  BY <1>1, <1>3, <1>4, <1>11 DEF TaskTypes, OthersTasks, Types, Handle
<1> QED BY <1>6, <1>8, <1>10, <1>11, <1>12, StillStep

\* reset(), by the program or by the destructor: what follows from what it makes of the stream.
LEMMA ResetUses ==
    ASSUME Types, TaskInv, NEW a \in Stream, strm[a].where # "none", ResetStream(a),
           StreamOK(strm[a], peer[a], handle[a])
    PROVE \E k \in Flow :
              /\ strm' = [strm EXCEPT ![a] = k]
              /\ Uses(conn, conn', strm[a], k)
              /\ reader' \in [Stream -> Task] /\ writer' \in [Stream -> Task]
              /\ \A s \in Stream \ {a} : reader'[s] = reader[s] /\ writer'[s] = writer[s]
              /\ reader'[a] = "waiting" => /\ reader[a] = "waiting" /\ k.where = strm[a].where
                                           /\ NothingToRead(strm[a]) => NothingToRead(k)
              /\ writer'[a] = "waiting" => writer[a] = "waiting" /\ SameWrite(strm[a], k)
              /\ \/ k = ResetK(strm[a]) /\ ~IsClosed(strm[a])
                 \/ k = Discarded(strm[a]) /\ (IsClosed(strm[a]) \/ strm[a].readFin)
                 \/ k = strm[a] /\ ~IsClosed(strm[a]) /\ strm[a].resetRequested
<1>1. PICK r \in Flow : r = strm[a] BY DEF Types
<1>2. PICK C \in Conn : C = conn BY DEF Types
<1>3. /\ r.received \in Nat /\ r.consumed \in Nat /\ r.consumed <= r.received
  BY <1>1 DEF Flow, StreamOK, ReceiveOK
<1>4. PICK n \in Nat : n = Unread(r) /\ n = r.received - r.consumed BY <1>3 DEF Unread
<1>5. PICK finished \in BOOLEAN : finished = (IsClosed(r) \/ (r.readFin /\ r.finSent)) OBVIOUS
<1>6. PICK first \in BOOLEAN : first = (~finished /\ ~r.resetRequested) OBVIOUS
<1>7. PICK T : T = (IF first THEN {a} ELSE {}) OBVIOUS
<1>8. reader' = Woken(reader, T) /\ writer' = Woken(writer, T)
  BY <1>1, <1>5, <1>6, <1>7 DEF ResetStream
<1>9. ASSUME NEW task \in [Stream -> Task]
      PROVE /\ Woken(task, T) \in [Stream -> Task]
            /\ \A s \in Stream \ {a} : Woken(task, T)[s] = task[s]
            /\ Woken(task, T)[a] = "waiting" => ~first /\ task[a] = "waiting"
  BY <1>7 DEF Woken, Task
<1>10. /\ reader' \in [Stream -> Task] /\ writer' \in [Stream -> Task]
       /\ \A s \in Stream \ {a} : reader'[s] = reader[s] /\ writer'[s] = writer[s]
       /\ reader'[a] = "waiting" => ~first /\ reader[a] = "waiting"
       /\ writer'[a] = "waiting" => ~first /\ writer[a] = "waiting"
  <2>1. reader \in [Stream -> Task] /\ writer \in [Stream -> Task] BY DEF Types
  <2> QED BY <1>8, <1>9, <2>1
<1>11. CASE first
  <2>1. PICK k : k = ResetK(r) OBVIOUS
  <2>2. /\ k \in Flow /\ k.consumed = r.received /\ k.received = r.received
        /\ SameBuffer(r, k) /\ k.where = r.where
    BY <2>1, ResetKIs
  <2>3. strm' = [strm EXCEPT ![a] = k]
    BY <1>1, <1>5, <1>6, <1>11, <2>1 DEF ResetStream, ResetK
  <2>4. conn' = [C EXCEPT !.credit = @ + n]
    BY <1>1, <1>2, <1>4, <1>5, <1>6, <1>11 DEF ResetStream, Credited
  <2>5. k.consumed = r.consumed + n BY <1>3, <1>4, <2>2
  <2>6. PICK D : D = conn' OBVIOUS
  <2>7. Uses(C, D, r, k)
    BY <1>1, <2>2, <2>4, <2>5, <2>6, UsesCredit DEF SameBuffer
  <2>8. ~IsClosed(r) BY <1>5, <1>6, <1>11
  <2> QED BY <1>1, <1>2, <1>10, <1>11, <2>1, <2>2, <2>3, <2>6, <2>7, <2>8
<1>12. CASE finished
  <2>1. PICK k : k = Discarded(r) OBVIOUS
  <2>2. k \in Flow /\ k.consumed = r.received /\ Unread(k) = 0 BY <2>1, DiscardedIs
  <2>3. /\ k.received = r.received /\ SameBuffer(r, k) /\ SameWrite(r, k) /\ k.where = r.where
        /\ k.readError = r.readError /\ k.readFin = r.readFin
    BY <2>1 DEF Discarded, Flow, SameBuffer, SameWrite
  <2>4. strm' = [strm EXCEPT ![a] = k]
    BY <1>1, <1>5, <1>6, <1>12, <2>1 DEF ResetStream
  <2>5. conn' = [C EXCEPT !.credit = @ + n]
    BY <1>1, <1>2, <1>4, <1>5, <1>6, <1>12 DEF ResetStream, Credited
  <2>6. k.consumed = r.consumed + n BY <1>3, <1>4, <2>2
  <2>7. PICK D : D = conn' OBVIOUS
  <2>8. Uses(C, D, r, k)
    BY <1>1, <2>2, <2>3, <2>5, <2>6, <2>7, UsesCredit DEF SameBuffer
  <2>9. NothingToRead(r) => NothingToRead(k) BY <2>2, <2>3 DEF NothingToRead
  <2>10. IsClosed(r) \/ r.readFin BY <1>5, <1>12
  <2> QED BY <1>1, <1>2, <1>10, <2>1, <2>2, <2>3, <2>4, <2>7, <2>8, <2>9, <2>10
<1>13. CASE ~first /\ ~finished
  <2>1. strm' = [strm EXCEPT ![a] = r] /\ conn' = C
    BY <1>1, <1>2, <1>5, <1>6, <1>13 DEF ResetStream
  <2>2. Uses(C, C, r, r)
    <3>1. r.buffered \in Int /\ C.buffered \in Int /\ C.granted \in Int /\ C.credit \in Int
      BY Limits DEF Flow, Conn
    <3> QED BY <1>1, <1>3, <3>1 DEF Uses
  <2>3. SameWrite(r, r) BY DEF SameWrite
  <2>4. ~IsClosed(r) /\ r.resetRequested BY <1>5, <1>6, <1>13
  <2> QED BY <1>1, <1>2, <1>10, <2>1, <2>2, <2>3, <2>4
<1> QED BY <1>11, <1>12, <1>13

LEMMA ResetStep ==
    ASSUME IInv, NEW a \in Stream, Reset(a) \/ Drop(a)
    PROVE IInv'
<1>1. /\ Types /\ TaskInv /\ strm[a] \in Flow /\ peer[a] \in Peer
      /\ StreamOK(strm[a], peer[a], handle[a])
  BY Parts
<1>2. /\ handle[a] = "held" /\ ResetStream(a) /\ UNCHANGED <<plan, want, phase, batch, peer, udp>>
      /\ handle' = handle \/ handle' = [handle EXCEPT ![a] = "dropped"]
  BY DEF Reset, Drop
<1>3. strm[a].where # "none" BY <1>1, <1>2 DEF TaskInv
<1>4. PICK k \in Flow :
          /\ strm' = [strm EXCEPT ![a] = k]
          /\ Uses(conn, conn', strm[a], k)
          /\ reader' \in [Stream -> Task] /\ writer' \in [Stream -> Task]
          /\ \A s \in Stream \ {a} : reader'[s] = reader[s] /\ writer'[s] = writer[s]
          /\ reader'[a] = "waiting" => /\ reader[a] = "waiting" /\ k.where = strm[a].where
                                       /\ NothingToRead(strm[a]) => NothingToRead(k)
          /\ writer'[a] = "waiting" => writer[a] = "waiting" /\ SameWrite(strm[a], k)
          /\ \/ k = ResetK(strm[a]) /\ ~IsClosed(strm[a])
             \/ k = Discarded(strm[a]) /\ (IsClosed(strm[a]) \/ strm[a].readFin)
             \/ k = strm[a] /\ ~IsClosed(strm[a]) /\ strm[a].resetRequested
  BY <1>1, <1>2, <1>3, ResetUses
<1>5. PICK r \in Flow, p \in Peer : r = strm[a] /\ p = peer[a]
  BY <1>1
<1>50. PICK h, g : h = handle[a] /\ g = handle'[a]
  OBVIOUS
<1>6. g \in {h, "dropped"} /\ handle' \in [Stream -> Handle]
      /\ \A s \in Stream \ {a} : handle'[s] = handle[s]
  BY <1>1, <1>2, <1>5, <1>50 DEF Types, Handle
<1>7. StreamOK(r, p, h) BY <1>1, <1>5, <1>50
<1>8. Good(r, p, k, p, g)
  <2>1. CASE k = ResetK(r) /\ ~IsClosed(r) BY <1>7, <2>1, ResetGood
  <2>2. CASE k = Discarded(r) /\ (IsClosed(r) \/ r.readFin) BY <1>6, <1>7, <2>2, DropGood
  <2>3. CASE k = r /\ ~IsClosed(r) /\ r.resetRequested BY <1>6, <1>7, <2>3, DropGood
  <2> QED BY <1>4, <1>5, <1>50, <2>1, <2>2, <2>3
<1>9. TaskTypes' /\ OthersTasks(a) BY <1>1, <1>2, <1>4, <1>6 DEF TaskTypes, OthersTasks, Types
<1>10. UNCHANGED <<plan, phase, batch, peer, udp>> /\ want'[a] = want[a] BY <1>2
<1>11. Good(strm[a], peer[a], k, peer[a], handle'[a]) BY <1>5, <1>50, <1>8
<1> QED BY <1>4, <1>9, <1>10, <1>11, QuietStep

\* The steps that only change who waits for what on one stream.
LEMMA TaskStep ==
    ASSUME IInv, UNCHANGED <<plan, strm, conn, handle, phase, batch, peer, udp>>,
           NEW a \in Stream, strm[a].where # "none", NEW x \in Task, NEW y \in Task, NEW z \in Want,
           reader' = [reader EXCEPT ![a] = x], writer' = [writer EXCEPT ![a] = y],
           want' = [want EXCEPT ![a] = z],
           x = "waiting" => NothingToRead(strm[a]) \/ reader[a] = "waiting",
           y = "waiting" => NothingToDo(strm[a], z, Room(a)) \/ (writer[a] = "waiting" /\ z = want[a])
    PROVE IInv'
<1>1. Types BY Parts
<1>2. TaskTypes' /\ OthersTasks(a) /\ reader'[a] = x /\ writer'[a] = y /\ want'[a] = z
  BY <1>1 DEF TaskTypes, OthersTasks, Types
<1>3. Room(a)' = Room(a) BY DEF Room
<1>4. conn' \in Conn BY <1>1 DEF Types
<1>5. /\ x = "waiting" => NothingToRead(strm[a]) \/ reader[a] = "waiting"
      /\ y = "waiting" => NothingToDo(strm[a], z, Room(a)') \/ (writer[a] = "waiting" /\ z = want[a])
  BY <1>3
<1> QED BY <1>2, <1>4, <1>5, StillStep

\* A task that stays what it was.
LEMMA Stays ==
    ASSUME Types, NEW a \in Stream
    PROVE /\ reader[a] \in Task /\ reader = [reader EXCEPT ![a] = reader[a]]
          /\ writer[a] \in Task /\ writer = [writer EXCEPT ![a] = writer[a]]
          /\ want[a] \in Want /\ want = [want EXCEPT ![a] = want[a]]
BY DEF Types

LEMMA CancelStep ==
    ASSUME IInv, NEW a \in Stream, Cancel(a)
    PROVE IInv'
<1>1. Types /\ TaskInv BY Parts
<1>2. strm[a].where # "none" BY <1>1 DEF TaskInv, Cancel
<1>3. UNCHANGED <<plan, strm, conn, handle, phase, batch, peer, udp>> BY DEF Cancel
<1>4. "none" \in Task /\ "none" \in Want BY DEF Task, Want
<1>5. CASE reader' = [reader EXCEPT ![a] = "none"] /\ UNCHANGED <<writer, want>>
  <2>1. PICK y \in Task, z \in Want :
            /\ y = writer[a] /\ writer' = [writer EXCEPT ![a] = y]
            /\ z = want[a] /\ want' = [want EXCEPT ![a] = z]
    BY <1>1, <1>5, Stays
  <2> QED BY <1>2, <1>3, <1>4, <1>5, <2>1, TaskStep
<1>6. CASE /\ writer' = [writer EXCEPT ![a] = "none"] /\ want' = [want EXCEPT ![a] = "none"]
           /\ UNCHANGED reader
  BY <1>1, <1>2, <1>3, <1>4, <1>6, Stays, TaskStep
<1> QED BY <1>5, <1>6 DEF Cancel

LEMMA ReadDataStep ==
    ASSUME IInv, NEW a \in Stream, ReadData(a)
    PROVE IInv'
<1>1. /\ Types /\ TaskInv /\ strm[a] \in Flow /\ peer[a] \in Peer
      /\ StreamOK(strm[a], peer[a], handle[a])
  BY Parts
<1>2. PICK r \in Flow, p \in Peer : r = strm[a] /\ p = peer[a] BY <1>1
<1>3. PICK n \in 1 .. Unread(r) :
          /\ strm' = [strm EXCEPT ![a].consumed = @ + n, ![a].credit = @ + n]
          /\ conn' = [conn EXCEPT !.credit = @ + n]
  BY <1>2 DEF ReadData
<1>4. n \in Nat /\ r.consumed \in Nat BY DEF Flow
<1>5. PICK k : k = ReadK(r, n) OBVIOUS
<1>6. strm' = [strm EXCEPT ![a] = k] BY <1>1, <1>2, <1>3, <1>5 DEF ReadK, Types
<1>7. /\ handle[a] = "held" /\ reader' = [reader EXCEPT ![a] = "none"]
      /\ UNCHANGED <<plan, handle, writer, want, phase, batch, peer, udp>>
  BY DEF ReadData, Reads
<1>8. r.where # "none" BY <1>1, <1>2, <1>7 DEF TaskInv
<1>9. Good(r, p, k, p, handle[a]) BY <1>1, <1>2, <1>5, <1>7, ReadGood
<1>10. k \in Flow BY <1>9 DEF Good
<1>11. /\ k.consumed = r.consumed + n /\ k.received = r.received /\ SameBuffer(r, k)
       /\ SameWrite(r, k) /\ k.where = r.where
  BY <1>5 DEF ReadK, Flow, SameBuffer, SameWrite
<1>12. PICK C \in Conn : C = conn
  BY <1>1 DEF Types
<1>120. PICK D : D = conn'
  OBVIOUS
<1>13. Uses(C, D, r, k)
  <2>1. D = [C EXCEPT !.credit = @ + n] BY <1>3, <1>12, <1>120
  <2>2. k.buffered = r.buffered BY <1>11 DEF SameBuffer
  <2> QED BY <1>4, <1>8, <1>10, <1>11, <2>1, <2>2, UsesCredit
<1>14. TaskTypes' /\ OthersTasks(a) /\ reader'[a] = "none"
  BY <1>1, <1>7 DEF TaskTypes, OthersTasks, Types, Task
<1>15. Good(strm[a], peer[a], k, peer[a], handle'[a]) BY <1>2, <1>7, <1>9
<1>16. Uses(conn, conn', strm[a], k) BY <1>2, <1>12, <1>120, <1>13
<1>17. SameWrite(strm[a], k) BY <1>2, <1>11
<1>18. want'[a] = want[a] /\ writer'[a] = writer[a] BY <1>7
<1> QED BY <1>6, <1>7, <1>14, <1>15, <1>16, <1>17, <1>18, QuietStep

LEMMA ReadWaitStep ==
    ASSUME IInv, NEW a \in Stream, ReadEnds(a) \/ ReadWaits(a)
    PROVE IInv'
<1>1. Types /\ TaskInv BY Parts
<1>2. /\ handle[a] = "held"
      /\ UNCHANGED <<plan, strm, conn, handle, writer, want, phase, batch, peer, udp>>
  BY DEF ReadEnds, ReadWaits, Reads
<1>3. strm[a].where # "none" BY <1>1, <1>2 DEF TaskInv
<1>4. PICK x \in Task : /\ reader' = [reader EXCEPT ![a] = x]
                        /\ x = "waiting" => NothingToRead(strm[a])
  BY DEF ReadEnds, ReadWaits, Task, NothingToRead
<1>5. PICK y \in Task, z \in Want :
          /\ y = writer[a] /\ writer' = [writer EXCEPT ![a] = y]
          /\ z = want[a] /\ want' = [want EXCEPT ![a] = z]
  BY <1>1, <1>2, Stays
<1> QED BY <1>2, <1>3, <1>4, <1>5, TaskStep

\* write() waits only while there is no room, flush() while something is not sent.
LEMMA WriteWaitStep ==
    ASSUME IInv, NEW a \in Stream, WriteWaits(a) \/ WriteFails(a) \/ Flush(a)
    PROVE IInv'
<1>1. Types /\ TaskInv /\ strm[a] \in Flow /\ peer[a] \in Peer
      /\ StreamOK(strm[a], peer[a], handle[a])
  BY Parts
<1>2. /\ handle[a] = "held"
      /\ UNCHANGED <<plan, strm, conn, handle, reader, phase, batch, peer, udp>>
  BY DEF WriteWaits, WriteFails, Flush, Writes
<1>3. strm[a].where # "none" BY <1>1, <1>2 DEF TaskInv
<1>4. strm[a].sent \in Nat /\ strm[a].accepted \in Nat /\ strm[a].sent <= strm[a].accepted
  BY <1>1 DEF StreamOK, SendOK, Flow, Peer
<1>5. PICK y \in Task, z \in Want :
          /\ writer' = [writer EXCEPT ![a] = y] /\ want' = [want EXCEPT ![a] = z]
          /\ y = "waiting" => NothingToDo(strm[a], z, Room(a))
  <2>1. {"none", "waiting"} \subseteq Task /\ {"none", "write", "flush"} \subseteq Want
    BY DEF Task, Want
  <2>2. CASE WriterReturns(a) BY <2>1, <2>2 DEF WriterReturns
  <2>3. CASE WriteWaits(a) BY <2>1, <2>3 DEF WriteWaits, WriterWaits, NothingToDo
  <2>4. CASE WriteFails(a) BY <2>2, <2>4 DEF WriteFails
  <2>5. CASE Flush(a) /\ ~WriterReturns(a)
    <3>1. WriterWaits(a, "flush") /\ ~strm[a].writeError /\ strm[a].sent < strm[a].accepted
      BY <1>4, <2>5 DEF Flush
    <3> QED BY <2>1, <3>1 DEF WriterWaits, NothingToDo
  <2> QED BY <2>2, <2>3, <2>4, <2>5
<1> QED BY <1>1, <1>2, <1>3, <1>5, Stays, TaskStep

LEMMA WriteDataStep ==
    ASSUME IInv, NEW a \in Stream, WriteData(a)
    PROVE IInv'
<1>1. /\ Types /\ TaskInv /\ strm[a] \in Flow /\ peer[a] \in Peer /\ plan \in Plans
      /\ StreamOK(strm[a], peer[a], handle[a])
  BY Parts
<1>2. PICK r \in Flow, p \in Peer, C \in Conn : r = strm[a] /\ p = peer[a] /\ C = conn
  BY <1>1 DEF Types
<1>3. PICK n \in 1 .. SmallerOf(Room(a), plan.tx[a] - r.accepted) :
          /\ strm' = [strm EXCEPT ![a].tx = Append(@, n), ![a].accepted = @ + n,
                                  ![a].buffered = @ + n]
          /\ conn' = [conn EXCEPT !.buffered = @ + n]
  BY <1>2 DEF WriteData
<1>4. /\ r.buffered \in Nat /\ r.accepted \in Nat /\ C.buffered \in Nat /\ C.granted \in Nat
      /\ C.credit \in Nat /\ r.consumed \in Nat /\ plan.tx[a] \in Nat
  BY <1>1, Limits, PlanType DEF Flow, Conn
<1>5. n \in Nat \ {0} /\ r.buffered + n <= SendLimit /\ C.buffered + n <= ConnSendLimit
  <2>1. PICK x, y, z : /\ x = SendLimit - r.buffered /\ y = ConnSendLimit - C.buffered
                       /\ z = plan.tx[a] - r.accepted
    OBVIOUS
  <2>2. x \in Int /\ y \in Int /\ z \in Int BY <1>4, <2>1, Limits
  <2>3. n \in 1 .. SmallerOf(SmallerOf(x, y), z) BY <1>2, <1>3, <2>1 DEF Room
  <2>4. n \in Nat \ {0} /\ n <= x /\ n <= y BY <2>2, <2>3 DEF SmallerOf
  <2> QED BY <1>4, <2>1, <2>4, Limits
<1>6. PICK k : k = WriteK(r, n) OBVIOUS
<1>7. strm' = [strm EXCEPT ![a] = k] BY <1>1, <1>2, <1>3, <1>6 DEF WriteK, Types
<1>8. /\ handle[a] = "held" /\ CanWrite(r) /\ WriterReturns(a)
      /\ UNCHANGED <<plan, handle, reader, phase, batch, peer, udp>>
  BY <1>2 DEF WriteData, Writes
<1>9. r.where # "none" /\ ~r.writeFin BY <1>1, <1>2, <1>8 DEF TaskInv, CanWrite
<1>10. Good(r, p, k, p, handle[a]) BY <1>1, <1>2, <1>5, <1>6, <1>9, WriteGood
<1>11. k.buffered = r.buffered + n BY <1>1, <1>2, <1>5, <1>6, WriteKIs DEF StreamOK
<1>12. /\ k.consumed = r.consumed /\ k.received = r.received /\ k.where = r.where
       /\ k.readError = r.readError /\ k.readFin = r.readFin
  BY <1>6 DEF WriteK, Flow
<1>13. PICK D, x : D = conn' /\ x = C.buffered + n OBVIOUS
<1>14. /\ D \in Conn /\ D.buffered = x /\ D.credit = C.credit /\ D.granted = C.granted
       /\ D.incoming = C.incoming /\ D.receiving = C.receiving
       /\ D.streamsGranted = C.streamsGranted /\ D.streamCredit = C.streamCredit
  <2>1. x \in 0 .. ConnSendLimit BY <1>4, <1>5, <1>13, Limits
  <2>2. D = [C EXCEPT !.buffered = x] BY <1>2, <1>3, <1>13 DEF Conn
  <2> QED BY <2>1, <2>2 DEF Conn
<1>15. Uses(C, D, r, k)
  <2>1. /\ D.buffered = C.buffered + (k.buffered - r.buffered) /\ k.buffered >= r.buffered
        /\ D.granted + D.credit = C.granted + C.credit + (k.consumed - r.consumed)
    BY <1>4, <1>5, <1>11, <1>12, <1>13, <1>14
  <2> QED BY <1>9, <1>12, <1>14, <2>1 DEF Uses, IsClosed
<1>16. TaskTypes' /\ OthersTasks(a) /\ writer'[a] = "none" /\ reader'[a] = reader[a]
  BY <1>1, <1>8 DEF TaskTypes, OthersTasks, Types, Task, Want, WriterReturns
<1>17. NothingToRead(strm[a]) => NothingToRead(k)
  BY <1>2, <1>12 DEF NothingToRead, Unread
<1>18. Good(strm[a], peer[a], k, peer[a], handle'[a]) BY <1>2, <1>8, <1>10
<1>19. Uses(conn, conn', strm[a], k) BY <1>2, <1>13, <1>15
<1>20. k.where = strm[a].where BY <1>2, <1>12
<1> QED BY <1>7, <1>8, <1>16, <1>17, <1>18, <1>19, <1>20, QuietStep

LEMMA ShutdownStep ==
    ASSUME IInv, NEW a \in Stream, Shutdown(a)
    PROVE IInv'
<1>1. /\ Types /\ TaskInv /\ strm[a] \in Flow /\ peer[a] \in Peer
      /\ StreamOK(strm[a], peer[a], handle[a])
  BY Parts
<1>2. PICK r \in Flow, p \in Peer, C \in Conn : r = strm[a] /\ p = peer[a] /\ C = conn
  BY <1>1 DEF Types
<1>3. PICK k : k = FinK(r) OBVIOUS
<1>4. strm' = [strm EXCEPT ![a] = k] BY <1>1, <1>2, <1>3 DEF Shutdown, FinK, Types
<1>5. /\ handle[a] = "held" /\ UNCHANGED <<plan, conn, handle, reader, phase, batch, peer, udp>>
  BY DEF Shutdown, Writes
<1>6. r.where # "none" BY <1>1, <1>2, <1>5 DEF TaskInv
<1>7. Good(r, p, k, p, handle[a]) BY <1>1, <1>2, <1>3, FinGood
<1>8. /\ k.consumed = r.consumed /\ k.received = r.received /\ k.buffered = r.buffered
      /\ k.where = r.where /\ k.readError = r.readError /\ k.readFin = r.readFin
      /\ k.writeError = r.writeError /\ k.finSent = r.finSent
  BY <1>3 DEF FinK, Flow
<1>9. Uses(C, C, r, k)
  <2>1. /\ r.buffered \in Int /\ C.buffered \in Int /\ C.granted \in Int /\ C.credit \in Int
        /\ r.consumed \in Int
    BY Limits DEF Flow, Conn
  <2> QED BY <1>6, <1>8, <2>1 DEF Uses, IsClosed
<1>10. /\ writer' \in [Stream -> Task] /\ want' \in [Stream -> Want]
       /\ \A s \in Stream \ {a} : writer'[s] = writer[s] /\ want'[s] = want[s]
       /\ writer'[a] = "waiting" => want'[a] = "shutdown" /\ ~r.writeError /\ ~r.finSent
  <2>1. {"none", "waiting"} \subseteq Task /\ {"none", "shutdown"} \subseteq Want BY DEF Task, Want
  <2>2. CASE r.writeError \/ r.finSent
    <3>1. WriterReturns(a) BY <1>2, <2>2 DEF Shutdown
    <3> QED BY <1>1, <2>1, <3>1 DEF WriterReturns, Types
  <2>3. CASE ~(r.writeError \/ r.finSent)
    <3>1. WriterWaits(a, "shutdown") BY <1>2, <2>3 DEF Shutdown
    <3> QED BY <1>1, <2>1, <2>3, <3>1 DEF WriterWaits, Types
  <2> QED BY <2>2, <2>3
<1>11. TaskTypes' /\ OthersTasks(a) BY <1>1, <1>5, <1>10 DEF TaskTypes, OthersTasks, Types
<1>12. writer'[a] = "waiting" => NothingToDo(k, want'[a], Room(a)')
  BY <1>8, <1>10 DEF NothingToDo
<1>13. NothingToRead(strm[a]) => NothingToRead(k)
  BY <1>2, <1>8 DEF NothingToRead, Unread
<1>14. Good(strm[a], peer[a], k, peer[a], handle'[a]) BY <1>2, <1>5, <1>7
<1>15. Uses(conn, conn', strm[a], k) BY <1>2, <1>5, <1>9
<1>16. reader'[a] = reader[a] /\ k.where = strm[a].where BY <1>2, <1>5, <1>8
<1> QED BY <1>4, <1>5, <1>11, <1>12, <1>13, <1>14, <1>15, <1>16, QuietStep

LEMMA ProgramSteps ==
    ASSUME IInv, ProgramStep
    PROVE IInv'
BY AcceptStep, OpenStep, ResetStep, CancelStep, ReadDataStep, ReadWaitStep, WriteDataStep,
   WriteWaitStep, ShutdownStep DEF ProgramStep

-----------------------------------------------------------------------------
(* The steps of the peer: the receiver's turn lasts, and the batch is with the socket. *)

LEMMA PeerTurn ==
    ASSUME IInv, UNCHANGED <<plan, tasks, sending>>,
           NEW T \in [Stream -> Flow], strm' = T, NEW D \in Conn, conn' = D, D.receiving,
           peer' \in [Stream -> Peer], AllGood, ConnOK(T, D),
           \A s \in Stream :
               /\ strm[s].where = "gone" => T[s].where = "gone" /\ SameRead(strm[s], T[s])
               /\ strm[s].where \in {"map", "closing"} => T[s].where \in {"map", "closing"}
               /\ T[s].where = "none" =>
                      /\ strm[s].where = "none"
                      /\ s \in ToSet(D.incoming) => s \in ToSet(conn.incoming)
    PROVE IInv'
<1>1. /\ plan \in Plans /\ Types /\ StreamsInv /\ BatchInv /\ UdpInv /\ TaskInv /\ SumInv
      /\ WaitersBlocked
  BY Parts
<1>2. UNCHANGED <<handle, reader, writer, want, phase, batch, udp>> BY DEF tasks, sending
<1>3. Types' BY <1>1, <1>2 DEF Types
<1>4. StreamsInv' BY StreamsKept
<1>5. BatchInv'
  <2>1. Out' = Out BY <1>2 DEF Out
  <2>2. phase' = "sending" => udp'.count = Len(batch) BY <1>1, <1>2 DEF BatchInv
  <2> QED BY <1>1, <1>2, <2>1, <2>2, BatchKept
<1>6. UdpInv' BY <1>1, <1>2, UdpSame
<1>7. TaskInv' BY <1>1, <1>2, TaskKept
<1>8. SumInv'
  <2>1. ConnOK(strm', conn') OBVIOUS
  <2> QED BY <2>1 DEF SumInv, ConnOK, SumOf, ClosedPeers, IsClosed
<1>9. WaitersBlocked' BY <1>1, <1>2, DueWaiters
<1> QED BY <1>1, <1>3, <1>4, <1>5, <1>6, <1>7, <1>8, <1>9, Together

LEMMA PeerOne ==
    ASSUME IInv, UNCHANGED <<plan, tasks, sending>>,
           NEW a \in Stream, NEW k \in Flow, NEW q \in Peer, strm[a].where = "map",
           NEW T, T = [strm EXCEPT ![a] = k], strm' = T, peer' = [peer EXCEPT ![a] = q],
           Good(strm[a], peer[a], k, q, handle[a]), k.where \in {"map", "closing"},
           NEW D \in Conn, conn' = D, D.receiving, D.incoming = conn.incoming, ConnOK(T, D)
    PROVE IInv'
<1>1. Types /\ StreamsInv BY Parts
<1>2. strm \in [Stream -> Flow] /\ peer \in [Stream -> Peer] BY <1>1 DEF Types
<1>3. T \in [Stream -> Flow] /\ T[a] = k /\ \A s \in Stream \ {a} : T[s] = strm[s] BY <1>2
<1>4. peer' \in [Stream -> Peer] /\ peer'[a] = q /\ \A s \in Stream \ {a} : peer'[s] = peer[s]
  BY <1>2
<1>5. handle' = handle BY DEF tasks
<1>6. AllGood
  <2>1. strm' = [strm EXCEPT ![a] = k] OBVIOUS
  <2>2. Good(strm[a], peer[a], k, peer'[a], handle'[a]) BY <1>4, <1>5
  <2> QED BY <1>1, <1>4, <1>5, <2>1, <2>2, OneStream
<1>7. ASSUME NEW s \in Stream
      PROVE /\ strm[s].where = "gone" => T[s].where = "gone" /\ SameRead(strm[s], T[s])
            /\ strm[s].where \in {"map", "closing"} => T[s].where \in {"map", "closing"}
            /\ T[s].where = "none" =>
                   /\ strm[s].where = "none"
                   /\ s \in ToSet(D.incoming) => s \in ToSet(conn.incoming)
  BY <1>3 DEF SameRead
<1> QED BY <1>3, <1>4, <1>6, <1>7, PeerTurn

\* The connection learns that the receiver's turn has begun, or goes on.
Receiving(C) == [C EXCEPT !.receiving = TRUE]
LEMMA ReceivingIs ==
    ASSUME NEW C \in Conn
    PROVE /\ Receiving(C) \in Conn /\ Receiving(C).receiving
          /\ Receiving(C).incoming = C.incoming /\ Receiving(C).buffered = C.buffered
          /\ Receiving(C).granted = C.granted /\ Receiving(C).credit = C.credit
          /\ Receiving(C).streamsGranted = C.streamsGranted
          /\ Receiving(C).streamCredit = C.streamCredit /\ Receiving(C).error = C.error
BY DEF Receiving, Conn

LEMMA PacketParts ==
    ASSUME NEW S, NEW C, ReadsPacket(S, C)
    PROVE strm' = S /\ conn' = Receiving(C) /\ UNCHANGED <<plan, tasks, sending>>
BY DEF ReadsPacket, Receiving

\* A stream changes neither in size nor in what it closes.
LEMMA PeerPlain ==
    ASSUME IInv, NEW a \in Stream, NEW k \in Flow, NEW q \in Peer, strm[a].where = "map",
           ReadsPacket([strm EXCEPT ![a] = k], conn), peer' = [peer EXCEPT ![a] = q],
           Good(strm[a], peer[a], k, q, handle[a]), k.where = "map",
           k.buffered = strm[a].buffered, k.consumed = strm[a].consumed,
           k.received = strm[a].received
    PROVE IInv'
<1>1. Types /\ SumInv BY Parts
<1>2. PICK T : T = [strm EXCEPT ![a] = k] OBVIOUS
<1>3. PICK D : D = Receiving(conn) OBVIOUS
<1>4. strm' = T /\ conn' = D /\ UNCHANGED <<plan, tasks, sending>> BY <1>2, <1>3, PacketParts
<1>5. strm \in [Stream -> Flow] /\ conn \in Conn BY <1>1 DEF Types
<1>6. T \in [Stream -> Flow] /\ T[a] = k /\ \A s \in Stream \ {a} : T[s] = strm[s] BY <1>2, <1>5
<1>7. /\ D \in Conn /\ D.receiving /\ D.incoming = conn.incoming /\ D.buffered = conn.buffered
      /\ D.granted = conn.granted /\ D.credit = conn.credit
      /\ D.streamsGranted = conn.streamsGranted /\ D.streamCredit = conn.streamCredit
  BY <1>3, <1>5, ReceivingIs
<1>8. \A s \in Stream : /\ T[s].buffered = strm[s].buffered /\ T[s].consumed = strm[s].consumed
                        /\ T[s].received = strm[s].received
                        /\ IsClosed(T[s]) <=> IsClosed(strm[s])
  BY <1>6 DEF IsClosed
<1>9. D.granted \in Nat BY <1>7 DEF Conn
<1>10. ConnOK(strm, conn) BY <1>1 DEF SumInv
<1>11. /\ D.granted + D.credit = conn.granted + conn.credit /\ D.granted >= conn.granted
       /\ D.streamsGranted + D.streamCredit = conn.streamsGranted + conn.streamCredit
  BY <1>7, <1>9
<1>12. ConnOK(T, D) BY <1>5, <1>6, <1>7, <1>8, <1>10, <1>11, CountsSame
<1> QED BY <1>2, <1>4, <1>7, <1>12, PeerOne

LEMMA StopStep ==
    ASSUME IInv, NEW a \in Stream, RecvStopSending(a)
    PROVE IInv'
<1>1. strm[a] \in Flow /\ peer[a] \in Peer /\ StreamOK(strm[a], peer[a], handle[a]) BY Parts
<1>2. PICK r \in Flow, p \in Peer : r = strm[a] /\ p = peer[a] BY <1>1
<1>3. PICK k, q : k = StopK(r) /\ q = [p EXCEPT !.stop = TRUE] OBVIOUS
<1>4. q \in Peer /\ SameOut(p, q) /\ q.granted = p.granted BY <1>3 DEF Peer, SameOut
<1>5. Good(r, p, k, q, handle[a])
  <2>1. k # MappedK(r) \/ r.where = "map" BY <1>2 DEF RecvStopSending
  <2> QED BY <1>1, <1>2, <1>3, <1>4, <2>1, PlainGood
<1>6. /\ k.where = r.where /\ k.buffered = r.buffered /\ k.consumed = r.consumed
      /\ k.received = r.received
  BY <1>3 DEF StopK, Flow
<1>7. strm \in [Stream -> Flow] /\ peer \in [Stream -> Peer] BY Parts DEF Types
<1>8. ReadsPacket([strm EXCEPT ![a] = k], conn)
  <2>1. [strm EXCEPT ![a].writeError = TRUE] = [strm EXCEPT ![a] = k]
    BY <1>2, <1>3, <1>7 DEF StopK
  <2> QED BY <2>1 DEF RecvStopSending
<1>9. peer' = [peer EXCEPT ![a] = q] BY <1>2, <1>3, <1>7 DEF RecvStopSending
<1>10. strm[a].where = "map" BY DEF RecvStopSending
<1>11. k \in Flow BY <1>5 DEF Good
<1> QED BY <1>2, <1>4, <1>5, <1>6, <1>8, <1>9, <1>10, <1>11, PeerPlain

\* The bytes arrive within both windows.
LEMMA CountsReceived ==
    ASSUME NEW S \in [Stream -> Flow], NEW C \in Conn, ConnOK(S, C), NEW a \in Stream,
           NEW T \in [Stream -> Flow], \A s \in Stream \ {a} : T[s] = S[s],
           IsClosed(T[a]) <=> IsClosed(S[a]), NEW n \in Nat,
           T[a].buffered = S[a].buffered, T[a].consumed = S[a].consumed,
           T[a].received = S[a].received + n, SumOf(S, "received") + n <= ConnWindow + C.granted
    PROVE ConnOK(T, C)
<1>1. \A s \in Stream : S[s]["buffered"] = T[s]["buffered"] /\ S[s]["consumed"] = T[s]["consumed"]
  BY FlowFields
<1>2. SumOf(T, "buffered") = SumOf(S, "buffered") /\ SumOf(T, "consumed") = SumOf(S, "consumed")
  BY <1>1, SumsSame
<1>3. SumOf(T, "received") = SumOf(S, "received") + n
  <2>1. /\ SumOf(S, "received") \in Nat
        /\ SumOf(T, "received") = SumOf(S, "received") + (T[a]["received"] - S[a]["received"])
    BY SumsOne DEF Counted
  <2>2. T[a]["received"] = S[a]["received"] + n /\ S[a]["received"] \in Nat BY FlowFields
  <2> QED BY <2>1, <2>2
<1>4. ClosedPeers(T) = ClosedPeers(S)
  <2>1. \A s \in Stream : IsClosed(S[s]) <=> IsClosed(T[s]) BY DEF IsClosed
  <2> QED BY <2>1, ClosedSame
<1> QED BY <1>2, <1>3, <1>4 DEF ConnOK

LEMMA DataStep ==
    ASSUME IInv, NEW a \in Stream, RecvStreamData(a)
    PROVE IInv'
<1>1. /\ strm[a] \in Flow /\ peer[a] \in Peer /\ StreamOK(strm[a], peer[a], handle[a])
      /\ Types /\ SumInv /\ plan \in Plans
  BY Parts
<1>2. PICK r \in Flow, p \in Peer : r = strm[a] /\ p = peer[a] BY <1>1
<1>3. strm \in [Stream -> Flow] /\ peer \in [Stream -> Peer] /\ conn \in Conn BY <1>1 DEF Types
<1>4. r.where = "map" /\ ~r.readFin /\ UNCHANGED peer BY <1>2 DEF RecvStreamData
<1>5. PICK n \in 0 .. (plan.rx[a] - r.received), fin \in BOOLEAN :
          /\ r.received + n <= StreamWindow + p.granted
          /\ Received + n <= ConnWindow + conn.granted
          /\ ReadsPacket([strm EXCEPT ![a].received = @ + n, ![a].readFin = fin], conn)
  BY <1>2 DEF RecvStreamData
<1>6. n \in Nat
  <2>1. plan.rx[a] \in Nat /\ r.received \in Nat BY <1>1, PlanType DEF Flow
  <2> QED BY <1>5, <2>1
<1>7. PICK k : k = DataK(r, n, fin) OBVIOUS
<1>8. Good(r, p, k, p, handle[a]) BY <1>1, <1>2, <1>4, <1>5, <1>6, <1>7, DataGood
<1>9. k \in Flow BY <1>8 DEF Good
<1>10. /\ k.where = r.where /\ k.buffered = r.buffered /\ k.consumed = r.consumed
       /\ k.received = r.received + n
  BY <1>7 DEF DataK, Flow
<1>11. PICK T : T = [strm EXCEPT ![a] = k] OBVIOUS
<1>12. T \in [Stream -> Flow] /\ T[a] = k /\ \A s \in Stream \ {a} : T[s] = strm[s]
  BY <1>3, <1>9, <1>11
<1>13. [strm EXCEPT ![a].received = @ + n, ![a].readFin = fin] = T
  BY <1>2, <1>3, <1>7, <1>11 DEF DataK
<1>14. PICK D : D = Receiving(conn) OBVIOUS
<1>15. strm' = T /\ conn' = D /\ UNCHANGED <<plan, tasks, sending>>
  BY <1>5, <1>13, <1>14, PacketParts
<1>16. /\ D \in Conn /\ D.receiving /\ D.incoming = conn.incoming /\ D.buffered = conn.buffered
       /\ D.granted = conn.granted /\ D.credit = conn.credit
       /\ D.streamsGranted = conn.streamsGranted /\ D.streamCredit = conn.streamCredit
  BY <1>3, <1>14, ReceivingIs
<1>17. ConnOK(T, D)
  <2>1. ConnOK(strm, conn) BY <1>1 DEF SumInv
  <2>2. SumOf(strm, "received") + n <= ConnWindow + conn.granted BY <1>5, SumsAre
  <2>3. IsClosed(T[a]) <=> IsClosed(strm[a]) BY <1>2, <1>10, <1>12 DEF IsClosed
  <2>4. ConnOK(T, conn) BY <1>2, <1>3, <1>6, <1>10, <1>12, <2>1, <2>2, <2>3, CountsReceived
  <2> QED BY <1>16, <2>4 DEF ConnOK
<1>18. peer' = [peer EXCEPT ![a] = p] BY <1>2, <1>3, <1>4
<1>19. Good(strm[a], peer[a], k, p, handle[a]) /\ strm[a].where = "map" /\ k.where = "map"
  BY <1>2, <1>4, <1>8, <1>10
<1> QED BY <1>9, <1>11, <1>15, <1>16, <1>17, <1>18, <1>19, PeerOne

LEMMA BrokenStep ==
    ASSUME IInv, NEW a \in Stream, RecvReset(a)
    PROVE IInv'
<1>1. /\ strm[a] \in Flow /\ peer[a] \in Peer /\ StreamOK(strm[a], peer[a], handle[a])
      /\ Types /\ SumInv
  BY Parts
<1>2. PICK r \in Flow, p \in Peer, C \in Conn : r = strm[a] /\ p = peer[a] /\ C = conn
  BY <1>1 DEF Types
<1>3. strm \in [Stream -> Flow] /\ peer \in [Stream -> Peer] BY <1>1 DEF Types
<1>4. PICK k, q : k = BrokenK(r) /\ q = [p EXCEPT !.reset = TRUE] OBVIOUS
<1>5. q \in Peer BY <1>4 DEF Peer
<1>6. Good(r, p, k, q, handle[a]) BY <1>1, <1>2, <1>4, BrokenGood
<1>7. k \in Flow BY <1>6 DEF Good
<1>8. /\ k.where = r.where /\ k.buffered = r.buffered /\ k.consumed = r.received
      /\ k.received = r.received
  BY <1>4 DEF BrokenK, Discarded, Flow
<1>9. r.consumed \in Nat /\ r.received \in Nat /\ r.consumed <= r.received
  BY <1>1, <1>2 DEF StreamOK, ReceiveOK, Flow
<1>10. PICK n : n = Unread(r) OBVIOUS
<1>11. n \in Nat /\ k.consumed = r.consumed + n BY <1>8, <1>9, <1>10 DEF Unread
<1>12. PICK E : E = Credited(C, r) OBVIOUS
<1>13. /\ E \in Conn /\ E.incoming = C.incoming /\ E.buffered = C.buffered
       /\ E.granted = C.granted /\ E.credit = C.credit + n
       /\ E.streamsGranted = C.streamsGranted /\ E.streamCredit = C.streamCredit
  <2>1. PICK x : x = C.credit + n OBVIOUS
  <2>2. C.credit \in Nat BY DEF Conn
  <2>3. x \in Nat BY <1>11, <2>1, <2>2
  <2>4. E = [C EXCEPT !.credit = x] BY <1>10, <1>12, <2>1 DEF Credited, Conn
  <2> QED BY <2>1, <2>3, <2>4 DEF Conn
<1>14. PICK T : T = [strm EXCEPT ![a] = k] OBVIOUS
<1>15. T \in [Stream -> Flow] /\ T[a] = k /\ \A s \in Stream \ {a} : T[s] = strm[s]
  BY <1>3, <1>7, <1>14
<1>16. PICK D : D = Receiving(E) OBVIOUS
<1>17. strm' = T /\ conn' = D /\ UNCHANGED <<plan, tasks, sending>>
  <2>1. [strm EXCEPT ![a] = [Discarded(@) EXCEPT !.readError = TRUE]] = T
    BY <1>2, <1>3, <1>4, <1>14 DEF BrokenK
  <2>2. ReadsPacket(T, E) BY <1>2, <1>12, <2>1 DEF RecvReset
  <2> QED BY <1>16, <2>2, PacketParts
<1>18. /\ D \in Conn /\ D.receiving /\ D.incoming = C.incoming /\ D.buffered = C.buffered
       /\ D.granted = C.granted /\ D.credit = C.credit + n
       /\ D.streamsGranted = C.streamsGranted /\ D.streamCredit = C.streamCredit
  BY <1>13, <1>16, ReceivingIs
<1>19. ConnOK(T, D)
  <2>1. ConnOK(strm, C) BY <1>1, <1>2 DEF SumInv
  <2>2. /\ C.buffered \in Int /\ C.granted \in Int /\ C.credit \in Int /\ r.buffered \in Int
        /\ C.streamsGranted \in Int /\ C.streamCredit \in Int
    BY Limits DEF Conn, Flow
  <2>3. IsClosed(T[a]) <=> IsClosed(strm[a]) BY <1>2, <1>8, <1>15 DEF IsClosed
  <2>4. /\ D.buffered = C.buffered + (T[a].buffered - strm[a].buffered)
        /\ D.granted + D.credit = C.granted + C.credit + (T[a].consumed - strm[a].consumed)
        /\ T[a].received = strm[a].received /\ D.granted = C.granted
        /\ D.streamsGranted + D.streamCredit = C.streamsGranted + C.streamCredit
    BY <1>2, <1>8, <1>9, <1>11, <1>15, <1>18, <2>2
  <2> QED BY <1>3, <1>15, <1>18, <2>1, <2>3, <2>4, CountsOne
<1>20. peer' = [peer EXCEPT ![a] = q] BY <1>2, <1>3, <1>4 DEF RecvReset
<1>21. Good(strm[a], peer[a], k, q, handle[a]) /\ strm[a].where = "map" /\ k.where = "map"
       /\ D.incoming = conn.incoming
  BY <1>2, <1>6, <1>8, <1>18 DEF RecvReset
<1> QED BY <1>5, <1>7, <1>14, <1>17, <1>18, <1>19, <1>20, <1>21, PeerOne

LEMMA AckStep ==
    ASSUME IInv, NEW a \in Stream, RecvAck(a)
    PROVE IInv'
<1>1. /\ strm[a] \in Flow /\ peer[a] \in Peer /\ StreamOK(strm[a], peer[a], handle[a])
      /\ Types /\ SumInv
  BY Parts
<1>2. PICK r \in Flow, p \in Peer, C \in Conn : r = strm[a] /\ p = peer[a] /\ C = conn
  BY <1>1 DEF Types
<1>3. strm \in [Stream -> Flow] /\ peer \in [Stream -> Peer] BY <1>1 DEF Types
<1>4. PICK offset \in (p.acked + 1) .. p.wire :
          LET first == r.accepted - r.buffered
              freed == {i \in DOMAIN r.tx : first + SumFunctionOnSet(r.tx, 1 .. i) <= offset}
              count == Cardinality(freed)
              bytes == SumFunctionOnSet(r.tx, freed)
          IN  /\ ReadsPacket([strm EXCEPT ![a].tx = SubSeq(@, count + 1, Len(@)),
                                     ![a].buffered = @ - bytes],
                        [C EXCEPT !.buffered = @ - bytes])
              /\ peer' = [peer EXCEPT ![a].acked = offset]
  BY <1>2 DEF RecvAck
<1>5. PICK freed : freed = {i \in DOMAIN r.tx : (r.accepted - r.buffered)
                                                    + SumFunctionOnSet(r.tx, 1 .. i) <= offset}
  OBVIOUS
<1>6. PICK c, n : c = Cardinality(freed) /\ n = SumFunctionOnSet(r.tx, freed) OBVIOUS
<1>7. /\ ReadsPacket([strm EXCEPT ![a].tx = SubSeq(@, c + 1, Len(@)), ![a].buffered = @ - n],
                [C EXCEPT !.buffered = @ - n])
      /\ peer' = [peer EXCEPT ![a].acked = offset]
  BY <1>4, <1>5, <1>6
<1>8. offset \in Nat BY <1>4 DEF Peer
<1>9. PICK k, q : k = AckK(r, c, n) /\ q = [p EXCEPT !.acked = offset] OBVIOUS
<1>10. /\ SubSeq(r.tx, c + 1, Len(r.tx)) \in Seq(Nat \ {0}) /\ n \in 0 .. r.buffered
       /\ r.buffered - n = SumFunction(SubSeq(r.tx, c + 1, Len(r.tx)))
  <2>1. freed \subseteq DOMAIN r.tx BY <1>5
  <2>2. \A i \in DOMAIN r.tx : i \in freed <=>
            (r.accepted - r.buffered) + SumFunctionOnSet(r.tx, 1 .. i) <= offset
    BY <1>5
  <2>3. r.buffered = SumFunction(r.tx) /\ offset \in Int BY <1>1, <1>2, <1>8 DEF StreamOK
  <2> HIDE <1>5
  <2> QED BY <1>6, <2>1, <2>2, <2>3, Freed
<1>11. q \in Peer BY <1>8, <1>9 DEF Peer
<1>12. Good(r, p, k, q, handle[a]) BY <1>1, <1>2, <1>8, <1>9, <1>10, AckGood
<1>13. k \in Flow BY <1>12 DEF Good
<1>14. /\ k.where = r.where /\ k.consumed = r.consumed /\ k.received = r.received
       /\ k.buffered = r.buffered - n
  BY <1>9 DEF AckK, Flow
<1>15. r.buffered \in Nat /\ C.buffered \in 0 .. ConnSendLimit /\ r.buffered <= C.buffered
  <2>1. ConnOK(strm, C) BY <1>1, <1>2 DEF SumInv
  <2>2. r.buffered \in Nat /\ r.buffered <= SumOf(strm, "buffered")
    <3>1. strm[a]["buffered"] \in Nat /\ strm[a]["buffered"] <= SumOf(strm, "buffered")
      BY <1>3, SumsAbove DEF Counted
    <3> QED BY <1>2, <3>1
  <2> QED BY <2>1, <2>2 DEF ConnOK, Conn
<1>16. PICK E : E = [C EXCEPT !.buffered = @ - n] OBVIOUS
<1>17. /\ E \in Conn /\ E.incoming = C.incoming /\ E.buffered = C.buffered - n
       /\ E.granted = C.granted /\ E.credit = C.credit
       /\ E.streamsGranted = C.streamsGranted /\ E.streamCredit = C.streamCredit
  <2>1. PICK x : x = C.buffered - n OBVIOUS
  <2>2. x \in 0 .. ConnSendLimit BY <1>10, <1>15, <2>1, Limits
  <2>3. E = [C EXCEPT !.buffered = x] BY <1>16, <2>1 DEF Conn
  <2> QED BY <2>1, <2>2, <2>3 DEF Conn
<1>18. PICK T : T = [strm EXCEPT ![a] = k] OBVIOUS
<1>19. T \in [Stream -> Flow] /\ T[a] = k /\ \A s \in Stream \ {a} : T[s] = strm[s]
  BY <1>3, <1>13, <1>18
<1>20. PICK D : D = Receiving(E) OBVIOUS
<1>21. strm' = T /\ conn' = D /\ UNCHANGED <<plan, tasks, sending>>
  <2>1. [strm EXCEPT ![a].tx = SubSeq(@, c + 1, Len(@)), ![a].buffered = @ - n] = T
    BY <1>2, <1>3, <1>9, <1>18 DEF AckK
  <2>2. ReadsPacket(T, E) BY <1>7, <1>16, <2>1
  <2> QED BY <1>20, <2>2, PacketParts
<1>22. /\ D \in Conn /\ D.receiving /\ D.incoming = C.incoming /\ D.buffered = C.buffered - n
       /\ D.granted = C.granted /\ D.credit = C.credit
       /\ D.streamsGranted = C.streamsGranted /\ D.streamCredit = C.streamCredit
  BY <1>17, <1>20, ReceivingIs
<1>23. ConnOK(T, D)
  <2>1. ConnOK(strm, C) BY <1>1, <1>2 DEF SumInv
  <2>2. /\ C.buffered \in Int /\ C.granted \in Int /\ C.credit \in Int /\ r.consumed \in Int
        /\ C.streamsGranted \in Int /\ C.streamCredit \in Int /\ n \in Int
    BY <1>10, <1>15, Limits DEF Conn, Flow
  <2>3. IsClosed(T[a]) <=> IsClosed(strm[a]) BY <1>2, <1>14, <1>19 DEF IsClosed
  <2>4. /\ D.buffered = C.buffered + (T[a].buffered - strm[a].buffered)
        /\ D.granted + D.credit = C.granted + C.credit + (T[a].consumed - strm[a].consumed)
        /\ T[a].received = strm[a].received /\ D.granted = C.granted
        /\ D.streamsGranted + D.streamCredit = C.streamsGranted + C.streamCredit
    BY <1>2, <1>14, <1>15, <1>19, <1>22, <2>2
  <2> QED BY <1>3, <1>19, <1>22, <2>1, <2>3, <2>4, CountsOne
<1>24. peer' = [peer EXCEPT ![a] = q] BY <1>2, <1>3, <1>7, <1>9
<1>25. Good(strm[a], peer[a], k, q, handle[a]) /\ strm[a].where = "map" /\ k.where = "map"
       /\ D.incoming = conn.incoming
  BY <1>2, <1>12, <1>14, <1>22 DEF RecvAck
<1> HIDE <1>5
<1> QED BY <1>11, <1>13, <1>18, <1>21, <1>22, <1>23, <1>24, <1>25, PeerOne

LEMMA CloseStep ==
    ASSUME IInv, NEW a \in Stream, StreamClose(a)
    PROVE IInv'
<1>1. /\ strm[a] \in Flow /\ peer[a] \in Peer /\ StreamOK(strm[a], peer[a], handle[a])
      /\ Types /\ SumInv
  BY Parts
<1>2. PICK r \in Flow, p \in Peer, C \in Conn : r = strm[a] /\ p = peer[a] /\ C = conn
  BY <1>1 DEF Types
<1>3. strm \in [Stream -> Flow] /\ peer \in [Stream -> Peer] BY <1>1 DEF Types
<1>4. PICK rx, tx : rx = RxFlag(a) /\ tx = TxFlag(a) OBVIOUS
<1>5. rx \in BOOLEAN /\ tx \in BOOLEAN /\ (rx \/ r.readFin) /\ r.where = "map"
  <2>1. rx \in BOOLEAN /\ tx \in BOOLEAN
    BY <1>2, <1>4 DEF RxFlag, TxFlag, Flow, Peer
  <2>2. r.readFin \/ p.reset \/ r.resetApplied BY <1>2 DEF StreamClose
  <2>3. rx \/ r.readFin BY <1>2, <1>4, <2>2 DEF RxFlag
  <2>4. r.where = "map" BY <1>2 DEF StreamClose
  <2> QED BY <2>1, <2>3, <2>4
<1>6. PICK k : k = ClosedStream(r, rx, tx) OBVIOUS
<1>7. Good(r, p, k, p, handle[a]) BY <1>1, <1>2, <1>5, <1>6, CloseGood
<1>8. k \in Flow BY <1>7 DEF Good
<1>9. k.where = "closing" BY <1>5, <1>6, CloseIs
<1>10. PICK E : E = StreamClosed(C, a, rx) OBVIOUS
<1>11. r.consumed <= r.received /\ r.buffered <= C.buffered
  <2>1. ConnOK(strm, C) BY <1>1, <1>2 DEF SumInv
  <2>2. strm[a]["buffered"] <= SumOf(strm, "buffered") BY <1>3, SumsAbove DEF Counted
  <2>3. r.buffered <= C.buffered BY <1>2, <2>1, <2>2 DEF ConnOK
  <2> QED BY <1>1, <1>2, <2>3 DEF StreamOK, ReceiveOK
<1>12. E \in Conn /\ E.incoming = C.incoming
  BY <1>2, <1>5, <1>10, <1>11, StreamClosedType
<1>13. PICK T : T = [strm EXCEPT ![a] = k] OBVIOUS
<1>14. T \in [Stream -> Flow] BY <1>3, <1>8, <1>13
<1>15. PICK D : D = Receiving(E) OBVIOUS
<1>16. strm' = T /\ conn' = D /\ UNCHANGED <<plan, tasks, sending>>
  <2>1. [strm EXCEPT ![a] = ClosedStream(@, RxFlag(a), TxFlag(a))] = T
    BY <1>2, <1>3, <1>4, <1>6, <1>13
  <2>2. ReadsPacket(T, E) BY <1>2, <1>4, <1>10, <2>1 DEF StreamClose
  <2> QED BY <1>15, <2>2, PacketParts
<1>17. /\ D \in Conn /\ D.receiving /\ D.incoming = E.incoming /\ D.buffered = E.buffered
       /\ D.granted = E.granted /\ D.credit = E.credit
       /\ D.streamsGranted = E.streamsGranted /\ D.streamCredit = E.streamCredit
  BY <1>12, <1>15, ReceivingIs
<1>18. ConnOK(T, D)
  <2>1. ConnOK(strm, C) BY <1>1, <1>2 DEF SumInv
  <2>2. ~IsClosed(strm[a]) BY <1>2, <1>5 DEF IsClosed
  <2>3. T = [strm EXCEPT ![a] = ClosedStream(@, rx, tx)] BY <1>2, <1>3, <1>6, <1>13
  <2>4. StreamClosed(C, a, rx) \in Conn BY <1>10, <1>12
  <2>5. ConnOK(T, StreamClosed(C, a, rx))
    BY <1>3, <1>5, <1>14, <2>1, <2>2, <2>3, <2>4, CountsClosed
  <2>6. ConnOK(T, E) BY <1>10, <2>5
  <2> QED BY <1>17, <2>6 DEF ConnOK
<1>19. peer' = [peer EXCEPT ![a] = p] BY <1>2, <1>3 DEF StreamClose
<1>20. Good(strm[a], peer[a], k, p, handle[a]) /\ strm[a].where = "map"
       /\ k.where \in {"map", "closing"} /\ D.incoming = conn.incoming
  BY <1>2, <1>5, <1>7, <1>9, <1>12, <1>17
<1> QED BY <1>8, <1>13, <1>16, <1>17, <1>18, <1>19, <1>20, PeerOne

LEMMA FailedGood ==
    ASSUME NEW r \in Flow, NEW p \in Peer, NEW m, NEW q, NEW g, Good(r, p, m, q, g)
    PROVE Good(r, p, FailK(m), q, g)
<1>1. m \in Flow /\ q \in Peer /\ StreamOK(m, q, g) BY DEF Good
<1>2. PICK l : l = FailK(m) OBVIOUS
<1>3. /\ l \in Flow
      /\ SameReceive(m, l) /\ SameSend(m, l) /\ SameBuffer(m, l) /\ SameLife(m, l)
  BY <1>1, <1>2 DEF FailK, Flow, SameReceive, SameSend, SameBuffer, SameLife
<1>4. StreamOK(l, q, g) BY <1>1, <1>3, SameOK
<1>5. KeepsOut(r, p, l, q) BY <1>3 DEF Good, KeepsOut, SameSend
<1> QED BY <1>1, <1>2, <1>3, <1>4, <1>5 DEF Good

\* A failure of the connection reaches the streams of the map, and changes no count.
LEMMA FailedIs ==
    ASSUME NEW S \in [Stream -> Flow], NEW T, T = Failed(S)
    PROVE /\ T \in [Stream -> Flow]
          /\ \A s \in Stream :
                 /\ T[s] = S[s] \/ (S[s].where = "map" /\ T[s] = FailK(S[s]))
                 /\ T[s].where = S[s].where /\ T[s].buffered = S[s].buffered
                 /\ T[s].consumed = S[s].consumed /\ T[s].received = S[s].received
<1>1. ASSUME NEW s \in Stream
      PROVE /\ T[s] \in Flow /\ (T[s] = S[s] \/ (S[s].where = "map" /\ T[s] = FailK(S[s])))
            /\ T[s].where = S[s].where /\ T[s].buffered = S[s].buffered
            /\ T[s].consumed = S[s].consumed /\ T[s].received = S[s].received
  <2>1. PICK r \in Flow : r = S[s] OBVIOUS
  <2>2. CASE r.where = "map"
    <3>1. T[s] = FailK(r) BY <2>1, <2>2 DEF Failed, FailK
    <3> QED BY <2>1, <2>2, <3>1 DEF FailK, Flow
  <2>3. CASE r.where # "map"
    <3>1. T[s] = r BY <2>1, <2>3 DEF Failed
    <3> QED BY <2>1, <3>1
  <2> QED BY <2>2, <2>3
<1>2. T = [s \in Stream |-> T[s]] BY DEF Failed
<1> QED BY <1>1, <1>2

LEMMA FailsStep ==
    ASSUME IInv, ConnectionFails
    PROVE IInv'
<1>1. Types /\ StreamsInv /\ SumInv BY Parts
<1>2. strm \in [Stream -> Flow] /\ peer \in [Stream -> Peer] /\ conn \in Conn BY <1>1 DEF Types
<1>3. PICK T : T = Failed(strm) OBVIOUS
<1>4. /\ T \in [Stream -> Flow]
      /\ \A s \in Stream :
             /\ T[s] = strm[s] \/ (strm[s].where = "map" /\ T[s] = FailK(strm[s]))
             /\ T[s].where = strm[s].where /\ T[s].buffered = strm[s].buffered
             /\ T[s].consumed = strm[s].consumed /\ T[s].received = strm[s].received
  BY <1>2, <1>3, FailedIs
<1>5. PICK E : E = [conn EXCEPT !.error = TRUE] OBVIOUS
<1>6. /\ E \in Conn /\ E.incoming = conn.incoming /\ E.buffered = conn.buffered
      /\ E.granted = conn.granted /\ E.credit = conn.credit
      /\ E.streamsGranted = conn.streamsGranted /\ E.streamCredit = conn.streamCredit
  BY <1>2, <1>5 DEF Conn
<1>7. PICK D : D = Receiving(E) OBVIOUS
<1>8. strm' = T /\ conn' = D /\ UNCHANGED <<plan, tasks, sending, peer>>
  <2>1. ReadsPacket(T, E) /\ UNCHANGED peer BY <1>3, <1>5 DEF ConnectionFails
  <2> QED BY <1>7, <2>1, PacketParts
<1>9. /\ D \in Conn /\ D.receiving /\ D.incoming = conn.incoming /\ D.buffered = conn.buffered
      /\ D.granted = conn.granted /\ D.credit = conn.credit
      /\ D.streamsGranted = conn.streamsGranted /\ D.streamCredit = conn.streamCredit
  BY <1>6, <1>7, ReceivingIs
<1>10. AllGood
  <2>1. ASSUME NEW s \in Stream
        PROVE Good(strm[s], peer[s], strm'[s], peer'[s], handle'[s])
    <3>1. strm[s] \in Flow /\ peer[s] \in Peer /\ StreamOK(strm[s], peer[s], handle[s])
      BY <1>1, <1>2 DEF StreamsInv
    <3>2. Good(strm[s], peer[s], strm[s], peer[s], handle[s]) BY <3>1, StayGood
    <3>3. Good(strm[s], peer[s], FailK(strm[s]), peer[s], handle[s]) BY <3>1, <3>2, FailedGood
    <3>4. Good(strm[s], peer[s], T[s], peer[s], handle[s]) BY <1>4, <3>2, <3>3
    <3> QED BY <1>8, <3>4 DEF tasks
  <2> QED BY <2>1 DEF AllGood
<1>11. ConnOK(T, D)
  <2>1. ConnOK(strm, conn) BY <1>1 DEF SumInv
  <2>2. /\ D.granted + D.credit = conn.granted + conn.credit /\ D.granted >= conn.granted
        /\ D.streamsGranted + D.streamCredit = conn.streamsGranted + conn.streamCredit
    BY <1>2, <1>9 DEF Conn
  <2>3. \A s \in Stream : /\ T[s].buffered = strm[s].buffered /\ T[s].consumed = strm[s].consumed
                          /\ T[s].received = strm[s].received
                          /\ IsClosed(T[s]) <=> IsClosed(strm[s])
    BY <1>4 DEF IsClosed
  <2> QED BY <1>2, <1>4, <1>9, <2>1, <2>2, <2>3, CountsSame
<1>12. ASSUME NEW s \in Stream
       PROVE /\ strm[s].where = "gone" => T[s].where = "gone" /\ SameRead(strm[s], T[s])
             /\ strm[s].where \in {"map", "closing"} => T[s].where \in {"map", "closing"}
             /\ T[s].where = "none" =>
                    /\ strm[s].where = "none"
                    /\ s \in ToSet(D.incoming) => s \in ToSet(conn.incoming)
  BY <1>4, <1>9 DEF SameRead
<1>13. peer' \in [Stream -> Peer] BY <1>2, <1>8
<1> QED BY <1>4, <1>8, <1>9, <1>10, <1>11, <1>12, <1>13, PeerTurn

LEMMA StreamOpenStep ==
    ASSUME IInv, NEW a \in Stream, StreamOpen(a)
    PROVE IInv'
<1>1. /\ strm[a] \in Flow /\ peer[a] \in Peer /\ StreamOK(strm[a], peer[a], handle[a])
      /\ Types /\ StreamsInv /\ SumInv
  BY Parts
<1>2. PICK r \in Flow, p \in Peer, C \in Conn : r = strm[a] /\ p = peer[a] /\ C = conn
  BY <1>1 DEF Types
<1>3. strm \in [Stream -> Flow] /\ peer \in [Stream -> Peer] BY <1>1 DEF Types
<1>4. r.where = "none" BY <1>2 DEF StreamOpen
<1>5. PICK k : k = MappedK(r) OBVIOUS
<1>6. Good(r, p, k, p, handle[a])
  <2>1. SameOut(p, p) BY DEF SameOut
  <2> QED BY <1>1, <1>2, <1>4, <1>5, <2>1, PlainGood
<1>7. k \in Flow BY <1>6 DEF Good
<1>8. /\ k.where = "map" /\ k.buffered = r.buffered /\ k.consumed = r.consumed
      /\ k.received = r.received
  BY <1>5 DEF MappedK, Flow
<1>9. PICK T : T = [strm EXCEPT ![a] = k] OBVIOUS
<1>10. T \in [Stream -> Flow] /\ T[a] = k /\ \A s \in Stream \ {a} : T[s] = strm[s]
  BY <1>3, <1>7, <1>9
<1>11. PICK q : q = Append(C.incoming, a) OBVIOUS
<1>12. q \in Seq(Stream) /\ ToSet(q) = ToSet(C.incoming) \cup {a}
  <2>1. C.incoming \in Seq(Stream) BY DEF Conn
  <2> QED BY <1>11, <2>1, ToSetAppend
<1>13. PICK E : E = [C EXCEPT !.incoming = q] OBVIOUS
<1>14. /\ E \in Conn /\ E.incoming = q /\ E.buffered = C.buffered
       /\ E.granted = C.granted /\ E.credit = C.credit
       /\ E.streamsGranted = C.streamsGranted /\ E.streamCredit = C.streamCredit
  BY <1>12, <1>13 DEF Conn
<1>15. PICK D : D = Receiving(E) OBVIOUS
<1>16. strm' = T /\ conn' = D /\ UNCHANGED <<plan, tasks, sending, peer>>
  <2>1. [strm EXCEPT ![a].where = "map"] = T BY <1>2, <1>3, <1>5, <1>9 DEF MappedK
  <2>2. [conn EXCEPT !.incoming = Append(@, a)] = E BY <1>2, <1>11, <1>13 DEF Conn
  <2>3. ReadsPacket(T, E) /\ UNCHANGED peer BY <2>1, <2>2 DEF StreamOpen
  <2> QED BY <1>15, <2>3, PacketParts
<1>17. /\ D \in Conn /\ D.receiving /\ D.incoming = q /\ D.buffered = C.buffered
       /\ D.granted = C.granted /\ D.credit = C.credit
       /\ D.streamsGranted = C.streamsGranted /\ D.streamCredit = C.streamCredit
  BY <1>14, <1>15, ReceivingIs
<1>18. AllGood
  <2>1. strm' = [strm EXCEPT ![a] = k] BY <1>9, <1>16
  <2>2. Good(strm[a], peer[a], k, peer'[a], handle'[a]) BY <1>2, <1>6, <1>16 DEF tasks
  <2>3. \A s \in Stream \ {a} : peer'[s] = peer[s] /\ handle'[s] = handle[s]
    BY <1>16 DEF tasks
  <2> QED BY <1>1, <2>1, <2>2, <2>3, OneStream
<1>19. ConnOK(T, D)
  <2>1. ConnOK(strm, C) BY <1>1, <1>2 DEF SumInv
  <2>2. /\ D.granted + D.credit = C.granted + C.credit /\ D.granted >= C.granted
        /\ D.streamsGranted + D.streamCredit = C.streamsGranted + C.streamCredit
    BY <1>17 DEF Conn
  <2>3. \A s \in Stream : /\ T[s].buffered = strm[s].buffered /\ T[s].consumed = strm[s].consumed
                          /\ T[s].received = strm[s].received
                          /\ IsClosed(T[s]) <=> IsClosed(strm[s])
    BY <1>2, <1>4, <1>8, <1>10 DEF IsClosed
  <2> QED BY <1>3, <1>10, <1>17, <2>1, <2>2, <2>3, CountsSame
<1>20. ASSUME NEW s \in Stream
       PROVE /\ strm[s].where = "gone" => T[s].where = "gone" /\ SameRead(strm[s], T[s])
             /\ strm[s].where \in {"map", "closing"} => T[s].where \in {"map", "closing"}
             /\ T[s].where = "none" =>
                    /\ strm[s].where = "none"
                    /\ s \in ToSet(D.incoming) => s \in ToSet(conn.incoming)
  <2>1. CASE s = a BY <1>2, <1>4, <1>8, <1>10, <2>1
  <2>2. CASE s # a
    <3>1. T[s] = strm[s] BY <1>10, <2>2
    <3>2. s \in ToSet(D.incoming) => s \in ToSet(conn.incoming) BY <1>2, <1>12, <1>17, <2>2
    <3> QED BY <3>1, <3>2 DEF SameRead
  <2> QED BY <2>1, <2>2
<1>21. peer' \in [Stream -> Peer] BY <1>3, <1>16
<1> QED BY <1>10, <1>16, <1>17, <1>18, <1>19, <1>20, <1>21, PeerTurn

-----------------------------------------------------------------------------
(* The steps that end in notify: of the receiver, and of the sender after its await. *)

LEMMA NotifyTurn ==
    ASSUME IInv, NEW S \in [Stream -> Flow], NEW C \in Conn, Notify(S, C),
           UNCHANGED <<plan, handle, want, peer, udp>>,
           \A s \in Stream : Good(strm[s], peer[s], S[s], peer[s], handle[s]),
           ConnOK(S, C),
           \A s \in Stream : S[s].where = strm[s].where
                             /\ (strm[s].where = "gone" => SameRead(strm[s], S[s])),
           ToSet(C.incoming) \subseteq ToSet(conn.incoming),
           \/ UNCHANGED <<phase, batch>>
           \/ phase' = "idle" /\ batch' = << >>
    PROVE IInv'
<1>1. /\ plan \in Plans /\ Types /\ StreamsInv /\ BatchInv /\ UdpInv /\ TaskInv /\ SumInv
      /\ WaitersBlocked
  BY Parts
<1>2. reader \in [Stream -> Task] /\ writer \in [Stream -> Task] BY <1>1 DEF Types
<1>3. /\ strm' \in [Stream -> Flow] /\ \A s \in Stream : strm'[s] = NotifiedK(S[s])
      /\ conn' \in Conn /\ ToSet(conn'.incoming) \subseteq ToSet(C.incoming)
      /\ reader' \in [Stream -> Task] /\ writer' \in [Stream -> Task]
      /\ \A s \in Stream : reader[s] = "none" => reader'[s] = "none"
      /\ \A s \in Stream : writer[s] = "none" => writer'[s] = "none"
  BY <1>2, NotifyParts
<1>4. AllGood
  <2>1. \A s \in Stream : Good(strm[s], peer[s], S[s], peer'[s], handle'[s]) OBVIOUS
  <2> QED BY <1>1, <2>1, NotifyGood
<1>5. Types'
  <2>1. phase' \in {"idle", "writing", "sending"} /\ batch' \in Seq(Receipt)
    <3>1. << >> \in Seq(Receipt) OBVIOUS
    <3>2. phase \in {"idle", "writing", "sending"} /\ batch \in Seq(Receipt) BY <1>1 DEF Types
    <3>3. CASE UNCHANGED <<phase, batch>> BY <3>2, <3>3
    <3>4. CASE phase' = "idle" /\ batch' = << >> BY <3>1, <3>4
    <3> QED BY <3>3, <3>4
  <2> QED BY <1>1, <1>3, <2>1 DEF Types
<1>6. StreamsInv' BY <1>4, StreamsKept
<1>7. BatchInv'
  <2>1. CASE phase' = "idle" /\ batch' = << >> BY <2>1, BatchEmptied
  <2>2. CASE UNCHANGED <<phase, batch>>
    <3>1. Out' = Out BY <2>2 DEF Out
    <3>2. phase' = "sending" => udp'.count = Len(batch) BY <1>1, <2>2 DEF BatchInv
    <3> QED BY <1>1, <1>4, <2>2, <3>1, <3>2, BatchKept
  <2> QED BY <2>1, <2>2
<1>8. UdpInv' BY <1>1, UdpSame
<1>9. TaskInv'
  <2>1. ASSUME NEW s \in Stream, strm'[s].where = "none"
        PROVE strm[s].where = "none"
    <3>1. strm'[s] = NotifiedK(S[s]) /\ S[s] \in Flow BY <1>3
    <3>2. S[s].where = "none" BY <2>1, <3>1 DEF NotifiedK, Flow
    <3> QED BY <3>2
  <2> QED BY <1>1, <1>3, <2>1, TaskKept
<1>10. SumInv' BY <1>2, NotifySums
<1>11. WaitersBlocked' BY <1>1, NotifyWaiters
<1> QED BY <1>1, <1>5, <1>6, <1>7, <1>8, <1>9, <1>10, <1>11, Together

LEMMA AllStay ==
    ASSUME IInv
    PROVE /\ \A s \in Stream : Good(strm[s], peer[s], strm[s], peer[s], handle[s])
          /\ \A s \in Stream : strm[s].where = "gone" => SameRead(strm[s], strm[s])
          /\ strm \in [Stream -> Flow] /\ conn \in Conn /\ ConnOK(strm, conn)
<1>1. Types /\ StreamsInv /\ SumInv BY Parts
<1>2. strm \in [Stream -> Flow] /\ conn \in Conn BY <1>1 DEF Types
<1>3. \A s \in Stream : Good(strm[s], peer[s], strm[s], peer[s], handle[s]) BY Parts, StayGood
<1> QED BY <1>1, <1>2, <1>3 DEF SameRead, SumInv

LEMMA EndStep ==
    ASSUME IInv, EndReceive
    PROVE IInv'
<1>1. /\ \A s \in Stream : Good(strm[s], peer[s], strm[s], peer[s], handle[s])
      /\ \A s \in Stream : strm[s].where = "gone" => SameRead(strm[s], strm[s])
      /\ strm \in [Stream -> Flow] /\ conn \in Conn /\ ConnOK(strm, conn)
  BY AllStay
<1>2. PICK C : C = [conn EXCEPT !.receiving = FALSE] OBVIOUS
<1>3. /\ C \in Conn /\ C.incoming = conn.incoming /\ C.buffered = conn.buffered
      /\ C.granted = conn.granted /\ C.credit = conn.credit
      /\ C.streamsGranted = conn.streamsGranted /\ C.streamCredit = conn.streamCredit
  BY <1>1, <1>2 DEF Conn
<1>4. ConnOK(strm, C) BY <1>1, <1>3 DEF ConnOK
<1>5. Notify(strm, C) /\ UNCHANGED <<plan, handle, want, phase, batch, peer, udp>>
  BY <1>2 DEF EndReceive
<1>6. ToSet(C.incoming) \subseteq ToSet(conn.incoming) BY <1>3
<1> QED BY <1>1, <1>3, <1>4, <1>5, <1>6, NotifyTurn

LEMMA NothingStep ==
    ASSUME IInv, NothingToSend
    PROVE IInv'
<1>1. /\ \A s \in Stream : Good(strm[s], peer[s], strm[s], peer[s], handle[s])
      /\ \A s \in Stream : strm[s].where = "gone" => SameRead(strm[s], strm[s])
      /\ strm \in [Stream -> Flow] /\ conn \in Conn /\ ConnOK(strm, conn)
  BY AllStay
<1>2. /\ Notify(strm, conn) /\ UNCHANGED <<plan, handle, want, batch, peer, udp>>
      /\ phase' = "idle" /\ batch' = << >>
  BY DEF NothingToSend
<1> QED BY <1>1, <1>2, NotifyTurn

\* The receipts touch what was sent only.
LEMMA ReceiptsSame ==
    ASSUME IInv, phase = "sending", NEW S, S = Receipted(strm, udp.completed)
    PROVE /\ S \in [Stream -> Flow] /\ ConnOK(S, conn)
          /\ \A s \in Stream : /\ Good(strm[s], peer[s], S[s], peer[s], handle[s])
                               /\ S[s].where = strm[s].where /\ SameRead(strm[s], S[s])
<1>1. Types /\ StreamsInv /\ BatchInv /\ UdpInv /\ SumInv BY Parts
<1>2. strm \in [Stream -> Flow] /\ conn \in Conn BY <1>1 DEF Types
<1>3. /\ S \in [Stream -> Flow]
      /\ \A s \in Stream :
             \E m \in Nat, fin \in BOOLEAN :
                 /\ S[s] = ReceiptK(strm[s], m, fin)
                 /\ Good(strm[s], peer[s], S[s], peer[s], handle[s])
  BY <1>1, ReceiptsGood
<1>4. ASSUME NEW s \in Stream
      PROVE /\ Good(strm[s], peer[s], S[s], peer[s], handle[s])
            /\ S[s].where = strm[s].where /\ SameRead(strm[s], S[s])
            /\ S[s].buffered = strm[s].buffered /\ S[s].consumed = strm[s].consumed
            /\ S[s].received = strm[s].received
  <2>1. PICK m \in Nat, fin \in BOOLEAN : S[s] = ReceiptK(strm[s], m, fin) BY <1>3
  <2>2. Good(strm[s], peer[s], S[s], peer[s], handle[s]) BY <1>3
  <2>3. PICK r \in Flow : r = strm[s]
    BY <1>2
  <2>30. PICK l : l = ReceiptK(r, m, fin)
    OBVIOUS
  <2>4. /\ l.where = r.where /\ l.buffered = r.buffered /\ l.consumed = r.consumed
        /\ l.received = r.received /\ l.readError = r.readError /\ l.readFin = r.readFin
    BY <2>3, <2>30 DEF ReceiptK, Flow
  <2> QED BY <2>1, <2>2, <2>3, <2>30, <2>4 DEF SameRead
<1>5. ConnOK(S, conn)
  <2>1. ConnOK(strm, conn) BY <1>1 DEF SumInv
  <2>2. \A s \in Stream : /\ S[s].buffered = strm[s].buffered /\ S[s].consumed = strm[s].consumed
                          /\ S[s].received = strm[s].received
                          /\ IsClosed(S[s]) <=> IsClosed(strm[s])
    BY <1>4 DEF IsClosed
  <2>3. conn.granted >= conn.granted BY <1>2 DEF Conn
  <2> QED BY <1>2, <1>3, <2>1, <2>2, <2>3, CountsSame
<1> QED BY <1>3, <1>4, <1>5

LEMMA ReturnStep ==
    ASSUME IInv, SendReturns
    PROVE IInv'
<1>1. PICK S : S = Receipted(strm, udp.completed) OBVIOUS
<1>2. /\ phase = "sending" /\ Notify(S, conn) /\ UNCHANGED <<plan, handle, want, peer, udp>>
      /\ phase' = "idle" /\ batch' = << >>
  BY <1>1 DEF SendReturns
<1>3. /\ S \in [Stream -> Flow] /\ ConnOK(S, conn)
      /\ \A s \in Stream : /\ Good(strm[s], peer[s], S[s], peer[s], handle[s])
                           /\ S[s].where = strm[s].where /\ SameRead(strm[s], S[s])
  BY <1>1, <1>2, ReceiptsSame
<1>4. conn \in Conn BY AllStay
<1> QED BY <1>2, <1>3, <1>4, NotifyTurn

LEMMA SendFailsStep ==
    ASSUME IInv, SendFails
    PROVE IInv'
<1>1. PICK S : S = Receipted(strm, udp.completed) OBVIOUS
<1>2. PICK T : T = IF conn.error THEN S ELSE Failed(S) OBVIOUS
<1>3. PICK C : C = [conn EXCEPT !.error = TRUE] OBVIOUS
<1>4. /\ phase = "sending" /\ Notify(T, C) /\ UNCHANGED <<plan, handle, want, peer, udp>>
      /\ phase' = "idle" /\ batch' = << >>
  BY <1>1, <1>2, <1>3 DEF SendFails
<1>5. /\ S \in [Stream -> Flow] /\ ConnOK(S, conn)
      /\ \A s \in Stream : /\ Good(strm[s], peer[s], S[s], peer[s], handle[s])
                           /\ S[s].where = strm[s].where /\ SameRead(strm[s], S[s])
  BY <1>1, <1>4, ReceiptsSame
<1>6. conn \in Conn /\ strm \in [Stream -> Flow] /\ peer \in [Stream -> Peer]
  BY AllStay, Parts DEF Types
<1>7. /\ C \in Conn /\ C.incoming = conn.incoming /\ C.buffered = conn.buffered
      /\ C.granted = conn.granted /\ C.credit = conn.credit
      /\ C.streamsGranted = conn.streamsGranted /\ C.streamCredit = conn.streamCredit
  BY <1>3, <1>6 DEF Conn
<1>8. /\ T \in [Stream -> Flow]
      /\ \A s \in Stream :
             /\ T[s] = S[s] \/ (S[s].where = "map" /\ T[s] = FailK(S[s]))
             /\ T[s].where = S[s].where /\ T[s].buffered = S[s].buffered
             /\ T[s].consumed = S[s].consumed /\ T[s].received = S[s].received
  <2>1. CASE conn.error
    <3>1. T = S BY <1>2, <2>1
    <3> QED BY <1>5, <3>1
  <2>2. CASE ~conn.error
    <3>1. T = Failed(S) BY <1>2, <2>2
    <3> QED BY <1>5, <3>1, FailedIs
  <2> QED BY <2>1, <2>2
<1>9. ASSUME NEW s \in Stream
      PROVE /\ Good(strm[s], peer[s], T[s], peer[s], handle[s])
            /\ T[s].where = strm[s].where /\ (strm[s].where = "gone" => SameRead(strm[s], T[s]))
  <2>1. Good(strm[s], peer[s], S[s], peer[s], handle[s]) BY <1>5
  <2>2. Good(strm[s], peer[s], FailK(S[s]), peer[s], handle[s]) BY <1>6, <2>1, FailedGood
  <2> QED BY <1>5, <1>8, <2>1, <2>2
<1>10. ConnOK(T, C)
  <2>1. \A s \in Stream : /\ T[s].buffered = S[s].buffered /\ T[s].consumed = S[s].consumed
                          /\ T[s].received = S[s].received
                          /\ IsClosed(T[s]) <=> IsClosed(S[s])
    BY <1>8 DEF IsClosed
  <2>2. /\ C.granted + C.credit = conn.granted + conn.credit /\ C.granted >= conn.granted
        /\ C.streamsGranted + C.streamCredit = conn.streamsGranted + conn.streamCredit
    BY <1>6, <1>7 DEF Conn
  <2> QED BY <1>5, <1>6, <1>7, <1>8, <2>1, <2>2, CountsSame
<1>11. ToSet(C.incoming) \subseteq ToSet(conn.incoming) BY <1>7
<1> QED BY <1>4, <1>7, <1>8, <1>9, <1>10, <1>11, NotifyTurn

\* A failure of the connection while packets are generated: what was packed is dropped.
LEMMA PacketsFailStep ==
    ASSUME IInv, PacketsFail
    PROVE IInv'
<1>1. PICK T : T = Failed(strm) OBVIOUS
<1>2. PICK C : C = [conn EXCEPT !.error = TRUE] OBVIOUS
<1>3. /\ Notify(T, C) /\ UNCHANGED <<plan, handle, want, peer, udp>>
      /\ phase' = "idle" /\ batch' = << >>
  BY <1>1, <1>2 DEF PacketsFail
<1>4. /\ conn \in Conn /\ strm \in [Stream -> Flow] /\ peer \in [Stream -> Peer]
      /\ StreamsInv /\ SumInv
  BY AllStay, Parts DEF Types
<1>5. /\ C \in Conn /\ C.incoming = conn.incoming /\ C.buffered = conn.buffered
      /\ C.granted = conn.granted /\ C.credit = conn.credit
      /\ C.streamsGranted = conn.streamsGranted /\ C.streamCredit = conn.streamCredit
  BY <1>2, <1>4 DEF Conn
<1>6. /\ T \in [Stream -> Flow]
      /\ \A s \in Stream :
             /\ T[s] = strm[s] \/ (strm[s].where = "map" /\ T[s] = FailK(strm[s]))
             /\ T[s].where = strm[s].where /\ T[s].buffered = strm[s].buffered
             /\ T[s].consumed = strm[s].consumed /\ T[s].received = strm[s].received
  BY <1>1, <1>4, FailedIs
<1>7. ASSUME NEW s \in Stream
      PROVE /\ Good(strm[s], peer[s], T[s], peer[s], handle[s])
            /\ T[s].where = strm[s].where /\ (strm[s].where = "gone" => SameRead(strm[s], T[s]))
  <2>1. Good(strm[s], peer[s], strm[s], peer[s], handle[s])
    BY <1>4, StayGood DEF StreamsInv
  <2>2. Good(strm[s], peer[s], FailK(strm[s]), peer[s], handle[s]) BY <1>4, <2>1, FailedGood
  <2>3. SameRead(strm[s], strm[s]) BY DEF SameRead
  <2> QED BY <1>6, <2>1, <2>2, <2>3
<1>8. ConnOK(T, C)
  <2>1. \A s \in Stream : IsClosed(T[s]) <=> IsClosed(strm[s]) BY <1>6 DEF IsClosed
  <2>2. /\ C.granted + C.credit = conn.granted + conn.credit /\ C.granted >= conn.granted
        /\ C.streamsGranted + C.streamCredit = conn.streamsGranted + conn.streamCredit
    BY <1>4, <1>5 DEF Conn
  <2>3. ConnOK(strm, conn) BY <1>4 DEF SumInv
  <2> QED BY <1>4, <1>5, <1>6, <2>1, <2>2, <2>3, CountsSame
<1>9. ToSet(C.incoming) \subseteq ToSet(conn.incoming) BY <1>5
<1> QED BY <1>3, <1>5, <1>6, <1>7, <1>8, <1>9, NotifyTurn

LEMMA PeerSteps ==
    ASSUME IInv, PeerStep
    PROVE IInv'
BY FailsStep, EndStep, StreamOpenStep, DataStep, AckStep, BrokenStep, StopStep, CloseStep
   DEF PeerStep

-----------------------------------------------------------------------------
(* The steps of the socket. *)

\* The batch is with the socket: the streams and the connection stay as they are.
LEMMA SocketTurn ==
    ASSUME IInv, UNCHANGED <<plan, strm, conn, tasks, batch>>, phase' = "sending",
           peer' \in [Stream -> Peer], StreamsInv', BatchInv', UdpInv'
    PROVE IInv'
<1>1. /\ plan \in Plans /\ Types /\ TaskInv /\ SumInv /\ WaitersBlocked
  BY Parts
<1>2. UNCHANGED <<handle, reader, writer, want>> BY DEF tasks
<1>3. Types' BY <1>1, <1>2 DEF Types
<1>4. TaskInv' BY <1>1, <1>2, TaskKept
<1>5. SumInv' BY <1>1 DEF SumInv, ConnOK, SumOf, ClosedPeers, IsClosed
<1>6. WaitersBlocked'
  <2>1. strm' \in [Stream -> Flow] /\ (phase' # "idle" \/ conn'.receiving)
    BY <1>1 DEF Types
  <2>2. \A s \in Stream :
            /\ strm[s].where = "gone" => strm'[s].where = "gone" /\ SameRead(strm[s], strm'[s])
            /\ strm[s].where \in {"map", "closing"} => strm'[s].where \in {"map", "closing"}
    BY DEF SameRead
  <2> QED BY <1>1, <1>2, <2>1, <2>2, DueWaiters
<1> QED BY <1>1, <1>3, <1>4, <1>5, <1>6, Together

LEMMA StreamsStill ==
    ASSUME IInv, UNCHANGED <<strm, peer, tasks>>
    PROVE AllGood /\ StreamsInv'
<1>1. Types /\ StreamsInv BY Parts
<1>2. \A s \in Stream : handle'[s] = handle[s] \/ handle'[s] = "held" BY DEF tasks
<1>3. AllGood BY <1>1, <1>2, NoStream
<1> QED BY <1>3, StreamsKept

LEMMA StartStep ==
    ASSUME IInv, StartSend
    PROVE IInv'
<1>1. Types /\ BatchInv /\ UdpInv BY Parts
<1>2. /\ phase = "writing" /\ phase' = "sending" /\ Begin(Len(batch))
      /\ UNCHANGED <<plan, strm, conn, tasks, batch, peer>>
  BY DEF StartSend
<1>3. Len(batch) \in Nat BY <1>1, ReceiptParts
<1>4. UdpInv' /\ udp'.completed = 0 /\ udp'.count = Len(batch) BY <1>1, <1>2, <1>3, UdpBegin
<1>5. AllGood /\ StreamsInv' BY <1>2, StreamsStill
<1>6. BatchInv'
  <2>1. Out' = Out BY <1>2, <1>4 DEF Out
  <2>2. phase' = "sending" => udp'.count = Len(batch) BY <1>4
  <2>3. phase' = "idle" => phase = "idle" BY <1>2
  <2> QED BY <1>1, <1>2, <1>5, <2>1, <2>2, <2>3, BatchKept
<1>7. peer' \in [Stream -> Peer] BY <1>1, <1>2 DEF Types
<1> QED BY <1>2, <1>4, <1>5, <1>6, <1>7, SocketTurn

LEMMA RefusedStep ==
    ASSUME IInv, SegmentationRefused
    PROVE IInv'
<1>1. Types /\ BatchInv /\ UdpInv BY Parts
<1>2. /\ phase = "sending" /\ phase' = "sending" /\ RefuseWhole
      /\ UNCHANGED <<plan, strm, conn, tasks, batch, peer, phase>>
  BY DEF SegmentationRefused
<1>3. UdpInv' /\ udp'.completed = udp.completed /\ udp'.count = udp.count
  BY <1>1, <1>2, UdpRefused
<1>4. AllGood /\ StreamsInv' BY <1>2, StreamsStill
<1>5. BatchInv'
  <2>1. Out' = Out BY <1>2, <1>3 DEF Out
  <2>2. udp.count = Len(batch) BY <1>1, <1>2 DEF BatchInv
  <2>3. phase' = "sending" => udp'.count = Len(batch) BY <1>3, <2>2
  <2> QED BY <1>1, <1>2, <1>4, <2>1, <2>3, BatchKept
<1>6. peer' \in [Stream -> Peer] BY <1>1, <1>2 DEF Types
<1> QED BY <1>2, <1>3, <1>4, <1>5, <1>6, SocketTurn

LEMMA SegmentedStep ==
    ASSUME IInv, SendSegmented
    PROVE IInv'
<1>1. Types /\ StreamsInv /\ BatchInv /\ UdpInv BY Parts
<1>2. /\ phase = "sending" /\ phase' = "sending" /\ SendWhole /\ Transmitted(Len(batch))
      /\ UNCHANGED <<plan, strm, conn, tasks, batch, phase>>
  BY DEF SendSegmented
<1>3. /\ UdpInv' /\ udp.completed = 0 /\ udp'.completed = udp.count /\ udp'.count = udp.count
  BY <1>1, <1>2, UdpWhole
<1>4. Len(batch) \in Nat /\ udp.count = Len(batch)
  BY <1>1, <1>2, ReceiptParts DEF BatchInv
<1>5. PICK n \in Nat : n = Len(batch) BY <1>4
<1>6. /\ Transmitted(n) /\ udp'.completed = udp.completed + n
      /\ udp.completed + n <= udp.count
  BY <1>2, <1>3, <1>4, <1>5
<1>7. UNCHANGED <<strm, batch, phase, handle>> BY <1>2 DEF tasks
<1>8. peer' \in [Stream -> Peer] /\ StreamsInv' /\ BatchInv'
  BY <1>1, <1>2, <1>3, <1>6, <1>7, Transmit
<1> QED BY <1>2, <1>3, <1>8, SocketTurn

LEMMA DatagramsStep ==
    ASSUME IInv, SendDatagrams
    PROVE IInv'
<1>1. Types /\ StreamsInv /\ BatchInv /\ UdpInv BY Parts
<1>2. /\ phase = "sending" /\ phase' = "sending"
      /\ UNCHANGED <<plan, strm, conn, tasks, batch, phase>>
  BY DEF SendDatagrams
<1>3. PICK n \in 1 .. MaxSegments : SendSome(n) /\ Transmitted(n) BY DEF SendDatagrams
<1>4. n \in Nat BY Limits
<1>5. /\ UdpInv' /\ udp'.completed = udp.completed + n /\ udp'.count = udp.count
      /\ udp.completed + n <= udp.count
  BY <1>1, <1>3, <1>4, UdpSome
<1>6. UNCHANGED <<strm, batch, phase, handle>> BY <1>2 DEF tasks
<1>7. peer' \in [Stream -> Peer] /\ StreamsInv' /\ BatchInv'
  BY <1>1, <1>2, <1>3, <1>4, <1>5, <1>6, Transmit
<1> QED BY <1>2, <1>5, <1>7, SocketTurn

LEMMA SocketSteps ==
    ASSUME IInv, SocketStep
    PROVE IInv'
BY SegmentedStep, RefusedStep, DatagramsStep, ReturnStep, SendFailsStep DEF SocketStep

-----------------------------------------------------------------------------
(* The sender's turn. *)

LEMMA SenderTurn ==
    ASSUME IInv, UNCHANGED <<plan, tasks, udp>>, phase' = "writing",
           NEW T \in [Stream -> Flow], strm' = T, NEW D \in Conn, conn' = D,
           D.incoming = conn.incoming, peer' \in [Stream -> Peer], AllGood, ConnOK(T, D),
           batch' \in Seq(Receipt), BatchInv',
           \A s \in Stream : \/ T[s].where = strm[s].where /\ SameRead(strm[s], T[s])
                             \/ strm[s].where = "map" /\ T[s].where = "closing"
    PROVE IInv'
<1>1. /\ plan \in Plans /\ Types /\ UdpInv /\ TaskInv /\ WaitersBlocked
  BY Parts
<1>2. UNCHANGED <<handle, reader, writer, want>> BY DEF tasks
<1>3. Types' BY <1>1, <1>2 DEF Types
<1>4. StreamsInv' BY StreamsKept
<1>5. UdpInv' BY <1>1, UdpSame
<1>6. TaskInv' BY <1>1, <1>2, TaskKept
<1>7. SumInv'
  <2>1. ConnOK(strm', conn') OBVIOUS
  <2> QED BY <2>1 DEF SumInv, ConnOK, SumOf, ClosedPeers, IsClosed
<1>8. WaitersBlocked'
  <2>1. \A s \in Stream :
            /\ strm[s].where = "gone" => strm'[s].where = "gone" /\ SameRead(strm[s], strm'[s])
            /\ strm[s].where \in {"map", "closing"} => strm'[s].where \in {"map", "closing"}
    OBVIOUS
  <2>2. phase' # "idle" \/ conn'.receiving OBVIOUS
  <2> QED BY <1>1, <1>2, <2>1, <2>2, DueWaiters
<1> QED BY <1>1, <1>3, <1>4, <1>5, <1>6, <1>7, <1>8, Together

LEMMA PacketStep ==
    ASSUME IInv, NEW a \in Stream, WritePacket(a)
    PROVE IInv'
<1>1. /\ strm[a] \in Flow /\ peer[a] \in Peer /\ StreamOK(strm[a], peer[a], handle[a])
      /\ Types /\ StreamsInv /\ BatchInv /\ SumInv
  BY Parts
<1>2. PICK r \in Flow, p \in Peer : r = strm[a] /\ p = peer[a] BY <1>1
<1>3. strm \in [Stream -> Flow] /\ peer \in [Stream -> Peer] /\ conn \in Conn BY <1>1 DEF Types
<1>4. PICK available : available = r.accepted - r.submitted OBVIOUS
<1>5. PICK n \in (IF available = 0 THEN {0} ELSE 1 .. available) :
          LET fin == r.writeFin /\ n = available
          IN  /\ strm' = [strm EXCEPT ![a].submitted = @ + n, ![a].finSubmitted = fin]
              /\ batch' = Append(batch, [stream |-> a, offset |-> r.submitted + n, fin |-> fin])
  BY <1>2, <1>4 DEF WritePacket
<1>6. PICK fin : fin = (r.writeFin /\ n = available) OBVIOUS
<1>7. /\ strm' = [strm EXCEPT ![a].submitted = @ + n, ![a].finSubmitted = fin]
      /\ batch' = Append(batch, [stream |-> a, offset |-> r.submitted + n, fin |-> fin])
  BY <1>5, <1>6
<1>8. fin \in BOOLEAN BY <1>6
<1>9. /\ r.accepted \in Nat /\ r.submitted \in Nat /\ r.submitted <= r.accepted
      /\ p.wire <= r.submitted
  BY <1>1, <1>2 DEF StreamOK, SendOK, Flow
<1>10. n \in 0 .. (r.accepted - r.submitted)
  <2>1. available \in Nat BY <1>4, <1>9
  <2>2. n \in 0 .. available
    <3>1. CASE available = 0 BY <2>1, <3>1
    <3>2. CASE available # 0
      <4>1. n \in 1 .. available BY <3>2
      <4> QED BY <2>1, <4>1
    <3> QED BY <3>1, <3>2
  <2> QED BY <1>4, <2>2
<1>11. PICK k : k = PacketK(r, n, fin) OBVIOUS
<1>12. Good(r, p, k, p, handle[a])
  <2>1. fin => r.writeFin /\ n = r.accepted - r.submitted BY <1>4, <1>6
  <2> QED BY <1>1, <1>2, <1>8, <1>10, <1>11, <2>1, PacketGood
<1>13. k \in Flow BY <1>12 DEF Good
<1>14. /\ k.where = r.where /\ k.buffered = r.buffered /\ k.consumed = r.consumed
       /\ k.received = r.received /\ k.readError = r.readError /\ k.readFin = r.readFin
       /\ k.accepted = r.accepted /\ k.writeFin = r.writeFin /\ k.submitted = r.submitted + n
  BY <1>11 DEF PacketK, Flow
<1>15. strm' = [strm EXCEPT ![a] = k] BY <1>2, <1>3, <1>7, <1>11 DEF PacketK
<1>16. /\ phase = "writing" /\ phase' = "writing" /\ UNCHANGED <<plan, conn, tasks, peer, udp>>
  BY DEF WritePacket
<1>17. PICK T : T = [strm EXCEPT ![a] = k] OBVIOUS
<1>18. T \in [Stream -> Flow] /\ T[a] = k /\ \A s \in Stream \ {a} : T[s] = strm[s]
  BY <1>3, <1>13, <1>17
<1>19. AllGood
  <2>1. Good(strm[a], peer[a], k, peer'[a], handle'[a]) BY <1>2, <1>12, <1>16 DEF tasks
  <2>2. \A s \in Stream \ {a} : peer'[s] = peer[s] /\ handle'[s] = handle[s]
    BY <1>16 DEF tasks
  <2> QED BY <1>1, <1>15, <2>1, <2>2, OneStream
<1>20. batch' \in Seq(Receipt) /\ BatchInv'
  <2>1. PICK l : l = strm'[a] OBVIOUS
  <2>2. l = k BY <1>15, <1>17, <1>18, <2>1
  <2>3. batch' = Append(batch, [stream |-> a, offset |-> l.submitted, fin |-> fin])
    BY <1>7, <1>14, <2>2
  <2>4. fin => l.writeFin /\ l.submitted = l.accepted
    <3>1. CASE fin
      <4>1. r.writeFin /\ n = r.accepted - r.submitted BY <1>4, <1>6, <3>1
      <4>2. k.submitted = r.submitted + n BY <1>14
      <4>3. k.submitted = r.accepted BY <1>9, <4>1, <4>2
      <4> QED BY <1>14, <2>2, <4>1, <4>3
    <3> QED BY <3>1
  <2>5. peer[a].wire <= r.submitted BY <1>2, <1>9
  <2>6. strm' \in [Stream -> Flow] BY <1>15, <1>17, <1>18
  <2>7. UNCHANGED <<peer, phase>> BY <1>16
  <2> QED BY <1>1, <1>2, <1>8, <1>16, <1>19, <2>1, <2>3, <2>4, <2>5, <2>6, <2>7, Packed
<1>21. ConnOK(T, conn)
  <2>1. ConnOK(strm, conn) BY <1>1 DEF SumInv
  <2>2. \A s \in Stream : /\ T[s].buffered = strm[s].buffered /\ T[s].consumed = strm[s].consumed
                          /\ T[s].received = strm[s].received
                          /\ IsClosed(T[s]) <=> IsClosed(strm[s])
    BY <1>2, <1>14, <1>18 DEF IsClosed
  <2>3. conn.granted >= conn.granted BY <1>3 DEF Conn
  <2> QED BY <1>3, <1>18, <2>1, <2>2, <2>3, CountsSame
<1>22. ASSUME NEW s \in Stream
       PROVE T[s].where = strm[s].where /\ SameRead(strm[s], T[s])
  BY <1>2, <1>14, <1>18 DEF SameRead
<1>23. strm' = T /\ conn' = conn /\ peer' \in [Stream -> Peer] BY <1>3, <1>15, <1>16, <1>17
<1> QED BY <1>3, <1>16, <1>18, <1>19, <1>20, <1>21, <1>22, <1>23, SenderTurn

LEMMA GoodTrans ==
    ASSUME NEW r \in Flow, NEW p \in Peer, NEW m, NEW q, NEW h, Good(r, p, m, q, h),
           NEW l, NEW o, NEW g, Good(m, q, l, o, g)
    PROVE Good(r, p, l, o, g)
<1>1. r.submitted \in Nat /\ m.submitted \in Nat /\ l.submitted \in Nat BY DEF Good, Flow
<1>2. KeepsOut(r, p, m, q) /\ KeepsOut(m, q, l, o) BY DEF Good
<1>3. KeepsOut(r, p, l, o) BY <1>1, <1>2 DEF KeepsOut, SameOut
<1> QED BY <1>3 DEF Good

LEMMA ApplyKIs ==
    ASSUME NEW r \in Flow
    PROVE LET l == ApplyK(r) IN
          /\ l \in Flow /\ l.where = r.where /\ l.buffered = r.buffered /\ l.consumed = r.consumed
          /\ l.received = r.received /\ l.readError = r.readError /\ l.readFin = r.readFin
BY DEF ApplyK, Flow

\* All credit of the streams of the map goes to the peer.
Granted == [s \in Stream |-> IF strm[s].where = "map"
                             THEN [peer[s] EXCEPT !.granted = @ + strm[s].credit]
                             ELSE peer[s]]
Applied == [s \in Stream |-> IF strm[s].where = "map" THEN ApplyK(strm[s]) ELSE strm[s]]
AppliedConn == [conn EXCEPT !.granted = @ + conn.credit, !.credit = 0,
                            !.streamsGranted = @ + conn.streamCredit, !.streamCredit = 0]

LEMMA AppliedIs ==
    ASSUME IInv, NEW S, S = Applied, NEW Q, Q = Granted
    PROVE /\ S \in [Stream -> Flow] /\ Q \in [Stream -> Peer]
          /\ \A s \in Stream :
                 /\ Good(strm[s], peer[s], S[s], Q[s], handle[s])
                 /\ S[s].where = strm[s].where /\ S[s].buffered = strm[s].buffered
                 /\ S[s].consumed = strm[s].consumed /\ S[s].received = strm[s].received
                 /\ S[s].readError = strm[s].readError /\ S[s].readFin = strm[s].readFin
<1>1. ASSUME NEW s \in Stream
      PROVE /\ Good(strm[s], peer[s], S[s], Q[s], handle[s])
            /\ S[s].where = strm[s].where /\ S[s].buffered = strm[s].buffered
            /\ S[s].consumed = strm[s].consumed /\ S[s].received = strm[s].received
            /\ S[s].readError = strm[s].readError /\ S[s].readFin = strm[s].readFin
  <2>1. strm[s] \in Flow /\ peer[s] \in Peer /\ StreamOK(strm[s], peer[s], handle[s]) BY Parts
  <2>2. PICK r \in Flow, p \in Peer : r = strm[s] /\ p = peer[s] BY <2>1
  <2>3. CASE r.where = "map"
    <3>1. S[s] = ApplyK(r) BY <2>2, <2>3 DEF Applied
    <3>2. Q[s] = [p EXCEPT !.granted = @ + r.credit] BY <2>2, <2>3 DEF Granted
    <3>3. Good(r, p, S[s], Q[s], handle[s]) BY <2>1, <2>2, <3>1, <3>2, ApplyGood
    <3> QED BY <2>2, <3>1, <3>3, ApplyKIs
  <2>4. CASE r.where # "map"
    <3>1. S[s] = r BY <2>2, <2>4 DEF Applied
    <3>2. Q[s] = p BY <2>2, <2>4 DEF Granted
    <3>3. Good(r, p, r, p, handle[s]) BY <2>1, <2>2, StayGood
    <3> QED BY <2>2, <3>1, <3>2, <3>3
  <2> QED BY <2>3, <2>4
<1>2. S = [s \in Stream |-> S[s]] BY DEF Applied
<1>3. Q = [s \in Stream |-> Q[s]] BY DEF Granted
<1>4. \A s \in Stream : S[s] \in Flow /\ Q[s] \in Peer BY <1>1 DEF Good
<1> QED BY <1>1, <1>2, <1>3, <1>4

LEMMA AppliedConnIs ==
    ASSUME conn \in Conn, NEW C, C = AppliedConn
    PROVE /\ C \in Conn /\ C.buffered = conn.buffered /\ C.incoming = conn.incoming
          /\ C.granted + C.credit = conn.granted + conn.credit /\ C.granted >= conn.granted
          /\ C.streamsGranted + C.streamCredit = conn.streamsGranted + conn.streamCredit
<1>1. PICK x, y : x = conn.granted + conn.credit /\ y = conn.streamsGranted + conn.streamCredit
  OBVIOUS
<1>2. /\ conn.granted \in Nat /\ conn.credit \in Nat /\ conn.streamsGranted \in Nat
      /\ conn.streamCredit \in Nat
  BY DEF Conn
<1>3. x \in Nat /\ y \in Nat /\ x >= conn.granted BY <1>1, <1>2
<1>4. C = [conn EXCEPT !.granted = x, !.credit = 0, !.streamsGranted = y, !.streamCredit = 0]
  BY <1>1 DEF AppliedConn, Conn
<1>5. /\ C \in Conn /\ C.buffered = conn.buffered /\ C.incoming = conn.incoming
      /\ C.granted = x /\ C.credit = 0 /\ C.streamsGranted = y /\ C.streamCredit = 0
  <2>1. PICK K \in Conn : K = conn OBVIOUS
  <2>2. C = [K EXCEPT !.granted = x, !.credit = 0, !.streamsGranted = y, !.streamCredit = 0]
    BY <1>4, <2>1
  <2>3. C.granted = x /\ C.credit = 0 /\ C.streamsGranted = y /\ C.streamCredit = 0
    BY <2>2 DEF Conn
  <2>4. C.buffered = K.buffered /\ C.incoming = K.incoming BY <2>2 DEF Conn
  <2>5. C \in Conn
    <3>1. PICK z \in Nat : z = 0 OBVIOUS
    <3>2. PICK k1 : k1 = [K EXCEPT !.granted = x] OBVIOUS
    <3>3. PICK k2 : k2 = [k1 EXCEPT !.credit = z] OBVIOUS
    <3>4. PICK k3 : k3 = [k2 EXCEPT !.streamsGranted = y] OBVIOUS
    <3>5. k1 \in Conn BY <1>3, <3>2 DEF Conn
    <3>6. k2 \in Conn BY <3>3, <3>5 DEF Conn
    <3>7. k3 \in Conn BY <1>3, <3>4, <3>6 DEF Conn
    <3>8. C = [k3 EXCEPT !.streamCredit = z] BY <2>2, <3>1, <3>2, <3>3, <3>4 DEF Conn
    <3> QED BY <3>7, <3>8 DEF Conn
  <2> QED BY <2>1, <2>3, <2>4, <2>5
<1>6. C.granted + C.credit = x /\ C.streamsGranted + C.streamCredit = y BY <1>3, <1>5
<1> QED BY <1>1, <1>3, <1>5, <1>6

LEMMA ApplyParts ==
    ASSUME IInv, ApplyChanges
    PROVE /\ phase = "idle" /\ phase' = "writing" /\ UNCHANGED <<plan, tasks, batch, udp>>
          /\ peer' = Granted
          /\ \/ strm' = Applied /\ conn' = AppliedConn
             \/ \E a \in Stream :
                    /\ strm[a].where = "map" /\ (strm[a].readFin \/ peer[a].reset)
                    /\ strm' = [Applied EXCEPT ![a] = ClosedStream(@, peer[a].reset, TRUE)]
                    /\ conn' = StreamClosed(AppliedConn, a, peer[a].reset)
<1>1. PICK S : S = Applied OBVIOUS
<1>2. [s \in Stream |-> IF strm[s].where = "map"
                        THEN [strm[s] EXCEPT !.credit = 0, !.resetApplied = strm[s].resetRequested]
                        ELSE strm[s]] = S
  BY <1>1 DEF Applied, ApplyK
<1>3. PICK C : C = AppliedConn OBVIOUS
<1>4. PICK atOnce :
          /\ atOnce = {s \in Stream : ResetDue(strm[s]) /\ (strm[s].readFin \/ peer[s].reset)}
          /\ \/ strm' = S /\ conn' = C
             \/ \E s \in atOnce :
                    /\ strm' = [S EXCEPT ![s] = ClosedStream(@, peer[s].reset, TRUE)]
                    /\ conn' = StreamClosed(C, s, peer[s].reset)
  BY <1>2, <1>3 DEF ApplyChanges, AppliedConn
<1>5. \A s \in atOnce : /\ s \in Stream /\ strm[s].where = "map"
                        /\ strm[s].readFin \/ peer[s].reset
  BY <1>4 DEF ResetDue
<1>6. \/ strm' = S /\ conn' = C
      \/ \E a \in Stream :
             /\ strm[a].where = "map" /\ (strm[a].readFin \/ peer[a].reset)
             /\ strm' = [S EXCEPT ![a] = ClosedStream(@, peer[a].reset, TRUE)]
             /\ conn' = StreamClosed(C, a, peer[a].reset)
  BY <1>4, <1>5
<1>7. /\ phase = "idle" /\ phase' = "writing" /\ UNCHANGED <<plan, tasks, batch, udp>>
      /\ peer' = Granted
  BY DEF ApplyChanges, Granted
<1> QED BY <1>1, <1>3, <1>6, <1>7

LEMMA ApplyStep ==
    ASSUME IInv, ApplyChanges
    PROVE IInv'
<1>1. Types /\ StreamsInv /\ BatchInv /\ SumInv BY Parts
<1>2. strm \in [Stream -> Flow] /\ peer \in [Stream -> Peer] /\ conn \in Conn
      /\ batch \in Seq(Receipt)
  BY <1>1 DEF Types
<1>3. PICK S, Q, C : S = Applied /\ Q = Granted /\ C = AppliedConn OBVIOUS
<1>4. /\ phase = "idle" /\ phase' = "writing" /\ UNCHANGED <<plan, tasks, batch, udp>>
      /\ peer' = Q
      /\ \/ strm' = S /\ conn' = C
         \/ \E a \in Stream :
                /\ strm[a].where = "map" /\ (strm[a].readFin \/ peer[a].reset)
                /\ strm' = [S EXCEPT ![a] = ClosedStream(@, peer[a].reset, TRUE)]
                /\ conn' = StreamClosed(C, a, peer[a].reset)
  BY <1>3, ApplyParts
<1>5. /\ S \in [Stream -> Flow] /\ Q \in [Stream -> Peer]
      /\ \A s \in Stream :
             /\ Good(strm[s], peer[s], S[s], Q[s], handle[s])
             /\ S[s].where = strm[s].where /\ S[s].buffered = strm[s].buffered
             /\ S[s].consumed = strm[s].consumed /\ S[s].received = strm[s].received
             /\ S[s].readError = strm[s].readError /\ S[s].readFin = strm[s].readFin
  BY <1>3, AppliedIs
<1>6. /\ C \in Conn /\ C.buffered = conn.buffered /\ C.incoming = conn.incoming
      /\ C.granted + C.credit = conn.granted + conn.credit /\ C.granted >= conn.granted
      /\ C.streamsGranted + C.streamCredit = conn.streamsGranted + conn.streamCredit
  BY <1>2, <1>3, AppliedConnIs
<1>7. ConnOK(S, C)
  <2>1. ConnOK(strm, conn) BY <1>1 DEF SumInv
  <2>2. \A s \in Stream : IsClosed(S[s]) <=> IsClosed(strm[s]) BY <1>5 DEF IsClosed
  <2> QED BY <1>2, <1>5, <1>6, <2>1, <2>2, CountsSame
<1>8. batch' \in Seq(Receipt) /\ BatchInv'
  <2>1. batch' = << >> /\ phase' # "sending" BY <1>1, <1>4 DEF BatchInv
  <2>2. BatchInv' BY <2>1, BatchEmptied
  <2> QED BY <1>2, <1>4, <2>2
<1>9. CASE strm' = S /\ conn' = C
  <2>1. AllGood
    <3>1. \A s \in Stream : Good(strm[s], peer[s], strm'[s], peer'[s], handle'[s])
      BY <1>4, <1>5, <1>9 DEF tasks
    <3> QED BY <3>1 DEF AllGood
  <2>2. \A s \in Stream : S[s].where = strm[s].where /\ SameRead(strm[s], S[s])
    BY <1>5 DEF SameRead
  <2> QED BY <1>4, <1>5, <1>6, <1>7, <1>8, <1>9, <2>1, <2>2, SenderTurn
<1>10. ASSUME NEW a \in Stream, strm[a].where = "map", strm[a].readFin \/ peer[a].reset,
              strm' = [S EXCEPT ![a] = ClosedStream(@, peer[a].reset, TRUE)],
              conn' = StreamClosed(C, a, peer[a].reset)
       PROVE IInv'
  <2>1. PICK rx : rx = peer[a].reset OBVIOUS
  <2>2. rx \in BOOLEAN /\ (rx \/ S[a].readFin) BY <1>2, <1>5, <1>10, <2>1 DEF Peer
  <2>3. PICK k : k = ClosedStream(S[a], rx, TRUE) OBVIOUS
  <2>4. S[a] \in Flow /\ Q[a] \in Peer /\ S[a].where = "map" BY <1>5, <1>10
  <2>5. Good(S[a], Q[a], k, Q[a], handle[a])
    <3>1. StreamOK(S[a], Q[a], handle[a]) BY <1>5 DEF Good
    <3>2. TRUE \in BOOLEAN OBVIOUS
    <3> QED BY <2>2, <2>3, <2>4, <3>1, <3>2, CloseGood
  <2>6. k \in Flow /\ k.where = "closing" BY <2>2, <2>3, <2>4, <2>5, CloseIs DEF Good
  <2>7. PICK T : T = [S EXCEPT ![a] = k] OBVIOUS
  <2>8. T \in [Stream -> Flow] /\ T[a] = k /\ \A s \in Stream \ {a} : T[s] = S[s]
    BY <1>5, <2>6, <2>7
  <2>9. T = [S EXCEPT ![a] = ClosedStream(@, rx, TRUE)] BY <1>5, <2>3, <2>7
  <2>10. strm' = T BY <1>10, <2>1, <2>9
  <2>11. PICK D : D = StreamClosed(C, a, rx) OBVIOUS
  <2>12. conn' = D BY <1>10, <2>1, <2>11
  <2>13. D \in Conn /\ D.incoming = C.incoming
    <3>1. PICK r \in Flow : r = strm[a] BY <1>2
    <3>2. r.consumed <= r.received BY <3>1, Parts DEF StreamOK, ReceiveOK
    <3>3. r.buffered <= C.buffered
      <4>1. strm[a]["buffered"] <= SumOf(strm, "buffered") BY <1>2, SumsAbove DEF Counted
      <4>2. conn.buffered = SumOf(strm, "buffered") BY <1>1 DEF SumInv, ConnOK
      <4> QED BY <1>6, <3>1, <4>1, <4>2
    <3> QED BY <1>6, <2>2, <2>11, <3>1, <3>2, <3>3, StreamClosedType
  <2>14. ConnOK(T, D)
    <3>1. ~IsClosed(S[a]) BY <2>4 DEF IsClosed
    <3>2. S[a].buffered = strm[a].buffered /\ Unread(S[a]) = Unread(strm[a])
      BY <1>5 DEF Unread
    <3>3. StreamClosed(C, a, rx) \in Conn BY <2>11, <2>13
    <3>4. TRUE \in BOOLEAN OBVIOUS
    <3>5. ConnOK(T, StreamClosed(C, a, rx))
      BY <1>5, <1>6, <1>7, <2>2, <2>8, <2>9, <3>1, <3>2, <3>3, <3>4, CountsClosed
    <3> QED BY <2>11, <3>5
  <2>15. AllGood
    <3>1. ASSUME NEW s \in Stream PROVE Good(strm[s], peer[s], T[s], Q[s], handle[s])
      <4>1. strm[s] \in Flow /\ peer[s] \in Peer BY <1>2
      <4>2. CASE s = a
        <5>1. Good(strm[a], peer[a], S[a], Q[a], handle[a]) BY <1>5
        <5>2. Good(strm[a], peer[a], k, Q[a], handle[a]) BY <1>2, <2>5, <5>1, GoodTrans
        <5> QED BY <2>8, <4>2, <5>2
      <4>3. CASE s # a BY <1>5, <2>8, <4>3
      <4> QED BY <4>2, <4>3
    <3>2. \A s \in Stream : Good(strm[s], peer[s], strm'[s], peer'[s], handle'[s])
      BY <1>4, <2>10, <3>1 DEF tasks
    <3> QED BY <3>2 DEF AllGood
  <2>16. ASSUME NEW s \in Stream
         PROVE \/ T[s].where = strm[s].where /\ SameRead(strm[s], T[s])
               \/ strm[s].where = "map" /\ T[s].where = "closing"
    <3>1. CASE s = a BY <1>10, <2>6, <2>8, <3>1
    <3>2. CASE s # a
      <4>1. T[s] = S[s] BY <2>8, <3>2
      <4> QED BY <1>5, <4>1 DEF SameRead
    <3> QED BY <3>1, <3>2
  <2>17. D.incoming = conn.incoming /\ peer' \in [Stream -> Peer]
    BY <1>4, <1>5, <1>6, <2>13
  <2> QED BY <1>4, <1>8, <2>8, <2>10, <2>12, <2>13, <2>14, <2>15, <2>16, <2>17, SenderTurn
<1> QED BY <1>4, <1>9, <1>10

LEMMA SendSteps ==
    ASSUME IInv, SendStep
    PROVE IInv'
BY ApplyStep, StartStep, NothingStep, PacketsFailStep, PacketStep DEF SendStep

-----------------------------------------------------------------------------
(* The first state, and the theorems. *)

LEMMA SumsZero ==
    ASSUME NEW S, NEW f, \A s \in Stream : S[s][f] = 0
    PROVE SumOf(S, f) = 0
<1>1. PICK g : g = [s \in Stream |-> S[s][f]] OBVIOUS
<1>2. \A s \in Stream : g[s] \in Int /\ g[s] = g[s] - g[s] BY <1>1
<1>3. PICK x : x = SumFunctionOnSet(g, Stream) OBVIOUS
<1>4. x \in Int BY <1>2, <1>3, Limits, SumInt
<1>5. x = x - x BY <1>2, <1>3, Limits, SumMinus
<1>6. x = 0 BY <1>4, <1>5
<1> QED BY <1>1, <1>3, <1>6 DEF SumOf

LEMMA NewOK ==
    ASSUME NEW r, r = NewStream,
           NEW p, p = [wire |-> 0, finWire |-> FALSE, acked |-> 0, granted |-> 0,
                       reset |-> FALSE, stop |-> FALSE]
    PROVE r \in Flow /\ p \in Peer /\ StreamOK(r, p, "none")
<1>1. << >> \in Seq(Nat \ {0}) /\ 0 \in 0 .. SendLimit BY Limits
<1>2. r \in Flow BY <1>1 DEF NewStream, Flow
<1>3. p \in Peer BY DEF Peer
<1>4. r.buffered = SumFunction(r.tx)
  <2>1. DOMAIN << >> = {} OBVIOUS
  <2>2. SumFunction(<< >>) = 0 BY <2>1, SumEmpty DEF SumFunction
  <2> QED BY <2>2 DEF NewStream
<1>5. ReceiveOK(r, p) BY Limits DEF ReceiveOK, NewStream
<1>6. SendOK(r, p) BY DEF SendOK, NewStream
<1>7. DropOK(r, "none") BY DEF DropOK
<1> QED BY <1>2, <1>3, <1>4, <1>5, <1>6, <1>7 DEF StreamOK

LEMMA InitInv ==
    ASSUME Init
    PROVE IInv
<1>1. PICK p : p = [wire |-> 0, finWire |-> FALSE, acked |-> 0, granted |-> 0,
                    reset |-> FALSE, stop |-> FALSE]
  OBVIOUS
<1>2. \A s \in Stream : strm[s] = NewStream /\ peer[s] = p /\ handle[s] = "none"
                        /\ reader[s] = "none" /\ writer[s] = "none"
  BY <1>1 DEF Init
<1>3. NewStream \in Flow /\ p \in Peer /\ StreamOK(NewStream, p, "none") BY <1>1, NewOK
<1>4. StreamsInv BY <1>2, <1>3 DEF StreamsInv
<1>5. conn \in Conn /\ conn.incoming = << >> /\ conn.buffered = 0 /\ conn.granted = 0
      /\ conn.credit = 0 /\ conn.streamsGranted = 0 /\ conn.streamCredit = 0
  <2>1. << >> \in Seq(Stream) /\ 0 \in 0 .. ConnSendLimit BY Limits
  <2> QED BY <2>1 DEF Init, Conn
<1>6. Types
  <2>1. strm \in [Stream -> Flow] /\ peer \in [Stream -> Peer] BY <1>1, <1>3 DEF Init
  <2>2. handle \in [Stream -> Handle] /\ reader \in [Stream -> Task] /\ writer \in [Stream -> Task]
        /\ want \in [Stream -> Want]
    BY DEF Init, Handle, Task, Want
  <2>3. << >> \in Seq(Receipt) OBVIOUS
  <2>4. phase \in {"idle", "writing", "sending"} /\ batch \in Seq(Receipt) BY <2>3 DEF Init
  <2> QED BY <1>5, <2>1, <2>2, <2>4 DEF Types
<1>7. plan \in Plans BY DEF Init
<1>8. TypeOK BY <1>6, <1>7, TypeParts
<1>9. BatchInv
  <2>1. batch = << >> /\ phase = "idle" BY DEF Init
  <2>2. DOMAIN batch = {} BY <2>1
  <2> QED BY <2>1, <2>2 DEF BatchInv
<1>10. UdpInv
  <2>1. udp = Idle BY DEF Init, UdpInit
  <2>2. << >> \in Seq(Nat) OBVIOUS
  <2>3. [i \in 1 .. 0 |-> i] = << >> OBVIOUS
  <2>4. Idle \in Udp BY <2>2 DEF Idle, Udp
  <2>5. SentOnce BY <2>1, <2>3 DEF SentOnce, Idle
  <2>6. udp.whole = FALSE BY <2>1 DEF Idle
  <2> QED BY <2>1, <2>4, <2>5, <2>6 DEF UdpInv, Udp
<1>11. TaskInv
  <2>1. ToSet(conn.incoming) = {} BY <1>5 DEF ToSet
  <2> QED BY <1>2, <2>1 DEF TaskInv
<1>12. SumInv
  <2>1. \A s \in Stream : strm[s]["buffered"] = 0 /\ strm[s]["consumed"] = 0
                          /\ strm[s]["received"] = 0 /\ ~IsClosed(strm[s])
    BY <1>2 DEF NewStream, IsClosed
  <2>2. SumOf(strm, "buffered") = 0 /\ SumOf(strm, "consumed") = 0 /\ SumOf(strm, "received") = 0
    BY <2>1, SumsZero
  <2>3. ClosedPeers(strm) = {} BY <2>1 DEF ClosedPeers
  <2>4. Cardinality(ClosedPeers(strm)) = 0 BY <2>3, FS_EmptySet
  <2> QED BY <1>5, <2>2, <2>4, Limits DEF SumInv, ConnOK
<1>13. WaitersBlocked
  <2>1. \A s \in Stream : ReaderOK(s) /\ WriterOK(s) BY <1>2 DEF ReaderOK, WriterOK
  <2> QED BY <2>1, WaitersAre
<1> QED BY <1>4, <1>8, <1>9, <1>10, <1>11, <1>12, <1>13 DEF IInv

LEMMA Stutters ==
    ASSUME IInv, UNCHANGED vars
    PROVE IInv'
<1>1. /\ plan \in Plans /\ Types /\ BatchInv /\ UdpInv /\ TaskInv /\ SumInv /\ WaitersBlocked
  BY Parts
<1>2. UNCHANGED <<plan, strm, conn, handle, reader, writer, want, phase, batch, peer, udp>>
  BY DEF vars
<1>3. Types' BY <1>1, <1>2 DEF Types
<1>4. AllGood /\ StreamsInv' BY <1>2, StreamsStill DEF tasks
<1>5. BatchInv'
  <2>1. Out' = Out BY <1>2 DEF Out
  <2>2. phase' = "sending" => udp'.count = Len(batch) BY <1>1, <1>2 DEF BatchInv
  <2> QED BY <1>1, <1>2, <1>4, <2>1, <2>2, BatchKept
<1>6. UdpInv' BY <1>1, <1>2, UdpSame
<1>7. TaskInv' BY <1>1, <1>2, TaskKept
<1>8. SumInv' BY <1>1, <1>2 DEF SumInv, ConnOK, SumOf, ClosedPeers, IsClosed
<1>9. WaitersBlocked'
  BY <1>1, <1>2 DEF WaitersBlocked, ReadBlocked, WriteBlocked, CanWrite, Room, IsClosed, Unread
<1> QED BY <1>1, <1>2, <1>3, <1>4, <1>5, <1>6, <1>7, <1>8, <1>9, Together

LEMMA NextInv ==
    ASSUME IInv, [Next]_vars
    PROVE IInv'
BY SendSteps, SocketSteps, PeerSteps, ProgramSteps, Stutters DEF Next

\* The inductive invariant holds of every state, whatever the program, the peer and the
\* socket do and however many streams there are.
THEOREM Invariant == Spec => []IInv
<1>1. Init => IInv BY InitInv
<1>2. IInv /\ [Next]_vars => IInv' BY NextInv
<1> QED BY <1>1, <1>2, PTL DEF Spec

\* Types, and the limits of the send buffers: write() never subtracts more than the limit
\* (QuicStream::write).
THEOREM TypeCorrect == Spec => []TypeOK
<1>1. IInv => TypeOK BY DEF IInv
<1> QED BY <1>1, Invariant, PTL

\* The connection counts as buffered what its streams count, and a stream counts its chunks:
\* acknowledgement, close and reset give back what is held, once (ConnectionState::buffered).
THEOREM BuffersBalance == Spec => []SendBuffers
<1>1. IInv => SendBuffers
  <2> SUFFICES ASSUME IInv PROVE SendBuffers OBVIOUS
  <2>1. conn.buffered = SumOf(strm, "buffered") BY Parts DEF SumInv, ConnOK
  <2>2. \A s \in Stream : strm[s].buffered = SumFunction(strm[s].tx) BY Parts DEF StreamOK
  <2> QED BY <2>1, <2>2, SumsAre DEF SendBuffers
<1> QED BY <1>1, Invariant, PTL

\* Every byte is credited once, and what is held unread never exceeds the windows
\* (StreamState::discardReceived, applyStreamChanges, cb.stream_close2).
THEOREM WindowsHold == Spec => []CreditExact
<1>1. IInv => CreditExact
  <2> SUFFICES ASSUME IInv PROVE CreditExact OBVIOUS
  <2>1. Types /\ ConnOK(strm, conn) BY Parts DEF SumInv
  <2>2. strm \in [Stream -> Flow] /\ conn \in Conn BY <2>1 DEF Types
  <2>3. conn.granted + conn.credit = SumOver(LAMBDA s : strm[s].consumed)
    BY <2>1, SumsAre DEF ConnOK
  <2>4. conn.streamsGranted + conn.streamCredit =
            Cardinality({s \in Stream \ Local : IsClosed(strm[s])})
    BY <2>1 DEF ConnOK, ClosedPeers
  <2>5. SumOver(LAMBDA s : Unread(strm[s])) <= ConnWindow
    <3>1. PICK f, g, h : /\ f = [s \in Stream |-> strm[s]["received"]]
                         /\ g = [s \in Stream |-> strm[s]["consumed"]]
                         /\ h = [s \in Stream |-> Unread(strm[s])]
      OBVIOUS
    <3>2. \A s \in Stream : f[s] \in Int /\ g[s] \in Int /\ h[s] = f[s] - g[s]
      BY <2>2, <3>1, FlowFields DEF Unread
    <3>3. SumFunctionOnSet(h, Stream) = SumFunctionOnSet(f, Stream) - SumFunctionOnSet(g, Stream)
      BY <3>2, Limits, SumMinus
    <3>4. SumFunctionOnSet(f, Stream) \in Int /\ SumFunctionOnSet(g, Stream) \in Int
      BY <3>2, Limits, SumInt
    <3>5. /\ SumFunctionOnSet(f, Stream) <= ConnWindow + conn.granted
          /\ conn.granted + conn.credit = SumFunctionOnSet(g, Stream)
      BY <2>1, <3>1 DEF ConnOK, SumOf
    <3>6. conn.granted \in Nat /\ conn.credit \in Nat BY <2>2 DEF Conn
    <3>7. SumFunctionOnSet(h, Stream) <= ConnWindow BY <3>3, <3>4, <3>5, <3>6, Limits
    <3> QED BY <3>1, <3>7, SumsAre
  <2>6. ASSUME NEW s \in Stream
        PROVE /\ Unread(strm[s]) <= StreamWindow
              /\ (handle[s] = "dropped" /\ IsClosed(strm[s])
                    /\ ~(strm[s].resetRequested /\ strm[s].readFin)) => Unread(strm[s]) = 0
    <3>1. strm[s] \in Flow /\ peer[s] \in Peer /\ StreamOK(strm[s], peer[s], handle[s]) BY Parts
    <3>2. PICK r \in Flow, p \in Peer : r = strm[s] /\ p = peer[s] BY <3>1
    <3>3. r.received \in Nat /\ r.consumed \in Nat /\ r.credit \in Nat /\ p.granted \in Nat
      BY DEF Flow, Peer
    <3>4. r.received - r.consumed <= StreamWindow
      BY <3>1, <3>2, <3>3, Limits DEF StreamOK, ReceiveOK
    <3>5. Unread(strm[s]) <= StreamWindow BY <3>2, <3>4 DEF Unread
    <3> QED BY <3>1, <3>5 DEF StreamOK, DropOK
  <2> QED BY <2>3, <2>4, <2>5, <2>6 DEF CreditExact
<1> QED BY <1>1, Invariant, PTL

\* flush() and shutdown() report only what the kernel took (applyReceipts).
THEOREM ReportsWhatWasSent == Spec => []ReceiptsHonest
<1>1. IInv => ReceiptsHonest
  <2> SUFFICES ASSUME IInv, NEW s \in Stream
               PROVE /\ strm[s].sent <= peer[s].wire /\ peer[s].wire <= strm[s].submitted
                     /\ strm[s].submitted <= strm[s].accepted
                     /\ strm[s].finSubmitted => strm[s].writeFin /\ strm[s].submitted = strm[s].accepted
                     /\ strm[s].finSent => peer[s].finWire /\ peer[s].wire = strm[s].accepted
    BY DEF ReceiptsHonest
  <2>1. SendOK(strm[s], peer[s]) BY Parts DEF StreamOK
  <2> QED BY <2>1 DEF SendOK
<1> QED BY <1>1, Invariant, PTL

\* No wake-up is lost (ConnectionState::notify, AsyncEvent).
THEOREM WaitersAreBlocked == Spec => []WaitersBlocked
<1>1. IInv => WaitersBlocked BY DEF IInv
<1> QED BY <1>1, Invariant, PTL

\* Every datagram of a batch goes out at most once and in order, whatever the kernel takes at
\* a time (UdpBatch).
THEOREM DatagramsSentOnce == Spec => []SentOnce
<1>1. IInv => SentOnce BY DEF IInv, UdpInv
<1> QED BY <1>1, Invariant, PTL
=============================================================================
