----------------------------- MODULE QuicStream -----------------------------
(***************************************************************************)
(* The streams of one QUIC connection (src/quic/quic.cpp): what StreamState *)
(* and ConnectionState keep above ngtcp2, the operations of QuicStream, the *)
(* callbacks of ngtcp2 and the part of the send worker that writes packets  *)
(* and waits for the socket.  ngtcp2, the peer and the network are external:*)
(* `peer` says what they have seen.                                         *)
(*                                                                          *)
(* The program runs on one thread.  A step is what it executes between two  *)
(* awaits; reading a batch of datagrams and generating packets are          *)
(* synchronous, and take several actions in which nobody else moves (Busy). *)
(* Bytes are counted, not named.  tx holds the sizes of the queued chunks;  *)
(* the bytes of rx are received - consumed.                                 *)
(*                                                                          *)
(* A definition X_Y is X with one plausible bug.                            *)
(***************************************************************************)
EXTENDS Integers, Sequences, FiniteSets, Functions, UdpBatch, Queues

CONSTANTS
    Stream,         \* the streams of the connection
    Local,          \* those this end opens
    SendLimit,      \* Config::sendBufferLimit
    ConnSendLimit,  \* Config::connectionSendBufferLimit
    StreamWindow,   \* Config::streamWindow
    ConnWindow,     \* Config::connectionWindow
    MaxSegments,    \* packets of a batch
    Plans           \* the bounds of a behaviour; it follows one of these

Use == {"read", "write", "flush", "shutdown", "reset"}
Plan == [uses : [Stream -> SUBSET Use],  \* what the program does with each stream
         tx : [Stream -> Nat],           \* how much it writes
         rx : [Stream -> Nat],           \* how much the peer sends
         rude : SUBSET Stream,           \* the streams the peer may reset or stop
         faults : SUBSET {"peer", "socket", "packet"}]  \* what may end the connection

ASSUME QuicStreamAssumption ==
    /\ IsFiniteSet(Stream) /\ Local \subseteq Stream
    /\ SendLimit \in Nat \ {0} /\ ConnSendLimit \in Nat \ {0}
    /\ StreamWindow \in Nat \ {0} /\ ConnWindow \in Nat \ {0}
    /\ MaxSegments \in Nat \ {0}
    /\ Plans \subseteq Plan

VARIABLES
    plan,     \* which of Plans
    strm,     \* StreamState of each stream; where: not yet known, in ConnectionState::streams,
              \*   in closedStreams, or in neither any more
    conn,     \* ConnectionState: credit, buffered, streamCredit, incoming, error
    handle,   \* the program's QuicStream: none, held or dropped
    reader,   \* a read: none, waiting on `changed`, or woken by it
    writer,   \* the same for the one of write, flush and shutdown that holds the mutex
    want,     \* which of the three it is
    phase,    \* sendPackets: idle, writing packets, or sending (awaits the socket)
    batch,    \* PacketBatch::receipts
    peer      \* history: what went out, was acknowledged, granted; what the peer ended

vars == <<plan, strm, conn, handle, reader, writer, want, phase, batch, peer, udp>>
tasks == <<handle, reader, writer, want>>
sending == <<phase, batch, udp>>

NewStream ==
    [where |-> "none", received |-> 0, consumed |-> 0, credit |-> 0, readFin |-> FALSE,
     tx |-> << >>, buffered |-> 0, accepted |-> 0, submitted |-> 0, sent |-> 0,
     writeFin |-> FALSE, finSubmitted |-> FALSE, finSent |-> FALSE,
     resetRequested |-> FALSE, resetApplied |-> FALSE,
     readError |-> FALSE, writeError |-> FALSE]

Init ==
    /\ plan \in Plans
    /\ strm = [s \in Stream |-> NewStream]
    /\ conn = [credit |-> 0, granted |-> 0, buffered |-> 0, streamCredit |-> 0,
               streamsGranted |-> 0, incoming |-> << >>, error |-> FALSE,
               receiving |-> FALSE]
    /\ handle = [s \in Stream |-> "none"]
    /\ reader = [s \in Stream |-> "none"]
    /\ writer = [s \in Stream |-> "none"]
    /\ want = [s \in Stream |-> "none"]
    /\ phase = "idle"
    /\ batch = << >>
    /\ peer = [s \in Stream |-> [wire |-> 0, finWire |-> FALSE, acked |-> 0, granted |-> 0,
                                 reset |-> FALSE, stop |-> FALSE]]
    /\ UdpInit

Unread(r) == r.received - r.consumed
Busy == phase = "writing" \/ conn.receiving
IsClosed(r) == r.where \in {"closing", "gone"}

-----------------------------------------------------------------------------
(* Shared helpers. *)

\* `changed` of these streams is set: whoever waits on it runs again.
Woken(task, T) == [s \in Stream |-> IF s \in T /\ task[s] = "waiting" THEN "woken" ELSE task[s]]

\* ConnectionState::notify, on the streams S and the connection C a step has left.
Notify_Closed(S, C) ==
    LET reached == {s \in Stream : S[s].where = "map"}
    IN  /\ strm' = [s \in Stream |->
                        [S[s] EXCEPT !.where = IF @ = "closing" THEN "gone" ELSE @]]
        /\ conn' = [C EXCEPT !.incoming =
                        Kept(@, {s \in Stream : ~(IsClosed(S[s]) /\ S[s].readError)})]
        /\ reader' = Woken(reader, reached)
        /\ writer' = Woken(writer, reached)
Notify(S, C) ==
    LET reached == {s \in Stream : S[s].where \in {"map", "closing"}}
    IN  /\ strm' = [s \in Stream |->
                        [S[s] EXCEPT !.where = IF @ = "closing" THEN "gone" ELSE @]]
        /\ conn' = [C EXCEPT !.incoming =
                        Kept(@, {s \in Stream : ~(IsClosed(S[s]) /\ S[s].readError)})]
        /\ reader' = Woken(reader, reached)
        /\ writer' = Woken(writer, reached)

\* ConnectionState::fail: only the streams of the map learn of it.
Failed(S) == [s \in Stream |-> IF S[s].where = "map"
                               THEN [S[s] EXCEPT !.readError = TRUE, !.writeError = TRUE]
                               ELSE S[s]]

\* StreamState::discardReceived, on the stream and on the connection.
Discarded(r) == [r EXCEPT !.consumed = r.received]
Credited(C, r) == [C EXCEPT !.credit = @ + Unread(r)]

-----------------------------------------------------------------------------
(* Streams come and go. *)

\* QuicConnection::openStream and ensureStream of a stream of this end.
OpenStream(s) ==
    /\ ~Busy
    /\ s \in Local /\ strm[s].where = "none" /\ ~conn.error
    /\ strm' = [strm EXCEPT ![s].where = "map"]
    /\ handle' = [handle EXCEPT ![s] = "held"]
    /\ UNCHANGED <<plan, conn, reader, writer, want, phase, batch, peer, udp>>

\* QuicConnection::acceptStream: the first that is not closed with an error.
AcceptStream ==
    /\ ~Busy /\ ~conn.error
    /\ LET open(i) == LET r == strm[conn.incoming[i]] IN ~IsClosed(r) \/ ~r.readError
       IN  \E i \in DOMAIN conn.incoming :
               /\ open(i) /\ \A j \in 1..(i - 1) : ~open(j)
               /\ handle' = [handle EXCEPT ![conn.incoming[i]] = "held"]
               /\ conn' = [conn EXCEPT !.incoming = SubSeq(@, i + 1, Len(@))]
    /\ UNCHANGED <<plan, strm, reader, writer, want, phase, batch, peer, udp>>

\* StreamState::reset: a finished stream only discards what was not read; the first
\* reset of another one ends both directions and wakes its waiters.
ResetStream_Late(s) ==
    LET finished == IsClosed(strm[s]) \/ (strm[s].readFin /\ strm[s].finSent)
        first == ~finished /\ ~strm[s].resetRequested
    IN  /\ strm' = [strm EXCEPT ![s] =
                IF first THEN [Discarded(@) EXCEPT !.resetRequested = TRUE,
                                                   !.readError = TRUE, !.writeError = TRUE]
                         ELSE @]
        /\ conn' = IF first THEN Credited(conn, strm[s]) ELSE conn
        /\ reader' = Woken(reader, IF first THEN {s} ELSE {})
        /\ writer' = Woken(writer, IF first THEN {s} ELSE {})
ResetStream(s) ==
    LET finished == IsClosed(strm[s]) \/ (strm[s].readFin /\ strm[s].finSent)
        first == ~finished /\ ~strm[s].resetRequested
    IN  /\ strm' = [strm EXCEPT ![s] =
                IF first THEN [Discarded(@) EXCEPT !.resetRequested = TRUE,
                                                   !.readError = TRUE, !.writeError = TRUE]
                ELSE IF finished THEN Discarded(@) ELSE @]
        /\ conn' = IF finished \/ first THEN Credited(conn, strm[s]) ELSE conn
        /\ reader' = Woken(reader, IF first THEN {s} ELSE {})
        /\ writer' = Woken(writer, IF first THEN {s} ELSE {})

\* QuicStream::reset.
Reset(s) ==
    /\ ~Busy /\ "reset" \in plan.uses[s] /\ handle[s] = "held"
    /\ ResetStream(s)
    /\ UNCHANGED <<plan, handle, want, phase, batch, peer, udp>>

\* ~QuicStream: no operation is under way; the rest is left to ngtcp2.
Drop(s) ==
    /\ ~Busy
    /\ handle[s] = "held" /\ reader[s] = "none" /\ writer[s] = "none"
    /\ "reset" \in plan.uses[s] \/ IsClosed(strm[s]) \/ (strm[s].readFin /\ strm[s].finSent)
    /\ ResetStream(s)
    /\ handle' = [handle EXCEPT ![s] = "dropped"]
    /\ UNCHANGED <<plan, want, phase, batch, peer, udp>>

\* A wait is canceled; what was accepted or requested stays.
Cancel(s) ==
    /\ ~Busy /\ "reset" \in plan.uses[s]
    /\ \/ /\ reader[s] # "none"
          /\ reader' = [reader EXCEPT ![s] = "none"]
          /\ UNCHANGED <<writer, want>>
       \/ /\ writer[s] # "none"
          /\ writer' = [writer EXCEPT ![s] = "none"]
          /\ want' = [want EXCEPT ![s] = "none"]
          /\ UNCHANGED reader
    /\ UNCHANGED <<plan, strm, conn, handle, phase, batch, peer, udp>>

-----------------------------------------------------------------------------
(* read, write, flush and shutdown: each checks its condition and waits for  *)
(* `changed` until it holds.                                                 *)

Reads(s) ==
    /\ ~Busy /\ handle[s] = "held"
    /\ "read" \in plan.uses[s] /\ reader[s] \in {"none", "woken"}

\* read() takes what there is, at most the size of its buffer, and credits it to both
\* windows.
ReadData(s) ==
    /\ Reads(s) /\ ~strm[s].readError
    /\ \E n \in 1..Unread(strm[s]) :
           /\ strm' = [strm EXCEPT ![s].consumed = @ + n, ![s].credit = @ + n]
           /\ conn' = [conn EXCEPT !.credit = @ + n]
    /\ reader' = [reader EXCEPT ![s] = "none"]
    /\ UNCHANGED <<plan, handle, writer, want, phase, batch, peer, udp>>

\* read() returns an error or the end of the stream.
ReadEnds(s) ==
    /\ Reads(s)
    /\ strm[s].readError \/ (Unread(strm[s]) = 0 /\ strm[s].readFin)
    /\ reader' = [reader EXCEPT ![s] = "none"]
    /\ UNCHANGED <<plan, strm, conn, handle, writer, want, phase, batch, peer, udp>>

ReadWaits(s) ==
    /\ Reads(s)
    /\ ~strm[s].readError /\ Unread(strm[s]) = 0 /\ ~strm[s].readFin
    /\ reader' = [reader EXCEPT ![s] = "waiting"]
    /\ UNCHANGED <<plan, strm, conn, handle, writer, want, phase, batch, peer, udp>>

\* The operation that holds the writer mutex goes on, or a new one takes the free mutex.
Writes(s, op) ==
    /\ ~Busy /\ handle[s] = "held"
    /\ op \in plan.uses[s] /\ want[s] \in {"none", op} /\ writer[s] \in {"none", "woken"}
WriterReturns(s) ==
    /\ writer' = [writer EXCEPT ![s] = "none"]
    /\ want' = [want EXCEPT ![s] = "none"]
WriterWaits(s, op) ==
    /\ writer' = [writer EXCEPT ![s] = "waiting"]
    /\ want' = [want EXCEPT ![s] = op]

SmallerOf(a, b) == IF a <= b THEN a ELSE b
Room_Stream(s) == SendLimit - strm[s].buffered
Room(s) == SmallerOf(SendLimit - strm[s].buffered, ConnSendLimit - conn.buffered)
CanWrite(r) == ~r.writeError /\ ~r.writeFin /\ ~IsClosed(r)

\* write() copies what there is room for into a chunk of its own.
WriteData(s) ==
    /\ Writes(s, "write") /\ CanWrite(strm[s])
    /\ \E n \in 1..SmallerOf(Room(s), plan.tx[s] - strm[s].accepted) :
           /\ strm' = [strm EXCEPT ![s].tx = Append(@, n), ![s].accepted = @ + n,
                                   ![s].buffered = @ + n]
           /\ conn' = [conn EXCEPT !.buffered = @ + n]
    /\ WriterReturns(s)
    /\ UNCHANGED <<plan, handle, reader, phase, batch, peer, udp>>

WriteWaits(s) ==
    /\ Writes(s, "write") /\ CanWrite(strm[s])
    /\ Room(s) = 0 /\ strm[s].accepted < plan.tx[s]
    /\ WriterWaits(s, "write")
    /\ UNCHANGED <<plan, strm, conn, handle, reader, phase, batch, peer, udp>>

\* write() fails.
WriteFails(s) ==
    /\ Writes(s, "write") /\ ~CanWrite(strm[s])
    /\ WriterReturns(s)
    /\ UNCHANGED <<plan, strm, conn, handle, reader, phase, batch, peer, udp>>

Flush(s) ==
    /\ Writes(s, "flush")
    /\ IF strm[s].writeError \/ strm[s].sent = strm[s].accepted
       THEN WriterReturns(s) ELSE WriterWaits(s, "flush")
    /\ UNCHANGED <<plan, strm, conn, handle, reader, phase, batch, peer, udp>>

\* shutdown() asks for the FIN once and waits for its transmission.
Shutdown(s) ==
    /\ Writes(s, "shutdown")
    /\ strm' = [strm EXCEPT ![s].writeFin = @ \/ ~strm[s].writeError]
    /\ IF strm[s].writeError \/ strm[s].finSent
       THEN WriterReturns(s) ELSE WriterWaits(s, "shutdown")
    /\ UNCHANGED <<plan, conn, handle, reader, phase, batch, peer, udp>>

-----------------------------------------------------------------------------
(* The send worker. *)

Sendable_Data(s) ==
    LET r == strm[s]
    IN  /\ r.where = "map" /\ ~r.writeError /\ ~r.finSubmitted
        /\ r.submitted < r.accepted
Sendable(s) ==
    LET r == strm[s]
    IN  /\ r.where = "map" /\ ~r.writeError /\ ~r.finSubmitted
        /\ r.submitted < r.accepted \/ r.writeFin
ResetDue(r) == r.where = "map" /\ r.resetRequested /\ ~r.resetApplied

\* cb.stream_close2 on a stream of the map: the errors ngtcp2 names, the send buffer
\* given back, the stream put aside for the next notify.
RxFlag(s) == peer[s].reset \/ (strm[s].resetApplied /\ ~strm[s].readFin)
TxFlag(s) == peer[s].stop \/ strm[s].resetApplied
ClosedStream_Keep(r, rx, tx) ==
    [(IF rx THEN Discarded(r) ELSE r) EXCEPT
        !.readError = @ \/ rx, !.writeError = @ \/ tx, !.where = "closing"]
ClosedStream(r, rx, tx) ==
    [(IF rx THEN Discarded(r) ELSE r) EXCEPT
        !.readError = @ \/ rx, !.writeError = @ \/ tx, !.where = "closing",
        !.tx = << >>, !.buffered = 0]
StreamClosed(C, s, rx) ==
    [(IF rx THEN Credited(C, strm[s]) ELSE C) EXCEPT
        !.buffered = @ - strm[s].buffered,
        !.streamCredit = @ + IF s \in Local THEN 0 ELSE 1]

\* applyStreamChanges: all credit goes to ngtcp2, and every reset is applied once.  A
\* reset may close a stream whose receiving half is over at once.
ApplyChanges ==
    /\ phase = "idle" /\ ~conn.receiving /\ ~conn.error
    /\ LET C == [conn EXCEPT !.granted = @ + conn.credit, !.credit = 0,
                             !.streamsGranted = @ + conn.streamCredit, !.streamCredit = 0]
           S == [s \in Stream |-> IF strm[s].where = "map"
                                  THEN [strm[s] EXCEPT !.credit = 0,
                                                       !.resetApplied = strm[s].resetRequested]
                                  ELSE strm[s]]
           atOnce == {s \in Stream : ResetDue(strm[s]) /\ (strm[s].readFin \/ peer[s].reset)}
       IN  \/ strm' = S /\ conn' = C
           \/ \E s \in atOnce :
                  /\ strm' = [S EXCEPT ![s] = ClosedStream(@, peer[s].reset, TRUE)]
                  /\ conn' = StreamClosed(C, s, peer[s].reset)
    /\ peer' = [s \in Stream |-> IF strm[s].where = "map"
                                 THEN [peer[s] EXCEPT !.granted = @ + strm[s].credit]
                                 ELSE peer[s]]
    /\ phase' = "writing"
    /\ UNCHANGED <<plan, tasks, batch, udp>>

\* writePacket: one packet with data of one stream, the FIN with its last byte.  The
\* receipt says what its transmission will have sent.  A stream whose writing half ngtcp2
\* has ended is not there: a stop or a reset has set writeError before.
WritePacket(s) ==
    /\ phase = "writing" /\ Len(batch) < MaxSegments /\ Sendable(s)
    /\ LET available == strm[s].accepted - strm[s].submitted
       IN  \E n \in (IF available = 0 THEN {0} ELSE 1..available) :
               LET fin == strm[s].writeFin /\ n = available
               IN  /\ strm' = [strm EXCEPT ![s].submitted = @ + n, ![s].finSubmitted = fin]
                   /\ batch' = Append(batch, [stream |-> s, offset |-> strm[s].submitted + n,
                                              fin |-> fin])
    /\ UNCHANGED <<plan, conn, tasks, phase, peer, udp>>

\* The packets go to the socket: from here to the end of send() others run.
StartSend ==
    /\ phase = "writing" /\ batch # << >>
    /\ phase' = "sending"
    /\ Begin(Len(batch))
    /\ UNCHANGED <<plan, strm, conn, tasks, batch, peer>>

\* No stream data goes out: ngtcp2 has nothing to send, or the peer's flow control holds it
\* back, or the batch is a packet of ngtcp2's own, as an MTU probe, sent or rejected.
NothingToSend ==
    /\ phase = "writing" /\ batch = << >>
    /\ phase' = "idle"
    /\ Notify(strm, conn)
    /\ UNCHANGED <<plan, handle, want, batch, peer, udp>>

\* ngtcp2 cannot apply a change or generate a packet: the connection fails, and what was
\* packed is not sent.
PacketsFail ==
    /\ "packet" \in plan.faults /\ phase = "writing"
    /\ Notify(Failed(strm), [conn EXCEPT !.error = TRUE])
    /\ phase' = "idle" /\ batch' = << >>
    /\ UNCHANGED <<plan, handle, want, peer, udp>>

\* What datagrams `which` of the batch carry of stream s: the end of its data, its FIN.
Carried(which, s) == {i \in which : batch[i].stream = s}
DataEnd(which, s, before) ==
    LET mine == Carried(which, s)
    IN  IF mine = {} THEN before ELSE batch[CHOOSE i \in mine : \A j \in mine : j <= i].offset
CarriesFin(which, s) == \E i \in Carried(which, s) : batch[i].fin

\* The kernel takes datagrams: the peer can see what they carry.
Transmitted(n) ==
    LET taken == (Len(udp.wire) + 1)..(Len(udp.wire) + n)
    IN  peer' = [s \in Stream |->
            [peer[s] EXCEPT !.wire = DataEnd(taken, s, @), !.finWire = @ \/ CarriesFin(taken, s)]]

SendSegmented ==
    /\ phase = "sending" /\ ~conn.receiving /\ SendWhole /\ Transmitted(Len(batch))
    /\ UNCHANGED <<plan, strm, conn, tasks, phase, batch>>
SegmentationRefused ==
    /\ phase = "sending" /\ ~conn.receiving /\ RefuseWhole
    /\ UNCHANGED <<plan, strm, conn, tasks, phase, batch, peer>>
SendDatagrams ==
    /\ phase = "sending" /\ ~conn.receiving
    /\ \E n \in 1..MaxSegments : SendSome(n) /\ Transmitted(n)
    /\ UNCHANGED <<plan, strm, conn, tasks, phase, batch>>

\* The receipts of the completed prefix, on the streams as they are by now.
Receipted_All(S, n) ==
    [s \in Stream |-> [S[s] EXCEPT !.sent = DataEnd(DOMAIN batch, s, @),
                                   !.finSent = @ \/ CarriesFin(DOMAIN batch, s)]]
Receipted(S, n) ==
    [s \in Stream |-> [S[s] EXCEPT !.sent = DataEnd(1..n, s, @),
                                   !.finSent = @ \/ CarriesFin(1..n, s)]]

\* sendPackets goes on after its await.
SendReturns ==
    /\ phase = "sending" /\ ~conn.receiving /\ Done
    /\ Notify(Receipted(strm, udp.completed), conn)
    /\ phase' = "idle" /\ batch' = << >>
    /\ UNCHANGED <<plan, handle, want, peer, udp>>

\* send() fails after a prefix: the worker stops the context, which fails the connection.
SendFails ==
    /\ "socket" \in plan.faults /\ phase = "sending" /\ ~conn.receiving /\ ~Done
    /\ LET S == Receipted(strm, udp.completed)
       IN  Notify(IF conn.error THEN S ELSE Failed(S), [conn EXCEPT !.error = TRUE])
    /\ phase' = "idle" /\ batch' = << >>
    /\ UNCHANGED <<plan, handle, want, peer, udp>>

-----------------------------------------------------------------------------
(* receiveWorker: what ngtcp2 calls while it reads a batch of datagrams; then *)
(* the worker notifies.                                                       *)

Receives == phase # "writing" /\ ~conn.error
Received == SumFunctionOnSet([s \in Stream |-> strm[s].received], Stream)
ReadsPacket(S, C) ==
    /\ strm' = S
    /\ conn' = [C EXCEPT !.receiving = TRUE]
    /\ UNCHANGED <<plan, tasks, sending>>

EndReceive ==
    /\ conn.receiving
    /\ Notify(strm, [conn EXCEPT !.receiving = FALSE])
    /\ UNCHANGED <<plan, handle, want, phase, batch, peer, udp>>

\* cb.stream_open: a stream of the peer, queued for acceptStream.
StreamOpen(s) ==
    /\ Receives /\ s \notin Local /\ strm[s].where = "none"
    /\ ReadsPacket([strm EXCEPT ![s].where = "map"], [conn EXCEPT !.incoming = Append(@, s)])
    /\ UNCHANGED peer

\* cb.recv_stream_data: ngtcp2 stops delivering once a reset was applied.
RecvStreamData(s) ==
    /\ Receives /\ strm[s].where = "map"
    /\ ~strm[s].readFin /\ ~peer[s].reset /\ ~strm[s].resetApplied
    /\ \E n \in 0..(plan.rx[s] - strm[s].received), fin \in BOOLEAN :
           /\ n > 0 \/ fin
           /\ strm[s].received + n <= StreamWindow + peer[s].granted
           /\ Received + n <= ConnWindow + conn.granted
           /\ ReadsPacket([strm EXCEPT ![s].received = @ + n, ![s].readFin = fin], conn)
    /\ UNCHANGED peer

\* cb.acked_stream_data_offset: the chunks that are acknowledged as a whole are freed.
\* Only what went out can be acknowledged, whether or not send() has returned.
RecvAck(s) ==
    /\ Receives /\ strm[s].where = "map" /\ ~strm[s].resetApplied
    /\ \E offset \in (peer[s].acked + 1)..peer[s].wire :
           LET r == strm[s]
               first == r.accepted - r.buffered
               end(i) == first + SumFunctionOnSet(r.tx, 1..i)
               freed == {i \in DOMAIN r.tx : end(i) <= offset}
               count == Cardinality(freed)
               bytes == SumFunctionOnSet(r.tx, freed)
           IN  /\ ReadsPacket([strm EXCEPT ![s].tx = SubSeq(@, count + 1, Len(@)),
                                      ![s].buffered = @ - bytes],
                         [conn EXCEPT !.buffered = @ - bytes])
               /\ peer' = [peer EXCEPT ![s].acked = offset]

\* cb.stream_reset: the peer gives up its direction before its end.
RecvReset(s) ==
    /\ Receives /\ s \in plan.rude /\ strm[s].where = "map" /\ ~strm[s].readFin /\ ~peer[s].reset
    /\ ReadsPacket([strm EXCEPT ![s] = [Discarded(@) EXCEPT !.readError = TRUE]],
              Credited(conn, strm[s]))
    /\ peer' = [peer EXCEPT ![s].reset = TRUE]

\* cb.recv_stop_sending.
RecvStopSending(s) ==
    /\ Receives /\ s \in plan.rude /\ strm[s].where = "map" /\ ~peer[s].stop
    /\ ReadsPacket([strm EXCEPT ![s].writeError = TRUE], conn)
    /\ peer' = [peer EXCEPT ![s].stop = TRUE]

\* cb.stream_close2: both directions are over for ngtcp2.
StreamClose(s) ==
    /\ Receives /\ strm[s].where = "map"
    /\ strm[s].readFin \/ peer[s].reset \/ strm[s].resetApplied
    /\ \/ peer[s].finWire /\ strm[s].tx = << >>
       \/ peer[s].stop \/ strm[s].resetApplied
    /\ ReadsPacket([strm EXCEPT ![s] = ClosedStream(@, RxFlag(s), TxFlag(s))],
              StreamClosed(conn, s, RxFlag(s)))
    /\ UNCHANGED peer

\* The connection ends: the peer closed it, or it was idle.
ConnectionFails ==
    /\ "peer" \in plan.faults /\ Receives
    /\ ReadsPacket(Failed(strm), [conn EXCEPT !.error = TRUE])
    /\ UNCHANGED peer

-----------------------------------------------------------------------------
(* The behaviours. *)

SendStep ==
    \/ ApplyChanges \/ StartSend \/ NothingToSend \/ PacketsFail
    \/ \E s \in Stream : WritePacket(s)
SocketStep == SendSegmented \/ SegmentationRefused \/ SendDatagrams \/ SendReturns \/ SendFails
PeerStep ==
    \/ ConnectionFails \/ EndReceive
    \/ \E s \in Stream : \/ StreamOpen(s) \/ RecvStreamData(s) \/ RecvAck(s)
                         \/ RecvReset(s) \/ RecvStopSending(s) \/ StreamClose(s)
ReaderResumes(s) == reader[s] = "woken" /\ (ReadData(s) \/ ReadEnds(s) \/ ReadWaits(s))
WriterResumes(s) ==
    writer[s] = "woken" /\ (WriteData(s) \/ WriteWaits(s) \/ WriteFails(s) \/ Flush(s) \/ Shutdown(s))
ProgramStep ==
    \/ AcceptStream
    \/ \E s \in Stream : \/ OpenStream(s) \/ Reset(s) \/ Drop(s) \/ Cancel(s)
                         \/ ReadData(s) \/ ReadEnds(s) \/ ReadWaits(s)
                         \/ WriteData(s) \/ WriteWaits(s) \/ WriteFails(s)
                         \/ Flush(s) \/ Shutdown(s)
Next == SendStep \/ SocketStep \/ PeerStep \/ ProgramStep

\* The executor resumes what was woken (packet generation, between two steps, always
\* ends); the sender runs again after every wake-up and at the pacing deadline of ngtcp2;
\* the kernel takes datagrams; the peer's flow control holds no stream back for ever.
Fairness ==
    /\ WF_vars(EndReceive) /\ WF_vars(ApplyChanges) /\ WF_vars(StartSend \/ NothingToSend)
    /\ WF_vars(SendSegmented \/ SendDatagrams \/ SendReturns)
    /\ \A s \in Stream : /\ SF_vars(ReaderResumes(s)) /\ SF_vars(WriterResumes(s))
                         /\ SF_vars(WritePacket(s))
Spec == Init /\ [][Next]_vars /\ Fairness

-----------------------------------------------------------------------------
(* Properties. *)

Flow == [received : Nat, consumed : Nat, credit : Nat, readFin : BOOLEAN, tx : Seq(Nat \ {0}),
         buffered : 0..SendLimit, accepted : Nat, submitted : Nat, sent : Nat,
         writeFin : BOOLEAN, finSubmitted : BOOLEAN, finSent : BOOLEAN,
         resetRequested : BOOLEAN, resetApplied : BOOLEAN, readError : BOOLEAN,
         writeError : BOOLEAN, where : {"none", "map", "closing", "gone"}]
Task == {"none", "waiting", "woken"}

\* Types, with the two limits of the send buffers: write() subtracts what is buffered from
\* them in unsigned arithmetic.
TypeOK ==
    /\ plan \in Plans
    /\ strm \in [Stream -> Flow]
    /\ conn \in [credit : Nat, granted : Nat, buffered : 0..ConnSendLimit, streamCredit : Nat,
                 streamsGranted : Nat, incoming : Seq(Stream), error : BOOLEAN,
                 receiving : BOOLEAN]
    /\ handle \in [Stream -> {"none", "held", "dropped"}]
    /\ reader \in [Stream -> Task] /\ writer \in [Stream -> Task]
    /\ want \in [Stream -> {"none", "write", "flush", "shutdown"}]
    /\ phase \in {"idle", "writing", "sending"}
    /\ batch \in Seq([stream : Stream, offset : Nat, fin : BOOLEAN])
    /\ peer \in [Stream -> [wire : Nat, finWire : BOOLEAN, acked : Nat, granted : Nat,
                           reset : BOOLEAN, stop : BOOLEAN]]

SumOver(f(_)) == SumFunctionOnSet([s \in Stream |-> f(s)], Stream)

\* What the connection counts as buffered is what its streams count, and a stream counts
\* its chunks: an acknowledgement, a close by the peer and a reset applied by the sender
\* each give back exactly what is still held, whichever comes first.
SendBuffers ==
    /\ conn.buffered = SumOver(LAMBDA s : strm[s].buffered)
    /\ \A s \in Stream : strm[s].buffered = SumFunction(strm[s].tx)

\* Every received byte is credited to the connection's window once, by the read or the
\* discard that consumes it, and every stream of the peer that closes is credited once to
\* its stream limit: what the program holds unread never exceeds the windows.  Nobody reads
\* a dropped stream again: once ngtcp2 has closed it too, all it ever received has been
\* credited, or the connection's window would shrink for good.  Not so when the FIN arrives
\* between reset() and its application.
CreditExact ==
    /\ conn.granted + conn.credit = SumOver(LAMBDA s : strm[s].consumed)
    /\ conn.streamsGranted + conn.streamCredit =
           Cardinality({s \in Stream \ Local : IsClosed(strm[s])})
    /\ SumOver(LAMBDA s : Unread(strm[s])) <= ConnWindow
    /\ \A s \in Stream : Unread(strm[s]) <= StreamWindow
    /\ \A s \in Stream :
          (handle[s] = "dropped" /\ IsClosed(strm[s])
             /\ ~(strm[s].resetRequested /\ strm[s].readFin)) => Unread(strm[s]) = 0

\* flush() and shutdown() report only what the kernel took: `sent` and finSent never run
\* ahead of the wire, the wire never ahead of what ngtcp2 packed, although receipts are
\* applied after an await in which the stream may be reset or closed.  The FIN goes into
\* the packet of the last accepted byte, and nothing is accepted after it.
ReceiptsHonest ==
    \A s \in Stream :
        /\ strm[s].sent <= peer[s].wire /\ peer[s].wire <= strm[s].submitted
        /\ strm[s].submitted <= strm[s].accepted
        /\ strm[s].finSubmitted => strm[s].writeFin /\ strm[s].submitted = strm[s].accepted
        /\ strm[s].finSent => peer[s].finWire /\ peer[s].wire = strm[s].accepted

ReadBlocked(s) == ~strm[s].readError /\ Unread(strm[s]) = 0 /\ ~strm[s].readFin
WriteBlocked(s) ==
    CASE want[s] = "write" -> CanWrite(strm[s]) /\ Room(s) = 0
      [] want[s] = "flush" -> ~strm[s].writeError /\ strm[s].sent < strm[s].accepted
      [] OTHER -> ~strm[s].writeError /\ ~strm[s].finSent

\* No lost wake-up: who waits without having been woken really is blocked, or the sender
\* or the receiver is in the middle of its turn and will notify it at the end.  Not so for
\* a flush or shutdown of a stream that closed before its last datagram was reported:
\* notify no longer reaches the stream.
WaitersBlocked ==
    \A s \in Stream :
        LET due == (phase # "idle" \/ conn.receiving) /\ strm[s].where \in {"map", "closing"}
        IN  /\ reader[s] = "waiting" => ReadBlocked(s) \/ due
            /\ writer[s] = "waiting" => \/ WriteBlocked(s) \/ due
                                       \/ (strm[s].where = "gone" /\ want[s] # "write")

\* flush() and shutdown() return, unless the stream closed first: its bytes are packed,
\* sent and reported however the batches fall.
Flushed ==
    \A s \in Stream :
        want[s] \in {"flush", "shutdown"} ~> (want[s] = "none" \/ strm[s].where = "gone")

=============================================================================
