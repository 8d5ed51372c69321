------------------------------- MODULE Frames -------------------------------
(***************************************************************************)
(* One direction of a session, byte for byte: the tunnels' readCopyWorker  *)
(* and whoever sends control messages, the channel of messages, the        *)
(* MessageWriter, the connection, the MessageReader of the other peer and  *)
(* its tunnels' writeCopyWorker (src/protocol.hpp, with the buffers of     *)
(* src/tunnel.cpp).  Each peer has a pool of buffers.                      *)
(*                                                                         *)
(* A byte is a positive number and an integer is the sequence of its       *)
(* bytes, so byte order does not show; the widths of the integers are      *)
(* constants.  A message is its type, its leading integer (version or      *)
(* streamId) and the bytes after it.                                       *)
(***************************************************************************)
EXTENDS SkBufferPool, SequencesExt

CONSTANTS
    U8, U16, U32, U64,   \* sizeof the integer types
    MaxFrame,            \* UINT16_MAX
    ControlSize,         \* the capacity of the MessageWriter's mBuffer
    Control,             \* the control messages that are sent
    Ids, Payloads,       \* the tunnels' ids, and what a read of a local stream returns
    Foreign,             \* frames that a peer with another idea of the protocol sends
    MaxOut, MaxWire, MaxHeld   \* bounds: messages in each of the three queues

Header == U16 + U8
HeaderRoom == Header + 2 * U64      \* HAJIMI_HEADER_ROOM
MaxData == MaxFrame - U64           \* HAJIMI_MAX_DATA_EXCHANGE

\* The writer's small buffer has room for a control message of integers.
ASSUME SizesAssumption ==
    /\ {U8, U16, U32, U64} \subseteq Nat \ {0}
    /\ {MaxFrame, ControlSize} \subseteq Nat
    /\ HeaderRoom + U64 + U32 <= ControlSize

Types == {"Hello", "HelloAck", "Ping", "Pong", "OpenTunnel", "DataExchange", "TunnelClose",
          "WindowUpdate", "FatalError"}

\* The bytes of the leading integer that parse pops for each type.
Lead(type) == CASE type = "Hello" -> U16
                [] type \in {"OpenTunnel", "DataExchange", "TunnelClose", "WindowUpdate"} -> U64
                [] OTHER -> 0

\* How many bytes of n after it parse takes: a size, a string or nothing.
Rest(type, n) == CASE type = "WindowUpdate" -> U32
                   [] type \in {"Hello", "OpenTunnel", "DataExchange", "FatalError"} -> n
                   [] OTHER -> 0

\* What the writer writes of each type.  A FatalError always has a text.
Message == {m \in [type : Types, lead : Seq(Nat), rest : Seq(Nat)] :
               /\ Len(m.lead) = Lead(m.type) /\ Len(m.rest) = Rest(m.type, Len(m.rest))
               /\ m.type = "FatalError" => m.rest # << >>}

\* Names, endpoints and texts have any length.
ASSUME ControlAssumption ==
    \A m \in Control : m \in Message /\ m.type # "DataExchange"
ASSUME TunnelAssumption ==
    /\ \A id \in Ids : id \in Seq(Nat) /\ Len(id) = U64
    /\ \A d \in Payloads : d \in Seq(Nat) /\ Len(d) \in 1 .. MaxData
ASSUME ForeignAssumption == \A f \in Foreign : f.payload \in Seq(Nat)

VARIABLES
    sender,     \* the sender's pool
    writer,     \* MessageWriter::mBuffer
    out,        \* the channel of messages: the message, its buffer when it has one
    wire,       \* the frames on their way: type, payload, the message it was made from
    receiver,   \* the receiver's pool
    reader,     \* MessageReader::mBuffer
    frame,      \* the frame whose payload readMessage is waiting for, or NoFrame
    held,       \* the data of received messages, in their tunnels: buffer, bytes sent
    faithful,   \* history: every message has been read as it was written
    aborted,    \* history: the control message the sender's program ended at, or NoMessage
    fits,       \* history: no other assert of SkBuffer or the writer has failed
    ended       \* the peers ("sender", "receiver") whose session is over

sending == <<sender, writer, out, aborted>>
receiving == <<receiver, reader, frame, held, faithful>>
vars == <<sending, wire, receiving, fits, ended>>

FreeAll(P, buffers) == FoldSet(LAMBDA b, Q : Free(Q, b), P, buffers)

NoMessage == [type |-> "none", lead |-> << >>, rest |-> << >>]
NoFrame == [type |-> "none", payload |-> << >>, from |-> NoMessage]

Init ==
    LET x == Allocate(NewPool, ControlSize) IN
    /\ sender = x.pool /\ writer = x.buffer
    /\ out = << >> /\ wire = << >>
    /\ receiver = NewPool /\ reader = NullBuffer /\ frame = NoFrame /\ held = << >>
    /\ faithful = TRUE
    /\ aborted = NoMessage
    /\ fits = TRUE
    /\ ended = {}

-----------------------------------------------------------------------------
(***************************************************************************)
(* The sender.                                                             *)
(***************************************************************************)

\* trySend of a message without data.
SendControl(m) ==
    /\ "sender" \notin ended /\ Len(out) < MaxOut
    /\ out' = Append(out, [message |-> m, buffer |-> NullBuffer])
    /\ UNCHANGED <<sender, writer, wire, receiving, aborted, fits, ended>>

\* The buffer readCopyWorker reads into; bufsize depends on the send window.
Prepared_NoRoom(bufsize) == ReserveHead(Allocate(sender, bufsize), HeaderRoom)
Prepared(bufsize) == ReserveHead(Allocate(sender, HeaderRoom + bufsize), HeaderRoom)

\* readCopyWorker: a read returns, and its bytes go into the channel.
ReadLocal(id, data, bufsize) ==
    /\ "sender" \notin ended /\ Len(out) < MaxOut
    /\ Len(data) <= bufsize
    /\ LET x == AppendTo(Prepared(bufsize), data) IN
       /\ sender' = x.pool
       /\ out' = Append(out, [message |-> [type |-> "DataExchange", lead |-> id, rest |-> data],
                              buffer |-> x.buffer])
       /\ fits' = (fits /\ Fits(x))
    /\ UNCHANGED <<writer, wire, receiving, aborted, ended>>

\* A header: its bytes are only counted, a frame has its type and length apart.
HeaderBytes == [i \in 1 .. Header |-> 1]

Encoded(x, m) ==
    AppendTo(AppendTo(ReserveHead(Clear(x), HeaderRoom), m.lead), m.rest)

Put(m, x) ==
    wire' = Append(wire, [type |-> m.type, payload |-> Data(x.pool, x.buffer), from |-> m])

\* writeMessage of a control message, through the writer's own buffer.
WriteControl ==
    /\ "sender" \notin ended /\ out # << >> /\ Len(wire) < MaxWire
    /\ LET m == Head(out).message
           x == Encoded([pool |-> sender, buffer |-> writer], m)
           y == PrependTo(x, HeaderBytes)
       IN  /\ Head(out).buffer = NullBuffer
           /\ Fits(y)
           /\ Put(m, x)
           /\ sender' = y.pool /\ writer' = y.buffer
    /\ out' = Tail(out)
    /\ UNCHANGED <<receiving, aborted, fits, ended>>

\* The message does not fit the writer's buffer: the assert in prepareBack
\* fails, and the program ends there with everything it has.
WriterAborts ==
    /\ "sender" \notin ended /\ out # << >>
    /\ LET x == Encoded([pool |-> sender, buffer |-> writer], Head(out).message)
       IN  Head(out).buffer = NullBuffer /\ ~ Fits(PrependTo(x, HeaderBytes))
    /\ aborted' = Head(out).message
    /\ sender' = NewPool /\ writer' = NullBuffer /\ out' = << >>
    /\ ended' = ended \cup {"sender"}
    /\ UNCHANGED <<wire, receiving, fits>>

\* writeMessage of data, in the buffer that was read into; it is freed then.
WriteData ==
    /\ "sender" \notin ended /\ out # << >> /\ Len(wire) < MaxWire
    /\ LET m == Head(out).message
           b == Head(out).buffer
           x == PrependTo([pool |-> sender, buffer |-> b], m.lead)
           y == PrependTo(x, HeaderBytes)
       IN  /\ b # NullBuffer
           /\ Put(m, x)
           /\ sender' = Free(y.pool, y.buffer)
           /\ fits' = (fits /\ Fits(y) /\ Size(b) <= MaxData /\ b.head >= HeaderRoom)
    /\ out' = Tail(out)
    /\ UNCHANGED <<writer, receiving, aborted, ended>>

-----------------------------------------------------------------------------
(***************************************************************************)
(* The receiver.                                                           *)
(***************************************************************************)

\* parse fails: an unknown type, an integer that is not all there, or a string
\* popped when there is no buffer.
Bad(type, b) ==
    \/ type \notin Types
    \/ Size(b) < Lead(type)
    \/ Size(b) < Lead(type) + Rest(type, Size(b) - Lead(type))
    \/ type = "FatalError" /\ b.node = 0

Parsed(type, P, b) ==
    IF Bad(type, b) THEN NoMessage
    ELSE LET d == Data(P, b)
             n == Lead(type)
         IN  [type |-> type, lead |-> SubSeq(d, 1, n),
              rest |-> SubSeq(d, n + 1, n + Rest(type, Len(d) - n))]

\* How many bytes parse pops from the reader's buffer.
PopCount(type, b) ==
    IF type = "DataExchange" THEN U64 ELSE Lead(type) + Rest(type, Size(b) - Lead(type))

\* What is left of the reader's buffer; a DataExchange takes it along.
Left_Shares(type, b) == ConsumeFront(b, PopCount(type, b))
Left(type, b) ==
    IF type = "DataExchange" THEN NullBuffer
    ELSE IF b.node = 0 THEN b
    ELSE ConsumeFront(b, PopCount(type, b))

\* The end of readMessage, with f's payload in the buffer b.  A message that
\* cannot be parsed ends the session, and every buffer of the peer with it.
Finish(f, P, b) ==
    LET m == Parsed(f.type, P, b) IN
    /\ faithful' = (faithful /\ f.from \in {m, NoMessage})
    /\ fits' = (fits /\ (m # NoMessage => PopCount(f.type, b) <= Size(b)))
    /\ frame' = NoFrame
    /\ IF m = NoMessage
       THEN /\ ended' = ended \cup {"receiver"}
            /\ receiver' = FreeAll(P, {b} \cup {held[i].buffer : i \in DOMAIN held})
            /\ reader' = NullBuffer /\ held' = << >>
       ELSE /\ reader' = Left(f.type, b)
            /\ held' = IF f.type = "DataExchange"
                       THEN Append(held, [buffer |-> ConsumeFront(b, PopCount(f.type, b)),
                                          bytes |-> m.rest])
                       ELSE held
            /\ receiver' = P
            /\ UNCHANGED ended

\* A header without a payload: parse sees what earlier frames left.
ReadEmpty ==
    /\ "receiver" \notin ended /\ frame = NoFrame /\ wire # << >>
    /\ Head(wire).payload = << >>
    /\ Len(held) < MaxHeld
    /\ wire' = Tail(wire)
    /\ Finish(Head(wire), receiver, reader)
    /\ UNCHANGED sending

\* A new buffer is there before the old one goes.
Grown_Leaks(len) ==
    IF Capacity(receiver, reader) < len THEN Allocate(receiver, len)
    ELSE [pool |-> receiver, buffer |-> reader]
Grown(len) ==
    IF Capacity(receiver, reader) < len
    THEN LET x == Allocate(receiver, len) IN [x EXCEPT !.pool = Free(@, reader)]
    ELSE [pool |-> receiver, buffer |-> reader]

\* A header: the buffer is made ready, then readAll waits for the payload.
ReadHeader ==
    /\ "receiver" \notin ended /\ frame = NoFrame /\ wire # << >>
    /\ Head(wire).payload # << >>
    /\ LET x == Clear(Grown(Len(Head(wire).payload))) IN
       /\ receiver' = x.pool /\ reader' = x.buffer
       /\ fits' = (fits /\ Len(Head(wire).payload) <= Capacity(x.pool, x.buffer))
    /\ frame' = Head(wire)
    /\ wire' = Tail(wire)
    /\ UNCHANGED <<sending, held, faithful, ended>>

ReadPayload ==
    /\ "receiver" \notin ended /\ frame # NoFrame
    /\ Len(held) < MaxHeld
    /\ LET x == AppendTo([pool |-> receiver, buffer |-> reader], frame.payload)
       IN  Finish(frame, x.pool, x.buffer)
    /\ UNCHANGED <<sending, wire>>

\* writeCopyWorker has written the data (or its tunnel is gone): it is freed.
WriteLocal ==
    /\ held # << >>
    /\ receiver' = Free(receiver, Head(held).buffer)
    /\ held' = Tail(held)
    /\ UNCHANGED <<sending, wire, reader, frame, faithful, fits, ended>>

-----------------------------------------------------------------------------
(***************************************************************************)
(* What else happens.                                                      *)
(***************************************************************************)

ReceiveForeign(f) ==
    /\ "receiver" \notin ended /\ Len(wire) < MaxWire
    /\ wire' = Append(wire, [type |-> f.type, payload |-> f.payload, from |-> NoMessage])
    /\ UNCHANGED <<sending, receiving, fits, ended>>

\* The sender's session ends: its channel, its writer, then its pool go.
SenderEnds ==
    /\ "sender" \notin ended
    /\ sender' = FreeAll(sender, {writer} \cup {out[i].buffer : i \in DOMAIN out})
    /\ writer' = NullBuffer /\ out' = << >>
    /\ ended' = ended \cup {"sender"}
    /\ UNCHANGED <<wire, receiving, aborted, fits>>

\* The connection is lost, perhaps in the middle of a frame: readAll fails.
ReceiverEnds ==
    /\ "receiver" \notin ended
    /\ receiver' = FreeAll(receiver, {reader} \cup {held[i].buffer : i \in DOMAIN held})
    /\ reader' = NullBuffer /\ held' = << >> /\ frame' = NoFrame /\ wire' = << >>
    /\ ended' = ended \cup {"receiver"}
    /\ UNCHANGED <<sending, faithful, fits>>

Next ==
    \/ \E m \in Control : SendControl(m)
    \/ \E id \in Ids, d \in Payloads, n \in 1 .. MaxData : ReadLocal(id, d, n)
    \/ WriteControl \/ WriterAborts \/ WriteData
    \/ \E f \in Foreign : ReceiveForeign(f)
    \/ ReadEmpty \/ ReadHeader \/ ReadPayload \/ WriteLocal
    \/ SenderEnds \/ ReceiverEnds

Spec == Init /\ [][Next]_vars

-----------------------------------------------------------------------------
(***************************************************************************)
(* Properties.                                                             *)
(***************************************************************************)

\* Every message that is written is read as it was, whatever was read before
\* it (also a frame the parser took less of, or data whose buffer went to a
\* tunnel), and data keeps its bytes until its tunnel has written it.
RoundTrip ==
    /\ faithful
    /\ \A i \in DOMAIN held : Data(receiver, held[i].buffer) = held[i].bytes

\* A control message with a text (a name, an endpoint, an error) whose bytes do
\* not fit the writer's small buffer.
TooLong(m) ==
    /\ m.type \in {"Hello", "OpenTunnel", "FatalError"}
    /\ HeaderRoom + Len(m.lead) + Len(m.rest) > ControlSize

\* No assert on the room in a buffer, on what is popped from it or on the size
\* of a message fails (headers fit before the data, payloads in the buffers
\* made for them, the parser stops at the payload's end), but for one: the
\* program ends at a name, endpoint or text longer than the writer's buffer.
AssertsHold == fits /\ (aborted # NoMessage => TooLong(aborted))

\* The buffers in use, b and those in the queue, in some order.
Buffers(b, queue) ==
    LET all == [i \in {0} \cup DOMAIN queue |-> IF i = 0 THEN b ELSE queue[i].buffer]
        order == SetToSeq({i \in DOMAIN all : all[i].node # 0})
    IN  [n \in DOMAIN order |-> all[order[n]]]

\* A node is in one buffer or in one free list and never in both, and the
\* pool's count is exact, so that its destructor finds every buffer returned.
PoolsSound ==
    /\ Sound(sender, Buffers(writer, out))
    /\ Sound(receiver, Buffers(reader, held))
    /\ "sender" \in ended => sender.mBuffers = 0
    /\ "receiver" \in ended => receiver.mBuffers = 0
=============================================================================
