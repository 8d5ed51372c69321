------------------------------ MODULE UdpBatch ------------------------------
(***************************************************************************)
(* UdpBatchSocket::send (src/quic/udp_batch.cpp): one batch of datagrams    *)
(* handed to the kernel, first as one segmented message, then, when the     *)
(* kernel refuses that, datagram by datagram.  A data structure: the module *)
(* that composes it (QuicStream) turns the operators into actions.          *)
(*                                                                          *)
(* A definition X_Y is X with one plausible bug.                            *)
(***************************************************************************)
EXTENDS Naturals, Sequences

VARIABLE udp

Idle == [segmentation |-> TRUE, whole |-> FALSE, count |-> 0, completed |-> 0, wire |-> << >>]

UdpInit == udp = Idle

\* send() is entered with `count` datagrams; `whole`: they go as one message.
Begin(count) ==
    udp' = [udp EXCEPT !.count = count, !.completed = 0, !.wire = << >>,
                       !.whole = count > 1 /\ udp.segmentation]

\* The kernel takes the segmented message: all datagrams are on the wire.
SendWhole ==
    /\ udp.whole
    /\ udp' = [udp EXCEPT !.whole = FALSE, !.completed = @ + udp.count,
                          !.wire = @ \o [i \in 1..udp.count |-> i]]

\* The kernel does not support segmentation: none of the message was sent, and
\* from now on every batch is split.
RefuseWhole_Sent ==
    /\ udp.whole
    /\ udp' = [udp EXCEPT !.whole = FALSE, !.segmentation = FALSE, !.completed = 1]
RefuseWhole ==
    /\ udp.whole
    /\ udp' = [udp EXCEPT !.whole = FALSE, !.segmentation = FALSE]

\* sendmmsg, or a sendmsg each, takes the next n datagrams; then the socket may be full.
SendSome(n) ==
    /\ ~udp.whole
    /\ n \in 1..(udp.count - udp.completed)
    /\ udp' = [udp EXCEPT !.completed = @ + n,
                          !.wire = @ \o [i \in 1..n |-> udp.completed + i]]

Done == ~udp.whole /\ udp.completed = udp.count

\* Every datagram of the batch goes out at most once and in order, and `completed`,
\* which the caller gets as Sent::datagrams, counts exactly those that did: across a
\* refused segmentation and any number of partial submissions.
SentOnce == udp.wire = [i \in 1..udp.completed |-> i] /\ udp.completed <= udp.count
=============================================================================
