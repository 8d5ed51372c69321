---------------------------- MODULE MCQuicStream ----------------------------
(* One connection with a stream of this end and one of the peer, buffers and  *)
(* windows of one or two bytes and batches of two packets.                    *)
EXTENDS QuicStream, TLC

CONSTANTS a, b

MCStream == {a, b}
MCLocal == {a}

PlanOf(usesA, txA, rxA, usesB, txB, rxB, rude, faults) ==
    [uses |-> a :> usesA @@ b :> usesB, tx |-> a :> txA @@ b :> txB,
     rx |-> a :> rxA @@ b :> rxB, rude |-> rude, faults |-> faults]

MCPlans == {
    \* both write into the send buffer they share
    PlanOf({"write", "flush"}, 2, 0, {"write"}, 1, 0, {}, {}),
    \* a writer gives up while the peer ends its direction
    PlanOf({"write", "flush", "reset"}, 1, 0, {}, 0, 0, {}, {}),
    \* the peer resets and stops what is being read and given up
    PlanOf({}, 0, 0, {"read", "reset"}, 0, 2, {b}, {}),
    \* the peer stops a writer, or the connection, its packets or its socket fail under it
    PlanOf({"write", "flush"}, 2, 0, {}, 0, 0, {a}, {"peer", "socket", "packet"}),
    \* a stream ends while its last datagrams are being sent
    PlanOf({"write", "shutdown"}, 2, 0, {}, 0, 0, {}, {"socket"}) }
=============================================================================
