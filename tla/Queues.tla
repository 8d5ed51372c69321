------------------------------- MODULE Queues -------------------------------
(***************************************************************************)
(* std::erase_if of the queues of connections and of streams               *)
(* (src/quic/quic.cpp).                                                    *)
(***************************************************************************)
EXTENDS Integers, Sequences

\* The entries of the queue s that are in S, in their order.
Kept(s, S) ==
    LET kept[i \in 0 .. Len(s)] ==
            IF i = 0 THEN << >>
            ELSE IF s[i] \in S THEN Append(kept[i - 1], s[i]) ELSE kept[i - 1]
    IN  kept[Len(s)]
=============================================================================
