----------------------------- MODULE TunnelPipe -----------------------------
(***************************************************************************)
(* What one direction of a tunnel promises the two programs it connects:   *)
(* a byte pipe that keeps the order of the bytes, holds no more than       *)
(* Capacity of them, and hands on everything it was given for as long as   *)
(* the receiving end lasts.  A byte is named by its offset, so the bytes   *)
(* delivered are always the first `got' of the `sent' ones.                *)
(***************************************************************************)
EXTENDS Naturals

CONSTANT Capacity      \* the most bytes sent and not yet delivered

VARIABLES sent,        \* bytes taken from the sending program
          got,         \* bytes handed to the receiving program
          receiver     \* the receiving end: "new", "up", then "down" for good

vars == <<sent, got, receiver>>

Init == sent = 0 /\ got = 0 /\ receiver = "new"

\* The pipe takes n more bytes from the sending program.
Put(n) == /\ sent + n <= got + Capacity
          /\ sent' = sent + n
          /\ UNCHANGED <<got, receiver>>

\* The pipe hands the next n bytes to the receiving program.
Take(n) == /\ receiver = "up"
           /\ got + n <= sent
           /\ got' = got + n
           /\ UNCHANGED <<sent, receiver>>

Raise == receiver = "new" /\ receiver' = "up" /\ UNCHANGED <<sent, got>>
Cut == receiver = "up" /\ receiver' = "down" /\ UNCHANGED <<sent, got>>

Next == \/ \E n \in 1 .. Capacity : Put(n) \/ Take(n)
        \/ Raise
        \/ Cut

\* The safety part: what no step of a tunnel may do.
Safe == Init /\ [][Next]_vars

\* And the promise to deliver while the receiving end is up.
Live == WF_vars(\E n \in 1 .. Capacity : Take(n))

Spec == Safe /\ Live
=============================================================================
