----------------------------- MODULE MCSession -----------------------------
(* Instances of Session for TLC: two clients that want the same name. *)
EXTENDS Session

CONSTANTS a, b

SameName == [c \in Client |-> CHOOSE n \in Name : TRUE]
OneOfEach == [c \in Client |-> IF c = a THEN "quic" ELSE "tcp"]
AutoAndTcp == [c \in Client |-> IF c = a THEN "auto" ELSE "tcp"]
AllTcp == [c \in Client |-> "tcp"]
AllAuto == [c \in Client |-> "auto"]
=============================================================================
