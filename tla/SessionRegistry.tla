-------------------------- MODULE SessionRegistry --------------------------
(***************************************************************************)
(* What the server promises about names: a name is held by at most one     *)
(* session, a session that is served holds its name from before its first  *)
(* service to after its last, and only its own end frees the name.         *)
(***************************************************************************)
CONSTANTS Name, Session, Nobody

VARIABLES holder,     \* name -> the session that holds it, or Nobody
          served      \* the sessions that are being served

vars == <<holder, served>>

Init == holder = [n \in Name |-> Nobody] /\ served = {}

Claim(n, s) == /\ holder[n] = Nobody
               /\ s \notin served
               /\ holder' = [holder EXCEPT ![n] = s]
               /\ served' = served \cup {s}

Release(n, s) == /\ holder[n] = s
                 /\ s \in served
                 /\ holder' = [holder EXCEPT ![n] = Nobody]
                 /\ served' = served \ {s}

Next == \E n \in Name, s \in Session : Claim(n, s) \/ Release(n, s)

Spec == Init /\ [][Next]_vars
=============================================================================
