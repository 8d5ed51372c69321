----------------------------- MODULE ProxyRules -----------------------------
(***************************************************************************)
(* The forwarding rules of the server: ProxyServer::addRule and removeRule *)
(* (which the WebUI's POST and DELETE call), ProxyRule::run, the sessions  *)
(* that rules and clients open tunnels in (the scope of handleSession),    *)
(* ClientSession::openTunnel with the activeConnections it counts, and     *)
(* ClientSession::onPeerOpenTunnel, which joins two clients.               *)
(*                                                                         *)
(* addRule spawns the coroutine that registers the rule, so a rule is      *)
(* listed later than it is accepted, and removeRule only requests a stop.  *)
(* A connection is served by the coroutines ("legs") of one or two         *)
(* tunnels: leg 1 is the tunnel of a rule's connection, or that of the     *)
(* client that asked for another; leg 2 is that of the other client.       *)
(***************************************************************************)
EXTENDS Integers, FiniteSets

CONSTANTS
    Port, Name,
    Target,        \* the names that rules forward to
    Rule,          \* bound: the rules there are at a time, with their status
    Conn,          \* bound: the connections there are at a time
    None           \* no rule, no name

ASSUME TargetAssumption == Target \subseteq Name
ASSUME ConnAssumption == IsFiniteSet(Conn)
ASSUME NoneAssumption == None \notin Rule \cup Name

VARIABLES
    rule,        \* rule -> where the coroutine of addRule is, and its port and client
    stop,        \* the rules whose mStopSource was asked to stop
    mRules,      \* port -> the rule listed there, or None
    raced,       \* history: the ports where an addRule overtook another
    session,     \* name -> how far handleSession is with the session in mSessions
    conn,        \* connection -> the rule that accepted it, or None
    leg,         \* connection, leg -> where its coroutine is, and its session's name
                 \* (None once handleSession has left it behind)
    activeConnections   \* rule -> that field of its ProxyStatus

rules == <<rule, stop, mRules, raced>>
tunnels == <<conn, leg, activeConnections>>
vars == <<rules, session, tunnels>>

Leg == {1, 2}
NoRule == [at |-> "unused", port |-> None, client |-> None]
NoLeg == [at |-> "unused", in |-> None]

Init ==
    /\ rule = [r \in Rule |-> NoRule]
    /\ stop = {}
    /\ mRules = [p \in Port |-> None]
    /\ raced = {}
    /\ session = [n \in Name |-> "none"]
    /\ conn = [c \in Conn |-> None]
    /\ leg = [c \in Conn |-> [i \in Leg |-> NoLeg]]
    /\ activeConnections = [r \in Rule |-> 0]

-----------------------------------------------------------------------------
(***************************************************************************)
(* Rules.                                                                  *)
(***************************************************************************)

Pending(p) == {r \in Rule : rule[r].at = "spawned" /\ rule[r].port = p}
Alive(p) == {r \in Rule : rule[r].at \in {"binding", "listening"} /\ rule[r].port = p}

\* POST: the port is checked now and taken when the coroutine starts.
AddRule(p, n) ==
    /\ mRules[p] = None
    /\ \E r \in Rule :
         /\ rule[r].at = "unused" /\ \A c \in Conn : conn[c] # r
         /\ rule' = [rule EXCEPT ![r] = [at |-> "spawned", port |-> p, client |-> n]]
         /\ activeConnections' = [activeConnections EXCEPT ![r] = 0]   \* a new ProxyStatus
    /\ raced' = IF Pending(p) = {} THEN raced ELSE raced \cup {p}
    /\ UNCHANGED <<stop, mRules, session, conn, leg>>

\* The coroutine starts: emplace keeps a rule that is already listed.
RuleStarts(r) ==
    /\ rule[r].at = "spawned"
    /\ rule' = [rule EXCEPT ![r].at = "binding"]
    /\ mRules' = [mRules EXCEPT ![rule[r].port] = IF @ = None THEN r ELSE @]
    /\ UNCHANGED <<stop, raced, session, tunnels>>

RuleListens(r) ==
    /\ rule[r].at = "binding"
    /\ rule' = [rule EXCEPT ![r].at = "listening"]
    /\ UNCHANGED <<stop, mRules, raced, session, tunnels>>

\* The coroutine ends: its ScopeExit erases whatever its port lists.
RuleEnds(r) ==
    LET p == rule[r].port
    IN  /\ rule' = [rule EXCEPT ![r] = NoRule]
        /\ stop' = stop \ {r}
        /\ mRules' = [mRules EXCEPT ![p] = None]
        /\ raced' = IF (Pending(p) \cup Alive(p)) \subseteq {r} THEN raced \ {p} ELSE raced
        /\ UNCHANGED <<session, tunnels>>

BindFails(r) == rule[r].at = "binding" /\ RuleEnds(r)

Serves(r) == \E c \in Conn : conn[c] = r

RuleStops_Waits(r) == rule[r].at = "listening" /\ r \in stop /\ ~ Serves(r) /\ RuleEnds(r)
RuleStops(r) == rule[r].at = "listening" /\ r \in stop /\ RuleEnds(r)

RemoveRule_Erases(p) ==
    /\ mRules[p] # None
    /\ stop' = stop \cup {mRules[p]}
    /\ mRules' = [mRules EXCEPT ![p] = None]
    /\ UNCHANGED <<rule, raced, session, tunnels>>

\* DELETE: the rule stays listed until its coroutine has ended.
RemoveRule(p) ==
    /\ mRules[p] # None
    /\ stop' = stop \cup {mRules[p]}
    /\ UNCHANGED <<rule, mRules, raced, session, tunnels>>

-----------------------------------------------------------------------------
(***************************************************************************)
(* Sessions: what handleSession does with its scope.                       *)
(***************************************************************************)

\* The name is taken, then HelloAck is written: tunnels can be opened meanwhile.
SessionRegisters(n) ==
    /\ session[n] = "none"
    /\ session' = [session EXCEPT ![n] = "acking"]
    /\ UNCHANGED <<rules, tunnels>>

\* HelloAck is written: the workers run.
SessionUp(n) ==
    /\ session[n] = "acking"
    /\ session' = [session EXCEPT ![n] = "up"]
    /\ UNCHANGED <<rules, tunnels>>

\* HelloAck cannot be written: the ScopeExit frees the name and stops the
\* scope, and handleSession returns without a waitAll(): a tunnel that was
\* opened meanwhile is left with no session.
AckFails(n) ==
    /\ session[n] = "acking"
    /\ session' = [session EXCEPT ![n] = "none"]
    /\ leg' = [c \in Conn |-> [i \in Leg |->
                   [leg[c][i] EXCEPT !.in = IF @ = n THEN None ELSE @]]]
    /\ UNCHANGED <<rules, conn, activeConnections>>

\* A worker of the session ended: the scope is stopped, its name still taken.
SessionDrains(n) ==
    /\ session[n] = "up"
    /\ session' = [session EXCEPT ![n] = "draining"]
    /\ UNCHANGED <<rules, tunnels>>

SessionGone_AtOnce(n) ==
    /\ session[n] = "draining"
    /\ session' = [session EXCEPT ![n] = "none"]
    /\ UNCHANGED <<rules, tunnels>>

\* scope.waitAll() returned and the ScopeExit has freed the name.
SessionGone(n) ==
    /\ session[n] = "draining"
    /\ \A c \in Conn, i \in Leg : leg[c][i].in # n
    /\ session' = [session EXCEPT ![n] = "none"]
    /\ UNCHANGED <<rules, tunnels>>

-----------------------------------------------------------------------------
(***************************************************************************)
(* Connections.                                                            *)
(***************************************************************************)

Fresh(c) == \A i \in Leg : leg[c][i] = NoLeg
Found(n) == n # None /\ session[n] # "none"     \* in mSessions, even while it drains
Opening(n) == [at |-> "opening", in |-> n]

\* ProxyRule::run accepts a connection; without a session it drops it.
AcceptConn(r, c) ==
    /\ rule[r].at = "listening"
    /\ Fresh(c)
    /\ Found(rule[r].client)
    /\ conn' = [conn EXCEPT ![c] = r]
    /\ leg' = [leg EXCEPT ![c][1] = Opening(rule[r].client)]
    /\ UNCHANGED <<rules, session, activeConnections>>

\* onPeerOpenTunnel: client n asks for client m, which may be itself.
ForwardConn(n, m, c) ==
    /\ session[n] = "up"
    /\ Fresh(c)
    /\ Found(m)
    /\ leg' = [leg EXCEPT ![c] = [i \in Leg |-> Opening(IF i = 1 THEN n ELSE m)]]
    /\ UNCHANGED <<conn, rules, session, activeConnections>>

\* The wrapper stream counts the connections of a rule, and no others.
Count(c, n) == IF conn[c] = None THEN UNCHANGED activeConnections
               ELSE activeConnections' = [activeConnections EXCEPT ![conn[c]] = @ + n]

\* The entry runs, and makes the wrapper.
LegStarts(c, i) ==
    /\ leg[c][i].at = "opening"
    /\ leg' = [leg EXCEPT ![c][i].at = "copying"]
    /\ Count(c, 1)
    /\ UNCHANGED <<conn, rules, session>>

LegOver(c, i) ==
    /\ leg' = [leg EXCEPT ![c][i] = NoLeg]
    /\ conn' = [conn EXCEPT ![c] = None]
    /\ UNCHANGED <<rules, session>>

CanBeCanceled(c, i) ==
    /\ leg[c][i].at = "opening"
    /\ leg[c][i].in \in {None} \cup {n \in Name : session[n] = "draining"}

LegCanceled_Uncounts(c, i) == CanBeCanceled(c, i) /\ LegOver(c, i) /\ Count(c, -1)

\* A coroutine of a stopped scope may be canceled before its entry runs.
LegCanceled(c, i) == CanBeCanceled(c, i) /\ LegOver(c, i) /\ UNCHANGED activeConnections

\* An end of the copying, for whatever reason, destroys the wrapper.
LegEnds(c, i) == leg[c][i].at = "copying" /\ LegOver(c, i) /\ Count(c, -1)

-----------------------------------------------------------------------------
Next ==
    \/ \E p \in Port, n \in Target : AddRule(p, n)
    \/ \E p \in Port : RemoveRule(p)
    \/ \E r \in Rule : RuleStarts(r) \/ RuleListens(r) \/ BindFails(r) \/ RuleStops(r)
    \/ \E n \in Name : \/ SessionRegisters(n) \/ SessionUp(n) \/ AckFails(n)
                       \/ SessionDrains(n) \/ SessionGone(n)
    \/ \E r \in Rule, c \in Conn : AcceptConn(r, c)
    \/ \E n, m \in Name, c \in Conn : ForwardConn(n, m, c)
    \/ \E c \in Conn, i \in Leg : LegStarts(c, i) \/ LegCanceled(c, i) \/ LegEnds(c, i)

\* The executor resumes the coroutines of the rules; connections may last.
Fairness ==
    \A r \in Rule : /\ WF_vars(RuleStarts(r))
                    /\ WF_vars(RuleListens(r) \/ BindFails(r))
                    /\ WF_vars(RuleStops(r))

Spec == Init /\ [][Next]_vars
FairSpec == Spec /\ Fairness

-----------------------------------------------------------------------------
(***************************************************************************)
(* Properties.                                                             *)
(***************************************************************************)

TypeOK ==
    /\ rule \in [Rule -> [at : {"unused", "spawned", "binding", "listening"},
                          port : Port \cup {None}, client : Target \cup {None}]]
    /\ stop \subseteq Rule
    /\ mRules \in [Port -> Rule \cup {None}]
    /\ raced \subseteq Port
    /\ session \in [Name -> {"none", "acking", "up", "draining"}]
    /\ conn \in [Conn -> Rule \cup {None}]
    /\ leg \in [Conn -> [Leg -> [at : {"unused", "opening", "copying"},
                                 in : Name \cup {None}]]]
    /\ activeConnections \in [Rule -> Nat]

\* The connections of r whose tunnel is copying.
Copying(r) == {c \in Conn : conn[c] = r /\ leg[c][1].at = "copying"}

\* The WebUI's count of a rule's open connections is the number of its
\* tunnels that copy, whatever ends them (a peer, a removed rule, a session
\* that drains, a cancellation before the start).
CountersExact == \A r \in Rule : activeConnections[r] = Cardinality(Copying(r))

\* A port that forwards is listed with the rule that forwards it, so it can
\* be seen and removed, and a port that is listed forwards: unless a second
\* addRule of the port came before the coroutine of the first had started.
ListedListens ==
    \A p \in Port \ raced : IF Alive(p) = {} THEN mRules[p] = None
                                             ELSE Alive(p) = {mRules[p]}

Left(l) == l.in = None     \* by a session whose HelloAck could not be written

\* No coroutine of a tunnel outlives the session it refers to, also when a
\* rule or another client opened it while the session was draining: but for
\* those of a session whose HelloAck could not be written, which are Left
\* (nothing waits for them).
SessionOutlives ==
    \A c \in Conn, i \in Leg :
        leg[c][i] # NoLeg => Found(leg[c][i].in) \/ Left(leg[c][i])

\* A rule that was asked to stop ends and gives up its port, even while its
\* connections go on.
RemovedEnds == \A r \in Rule : r \in stop ~> r \notin stop
=============================================================================
