-------------------------- MODULE ProxyRules_proofs --------------------------
(***************************************************************************)
(* Proofs about ProxyRules, for any number of ports, names, rules and      *)
(* connections.  The inductive invariant IInv has one part per component:  *)
(* RulesInv for the rules and mRules, LegsInv for the connections,         *)
(* ScopesInv for the sessions they are in, and CountersExact.  Types       *)
(* leaves the sign of activeConnections to CountersExact.                  *)
(***************************************************************************)
EXTENDS ProxyRules, FiniteSetTheorems, TLAPS

OfPort(p) == {r \in Rule : rule[r].at # "unused" /\ rule[r].port = p}

Types ==
    /\ rule \in [Rule -> [at : {"unused", "spawned", "binding", "listening"},
                          port : Port \cup {None}, client : Target \cup {None}]]
    /\ stop \subseteq Rule
    /\ mRules \in [Port -> Rule \cup {None}]
    /\ raced \subseteq Port
    /\ session \in [Name -> {"none", "acking", "up", "draining"}]
    /\ conn \in [Conn -> Rule \cup {None}]
    /\ leg \in [Conn -> [Leg -> [at : {"unused", "opening", "copying"},
                                 in : Name \cup {None}]]]
    /\ activeConnections \in [Rule -> Int]

\* A rule in use has a port; what is listed is alive; a port that is not
\* raced has one rule, which is listed from the start of its coroutine.
RulesInv ==
    /\ \A r \in Rule : rule[r].at # "unused" => rule[r].port \in Port /\ rule[r].client \in Target
    /\ \A p \in Port : mRules[p] # None => mRules[p] \in Alive(p)
    /\ \A p \in Port \ raced : \A r, s \in OfPort(p) : r = s
    /\ \A p \in Port \ raced : \A r \in Alive(p) : mRules[p] = r

\* A leg that is not used is NoLeg; a rule's connection has its first leg only.
LegsInv ==
    /\ \A c \in Conn, i \in Leg : leg[c][i].at = "unused" <=> leg[c][i] = NoLeg
    /\ \A c \in Conn : conn[c] # None => leg[c][1] # NoLeg /\ leg[c][2] = NoLeg

\* Where a leg in use is: in a session that is found, or left by one whose
\* HelloAck was not written.
InScope(l) ==
    \/ l.in \in Name /\ Found(l.in)
    \/ Left(l)

ScopesInv == \A c \in Conn, i \in Leg : leg[c][i] # NoLeg => InScope(leg[c][i])

IInv == Types /\ RulesInv /\ LegsInv /\ ScopesInv /\ CountersExact

-----------------------------------------------------------------------------
LEMMA NoneIsNoRule == None \notin Rule
BY NoneAssumption

LEMMA NoneIsNoName == None \notin Name
BY NoneAssumption

\* The initial state.
LEMMA InitInv == Init => IInv
<1> SUFFICES ASSUME Init PROVE IInv
  OBVIOUS
<1>1. Types BY DEF Init, Types, NoRule, NoLeg, Leg
<1>2. RulesInv BY DEF Init, RulesInv, NoRule, OfPort, Alive
<1>3. LegsInv BY NoneIsNoName DEF Init, LegsInv, NoLeg, Leg
<1>4. ScopesInv BY DEF Init, ScopesInv, NoLeg, Leg
<1>5. CountersExact
  <2>1. \A r \in Rule : Copying(r) = {} BY NoneIsNoRule DEF Init, Copying
  <2> QED BY <2>1, FS_EmptySet DEF Init, CountersExact
<1> QED BY <1>1, <1>2, <1>3, <1>4, <1>5 DEF IInv

\* A step of the rules that leaves the connections alone keeps LegsInv, and
\* the counts when it leaves them alone too.
LEMMA TunnelsKept ==
    ASSUME LegsInv, CountersExact, UNCHANGED tunnels
    PROVE LegsInv' /\ CountersExact'
BY DEF LegsInv, CountersExact, Copying, tunnels

LEMMA SessionsKept ==
    ASSUME ScopesInv, UNCHANGED <<session, leg>>
    PROVE ScopesInv'
BY DEF ScopesInv, InScope, Left, Found

LEMMA RulesKept ==
    ASSUME RulesInv, UNCHANGED rules
    PROVE RulesInv'
BY DEF RulesInv, rules, Alive, OfPort

-----------------------------------------------------------------------------
(***************************************************************************)
(* The rules.                                                              *)
(***************************************************************************)

LEMMA AddRuleInv ==
    ASSUME IInv, NEW p \in Port, NEW n \in Target, AddRule(p, n)
    PROVE IInv'
<1>1. PICK r \in Rule :
        /\ rule[r].at = "unused" /\ \A c \in Conn : conn[c] # r
        /\ rule' = [rule EXCEPT ![r] = [at |-> "spawned", port |-> p, client |-> n]]
        /\ activeConnections' = [activeConnections EXCEPT ![r] = 0]
  BY DEF AddRule
<1>2. /\ mRules[p] = None
      /\ raced' = IF Pending(p) = {} THEN raced ELSE raced \cup {p}
      /\ UNCHANGED <<stop, mRules, session, conn, leg>>
  BY DEF AddRule
<1>t. Types BY DEF IInv
<1>3. Types'
  <2>1. [at |-> "spawned", port |-> p, client |-> n] \in
          [at : {"unused", "spawned", "binding", "listening"},
           port : Port \cup {None}, client : Target \cup {None}]
    OBVIOUS
  <2>2. rule' \in [Rule -> [at : {"unused", "spawned", "binding", "listening"},
                            port : Port \cup {None}, client : Target \cup {None}]]
    BY <1>1, <1>t, <2>1 DEF Types
  <2>3. raced' \subseteq Port BY <1>2, <1>t DEF Types
  <2> QED BY <1>1, <1>2, <1>t, <2>2, <2>3 DEF Types
<1>4. RulesInv'
  <2>1. rule'[r] = [at |-> "spawned", port |-> p, client |-> n] BY <1>1, <1>t DEF Types
  <2>2. \A s \in Rule : s # r => rule'[s] = rule[s] BY <1>1, <1>t DEF Types
  <2>3. \A q \in Port : Alive(q)' = Alive(q)
    BY <2>1, <2>2, <1>1 DEF Alive
  <2>4. \A q \in Port : OfPort(q)' = OfPort(q) \cup (IF q = p THEN {r} ELSE {})
    BY <2>1, <2>2, <1>1 DEF OfPort
  <2>5. \A s \in Rule : rule'[s].at # "unused" => rule'[s].port \in Port /\ rule'[s].client \in Target
    BY <2>1, <2>2 DEF IInv, RulesInv
  <2>6. \A q \in Port : mRules'[q] # None => mRules'[q] \in Alive(q)'
    BY <1>2, <2>3 DEF IInv, RulesInv
  <2>7. \A q \in Port \ raced' : \A s \in Alive(q)' : mRules'[q] = s
    BY <1>2, <2>3 DEF IInv, RulesInv
  <2>8. ASSUME NEW q \in Port \ raced', NEW s \in OfPort(q)', NEW u \in OfPort(q)'
        PROVE s = u
    <3>0. q \notin raced BY <1>2
    <3>1. CASE q # p BY <3>0, <3>1, <2>4, <2>8 DEF IInv, RulesInv
    <3>2. CASE q = p
      <4>1. Pending(p) = {} BY <3>2, <1>2
      <4>2. Alive(p) = {}
        <5>1. \A v \in Alive(p) : mRules[p] = v BY <3>0, <3>2 DEF IInv, RulesInv
        <5>2. \A v \in Alive(p) : v \in Rule BY DEF Alive
        <5> QED BY <5>1, <5>2, <1>2, NoneIsNoRule
      <4>3. OfPort(p) = {}
        BY <4>1, <4>2, <1>t DEF OfPort, Pending, Alive, Types
      <4> QED BY <4>3, <3>2, <2>4
    <3> QED BY <3>1, <3>2
  <2> QED BY <2>5, <2>6, <2>7, <2>8 DEF RulesInv
<1>5. LegsInv' BY <1>2 DEF IInv, LegsInv
<1>6. ScopesInv' BY <1>2, SessionsKept DEF IInv
<1>7. CountersExact'
  <2>1. \A s \in Rule : Copying(s)' = Copying(s) BY <1>2 DEF Copying
  <2>2. Copying(r) = {} BY <1>1 DEF Copying
  <2>3. activeConnections'[r] = 0 BY <1>1, <1>t DEF Types
  <2>4. \A s \in Rule : s # r => activeConnections'[s] = activeConnections[s]
    BY <1>1, <1>t DEF Types
  <2> QED BY <2>1, <2>2, <2>3, <2>4, FS_EmptySet DEF IInv, CountersExact
<1> QED BY <1>3, <1>4, <1>5, <1>6, <1>7 DEF IInv

LEMMA RuleStartsInv ==
    ASSUME IInv, NEW r \in Rule, RuleStarts(r)
    PROVE IInv'
<1> DEFINE p == rule[r].port
<1>1. /\ rule[r].at = "spawned"
      /\ rule' = [rule EXCEPT ![r].at = "binding"]
      /\ mRules' = [mRules EXCEPT ![p] = IF @ = None THEN r ELSE @]
      /\ UNCHANGED <<stop, raced, session, tunnels>>
  BY DEF RuleStarts
<1>t. Types /\ RulesInv BY DEF IInv
<1>2. p \in Port BY <1>1, <1>t DEF RulesInv
<1>3. Types'
  <2>1. rule' \in [Rule -> [at : {"unused", "spawned", "binding", "listening"},
                            port : Port \cup {None}, client : Target \cup {None}]]
    BY <1>1, <1>t DEF Types
  <2>2. mRules' \in [Port -> Rule \cup {None}] BY <1>1, <1>2, <1>t DEF Types
  <2> QED BY <1>1, <1>t, <2>1, <2>2 DEF Types, tunnels
<1>4. RulesInv'
  <2>1. rule'[r].at = "binding" /\ rule'[r].port = p /\ rule'[r].client = rule[r].client
    BY <1>1, <1>t DEF Types
  <2>2. \A s \in Rule : s # r => rule'[s] = rule[s] BY <1>1, <1>t DEF Types
  <2>3. \A q \in Port : Alive(q)' = Alive(q) \cup (IF q = p THEN {r} ELSE {})
    BY <2>1, <2>2, <1>1 DEF Alive
  <2>4. \A q \in Port : OfPort(q)' = OfPort(q)
    BY <2>1, <2>2, <1>1 DEF OfPort
  <2>5. mRules'[p] = (IF mRules[p] = None THEN r ELSE mRules[p]) BY <1>1, <1>2, <1>t DEF Types
  <2>6. \A q \in Port : q # p => mRules'[q] = mRules[q] BY <1>1, <1>2, <1>t DEF Types
  <2>7. \A s \in Rule : rule'[s].at # "unused" => rule'[s].port \in Port /\ rule'[s].client \in Target
    BY <2>1, <2>2, <1>1, <1>2, <1>t DEF RulesInv
  <2>8. \A q \in Port : mRules'[q] # None => mRules'[q] \in Alive(q)'
    BY <2>3, <2>5, <2>6, <1>t, NoneIsNoRule DEF RulesInv
  <2>9. \A q \in Port \ raced' : \A s, u \in OfPort(q)' : s = u
    BY <2>4, <1>1, <1>t DEF RulesInv
  <2>10. ASSUME NEW q \in Port \ raced', NEW s \in Alive(q)'
         PROVE mRules'[q] = s
    <3>0. q \notin raced BY <1>1
    <3>1. CASE q # p BY <3>0, <3>1, <2>3, <2>6, <1>t, <2>10 DEF RulesInv
    <3>2. CASE q = p
      <4>1. r \in OfPort(p) BY <1>1 DEF OfPort
      <4>2. \A v \in Alive(p) : v \in OfPort(p) /\ v # r BY <1>1 DEF Alive, OfPort
      <4>3. Alive(p) = {} BY <4>1, <4>2, <3>0, <3>2, <1>t DEF RulesInv
      <4>4. mRules[p] = None BY <4>3, <1>2, <1>t DEF RulesInv
      <4> QED BY <4>3, <4>4, <3>2, <2>3, <2>5
    <3> QED BY <3>1, <3>2
  <2> HIDE DEF p
  <2> QED BY <2>7, <2>8, <2>9, <2>10 DEF RulesInv
<1>5. LegsInv' /\ CountersExact' BY <1>1, TunnelsKept DEF IInv
<1>6. ScopesInv' BY <1>1, SessionsKept DEF IInv, tunnels
<1> QED BY <1>3, <1>4, <1>5, <1>6 DEF IInv

LEMMA RuleListensInv ==
    ASSUME IInv, NEW r \in Rule, RuleListens(r)
    PROVE IInv'
<1>1. /\ rule[r].at = "binding"
      /\ rule' = [rule EXCEPT ![r].at = "listening"]
      /\ UNCHANGED <<stop, mRules, raced, session, tunnels>>
  BY DEF RuleListens
<1>t. Types /\ RulesInv BY DEF IInv
<1>3. Types' BY <1>1, <1>t DEF Types, tunnels
<1>4. RulesInv'
  <2>1. rule'[r].at = "listening" /\ rule'[r].port = rule[r].port
          /\ rule'[r].client = rule[r].client
    BY <1>1, <1>t DEF Types
  <2>2. \A s \in Rule : s # r => rule'[s] = rule[s] BY <1>1, <1>t DEF Types
  <2>3. \A q \in Port : Alive(q)' = Alive(q) BY <2>1, <2>2, <1>1 DEF Alive
  <2>4. \A q \in Port : OfPort(q)' = OfPort(q) BY <2>1, <2>2, <1>1 DEF OfPort
  <2>5. \A s \in Rule : rule'[s].at # "unused" => rule'[s].port \in Port /\ rule'[s].client \in Target
    BY <2>1, <2>2, <1>1, <1>t DEF RulesInv
  <2> QED BY <2>3, <2>4, <2>5, <1>1, <1>t DEF RulesInv
<1>5. LegsInv' /\ CountersExact' BY <1>1, TunnelsKept DEF IInv
<1>6. ScopesInv' BY <1>1, SessionsKept DEF IInv, tunnels
<1> QED BY <1>3, <1>4, <1>5, <1>6 DEF IInv

\* The end of a rule's coroutine, whatever made it end.
LEMMA RuleEndsInv ==
    ASSUME IInv, NEW r \in Rule, rule[r].at \in {"binding", "listening"}, RuleEnds(r)
    PROVE IInv'
<1> DEFINE p == rule[r].port
<1>1. /\ rule' = [rule EXCEPT ![r] = NoRule]
      /\ stop' = stop \ {r}
      /\ mRules' = [mRules EXCEPT ![p] = None]
      /\ raced' = IF (Pending(p) \cup Alive(p)) \subseteq {r} THEN raced \ {p} ELSE raced
      /\ UNCHANGED <<session, tunnels>>
  BY DEF RuleEnds
<1>t. Types /\ RulesInv BY DEF IInv
<1>2. p \in Port BY <1>t DEF RulesInv
<1>3. Types'
  <2>1. rule' \in [Rule -> [at : {"unused", "spawned", "binding", "listening"},
                            port : Port \cup {None}, client : Target \cup {None}]]
    BY <1>1, <1>t DEF Types, NoRule
  <2>2. mRules' \in [Port -> Rule \cup {None}] BY <1>1, <1>2, <1>t DEF Types
  <2>3. raced' \subseteq Port BY <1>1, <1>t DEF Types
  <2> QED BY <1>1, <1>t, <2>1, <2>2, <2>3 DEF Types, tunnels
<1>4. RulesInv'
  <2>1. rule'[r] = NoRule BY <1>1, <1>t DEF Types
  <2>2. \A s \in Rule : s # r => rule'[s] = rule[s] BY <1>1, <1>t DEF Types
  <2>3. \A q \in Port : Alive(q)' = Alive(q) \ {r} BY <2>1, <2>2 DEF Alive, NoRule
  <2>4. \A q \in Port : OfPort(q)' = OfPort(q) \ {r} BY <2>1, <2>2 DEF OfPort, NoRule
  <2>5. mRules'[p] = None BY <1>1, <1>2, <1>t DEF Types
  <2>6. \A q \in Port : q # p => mRules'[q] = mRules[q] BY <1>1, <1>2, <1>t DEF Types
  <2>7. \A s \in Rule : rule'[s].at # "unused" => rule'[s].port \in Port /\ rule'[s].client \in Target
    BY <2>1, <2>2, <1>t DEF RulesInv, NoRule
  <2>8. \A q \in Port : q # p => r \notin Alive(q) BY DEF Alive
  <2>9. \A q \in Port : mRules'[q] # None => mRules'[q] \in Alive(q)'
    BY <2>3, <2>5, <2>6, <2>8, <1>t DEF RulesInv
  <2>10. ASSUME NEW q \in Port \ raced', NEW s \in OfPort(q)', NEW u \in OfPort(q)'
         PROVE s = u
    <3>1. CASE q \notin raced BY <3>1, <2>4, <1>t, <2>10 DEF RulesInv
    <3>2. CASE q \in raced
      <4>1. q = p /\ (Pending(p) \cup Alive(p)) \subseteq {r} BY <3>2, <1>1
      <4>2. OfPort(p) \subseteq {r} BY <4>1, <1>t DEF OfPort, Pending, Alive, Types
      <4> QED BY <4>1, <4>2, <2>4
    <3> QED BY <3>1, <3>2
  <2>11. ASSUME NEW q \in Port \ raced', NEW s \in Alive(q)'
         PROVE mRules'[q] = s
    <3>1. s \in Alive(q) /\ s # r BY <2>3
    <3>2. CASE q = p
      <4>1. p \notin raced
        <5>1. CASE (Pending(p) \cup Alive(p)) \subseteq {r} BY <5>1, <3>1, <3>2
        <5>2. CASE ~ ((Pending(p) \cup Alive(p)) \subseteq {r}) BY <5>2, <1>1, <3>2
        <5> QED BY <5>1, <5>2
      <4>2. r \in OfPort(p) /\ s \in OfPort(p) BY <3>1, <3>2 DEF OfPort, Alive
      <4> QED BY <4>1, <4>2, <3>1, <1>2, <1>t DEF RulesInv
    <3>3. CASE q # p
      <4>1. q \notin raced BY <3>3, <1>1
      <4> QED BY <4>1, <3>1, <3>3, <2>6, <1>t DEF RulesInv
    <3> QED BY <3>2, <3>3
  <2> HIDE DEF p
  <2> QED BY <2>7, <2>9, <2>10, <2>11 DEF RulesInv
<1>5. LegsInv' /\ CountersExact' BY <1>1, TunnelsKept DEF IInv
<1>6. ScopesInv' BY <1>1, SessionsKept DEF IInv, tunnels
<1> QED BY <1>3, <1>4, <1>5, <1>6 DEF IInv

LEMMA RemoveRuleInv ==
    ASSUME IInv, NEW p \in Port, RemoveRule(p)
    PROVE IInv'
<1>1. /\ mRules[p] # None
      /\ stop' = stop \cup {mRules[p]}
      /\ UNCHANGED <<rule, mRules, raced, session, tunnels>>
  BY DEF RemoveRule
<1>t. Types BY DEF IInv
<1>2. mRules[p] \in Rule BY <1>1, <1>t DEF Types
<1>3. Types' BY <1>1, <1>2, <1>t DEF Types, tunnels
<1>4. RulesInv' BY <1>1 DEF IInv, RulesInv, Alive, OfPort
<1>5. LegsInv' /\ CountersExact' BY <1>1, TunnelsKept DEF IInv
<1>6. ScopesInv' BY <1>1, SessionsKept DEF IInv, tunnels
<1> QED BY <1>3, <1>4, <1>5, <1>6 DEF IInv


-----------------------------------------------------------------------------
(***************************************************************************)
(* The sessions.                                                           *)
(***************************************************************************)

\* A session that comes up or drains is found as before, and no leg is in a
\* session that only now registers.
LEMMA SessionStepInv ==
    ASSUME IInv, NEW n \in Name,
           SessionRegisters(n) \/ SessionUp(n) \/ SessionDrains(n)
    PROVE IInv'
<1>1. PICK to \in {"acking", "up", "draining"} :
        /\ session' = [session EXCEPT ![n] = to]
        /\ to = "acking" => session[n] = "none"
        /\ UNCHANGED <<rules, tunnels>>
  BY DEF SessionRegisters, SessionUp, SessionDrains
<1>t. Types BY DEF IInv
<1>2. session' \in [Name -> {"none", "acking", "up", "draining"}] BY <1>1, <1>t DEF Types
<1>3. Types' BY <1>1, <1>2, <1>t DEF Types, tunnels, rules
<1>4. RulesInv' BY <1>1, RulesKept DEF IInv
<1>5. LegsInv' /\ CountersExact' BY <1>1, TunnelsKept DEF IInv
<1>6. ScopesInv'
  <2>1. session'[n] = to /\ \A m \in Name : m # n => session'[m] = session[m]
    BY <1>1, <1>t DEF Types
  <2>2. leg' = leg BY <1>1 DEF tunnels
  <2>3. \A c \in Conn, i \in Leg : InScope(leg[c][i]) => InScope(leg[c][i])'
    BY <2>1, <2>2, <1>1 DEF InScope, Left, Found
  <2> QED BY <2>2, <2>3 DEF IInv, ScopesInv
<1> QED BY <1>3, <1>4, <1>5, <1>6 DEF IInv

LEMMA SessionGoneInv ==
    ASSUME IInv, NEW n \in Name, SessionGone(n)
    PROVE IInv'
<1>1. /\ \A c \in Conn, i \in Leg : leg[c][i].in # n
      /\ session' = [session EXCEPT ![n] = "none"]
      /\ UNCHANGED <<rules, tunnels>>
  BY DEF SessionGone
<1>t. Types BY DEF IInv
<1>2. session' \in [Name -> {"none", "acking", "up", "draining"}] BY <1>1, <1>t DEF Types
<1>3. Types' BY <1>1, <1>2, <1>t DEF Types, tunnels, rules
<1>4. RulesInv' BY <1>1, RulesKept DEF IInv
<1>5. LegsInv' /\ CountersExact' BY <1>1, TunnelsKept DEF IInv
<1>6. ScopesInv'
  <2>1. \A m \in Name : m # n => session'[m] = session[m] BY <1>1, <1>t DEF Types
  <2>2. leg' = leg BY <1>1 DEF tunnels
  <2>3. \A c \in Conn, i \in Leg : InScope(leg[c][i]) => InScope(leg[c][i])'
    BY <2>1, <2>2, <1>1 DEF InScope, Left, Found
  <2> QED BY <2>2, <2>3 DEF IInv, ScopesInv
<1> QED BY <1>3, <1>4, <1>5, <1>6 DEF IInv

LegType == [at : {"unused", "opening", "copying"}, in : Name \cup {None}]

LEMMA LegFields ==
    ASSUME NEW l \in LegType
    PROVE /\ l.at \in {"unused", "opening", "copying"} /\ l.in \in Name \cup {None}
          /\ l = [at |-> l.at, in |-> l.in]
<1>1. PICK a \in {"unused", "opening", "copying"}, n \in Name \cup {None} :
        l = [at |-> a, in |-> n]
  BY Zenon DEF LegType
<1>2. l.at = a /\ l.in = n BY <1>1, Zenon
<1> QED BY <1>1, <1>2, Zenon

LEMMA LegMoves ==
    ASSUME NEW l \in LegType, NEW a \in {"unused", "opening", "copying"}
    PROVE [l EXCEPT !.at = a] \in LegType
<1> DEFINE la == [at |-> a, in |-> l.in]
<1>1. [l EXCEPT !.at = a] = la BY LegFields
<1>2. la \in LegType BY LegFields, Zenon DEF LegType
<1> QED BY <1>1, <1>2

LEMMA LegIsLeft ==
    ASSUME NEW l \in LegType, NEW n \in Name \cup {None}
    PROVE /\ [l EXCEPT !.in = n] \in LegType
          /\ [l EXCEPT !.in = n].at = l.at
          /\ [l EXCEPT !.in = n].in = n
          /\ [l EXCEPT !.in = l.in] = l
<1> DEFINE ln == [at |-> l.at, in |-> n]
<1>1. [l EXCEPT !.in = n] = ln BY LegFields
<1>2. ln \in LegType BY LegFields, Zenon DEF LegType
<1>3. [l EXCEPT !.in = l.in] = l BY LegFields
<1> QED BY <1>1, <1>2, <1>3

\* The legs of a session whose HelloAck could not be written are left.
LEMMA AckFailsInv ==
    ASSUME IInv, NEW n \in Name, AckFails(n)
    PROVE IInv'
<1>1. /\ session[n] = "acking"
      /\ session' = [session EXCEPT ![n] = "none"]
      /\ leg' = [c \in Conn |-> [i \in Leg |->
                     [leg[c][i] EXCEPT !.in = IF @ = n THEN None ELSE @]]]
      /\ UNCHANGED <<rules, conn, activeConnections>>
  BY DEF AckFails
<1>t. Types /\ LegsInv /\ ScopesInv BY DEF IInv
<1>2. session' \in [Name -> {"none", "acking", "up", "draining"}] BY <1>1, <1>t DEF Types
<1>3. leg \in [Conn -> [Leg -> LegType]] BY <1>t DEF Types, LegType
<1>4. \A c \in Conn, i \in Leg :
        /\ leg'[c][i] \in LegType
        /\ leg'[c][i].at = leg[c][i].at
        /\ leg[c][i].in = n => leg'[c][i].in = None
        /\ leg[c][i].in # n => leg'[c][i] = leg[c][i]
  <2> SUFFICES ASSUME NEW c \in Conn, NEW i \in Leg
               PROVE /\ leg'[c][i] \in LegType
                     /\ leg'[c][i].at = leg[c][i].at
                     /\ leg[c][i].in = n => leg'[c][i].in = None
                     /\ leg[c][i].in # n => leg'[c][i] = leg[c][i]
    OBVIOUS
  <2>1. leg[c][i] \in LegType BY <1>3
  <2>2. CASE leg[c][i].in = n
    <3> DEFINE l == leg[c][i]
    <3>1. leg'[c][i] = [l EXCEPT !.in = None] BY <1>1, <2>2
    <3>2. l \in LegType /\ l.in = n BY <2>1, <2>2
    <3> HIDE DEF l
    <3>3. /\ [l EXCEPT !.in = None] \in LegType /\ [l EXCEPT !.in = None].at = l.at
          /\ [l EXCEPT !.in = None].in = None
      BY <3>2, LegIsLeft
    <3> QED BY <3>1, <3>2, <3>3 DEF l
  <2>3. CASE leg[c][i].in # n
    <3>1. leg'[c][i] = [leg[c][i] EXCEPT !.in = leg[c][i].in] BY <1>1, <2>3
    <3>2. leg'[c][i] = leg[c][i] BY <3>1, <2>1, LegIsLeft
    <3> QED BY <3>2, <2>1, <2>3
  <2> QED BY <2>2, <2>3
<1>5. leg' \in [Conn -> [Leg -> LegType]] BY <1>1, <1>4
<1>6. Types' BY <1>1, <1>2, <1>5, <1>t DEF Types, rules, LegType
<1>7. RulesInv' BY <1>1, RulesKept DEF IInv
<1>8. \A c \in Conn, i \in Leg : leg'[c][i] = NoLeg <=> leg[c][i] = NoLeg
  BY <1>4, <1>t, NoneIsNoName DEF LegsInv, NoLeg
<1>9. LegsInv'
  <2>1. \A c \in Conn, i \in Leg : leg'[c][i].at = "unused" <=> leg'[c][i] = NoLeg
    BY <1>4, <1>8, <1>t DEF LegsInv
  <2>2. \A c \in Conn : conn'[c] # None => leg'[c][1] # NoLeg /\ leg'[c][2] = NoLeg
    BY <1>1, <1>8, <1>t DEF LegsInv, Leg
  <2> QED BY <2>1, <2>2 DEF LegsInv
<1>10. ScopesInv'
  <2> SUFFICES ASSUME NEW c \in Conn, NEW i \in Leg, leg'[c][i] # NoLeg
               PROVE InScope(leg[c][i])'
    BY DEF ScopesInv
  <2>1. InScope(leg[c][i]) BY <1>8, <1>t DEF ScopesInv
  <2>2. \A m \in Name : m # n => session'[m] = session[m] BY <1>1, <1>t DEF Types
  <2>3. CASE leg[c][i].in = n
    <3>1. leg'[c][i].in = None BY <2>3, <1>4
    <3> QED BY <3>1 DEF InScope, Left
  <2>4. CASE leg[c][i].in # n
    <3>1. leg'[c][i] = leg[c][i] BY <2>4, <1>4
    <3> QED BY <3>1, <2>1, <2>2, <2>4 DEF InScope, Left, Found
  <2> QED BY <2>3, <2>4
<1>11. CountersExact'
  <2>1. \A r \in Rule : Copying(r)' = Copying(r) BY <1>1, <1>4 DEF Copying, Leg
  <2> QED BY <2>1, <1>1 DEF IInv, CountersExact
<1> QED BY <1>6, <1>7, <1>9, <1>10, <1>11 DEF IInv

-----------------------------------------------------------------------------
(***************************************************************************)
(* The connections.                                                        *)
(***************************************************************************)

\* A leg of a fresh connection copies nothing, and an opening one neither.
LEMMA AcceptConnInv ==
    ASSUME IInv, NEW r \in Rule, NEW c \in Conn, AcceptConn(r, c)
    PROVE IInv'
<1> DEFINE n == rule[r].client
<1>1. /\ rule[r].at = "listening"
      /\ Fresh(c)
      /\ Found(n)
      /\ conn' = [conn EXCEPT ![c] = r]
      /\ leg' = [leg EXCEPT ![c][1] = Opening(n)]
      /\ UNCHANGED <<rules, session, activeConnections>>
  BY DEF AcceptConn
<1>t. Types /\ LegsInv BY DEF IInv
<1>2. n \in Name BY <1>1, TargetAssumption DEF IInv, RulesInv
<1> HIDE DEF n
<1>3. /\ leg \in [Conn -> [Leg -> LegType]] /\ conn \in [Conn -> Rule \cup {None}]
  BY <1>t DEF Types, LegType
<1>4. /\ leg'[c][1] = Opening(n) /\ leg'[c][2] = leg[c][2]
      /\ \A d \in Conn : d # c => leg'[d] = leg[d]
      /\ leg' \in [Conn -> [Leg -> LegType]]
  <2>1. Opening(n) \in LegType BY <1>2 DEF Opening, LegType
  <2> QED BY <1>1, <1>3, <2>1 DEF Leg
<1>5. /\ conn'[c] = r /\ \A d \in Conn : d # c => conn'[d] = conn[d]
      /\ conn' \in [Conn -> Rule \cup {None}]
  BY <1>1, <1>3
<1>6. leg[c][1] = NoLeg /\ leg[c][2] = NoLeg BY <1>1 DEF Fresh, Leg
<1>7. Types' BY <1>1, <1>4, <1>5, <1>t DEF Types, rules, LegType
<1>8. RulesInv' BY <1>1, RulesKept DEF IInv
<1>9. LegsInv'
  <2>1. \A i \in Leg : leg'[c][i].at = "unused" <=> leg'[c][i] = NoLeg
    BY <1>2, <1>4, <1>6 DEF Leg, Opening, NoLeg
  <2>2. leg'[c][1] # NoLeg /\ leg'[c][2] = NoLeg BY <1>4, <1>6 DEF Opening, NoLeg
  <2>3. \A d \in Conn, i \in Leg : leg'[d][i].at = "unused" <=> leg'[d][i] = NoLeg
    BY <2>1, <1>4, <1>t DEF LegsInv
  <2>4. \A d \in Conn : conn'[d] # None => leg'[d][1] # NoLeg /\ leg'[d][2] = NoLeg
    BY <2>2, <1>4, <1>5, <1>t DEF LegsInv
  <2> QED BY <2>3, <2>4 DEF LegsInv
<1>10. ScopesInv'
  <2>1. \A i \in Leg : leg'[c][i] # NoLeg => InScope(leg'[c][i])
    BY <1>1, <1>2, <1>4, <1>6 DEF Leg, Opening, InScope
  <2> QED BY <2>1, <1>1, <1>4 DEF IInv, ScopesInv, InScope, Left, Found
<1>11. CountersExact'
  <2>1. leg'[c][1].at = "opening" BY <1>4 DEF Opening
  <2>2. leg[c][1].at = "unused" BY <1>6 DEF NoLeg
  <2>3. \A s \in Rule : Copying(s)' = Copying(s) BY <2>1, <2>2, <1>4, <1>5 DEF Copying
  <2> QED BY <2>3, <1>1 DEF IInv, CountersExact
<1> QED BY <1>7, <1>8, <1>9, <1>10, <1>11 DEF IInv

LEMMA ForwardConnInv ==
    ASSUME IInv, NEW n \in Name, NEW m \in Name, NEW c \in Conn, ForwardConn(n, m, c)
    PROVE IInv'
<1>1. /\ session[n] = "up"
      /\ Fresh(c)
      /\ Found(m)
      /\ leg' = [leg EXCEPT ![c] = [i \in Leg |-> Opening(IF i = 1 THEN n ELSE m)]]
      /\ UNCHANGED <<conn, rules, session, activeConnections>>
  BY DEF ForwardConn
<1>t. Types /\ LegsInv BY DEF IInv
<1>2. leg \in [Conn -> [Leg -> LegType]] BY <1>t DEF Types, LegType
<1>3. /\ \A i \in Leg : leg'[c][i] = Opening(n) \/ leg'[c][i] = Opening(m)
      /\ \A d \in Conn : d # c => leg'[d] = leg[d]
  BY <1>1, <1>2
<1>4. leg' \in [Conn -> [Leg -> LegType]]
  <2>1. [i \in Leg |-> Opening(IF i = 1 THEN n ELSE m)] \in [Leg -> LegType]
    BY DEF Opening, LegType
  <2> QED BY <1>1, <1>2, <2>1
<1>5. conn[c] = None BY <1>1, <1>t DEF Fresh, LegsInv, Leg
<1>6. Types' BY <1>1, <1>4, <1>t DEF Types, rules, LegType
<1>7. RulesInv' BY <1>1, RulesKept DEF IInv
<1>8. LegsInv'
  <2>1. \A d \in Conn, i \in Leg : leg'[d][i].at = "unused" <=> leg'[d][i] = NoLeg
    <3>1. \A j \in Leg : leg'[c][j].at # "unused" /\ leg'[c][j] # NoLeg
      BY <1>3 DEF Opening, NoLeg
    <3> QED BY <3>1, <1>3, <1>t DEF LegsInv
  <2>2. \A d \in Conn : conn'[d] # None => leg'[d][1] # NoLeg /\ leg'[d][2] = NoLeg
    BY <1>1, <1>3, <1>5, <1>t DEF LegsInv
  <2> QED BY <2>1, <2>2 DEF LegsInv
<1>9. ScopesInv'
  <2>1. \A i \in Leg : InScope(leg'[c][i])
    <3>1. Found(n) /\ Found(m) BY <1>1, NoneIsNoName DEF Found
    <3>2. \A k \in Name : Found(k) => InScope(Opening(k)) BY DEF Opening, InScope
    <3> QED BY <3>1, <3>2, <1>3
  <2> QED BY <2>1, <1>1, <1>3 DEF IInv, ScopesInv, InScope, Left, Found
<1>10. CountersExact'
  <2>1. \A s \in Rule : Copying(s)' = Copying(s)
    BY <1>1, <1>3, <1>5, NoneIsNoRule DEF Copying
  <2> QED BY <2>1, <1>1 DEF IInv, CountersExact
<1> QED BY <1>6, <1>7, <1>8, <1>9, <1>10 DEF IInv

LEMMA CopyingFinite == \A r \in Rule : IsFiniteSet(Copying(r))
<1>1. \A r \in Rule : Copying(r) \subseteq Conn BY DEF Copying
<1> QED BY <1>1, ConnAssumption, FS_Subset

LEMMA LegStartsInv ==
    ASSUME IInv, NEW c \in Conn, NEW i \in Leg, LegStarts(c, i)
    PROVE IInv'
<1>1. /\ leg[c][i].at = "opening"
      /\ leg' = [leg EXCEPT ![c][i].at = "copying"]
      /\ Count(c, 1)
      /\ UNCHANGED <<conn, rules, session>>
  BY DEF LegStarts
<1>t. Types /\ LegsInv BY DEF IInv
<1>2. leg \in [Conn -> [Leg -> LegType]] BY <1>t DEF Types, LegType
<1>3. /\ leg'[c][i].at = "copying" /\ leg'[c][i].in = leg[c][i].in
      /\ \A j \in Leg : j # i => leg'[c][j] = leg[c][j]
      /\ \A d \in Conn : d # c => leg'[d] = leg[d]
  BY <1>1, <1>2
<1>4. leg' \in [Conn -> [Leg -> LegType]]
  <2>1. [leg[c][i] EXCEPT !.at = "copying"] \in LegType
    <3>1. leg[c][i] \in LegType BY <1>2
    <3> QED BY <3>1, LegMoves
  <2>2. leg' = [leg EXCEPT ![c] = [leg[c] EXCEPT ![i] = [leg[c][i] EXCEPT !.at = "copying"]]]
    BY <1>1
  <2> QED BY <2>1, <2>2, <1>2
<1>5. activeConnections' \in [Rule -> Int]
  BY <1>1, <1>t DEF Count, Types
<1>6. Types' BY <1>1, <1>4, <1>5, <1>t DEF Types, rules, LegType
<1>7. RulesInv' BY <1>1, RulesKept DEF IInv
<1>8. leg[c][i] # NoLeg /\ leg'[c][i] # NoLeg
  BY <1>1, <1>3, <1>t DEF LegsInv, NoLeg
<1>9. LegsInv'
  <2>1. \A d \in Conn, j \in Leg : leg'[d][j].at = "unused" <=> leg'[d][j] = NoLeg
    BY <1>3, <1>8, <1>t DEF LegsInv
  <2>2. \A d \in Conn : conn'[d] # None => leg'[d][1] # NoLeg /\ leg'[d][2] = NoLeg
    BY <1>1, <1>3, <1>8, <1>t DEF LegsInv, Leg
  <2> QED BY <2>1, <2>2 DEF LegsInv
<1>10. ScopesInv' BY <1>1, <1>3, <1>8 DEF IInv, ScopesInv, InScope, Left, Found
<1>11. CountersExact'
  <2>1. CASE conn[c] = None
    <3>1. \A s \in Rule : Copying(s)' = Copying(s)
      BY <2>1, <1>1, <1>3, NoneIsNoRule DEF Copying
    <3> QED BY <3>1, <2>1, <1>1 DEF IInv, CountersExact, Count
  <2>2. CASE conn[c] # None
    <3>1. PICK r \in Rule : r = conn[c] BY <2>2, <1>t DEF Types
    <3>2. i = 1 BY <2>2, <1>8, <1>t DEF LegsInv, Leg
    <3>3. Copying(r)' = Copying(r) \cup {c} /\ c \notin Copying(r)
      BY <1>1, <1>3, <3>1, <3>2 DEF Copying
    <3>4. \A s \in Rule : s # r => Copying(s)' = Copying(s) BY <1>1, <1>3, <3>1 DEF Copying
    <3>5. activeConnections' = [activeConnections EXCEPT ![r] = @ + 1] BY <2>2, <3>1, <1>1 DEF Count
    <3>6. Cardinality(Copying(r)') = Cardinality(Copying(r)) + 1
      BY <3>1, <3>3, CopyingFinite, FS_AddElement
    <3>7. activeConnections'[r] = activeConnections[r] + 1 BY <3>1, <3>5, <1>t DEF Types
    <3>8. \A s \in Rule : s # r => activeConnections'[s] = activeConnections[s]
      BY <3>5, <1>t DEF Types
    <3>9. \A s \in Rule : activeConnections[s] = Cardinality(Copying(s)) BY DEF IInv, CountersExact
    <3>10. activeConnections'[r] = Cardinality(Copying(r)') BY <3>1, <3>6, <3>7, <3>9
    <3>11. \A s \in Rule : s # r => activeConnections'[s] = Cardinality(Copying(s)')
      BY <3>4, <3>8, <3>9
    <3>12. \A s \in Rule : activeConnections'[s] = Cardinality(Copying(s)') BY <3>10, <3>11
    <3> QED BY <3>12 DEF CountersExact
  <2> QED BY <2>1, <2>2
<1> QED BY <1>6, <1>7, <1>9, <1>10, <1>11 DEF IInv

\* What the end of a leg does to the connections, with the counter left open.
LEMMA LegOverInv ==
    ASSUME Types, LegsInv, ScopesInv, NEW c \in Conn, NEW i \in Leg,
           leg[c][i] # NoLeg, LegOver(c, i)
    PROVE /\ leg' \in [Conn -> [Leg -> LegType]] /\ conn' \in [Conn -> Rule \cup {None}]
          /\ LegsInv' /\ ScopesInv'
          /\ \A r \in Rule : Copying(r)' = Copying(r) \ {c}
<1>1. /\ leg' = [leg EXCEPT ![c][i] = NoLeg]
      /\ conn' = [conn EXCEPT ![c] = None]
      /\ UNCHANGED <<rules, session>>
  BY DEF LegOver
<1>2. leg \in [Conn -> [Leg -> LegType]] /\ conn \in [Conn -> Rule \cup {None}]
  BY DEF Types, LegType
<1>3. /\ leg'[c][i] = NoLeg
      /\ \A j \in Leg : j # i => leg'[c][j] = leg[c][j]
      /\ \A d \in Conn : d # c => leg'[d] = leg[d]
  BY <1>1, <1>2
<1>4. conn'[c] = None /\ \A d \in Conn : d # c => conn'[d] = conn[d] BY <1>1, <1>2
<1>5. leg' \in [Conn -> [Leg -> LegType]] /\ conn' \in [Conn -> Rule \cup {None}]
  <2>1. NoLeg \in LegType BY DEF NoLeg, LegType
  <2> QED BY <2>1, <1>1, <1>2
<1>6. LegsInv'
  <2>1. \A d \in Conn, j \in Leg : leg'[d][j].at = "unused" <=> leg'[d][j] = NoLeg
    <3>1. NoLeg.at = "unused" BY DEF NoLeg
    <3>2. \A j \in Leg : leg'[c][j].at = "unused" <=> leg'[c][j] = NoLeg
      BY <3>1, <1>3 DEF LegsInv
    <3> QED BY <3>2, <1>3 DEF LegsInv
  <2>2. \A d \in Conn : conn'[d] # None => leg'[d][1] # NoLeg /\ leg'[d][2] = NoLeg
    BY <1>3, <1>4 DEF LegsInv
  <2> QED BY <2>1, <2>2 DEF LegsInv
<1>7. ScopesInv' BY <1>1, <1>3 DEF ScopesInv, InScope, Left, Found
<1>8. \A r \in Rule : Copying(r)' = Copying(r) \ {c} BY <1>3, <1>4, NoneIsNoRule DEF Copying
<1> QED BY <1>5, <1>6, <1>7, <1>8

LEMMA LegCanceledInv ==
    ASSUME IInv, NEW c \in Conn, NEW i \in Leg, LegCanceled(c, i)
    PROVE IInv'
<1>1. /\ leg[c][i].at = "opening"
      /\ LegOver(c, i)
      /\ UNCHANGED activeConnections
  BY DEF LegCanceled, CanBeCanceled
<1>t. Types /\ LegsInv /\ ScopesInv BY DEF IInv
<1>2. leg[c][i] # NoLeg BY <1>1 DEF NoLeg
<1>3. /\ leg' \in [Conn -> [Leg -> LegType]] /\ conn' \in [Conn -> Rule \cup {None}]
      /\ LegsInv' /\ ScopesInv'
      /\ \A r \in Rule : Copying(r)' = Copying(r) \ {c}
  BY <1>1, <1>2, <1>t, LegOverInv
<1>4. UNCHANGED <<rules, session>> BY <1>1 DEF LegOver
<1>5. Types' BY <1>1, <1>3, <1>4, <1>t DEF Types, rules, LegType
<1>6. RulesInv' BY <1>4, RulesKept DEF IInv
<1>7. CountersExact'
  <2>1. \A r \in Rule : c \notin Copying(r)
    <3>1. CASE i = 1 BY <3>1, <1>1 DEF Copying
    <3>2. CASE i = 2 BY <3>2, <1>2, <1>t, NoneIsNoRule DEF LegsInv, Copying
    <3> QED BY <3>1, <3>2 DEF Leg
  <2>2. \A r \in Rule : Copying(r)' = Copying(r) BY <2>1, <1>3
  <2> QED BY <2>2, <1>1 DEF IInv, CountersExact
<1> QED BY <1>3, <1>5, <1>6, <1>7 DEF IInv

LEMMA LegEndsInv ==
    ASSUME IInv, NEW c \in Conn, NEW i \in Leg, LegEnds(c, i)
    PROVE IInv'
<1>1. /\ leg[c][i].at = "copying"
      /\ LegOver(c, i)
      /\ Count(c, -1)
  BY DEF LegEnds
<1>t. Types /\ LegsInv /\ ScopesInv BY DEF IInv
<1>2. leg[c][i] # NoLeg BY <1>1 DEF NoLeg
<1>3. /\ leg' \in [Conn -> [Leg -> LegType]] /\ conn' \in [Conn -> Rule \cup {None}]
      /\ LegsInv' /\ ScopesInv'
      /\ \A r \in Rule : Copying(r)' = Copying(r) \ {c}
  BY <1>1, <1>2, <1>t, LegOverInv
<1>4. UNCHANGED <<rules, session>> BY <1>1 DEF LegOver
<1>5. activeConnections' \in [Rule -> Int] BY <1>1, <1>t DEF Count, Types
<1>6. Types' BY <1>3, <1>4, <1>5, <1>t DEF Types, rules, LegType
<1>7. RulesInv' BY <1>4, RulesKept DEF IInv
<1>8. CountersExact'
  <2>1. CASE conn[c] = None
    <3>1. \A s \in Rule : c \notin Copying(s) BY <2>1, NoneIsNoRule DEF Copying
    <3>2. \A s \in Rule : Copying(s)' = Copying(s) BY <3>1, <1>3
    <3> QED BY <3>2, <2>1, <1>1 DEF IInv, CountersExact, Count
  <2>2. CASE conn[c] # None
    <3>1. PICK r \in Rule : r = conn[c] BY <2>2, <1>t DEF Types
    <3>2. i = 1 BY <2>2, <1>2, <1>t DEF LegsInv, Leg
    <3>3. c \in Copying(r) BY <1>1, <3>1, <3>2 DEF Copying
    <3>4. \A s \in Rule : s # r => c \notin Copying(s) BY <3>1 DEF Copying
    <3>5. activeConnections' = [activeConnections EXCEPT ![r] = @ + -1] BY <2>2, <3>1, <1>1 DEF Count
    <3>6. Copying(r)' = Copying(r) \ {c} /\ \A s \in Rule : s # r => Copying(s)' = Copying(s)
      BY <1>3, <3>1, <3>4
    <3>7. Cardinality(Copying(r)') = Cardinality(Copying(r)) - 1
      BY <3>1, <3>3, <3>6, CopyingFinite, FS_RemoveElement
    <3>8. activeConnections'[r] = activeConnections[r] - 1 BY <3>1, <3>5, <1>t DEF Types
    <3>9. \A s \in Rule : s # r => activeConnections'[s] = activeConnections[s]
      BY <3>5, <1>t DEF Types
    <3>10. \A s \in Rule : activeConnections[s] = Cardinality(Copying(s))
      BY DEF IInv, CountersExact
    <3>11. activeConnections'[r] = Cardinality(Copying(r)') BY <3>1, <3>7, <3>8, <3>10
    <3>12. \A s \in Rule : s # r => activeConnections'[s] = Cardinality(Copying(s)')
      BY <3>6, <3>9, <3>10
    <3>13. \A s \in Rule : activeConnections'[s] = Cardinality(Copying(s)') BY <3>11, <3>12
    <3> QED BY <3>13 DEF CountersExact
  <2> QED BY <2>1, <2>2
<1> QED BY <1>3, <1>6, <1>7, <1>8 DEF IInv

-----------------------------------------------------------------------------
\* Every step keeps the invariant, and a step that changes nothing does.
LEMMA NextInv == IInv /\ [Next]_vars => IInv'
<1> SUFFICES ASSUME IInv, [Next]_vars PROVE IInv'
  OBVIOUS
<1>1. CASE \E p \in Port, n \in Target : AddRule(p, n) BY <1>1, AddRuleInv
<1>2. CASE \E p \in Port : RemoveRule(p) BY <1>2, RemoveRuleInv
<1>3. CASE \E r \in Rule : RuleStarts(r) \/ RuleListens(r) \/ BindFails(r) \/ RuleStops(r)
  <2>1. PICK r \in Rule : RuleStarts(r) \/ RuleListens(r) \/ BindFails(r) \/ RuleStops(r)
    BY <1>3
  <2>2. CASE RuleStarts(r) BY <2>2, RuleStartsInv
  <2>3. CASE RuleListens(r) BY <2>3, RuleListensInv
  <2>4. CASE BindFails(r) BY <2>4, RuleEndsInv DEF BindFails
  <2>5. CASE RuleStops(r) BY <2>5, RuleEndsInv DEF RuleStops
  <2> QED BY <2>1, <2>2, <2>3, <2>4, <2>5
<1>4. CASE \E n \in Name : \/ SessionRegisters(n) \/ SessionUp(n) \/ AckFails(n)
                           \/ SessionDrains(n) \/ SessionGone(n)
  BY <1>4, SessionStepInv, AckFailsInv, SessionGoneInv
<1>5. CASE \E r \in Rule, c \in Conn : AcceptConn(r, c) BY <1>5, AcceptConnInv
<1>6. CASE \E n, m \in Name, c \in Conn : ForwardConn(n, m, c) BY <1>6, ForwardConnInv
<1>7. CASE \E c \in Conn, i \in Leg : LegStarts(c, i) \/ LegCanceled(c, i) \/ LegEnds(c, i)
  BY <1>7, LegStartsInv, LegCanceledInv, LegEndsInv
<1>8. CASE UNCHANGED vars
  <2>1. UNCHANGED <<rule, stop, mRules, raced, session, conn, leg, activeConnections>>
    BY <1>8 DEF vars, rules, tunnels
  <2>2. Types' BY <2>1 DEF IInv, Types
  <2>3. RulesInv' /\ LegsInv' /\ CountersExact' /\ ScopesInv'
    BY <1>8, RulesKept, TunnelsKept, SessionsKept DEF IInv, vars, tunnels
  <2> QED BY <2>2, <2>3 DEF IInv
<1> QED BY <1>1, <1>2, <1>3, <1>4, <1>5, <1>6, <1>7, <1>8 DEF Next

\* The inductive invariant holds of every reachable state.
THEOREM Invariant == Spec => []IInv
BY InitInv, NextInv, PTL DEF Spec

LEMMA ListedFollows == IInv => ListedListens
<1> SUFFICES ASSUME IInv, NEW p \in Port \ raced
             PROVE IF Alive(p) = {} THEN mRules[p] = None ELSE Alive(p) = {mRules[p]}
  BY DEF ListedListens
<1>1. \A r \in Alive(p) : mRules[p] = r BY DEF IInv, RulesInv
<1>2. Alive(p) = {} => mRules[p] = None BY DEF IInv, RulesInv
<1> QED BY <1>1, <1>2

LEMMA TypesFollow == IInv => TypeOK
<1> SUFFICES ASSUME IInv PROVE TypeOK
  OBVIOUS
<1>1. \A r \in Rule : activeConnections[r] \in Nat
  BY CopyingFinite, FS_CardinalityType DEF IInv, CountersExact
<1>2. activeConnections \in [Rule -> Nat] BY <1>1 DEF IInv, Types
<1> QED BY <1>2 DEF IInv, Types, TypeOK

\* Every variable has its type; in particular no count of a rule's open
\* connections (ProxyStatus::activeConnections) goes below zero.
THEOREM TypeCorrect == Spec => []TypeOK
BY Invariant, TypesFollow, PTL

\* The count of a rule's open connections is always the number of its tunnels
\* that copy, however they end (the destructor of the wrapper in openTunnel).
THEOREM CountersStayExact == Spec => []CountersExact
<1>1. IInv => CountersExact BY DEF IInv
<1> QED BY <1>1, Invariant, PTL

\* A rule that listens is listed and what is listed is alive, while no addRule
\* has overtaken the coroutine of another for the same port.
THEOREM ListingsStayTrue == Spec => []ListedListens
BY Invariant, ListedFollows, PTL

\* handleSession ends only after every tunnel that refers to the session, but
\* for one opened before a HelloAck that could not be written (server.cpp:261).
THEOREM SessionsOutlive == Spec => []SessionOutlives
<1>1. IInv => SessionOutlives BY DEF IInv, ScopesInv, InScope, SessionOutlives
<1> QED BY <1>1, Invariant, PTL
=============================================================================
