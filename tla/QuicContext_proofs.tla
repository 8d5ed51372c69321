------------------------- MODULE QuicContext_proofs -------------------------
(***************************************************************************)
(* Proofs about QuicContext: its six invariants, for any number of          *)
(* connections and candidates, any limit on connections, any times and any  *)
(* failures.  The inductive invariant IInv has one part per actor.          *)
(***************************************************************************)
EXTENDS QuicContext, InductionLemmas

\* One connection: an unmade one is untouched, whatever ends one is an error, one that may
\* be erased broke or told its peer, and one that owes its peer a close still requests it.
Owing(k) == (k.gaveUp \/ k.healthy) /\ k.wrote /\ ~k.broken
ConnOK(k) ==
    /\ k.where = "none" => k = Fresh
    /\ (k.where = "gone" \/ k.closeRequested \/ k.closeSent \/ k.draining \/ k.retire
            \/ k.gaveUp \/ k.broken \/ k.healthy \/ k.woken) => k.error
    /\ k.draining => k.broken
    /\ k.retire => k.broken \/ k.closeSent
    /\ (k.where = "live" /\ Owing(k)) => k.closeSent \/ k.closeRequested
ConnsInv == \A c \in Conn : ConnOK(conns[c])

\* run(): a stopped context has no healthy connection, and closing and ended ones are stopped.
RunInv ==
    /\ run.stopped => \A c \in Live(conns) : conns[c].error
    /\ ~Working => run.stopped
    /\ run.pc = "closing" => sender.pc \in {"turn", "close"}
    /\ run.pc = "ended" => sender.pc = "done" /\ Live(conns) = {}

\* sendWorker: its copy holds live connections and is not empty while it awaits the socket.
SenderInv ==
    /\ ToSet(sender.rest) \subseteq Live(conns)
    /\ sender.pc \in {"close", "data"} => sender.rest # << >>
    /\ sender.pc = "close" => conns[Head(sender.rest)].error
    /\ sender.pc \in {"top", "waiting", "done"} => sender.rest = << >>

\* The turn: a connection that is not waiting in the copy is served, or ngtcp2 ended it in
\* its own turn, unless wake is set.
Served(k) ==
    /\ k.dirty => k.error
    /\ (k.closeRequested /\ ~k.draining) => (~k.wrote \/ (k.failed /\ ~k.closeSent))
ServeInv ==
    (Working /\ ~sync.wake) =>
        /\ sender.pc \in {"turn", "close", "data"} =>
               \A c \in Live(conns) : c \in ToSet(sender.rest) \/ Served(conns[c])
        /\ sender.pc = "data" => Served(conns[Head(sender.rest)])
        /\ sender.pc = "waiting" => \A c \in Live(conns) : Served(conns[c])

\* timerWorker: it sleeps exactly while armedDeadline is set, and a sleeping sender has
\* published a deadline that is no later than any expiry.
TimerInv ==
    /\ sync.deadline = 0 => sync.armed = 0
    /\ timer = "waiting" => sync.armed = 0
    /\ timer = "armed" => sync.armed # 0
    /\ Sleeps => sync.deadline # 0 /\ \A c \in Live(conns) : sync.deadline <= conns[c].expiry
    /\ TimerCovers

\* accept(): what a server has offered once is marked, and is in `incoming` until it ends or
\* somebody has it; a client offers nothing.
AcceptInv ==
    /\ plan.role = "client" => incoming = << >>
    /\ plan.role = "server" =>
           /\ race.pc = "none"
           /\ \A c \in Conn :
                  /\ handle[c] # "connecting"
                  /\ handle[c] # "none" => conns[c].queued
                  /\ c \in ToSet(incoming) => conns[c].queued
                  /\ (conns[c].where = "live" /\ conns[c].handshake /\ ~conns[c].error) =>
                         conns[c].queued
                  /\ (conns[c].queued /\ ~conns[c].error) =>
                         c \in ToSet(incoming) \/ handle[c] # "none"
    /\ IsInjective(incoming)
    /\ \A c \in ToSet(incoming) : handle[c] = "none"

\* connect(): what was not tried is untouched, and while the race goes on every connection
\* that is held is one it knows of.
RaceInv ==
    /\ race.next >= 1
    /\ plan.role = "client" =>
           /\ \A i \in race.next .. Len(plan.candidates) :
                  /\ conns[plan.candidates[i]].where = "none"
                  /\ handle[plan.candidates[i]] = "none"
           /\ race.pc = "trying" => \A c \in Conn : handle[c] = "held" => c \in ToSet(race.done)
    /\ RaceLeavesOne

\* The closing pass: who owes its peer a close has sent it, failed to, or waits for its turn.
PassInv ==
    /\ run.pc = "closing" =>
           \A c \in Live(conns) :
               Owing(conns[c]) => \/ conns[c].closeSent \/ conns[c].untold
                                  \/ c \in ToSet(sender.rest)
    /\ PeerTold

IInv == TypeOK /\ ConnsInv /\ RunInv /\ SenderInv /\ ServeInv /\ TimerInv
        /\ AcceptInv /\ RaceInv /\ PassInv
-----------------------------------------------------------------------------
(* The types. *)

Connection == [where : {"none", "live", "gone"}, handshake : BOOLEAN, queued : BOOLEAN,
               error : BOOLEAN, closeRequested : BOOLEAN, closeSent : BOOLEAN,
               draining : BOOLEAN, retire : BOOLEAN, expiry : 1..Horizon,
               dirty : BOOLEAN, wrote : BOOLEAN, gaveUp : BOOLEAN,
               broken : BOOLEAN, failed : BOOLEAN, healthy : BOOLEAN,
               woken : BOOLEAN, untold : BOOLEAN]

LEMMA PlanType ==
    ASSUME TypeOK
    PROVE /\ plan \in Plan /\ plan.room \in Nat \ {0} /\ plan.horizon \in 1..Horizon
          /\ plan.candidates \in Seq(Conn) /\ IsInjective(plan.candidates)
          /\ plan.role \in {"client", "server"}
          /\ Horizon \in Nat \ {0} /\ IsFiniteSet(Conn)
BY QuicContextAssumption DEF TypeOK, Plan

LEMMA LiveFinite == ASSUME NEW C PROVE IsFiniteSet(Live(C)) /\ Live(C) \subseteq Conn
<1>1. Live(C) \in SUBSET Conn BY DEF Live
<1> QED BY <1>1, QuicContextAssumption, FS_Subset

LEMMA FreshType == Fresh \in Connection
BY QuicContextAssumption DEF Fresh, Connection

\* What each helper makes of one connection.
MadeK(k) == [k EXCEPT !.where = "live", !.dirty = TRUE, !.expiry = plan.horizon]
CloseK(k) == [k EXCEPT !.error = TRUE, !.closeRequested = TRUE, !.gaveUp = TRUE]
ClosedK(k) == IF k.where = "none" \/ k.error THEN k ELSE CloseK(k)
EndedK(k, why) == [k EXCEPT !.error = TRUE, !.retire = TRUE, !.broken = TRUE,
                            !.draining = @ \/ why = "peer",
                            !.closeRequested = @ \/ why = "protocol"]
FailedK(k) == [EndedK(k, "protocol") EXCEPT !.failed = TRUE]
StopK(k) == [k EXCEPT !.closeRequested = @ \/ ~k.error, !.healthy = ~k.error, !.error = TRUE,
                      !.woken = TRUE]
StoppedK(k) == IF k.where = "live" THEN StopK(k) ELSE k
WorkK(k) == [k EXCEPT !.dirty = @ \/ ~k.error]
UntoldK(k) == [k EXCEPT !.untold = TRUE]

LEMMA RecordTypes ==
    ASSUME TypeOK, NEW k \in Connection
    PROVE /\ MadeK(k) \in Connection /\ ClosedK(k) \in Connection /\ StoppedK(k) \in Connection
          /\ \A why : EndedK(k, why) \in Connection
          /\ \A w \in {"none", "live", "gone"} : [k EXCEPT !.where = w] \in Connection
          /\ \A b \in BOOLEAN : [k EXCEPT !.queued = b] \in Connection
          /\ FailedK(k) \in Connection /\ WorkK(k) \in Connection /\ UntoldK(k) \in Connection
<1>1. MadeK(k) \in Connection BY PlanType DEF MadeK, Connection
<1>2. ClosedK(k) \in Connection
  <2>1. CloseK(k) \in Connection BY DEF CloseK, Connection
  <2> QED BY <2>1 DEF ClosedK
<1>3. StoppedK(k) \in Connection
  <2>1. \A a, b \in BOOLEAN :
            [k EXCEPT !.closeRequested = a, !.healthy = b, !.error = TRUE, !.woken = TRUE]
                \in Connection
    BY DEF Connection
  <2>2. (k.closeRequested \/ ~k.error) \in BOOLEAN /\ (~k.error) \in BOOLEAN OBVIOUS
  <2> QED BY <2>1, <2>2, Zenon DEF StoppedK, StopK
<1>4. ASSUME NEW why PROVE EndedK(k, why) \in Connection
  <2>1. \A a, b \in BOOLEAN :
            [k EXCEPT !.error = TRUE, !.retire = TRUE, !.broken = TRUE, !.draining = a,
                      !.closeRequested = b] \in Connection
    BY DEF Connection
  <2>2. (k.draining \/ why = "peer") \in BOOLEAN /\ (k.closeRequested \/ why = "protocol") \in BOOLEAN
    OBVIOUS
  <2> QED BY <2>1, <2>2, Zenon DEF EndedK
<1>5. \A w \in {"none", "live", "gone"} : [k EXCEPT !.where = w] \in Connection BY DEF Connection
<1>6. \A b \in BOOLEAN : [k EXCEPT !.queued = b] \in Connection BY DEF Connection
<1>7. FailedK(k) \in Connection
  <2>1. \A l \in Connection : [l EXCEPT !.failed = TRUE] \in Connection BY DEF Connection
  <2> QED BY <1>4, <2>1 DEF FailedK
<1>8. WorkK(k) \in Connection
  <2>1. \A b \in BOOLEAN : [k EXCEPT !.dirty = b] \in Connection BY DEF Connection
  <2>2. (k.dirty \/ ~k.error) \in BOOLEAN OBVIOUS
  <2> QED BY <2>1, <2>2, Zenon DEF WorkK
<1>9. UntoldK(k) \in Connection BY DEF Connection, UntoldK
<1> QED BY <1>1, <1>2, <1>3, <1>4, <1>5, <1>6, <1>7, <1>8, <1>9

\* The helpers, one connection at a time.
LEMMA MadeIs ==
    ASSUME NEW C \in [Conn -> Connection], NEW c \in Conn
    PROVE Made(C, c) = [C EXCEPT ![c] = MadeK(C[c])]
BY Zenon DEF Made, MadeK

LEMMA ClosedIs ==
    ASSUME NEW C \in [Conn -> Connection], NEW c \in Conn
    PROVE Closed(C, c) = [C EXCEPT ![c] = ClosedK(C[c])]
BY DEF Closed, ClosedK, CloseK

LEMMA ClosedAllIs ==
    ASSUME NEW C \in [Conn -> Connection], NEW S
    PROVE ClosedAll(C, S) = [c \in Conn |-> IF c \in S THEN ClosedK(C[c]) ELSE C[c]]
<1>1. \A c \in Conn : Closed(C, c)[c] = ClosedK(C[c])
  <2>1. \A c \in Conn : [C EXCEPT ![c] = ClosedK(C[c])][c] = ClosedK(C[c]) OBVIOUS
  <2> QED BY <2>1, ClosedIs
<1> QED BY <1>1 DEF ClosedAll

LEMMA EndedIs ==
    ASSUME NEW C \in [Conn -> Connection], NEW c \in Conn, NEW why
    PROVE Ended(C, c, why) = [C EXCEPT ![c] = EndedK(C[c], why)]
BY DEF Ended, EndedK

LEMMA StoppedIs ==
    ASSUME NEW C
    PROVE Stopped(C) = [c \in Conn |-> StoppedK(C[c])]
BY DEF Stopped, StoppedK, StopK

LEMMA FailedIs ==
    ASSUME NEW C \in [Conn -> Connection], NEW c \in Conn
    PROVE [Ended(C, c, "protocol") EXCEPT ![c].failed = TRUE] = [C EXCEPT ![c] = FailedK(C[c])]
<1>1. Ended(C, c, "protocol") = [C EXCEPT ![c] = EndedK(C[c], "protocol")] BY EndedIs
<1> QED BY <1>1 DEF FailedK

\* Gone, and what the closing pass did not reach marked as such.
GoneK(k, reached) == [k EXCEPT !.where = "gone", !.untold = @ \/ ~reached]

LEMMA HelperTypes ==
    ASSUME TypeOK, NEW C \in [Conn -> Connection]
    PROVE /\ \A c \in Conn : /\ Made(C, c) \in [Conn -> Connection]
                             /\ Closed(C, c) \in [Conn -> Connection]
                             /\ \A why : Ended(C, c, why) \in [Conn -> Connection]
          /\ Stopped(C) \in [Conn -> Connection]
          /\ \A S : ClosedAll(C, S) \in [Conn -> Connection] /\ Gone(C, S) \in [Conn -> Connection]
<1>1. ASSUME NEW c \in Conn
      PROVE /\ Made(C, c) \in [Conn -> Connection]
            /\ Closed(C, c) \in [Conn -> Connection]
            /\ \A why : Ended(C, c, why) \in [Conn -> Connection]
  <2>1. C[c] \in Connection OBVIOUS
  <2>2. MadeK(C[c]) \in Connection /\ ClosedK(C[c]) \in Connection BY <2>1, RecordTypes
  <2>3. \A why : EndedK(C[c], why) \in Connection BY <2>1, RecordTypes
  <2>4. Made(C, c) = [C EXCEPT ![c] = MadeK(C[c])] BY MadeIs
  <2>5. Closed(C, c) = [C EXCEPT ![c] = ClosedK(C[c])] BY ClosedIs
  <2>6. \A why : Ended(C, c, why) = [C EXCEPT ![c] = EndedK(C[c], why)] BY EndedIs
  <2>7. Made(C, c) \in [Conn -> Connection] BY <2>2, <2>4
  <2>8. Closed(C, c) \in [Conn -> Connection] BY <2>2, <2>5
  <2>9. \A why : Ended(C, c, why) \in [Conn -> Connection] BY <2>3, <2>6
  <2> QED BY <2>7, <2>8, <2>9
<1>4. Stopped(C) \in [Conn -> Connection]
  <2>1. \A c \in Conn : StoppedK(C[c]) \in Connection BY RecordTypes
  <2> QED BY <2>1, StoppedIs
<1>5. ASSUME NEW S PROVE ClosedAll(C, S) \in [Conn -> Connection]
  <2>1. \A c \in Conn : ClosedK(C[c]) \in Connection BY RecordTypes
  <2> QED BY <2>1, ClosedAllIs
<1>6. ASSUME NEW S PROVE Gone(C, S) \in [Conn -> Connection]
  <2>1. \A d \in Conn : (IF d \in S THEN "gone" ELSE C[d].where) \in {"none", "live", "gone"}
    BY DEF Connection
  <2>2. \A d \in Conn : C[d] \in Connection OBVIOUS
  <2> QED BY <2>1, <2>2, RecordTypes DEF Gone
<1> QED BY <1>1, <1>4, <1>5, <1>6

\* notify() marks what it offers, and touches nothing else of a connection.
LEMMA NotifyConns ==
    ASSUME NEW C \in [Conn -> Connection], Notify(C)
    PROVE /\ conns' \in [Conn -> Connection]
          /\ \A c \in Conn : conns'[c] = [C[c] EXCEPT !.queued = @ \/ c \in Offered(C)]
          /\ Live(conns') = Live(C)
<1>1. \A c \in Conn : conns'[c] = [C[c] EXCEPT !.queued = @ \/ c \in Offered(C)] BY DEF Notify
<1>2. ASSUME NEW c \in Conn
      PROVE conns'[c] \in Connection /\ conns'[c].where = C[c].where
  <2>1. (C[c].queued \/ c \in Offered(C)) \in BOOLEAN BY DEF Connection
  <2> QED BY <1>1, <2>1 DEF Connection
<1>3. conns' = [c \in Conn |-> conns'[c]] BY DEF Notify
<1>4. conns' \in [Conn -> Connection] BY <1>2, <1>3
<1>5. Live(conns') = Live(C) BY <1>2 DEF Live
<1> QED BY <1>1, <1>4, <1>5

LEMMA NotifyIncoming ==
    ASSUME TypeOK, NEW C \in [Conn -> Connection], Notify(C)
    PROVE /\ incoming' \in Seq(Conn)
          /\ ToSet(incoming') = {c \in ToSet(incoming) \cup Offered(C) : ~C[c].error}
          /\ (IsInjective(incoming) /\ ToSet(incoming) \cap Offered(C) = {}) =>
                 IsInjective(incoming')
<1> DEFINE O == Offered(C)
           s == incoming \o SetToSeq(O)
<1>1. O \in SUBSET Conn /\ IsFiniteSet(O)
  <2>1. O \in SUBSET Live(C) BY DEF Offered
  <2> QED BY <2>1, LiveFinite, FS_Subset
<1>2. SetToSeq(O) \in Seq(O) /\ ToSet(SetToSeq(O)) = O /\ IsInjective(SetToSeq(O))
  BY <1>1, SetToSeqIs
<1>3. SetToSeq(O) \in Seq(Conn) BY <1>1, <1>2, SeqMonotonic
<1>4. incoming \in Seq(Conn) BY DEF TypeOK
<1>5. s \in Seq(Conn) /\ ToSet(s) = ToSet(incoming) \cup O
  <2> HIDE DEF O
  <2> QED BY <1>2, <1>3, <1>4, ToSetConcat
<1>6. incoming' = Kept(s, {c \in Conn : ~C[c].error}) BY DEF Notify
<1>7. incoming' \in Seq(Conn) /\ ToSet(incoming') = ToSet(s) \cap {c \in Conn : ~C[c].error}
      /\ (IsInjective(s) => IsInjective(incoming'))
  <2> HIDE DEF s
  <2> QED BY <1>5, <1>6, KeptIs
<1>8. ASSUME IsInjective(incoming), ToSet(incoming) \cap O = {} PROVE IsInjective(s)
  <2> HIDE DEF O
  <2> QED BY <1>2, <1>3, <1>4, <1>8, ConcatInjective
<1>9. ToSet(incoming) \subseteq Conn BY <1>4, ToSetType
<1> HIDE DEF s
<1> QED BY <1>1, <1>5, <1>7, <1>8, <1>9
\* The live connections after each helper.
LEMMA LiveAfter ==
    ASSUME TypeOK, NEW C \in [Conn -> Connection]
    PROVE /\ \A c \in Conn : /\ Live(Made(C, c)) = Live(C) \cup {c}
                             /\ Live(Closed(C, c)) = Live(C)
                             /\ \A why : Live(Ended(C, c, why)) = Live(C)
          /\ Live(Stopped(C)) = Live(C)
          /\ \A S : Live(ClosedAll(C, S)) = Live(C) /\ Live(Gone(C, S)) = Live(C) \ S
<1>1. ASSUME NEW k \in Connection
      PROVE /\ MadeK(k).where = "live" /\ ClosedK(k).where = k.where /\ StoppedK(k).where = k.where
            /\ \A why : EndedK(k, why).where = k.where
  BY DEF MadeK, ClosedK, CloseK, StoppedK, StopK, EndedK, Connection
<1>2. ASSUME NEW c \in Conn
      PROVE /\ Live(Made(C, c)) = Live(C) \cup {c}
            /\ Live(Closed(C, c)) = Live(C)
            /\ \A why : Live(Ended(C, c, why)) = Live(C)
  <2>1. Made(C, c) = [C EXCEPT ![c] = MadeK(C[c])] BY MadeIs
  <2>2. Closed(C, c) = [C EXCEPT ![c] = ClosedK(C[c])] BY ClosedIs
  <2>3. \A why : Ended(C, c, why) = [C EXCEPT ![c] = EndedK(C[c], why)] BY EndedIs
  <2>4. Live(Made(C, c)) = Live(C) \cup {c} BY <2>1, <1>1 DEF Live
  <2>5. Live(Closed(C, c)) = Live(C) BY <2>2, <1>1 DEF Live
  <2>6. \A why : Live(Ended(C, c, why)) = Live(C) BY <2>3, <1>1 DEF Live
  <2> QED BY <2>4, <2>5, <2>6
<1>3. Live(Stopped(C)) = Live(C) BY StoppedIs, <1>1 DEF Live
<1>4. ASSUME NEW S PROVE Live(ClosedAll(C, S)) = Live(C) /\ Live(Gone(C, S)) = Live(C) \ S
  <2>1. Live(ClosedAll(C, S)) = Live(C) BY ClosedAllIs, <1>1 DEF Live
  <2>2. \A d \in Conn : Gone(C, S)[d].where = IF d \in S THEN "gone" ELSE C[d].where
    BY DEF Gone, Connection
  <2>3. Live(Gone(C, S)) = Live(C) \ S BY <2>2 DEF Live
  <2> QED BY <2>1, <2>3
<1> QED BY <1>2, <1>3, <1>4

LEMMA RoomKept ==
    ASSUME TypeOK, NEW C, Live(C) \subseteq Live(conns)
    PROVE Cardinality(Live(C)) <= plan.room
<1>1. IsFiniteSet(Live(conns)) /\ Live(C) \in SUBSET Live(conns) BY LiveFinite
<1>2. Cardinality(Live(C)) <= Cardinality(Live(conns)) BY <1>1, FS_Subset
<1>3. IsFiniteSet(Live(C)) BY LiveFinite
<1>4. Cardinality(Live(conns)) \in Nat /\ Cardinality(Live(C)) \in Nat
  BY <1>1, <1>3, FS_CardinalityType
<1>5. plan.room \in Nat BY PlanType
<1> QED BY <1>2, <1>4, <1>5 DEF TypeOK

LEMMA RoomUsed ==
    ASSUME TypeOK, HasRoom(conns), NEW c \in Conn, NEW C, Live(C) = Live(conns) \cup {c}
    PROVE Cardinality(Live(C)) <= plan.room
<1>1. IsFiniteSet(Live(conns)) BY LiveFinite
<1>2. Cardinality(Live(conns)) \in Nat BY <1>1, FS_CardinalityType
<1>3. Cardinality(Live(C)) <= Cardinality(Live(conns)) + 1 BY <1>1, <1>2, FS_AddElement
<1>4. Cardinality(Live(C)) \in Nat BY LiveFinite, FS_CardinalityType
<1>5. plan.room \in Nat BY PlanType
<1> QED BY <1>2, <1>3, <1>4, <1>5 DEF HasRoom

LEMMA EarliestIs ==
    ASSUME TypeOK
    PROVE /\ Earliest(conns) \in 1..Horizon
          /\ \A c \in Live(conns) : Earliest(conns) <= conns[c].expiry
<1> DEFINE due == {conns[c].expiry : c \in Live(conns)} \cup {plan.horizon}
<1>1. \A c \in Conn : conns[c].expiry \in 1..Horizon BY DEF TypeOK
<1>2. due \subseteq 1..Horizon /\ due # {} BY <1>1, PlanType DEF Live
<1>3. due \subseteq Nat
  <2>1. 1..Horizon \subseteq Nat BY PlanType
  <2> QED BY <1>2, <2>1
<1>4. PICK t \in due : \A u \in due : t <= u
  <2> HIDE DEF due
  <2> QED BY <1>2, <1>3, Least
<1>5. Earliest(conns) \in due /\ \A u \in due : Earliest(conns) <= u BY <1>4, Zenon DEF Earliest
<1>6. \A c \in Live(conns) : conns[c].expiry \in due OBVIOUS
<1> HIDE DEF due
<1> QED BY <1>2, <1>5, <1>6
-----------------------------------------------------------------------------
(* TypeOK is kept. *)

\* The types of what the program, the sender and the timer keep.
HandleType == [Conn -> {"none", "connecting", "held", "closing", "dropped"}]
RaceType == [pc : {"none", "trying", "won", "lost", "canceled"}, next : Nat, done : Seq(Conn)]
SenderType == [pc : {"top", "turn", "close", "data", "waiting", "done"}, rest : Seq(Conn)]
SyncType == [wake : BOOLEAN, timerChanged : BOOLEAN, deadline : 0..Horizon, armed : 0..Horizon]
RunType == [stopped : BOOLEAN, pc : {"working", "closing", "ended"}]
ActorTypes ==
    /\ handle \in HandleType /\ race \in RaceType /\ sender \in SenderType
    /\ timer \in {"top", "armed", "waiting"}
    /\ sync \in SyncType /\ run \in RunType

LEMMA TypeParts ==
    TypeOK <=> /\ plan \in Plans /\ conns \in [Conn -> Connection] /\ incoming \in Seq(Conn)
               /\ ActorTypes /\ Cardinality(Live(conns)) <= plan.room
BY DEF TypeOK, ActorTypes, Connection, HandleType, RaceType, SenderType, SyncType, RunType

LEMMA TypePrimed ==
    (/\ plan \in Plans /\ conns \in [Conn -> Connection] /\ incoming \in Seq(Conn)
     /\ ActorTypes /\ Cardinality(Live(conns)) <= plan.room)' => TypeOK'
BY TypeParts, PTL

\* The types after a step, with and without notify().
LEMMA NotifyType ==
    ASSUME TypeOK, NEW C \in [Conn -> Connection], Notify(C), UNCHANGED plan,
           Cardinality(Live(C)) <= plan.room, ActorTypes'
    PROVE TypeOK'
<1>1. conns' \in [Conn -> Connection] /\ Live(conns') = Live(C) BY NotifyConns
<1>2. incoming' \in Seq(Conn) BY NotifyIncoming
<1>3. Cardinality(Live(conns')) <= plan'.room BY <1>1
<1>4. plan' \in Plans BY TypeParts
<1> QED BY <1>1, <1>2, <1>3, <1>4, TypePrimed

LEMMA QuietType ==
    ASSUME TypeOK, conns' \in [Conn -> Connection], incoming' \in Seq(Conn), UNCHANGED plan,
           Live(conns') \subseteq Live(conns), ActorTypes'
    PROVE TypeOK'
<1>1. Cardinality(Live(conns')) <= plan'.room BY RoomKept
<1>2. plan' \in Plans BY TypeParts
<1> QED BY <1>1, <1>2, TypePrimed

LEMMA InitType == Init => TypeOK
<1> SUFFICES ASSUME Init PROVE TypeOK OBVIOUS
<1>1. Live(conns) = {} BY DEF Init, Live, Fresh
<1>2. Cardinality(Live(conns)) = 0 BY <1>1, FS_EmptySet
<1>3. plan \in Plans /\ plan \in Plan BY QuicContextAssumption DEF Init
<1>4. plan.room \in Nat BY <1>3 DEF Plan
<1>5. conns \in [Conn -> Connection] BY FreshType DEF Init
<1>6. incoming = << >> /\ incoming \in Seq(Conn) BY DEF Init
<1>7. ActorTypes
  BY QuicContextAssumption
     DEF Init, ActorTypes, HandleType, RaceType, SenderType, SyncType, RunType
<1> QED BY <1>2, <1>3, <1>4, <1>5, <1>6, <1>7, TypeParts

\* The sender's next turn.
LEMMA ServedType ==
    ASSUME TypeOK, sender.rest # << >>
    PROVE /\ Head(sender.rest) \in Conn /\ Head(sender.rest) \in ToSet(sender.rest)
          /\ ServedNext.pc = sender.pc /\ ServedNext.rest = Tail(sender.rest)
          /\ ServedNext \in SenderType
          /\ [ServedNext EXCEPT !.pc = "turn"] \in SenderType
          /\ [ServedNext EXCEPT !.pc = "turn"].pc = "turn"
          /\ [ServedNext EXCEPT !.pc = "turn"].rest = Tail(sender.rest)
          /\ Tail(sender.rest) \in Seq(Conn)
          /\ ToSet(sender.rest) = {Head(sender.rest)} \cup ToSet(Tail(sender.rest))
<1>1. sender.rest \in Seq(Conn) BY DEF TypeOK
<1>2. /\ Head(sender.rest) \in ToSet(sender.rest) /\ Head(sender.rest) \in Conn
      /\ Tail(sender.rest) \in Seq(Conn)
      /\ ToSet(sender.rest) = {Head(sender.rest)} \cup ToSet(Tail(sender.rest))
  BY <1>1, ToSetTail
<1>3. sender \in SenderType BY DEF TypeOK, SenderType
<1>4. ServedNext.pc = sender.pc /\ ServedNext.rest = Tail(sender.rest)
  BY <1>3 DEF SenderType, ServedNext
<1>5. ServedNext \in SenderType BY <1>2, <1>3 DEF SenderType, ServedNext
<1>6. /\ [ServedNext EXCEPT !.pc = "turn"] \in SenderType
      /\ [ServedNext EXCEPT !.pc = "turn"].pc = "turn"
      /\ [ServedNext EXCEPT !.pc = "turn"].rest = ServedNext.rest
  BY <1>5 DEF SenderType
<1> QED BY <1>2, <1>4, <1>5, <1>6

\* The candidate that is spawned next.
LEMMA CandidateType ==
    ASSUME TypeOK, RaceInv, Untried
    PROVE plan.candidates[race.next] \in Conn /\ race.next \in 1 .. Len(plan.candidates)
<1>1. race.next \in Nat /\ race.next >= 1 BY DEF TypeOK, RaceInv
<1>2. plan.candidates \in Seq(Conn) BY PlanType
<1> QED BY <1>1, <1>2 DEF Untried

LEMMA CopyType == ASSUME NEW S \in SUBSET Conn PROVE
    SetToSeq(S) \in Seq(Conn) /\ ToSet(SetToSeq(S)) = S
<1>1. IsFiniteSet(S) BY QuicContextAssumption, FS_Subset
<1>2. SetToSeq(S) \in Seq(S) /\ ToSet(SetToSeq(S)) = S BY <1>1, SetToSeqIs
<1> QED BY <1>2, SeqMonotonic

LEMMA SpawnType ==
    ASSUME TypeOK, RaceInv, Untried, NEW done \in Seq(Conn), Spawn(done),
           UNCHANGED <<plan, incoming, sender, timer, run>>
    PROVE TypeOK'
<1> DEFINE c == plan.candidates[race.next]
<1>1. c \in Conn BY CandidateType
<1> HIDE DEF c
<1>2. CASE ~run.stopped /\ HasRoom(conns)
  <2>1. conns' = Made(conns, c) BY <1>2 DEF Spawn, c
  <2>2. conns' \in [Conn -> Connection] /\ Live(conns') = Live(conns) \cup {c}
    BY <1>1, <2>1, TypeParts, HelperTypes, LiveAfter
  <2>3. Cardinality(Live(conns')) <= plan'.room
    <3>1. Cardinality(Live(conns')) <= plan.room BY <1>1, <1>2, <2>2, RoomUsed
    <3> QED BY <3>1
  <2>4. ActorTypes'
    <3>1. race' = [race EXCEPT !.next = @ + 1, !.done = done] BY <1>2 DEF Spawn
    <3>2. handle' = [handle EXCEPT ![c] = "connecting"] BY <1>2 DEF Spawn, c
    <3>3. sync' = Wake(sync) BY <1>2 DEF Spawn
    <3>4. handle \in HandleType /\ race \in RaceType /\ sync \in SyncType
      BY TypeParts DEF ActorTypes
    <3>5. race' \in RaceType
      <4>1. race.next + 1 \in Nat BY <3>4 DEF RaceType
      <4>2. \A r \in RaceType, n \in Nat : [r EXCEPT !.next = n, !.done = done] \in RaceType
        BY DEF RaceType
      <4> QED BY <3>1, <3>4, <4>1, <4>2
    <3>6. handle' \in HandleType BY <1>1, <3>2, <3>4 DEF HandleType
    <3>7. sync' \in SyncType BY <3>3, <3>4 DEF SyncType, Wake
    <3> QED BY <3>5, <3>6, <3>7, TypeParts DEF ActorTypes
  <2> QED BY <2>2, <2>3, <2>4, TypeParts, TypePrimed
<1>3. CASE ~(~run.stopped /\ HasRoom(conns))
  <2>1. conns' = conns /\ sync' = sync BY <1>3 DEF Spawn
  <2>2. race' = [race EXCEPT !.next = @ + 1, !.done = Append(done, c)] BY <1>3 DEF Spawn, c
  <2>3. handle' = [handle EXCEPT ![c] = "dropped"] BY <1>3 DEF Spawn, c
  <2>4. Append(done, c) \in Seq(Conn) BY <1>1
  <2>5. ActorTypes'
    <3>1. handle \in HandleType /\ race \in RaceType BY TypeParts DEF ActorTypes
    <3>2. race' \in RaceType
      <4>1. race.next + 1 \in Nat BY <3>1 DEF RaceType
      <4>2. \A r \in RaceType, n \in Nat, d \in Seq(Conn) :
                [r EXCEPT !.next = n, !.done = d] \in RaceType
        BY DEF RaceType
      <4> QED BY <2>2, <2>4, <3>1, <4>1, <4>2
    <3>3. handle' \in HandleType BY <1>1, <2>3, <3>1 DEF HandleType
    <3> QED BY <2>1, <3>2, <3>3, TypeParts DEF ActorTypes
  <2>6. Cardinality(Live(conns')) <= plan'.room BY <2>1, RoomKept
  <2> QED BY <2>1, <2>5, <2>6, TypeParts, TypePrimed
<1> QED BY <1>2, <1>3
\* The updates of one connection that are not a helper: what a packet moves, a packet sent,
\* a close requested or not, and a close sent.
Touched(C, c, e) == [C EXCEPT ![c].dirty = TRUE, ![c].expiry = e]
Sent(C, c, e) == [C EXCEPT ![c].dirty = FALSE, ![c].wrote = TRUE, ![c].expiry = e]
Shaken(C, c) == [C EXCEPT ![c].handshake = TRUE]
Requested(C, c, b) == [C EXCEPT ![c].closeRequested = b]
Told(C, c) == [C EXCEPT ![c].closeRequested = FALSE, ![c].closeSent = TRUE, ![c].retire = TRUE]
Each(C, c, k) == [C EXCEPT ![c] = k]

LEMMA EachType ==
    ASSUME NEW C \in [Conn -> Connection], NEW c \in Conn, NEW k \in Connection,
           k.where = C[c].where
    PROVE Each(C, c, k) \in [Conn -> Connection] /\ Live(Each(C, c, k)) = Live(C)
<1>1. Each(C, c, k) \in [Conn -> Connection] BY DEF Each
<1>2. Live(Each(C, c, k)) = Live(C) BY DEF Live, Each
<1> QED BY <1>1, <1>2

\* What the steps of StreamWork, WriteFails and NotSent make of their connection.
LEMMA WhereKept ==
    ASSUME NEW k \in Connection
    PROVE WorkK(k).where = k.where /\ FailedK(k).where = k.where /\ UntoldK(k).where = k.where
BY DEF WorkK, FailedK, EndedK, UntoldK, Connection

LEMMA TouchedType ==
    ASSUME TypeOK, NEW C \in [Conn -> Connection], NEW c \in Conn, NEW e \in 1..plan.horizon
    PROVE Touched(C, c, e) \in [Conn -> Connection] /\ Live(Touched(C, c, e)) = Live(C)
<1>1. e \in 1..Horizon BY PlanType
<1>2. [C[c] EXCEPT !.dirty = TRUE, !.expiry = e] \in Connection
  <2>1. ASSUME NEW k \in Connection PROVE [k EXCEPT !.dirty = TRUE, !.expiry = e] \in Connection
    <3>1. PICK l : l = [k EXCEPT !.dirty = TRUE] OBVIOUS
    <3>2. l \in Connection BY <3>1 DEF Connection
    <3>3. [l EXCEPT !.expiry = e] \in Connection BY <1>1, <3>2 DEF Connection
    <3> QED BY <3>1, <3>3
  <2> QED BY <2>1
<1>3. Touched(C, c, e) = [C EXCEPT ![c] = [C[c] EXCEPT !.dirty = TRUE, !.expiry = e]] BY DEF Touched
<1>4. Touched(C, c, e) \in [Conn -> Connection] BY <1>2, <1>3
<1>5. Live(Touched(C, c, e)) = Live(C) BY DEF Live, Touched, Connection
<1> QED BY <1>4, <1>5

LEMMA SentType ==
    ASSUME TypeOK, NEW C \in [Conn -> Connection], NEW c \in Conn, NEW e \in 1..plan.horizon
    PROVE Sent(C, c, e) \in [Conn -> Connection] /\ Live(Sent(C, c, e)) = Live(C)
<1>1. e \in 1..Horizon BY PlanType
<1>2. [C[c] EXCEPT !.dirty = FALSE, !.wrote = TRUE, !.expiry = e] \in Connection
  <2>1. ASSUME NEW k \in Connection
        PROVE [k EXCEPT !.dirty = FALSE, !.wrote = TRUE, !.expiry = e] \in Connection
    <3>1. PICK l : l = [k EXCEPT !.dirty = FALSE] OBVIOUS
    <3>2. l \in Connection BY <3>1 DEF Connection
    <3>3. PICK j : j = [l EXCEPT !.wrote = TRUE] OBVIOUS
    <3>4. j \in Connection BY <3>2, <3>3 DEF Connection
    <3>5. [j EXCEPT !.expiry = e] \in Connection BY <1>1, <3>4 DEF Connection
    <3> QED BY <3>1, <3>3, <3>5
  <2> QED BY <2>1
<1>3. Sent(C, c, e) = [C EXCEPT ![c] = [C[c] EXCEPT !.dirty = FALSE, !.wrote = TRUE, !.expiry = e]]
  BY DEF Sent
<1>4. Sent(C, c, e) \in [Conn -> Connection] BY <1>2, <1>3
<1>5. Live(Sent(C, c, e)) = Live(C) BY DEF Live, Sent, Connection
<1> QED BY <1>4, <1>5

LEMMA ShakenType ==
    ASSUME NEW C \in [Conn -> Connection], NEW c \in Conn
    PROVE Shaken(C, c) \in [Conn -> Connection] /\ Live(Shaken(C, c)) = Live(C)
<1>1. Shaken(C, c) \in [Conn -> Connection] BY DEF Shaken, Connection
<1>2. Live(Shaken(C, c)) = Live(C) BY DEF Live, Shaken, Connection
<1> QED BY <1>1, <1>2

LEMMA RequestedType ==
    ASSUME NEW C \in [Conn -> Connection], NEW c \in Conn, NEW b \in BOOLEAN
    PROVE Requested(C, c, b) \in [Conn -> Connection] /\ Live(Requested(C, c, b)) = Live(C)
<1>1. Requested(C, c, b) \in [Conn -> Connection] BY DEF Requested, Connection
<1>2. Live(Requested(C, c, b)) = Live(C) BY DEF Live, Requested, Connection
<1> QED BY <1>1, <1>2

LEMMA ToldType ==
    ASSUME NEW C \in [Conn -> Connection], NEW c \in Conn
    PROVE Told(C, c) \in [Conn -> Connection] /\ Live(Told(C, c)) = Live(C)
<1>1. [C[c] EXCEPT !.closeRequested = FALSE, !.closeSent = TRUE, !.retire = TRUE] \in Connection
  BY DEF Connection
<1>2. Told(C, c) = [C EXCEPT ![c] = [C[c] EXCEPT !.closeRequested = FALSE, !.closeSent = TRUE,
                                                 !.retire = TRUE]]
  BY DEF Told
<1>3. Told(C, c) \in [Conn -> Connection] BY <1>1, <1>2
<1>4. Live(Told(C, c)) = Live(C) BY DEF Live, Told, Connection
<1> QED BY <1>3, <1>4

LEMMA WakeType == ASSUME TypeOK PROVE Wake(sync) \in SyncType /\ Wake(sync).wake
<1>1. sync \in SyncType BY TypeParts DEF ActorTypes
<1> QED BY <1>1 DEF Wake, SyncType
LEMMA ReceivedType ==
    ASSUME TypeOK, NEW c \in Conn, NEW C \in [Conn -> Connection], Received(C, c),
           Cardinality(Live(C)) <= plan.room
    PROVE TypeOK'
<1>1. PICK e \in 1..plan.horizon : Notify(Touched(C, c, e)) BY DEF Received, Touched
<1>2. PICK D : D = Touched(C, c, e) OBVIOUS
<1>3. D \in [Conn -> Connection] /\ Live(D) = Live(C) BY <1>2, TouchedType
<1>4. ActorTypes' BY WakeType, TypeParts DEF Received, ActorTypes
<1> QED BY <1>1, <1>2, <1>3, <1>4, NotifyType DEF Received

LEMMA OtherType == TypeOK /\ ReceiveOther => TypeOK'
<1> SUFFICES ASSUME TypeOK, ReceiveOther PROVE TypeOK'
  OBVIOUS
<1>1. conns \in [Conn -> Connection] /\ Cardinality(Live(conns)) <= plan.room BY TypeParts
<1>2. ActorTypes' BY WakeType, TypeParts DEF ReceiveOther, ActorTypes
<1> QED BY <1>1, <1>2, NotifyType DEF ReceiveOther

LEMMA PeerType == TypeOK /\ PeerStep => TypeOK'
<1> SUFFICES ASSUME TypeOK, NEW c \in Conn,
                    \/ ReceiveInitial(c) \/ Handshake(c) \/ ReceivePacket(c)
                    \/ ReceiveEnd(c) \/ ReceiveLate(c)
             PROVE TypeOK'
  BY OtherType DEF PeerStep
<1>1. conns \in [Conn -> Connection] BY TypeParts
<1>2. CASE ReceiveInitial(c)
  <2>1. Made(conns, c) \in [Conn -> Connection] /\ Live(Made(conns, c)) = Live(conns) \cup {c}
    BY <1>1, HelperTypes, LiveAfter
  <2>2. Cardinality(Live(Made(conns, c))) <= plan.room BY <1>2, <2>1, RoomUsed DEF ReceiveInitial
  <2> QED BY <1>2, <2>1, <2>2, ReceivedType DEF ReceiveInitial
<1>3. CASE Handshake(c)
  <2>1. PICK C : C = Shaken(conns, c) OBVIOUS
  <2>2. C \in [Conn -> Connection] /\ Live(C) = Live(conns) BY <1>1, <2>1, ShakenType
  <2>3. Cardinality(Live(C)) <= plan.room BY <2>2, RoomKept
  <2>4. Received(C, c) BY <1>3, <2>1 DEF Handshake, Shaken
  <2> QED BY <2>2, <2>3, <2>4, ReceivedType
<1>4. CASE ReceiveEnd(c)
  <2>1. PICK why : Received(Ended(conns, c, why), c) BY <1>4 DEF ReceiveEnd
  <2>2. PICK C : C = Ended(conns, c, why) OBVIOUS
  <2>3. C \in [Conn -> Connection] /\ Live(C) = Live(conns) BY <1>1, <2>2, HelperTypes, LiveAfter
  <2>4. Cardinality(Live(C)) <= plan.room BY <2>3, RoomKept
  <2> QED BY <2>1, <2>2, <2>3, <2>4, ReceivedType
<1>5. CASE ReceiveLate(c)
  <2>1. PICK C : C = Requested(conns, c, TRUE) OBVIOUS
  <2>2. C \in [Conn -> Connection] /\ Live(C) = Live(conns) BY <1>1, <2>1, RequestedType
  <2>3. Cardinality(Live(C)) <= plan.room BY <2>2, RoomKept
  <2>4. Notify(C) /\ UNCHANGED plan BY <1>5, <2>1 DEF ReceiveLate, Requested
  <2>5. ActorTypes' BY <1>5, WakeType, TypeParts DEF ReceiveLate, ActorTypes
  <2> QED BY <2>2, <2>3, <2>4, <2>5, NotifyType
<1>6. CASE ReceivePacket(c)
  <2>1. Cardinality(Live(conns)) <= plan.room BY TypeParts
  <2> QED BY <1>1, <1>6, <2>1, ReceivedType DEF ReceivePacket
<1> QED BY <1>2, <1>3, <1>4, <1>5, <1>6

LEMMA GoneType ==
    ASSUME TypeOK, NEW S
    PROVE Gone(conns, S) \in [Conn -> Connection] /\ Live(Gone(conns, S)) = Live(conns) \ S
BY TypeParts, HelperTypes, LiveAfter

LEMMA SenderPcType ==
    ASSUME TypeOK, NEW p \in {"top", "turn", "close", "data", "waiting", "done"}
    PROVE [sender EXCEPT !.pc = p] \in SenderType
<1>1. sender \in SenderType BY TypeParts DEF ActorTypes
<1> QED BY <1>1 DEF SenderType

LEMMA SenderNextType == TypeOK /\ SenderInv /\ SenderStep => TypeOK'
<1> SUFFICES ASSUME TypeOK, SenderInv, SenderStep PROVE TypeOK'
  OBVIOUS
<1>1. conns \in [Conn -> Connection] /\ incoming \in Seq(Conn) /\ ActorTypes BY TypeParts
<1>2. CASE SenderTurn
  <2>1. PICK S \in SUBSET {c \in Live(conns) : conns[c].retire} :
            /\ conns' = Gone(conns, S)
            /\ sender' = [pc |-> "turn", rest |-> SetToSeq(Live(conns) \ S)]
    BY <1>2 DEF SenderTurn
  <2>2. SetToSeq(Live(conns) \ S) \in Seq(Conn) BY LiveFinite, CopyType
  <2>3. sender' \in SenderType BY <2>1, <2>2 DEF SenderType
  <2>4. sync' \in SyncType BY <1>1, <1>2 DEF SenderTurn, ActorTypes, SyncType
  <2>5. ActorTypes' BY <1>1, <1>2, <2>3, <2>4 DEF SenderTurn, ActorTypes
  <2>6. conns' \in [Conn -> Connection] /\ Live(conns') \subseteq Live(conns) BY <2>1, GoneType
  <2> QED BY <1>1, <1>2, <2>5, <2>6, QuietType DEF SenderTurn
<1>3. CASE SendClose
  <2>1. sender' \in SenderType BY <1>3, SenderPcType DEF SendClose
  <2>2. ActorTypes' BY <1>1, <1>3, <2>1 DEF SendClose, ActorTypes
  <2> QED BY <1>1, <1>3, <2>2, QuietType DEF SendClose
<1>4. CASE SendNothing
  <2> DEFINE c == Head(sender.rest)
  <2>1. c \in Conn /\ ServedNext \in SenderType BY <1>4, ServedType DEF SendNothing, Turns
  <2>2. (conns[c].closeRequested /\ ~CloseDue(c)) \in BOOLEAN OBVIOUS
  <2>3. conns' = Requested(conns, c, conns[c].closeRequested /\ ~CloseDue(c))
    BY <1>4 DEF SendNothing, Requested
  <2> HIDE DEF c
  <2>4. conns' \in [Conn -> Connection] /\ Live(conns') = Live(conns)
    BY <1>1, <2>1, <2>2, <2>3, RequestedType
  <2>5. ActorTypes' BY <1>1, <1>4, <2>1 DEF SendNothing, ActorTypes
  <2> QED BY <1>1, <1>4, <2>4, <2>5, QuietType DEF SendNothing
<1>5. CASE SendData
  <2> DEFINE c == Head(sender.rest)
  <2>1. c \in Conn BY <1>5, ServedType DEF SendData, Turns
  <2>2. PICK e \in 1..plan.horizon : conns' = Sent(conns, c, e) BY <1>5 DEF SendData, Sent
  <2> HIDE DEF c
  <2>3. conns' \in [Conn -> Connection] /\ Live(conns') = Live(conns)
    BY <1>1, <2>1, <2>2, SentType
  <2>4. sender' \in SenderType BY <1>5, SenderPcType DEF SendData
  <2>5. ActorTypes' BY <1>1, <1>5, <2>4 DEF SendData, ActorTypes
  <2> QED BY <1>1, <1>5, <2>3, <2>5, QuietType DEF SendData
<1>6. CASE DataSent
  <2>1. sender.rest # << >> BY <1>6 DEF DataSent, SenderInv
  <2>2. sender' \in SenderType BY <1>6, <2>1, ServedType DEF DataSent
  <2>3. ActorTypes' BY <1>1, <1>6, <2>2 DEF DataSent, ActorTypes
  <2> QED BY <1>1, <1>6, <2>3, QuietType DEF DataSent
<1>7. CASE CloseSent
  <2> DEFINE c == Head(sender.rest)
  <2>1. sender.rest # << >> BY <1>7 DEF CloseSent, SenderInv
  <2>2. c \in Conn BY <2>1, ServedType
  <2>3. sender' \in SenderType BY <1>7, <2>1, ServedType DEF CloseSent
  <2>4. conns' = Told(conns, c) BY <1>7 DEF CloseSent, Told
  <2> HIDE DEF c
  <2>5. conns' \in [Conn -> Connection] /\ Live(conns') = Live(conns)
    BY <1>1, <2>2, <2>4, ToldType
  <2>6. ActorTypes' BY <1>1, <1>7, <2>3 DEF CloseSent, ActorTypes
  <2> QED BY <1>1, <1>7, <2>5, <2>6, QuietType DEF CloseSent
<1>8. CASE TurnEnds
  <2>1. sender' \in SenderType BY <1>8, SenderPcType DEF TurnEnds
  <2>2. sync' \in SyncType
    <3>1. PICK due \in 0..Horizon : due = Earliest(conns) BY EarliestIs, PlanType
    <3>2. (sync.timerChanged \/ sync.armed = 0 \/ due < sync.armed) \in BOOLEAN
      BY <1>1 DEF ActorTypes, SyncType
    <3>3. \A y \in SyncType, b \in BOOLEAN : [y EXCEPT !.deadline = due, !.timerChanged = b] \in SyncType
      BY DEF SyncType
    <3>4. sync' = sync \/ sync' = [sync EXCEPT !.deadline = due,
                  !.timerChanged = sync.timerChanged \/ sync.armed = 0 \/ due < sync.armed]
      BY <1>8, <3>1 DEF TurnEnds
    <3> QED BY <1>1, <3>2, <3>3, <3>4 DEF ActorTypes
  <2>3. ActorTypes' BY <1>1, <1>8, <2>1, <2>2 DEF TurnEnds, ActorTypes
  <2>4. Cardinality(Live(conns)) <= plan.room BY TypeParts
  <2> QED BY <1>1, <1>8, <2>3, <2>4, NotifyType DEF TurnEnds
<1>9. CASE SenderStops
  <2>1. sender' \in SenderType BY <1>9, SenderPcType DEF SenderStops
  <2>2. ActorTypes' BY <1>1, <1>9, <2>1 DEF SenderStops, ActorTypes
  <2> QED BY <1>1, <1>9, <2>2, QuietType DEF SenderStops
<1> QED BY <1>2, <1>3, <1>4, <1>5, <1>6, <1>7, <1>8, <1>9 DEF SenderStep
LEMMA HandleTypeKept ==
    ASSUME TypeOK, NEW c \in Conn, NEW h \in {"none", "connecting", "held", "closing", "dropped"}
    PROVE [handle EXCEPT ![c] = h] \in HandleType
<1>1. handle \in HandleType BY TypeParts DEF ActorTypes
<1> QED BY <1>1 DEF HandleType

\* A send that fails was of the next connection of the turn.
LEMMA Failing ==
    ASSUME SenderInv, SendFails \/ CloseFails
    PROVE NotSent /\ sender.rest # << >>
BY DEF SenderInv, SendFails, CloseFails, Turns

LEMMA FailType == TypeOK /\ SenderInv /\ Faults => TypeOK'
<1> SUFFICES ASSUME TypeOK, SenderInv, Faults PROVE TypeOK'
  OBVIOUS
<1>1. conns \in [Conn -> Connection] /\ incoming \in Seq(Conn) /\ ActorTypes BY TypeParts
<1>2. CASE Expires
  <2>1. PICK c, why : c = Head(sender.rest) /\ conns' = Ended(conns, c, why)
    BY <1>2 DEF Expires
  <2>2. c \in Conn BY <1>2, <2>1, ServedType DEF Expires, Turns
  <2>3. conns' \in [Conn -> Connection] /\ Live(conns') = Live(conns)
    BY <1>1, <2>1, <2>2, HelperTypes, LiveAfter
  <2>4. ActorTypes' BY <1>1, <1>2 DEF Expires, ActorTypes
  <2> QED BY <1>1, <1>2, <2>3, <2>4, QuietType DEF Expires
<1>3. CASE WriteFails
  <2>1. PICK c : c = Head(sender.rest)
                 /\ conns' = [Ended(conns, c, "protocol") EXCEPT ![c].failed = TRUE]
    BY <1>3 DEF WriteFails
  <2>2. c \in Conn /\ ServedNext \in SenderType BY <1>3, <2>1, ServedType DEF WriteFails, Turns
  <2>3. conns' = Each(conns, c, FailedK(conns[c])) BY <1>1, <2>1, <2>2, FailedIs DEF Each
  <2>4. conns' \in [Conn -> Connection] /\ Live(conns') = Live(conns)
    BY <1>1, <2>2, <2>3, RecordTypes, WhereKept, EachType
  <2>5. ActorTypes' BY <1>1, <1>3, <2>2 DEF WriteFails, ActorTypes
  <2> QED BY <1>1, <1>3, <2>4, <2>5, QuietType DEF WriteFails
<1>4. ASSUME NotSent, sender.rest # << >> PROVE TypeOK'
  <2>1. CASE Working
    <3>1. PICK C : C = IF run.stopped THEN conns ELSE Stopped(conns) OBVIOUS
    <3>2. C \in [Conn -> Connection] /\ Live(C) = Live(conns) BY <1>1, <3>1, HelperTypes, LiveAfter
    <3>3. Cardinality(Live(C)) <= plan.room BY <3>2, RoomKept
    <3>4. Notify(C) BY <1>4, <2>1, <3>1 DEF NotSent
    <3>5. sender' \in SenderType
      <4>1. << >> \in Seq(Conn) OBVIOUS
      <4>2. sender' = [pc |-> "done", rest |-> << >>] BY <1>4, <2>1 DEF NotSent
      <4> QED BY <4>1, <4>2 DEF SenderType
    <3>6. run' \in RunType BY <1>1, <1>4, <2>1 DEF NotSent, ActorTypes, RunType
    <3>7. ActorTypes' BY <1>1, <1>4, <2>1, <3>5, <3>6, WakeType DEF NotSent, ActorTypes
    <3> QED BY <1>4, <3>2, <3>3, <3>4, <3>7, NotifyType DEF NotSent
  <2>2. CASE ~Working
    <3>1. PICK c : c = Head(sender.rest) OBVIOUS
    <3>2. c \in Conn BY <1>4, <3>1, ServedType
    <3>3. conns' = Each(conns, c, UntoldK(conns[c]))
      BY <1>1, <1>4, <2>2, <3>1, <3>2 DEF NotSent, Each, UntoldK
    <3>4. conns' \in [Conn -> Connection] /\ Live(conns') = Live(conns)
      BY <1>1, <3>2, <3>3, RecordTypes, WhereKept, EachType
    <3>5. sender' \in SenderType BY <1>4, <2>2, ServedType DEF NotSent
    <3>6. ActorTypes' BY <1>1, <1>4, <2>2, <3>5 DEF NotSent, ActorTypes
    <3> QED BY <1>1, <1>4, <2>2, <3>4, <3>6, QuietType DEF NotSent
  <2> QED BY <2>1, <2>2
<1> QED BY <1>2, <1>3, <1>4, Failing DEF Faults

LEMMA TimerType == TypeOK /\ TimerStep => TypeOK'
<1> SUFFICES ASSUME TypeOK, TimerStep PROVE TypeOK'
  OBVIOUS
<1>1. conns \in [Conn -> Connection] /\ incoming \in Seq(Conn) /\ ActorTypes BY TypeParts
<1>2. sync' \in SyncType /\ timer' \in {"top", "armed", "waiting"}
  <2>1. sync \in SyncType BY <1>1 DEF ActorTypes
  <2>2. CASE TimerArms
    <3>1. (IF sync.deadline = 0 THEN sync.armed ELSE sync.deadline) \in 0..Horizon
      BY <2>1 DEF SyncType
    <3> QED BY <2>1, <2>2, <3>1 DEF TimerArms, SyncType
  <2>3. CASE TimerFires
    <3>1. Wake(sync) \in SyncType BY WakeType
    <3>2. \A y \in SyncType : [y EXCEPT !.armed = 0] \in SyncType BY PlanType DEF SyncType
    <3> QED BY <2>3, <3>1, <3>2 DEF TimerFires
  <2>4. CASE TimerChanged BY <2>1, <2>4 DEF TimerChanged
  <2> QED BY <2>2, <2>3, <2>4 DEF TimerStep
<1>3. ActorTypes' BY <1>1, <1>2 DEF TimerStep, TimerArms, TimerFires, TimerChanged, ActorTypes
<1> QED BY <1>1, <1>3, QuietType DEF TimerStep, TimerArms, TimerFires, TimerChanged

LEMMA DoneType ==
    ASSUME TypeOK, NEW d \in Seq(Conn), NEW p \in {"none", "trying", "won", "lost", "canceled"}
    PROVE [race EXCEPT !.pc = p, !.done = d] \in RaceType /\ [race EXCEPT !.done = d, !.pc = p] \in RaceType
          /\ [race EXCEPT !.done = d] \in RaceType
<1>1. race \in RaceType BY TypeParts DEF ActorTypes
<1> QED BY <1>1 DEF RaceType

LEMMA AbandonType ==
    ASSUME TypeOK, NEW S, Abandon(S), UNCHANGED <<plan, sender, timer, run>>,
           NEW p \in {"won", "canceled"}, race' = [race EXCEPT !.pc = p, !.done = << >>]
    PROVE TypeOK'
<1>1. conns \in [Conn -> Connection] /\ ActorTypes BY TypeParts
<1>2. PICK C : C = ClosedAll(conns, S) OBVIOUS
<1>3. C \in [Conn -> Connection] /\ Live(C) = Live(conns) BY <1>1, <1>2, HelperTypes, LiveAfter
<1>4. Cardinality(Live(C)) <= plan.room BY <1>3, RoomKept
<1>5. Notify(C) BY <1>2 DEF Abandon
<1>6. handle' \in HandleType BY <1>1 DEF Abandon, ActorTypes, HandleType
<1>7. race' \in RaceType
  <2>1. << >> \in Seq(Conn) OBVIOUS
  <2> QED BY <2>1, DoneType
<1>8. ActorTypes' BY <1>1, <1>6, <1>7, WakeType DEF Abandon, ActorTypes
<1> QED BY <1>3, <1>4, <1>5, <1>8, NotifyType

LEMMA RaceStepType == TypeOK /\ RaceInv /\ RaceStep => TypeOK'
<1> SUFFICES ASSUME TypeOK, RaceInv, RaceStep PROVE TypeOK'
  OBVIOUS
<1>1. /\ conns \in [Conn -> Connection] /\ incoming \in Seq(Conn) /\ ActorTypes
      /\ race.done \in Seq(Conn) /\ race.pc \in {"none", "trying", "won", "lost", "canceled"}
  BY TypeParts DEF ActorTypes, RaceType
<1>2. CASE RaceGoesOn BY <1>1, <1>2, SpawnType DEF RaceGoesOn
<1>3. CASE AttemptFailed
  <2>1. race.done # << >> BY <1>3 DEF AttemptFailed
  <2>2. Tail(race.done) \in Seq(Conn) BY <1>1, <2>1
  <2>3. CASE Untried BY <1>3, <2>2, <2>3, SpawnType DEF AttemptFailed
  <2>4. CASE ~Untried
    <3>1. race' \in RaceType
      <4>1. race' = [race EXCEPT !.done = Tail(@), !.pc = IF Attempts = {} /\ Tail(race.done) = << >>
                                                          THEN "lost" ELSE @]
        BY <1>3, <2>4 DEF AttemptFailed
      <4>2. PICK p \in {"none", "trying", "won", "lost", "canceled"} :
                p = IF Attempts = {} /\ Tail(race.done) = << >> THEN "lost" ELSE race.pc
        BY <1>1
      <4>3. race' = [race EXCEPT !.done = Tail(race.done), !.pc = p] BY <4>1, <4>2
      <4> QED BY <2>2, <4>3, DoneType
    <3>2. ActorTypes' BY <1>1, <1>3, <2>4, <3>1 DEF AttemptFailed, ActorTypes
    <3> QED BY <1>1, <1>3, <2>4, <3>2, QuietType DEF AttemptFailed
  <2> QED BY <2>3, <2>4
<1>4. CASE RaceWon BY <1>4, AbandonType DEF RaceWon
<1>5. CASE RaceCanceled BY <1>5, AbandonType DEF RaceCanceled
<1>6. ASSUME NEW c \in Conn, AttemptEnds(c) PROVE TypeOK'
  <2>1. handle' \in HandleType BY <1>6, HandleTypeKept DEF AttemptEnds
  <2>2. Append(race.done, c) \in Seq(Conn) BY <1>1
  <2>3. race' \in RaceType BY <1>6, <2>2, DoneType DEF AttemptEnds
  <2>4. ActorTypes' BY <1>1, <1>6, <2>1, <2>3 DEF AttemptEnds, ActorTypes
  <2> QED BY <1>1, <1>6, <2>4, QuietType DEF AttemptEnds
<1> QED BY <1>2, <1>3, <1>4, <1>5, <1>6 DEF RaceStep

LEMMA ProgramType == TypeOK /\ ProgramStep => TypeOK'
<1> SUFFICES ASSUME TypeOK, ProgramStep PROVE TypeOK'
  OBVIOUS
<1>1. conns \in [Conn -> Connection] /\ incoming \in Seq(Conn) /\ ActorTypes BY TypeParts
<1>2. CASE Stop
  <2>1. PICK C : C = Stopped(conns) OBVIOUS
  <2>2. C \in [Conn -> Connection] /\ Live(C) = Live(conns) BY <1>1, <2>1, HelperTypes, LiveAfter
  <2>3. Cardinality(Live(C)) <= plan.room BY <2>2, RoomKept
  <2>4. Notify(C) BY <1>2, <2>1 DEF Stop
  <2>5. run' \in RunType BY <1>1, <1>2 DEF Stop, ActorTypes, RunType
  <2>6. ActorTypes' BY <1>1, <1>2, <2>5, WakeType DEF Stop, ActorTypes
  <2> QED BY <1>2, <2>2, <2>3, <2>4, <2>6, NotifyType DEF Stop
<1>3. CASE Accept
  <2>1. PICK i \in DOMAIN incoming : /\ handle' = [handle EXCEPT ![incoming[i]] = "held"]
                                     /\ incoming' = SubSeq(incoming, i + 1, Len(incoming))
    BY <1>3 DEF Accept
  <2>2. incoming[i] \in Conn BY <1>1
  <2>3. handle' \in HandleType BY <2>1, <2>2, HandleTypeKept
  <2>4. incoming' \in Seq(Conn) BY <1>1, <2>1
  <2>5. ActorTypes' BY <1>1, <1>3, <2>3 DEF Accept, ActorTypes
  <2> QED BY <1>1, <1>3, <2>4, <2>5, QuietType DEF Accept
<1>4. ASSUME NEW c \in Conn, Close(c) \/ Drop(c) PROVE TypeOK'
  <2>1. PICK C : C = Closed(conns, c) OBVIOUS
  <2>2. C \in [Conn -> Connection] /\ Live(C) = Live(conns) BY <1>1, <2>1, HelperTypes, LiveAfter
  <2>3. Cardinality(Live(C)) <= plan.room BY <2>2, RoomKept
  <2>4. Notify(C) /\ UNCHANGED plan BY <1>4, <2>1 DEF Close, Drop
  <2>5. handle' \in HandleType
    <3>1. PICK h \in {"closing", "dropped"} : handle' = [handle EXCEPT ![c] = h]
      BY <1>4 DEF Close, Drop
    <3> QED BY <3>1, HandleTypeKept
  <2>6. ActorTypes' BY <1>1, <1>4, <2>5, WakeType DEF Close, Drop, ActorTypes
  <2> QED BY <2>2, <2>3, <2>4, <2>6, NotifyType
<1>5. ASSUME NEW c \in Conn, CloseReturns(c) PROVE TypeOK'
  <2>1. handle' \in HandleType BY <1>5, HandleTypeKept DEF CloseReturns
  <2>2. ActorTypes' BY <1>1, <1>5, <2>1 DEF CloseReturns, ActorTypes
  <2> QED BY <1>1, <1>5, <2>2, QuietType DEF CloseReturns
<1>6. ASSUME NEW c \in Conn, StreamWork(c) PROVE TypeOK'
  <2>1. conns' = Each(conns, c, WorkK(conns[c])) BY <1>1, <1>6 DEF StreamWork, Each, WorkK
  <2>2. conns' \in [Conn -> Connection] /\ Live(conns') = Live(conns)
    BY <1>1, <2>1, RecordTypes, WhereKept, EachType
  <2>3. ActorTypes' BY <1>1, <1>6, WakeType DEF StreamWork, ActorTypes
  <2> QED BY <1>1, <1>6, <2>2, <2>3, QuietType DEF StreamWork
<1> QED BY <1>2, <1>3, <1>4, <1>5, <1>6 DEF ProgramStep

\* What the end of run() makes of each connection.
LEMMA EndedConns ==
    ASSUME TypeOK, SenderInv, ContextEnds
    PROVE /\ conns' \in [Conn -> Connection] /\ Live(conns') = {}
          /\ \A c \in Conn :
                 conns'[c] = IF c \in Live(conns) THEN GoneK(conns[c], c \notin ToSet(sender.rest))
                             ELSE conns[c]
<1>1. conns \in [Conn -> Connection] BY TypeParts
<1>2. ASSUME NEW c \in Conn, c \in Live(conns)
      PROVE /\ conns'[c] = GoneK(conns[c], c \notin ToSet(sender.rest))
            /\ GoneK(conns[c], c \notin ToSet(sender.rest)) \in Connection
            /\ GoneK(conns[c], c \notin ToSet(sender.rest)).where = "gone"
  <2>1. Gone(conns, Live(conns))[c] = [conns[c] EXCEPT !.where = "gone"] BY <1>2 DEF Gone
  <2>2. conns'[c] = [[conns[c] EXCEPT !.where = "gone"] EXCEPT !.untold = @ \/ c \in ToSet(sender.rest)]
    BY <2>1 DEF ContextEnds
  <2>3. conns[c] \in Connection BY <1>1
  <2>4. PICK b \in BOOLEAN : b = (conns[c].untold \/ c \in ToSet(sender.rest)) OBVIOUS
  <2>5. GoneK(conns[c], c \notin ToSet(sender.rest)) = [conns[c] EXCEPT !.where = "gone", !.untold = b]
    BY <2>4 DEF GoneK
  <2>6. conns'[c] = [conns[c] EXCEPT !.where = "gone", !.untold = b]
    BY <2>2, <2>3, <2>4 DEF Connection
  <2> QED BY <2>3, <2>5, <2>6 DEF Connection
<1>3. ASSUME NEW c \in Conn, c \notin Live(conns)
      PROVE conns'[c] = conns[c]
  <2>1. Gone(conns, Live(conns))[c] = [conns[c] EXCEPT !.where = conns[c].where] BY <1>3 DEF Gone
  <2>2. conns[c] \in Connection BY <1>1
  <2>3. Gone(conns, Live(conns))[c] = conns[c] BY <2>1, <2>2 DEF Connection
  <2>4. c \notin ToSet(sender.rest) BY <1>3 DEF SenderInv
  <2>5. conns'[c] = [conns[c] EXCEPT !.untold = conns[c].untold]
    <3>1. PICK D : D = Gone(conns, Live(conns)) OBVIOUS
    <3>2. conns' = [d \in Conn |-> [D[d] EXCEPT !.untold = @ \/ d \in ToSet(sender.rest)]]
      BY <3>1 DEF ContextEnds
    <3>3. D[c] = conns[c] /\ conns[c].untold \in BOOLEAN BY <2>2, <2>3, <3>1 DEF Connection
    <3>4. (conns[c].untold \/ c \in ToSet(sender.rest)) = conns[c].untold BY <2>4, <3>3
    <3> QED BY <3>2, <3>3, <3>4
  <2> QED BY <2>2, <2>5 DEF Connection
<1>4. conns' = [c \in Conn |-> conns'[c]] BY DEF ContextEnds
<1>5. \A c \in Conn : conns'[c] \in Connection BY <1>1, <1>2, <1>3
<1>6. conns' \in [Conn -> Connection] BY <1>4, <1>5
<1>7. Live(conns') = {} BY <1>2, <1>3 DEF Live
<1> QED BY <1>2, <1>3, <1>6, <1>7

LEMMA RunEndsType == TypeOK /\ SenderInv /\ RunEnds => TypeOK'
<1> SUFFICES ASSUME TypeOK, SenderInv, RunEnds PROVE TypeOK'
  OBVIOUS
<1>1. conns \in [Conn -> Connection] /\ incoming \in Seq(Conn) /\ ActorTypes BY TypeParts
<1>2. CASE ClosingStarts
  <2>1. PICK C : C = IF run.stopped THEN conns ELSE Stopped(conns) OBVIOUS
  <2>2. C \in [Conn -> Connection] /\ Live(C) = Live(conns) BY <1>1, <2>1, HelperTypes, LiveAfter
  <2>3. Cardinality(Live(C)) <= plan.room BY <2>2, RoomKept
  <2>4. Notify(C) /\ sender' = [pc |-> "turn", rest |-> SetToSeq(Live(C))]
    BY <1>2, <2>1 DEF ClosingStarts
  <2>5. SetToSeq(Live(C)) \in Seq(Conn) BY LiveFinite, CopyType
  <2>6. sender' \in SenderType BY <2>4, <2>5 DEF SenderType
  <2>7. run' \in RunType BY <1>1, <1>2 DEF ClosingStarts, ActorTypes, RunType
  <2>8. ActorTypes' BY <1>1, <1>2, <2>6, <2>7 DEF ClosingStarts, ActorTypes
  <2> QED BY <1>2, <2>2, <2>3, <2>4, <2>8, NotifyType DEF ClosingStarts
<1>3. CASE ContextEnds
  <2>1. conns' \in [Conn -> Connection] /\ Live(conns') \subseteq Live(conns)
    BY <1>3, EndedConns
  <2>2. incoming' \in Seq(Conn) /\ sender' \in SenderType
    <3>1. << >> \in Seq(Conn) OBVIOUS
    <3> QED BY <1>3, <3>1 DEF ContextEnds, SenderType
  <2>3. run' \in RunType BY <1>1, <1>3 DEF ContextEnds, ActorTypes, RunType
  <2>4. ActorTypes' BY <1>1, <1>3, <2>2, <2>3 DEF ContextEnds, ActorTypes
  <2> QED BY <1>3, <2>1, <2>2, <2>4, QuietType DEF ContextEnds
<1> QED BY <1>2, <1>3 DEF RunEnds

LEMMA NextType == TypeOK /\ SenderInv /\ RaceInv /\ [Next]_vars => TypeOK'
<1> SUFFICES ASSUME TypeOK, SenderInv, RaceInv, [Next]_vars PROVE TypeOK'
  OBVIOUS
<1>1. CASE UNCHANGED vars BY <1>1 DEF vars, TypeOK, Live
<1> QED BY <1>1, PeerType, SenderNextType, FailType, TimerType, RaceStepType, ProgramType, RunEndsType
        DEF Next
-----------------------------------------------------------------------------
(* ConnsInv is kept. *)

\* How one connection moves.
LEMMA ConnMoves ==
    ASSUME TypeOK, NEW k \in Connection, ConnOK(k)
    PROVE /\ k.where = "none" => ConnOK(MadeK(k))
          /\ \A e : k.where = "live" => ConnOK([k EXCEPT !.dirty = TRUE, !.expiry = e])
          /\ k.where = "live" => ConnOK([k EXCEPT !.handshake = TRUE])
          /\ \A why : k.where = "live" => ConnOK(EndedK(k, why))
          /\ (k.where = "live" /\ k.error) => ConnOK([k EXCEPT !.closeRequested = TRUE])
          /\ ConnOK(ClosedK(k)) /\ ConnOK(StoppedK(k))
          /\ k.error => ConnOK([k EXCEPT !.where = "gone"])
          /\ \A e : (k.where = "live" /\ ~k.error) =>
                        ConnOK([k EXCEPT !.dirty = FALSE, !.wrote = TRUE, !.expiry = e])
          /\ (k.where = "live" /\ ~(k.closeRequested /\ k.wrote)) =>
                 ConnOK([k EXCEPT !.closeRequested = FALSE])
          /\ (k.where = "live" /\ k.error) =>
                 ConnOK([k EXCEPT !.closeRequested = FALSE, !.closeSent = TRUE, !.retire = TRUE])
          /\ k.where = "live" => ConnOK(FailedK(k)) /\ ConnOK(UntoldK(k)) /\ ConnOK(WorkK(k))
          /\ \A b : (k.where = "live" /\ k.error) => ConnOK(GoneK(k, b))
<1>1. k.where = "none" => ConnOK(MadeK(k)) BY DEF ConnOK, Owing, MadeK, Fresh, Connection
<1>2. \A e : k.where = "live" => ConnOK([k EXCEPT !.dirty = TRUE, !.expiry = e])
  BY DEF ConnOK, Owing, Connection
<1>3. k.where = "live" => ConnOK([k EXCEPT !.handshake = TRUE]) BY DEF ConnOK, Owing, Connection
<1>4. \A why : k.where = "live" => ConnOK(EndedK(k, why)) BY DEF ConnOK, Owing, EndedK, Connection
<1>5. (k.where = "live" /\ k.error) => ConnOK([k EXCEPT !.closeRequested = TRUE])
  BY DEF ConnOK, Owing, Connection
<1>6. ConnOK(ClosedK(k)) BY DEF ConnOK, Owing, ClosedK, CloseK, Connection
<1>7. ConnOK(StoppedK(k)) BY DEF ConnOK, Owing, StoppedK, StopK, Connection
<1>8. k.error => ConnOK([k EXCEPT !.where = "gone"]) BY DEF ConnOK, Owing, Connection
<1>9. \A e : (k.where = "live" /\ ~k.error) =>
                 ConnOK([k EXCEPT !.dirty = FALSE, !.wrote = TRUE, !.expiry = e])
  BY DEF ConnOK, Owing, Connection
<1>10. (k.where = "live" /\ ~(k.closeRequested /\ k.wrote)) => ConnOK([k EXCEPT !.closeRequested = FALSE])
  BY DEF ConnOK, Owing, Connection
<1>11. (k.where = "live" /\ k.error) =>
           ConnOK([k EXCEPT !.closeRequested = FALSE, !.closeSent = TRUE, !.retire = TRUE])
  BY DEF ConnOK, Owing, Connection
<1>12. k.where = "live" => ConnOK(FailedK(k)) /\ ConnOK(UntoldK(k)) /\ ConnOK(WorkK(k))
  BY DEF ConnOK, Owing, FailedK, EndedK, UntoldK, WorkK, Connection
<1>13. \A b : (k.where = "live" /\ k.error) => ConnOK(GoneK(k, b))
  BY DEF ConnOK, Owing, GoneK, Connection
<1> QED BY <1>1, <1>2, <1>3, <1>4, <1>5, <1>6, <1>7, <1>8, <1>9, <1>10, <1>11, <1>12, <1>13
\* notify() changes nothing that ConnOK speaks of.
LEMMA NotifyConnOK ==
    ASSUME NEW C \in [Conn -> Connection], Notify(C), \A c \in Conn : ConnOK(C[c])
    PROVE ConnsInv'
<1>1. ASSUME NEW c \in Conn PROVE ConnOK(conns'[c])
  <2>1. PICK b : b = (C[c].queued \/ c \in Offered(C)) OBVIOUS
  <2>2. conns'[c] = [C[c] EXCEPT !.queued = b] BY <2>1, NotifyConns
  <2>3. C[c] \in Connection /\ ConnOK(C[c]) OBVIOUS
  <2>4. CASE C[c].where = "none"
    <3>1. C[c] = Fresh BY <2>3, <2>4 DEF ConnOK
    <3>2. c \notin Offered(C) BY <2>4 DEF Offered, Live
    <3>3. C[c].queued = FALSE BY <3>1 DEF Fresh
    <3>4. b = FALSE BY <2>1, <3>2, <3>3
    <3>5. \A k \in Connection : k.queued = FALSE => [k EXCEPT !.queued = FALSE] = k BY DEF Connection
    <3> QED BY <2>2, <2>3, <3>3, <3>4, <3>5
  <2>5. CASE C[c].where # "none"
    <3>1. \A k \in Connection : (ConnOK(k) /\ k.where # "none") => ConnOK([k EXCEPT !.queued = b])
      BY DEF ConnOK, Owing, Connection
    <3> QED BY <2>2, <2>3, <2>5, <3>1
  <2> QED BY <2>4, <2>5
<1> QED BY <1>1 DEF ConnsInv

LEMMA ReceivedConns ==
    ASSUME TypeOK, NEW c \in Conn, NEW C \in [Conn -> Connection], Received(C, c),
           \A d \in Conn : ConnOK(C[d]), C[c].where = "live"
    PROVE ConnsInv'
<1>1. PICK e \in 1..plan.horizon : Notify(Touched(C, c, e)) BY DEF Received, Touched
<1>2. PICK D : D = Touched(C, c, e) OBVIOUS
<1>3. D \in [Conn -> Connection] BY <1>2, TouchedType
<1>4. ASSUME NEW d \in Conn PROVE ConnOK(D[d])
  <2>1. D = [C EXCEPT ![c] = [C[c] EXCEPT !.dirty = TRUE, !.expiry = e]] BY <1>2 DEF Touched
  <2>2. ConnOK([C[c] EXCEPT !.dirty = TRUE, !.expiry = e]) BY ConnMoves
  <2> QED BY <2>1, <2>2
<1> QED BY <1>1, <1>2, <1>3, <1>4, NotifyConnOK

LEMMA PeerConns == TypeOK /\ ConnsInv /\ PeerStep => ConnsInv'
<1> SUFFICES ASSUME TypeOK, ConnsInv, PeerStep PROVE ConnsInv'
  OBVIOUS
<1>1. conns \in [Conn -> Connection] /\ \A d \in Conn : ConnOK(conns[d]) BY TypeParts DEF ConnsInv
<1>0. CASE ReceiveOther BY <1>0, <1>1, NotifyConnOK DEF ReceiveOther
<1> SUFFICES ASSUME NEW c \in Conn,
                    \/ ReceiveInitial(c) \/ Handshake(c) \/ ReceivePacket(c)
                    \/ ReceiveEnd(c) \/ ReceiveLate(c)
             PROVE ConnsInv'
  BY <1>0 DEF PeerStep
<1>2. CASE ReceiveInitial(c)
  <2>1. Made(conns, c) = [conns EXCEPT ![c] = MadeK(conns[c])] BY <1>1, MadeIs
  <2>2. ConnOK(MadeK(conns[c])) BY <1>1, <1>2, ConnMoves DEF ReceiveInitial
  <2>3. PICK C : C = Made(conns, c) OBVIOUS
  <2>4. C \in [Conn -> Connection] BY <1>1, <2>3, HelperTypes
  <2>5. \A d \in Conn : ConnOK(C[d]) BY <1>1, <2>1, <2>2, <2>3
  <2>6. C[c].where = "live" BY <1>1, <2>1, <2>3 DEF MadeK, Connection
  <2> QED BY <1>2, <2>3, <2>4, <2>5, <2>6, ReceivedConns DEF ReceiveInitial
<1>3. CASE Handshake(c)
  <2>1. PICK C : C = Shaken(conns, c) OBVIOUS
  <2>2. C = [conns EXCEPT ![c] = [conns[c] EXCEPT !.handshake = TRUE]] BY <2>1 DEF Shaken
  <2>3. conns[c].where = "live" BY <1>3 DEF Handshake, Reads
  <2>4. ConnOK([conns[c] EXCEPT !.handshake = TRUE]) BY <1>1, <2>3, ConnMoves
  <2>5. C \in [Conn -> Connection] BY <1>1, <2>1, ShakenType
  <2>6. \A d \in Conn : ConnOK(C[d]) BY <1>1, <2>2, <2>4
  <2>7. C[c].where = "live" BY <1>1, <2>2, <2>3 DEF Connection
  <2>8. Received(C, c) BY <1>3, <2>1 DEF Handshake, Shaken
  <2> QED BY <2>5, <2>6, <2>7, <2>8, ReceivedConns
<1>4. CASE ReceiveEnd(c)
  <2>1. PICK why : Received(Ended(conns, c, why), c) BY <1>4 DEF ReceiveEnd
  <2>2. PICK C : C = Ended(conns, c, why) OBVIOUS
  <2>3. C = [conns EXCEPT ![c] = EndedK(conns[c], why)] BY <1>1, <2>2, EndedIs
  <2>4. conns[c].where = "live" BY <1>4 DEF ReceiveEnd, Reads
  <2>5. ConnOK(EndedK(conns[c], why)) BY <1>1, <2>4, ConnMoves
  <2>6. C \in [Conn -> Connection] BY <1>1, <2>2, HelperTypes
  <2>7. \A d \in Conn : ConnOK(C[d]) BY <1>1, <2>3, <2>5
  <2>8. C[c].where = "live" BY <1>1, <2>3, <2>4 DEF EndedK, Connection
  <2> QED BY <2>1, <2>2, <2>6, <2>7, <2>8, ReceivedConns
<1>5. CASE ReceiveLate(c)
  <2>1. PICK C : C = Requested(conns, c, TRUE) OBVIOUS
  <2>2. C = [conns EXCEPT ![c] = [conns[c] EXCEPT !.closeRequested = TRUE]] BY <2>1 DEF Requested
  <2>3. conns[c].where = "live" /\ conns[c].closeSent BY <1>5 DEF ReceiveLate
  <2>4. conns[c].error BY <1>1, <2>3 DEF ConnOK
  <2>5. ConnOK([conns[c] EXCEPT !.closeRequested = TRUE]) BY <1>1, <2>3, <2>4, ConnMoves
  <2>6. C \in [Conn -> Connection] BY <1>1, <2>1, RequestedType
  <2>7. \A d \in Conn : ConnOK(C[d]) BY <1>1, <2>2, <2>5
  <2>8. Notify(C) BY <1>5, <2>1 DEF ReceiveLate, Requested
  <2> QED BY <2>6, <2>7, <2>8, NotifyConnOK
<1>6. CASE ReceivePacket(c)
  <2>1. conns[c].where = "live" BY <1>6 DEF ReceivePacket, Reads
  <2> QED BY <1>1, <1>6, <2>1, ReceivedConns DEF ReceivePacket
<1> QED BY <1>2, <1>3, <1>4, <1>5, <1>6

\* What erases connections erases those that ended.
LEMMA GoneConns ==
    ASSUME TypeOK, ConnsInv, NEW S, \A c \in S \cap Conn : conns[c].error, conns' = Gone(conns, S)
    PROVE ConnsInv'
<1>1. conns \in [Conn -> Connection] /\ \A d \in Conn : ConnOK(conns[d]) BY TypeParts DEF ConnsInv
<1>2. ASSUME NEW c \in Conn PROVE ConnOK(conns'[c])
  <2>1. CASE c \in S
    <3>1. conns'[c] = [conns[c] EXCEPT !.where = "gone"] BY <2>1 DEF Gone
    <3>2. ConnOK([conns[c] EXCEPT !.where = "gone"]) BY <1>1, <2>1, ConnMoves
    <3> QED BY <3>1, <3>2
  <2>2. CASE c \notin S
    <3>1. conns'[c] = [conns[c] EXCEPT !.where = conns[c].where] BY <2>2 DEF Gone
    <3>2. [conns[c] EXCEPT !.where = conns[c].where] = conns[c] BY <1>1 DEF Connection
    <3> QED BY <1>1, <3>1, <3>2
  <2> QED BY <2>1, <2>2
<1> QED BY <1>2 DEF ConnsInv

LEMMA SenderConns == TypeOK /\ ConnsInv /\ SenderInv /\ SenderStep => ConnsInv'
<1> SUFFICES ASSUME TypeOK, ConnsInv, SenderInv, SenderStep PROVE ConnsInv'
  OBVIOUS
<1>1. conns \in [Conn -> Connection] /\ \A d \in Conn : ConnOK(conns[d]) BY TypeParts DEF ConnsInv
<1> DEFINE h == Head(sender.rest)
<1>2. sender.rest # << >> => h \in Conn /\ conns[h].where = "live"
  <2>1. ASSUME sender.rest # << >> PROVE h \in Conn /\ h \in ToSet(sender.rest) BY <2>1, ServedType
  <2> QED BY <2>1 DEF SenderInv, Live
<1> HIDE DEF h
<1>3. CASE SenderTurn
  <2>1. PICK S \in SUBSET {c \in Live(conns) : conns[c].retire} : conns' = Gone(conns, S)
    BY <1>3 DEF SenderTurn
  <2>2. \A c \in S \cap Conn : conns[c].error BY <1>1 DEF ConnOK
  <2> QED BY <2>1, <2>2, GoneConns
<1>4. CASE SendNothing
  <2>1. PICK b : b = (conns[h].closeRequested /\ ~CloseDue(h)) OBVIOUS
  <2>2. h \in Conn /\ conns[h].where = "live" BY <1>2, <1>4 DEF SendNothing, Turns
  <2>3. conns' = [conns EXCEPT ![h] = [conns[h] EXCEPT !.closeRequested = b]]
    BY <1>4, <2>1 DEF SendNothing, h
  <2>4. CASE b
    <3>1. b = conns[h].closeRequested BY <1>1, <2>1, <2>2, <2>4 DEF Connection
    <3>2. [conns[h] EXCEPT !.closeRequested = conns[h].closeRequested] = conns[h]
      BY <1>1, <2>2 DEF Connection
    <3>3. ConnOK([conns[h] EXCEPT !.closeRequested = b]) BY <1>1, <2>2, <3>1, <3>2
    <3> QED BY <1>1, <2>3, <3>3 DEF ConnsInv
  <2>5. CASE ~b
    <3>1. ~(conns[h].closeRequested /\ conns[h].wrote) BY <1>4, <2>1, <2>5 DEF SendNothing, h
    <3>2. ConnOK([conns[h] EXCEPT !.closeRequested = FALSE]) BY <1>1, <2>2, <3>1, ConnMoves
    <3>3. b = FALSE BY <2>1, <2>5
    <3> QED BY <1>1, <2>3, <3>2, <3>3 DEF ConnsInv
  <2> QED BY <2>4, <2>5
<1>5. CASE SendData
  <2>1. h \in Conn /\ conns[h].where = "live" BY <1>2, <1>5 DEF SendData, Turns
  <2>2. PICK e : conns' = Sent(conns, h, e) BY <1>5 DEF SendData, Sent, h
  <2>3. conns' = [conns EXCEPT ![h] = [conns[h] EXCEPT !.dirty = FALSE, !.wrote = TRUE, !.expiry = e]]
    BY <2>2 DEF Sent
  <2>4. ~conns[h].error BY <1>5 DEF SendData, h
  <2>5. ConnOK([conns[h] EXCEPT !.dirty = FALSE, !.wrote = TRUE, !.expiry = e])
    BY <1>1, <2>1, <2>4, ConnMoves
  <2> QED BY <1>1, <2>3, <2>5 DEF ConnsInv
<1>6. CASE CloseSent
  <2>1. sender.rest # << >> /\ conns[h].error BY <1>6 DEF CloseSent, SenderInv, h
  <2>2. h \in Conn /\ conns[h].where = "live" BY <1>2, <2>1
  <2>3. conns' = Told(conns, h) BY <1>6 DEF CloseSent, Told, h
  <2>4. conns' = [conns EXCEPT ![h] = [conns[h] EXCEPT !.closeRequested = FALSE, !.closeSent = TRUE,
                                                       !.retire = TRUE]]
    BY <2>3 DEF Told
  <2>5. ConnOK([conns[h] EXCEPT !.closeRequested = FALSE, !.closeSent = TRUE, !.retire = TRUE])
    BY <1>1, <2>1, <2>2, ConnMoves
  <2> QED BY <1>1, <2>4, <2>5 DEF ConnsInv
<1>7. CASE TurnEnds BY <1>1, <1>7, NotifyConnOK DEF TurnEnds
<1>8. CASE SendClose \/ DataSent \/ SenderStops
  BY <1>8 DEF SendClose, DataSent, SenderStops, ConnsInv
<1> QED BY <1>3, <1>4, <1>5, <1>6, <1>7, <1>8 DEF SenderStep

\* Closing or stopping any of them keeps ConnOK.
LEMMA ClosedConns ==
    ASSUME TypeOK, ConnsInv
    PROVE /\ \A c \in Conn : /\ Closed(conns, c) \in [Conn -> Connection]
                             /\ \A d \in Conn : ConnOK(Closed(conns, c)[d])
          /\ \A S : /\ ClosedAll(conns, S) \in [Conn -> Connection]
                    /\ \A d \in Conn : ConnOK(ClosedAll(conns, S)[d])
          /\ Stopped(conns) \in [Conn -> Connection] /\ \A d \in Conn : ConnOK(Stopped(conns)[d])
<1>1. conns \in [Conn -> Connection] /\ \A d \in Conn : ConnOK(conns[d]) BY TypeParts DEF ConnsInv
<1>2. \A d \in Conn : ConnOK(ClosedK(conns[d])) /\ ConnOK(StoppedK(conns[d])) BY <1>1, ConnMoves
<1>3. ASSUME NEW c \in Conn, NEW d \in Conn PROVE ConnOK(Closed(conns, c)[d])
  <2>1. Closed(conns, c) = [conns EXCEPT ![c] = ClosedK(conns[c])] BY <1>1, ClosedIs
  <2> QED BY <1>1, <1>2, <2>1
<1>4. ASSUME NEW S, NEW d \in Conn PROVE ConnOK(ClosedAll(conns, S)[d])
  <2>1. ClosedAll(conns, S) = [c \in Conn |-> IF c \in S THEN ClosedK(conns[c]) ELSE conns[c]]
    BY <1>1, ClosedAllIs
  <2> QED BY <1>1, <1>2, <2>1
<1>5. \A d \in Conn : ConnOK(Stopped(conns)[d]) BY <1>2, StoppedIs
<1> QED BY <1>1, <1>3, <1>4, <1>5, HelperTypes

LEMMA SpawnConns ==
    ASSUME TypeOK, ConnsInv, RaceInv, plan.role = "client", Untried, NEW done, Spawn(done)
    PROVE ConnsInv'
<1> DEFINE c == plan.candidates[race.next]
<1>1. conns \in [Conn -> Connection] /\ \A d \in Conn : ConnOK(conns[d]) BY TypeParts DEF ConnsInv
<1>2. c \in Conn /\ race.next \in 1 .. Len(plan.candidates) BY CandidateType
<1>3. conns[c].where = "none"
  <2>1. race.next \in race.next .. Len(plan.candidates) BY <1>2
  <2> QED BY <2>1 DEF RaceInv
<1>4. conns' = conns \/ conns' = Made(conns, c) BY DEF Spawn
<1> HIDE DEF c
<1>5. Made(conns, c) = [conns EXCEPT ![c] = MadeK(conns[c])] BY <1>1, <1>2, MadeIs
<1>6. ConnOK(MadeK(conns[c])) BY <1>1, <1>2, <1>3, ConnMoves
<1> QED BY <1>1, <1>4, <1>5, <1>6 DEF ConnsInv

\* Only a client races.
LEMMA Racing ==
    ASSUME TypeOK, AcceptInv, race.pc = "trying" \/ \E c \in Conn : handle[c] = "connecting"
    PROVE plan.role = "client"
BY PlanType DEF AcceptInv

LEMMA RestConns ==
    TypeOK /\ ConnsInv /\ SenderInv /\ AcceptInv /\ RaceInv /\ RunInv
        /\ (Faults \/ TimerStep \/ RaceStep \/ ProgramStep \/ RunEnds) => ConnsInv'
<1> SUFFICES ASSUME TypeOK, ConnsInv, SenderInv, AcceptInv, RaceInv, RunInv,
                    Faults \/ TimerStep \/ RaceStep \/ ProgramStep \/ RunEnds
             PROVE ConnsInv'
  OBVIOUS
<1>1. conns \in [Conn -> Connection] /\ \A d \in Conn : ConnOK(conns[d]) BY TypeParts DEF ConnsInv
<1>2. CASE Expires
  <2>1. PICK c, why : c = Head(sender.rest) /\ conns' = Ended(conns, c, why) BY <1>2 DEF Expires
  <2>2. c \in Conn /\ conns[c].where = "live"
    <3>1. c \in Conn /\ c \in ToSet(sender.rest) BY <1>2, <2>1, ServedType DEF Expires, Turns
    <3> QED BY <3>1 DEF SenderInv, Live
  <2>3. Ended(conns, c, why) = [conns EXCEPT ![c] = EndedK(conns[c], why)] BY <1>1, <2>2, EndedIs
  <2>4. ConnOK(EndedK(conns[c], why)) BY <1>1, <2>2, ConnMoves
  <2>5. conns' = [conns EXCEPT ![c] = EndedK(conns[c], why)] BY <2>1, <2>3, Zenon
  <2> QED BY <1>1, <2>4, <2>5 DEF ConnsInv
<1> DEFINE h == Head(sender.rest)
<1>9. sender.rest # << >> => h \in Conn /\ conns[h].where = "live"
  <2>1. ASSUME sender.rest # << >> PROVE h \in Conn /\ h \in ToSet(sender.rest) BY <2>1, ServedType
  <2> QED BY <2>1 DEF SenderInv, Live
<1>10. CASE WriteFails
  <2>1. h \in Conn /\ conns[h].where = "live" BY <1>9, <1>10 DEF WriteFails, Turns
  <2>2. conns' = [Ended(conns, h, "protocol") EXCEPT ![h].failed = TRUE] BY <1>10 DEF WriteFails
  <2> HIDE DEF h
  <2>3. conns' = [conns EXCEPT ![h] = FailedK(conns[h])] BY <1>1, <2>1, <2>2, FailedIs
  <2>4. ConnOK(FailedK(conns[h])) BY <1>1, <2>1, ConnMoves
  <2> QED BY <1>1, <2>3, <2>4 DEF ConnsInv
<1>3. ASSUME NotSent, sender.rest # << >> PROVE ConnsInv'
  <2>1. CASE Working
    <3>1. Notify(conns) \/ Notify(Stopped(conns)) BY <1>3, <2>1 DEF NotSent
    <3> QED BY <1>1, <3>1, ClosedConns, NotifyConnOK
  <2>2. CASE ~Working
    <3>1. h \in Conn /\ conns[h].where = "live" BY <1>3, <1>9
    <3>2. conns' = [conns EXCEPT ![h] = UntoldK(conns[h])] BY <1>3, <2>2 DEF NotSent, UntoldK
    <3> HIDE DEF h
    <3>3. ConnOK(UntoldK(conns[h])) BY <1>1, <3>1, ConnMoves
    <3> QED BY <1>1, <3>2, <3>3 DEF ConnsInv
  <2> QED BY <2>1, <2>2
<1> HIDE DEF h
<1>4. CASE TimerStep BY <1>4 DEF TimerStep, TimerArms, TimerFires, TimerChanged, ConnsInv
<1>5. CASE RaceStep
  <2>1. CASE RaceGoesOn BY <2>1, Racing, SpawnConns DEF RaceGoesOn
  <2>2. CASE AttemptFailed
    <3>1. CASE Untried BY <2>2, <3>1, Racing, SpawnConns DEF AttemptFailed
    <3>2. CASE ~Untried BY <2>2, <3>2 DEF AttemptFailed, ConnsInv
    <3> QED BY <3>1, <3>2
  <2>3. CASE RaceWon \/ RaceCanceled
    <3>1. PICK S : Notify(ClosedAll(conns, S)) BY <2>3 DEF RaceWon, RaceCanceled, Abandon
    <3> QED BY <3>1, ClosedConns, NotifyConnOK
  <2>4. CASE \E c \in Conn : AttemptEnds(c) BY <2>4 DEF AttemptEnds, ConnsInv
  <2> QED BY <1>5, <2>1, <2>2, <2>3, <2>4 DEF RaceStep
<1>6. CASE ProgramStep
  <2>1. CASE Stop BY <2>1, ClosedConns, NotifyConnOK DEF Stop
  <2>2. CASE Accept BY <2>2 DEF Accept, ConnsInv
  <2>3. ASSUME NEW c \in Conn, Close(c) \/ Drop(c) \/ CloseReturns(c) PROVE ConnsInv'
    <3>1. CASE Close(c) \/ Drop(c)
      <4>1. Notify(Closed(conns, c)) BY <3>1 DEF Close, Drop
      <4> QED BY <4>1, ClosedConns, NotifyConnOK
    <3>2. CASE CloseReturns(c) BY <3>2 DEF CloseReturns, ConnsInv
    <3> QED BY <2>3, <3>1, <3>2
  <2>4. ASSUME NEW c \in Conn, StreamWork(c) PROVE ConnsInv'
    <3>1. conns' = [conns EXCEPT ![c] = WorkK(conns[c])] BY <2>4 DEF StreamWork, WorkK
    <3>2. ConnOK(WorkK(conns[c])) BY <1>1, <2>4, ConnMoves DEF StreamWork
    <3> QED BY <1>1, <3>1, <3>2 DEF ConnsInv
  <2> QED BY <1>6, <2>1, <2>2, <2>3, <2>4 DEF ProgramStep
<1>7. CASE ClosingStarts
  <2>1. Notify(conns) \/ Notify(Stopped(conns)) BY <1>7 DEF ClosingStarts
  <2> QED BY <1>1, <2>1, ClosedConns, NotifyConnOK
<1>8. CASE ContextEnds
  <2>1. run.stopped BY <1>8 DEF ContextEnds, RunInv, Working
  <2>2. ASSUME NEW c \in Conn PROVE ConnOK(conns'[c])
    <3>1. CASE c \in Live(conns)
      <4>1. conns'[c] = GoneK(conns[c], c \notin ToSet(sender.rest)) BY <1>8, <3>1, EndedConns
      <4>2. conns[c].error /\ conns[c].where = "live" BY <2>1, <3>1 DEF RunInv, Live
      <4>3. ConnOK(GoneK(conns[c], c \notin ToSet(sender.rest))) BY <1>1, <4>2, ConnMoves
      <4> QED BY <4>1, <4>3
    <3>2. CASE c \notin Live(conns) BY <1>1, <1>8, <3>2, EndedConns
    <3> QED BY <3>1, <3>2
  <2> QED BY <2>2 DEF ConnsInv
<1> QED BY <1>2, <1>3, <1>4, <1>5, <1>6, <1>7, <1>8, <1>10, Failing DEF RunEnds, Faults

LEMMA NextConns == IInv /\ [Next]_vars => ConnsInv'
<1> SUFFICES ASSUME IInv, [Next]_vars PROVE ConnsInv'
  OBVIOUS
<1>1. CASE UNCHANGED vars BY <1>1 DEF vars, IInv, ConnsInv
<1> QED BY <1>1, PeerConns, SenderConns, RestConns DEF Next, IInv
-----------------------------------------------------------------------------
(* The sender, the timer and run(): ActorInv is kept. *)

ActorInv == RunInv /\ SenderInv /\ ServeInv /\ TimerInv /\ PassInv

\* Two states of a connection that only accept() tells apart.
Same(k, l) ==
    /\ l.where = k.where /\ l.error = k.error /\ l.dirty = k.dirty /\ l.wrote = k.wrote
    /\ l.closeRequested = k.closeRequested /\ l.closeSent = k.closeSent
    /\ l.draining = k.draining /\ l.expiry = k.expiry /\ l.gaveUp = k.gaveUp
    /\ l.healthy = k.healthy /\ l.broken = k.broken /\ l.failed = k.failed
    /\ l.untold = k.untold

LEMMA NotifySame ==
    ASSUME NEW C \in [Conn -> Connection], Notify(C), NEW c \in Conn
    PROVE Same(C[c], conns'[c]) /\ conns'[c].handshake = C[c].handshake
<1>1. PICK b : conns'[c] = [C[c] EXCEPT !.queued = b] BY NotifyConns
<1>2. C[c] \in Connection OBVIOUS
<1> QED BY <1>1, <1>2 DEF Same, Connection

LEMMA SameLive ==
    ASSUME NEW C, NEW D, \A c \in Conn : Same(C[c], D[c])
    PROVE Live(D) = Live(C)
BY DEF Live, Same

\* A step that leaves the actors alone keeps their invariant.
LEMMA QuietActors ==
    ASSUME TypeOK, ActorInv, \A c \in Conn : Same(conns[c], conns'[c]),
           UNCHANGED <<sender, timer, sync, run>>
    PROVE ActorInv'
<1>1. Live(conns') = Live(conns) BY SameLive
<1>2. Live(conns) \subseteq Conn BY LiveFinite
<1>3. RunInv' BY <1>1, <1>2 DEF ActorInv, RunInv, Same, Working
<1>4. SenderInv'
  <2>1. sender.rest # << >> => Head(sender.rest) \in Conn BY ServedType
  <2> QED BY <1>1, <2>1 DEF ActorInv, SenderInv, Same
<1>5. ServeInv'
  <2>1. sender.rest # << >> => Head(sender.rest) \in Conn BY ServedType
  <2>2. sender.pc = "data" => sender.rest # << >> BY DEF ActorInv, SenderInv
  <2>3. \A c \in Conn : Served(conns[c]) => Served(conns'[c]) BY DEF Served, Same
  <2> QED BY <1>1, <1>2, <2>1, <2>2, <2>3 DEF ActorInv, ServeInv, Working
<1>6. TimerInv' BY <1>1, <1>2 DEF ActorInv, TimerInv, TimerCovers, Sleeps, Working, Same
<1>7. PassInv'
  <2>1. \A c \in Conn : Owing(conns'[c]) => Owing(conns[c]) BY DEF Owing, Same
  <2>2. \A c \in Conn : (conns[c].closeSent => conns'[c].closeSent)
                      /\ (conns[c].untold => conns'[c].untold)
    BY DEF Same
  <2>3. PeerTold' BY DEF ActorInv, PassInv, PeerTold, Same
  <2>4. PassInv /\ run' = run /\ sender' = sender BY DEF ActorInv
  <2>5. ASSUME run.pc = "closing", NEW c \in Live(conns), Owing(conns'[c])
        PROVE conns'[c].closeSent \/ conns'[c].untold \/ c \in ToSet(sender.rest)
    <3>1. c \in Conn BY <1>2
    <3>2. conns[c].closeSent \/ conns[c].untold \/ c \in ToSet(sender.rest)
      BY <2>1, <2>4, <2>5, <3>1 DEF PassInv
    <3> QED BY <2>2, <3>1, <3>2
  <2> QED BY <1>1, <2>3, <2>4, <2>5 DEF PassInv
<1> QED BY <1>3, <1>4, <1>5, <1>6, <1>7 DEF ActorInv

\* A step of a peer or of the program that wakes the sender: it moves no connection of a
\* stopped context and none that is gone, erases none, and leaves no healthy one if it stops.
Wakes ==
    /\ \A c \in Conn :
           /\ (run.stopped \/ conns[c].where = "gone") => Same(conns[c], conns'[c])
           /\ conns[c].error => conns'[c].error
           /\ conns[c].where = "live" => conns'[c].where = "live"
           /\ conns'[c].where = "gone" => conns[c].where = "gone"
           /\ (run'.stopped /\ ~run.stopped /\ conns'[c].where = "live") => conns'[c].error
    /\ sync' = Wake(sync)
    /\ UNCHANGED <<sender, timer>>
    /\ run'.pc = run.pc /\ (run.stopped => run'.stopped)

LEMMA WakeActors ==
    ASSUME TypeOK, ActorInv, Wakes
    PROVE ActorInv'
<1>1. Live(conns) \subseteq Conn /\ Live(conns) \subseteq Live(conns') BY DEF Live, Wakes
<1>2. run.stopped => Live(conns') = Live(conns) BY SameLive DEF Wakes
<1>3. RunInv'
  <2>1. run'.stopped => \A c \in Live(conns') : conns'[c].error
    BY <1>1, <1>2 DEF ActorInv, RunInv, Wakes, Live
  <2>2. ~Working' => run'.stopped BY DEF ActorInv, RunInv, Wakes, Working
  <2>3. run'.pc = "closing" => sender'.pc \in {"turn", "close"} BY DEF ActorInv, RunInv, Wakes
  <2>4. run'.pc = "ended" => sender'.pc = "done" /\ Live(conns') = {}
    BY <1>2 DEF ActorInv, RunInv, Wakes, Working
  <2> QED BY <2>1, <2>2, <2>3, <2>4 DEF RunInv
<1>4. SenderInv'
  <2>1. sender.rest # << >> => Head(sender.rest) \in Conn BY ServedType
  <2> QED BY <1>1, <2>1 DEF ActorInv, SenderInv, Wakes
<1>5. sync'.wake BY WakeType DEF Wakes
<1>6. ServeInv' BY <1>5 DEF ServeInv
<1>7. TimerInv'
  <2>1. sync' = [sync EXCEPT !.wake = TRUE] /\ sync \in SyncType
    BY TypeParts DEF ActorTypes, Wakes, Wake
  <2>2. sync'.deadline = sync.deadline /\ sync'.armed = sync.armed BY <2>1 DEF SyncType
  <2>3. ~Sleeps' BY <1>5 DEF Sleeps
  <2> QED BY <2>2, <2>3 DEF ActorInv, TimerInv, TimerCovers, Wakes
<1>8. PassInv'
  <2>1. ASSUME run'.pc = "closing", NEW c \in Live(conns'), Owing(conns'[c])
        PROVE conns'[c].closeSent \/ conns'[c].untold \/ c \in ToSet(sender'.rest)
    <3>1. run.stopped /\ run.pc = "closing"
      BY <2>1 DEF ActorInv, RunInv, Wakes, Working
    <3>2. c \in Live(conns) /\ c \in Conn /\ Same(conns[c], conns'[c]) BY <1>1, <1>2, <3>1 DEF Wakes
    <3>3. Owing(conns[c]) BY <2>1, <3>2 DEF Owing, Same
    <3> QED BY <3>1, <3>2, <3>3 DEF ActorInv, PassInv, Same, Wakes
  <2>2. PeerTold'
    <3> SUFFICES ASSUME NEW c \in Conn, conns'[c].where = "gone", conns'[c].gaveUp \/ conns'[c].healthy,
                        conns'[c].wrote, ~conns'[c].broken, ~conns'[c].untold
                 PROVE conns'[c].closeSent
      BY DEF PeerTold
    <3>1. conns[c].where = "gone" /\ Same(conns[c], conns'[c]) BY DEF Wakes
    <3> QED BY <3>1 DEF ActorInv, PassInv, PeerTold, Same, Wakes
  <2> QED BY <2>1, <2>2 DEF PassInv
<1> QED BY <1>3, <1>4, <1>6, <1>7, <1>8 DEF ActorInv
\* While the sender does not sleep, its steps leave the timer's part alone.
LEMMA AwakeTimer ==
    ASSUME TimerInv, ~Sleeps', UNCHANGED timer,
           sync'.deadline = sync.deadline, sync'.armed = sync.armed
    PROVE TimerInv'
BY DEF TimerInv, TimerCovers

\* Nobody is forgotten unless a step erases it.
LEMMA NoneForgotten ==
    ASSUME PeerTold,
           \A c \in Conn : conns'[c].where = "gone" => Same(conns[c], conns'[c])
    PROVE PeerTold'
<1> SUFFICES ASSUME NEW c \in Conn, conns'[c].where = "gone", conns'[c].gaveUp \/ conns'[c].healthy,
                    conns'[c].wrote, ~conns'[c].broken, ~conns'[c].untold
             PROVE conns'[c].closeSent
  BY DEF PeerTold
<1>1. Same(conns[c], conns'[c]) OBVIOUS
<1> QED BY <1>1 DEF PeerTold, Same

LEMMA GoneFields ==
    ASSUME TypeOK, NEW S, conns' = Gone(conns, S)
    PROVE \A c \in Conn : /\ c \notin S => Same(conns[c], conns'[c])
                          /\ c \in S => conns'[c] = [conns[c] EXCEPT !.where = "gone"]
<1>1. conns \in [Conn -> Connection] BY TypeParts
<1>2. ASSUME NEW c \in Conn
      PROVE /\ c \notin S => Same(conns[c], conns'[c])
            /\ c \in S => conns'[c] = [conns[c] EXCEPT !.where = "gone"]
  <2>1. conns'[c] = [conns[c] EXCEPT !.where = IF c \in S THEN "gone" ELSE conns[c].where]
    BY DEF Gone
  <2>2. c \in S => conns'[c] = [conns[c] EXCEPT !.where = "gone"] BY <2>1
  <2>3. ASSUME c \notin S PROVE Same(conns[c], conns'[c])
    <3>1. conns'[c] = [conns[c] EXCEPT !.where = conns[c].where] BY <2>1, <2>3
    <3>2. conns[c] \in Connection BY <1>1
    <3> QED BY <3>1, <3>2 DEF Same, Connection
  <2> QED BY <2>2, <2>3
<1> QED BY <1>2

LEMMA SenderTurnActors == ASSUME TypeOK, ConnsInv, ActorInv, SenderTurn PROVE ActorInv'
<1>1. PICK S \in SUBSET {c \in Live(conns) : conns[c].retire} :
          /\ conns' = Gone(conns, S)
          /\ sender' = [pc |-> "turn", rest |-> SetToSeq(Live(conns) \ S)]
  BY DEF SenderTurn
<1>2. Live(conns') = Live(conns) \ S BY <1>1, GoneType
<1>3. ToSet(sender'.rest) = Live(conns') BY <1>1, <1>2, LiveFinite, CopyType
<1>4. run.pc = "working" /\ ~run.stopped /\ sender'.pc = "turn" /\ UNCHANGED <<run, timer>>
  BY <1>1 DEF SenderTurn, AtTop, Working
<1>5. sync'.deadline = sync.deadline /\ sync'.armed = sync.armed
  BY TypeParts DEF SenderTurn, ActorTypes, SyncType
<1>6. RunInv' BY <1>4 DEF RunInv, Working
<1>7. SenderInv' BY <1>3, <1>4 DEF SenderInv
<1>8. ServeInv' BY <1>3, <1>4 DEF ServeInv
<1>9. TimerInv'
  <2>1. ~Sleeps' BY <1>4 DEF Sleeps
  <2> QED BY <1>4, <1>5, <2>1, AwakeTimer DEF ActorInv
<1>10. PassInv'
  <2> SUFFICES ASSUME NEW c \in Conn, conns'[c].where = "gone", conns'[c].gaveUp \/ conns'[c].healthy,
                      conns'[c].wrote, ~conns'[c].broken, ~conns'[c].untold
               PROVE conns'[c].closeSent
    BY <1>4 DEF PassInv, PeerTold
  <2>1. CASE c \notin S
    <3>1. Same(conns[c], conns'[c]) BY <1>1, <2>1, GoneFields
    <3> QED BY <1>4, <3>1 DEF ActorInv, PassInv, PeerTold, Same
  <2>2. CASE c \in S
    <3>1. conns'[c] = [conns[c] EXCEPT !.where = "gone"] BY <1>1, <2>2, GoneFields
    <3>2. conns[c] \in Connection BY TypeParts
    <3>3. conns[c].broken \/ conns[c].closeSent BY <1>1, <2>2 DEF ConnsInv, ConnOK
    <3> QED BY <3>1, <3>2, <3>3 DEF Connection
  <2> QED BY <2>1, <2>2
<1> QED BY <1>6, <1>7, <1>8, <1>9, <1>10 DEF ActorInv

\* What is at the head of the sender's copy.
LEMMA HeadLive ==
    ASSUME TypeOK, SenderInv, sender.rest # << >>
    PROVE /\ Head(sender.rest) \in Live(conns) /\ Head(sender.rest) \in Conn
          /\ ToSet(sender.rest) = {Head(sender.rest)} \cup ToSet(Tail(sender.rest))
<1>1. /\ Head(sender.rest) \in ToSet(sender.rest) /\ Head(sender.rest) \in Conn
      /\ ToSet(sender.rest) = {Head(sender.rest)} \cup ToSet(Tail(sender.rest))
  BY ServedType
<1> QED BY <1>1 DEF SenderInv

LEMMA EmptyCopy == ToSet(<< >>) = {}
BY DEF ToSet

LEMMA SendCloseActors == ASSUME TypeOK, ConnsInv, ActorInv, SendClose PROVE ActorInv'
<1>1. sender' = [sender EXCEPT !.pc = "close"] /\ UNCHANGED <<conns, timer, sync, run>>
  BY DEF SendClose
<1>2. sender'.pc = "close" /\ sender'.rest = sender.rest
  BY <1>1, TypeParts DEF ActorTypes, SenderType
<1>3. sender.pc = "turn" /\ sender.rest # << >> BY DEF SendClose, Turns
<1>4. conns[Head(sender.rest)].error
  <2>1. Head(sender.rest) \in Conn BY <1>3, HeadLive DEF ActorInv
  <2>2. conns[Head(sender.rest)].closeRequested BY DEF SendClose, CloseDue
  <2> QED BY <2>1, <2>2 DEF ConnsInv, ConnOK
<1>5. RunInv' BY <1>1, <1>2, <1>3 DEF ActorInv, RunInv, Working
<1>6. SenderInv' BY <1>1, <1>2, <1>3, <1>4 DEF ActorInv, SenderInv
<1>7. ServeInv' BY <1>1, <1>2, <1>3 DEF ActorInv, ServeInv, Working
<1>8. TimerInv'
  <2>1. ~Sleeps' BY <1>2 DEF Sleeps
  <2> QED BY <1>1, <2>1, AwakeTimer DEF ActorInv
<1>9. PassInv' BY <1>1, <1>2 DEF ActorInv, PassInv, PeerTold
<1> QED BY <1>5, <1>6, <1>7, <1>8, <1>9 DEF ActorInv

LEMMA DataSentActors == ASSUME TypeOK, ConnsInv, ActorInv, DataSent PROVE ActorInv'
<1>1. sender' = [ServedNext EXCEPT !.pc = "turn"] /\ UNCHANGED <<conns, timer, sync, run>>
  BY DEF DataSent
<1>2. sender.pc = "data" /\ sender.rest # << >> BY DEF DataSent, ActorInv, SenderInv
<1>3. sender'.pc = "turn" /\ sender'.rest = Tail(sender.rest) BY <1>1, <1>2, ServedType
<1>4. ToSet(sender.rest) = {Head(sender.rest)} \cup ToSet(sender'.rest)
  BY <1>2, <1>3, HeadLive DEF ActorInv
<1>5. RunInv' BY <1>1, <1>2, <1>3 DEF ActorInv, RunInv, Working
<1>6. SenderInv' BY <1>1, <1>3, <1>4 DEF ActorInv, SenderInv
<1>7. ServeInv' BY <1>1, <1>2, <1>3, <1>4 DEF ActorInv, ServeInv, Working
<1>8. TimerInv'
  <2>1. ~Sleeps' BY <1>3 DEF Sleeps
  <2> QED BY <1>1, <2>1, AwakeTimer DEF ActorInv
<1>9. PassInv'
  <2>1. run'.pc # "closing" BY <1>1, <1>2 DEF ActorInv, RunInv
  <2> QED BY <1>1, <2>1 DEF ActorInv, PassInv, PeerTold
<1> QED BY <1>5, <1>6, <1>7, <1>8, <1>9 DEF ActorInv

LEMMA SenderStopsActors == ASSUME TypeOK, ConnsInv, ActorInv, SenderStops PROVE ActorInv'
<1>1. sender' = [sender EXCEPT !.pc = "done"] /\ UNCHANGED <<conns, timer, sync, run>>
  BY DEF SenderStops
<1>2. sender'.pc = "done" /\ sender'.rest = sender.rest
  BY <1>1, TypeParts DEF ActorTypes, SenderType
<1>3. run.pc = "working" /\ sender.pc \in {"top", "waiting"} BY DEF SenderStops, AtTop, Working
<1>4. RunInv' BY <1>1, <1>3 DEF ActorInv, RunInv, Working
<1>5. SenderInv' BY <1>1, <1>2, <1>3 DEF ActorInv, SenderInv
<1>6. ServeInv' BY <1>2 DEF ServeInv
<1>7. TimerInv'
  <2>1. ~Sleeps' BY <1>2 DEF Sleeps
  <2> QED BY <1>1, <2>1, AwakeTimer DEF ActorInv
<1>8. PassInv' BY <1>1, <1>3 DEF ActorInv, PassInv, PeerTold
<1> QED BY <1>4, <1>5, <1>6, <1>7, <1>8 DEF ActorInv

LEMMA SendNothingActors == ASSUME TypeOK, ConnsInv, ActorInv, SendNothing PROVE ActorInv'
<1> DEFINE h == Head(sender.rest)
           b == conns[h].closeRequested /\ ~CloseDue(h)
<1>1. sender.pc = "turn" /\ sender.rest # << >> BY DEF SendNothing, Turns
<1>2. h \in Live(conns) /\ h \in Conn /\ conns \in [Conn -> Connection] BY <1>1, HeadLive, TypeParts DEF ActorInv
<1>3. conns' = Requested(conns, h, b) /\ b \in BOOLEAN BY DEF SendNothing, Requested
<1>4. sender' = ServedNext /\ UNCHANGED <<timer, sync, run>> BY DEF SendNothing
<1>5. sender'.pc = "turn" /\ sender'.rest = Tail(sender.rest) BY <1>1, <1>4, ServedType
<1>6. ToSet(sender.rest) = {h} \cup ToSet(sender'.rest) BY <1>1, <1>5, HeadLive DEF ActorInv
<1>7. (CloseDue(h) /\ ~conns[h].wrote) \/ (~CloseDue(h) /\ conns[h].error) BY DEF SendNothing
<1>8. ConnOK(conns[h]) BY <1>2 DEF ConnsInv
<1> HIDE DEF h
<1>9. Live(conns') = Live(conns) BY <1>2, <1>3, RequestedType
<1>10. /\ \A c \in Conn \ {h} : conns'[c] = conns[c]
       /\ conns'[h] = [conns[h] EXCEPT !.closeRequested = b]
  BY <1>2, <1>3 DEF Requested
<1>11. /\ conns'[h].error = conns[h].error /\ conns'[h].where = conns[h].where
       /\ conns'[h].closeSent = conns[h].closeSent /\ conns'[h].closeRequested = b
       /\ conns'[h].wrote = conns[h].wrote /\ conns'[h].draining = conns[h].draining
       /\ (Owing(conns'[h]) <=> Owing(conns[h]))
  <2>1. conns[h] \in Connection BY <1>2
  <2> HIDE DEF b
  <2> QED BY <1>10, <2>1 DEF Connection, Owing
<1>12. RunInv' BY <1>1, <1>4, <1>5, <1>9, <1>10, <1>11, LiveFinite DEF ActorInv, RunInv, Working
<1>13. SenderInv' BY <1>5, <1>6, <1>9 DEF ActorInv, SenderInv
<1>14. ServeInv'
  <2>1. Served(conns'[h])
    <3>1. conns'[h].error BY <1>7, <1>8, <1>11 DEF CloseDue, ConnOK
    <3>2. b => ~(conns'[h].closeRequested /\ ~conns'[h].draining) BY <1>11 DEF CloseDue
    <3> QED BY <1>11, <3>1, <3>2 DEF Served
  <2>2. \A c \in Live(conns) : c \in ToSet(sender'.rest) \/ c = h \/ Served(conns[c])
        \/ ~(Working /\ ~sync.wake)
    BY <1>1, <1>6 DEF ActorInv, ServeInv
  <2>3. \A c \in Live(conns) : c # h => conns'[c] = conns[c] BY <1>10, LiveFinite
  <2> QED BY <1>4, <1>5, <1>9, <2>1, <2>2, <2>3 DEF ServeInv, Working
<1>15. TimerInv'
  <2>1. ~Sleeps' BY <1>5 DEF Sleeps
  <2> QED BY <1>4, <2>1, AwakeTimer DEF ActorInv
<1>16. PassInv'
  <2>1. ASSUME Owing(conns[h]) PROVE conns[h].closeSent
    <3>1. ~CloseDue(h) /\ conns[h].error BY <1>7, <2>1 DEF Owing
    <3>2. ~conns[h].closeRequested BY <1>8, <2>1, <3>1 DEF CloseDue, ConnOK, Owing
    <3>3. conns[h].where = "live" BY <1>2 DEF Live
    <3> QED BY <1>8, <2>1, <3>2, <3>3 DEF ConnOK
  <2>2. PeerTold'
    <3>1. conns'[h].where # "gone" BY <1>2, <1>11 DEF Live
    <3>2. \A c \in Conn : conns'[c].where = "gone" => Same(conns[c], conns'[c])
      BY <1>10, <3>1 DEF Same
    <3> QED BY <1>4, <3>2, NoneForgotten DEF ActorInv, PassInv
  <2>3. ASSUME run'.pc = "closing", NEW c \in Live(conns'), Owing(conns'[c])
        PROVE conns'[c].closeSent \/ conns'[c].untold \/ c \in ToSet(sender'.rest)
    <3>1. CASE c = h BY <1>11, <2>1, <2>3, <3>1
    <3>2. CASE c # h
      <4>1. c \in Conn /\ c \in Live(conns) BY <1>9, LiveFinite
      <4>2. conns'[c] = conns[c] BY <1>10, <3>2, <4>1
      <4> QED BY <1>4, <1>6, <2>3, <3>2, <4>1, <4>2 DEF ActorInv, PassInv
    <3> QED BY <3>1, <3>2
  <2> QED BY <2>2, <2>3 DEF PassInv
<1> QED BY <1>12, <1>13, <1>14, <1>15, <1>16 DEF ActorInv
LEMMA SendDataActors == ASSUME TypeOK, ConnsInv, ActorInv, SendData PROVE ActorInv'
<1> DEFINE h == Head(sender.rest)
<1>1. sender.pc = "turn" /\ sender.rest # << >> BY DEF SendData, Turns
<1>2. h \in Live(conns) /\ h \in Conn /\ conns \in [Conn -> Connection]
  BY <1>1, HeadLive, TypeParts DEF ActorInv
<1>3. PICK e \in 1..plan.horizon : conns' = Sent(conns, h, e) BY DEF SendData, Sent
<1>4. sender' = [sender EXCEPT !.pc = "data"] /\ UNCHANGED <<timer, sync, run>> BY DEF SendData
<1>5. sender'.pc = "data" /\ sender'.rest = sender.rest
  BY <1>4, TypeParts DEF ActorTypes, SenderType
<1>6. ~conns[h].error BY DEF SendData
<1>7. ConnOK(conns[h]) BY <1>2 DEF ConnsInv
<1>8. sender'.rest # << >> /\ Head(sender'.rest) = h BY <1>1, <1>5
<1> HIDE DEF h
<1>9. Live(conns') = Live(conns) BY <1>2, <1>3, SentType
<1>10. /\ \A c \in Conn \ {h} : conns'[c] = conns[c]
       /\ conns'[h] = [conns[h] EXCEPT !.dirty = FALSE, !.wrote = TRUE, !.expiry = e]
  BY <1>2, <1>3 DEF Sent
<1>11. /\ conns'[h].error = conns[h].error /\ conns'[h].where = conns[h].where
       /\ conns'[h].closeRequested = conns[h].closeRequested /\ conns'[h].dirty = FALSE
  <2>1. conns[h] \in Connection BY <1>2
  <2> QED BY <1>10, <2>1 DEF Connection
<1>12. ~run.stopped /\ run.pc = "working" BY <1>2, <1>6 DEF ActorInv, RunInv, Working
<1>13. RunInv' BY <1>4, <1>12 DEF RunInv, Working
<1>14. SenderInv' BY <1>5, <1>8, <1>9 DEF ActorInv, SenderInv
<1>15. ServeInv'
  <2>1. Served(conns'[h]) BY <1>6, <1>7, <1>11 DEF Served, ConnOK
  <2>2. \A c \in Live(conns) : c # h => conns'[c] = conns[c] BY <1>10, LiveFinite
  <2> QED BY <1>1, <1>4, <1>5, <1>8, <1>9, <2>1, <2>2 DEF ActorInv, ServeInv, Working
<1>16. TimerInv'
  <2>1. ~Sleeps' BY <1>5 DEF Sleeps
  <2> QED BY <1>4, <2>1, AwakeTimer DEF ActorInv
<1>17. PassInv'
  <2>1. conns'[h].where # "gone" BY <1>2, <1>11 DEF Live
  <2>2. \A c \in Conn : conns'[c].where = "gone" => Same(conns[c], conns'[c])
    BY <1>10, <2>1 DEF Same
  <2>3. PeerTold' BY <1>4, <2>2, NoneForgotten DEF ActorInv, PassInv
  <2> QED BY <1>4, <1>12, <2>3 DEF PassInv
<1> QED BY <1>13, <1>14, <1>15, <1>16, <1>17 DEF ActorInv

LEMMA CloseSentActors == ASSUME TypeOK, ConnsInv, ActorInv, CloseSent PROVE ActorInv'
<1> DEFINE h == Head(sender.rest)
<1>1. sender.pc = "close" /\ sender.rest # << >> /\ conns[h].error
  BY DEF CloseSent, ActorInv, SenderInv
<1>2. h \in Live(conns) /\ h \in Conn /\ conns \in [Conn -> Connection]
  BY <1>1, HeadLive, TypeParts DEF ActorInv
<1>3. conns' = Told(conns, h) BY DEF CloseSent, Told
<1>4. sender' = [ServedNext EXCEPT !.pc = "turn"] /\ UNCHANGED <<timer, sync, run>> BY DEF CloseSent
<1>5. sender'.pc = "turn" /\ sender'.rest = Tail(sender.rest) BY <1>1, <1>4, ServedType
<1>6. ToSet(sender.rest) = {h} \cup ToSet(sender'.rest) BY <1>1, <1>5, HeadLive DEF ActorInv
<1> HIDE DEF h
<1>7. Live(conns') = Live(conns) BY <1>2, <1>3, ToldType
<1>8. /\ \A c \in Conn \ {h} : conns'[c] = conns[c]
      /\ conns'[h] = [conns[h] EXCEPT !.closeRequested = FALSE, !.closeSent = TRUE, !.retire = TRUE]
  BY <1>2, <1>3 DEF Told
<1>9. /\ conns'[h].error /\ conns'[h].where = conns[h].where /\ conns'[h].closeSent
      /\ conns'[h].closeRequested = FALSE
  <2>1. conns[h] \in Connection BY <1>2
  <2> QED BY <1>1, <1>8, <2>1 DEF Connection
<1>10. RunInv' BY <1>1, <1>4, <1>5, <1>7, <1>8, <1>9, LiveFinite DEF ActorInv, RunInv, Working
<1>11. SenderInv' BY <1>5, <1>6, <1>7 DEF ActorInv, SenderInv
<1>12. ServeInv'
  <2>1. Served(conns'[h]) BY <1>9 DEF Served
  <2>2. \A c \in Live(conns) : c \in ToSet(sender'.rest) \/ c = h \/ Served(conns[c])
        \/ ~(Working /\ ~sync.wake)
    BY <1>1, <1>6 DEF ActorInv, ServeInv
  <2>3. \A c \in Live(conns) : c # h => conns'[c] = conns[c] BY <1>8, LiveFinite
  <2> QED BY <1>4, <1>5, <1>7, <2>1, <2>2, <2>3 DEF ServeInv, Working
<1>13. TimerInv'
  <2>1. ~Sleeps' BY <1>5 DEF Sleeps
  <2> QED BY <1>4, <2>1, AwakeTimer DEF ActorInv
<1>14. PassInv'
  <2>1. conns'[h].where # "gone" BY <1>2, <1>9 DEF Live
  <2>2. \A c \in Conn : conns'[c].where = "gone" => Same(conns[c], conns'[c])
    BY <1>8, <2>1 DEF Same
  <2>3. PeerTold' BY <1>4, <2>2, NoneForgotten DEF ActorInv, PassInv
  <2>4. ASSUME run'.pc = "closing", NEW c \in Live(conns'), Owing(conns'[c])
        PROVE conns'[c].closeSent \/ conns'[c].untold \/ c \in ToSet(sender'.rest)
    <3>1. CASE c = h BY <1>9, <3>1
    <3>2. CASE c # h
      <4>1. c \in Conn /\ c \in Live(conns) BY <1>7, LiveFinite
      <4>2. conns'[c] = conns[c] BY <1>8, <3>2, <4>1
      <4> QED BY <1>4, <1>6, <2>4, <3>2, <4>1, <4>2 DEF ActorInv, PassInv
    <3> QED BY <3>1, <3>2
  <2> QED BY <2>3, <2>4 DEF PassInv
<1> QED BY <1>10, <1>11, <1>12, <1>13, <1>14 DEF ActorInv

\* The turn is over: everybody was served, unless wake is set, and the deadline that is
\* published is the earliest expiry.
LEMMA TurnEndsActors == ASSUME TypeOK, ConnsInv, ActorInv, TurnEnds PROVE ActorInv'
<1>1. run.pc = "working" /\ sender.pc = "turn" /\ sender.rest = << >> /\ UNCHANGED <<timer, run>>
  BY DEF TurnEnds, Working
<1>2. conns \in [Conn -> Connection] BY TypeParts
<1>3. \A c \in Conn : Same(conns[c], conns'[c]) BY <1>2, NotifySame DEF TurnEnds
<1>4. Live(conns') = Live(conns) BY <1>3, SameLive
<1>5. sender'.rest = << >> /\ sender'.pc = IF run.stopped THEN "done" ELSE "waiting"
  BY <1>1, TypeParts DEF TurnEnds, ActorTypes, SenderType
<1>6. RunInv' BY <1>1, <1>3, <1>4, LiveFinite DEF ActorInv, RunInv, Same, Working
<1>7. SenderInv' BY <1>5, EmptyCopy DEF SenderInv
<1>8. sync'.wake = sync.wake BY TypeParts DEF TurnEnds, ActorTypes, SyncType
<1>9. ServeInv'
  <2>1. \A c \in Conn : Served(conns[c]) => Served(conns'[c]) BY <1>3 DEF Served, Same
  <2>2. ~sync.wake => \A c \in Live(conns) : Served(conns[c])
    BY <1>1, EmptyCopy DEF ActorInv, ServeInv, Working
  <2> QED BY <1>4, <1>5, <1>8, <2>1, <2>2, LiveFinite DEF ServeInv
<1>10. TimerInv'
  <2>1. CASE run.stopped
    <3>1. ~Sleeps' /\ sync' = sync BY <1>5, <2>1 DEF Sleeps, TurnEnds
    <3> QED BY <1>1, <3>1, AwakeTimer DEF ActorInv
  <2>2. CASE ~run.stopped
    <3>1. PICK due \in 1..Horizon : due = Earliest(conns) BY EarliestIs
    <3>2. sync' = [sync EXCEPT !.deadline = due,
                       !.timerChanged = @ \/ sync.armed = 0 \/ due < sync.armed]
      BY <2>2, <3>1 DEF TurnEnds
    <3>3. sync \in SyncType BY TypeParts DEF ActorTypes
    <3>4. /\ sync'.deadline = due /\ sync'.armed = sync.armed
          /\ (sync.armed = 0 \/ due < sync.armed) => sync'.timerChanged
      BY <3>2, <3>3 DEF SyncType
    <3>5. due # 0 /\ due \in Nat /\ sync.armed \in Nat BY <3>1, <3>3, PlanType DEF SyncType
    <3>6. \A c \in Live(conns') : due <= conns'[c].expiry /\ conns'[c].expiry \in Nat
      <4>1. \A c \in Conn : conns'[c].expiry = conns[c].expiry BY <1>3 DEF Same
      <4>2. \A c \in Live(conns) : due <= conns[c].expiry BY <3>1, EarliestIs
      <4>3. \A c \in Conn : conns[c].expiry \in Nat BY <1>2, PlanType DEF Connection
      <4> QED BY <1>4, <4>1, <4>2, <4>3, LiveFinite
    <3>7. CASE sync.armed = 0 \/ due < sync.armed
      BY <1>1, <3>4, <3>5, <3>6, <3>7 DEF ActorInv, TimerInv, TimerCovers
    <3>8. CASE sync.armed # 0 /\ ~(due < sync.armed)
      <4>1. sync.armed <= due BY <3>5, <3>8
      <4>2. \A c \in Live(conns') : sync.armed <= conns'[c].expiry BY <3>5, <3>6, <4>1
      <4>3. timer \in {"top", "armed", "waiting"} BY TypeParts DEF ActorTypes
      <4> QED BY <1>1, <3>4, <3>5, <3>6, <3>8, <4>2, <4>3 DEF ActorInv, TimerInv, TimerCovers
    <3> QED BY <3>7, <3>8
  <2> QED BY <2>1, <2>2
<1>11. PassInv'
  <2>1. PeerTold' BY <1>1, <1>3, NoneForgotten DEF ActorInv, PassInv
  <2> QED BY <1>1, <2>1 DEF PassInv
<1> QED BY <1>6, <1>7, <1>9, <1>10, <1>11 DEF ActorInv

LEMMA ExpiresActors == ASSUME TypeOK, ConnsInv, ActorInv, Expires PROVE ActorInv'
<1>1. PICK h, why : h = Head(sender.rest) /\ conns' = Ended(conns, h, why) BY DEF Expires
<1>2. run.pc = "working" /\ sender.pc = "turn" /\ sender.rest # << >>
  BY DEF Expires, Turns, Working
<1>3. h \in Live(conns) /\ h \in Conn /\ conns \in [Conn -> Connection]
      /\ ToSet(sender.rest) = {h} \cup ToSet(Tail(sender.rest))
  BY <1>1, <1>2, HeadLive, TypeParts DEF ActorInv
<1>4. UNCHANGED <<sender, timer, sync, run>> BY DEF Expires
<1>5. Live(conns') = Live(conns) BY <1>1, <1>3, LiveAfter
<1>6. /\ \A c \in Conn \ {h} : conns'[c] = conns[c]
      /\ conns'[h] = EndedK(conns[h], why)
  <2>1. Ended(conns, h, why) = [conns EXCEPT ![h] = EndedK(conns[h], why)] BY <1>3, EndedIs
  <2>2. PICK k : k = EndedK(conns[h], why) OBVIOUS
  <2>3. conns' = [conns EXCEPT ![h] = k] BY <1>1, <2>1, <2>2
  <2> QED BY <1>3, <2>2, <2>3
<1>7. conns'[h].error /\ conns'[h].where = conns[h].where
  <2>1. conns[h] \in Connection BY <1>3
  <2> QED BY <1>6, <2>1 DEF EndedK, Connection
<1>8. RunInv' BY <1>2, <1>4, <1>5, <1>6, <1>7, LiveFinite DEF ActorInv, RunInv, Working
<1>9. SenderInv' BY <1>2, <1>4, <1>5 DEF ActorInv, SenderInv
<1>10. ServeInv'
  <2>1. \A c \in Live(conns) : c # h => conns'[c] = conns[c] BY <1>6, LiveFinite
  <2> QED BY <1>2, <1>3, <1>4, <1>5, <2>1 DEF ActorInv, ServeInv, Working
<1>11. TimerInv'
  <2>1. ~Sleeps' BY <1>2, <1>4 DEF Sleeps
  <2> QED BY <1>4, <2>1, AwakeTimer DEF ActorInv
<1>12. PassInv'
  <2>1. conns'[h].where # "gone" BY <1>3, <1>7 DEF Live
  <2>2. \A c \in Conn : conns'[c].where = "gone" => Same(conns[c], conns'[c])
    BY <1>6, <2>1 DEF Same
  <2>3. PeerTold' BY <1>4, <2>2, NoneForgotten DEF ActorInv, PassInv
  <2> QED BY <1>2, <1>4, <2>3 DEF PassInv
<1> QED BY <1>8, <1>9, <1>10, <1>11, <1>12 DEF ActorInv

\* What ngtcp2 ends in its own turn counts as served.
LEMMA WriteFailsActors == ASSUME TypeOK, ConnsInv, ActorInv, WriteFails PROVE ActorInv'
<1> DEFINE h == Head(sender.rest)
<1>1. sender.pc = "turn" /\ sender.rest # << >> BY DEF WriteFails, Turns
<1>2. h \in Live(conns) /\ h \in Conn /\ conns \in [Conn -> Connection]
  BY <1>1, HeadLive, TypeParts DEF ActorInv
<1>3. conns' = [conns EXCEPT ![h] = FailedK(conns[h])]
  <2>1. conns' = [Ended(conns, h, "protocol") EXCEPT ![h].failed = TRUE] BY DEF WriteFails
  <2> HIDE DEF h
  <2> QED BY <1>2, <2>1, FailedIs
<1>4. sender' = ServedNext /\ UNCHANGED <<timer, sync, run>> BY DEF WriteFails
<1>5. sender'.pc = "turn" /\ sender'.rest = Tail(sender.rest) BY <1>1, <1>4, ServedType
<1>6. ToSet(sender.rest) = {h} \cup ToSet(sender'.rest) BY <1>1, <1>5, HeadLive DEF ActorInv
<1>7. ~conns[h].error BY DEF WriteFails
<1>8. ConnOK(conns[h]) BY <1>2 DEF ConnsInv
<1> HIDE DEF h
<1>9. /\ \A c \in Conn \ {h} : conns'[c] = conns[c]
      /\ conns'[h] = FailedK(conns[h])
  BY <1>2, <1>3
<1>10. /\ conns'[h].error /\ conns'[h].where = conns[h].where /\ conns'[h].failed
       /\ conns'[h].closeSent = conns[h].closeSent
  <2>1. conns[h] \in Connection BY <1>2
  <2> QED BY <1>9, <2>1 DEF FailedK, EndedK, Connection
<1>11. Live(conns') = Live(conns) BY <1>9, <1>10, <1>2 DEF Live
<1>12. ~run.stopped /\ run.pc = "working" BY <1>2, <1>7 DEF ActorInv, RunInv, Working
<1>13. RunInv' BY <1>4, <1>12 DEF RunInv, Working
<1>14. SenderInv' BY <1>5, <1>6, <1>11 DEF ActorInv, SenderInv
<1>15. ServeInv'
  <2>1. Served(conns'[h]) BY <1>7, <1>8, <1>10 DEF Served, ConnOK
  <2>2. \A c \in Live(conns) : c \in ToSet(sender'.rest) \/ c = h \/ Served(conns[c])
        \/ ~(Working /\ ~sync.wake)
    BY <1>1, <1>6 DEF ActorInv, ServeInv
  <2>3. \A c \in Live(conns) : c # h => conns'[c] = conns[c] BY <1>9, LiveFinite
  <2> QED BY <1>4, <1>5, <1>11, <2>1, <2>2, <2>3 DEF ServeInv, Working
<1>16. TimerInv'
  <2>1. ~Sleeps' BY <1>5 DEF Sleeps
  <2> QED BY <1>4, <2>1, AwakeTimer DEF ActorInv
<1>17. PassInv'
  <2>1. conns'[h].where # "gone" BY <1>2, <1>10 DEF Live
  <2>2. \A c \in Conn : conns'[c].where = "gone" => Same(conns[c], conns'[c])
    BY <1>9, <2>1 DEF Same
  <2>3. PeerTold' BY <1>4, <2>2, NoneForgotten DEF ActorInv, PassInv
  <2> QED BY <1>4, <1>12, <2>3 DEF PassInv
<1> QED BY <1>13, <1>14, <1>15, <1>16, <1>17 DEF ActorInv

\* stop() leaves no healthy connection, whoever calls it.
LEMMA StoppedConns ==
    ASSUME TypeOK, ConnsInv, ActorInv, NEW C, C = (IF run.stopped THEN conns ELSE Stopped(conns)),
           Notify(C)
    PROVE /\ Live(conns') = Live(conns)
          /\ \A c \in Live(conns) : conns'[c].error
          /\ \A c \in Conn : /\ conns[c].error => conns'[c].error
                             /\ (run.stopped \/ conns[c].where # "live") => Same(conns[c], conns'[c])
<1>1. conns \in [Conn -> Connection] BY TypeParts
<1>2. C \in [Conn -> Connection] /\ Live(C) = Live(conns) BY <1>1, HelperTypes, LiveAfter
<1>3. \A c \in Conn : Same(C[c], conns'[c]) BY <1>2, NotifySame
<1>4. Live(conns') = Live(conns) BY <1>2, <1>3, SameLive
<1>5. \A c \in Live(conns) : C[c].error
  <2>1. CASE run.stopped BY <2>1 DEF ActorInv, RunInv
  <2>2. CASE ~run.stopped
    <3>1. C = [c \in Conn |-> StoppedK(conns[c])] BY <2>2, StoppedIs
    <3>2. \A k \in Connection : k.where = "live" => StoppedK(k).error BY DEF StoppedK, StopK, Connection
    <3> QED BY <1>1, <3>1, <3>2 DEF Live
  <2> QED BY <2>1, <2>2
<1>6. \A c \in Conn : (run.stopped \/ conns[c].where # "live") => C[c] = conns[c]
  <2>1. CASE run.stopped BY <2>1
  <2>2. CASE ~run.stopped
    <3>1. C = [c \in Conn |-> StoppedK(conns[c])] BY <2>2, StoppedIs
    <3> QED BY <2>2, <3>1 DEF StoppedK
  <2> QED BY <2>1, <2>2
<1>7. \A c \in Live(conns) : conns'[c].error BY <1>3, <1>5, LiveFinite DEF Same
<1>8. \A c \in Conn : (run.stopped \/ conns[c].where # "live") => Same(conns[c], conns'[c])
  BY <1>3, <1>6
<1>9. \A c \in Conn : conns[c].error => conns'[c].error BY <1>7, <1>8 DEF Live, Same
<1> QED BY <1>4, <1>7, <1>8, <1>9

LEMMA NotSentActors ==
    ASSUME TypeOK, ConnsInv, ActorInv, SendFails \/ CloseFails
    PROVE ActorInv'
<1>0. NotSent /\ sender.rest # << >> /\ sender.pc \in {"turn", "data", "close"}
  BY Failing DEF ActorInv, SendFails, CloseFails, Turns
<1>1. CASE Working
  <2>1. PICK C : C = (IF run.stopped THEN conns ELSE Stopped(conns)) OBVIOUS
  <2>2. Notify(C) BY <1>0, <1>1, <2>1 DEF NotSent
  <2>3. /\ Live(conns') = Live(conns)
        /\ \A c \in Live(conns) : conns'[c].error
        /\ \A c \in Conn : conns[c].where # "live" => Same(conns[c], conns'[c])
    BY <2>1, <2>2, StoppedConns
  <2>4. sender' = [pc |-> "done", rest |-> << >>] /\ sync' = Wake(sync)
        /\ run' = [run EXCEPT !.stopped = TRUE] /\ UNCHANGED timer
    BY <1>0, <1>1 DEF NotSent
  <2>5. sender'.pc = "done" /\ sender'.rest = << >> BY <2>4
  <2>6. run'.stopped /\ run'.pc = "working"
    BY <1>1, <2>4, TypeParts DEF Working, ActorTypes, RunType
  <2>7. RunInv' BY <2>3, <2>6 DEF RunInv, Working
  <2>8. SenderInv' BY <2>5, EmptyCopy DEF SenderInv
  <2>9. ServeInv' BY <2>5 DEF ServeInv
  <2>10. TimerInv'
    <3>1. ~Sleeps' BY <2>5 DEF Sleeps
    <3>2. sync'.deadline = sync.deadline /\ sync'.armed = sync.armed
      BY <2>4, TypeParts DEF ActorTypes, SyncType, Wake
    <3> QED BY <2>4, <3>1, <3>2, AwakeTimer DEF ActorInv
  <2>11. PassInv'
    <3>1. \A c \in Conn : conns'[c].where = "gone" => conns[c].where # "live"
      BY <2>3 DEF Live
    <3>2. PeerTold' BY <2>3, <2>6, <3>1, NoneForgotten DEF ActorInv, PassInv
    <3> QED BY <2>6, <3>2 DEF PassInv
  <2> QED BY <2>7, <2>8, <2>9, <2>10, <2>11 DEF ActorInv
<1>2. CASE ~Working
  <2> DEFINE h == Head(sender.rest)
  <2>1. h \in Live(conns) /\ h \in Conn /\ conns \in [Conn -> Connection]
    BY <1>0, HeadLive, TypeParts DEF ActorInv
  <2>2. sender' = [ServedNext EXCEPT !.pc = "turn"] /\ UNCHANGED <<run, sync, timer>>
    BY <1>0, <1>2 DEF NotSent
  <2>3. sender'.pc = "turn" /\ sender'.rest = Tail(sender.rest) BY <1>0, <2>2, ServedType
  <2>4. ToSet(sender.rest) = {h} \cup ToSet(sender'.rest) BY <1>0, <2>3, HeadLive DEF ActorInv
  <2>5. /\ \A c \in Conn \ {h} : conns'[c] = conns[c]
        /\ conns'[h] = [conns[h] EXCEPT !.untold = TRUE]
    BY <1>0, <1>2, <2>1 DEF NotSent
  <2> HIDE DEF h
  <2>6. conns'[h].error = conns[h].error /\ conns'[h].where = conns[h].where /\ conns'[h].untold
    <3>1. conns[h] \in Connection BY <2>1
    <3> QED BY <2>5, <3>1 DEF Connection
  <2>7. Live(conns') = Live(conns) BY <2>1, <2>5, <2>6 DEF Live
  <2>8. RunInv'
    BY <1>0, <1>2, <2>1, <2>2, <2>3, <2>5, <2>6, <2>7, LiveFinite DEF ActorInv, RunInv, Working
  <2>9. SenderInv' BY <2>3, <2>4, <2>7 DEF ActorInv, SenderInv
  <2>10. ServeInv' BY <1>2, <2>2 DEF ServeInv, Working
  <2>11. TimerInv'
    <3>1. ~Sleeps' BY <2>3 DEF Sleeps
    <3> QED BY <2>2, <3>1, AwakeTimer DEF ActorInv
  <2>12. PassInv'
    <3>1. conns'[h].where # "gone" BY <2>1, <2>6 DEF Live
    <3>2. \A c \in Conn : conns'[c].where = "gone" => Same(conns[c], conns'[c])
      BY <2>5, <3>1 DEF Same
    <3>3. PeerTold' BY <3>2, NoneForgotten DEF ActorInv, PassInv
    <3>4. ASSUME run'.pc = "closing", NEW c \in Live(conns'), Owing(conns'[c])
          PROVE conns'[c].closeSent \/ conns'[c].untold \/ c \in ToSet(sender'.rest)
      <4>1. CASE c = h BY <2>6, <4>1
      <4>2. CASE c # h
        <5>1. c \in Conn /\ c \in Live(conns) BY <2>7, LiveFinite
        <5>2. conns'[c] = conns[c] BY <2>5, <4>2, <5>1
        <5> QED BY <2>2, <2>4, <3>4, <4>2, <5>1, <5>2 DEF ActorInv, PassInv
      <4> QED BY <4>1, <4>2
    <3> QED BY <3>3, <3>4 DEF PassInv
  <2> QED BY <2>8, <2>9, <2>10, <2>11, <2>12 DEF ActorInv
<1> QED BY <1>1, <1>2

LEMMA ClosingStartsActors == ASSUME TypeOK, ConnsInv, ActorInv, ClosingStarts PROVE ActorInv'
<1>1. PICK C : C = (IF run.stopped THEN conns ELSE Stopped(conns)) OBVIOUS
<1>2. Notify(C) /\ sender' = [pc |-> "turn", rest |-> SetToSeq(Live(C))]
      /\ run' = [run EXCEPT !.stopped = TRUE, !.pc = "closing"] /\ UNCHANGED <<timer, sync>>
  BY <1>1 DEF ClosingStarts
<1>3. /\ Live(conns') = Live(conns)
      /\ \A c \in Live(conns) : conns'[c].error
      /\ \A c \in Conn : conns[c].where # "live" => Same(conns[c], conns'[c])
  BY <1>1, <1>2, StoppedConns
<1>4. ToSet(sender'.rest) = Live(conns') /\ sender'.pc = "turn"
  <2>1. Live(C) = Live(conns) BY <1>1, TypeParts, LiveAfter
  <2>2. ToSet(SetToSeq(Live(C))) = Live(C) BY LiveFinite, CopyType
  <2> QED BY <1>2, <1>3, <2>1, <2>2
<1>5. run'.stopped /\ run'.pc = "closing"
  BY <1>2, TypeParts DEF ActorTypes, RunType
<1>6. RunInv' BY <1>3, <1>4, <1>5 DEF RunInv
<1>7. SenderInv' BY <1>4 DEF SenderInv
<1>8. ServeInv' BY <1>5 DEF ServeInv, Working
<1>9. TimerInv'
  <2>1. ~Sleeps' BY <1>4 DEF Sleeps
  <2> QED BY <1>2, <2>1, AwakeTimer DEF ActorInv
<1>10. PassInv'
  <2>1. \A c \in Conn : conns'[c].where = "gone" => conns[c].where # "live"
    BY <1>3 DEF Live
  <2>2. PeerTold' BY <1>3, <1>5, <2>1, NoneForgotten DEF ActorInv, PassInv
  <2> QED BY <1>4, <2>2 DEF PassInv
<1> QED BY <1>6, <1>7, <1>8, <1>9, <1>10 DEF ActorInv

\* The context lets go of everything: who still owed its peer a close is marked untold.
LEMMA ContextEndsActors == ASSUME TypeOK, ConnsInv, ActorInv, ContextEnds PROVE ActorInv'
<1>1. run.pc = "closing" /\ run' = [run EXCEPT !.pc = "ended"]
      /\ sender' = [pc |-> "done", rest |-> << >>] /\ UNCHANGED <<timer, sync>>
  BY DEF ContextEnds
<1>2. sender'.pc = "done" /\ sender'.rest = << >> BY <1>1
<1>3. run'.pc = "ended" /\ run'.stopped = run.stopped
  BY <1>1, TypeParts DEF ActorTypes, RunType
<1>4. Live(conns') = {} BY EndedConns DEF ActorInv
<1>5. run.stopped BY <1>1 DEF ActorInv, RunInv, Working
<1>6. RunInv' BY <1>2, <1>3, <1>4, <1>5 DEF RunInv, Working
<1>7. SenderInv' BY <1>2, EmptyCopy DEF SenderInv
<1>8. ServeInv' BY <1>2 DEF ServeInv
<1>9. TimerInv'
  <2>1. ~Sleeps' BY <1>2 DEF Sleeps
  <2> QED BY <1>1, <2>1, AwakeTimer DEF ActorInv
<1>10. PassInv'
  <2> SUFFICES ASSUME NEW c \in Conn, conns'[c].where = "gone", conns'[c].gaveUp \/ conns'[c].healthy,
                      conns'[c].wrote, ~conns'[c].broken, ~conns'[c].untold
               PROVE conns'[c].closeSent
    BY <1>3 DEF PassInv, PeerTold
  <2>1. CASE c \notin Live(conns)
    <3>1. conns'[c] = conns[c] BY <2>1, EndedConns DEF ActorInv
    <3> QED BY <3>1 DEF ActorInv, PassInv, PeerTold
  <2>2. CASE c \in Live(conns)
    <3>1. conns'[c] = GoneK(conns[c], c \notin ToSet(sender.rest)) BY <2>2, EndedConns DEF ActorInv
    <3>2. conns[c] \in Connection BY TypeParts
    <3>3. /\ Owing(conns[c]) /\ (conns'[c].closeSent <=> conns[c].closeSent)
          /\ ~conns[c].untold /\ c \notin ToSet(sender.rest)
      BY <3>1, <3>2 DEF Owing, GoneK, Connection
    <3> QED BY <1>1, <2>2, <3>3 DEF ActorInv, PassInv
  <2> QED BY <2>1, <2>2
<1> QED BY <1>6, <1>7, <1>8, <1>9, <1>10 DEF ActorInv

LEMMA TimerActors == ASSUME TypeOK, ActorInv, TimerStep PROVE ActorInv'
<1>1. UNCHANGED <<conns, sender, run>> BY DEF TimerStep, TimerArms, TimerFires, TimerChanged
<1>2. RunInv' /\ SenderInv' /\ PassInv'
  BY <1>1 DEF ActorInv, RunInv, SenderInv, PassInv, PeerTold, Working
<1>3. sync \in SyncType BY TypeParts DEF ActorTypes
<1>4. sync'.wake = sync.wake \/ sync'.wake
  BY <1>3 DEF TimerStep, TimerArms, TimerFires, TimerChanged, SyncType, Wake
<1>5. ServeInv' BY <1>1, <1>4 DEF ActorInv, ServeInv, Working
<1>6. TimerInv'
  <2>1. CASE TimerArms
    <3>1. /\ sync'.wake = sync.wake /\ sync'.deadline = sync.deadline
          /\ sync'.armed = IF sync.deadline = 0 THEN sync.armed ELSE sync.deadline
          /\ timer' = IF sync.deadline = 0 THEN "waiting" ELSE "armed"
      BY <1>3, <2>1 DEF TimerArms, SyncType
    <3> QED BY <1>1, <3>1 DEF ActorInv, TimerInv, TimerCovers, Sleeps, Working
  <2>2. CASE TimerFires
    <3>1. sync'.wake /\ sync'.armed = 0 /\ timer' = "waiting"
      BY <1>3, <2>2 DEF TimerFires, SyncType, Wake
    <3> QED BY <3>1 DEF TimerInv, TimerCovers, Sleeps
  <2>3. CASE TimerChanged
    <3>1. timer' = "top" /\ sync' = sync BY <2>3 DEF TimerChanged
    <3> QED BY <1>1, <3>1 DEF ActorInv, TimerInv, TimerCovers, Sleeps, Working
  <2> QED BY <2>1, <2>2, <2>3 DEF TimerStep
<1> QED BY <1>2, <1>5, <1>6 DEF ActorInv
\* What Wakes asks of one connection, but for stop().
WakesK(k, l) ==
    /\ (run.stopped \/ k.where = "gone") => Same(k, l)
    /\ k.error => l.error
    /\ k.where = "live" => l.where = "live"
    /\ l.where = "gone" => k.where = "gone"

LEMMA NotifyWakes ==
    ASSUME NEW C \in [Conn -> Connection], Notify(C), \A c \in Conn : WakesK(conns[c], C[c]),
           sync' = Wake(sync), UNCHANGED <<sender, timer, run>>
    PROVE Wakes
<1>1. \A c \in Conn : Same(C[c], conns'[c]) BY NotifySame
<1>2. \A c \in Conn : WakesK(conns[c], conns'[c]) BY <1>1 DEF WakesK, Same
<1> QED BY <1>2 DEF Wakes, WakesK

LEMMA ReceivedWakes ==
    ASSUME TypeOK, NEW c \in Conn, NEW C \in [Conn -> Connection], Received(C, c),
           \A d \in Conn : WakesK(conns[d], C[d]), ~run.stopped, conns[c].where # "gone"
    PROVE Wakes
<1>1. PICK e \in 1..plan.horizon : Notify(Touched(C, c, e)) BY DEF Received, Touched
<1>2. PICK D : D = Touched(C, c, e) OBVIOUS
<1>3. D \in [Conn -> Connection] BY <1>2, TouchedType
<1>4. ASSUME NEW d \in Conn PROVE WakesK(conns[d], D[d])
  <2>1. CASE d # c
    <3>1. D[d] = C[d] BY <1>2, <2>1 DEF Touched
    <3> QED BY <3>1
  <2>2. CASE d = c
    <3>1. D[c] = [C[c] EXCEPT !.dirty = TRUE, !.expiry = e] BY <1>2 DEF Touched
    <3>2. C[c] \in Connection OBVIOUS
    <3>3. D[c].where = C[c].where /\ D[c].error = C[c].error BY <3>1, <3>2 DEF Connection
    <3> QED BY <2>2, <3>3 DEF WakesK
  <2> QED BY <2>1, <2>2
<1> QED BY <1>1, <1>2, <1>3, <1>4, NotifyWakes DEF Received

LEMMA PeerWakes == ASSUME TypeOK, PeerStep PROVE Wakes
<1>2. \A k \in Connection : WakesK(k, k) BY DEF WakesK, Same
<1>7. CASE ReceiveOther BY <1>2, <1>7, TypeParts, NotifyWakes DEF ReceiveOther
<1> SUFFICES ASSUME NEW c \in Conn,
                    \/ ReceiveInitial(c) \/ Handshake(c) \/ ReceivePacket(c)
                    \/ ReceiveEnd(c) \/ ReceiveLate(c)
             PROVE Wakes
  BY <1>7 DEF PeerStep
<1>1. conns \in [Conn -> Connection] /\ ~run.stopped
  BY TypeParts
     DEF ReceiveInitial, Handshake, ReceivePacket, ReceiveEnd, ReceiveLate, Reads, Receives
<1>3. CASE ReceiveInitial(c)
  <2>1. Made(conns, c) = [conns EXCEPT ![c] = MadeK(conns[c])] BY <1>1, MadeIs
  <2>2. conns[c].where = "none" BY <1>3 DEF ReceiveInitial
  <2>3. WakesK(conns[c], MadeK(conns[c]))
    <3>1. conns[c] \in Connection BY <1>1
    <3> QED BY <1>1, <2>2, <3>1 DEF WakesK, MadeK, Connection
  <2>4. PICK C : C = Made(conns, c) OBVIOUS
  <2>5. C \in [Conn -> Connection] BY <1>1, <2>4, HelperTypes
  <2>6. \A d \in Conn : WakesK(conns[d], C[d]) BY <1>1, <1>2, <2>1, <2>3, <2>4
  <2> QED BY <1>1, <1>3, <2>2, <2>4, <2>5, <2>6, ReceivedWakes DEF ReceiveInitial
<1>4. CASE Handshake(c)
  <2>1. PICK C : C = Shaken(conns, c) OBVIOUS
  <2>2. C \in [Conn -> Connection] /\ Received(C, c) /\ conns[c].where = "live"
    BY <1>1, <1>4, <2>1, ShakenType DEF Handshake, Shaken, Reads
  <2>3. C = [conns EXCEPT ![c] = [conns[c] EXCEPT !.handshake = TRUE]] BY <2>1 DEF Shaken
  <2>4. WakesK(conns[c], [conns[c] EXCEPT !.handshake = TRUE])
    <3>1. conns[c] \in Connection BY <1>1
    <3> QED BY <1>1, <2>2, <3>1 DEF WakesK, Connection
  <2>5. \A d \in Conn : WakesK(conns[d], C[d]) BY <1>1, <1>2, <2>3, <2>4
  <2> QED BY <1>1, <2>2, <2>5, ReceivedWakes
<1>5. CASE ReceiveEnd(c)
  <2>1. PICK why : Received(Ended(conns, c, why), c) BY <1>5 DEF ReceiveEnd
  <2>2. PICK C : C = Ended(conns, c, why) OBVIOUS
  <2>3. C \in [Conn -> Connection] BY <1>1, <2>2, HelperTypes
  <2>4. C = [conns EXCEPT ![c] = EndedK(conns[c], why)] BY <1>1, <2>2, EndedIs
  <2>5. conns[c].where = "live" BY <1>5 DEF ReceiveEnd, Reads
  <2>6. WakesK(conns[c], EndedK(conns[c], why))
    <3>1. conns[c] \in Connection BY <1>1
    <3> QED BY <1>1, <2>5, <3>1 DEF WakesK, EndedK, Connection
  <2>7. \A d \in Conn : WakesK(conns[d], C[d]) BY <1>1, <1>2, <2>4, <2>6
  <2> QED BY <1>1, <2>1, <2>2, <2>3, <2>5, <2>7, ReceivedWakes
<1>6. CASE ReceiveLate(c)
  <2>1. PICK C : C = Requested(conns, c, TRUE) OBVIOUS
  <2>2. C = [conns EXCEPT ![c] = [conns[c] EXCEPT !.closeRequested = TRUE]] BY <2>1 DEF Requested
  <2>3. conns[c].where = "live" BY <1>6 DEF ReceiveLate
  <2>4. WakesK(conns[c], [conns[c] EXCEPT !.closeRequested = TRUE])
    <3>1. conns[c] \in Connection BY <1>1
    <3> QED BY <1>1, <2>3, <3>1 DEF WakesK, Connection
  <2>5. \A d \in Conn : WakesK(conns[d], C[d]) BY <1>1, <1>2, <2>2, <2>4
  <2>6. C \in [Conn -> Connection] BY <1>1, <2>1, RequestedType
  <2>7. Notify(C) BY <1>6, <2>1 DEF ReceiveLate, Requested
  <2> QED BY <1>6, <2>5, <2>6, <2>7, NotifyWakes DEF ReceiveLate
<1>8. CASE ReceivePacket(c)
  <2>1. conns[c].where # "gone" /\ Received(conns, c) BY <1>8 DEF ReceivePacket, Reads
  <2> QED BY <1>1, <1>2, <2>1, ReceivedWakes
<1> QED BY <1>3, <1>4, <1>5, <1>6, <1>8

\* close() of a connection that has ended already changes nothing.
LEMMA ClosedWakes ==
    ASSUME TypeOK, ConnsInv, ActorInv
    PROVE /\ \A c \in Conn : \A d \in Conn : WakesK(conns[d], Closed(conns, c)[d])
          /\ \A S : \A d \in Conn : WakesK(conns[d], ClosedAll(conns, S)[d])
          /\ \A c \in Conn : conns[c].error => Closed(conns, c) = conns
<1>1. conns \in [Conn -> Connection] BY TypeParts
<1>2. \A k \in Connection : WakesK(k, k) BY DEF WakesK, Same
<1>3. ASSUME NEW d \in Conn PROVE WakesK(conns[d], ClosedK(conns[d]))
  <2>1. conns[d] \in Connection /\ ConnOK(conns[d]) BY <1>1 DEF ConnsInv
  <2>2. CASE conns[d].where = "none" \/ conns[d].error BY <1>2, <2>1, <2>2 DEF ClosedK
  <2>3. CASE conns[d].where # "none" /\ ~conns[d].error
    <3>1. conns[d].where = "live" BY <2>1, <2>3 DEF Connection, ConnOK
    <3>2. ~run.stopped BY <2>3, <3>1 DEF ActorInv, RunInv, Live
    <3> QED BY <2>1, <3>1, <3>2 DEF WakesK, ClosedK, CloseK, Connection
  <2> QED BY <2>2, <2>3
<1>4. ASSUME NEW c \in Conn, NEW d \in Conn PROVE WakesK(conns[d], Closed(conns, c)[d])
  <2>1. Closed(conns, c) = [conns EXCEPT ![c] = ClosedK(conns[c])] BY <1>1, ClosedIs
  <2> QED BY <1>1, <1>2, <1>3, <2>1
<1>5. ASSUME NEW S, NEW d \in Conn PROVE WakesK(conns[d], ClosedAll(conns, S)[d])
  <2>1. ClosedAll(conns, S) = [c \in Conn |-> IF c \in S THEN ClosedK(conns[c]) ELSE conns[c]]
    BY <1>1, ClosedAllIs
  <2> QED BY <1>1, <1>2, <1>3, <2>1
<1>6. \A c \in Conn : conns[c].error => Closed(conns, c) = conns BY DEF Closed
<1> QED BY <1>4, <1>5, <1>6

LEMMA SpawnActors ==
    ASSUME TypeOK, ConnsInv, ActorInv, AcceptInv, RaceInv, race.pc = "trying", Untried,
           NEW done, Spawn(done), UNCHANGED <<sender, timer, run>>
    PROVE ActorInv'
<1> DEFINE c == plan.candidates[race.next]
<1>1. conns \in [Conn -> Connection] BY TypeParts
<1>2. c \in Conn /\ race.next \in 1 .. Len(plan.candidates) BY CandidateType
<1>3. conns[c].where = "none"
  <2>1. race.next \in race.next .. Len(plan.candidates) BY <1>2
  <2>2. plan.role = "client" BY Racing
  <2> QED BY <2>1, <2>2 DEF RaceInv
<1>4. CASE ~run.stopped /\ HasRoom(conns)
  <2>1. conns' = Made(conns, c) /\ sync' = Wake(sync) BY <1>4 DEF Spawn
  <2> HIDE DEF c
  <2>2. Made(conns, c) = [conns EXCEPT ![c] = MadeK(conns[c])] BY <1>1, <1>2, MadeIs
  <2>3. WakesK(conns[c], MadeK(conns[c]))
    <3>1. conns[c] \in Connection BY <1>1, <1>2
    <3> QED BY <1>3, <1>4, <3>1 DEF WakesK, MadeK, Connection
  <2>4. \A k \in Connection : WakesK(k, k) BY DEF WakesK, Same
  <2>5. \A d \in Conn : WakesK(conns[d], conns'[d]) BY <1>1, <1>2, <2>1, <2>2, <2>3, <2>4
  <2>6. Wakes BY <2>1, <2>5 DEF Wakes, WakesK
  <2> QED BY <2>6, WakeActors
<1>5. CASE ~(~run.stopped /\ HasRoom(conns))
  <2>1. conns' = conns /\ sync' = sync BY <1>5 DEF Spawn
  <2>2. \A d \in Conn : Same(conns[d], conns'[d]) BY <2>1 DEF Same
  <2> QED BY <2>1, <2>2, QuietActors
<1> QED BY <1>4, <1>5

LEMMA AbandonActors ==
    ASSUME TypeOK, ConnsInv, ActorInv, NEW S, Abandon(S), UNCHANGED <<sender, timer, run>>
    PROVE ActorInv'
<1>1. PICK C : C = ClosedAll(conns, S) OBVIOUS
<1>2. C \in [Conn -> Connection] BY <1>1, TypeParts, HelperTypes
<1>3. \A d \in Conn : WakesK(conns[d], C[d]) BY <1>1, ClosedWakes
<1>4. Notify(C) /\ sync' = Wake(sync) BY <1>1 DEF Abandon
<1>5. Wakes BY <1>2, <1>3, <1>4, NotifyWakes
<1> QED BY <1>5, WakeActors

LEMMA RaceActors ==
    ASSUME TypeOK, ConnsInv, ActorInv, AcceptInv, RaceInv, RaceStep PROVE ActorInv'
<1>1. CASE RaceGoesOn BY <1>1, SpawnActors DEF RaceGoesOn
<1>2. CASE AttemptFailed
  <2>1. CASE Untried BY <1>2, <2>1, SpawnActors DEF AttemptFailed
  <2>2. CASE ~Untried
    <3>1. UNCHANGED <<conns, sender, timer, sync, run>> BY <1>2, <2>2 DEF AttemptFailed
    <3>2. \A d \in Conn : Same(conns[d], conns'[d]) BY <3>1 DEF Same
    <3> QED BY <3>1, <3>2, QuietActors
  <2> QED BY <2>1, <2>2
<1>3. CASE RaceWon BY <1>3, AbandonActors DEF RaceWon
<1>4. CASE RaceCanceled BY <1>4, AbandonActors DEF RaceCanceled
<1>5. CASE \E c \in Conn : AttemptEnds(c)
  <2>1. UNCHANGED <<conns, sender, timer, sync, run>> BY <1>5 DEF AttemptEnds
  <2>2. \A d \in Conn : Same(conns[d], conns'[d]) BY <2>1 DEF Same
  <2> QED BY <2>1, <2>2, QuietActors
<1> QED BY <1>1, <1>2, <1>3, <1>4, <1>5 DEF RaceStep

LEMMA ProgramActors ==
    ASSUME TypeOK, ConnsInv, ActorInv, ProgramStep PROVE ActorInv'
<1>1. CASE Stop
  <2>1. PICK C : C = (IF run.stopped THEN conns ELSE Stopped(conns)) OBVIOUS
  <2>2. Notify(C) BY <1>1, <2>1 DEF Stop
  <2>3. /\ Live(conns') = Live(conns)
        /\ \A c \in Live(conns) : conns'[c].error
        /\ \A c \in Conn : /\ conns[c].error => conns'[c].error
                           /\ conns[c].where # "live" => Same(conns[c], conns'[c])
    BY <2>1, <2>2, StoppedConns
  <2>4. ~run.stopped /\ sync' = Wake(sync) /\ run' = [run EXCEPT !.stopped = TRUE]
        /\ UNCHANGED <<sender, timer>>
    BY <1>1 DEF Stop
  <2>5. run'.pc = run.pc BY <2>4, TypeParts DEF ActorTypes, RunType
  <2>6. Wakes BY <2>3, <2>4, <2>5 DEF Wakes, Live, Same
  <2> QED BY <2>6, WakeActors
<1>2. CASE Accept
  <2>1. UNCHANGED <<conns, sender, timer, sync, run>> BY <1>2 DEF Accept
  <2>2. \A d \in Conn : Same(conns[d], conns'[d]) BY <2>1 DEF Same
  <2> QED BY <2>1, <2>2, QuietActors
<1>3. ASSUME NEW c \in Conn, Close(c) \/ Drop(c) PROVE ActorInv'
  <2>1. PICK C : C = Closed(conns, c) OBVIOUS
  <2>2. C \in [Conn -> Connection] BY <2>1, TypeParts, HelperTypes
  <2>3. Notify(C) /\ UNCHANGED <<sender, timer, run>> BY <1>3, <2>1 DEF Close, Drop
  <2>4. CASE conns[c].error
    <3>1. C = conns /\ sync' = sync BY <1>3, <2>1, <2>4, ClosedWakes DEF Close, Drop
    <3>2. \A d \in Conn : Same(conns[d], conns'[d]) BY <2>2, <2>3, <3>1, NotifySame
    <3> QED BY <2>3, <3>1, <3>2, QuietActors
  <2>5. CASE ~conns[c].error
    <3>1. sync' = Wake(sync) BY <1>3, <2>5 DEF Close, Drop
    <3>2. \A d \in Conn : WakesK(conns[d], C[d]) BY <2>1, ClosedWakes
    <3>3. Wakes BY <2>2, <2>3, <3>1, <3>2, NotifyWakes
    <3> QED BY <3>3, WakeActors
  <2> QED BY <2>4, <2>5
<1>4. ASSUME NEW c \in Conn, CloseReturns(c) PROVE ActorInv'
  <2>1. UNCHANGED <<conns, sender, timer, sync, run>> BY <1>4 DEF CloseReturns
  <2>2. \A d \in Conn : Same(conns[d], conns'[d]) BY <2>1 DEF Same
  <2> QED BY <2>1, <2>2, QuietActors
<1>5. ASSUME NEW c \in Conn, StreamWork(c) PROVE ActorInv'
  <2>1. conns \in [Conn -> Connection] /\ c \in Live(conns) /\ conns[c].where = "live"
    BY <1>5, TypeParts DEF StreamWork, Live
  <2>2. /\ \A d \in Conn \ {c} : conns'[d] = conns[d]
        /\ conns'[c] = WorkK(conns[c])
    BY <1>5, <2>1 DEF StreamWork, WorkK
  <2>3. sync' = Wake(sync) /\ UNCHANGED <<sender, timer, run>> BY <1>5 DEF StreamWork
  <2>4. WakesK(conns[c], conns'[c])
    <3>1. conns[c] \in Connection BY <2>1
    <3>2. CASE conns[c].error
      <4>1. WorkK(conns[c]) = [conns[c] EXCEPT !.dirty = conns[c].dirty]
        BY <3>1, <3>2 DEF WorkK, Connection
      <4>2. conns'[c] = conns[c] BY <2>2, <3>1, <4>1 DEF Connection
      <4> QED BY <4>2 DEF WakesK, Same
    <3>3. CASE ~conns[c].error
      <4>1. ~run.stopped BY <2>1, <3>3 DEF ActorInv, RunInv
      <4> QED BY <2>1, <2>2, <3>1, <4>1 DEF WakesK, WorkK, Connection
    <3> QED BY <3>2, <3>3
  <2>5. \A d \in Conn : WakesK(conns[d], conns'[d]) BY <2>2, <2>4 DEF WakesK, Same
  <2>6. Wakes BY <2>3, <2>5 DEF Wakes, WakesK
  <2> QED BY <2>6, WakeActors
<1> QED BY <1>1, <1>2, <1>3, <1>4, <1>5 DEF ProgramStep

LEMMA NextActors == IInv /\ [Next]_vars => ActorInv'
<1> SUFFICES ASSUME IInv, [Next]_vars PROVE ActorInv'
  OBVIOUS
<1>1. TypeOK /\ ConnsInv /\ ActorInv /\ AcceptInv /\ RaceInv BY DEF IInv, ActorInv
<1>2. CASE UNCHANGED vars
  <2>1. UNCHANGED <<conns, sender, timer, sync, run>> BY <1>2 DEF vars
  <2>2. \A d \in Conn : Same(conns[d], conns'[d]) BY <2>1 DEF Same
  <2> QED BY <1>1, <2>1, <2>2, QuietActors
<1>3. CASE PeerStep BY <1>1, <1>3, PeerWakes, WakeActors
<1>4. CASE SenderStep
  BY <1>1, <1>4, SenderTurnActors, SendCloseActors, SendNothingActors, SendDataActors,
     DataSentActors, CloseSentActors, TurnEndsActors, SenderStopsActors DEF SenderStep
<1>5. CASE Expires BY <1>1, <1>5, ExpiresActors
<1>6. CASE SendFails \/ CloseFails BY <1>1, <1>6, NotSentActors
<1>11. CASE WriteFails BY <1>1, <1>11, WriteFailsActors
<1>7. CASE TimerStep BY <1>1, <1>7, TimerActors
<1>8. CASE RaceStep BY <1>1, <1>8, RaceActors
<1>9. CASE ProgramStep BY <1>1, <1>9, ProgramActors
<1>10. CASE RunEnds BY <1>1, <1>10, ClosingStartsActors, ContextEndsActors DEF RunEnds
<1> QED BY <1>2, <1>3, <1>4, <1>5, <1>6, <1>7, <1>8, <1>9, <1>10, <1>11 DEF Next, Faults
-----------------------------------------------------------------------------
(* accept(). *)

\* What a step may do to one connection, as accept() sees it.
AcceptK(k, l) == l.queued = k.queued /\ (k.error => l.error)

LEMMA ClientAccept ==
    ASSUME TypeOK, AcceptInv, plan.role = "client", UNCHANGED plan, incoming' = << >>
    PROVE AcceptInv'
<1>1. ToSet(<< >>) = {} /\ IsInjective(<< >>) BY EmptyCopy DEF IsInjective
<1> QED BY <1>1 DEF AcceptInv

LEMMA NotifyClient ==
    ASSUME TypeOK, AcceptInv, plan.role = "client", NEW C \in [Conn -> Connection], Notify(C)
    PROVE incoming' = << >>
<1>1. Offered(C) = {} BY DEF Offered
<1>2. ToSet(incoming) = {} BY EmptyCopy DEF AcceptInv
<1>3. incoming' \in Seq(Conn) /\ ToSet(incoming') = {} BY <1>1, <1>2, NotifyIncoming
<1>4. ASSUME incoming' # << >> PROVE FALSE
  <2>1. 1 \in DOMAIN incoming' BY <1>3, <1>4
  <2> QED BY <1>3, <2>1 DEF ToSet
<1> QED BY <1>4

LEMMA NotifyAccept ==
    ASSUME TypeOK, AcceptInv, NEW C \in [Conn -> Connection], Notify(C), UNCHANGED <<plan, race>>,
           \A c \in Conn : /\ AcceptK(conns[c], C[c])
                           /\ handle'[c] = "none" <=> handle[c] = "none"
                           /\ handle'[c] = "connecting" => handle[c] = "connecting"
    PROVE AcceptInv'
<1>1. CASE plan.role = "client" BY <1>1, NotifyClient, ClientAccept
<1>2. CASE plan.role # "client"
  <2>1. plan.role = "server" BY <1>2, PlanType
  <2>2. /\ conns' \in [Conn -> Connection]
        /\ \A c \in Conn : conns'[c] = [C[c] EXCEPT !.queued = @ \/ c \in Offered(C)]
    BY NotifyConns
  <2>3. ASSUME NEW c \in Conn
        PROVE /\ conns'[c].queued <=> (conns[c].queued \/ c \in Offered(C))
              /\ conns'[c].where = C[c].where /\ conns'[c].handshake = C[c].handshake
              /\ conns'[c].error = C[c].error /\ C[c].queued = conns[c].queued
              /\ conns[c].error => C[c].error
    <3>1. C[c] \in Connection /\ (C[c].queued \/ c \in Offered(C)) \in BOOLEAN BY DEF Connection
    <3>2. \A b \in BOOLEAN : \A k \in Connection :
              LET l == [k EXCEPT !.queued = b]
              IN  l.queued = b /\ l.where = k.where /\ l.handshake = k.handshake /\ l.error = k.error
      BY DEF Connection
    <3>3. PICK b \in BOOLEAN : b = (C[c].queued \/ c \in Offered(C)) BY <3>1
    <3>4. conns'[c] = [C[c] EXCEPT !.queued = b] BY <2>2, <3>3
    <3>5. /\ conns'[c].queued = b /\ conns'[c].where = C[c].where
          /\ conns'[c].handshake = C[c].handshake /\ conns'[c].error = C[c].error
      BY <3>1, <3>2, <3>4
    <3>6. C[c].queued = conns[c].queued /\ (conns[c].error => C[c].error) BY DEF AcceptK
    <3> QED BY <3>3, <3>5, <3>6
  <2>4. \A c \in Conn : c \in Offered(C) <=>
            (C[c].where = "live" /\ C[c].handshake /\ ~C[c].queued /\ ~C[c].error)
    BY <2>1 DEF Offered, Live
  <2>5. ToSet(incoming) \subseteq Conn BY ToSetType DEF TypeOK
  <2>6. ToSet(incoming) \cap Offered(C) = {}
    BY <2>1, <2>3, <2>4, <2>5 DEF AcceptInv
  <2>7. ToSet(incoming') = {c \in ToSet(incoming) \cup Offered(C) : ~C[c].error}
        /\ IsInjective(incoming')
    BY <2>6, NotifyIncoming DEF AcceptInv
  <2>8. Offered(C) \subseteq Conn BY DEF Offered, Live
  <2>9. \A c \in Offered(C) : handle[c] = "none"
    BY <2>1, <2>3, <2>4, <2>8 DEF AcceptInv
  <2>10. \A c \in ToSet(incoming') : handle'[c] = "none"
    BY <2>5, <2>7, <2>8, <2>9 DEF AcceptInv
  <2>11. race'.pc = "none" BY <2>1 DEF AcceptInv
  <2>12. ASSUME NEW c \in Conn
         PROVE /\ handle'[c] # "connecting"
               /\ handle'[c] # "none" => conns'[c].queued
               /\ c \in ToSet(incoming') => conns'[c].queued
               /\ (conns'[c].where = "live" /\ conns'[c].handshake /\ ~conns'[c].error) =>
                      conns'[c].queued
               /\ (conns'[c].queued /\ ~conns'[c].error) =>
                      c \in ToSet(incoming') \/ handle'[c] # "none"
    <3>1. /\ handle[c] # "connecting"
          /\ handle[c] # "none" => conns[c].queued
          /\ c \in ToSet(incoming) => conns[c].queued
          /\ (conns[c].queued /\ ~conns[c].error) =>
                 c \in ToSet(incoming) \/ handle[c] # "none"
      BY <2>1 DEF AcceptInv
    <3> QED BY <2>3, <2>4, <2>7, <3>1
  <2> QED BY <2>1, <2>7, <2>10, <2>11, <2>12 DEF AcceptInv
<1> QED BY <1>1, <1>2

LEMMA QuietAccept ==
    ASSUME TypeOK, AcceptInv, UNCHANGED <<plan, incoming, race>>,
           \A c \in Conn : /\ AcceptK(conns[c], conns'[c])
                           /\ (conns'[c].where = "live" /\ conns'[c].handshake /\ ~conns'[c].error) =>
                                  (conns[c].where = "live" /\ conns[c].handshake)
                           /\ handle'[c] = "none" <=> handle[c] = "none"
                           /\ handle'[c] = "connecting" => handle[c] = "connecting"
    PROVE AcceptInv'
<1>1. ToSet(incoming) \subseteq Conn BY ToSetType DEF TypeOK
<1>2. \A c \in ToSet(incoming') : handle'[c] = "none" BY <1>1 DEF AcceptInv
<1>3. ASSUME NEW c \in Conn, plan.role = "server"
      PROVE /\ handle'[c] # "connecting"
            /\ handle'[c] # "none" => conns'[c].queued
            /\ c \in ToSet(incoming') => conns'[c].queued
            /\ (conns'[c].where = "live" /\ conns'[c].handshake /\ ~conns'[c].error) =>
                   conns'[c].queued
            /\ (conns'[c].queued /\ ~conns'[c].error) =>
                   c \in ToSet(incoming') \/ handle'[c] # "none"
  BY <1>3 DEF AcceptInv, AcceptK
<1> QED BY <1>2, <1>3 DEF AcceptInv

LEMMA ReceivedAccept ==
    ASSUME TypeOK, AcceptInv, NEW c \in Conn, NEW C \in [Conn -> Connection], Received(C, c),
           \A d \in Conn : AcceptK(conns[d], C[d])
    PROVE AcceptInv'
<1>1. PICK e \in 1..plan.horizon : Notify(Touched(C, c, e)) BY DEF Received, Touched
<1>2. PICK D : D = Touched(C, c, e) OBVIOUS
<1>3. D \in [Conn -> Connection] BY <1>2, TouchedType
<1>4. ASSUME NEW d \in Conn PROVE AcceptK(conns[d], D[d])
  <2>1. CASE d # c
    <3>1. D[d] = C[d] BY <1>2, <2>1 DEF Touched
    <3> QED BY <3>1
  <2>2. CASE d = c
    <3>1. D[c] = [C[c] EXCEPT !.dirty = TRUE, !.expiry = e] BY <1>2 DEF Touched
    <3>2. C[c] \in Connection OBVIOUS
    <3>3. D[c].queued = C[c].queued /\ D[c].error = C[c].error BY <3>1, <3>2 DEF Connection
    <3> QED BY <2>2, <3>3 DEF AcceptK
  <2> QED BY <2>1, <2>2
<1>5. UNCHANGED <<plan, handle, race>> BY DEF Received
<1> QED BY <1>1, <1>2, <1>3, <1>4, <1>5, NotifyAccept

LEMMA AcceptMoves ==
    ASSUME TypeOK, NEW k \in Connection
    PROVE /\ AcceptK(k, k)
          /\ AcceptK(k, MadeK(k)) /\ AcceptK(k, ClosedK(k)) /\ AcceptK(k, StoppedK(k))
          /\ \A why : AcceptK(k, EndedK(k, why))
          /\ AcceptK(k, [k EXCEPT !.handshake = TRUE])
          /\ \A b : AcceptK(k, [k EXCEPT !.closeRequested = b])
<1>1. AcceptK(k, k) BY DEF AcceptK
<1>2. AcceptK(k, MadeK(k)) BY DEF AcceptK, MadeK, Connection
<1>3. AcceptK(k, ClosedK(k)) BY DEF AcceptK, ClosedK, CloseK, Connection
<1>4. AcceptK(k, StoppedK(k)) BY DEF AcceptK, StoppedK, StopK, Connection
<1>5. \A why : AcceptK(k, EndedK(k, why)) BY DEF AcceptK, EndedK, Connection
<1>6. AcceptK(k, [k EXCEPT !.handshake = TRUE]) BY DEF AcceptK, Connection
<1>7. \A b : AcceptK(k, [k EXCEPT !.closeRequested = b]) BY DEF AcceptK, Connection
<1> QED BY <1>1, <1>2, <1>3, <1>4, <1>5, <1>6, <1>7

LEMMA PeerAccept == ASSUME TypeOK, AcceptInv, PeerStep PROVE AcceptInv'
<1>1. conns \in [Conn -> Connection] BY TypeParts
<1>2. \A d \in Conn : AcceptK(conns[d], conns[d]) BY DEF AcceptK
<1>7. CASE ReceiveOther BY <1>1, <1>2, <1>7, NotifyAccept DEF ReceiveOther
<1> SUFFICES ASSUME NEW c \in Conn,
                    \/ ReceiveInitial(c) \/ Handshake(c) \/ ReceivePacket(c)
                    \/ ReceiveEnd(c) \/ ReceiveLate(c)
             PROVE AcceptInv'
  BY <1>7 DEF PeerStep
<1>3. CASE ReceiveInitial(c)
  <2>1. PICK C : C = Made(conns, c) OBVIOUS
  <2>2. C \in [Conn -> Connection] BY <1>1, <2>1, HelperTypes
  <2>3. C = [conns EXCEPT ![c] = MadeK(conns[c])] BY <1>1, <2>1, MadeIs
  <2>4. AcceptK(conns[c], MadeK(conns[c])) BY <1>1, AcceptMoves
  <2>5. \A d \in Conn : AcceptK(conns[d], C[d]) BY <1>1, <1>2, <2>3, <2>4
  <2>6. Received(C, c) BY <1>3, <2>1 DEF ReceiveInitial
  <2> QED BY <2>2, <2>5, <2>6, ReceivedAccept
<1>4. CASE Handshake(c)
  <2>1. PICK C : C = Shaken(conns, c) OBVIOUS
  <2>2. C \in [Conn -> Connection] /\ Received(C, c)
    BY <1>1, <1>4, <2>1, ShakenType DEF Handshake, Shaken
  <2>3. C = [conns EXCEPT ![c] = [conns[c] EXCEPT !.handshake = TRUE]] BY <2>1 DEF Shaken
  <2>4. AcceptK(conns[c], [conns[c] EXCEPT !.handshake = TRUE]) BY <1>1, AcceptMoves
  <2>5. \A d \in Conn : AcceptK(conns[d], C[d]) BY <1>1, <1>2, <2>3, <2>4
  <2> QED BY <2>2, <2>5, ReceivedAccept
<1>5. CASE ReceiveEnd(c)
  <2>1. PICK why : Received(Ended(conns, c, why), c) BY <1>5 DEF ReceiveEnd
  <2>2. PICK C : C = Ended(conns, c, why) OBVIOUS
  <2>3. C \in [Conn -> Connection] BY <1>1, <2>2, HelperTypes
  <2>4. C = [conns EXCEPT ![c] = EndedK(conns[c], why)] BY <1>1, <2>2, EndedIs
  <2>5. AcceptK(conns[c], EndedK(conns[c], why)) BY <1>1, AcceptMoves
  <2>6. \A d \in Conn : AcceptK(conns[d], C[d]) BY <1>1, <1>2, <2>4, <2>5
  <2> QED BY <2>1, <2>2, <2>3, <2>6, ReceivedAccept
<1>6. CASE ReceiveLate(c)
  <2>1. PICK C : C = Requested(conns, c, TRUE) OBVIOUS
  <2>2. C = [conns EXCEPT ![c] = [conns[c] EXCEPT !.closeRequested = TRUE]] BY <2>1 DEF Requested
  <2>3. AcceptK(conns[c], [conns[c] EXCEPT !.closeRequested = TRUE]) BY <1>1, AcceptMoves
  <2>4. \A d \in Conn : AcceptK(conns[d], C[d]) BY <1>1, <1>2, <2>2, <2>3
  <2>5. C \in [Conn -> Connection] BY <1>1, <2>1, RequestedType
  <2>6. Notify(C) /\ UNCHANGED <<plan, handle, race>> BY <1>6, <2>1 DEF ReceiveLate, Requested
  <2> QED BY <2>4, <2>5, <2>6, NotifyAccept
<1>8. CASE ReceivePacket(c) BY <1>1, <1>2, <1>8, ReceivedAccept DEF ReceivePacket
<1> QED BY <1>3, <1>4, <1>5, <1>6, <1>8

\* What a step that neither notifies nor completes a handshake leaves of one connection.
QuietK(k, l) ==
    /\ AcceptK(k, l)
    /\ (l.where = "live" /\ l.handshake /\ ~l.error) => (k.where = "live" /\ k.handshake)

LEMMA QuietMoves ==
    ASSUME TypeOK, NEW k \in Connection
    PROVE /\ QuietK(k, k)
          /\ \A why : QuietK(k, EndedK(k, why))
          /\ QuietK(k, [k EXCEPT !.where = "gone"])
          /\ \A b : QuietK(k, [k EXCEPT !.closeRequested = b])
          /\ \A e : QuietK(k, [k EXCEPT !.dirty = FALSE, !.wrote = TRUE, !.expiry = e])
          /\ QuietK(k, [k EXCEPT !.closeRequested = FALSE, !.closeSent = TRUE, !.retire = TRUE])
          /\ QuietK(k, FailedK(k)) /\ QuietK(k, UntoldK(k)) /\ QuietK(k, WorkK(k))
          /\ \A b : QuietK(k, GoneK(k, b))
<1>1. QuietK(k, k) BY DEF AcceptK, QuietK
<1>2. \A why : QuietK(k, EndedK(k, why)) BY DEF AcceptK, QuietK, EndedK, Connection
<1>3. QuietK(k, [k EXCEPT !.where = "gone"]) BY DEF AcceptK, QuietK, Connection
<1>4. \A b : QuietK(k, [k EXCEPT !.closeRequested = b]) BY DEF AcceptK, QuietK, Connection
<1>5. \A e : QuietK(k, [k EXCEPT !.dirty = FALSE, !.wrote = TRUE, !.expiry = e])
  BY DEF AcceptK, QuietK, Connection
<1>6. QuietK(k, [k EXCEPT !.closeRequested = FALSE, !.closeSent = TRUE, !.retire = TRUE])
  BY DEF AcceptK, QuietK, Connection
<1>7. QuietK(k, FailedK(k)) /\ QuietK(k, UntoldK(k)) /\ QuietK(k, WorkK(k))
  BY DEF AcceptK, QuietK, FailedK, EndedK, UntoldK, WorkK, Connection
<1>8. \A b : QuietK(k, GoneK(k, b)) BY DEF AcceptK, QuietK, GoneK, Connection
<1> QED BY <1>1, <1>2, <1>3, <1>4, <1>5, <1>6, <1>7, <1>8

\* One connection changes, quietly.
LEMMA OneAccept ==
    ASSUME TypeOK, AcceptInv, UNCHANGED <<plan, incoming, race, handle>>,
           NEW c \in Conn, NEW k, conns' = [conns EXCEPT ![c] = k], QuietK(conns[c], k)
    PROVE AcceptInv'
<1>1. conns \in [Conn -> Connection] BY TypeParts
<1>2. \A d \in Conn : QuietK(conns[d], conns[d]) BY DEF QuietK, AcceptK
<1>3. \A d \in Conn : QuietK(conns[d], conns'[d]) BY <1>1, <1>2
<1> QED BY <1>3, QuietAccept DEF QuietK

LEMMA SenderAccept ==
    ASSUME TypeOK, SenderInv, AcceptInv, SenderStep \/ Expires PROVE AcceptInv'
<1>1. conns \in [Conn -> Connection] BY TypeParts
<1>2. UNCHANGED <<plan, race, handle>>
  BY DEF SenderStep, SenderTurn, SendClose, SendNothing, SendData, DataSent, CloseSent, TurnEnds,
         SenderStops, Expires
<1>3. CASE SenderTurn
  <2>1. PICK S : conns' = Gone(conns, S) BY <1>3 DEF SenderTurn
  <2>2. \A c \in Conn : conns'[c] = [conns[c] EXCEPT !.where = IF c \in S THEN "gone" ELSE @]
    BY <2>1 DEF Gone
  <2>3. ASSUME NEW c \in Conn PROVE QuietK(conns[c], conns'[c])
    <3>1. conns[c] \in Connection BY <1>1
    <3> QED BY <2>2, <3>1 DEF QuietK, AcceptK, Connection
  <2>4. incoming' = incoming BY <1>3 DEF SenderTurn
  <2> QED BY <1>2, <2>3, <2>4, QuietAccept DEF QuietK
<1>4. CASE SendClose \/ DataSent \/ SenderStops
  <2>1. UNCHANGED <<conns, incoming>> BY <1>4 DEF SendClose, DataSent, SenderStops
  <2>2. \A c \in Conn : QuietK(conns[c], conns'[c]) BY <2>1 DEF QuietK, AcceptK
  <2> QED BY <1>2, <2>1, <2>2, QuietAccept DEF QuietK
<1>5. CASE SendNothing
  <2>1. PICK c \in Conn : \E b : conns' = [conns EXCEPT ![c] = [conns[c] EXCEPT !.closeRequested = b]]
    <3>1. PICK c : c = Head(sender.rest) OBVIOUS
    <3>2. c \in Conn BY <1>5, <3>1, HeadLive DEF SendNothing, Turns
    <3>3. conns' = [conns EXCEPT ![c].closeRequested = @ /\ ~CloseDue(c)]
      BY <1>5, <3>1 DEF SendNothing
    <3>4. conns' = [conns EXCEPT ![c] = [conns[c] EXCEPT !.closeRequested = conns[c].closeRequested /\ ~CloseDue(c)]]
      BY <3>3
    <3> QED BY <3>2, <3>4
  <2>2. PICK k : conns' = [conns EXCEPT ![c] = k] /\ QuietK(conns[c], k)
    BY <1>1, <2>1, QuietMoves
  <2>3. incoming' = incoming BY <1>5 DEF SendNothing
  <2> QED BY <1>2, <2>2, <2>3, OneAccept
<1>6. CASE SendData
  <2>1. PICK c : c = Head(sender.rest) OBVIOUS
  <2>2. c \in Conn BY <1>6, <2>1, HeadLive DEF SendData, Turns
  <2>3. PICK e : conns' = [conns EXCEPT ![c] = [conns[c] EXCEPT !.dirty = FALSE, !.wrote = TRUE, !.expiry = e]]
    BY <1>6, <2>1 DEF SendData
  <2>4. QuietK(conns[c], [conns[c] EXCEPT !.dirty = FALSE, !.wrote = TRUE, !.expiry = e])
    BY <1>1, <2>2, QuietMoves
  <2>5. incoming' = incoming BY <1>6 DEF SendData
  <2> QED BY <1>2, <2>2, <2>3, <2>4, <2>5, OneAccept
<1>7. CASE CloseSent
  <2>1. PICK c : c = Head(sender.rest) OBVIOUS
  <2>2. c \in Conn BY <1>7, <2>1, HeadLive DEF CloseSent, SenderInv
  <2>3. conns' = [conns EXCEPT ![c] = [conns[c] EXCEPT !.closeRequested = FALSE, !.closeSent = TRUE, !.retire = TRUE]]
    BY <1>7, <2>1 DEF CloseSent
  <2>4. QuietK(conns[c], [conns[c] EXCEPT !.closeRequested = FALSE, !.closeSent = TRUE, !.retire = TRUE])
    BY <1>1, <2>2, QuietMoves
  <2>5. incoming' = incoming BY <1>7 DEF CloseSent
  <2> QED BY <1>2, <2>2, <2>3, <2>4, <2>5, OneAccept
<1>8. CASE TurnEnds
  <2>1. Notify(conns) BY <1>8 DEF TurnEnds
  <2>2. \A c \in Conn : AcceptK(conns[c], conns[c]) BY DEF AcceptK
  <2> QED BY <1>1, <1>2, <2>1, <2>2, NotifyAccept
<1>9. CASE Expires
  <2>1. PICK c : c = Head(sender.rest) OBVIOUS
  <2>2. c \in Conn BY <1>9, <2>1, HeadLive DEF Expires, Turns
  <2>3. PICK why : why = IF conns[c].handshake THEN "idle" ELSE "protocol" OBVIOUS
  <2>4. conns' = Ended(conns, c, why) BY <1>9, <2>1, <2>3 DEF Expires
  <2>5. conns' = [conns EXCEPT ![c] = EndedK(conns[c], why)] BY <1>1, <2>2, <2>4, EndedIs
  <2>6. QuietK(conns[c], EndedK(conns[c], why)) BY <1>1, <2>2, QuietMoves
  <2>7. incoming' = incoming BY <1>9 DEF Expires
  <2> QED BY <1>2, <2>2, <2>5, <2>6, <2>7, OneAccept
<1> QED BY <1>3, <1>4, <1>5, <1>6, <1>7, <1>8, <1>9 DEF SenderStep

LEMMA StopAccept ==
    ASSUME TypeOK, AcceptInv, NEW C, C = (IF run.stopped THEN conns ELSE Stopped(conns)),
           Notify(C), UNCHANGED <<plan, handle, race>>
    PROVE AcceptInv'
<1>1. conns \in [Conn -> Connection] BY TypeParts
<1>2. C \in [Conn -> Connection] BY <1>1, HelperTypes
<1>3. \A c \in Conn : Stopped(conns)[c] = StoppedK(conns[c]) BY StoppedIs
<1>4. \A c \in Conn : AcceptK(conns[c], C[c]) BY <1>1, <1>3, AcceptMoves
<1> QED BY <1>2, <1>4, NotifyAccept

LEMMA FailAccept ==
    ASSUME TypeOK, SenderInv, AcceptInv, WriteFails \/ SendFails \/ CloseFails
    PROVE AcceptInv'
<1>1. conns \in [Conn -> Connection] BY TypeParts
<1> DEFINE h == Head(sender.rest)
<1>2. sender.rest # << >> => h \in Conn BY HeadLive
<1>3. CASE WriteFails
  <2>1. h \in Conn /\ UNCHANGED <<plan, incoming, race, handle>> BY <1>2, <1>3 DEF WriteFails, Turns
  <2>2. conns' = [Ended(conns, h, "protocol") EXCEPT ![h].failed = TRUE] BY <1>3 DEF WriteFails
  <2> HIDE DEF h
  <2>3. conns' = [conns EXCEPT ![h] = FailedK(conns[h])] BY <1>1, <2>1, <2>2, FailedIs
  <2>4. QuietK(conns[h], FailedK(conns[h])) BY <1>1, <2>1, QuietMoves
  <2> QED BY <2>1, <2>3, <2>4, OneAccept
<1>4. ASSUME NotSent, sender.rest # << >> PROVE AcceptInv'
  <2>1. UNCHANGED <<plan, handle, race>> BY <1>4 DEF NotSent
  <2>2. CASE Working
    <3>1. PICK C : C = (IF run.stopped THEN conns ELSE Stopped(conns)) OBVIOUS
    <3>2. Notify(C) BY <1>4, <2>2, <3>1 DEF NotSent
    <3> QED BY <2>1, <3>1, <3>2, StopAccept
  <2>3. CASE ~Working
    <3>1. h \in Conn /\ incoming' = incoming BY <1>2, <1>4, <2>3 DEF NotSent
    <3>2. conns' = [conns EXCEPT ![h] = UntoldK(conns[h])] BY <1>4, <2>3 DEF NotSent, UntoldK
    <3> HIDE DEF h
    <3>3. QuietK(conns[h], UntoldK(conns[h])) BY <1>1, <3>1, QuietMoves
    <3> QED BY <2>1, <3>1, <3>2, <3>3, OneAccept
  <2> QED BY <2>2, <2>3
<1> HIDE DEF h
<1> QED BY <1>3, <1>4, Failing

LEMMA RaceAccept ==
    ASSUME TypeOK, AcceptInv, RaceStep PROVE AcceptInv'
<1>1. plan.role = "client"
  <2>1. race.pc = "trying" \/ \E c \in Conn : handle[c] = "connecting"
    BY DEF RaceStep, RaceGoesOn, AttemptFailed, RaceWon, RaceCanceled, AttemptEnds
  <2> QED BY <2>1, Racing
<1>2. plan' = plan
  BY DEF RaceStep, RaceGoesOn, AttemptFailed, RaceWon, RaceCanceled, AttemptEnds
<1>3. incoming' = << >>
  <2>1. CASE RaceGoesOn \/ AttemptFailed \/ \E c \in Conn : AttemptEnds(c)
    <3>1. incoming' = incoming BY <2>1 DEF RaceGoesOn, AttemptFailed, AttemptEnds
    <3> QED BY <1>1, <3>1 DEF AcceptInv
  <2>2. CASE RaceWon \/ RaceCanceled
    <3>1. PICK S : Notify(ClosedAll(conns, S)) BY <2>2 DEF RaceWon, RaceCanceled, Abandon
    <3>2. PICK C : C = ClosedAll(conns, S) OBVIOUS
    <3>3. C \in [Conn -> Connection] BY <3>2, TypeParts, HelperTypes
    <3> QED BY <1>1, <3>1, <3>2, <3>3, NotifyClient
  <2> QED BY <2>1, <2>2 DEF RaceStep
<1> QED BY <1>1, <1>2, <1>3, ClientAccept

LEMMA TakeAccept == ASSUME TypeOK, AcceptInv, Accept PROVE AcceptInv'
<1>1. PICK i \in DOMAIN incoming :
          /\ ~conns[incoming[i]].error /\ \A j \in 1..(i - 1) : conns[incoming[j]].error
          /\ handle' = [handle EXCEPT ![incoming[i]] = "held"]
          /\ incoming' = SubSeq(incoming, i + 1, Len(incoming))
  BY DEF Accept
<1>2. UNCHANGED <<plan, conns, race>> /\ plan.role = "server" BY DEF Accept
<1>3. incoming \in Seq(Conn) BY TypeParts
<1>4. PICK n \in Nat : n = Len(incoming) /\ DOMAIN incoming = 1..n BY <1>3
<1>5. Len(incoming') = n - i /\ \A j \in 1 .. n - i : incoming'[j] = incoming[i + j]
  BY <1>1, <1>3, <1>4
<1>6. incoming' \in Seq(Conn) BY <1>1, <1>3, <1>4
<1>7. DOMAIN incoming' = 1 .. n - i BY <1>5, <1>6
<1>8. \A j, k \in 1..n : incoming[j] = incoming[k] => j = k
  BY <1>4 DEF AcceptInv, IsInjective
<1>9. IsInjective(incoming')
  <2> SUFFICES ASSUME NEW j \in 1 .. n - i, NEW k \in 1 .. n - i, incoming'[j] = incoming'[k]
               PROVE j = k
    BY <1>7 DEF IsInjective
  <2>1. i + j \in 1..n /\ i + k \in 1..n BY <1>4
  <2>2. incoming[i + j] = incoming[i + k] BY <1>5
  <2>3. i + j = i + k BY <1>8, <2>1, <2>2
  <2> QED BY <1>4, <2>3
<1>10. PICK c : c = incoming[i] OBVIOUS
<1>11. c \in Conn /\ c \in ToSet(incoming) BY <1>3, <1>10 DEF ToSet
<1>12. ASSUME NEW d \in ToSet(incoming') PROVE d \in ToSet(incoming) /\ d # c
  <2>1. PICK j \in 1 .. n - i : d = incoming'[j] BY <1>7 DEF ToSet
  <2>2. d = incoming[i + j] /\ i + j \in 1..n BY <1>4, <1>5, <2>1
  <2>3. d \in ToSet(incoming) BY <1>4, <2>2 DEF ToSet
  <2>4. i + j # i BY <1>4
  <2>5. d # c BY <1>4, <1>8, <1>10, <2>2, <2>4
  <2> QED BY <2>3, <2>5
<1>13. ASSUME NEW d \in ToSet(incoming), d # c, ~conns[d].error PROVE d \in ToSet(incoming')
  <2>1. PICK j \in 1..n : d = incoming[j] BY <1>4 DEF ToSet
  <2>2. j # i BY <1>10, <1>13, <2>1
  <2>3. ~(j < i)
    <3>1. ASSUME j < i PROVE FALSE
      <4>1. j \in 1 .. (i - 1) BY <1>4, <3>1
      <4> QED BY <1>1, <1>13, <2>1, <4>1
    <3> QED BY <3>1
  <2>4. j - i \in 1 .. n - i /\ i + (j - i) = j BY <1>4, <2>2, <2>3
  <2>5. d = incoming'[j - i] BY <1>5, <2>1, <2>4
  <2> QED BY <1>7, <2>4, <2>5 DEF ToSet
<1>14. handle \in HandleType BY TypeParts DEF ActorTypes
<1>15. \A d \in Conn : handle'[d] = IF d = c THEN "held" ELSE handle[d]
  BY <1>1, <1>10, <1>11, <1>14 DEF HandleType
<1>16. ToSet(incoming) \subseteq Conn BY <1>3, ToSetType
<1>17. \A d \in ToSet(incoming') : handle'[d] = "none" BY <1>12, <1>15, <1>16 DEF AcceptInv
<1>18. ASSUME NEW d \in Conn
       PROVE /\ handle'[d] # "connecting"
             /\ handle'[d] # "none" => conns[d].queued
             /\ d \in ToSet(incoming') => conns[d].queued
             /\ (conns[d].queued /\ ~conns[d].error) =>
                    d \in ToSet(incoming') \/ handle'[d] # "none"
  <2>1. /\ handle[d] # "connecting"
        /\ handle[d] # "none" => conns[d].queued
        /\ d \in ToSet(incoming) => conns[d].queued
        /\ (conns[d].queued /\ ~conns[d].error) => d \in ToSet(incoming) \/ handle[d] # "none"
    BY <1>2 DEF AcceptInv
  <2> QED BY <1>11, <1>12, <1>13, <1>15, <2>1
<1>19. race.pc = "none" /\ \A d \in Conn :
           (conns[d].where = "live" /\ conns[d].handshake /\ ~conns[d].error) => conns[d].queued
  BY <1>2 DEF AcceptInv
<1> QED BY <1>2, <1>9, <1>17, <1>18, <1>19 DEF AcceptInv

LEMMA ProgramAccept == ASSUME TypeOK, AcceptInv, ProgramStep PROVE AcceptInv'
<1>1. conns \in [Conn -> Connection] /\ handle \in HandleType BY TypeParts DEF ActorTypes
<1>2. CASE Stop
  <2>1. ~run.stopped /\ Notify(Stopped(conns)) /\ UNCHANGED <<plan, handle, race>>
    BY <1>2 DEF Stop
  <2>2. PICK C : C = (IF run.stopped THEN conns ELSE Stopped(conns)) OBVIOUS
  <2> QED BY <2>1, <2>2, StopAccept
<1>3. CASE Accept BY <1>3, TakeAccept
<1>4. ASSUME NEW c \in Conn, Close(c) \/ Drop(c) PROVE AcceptInv'
  <2>1. PICK C : C = Closed(conns, c) OBVIOUS
  <2>2. C \in [Conn -> Connection] BY <1>1, <2>1, HelperTypes
  <2>3. C = [conns EXCEPT ![c] = ClosedK(conns[c])] BY <1>1, <2>1, ClosedIs
  <2>4. AcceptK(conns[c], ClosedK(conns[c])) /\ \A d \in Conn : AcceptK(conns[d], conns[d])
    BY <1>1, AcceptMoves
  <2>5. \A d \in Conn : AcceptK(conns[d], C[d]) BY <1>1, <2>3, <2>4
  <2>6. Notify(C) /\ UNCHANGED <<plan, race>> BY <1>4, <2>1 DEF Close, Drop
  <2>7. handle[c] = "held" /\ \E h \in {"closing", "dropped"} : handle' = [handle EXCEPT ![c] = h]
    BY <1>4 DEF Close, Drop, Owned
  <2>8. \A d \in Conn : /\ handle'[d] = "none" <=> handle[d] = "none"
                        /\ handle'[d] = "connecting" => handle[d] = "connecting"
    BY <1>1, <2>7 DEF HandleType
  <2> QED BY <2>2, <2>5, <2>6, <2>8, NotifyAccept
<1>5. ASSUME NEW c \in Conn, CloseReturns(c) PROVE AcceptInv'
  <2>1. UNCHANGED <<plan, conns, incoming, race>> BY <1>5 DEF CloseReturns
  <2>2. \A d \in Conn : QuietK(conns[d], conns'[d]) BY <2>1 DEF QuietK, AcceptK
  <2>3. \A d \in Conn : /\ handle'[d] = "none" <=> handle[d] = "none"
                        /\ handle'[d] = "connecting" => handle[d] = "connecting"
    BY <1>1, <1>5 DEF HandleType, CloseReturns
  <2> QED BY <2>1, <2>2, <2>3, QuietAccept DEF QuietK
<1>6. ASSUME NEW c \in Conn, StreamWork(c) PROVE AcceptInv'
  <2>1. conns' = [conns EXCEPT ![c] = WorkK(conns[c])] BY <1>6 DEF StreamWork, WorkK
  <2>2. QuietK(conns[c], WorkK(conns[c])) BY <1>1, QuietMoves
  <2>3. UNCHANGED <<plan, incoming, race, handle>> BY <1>6 DEF StreamWork
  <2> QED BY <2>1, <2>2, <2>3, OneAccept
<1> QED BY <1>2, <1>3, <1>4, <1>5, <1>6 DEF ProgramStep

\* The context lets go of everything it had: what it erases has an error.
LEMMA EndAccept ==
    ASSUME TypeOK, ConnsInv, RunInv, SenderInv, AcceptInv, ContextEnds PROVE AcceptInv'
<1>1. UNCHANGED <<plan, handle, race>> /\ incoming' = << >> /\ run.pc = "closing"
  BY DEF ContextEnds
<1>2. \A c \in Live(conns) : conns[c].error BY <1>1 DEF RunInv, Working
<1>3. ToSet(incoming') = {} /\ IsInjective(incoming') BY <1>1, EmptyCopy DEF IsInjective
<1>4. conns \in [Conn -> Connection] BY TypeParts
<1>5. ASSUME NEW c \in Conn
      PROVE /\ AcceptK(conns[c], conns'[c]) /\ conns'[c].where # "live"
            /\ conns[c].where = "live" => conns[c].error
  <2>1. conns'[c] = IF c \in Live(conns) THEN GoneK(conns[c], c \notin ToSet(sender.rest))
                    ELSE conns[c]
    BY EndedConns
  <2>2. conns[c] \in Connection BY <1>4
  <2> QED BY <1>2, <2>1, <2>2 DEF AcceptK, GoneK, Connection, Live
<1>6. ASSUME plan.role = "server", NEW c \in Conn
      PROVE /\ handle'[c] # "connecting"
            /\ handle'[c] # "none" => conns'[c].queued
            /\ (conns'[c].queued /\ ~conns'[c].error) => handle'[c] # "none"
  <2>1. ConnOK(conns[c]) /\ conns[c] \in Connection BY <1>4 DEF ConnsInv
  <2>2. ~(conns[c].queued /\ ~conns[c].error)
    BY <1>5, <2>1 DEF ConnOK, Fresh, Connection
  <2> QED BY <1>1, <1>5, <1>6, <2>2 DEF AcceptInv, AcceptK
<1> QED BY <1>1, <1>3, <1>5, <1>6 DEF AcceptInv

LEMMA NextAccept == IInv /\ [Next]_vars => AcceptInv'
<1> SUFFICES ASSUME IInv, [Next]_vars PROVE AcceptInv'
  OBVIOUS
<1>1. TypeOK /\ ConnsInv /\ RunInv /\ SenderInv /\ AcceptInv BY DEF IInv
<1>2. CASE UNCHANGED <<plan, conns, incoming, handle, race>>
  <2>1. \A d \in Conn : QuietK(conns[d], conns'[d]) BY <1>2 DEF QuietK, AcceptK
  <2> QED BY <1>1, <1>2, <2>1, QuietAccept DEF QuietK
<1>3. CASE PeerStep BY <1>1, <1>3, PeerAccept
<1>4. CASE SenderStep \/ Expires BY <1>1, <1>4, SenderAccept
<1>5. CASE WriteFails \/ SendFails \/ CloseFails BY <1>1, <1>5, FailAccept
<1>6. CASE TimerStep
  BY <1>2, <1>6 DEF TimerStep, TimerArms, TimerFires, TimerChanged
<1>7. CASE RaceStep BY <1>1, <1>7, RaceAccept
<1>8. CASE ProgramStep BY <1>1, <1>8, ProgramAccept
<1>9. CASE ClosingStarts
  <2>1. PICK C : C = (IF run.stopped THEN conns ELSE Stopped(conns)) OBVIOUS
  <2>2. Notify(C) /\ UNCHANGED <<plan, handle, race>> BY <1>9, <2>1 DEF ClosingStarts
  <2> QED BY <1>1, <2>1, <2>2, StopAccept
<1>10. CASE ContextEnds BY <1>1, <1>10, EndAccept
<1> QED BY <1>2, <1>3, <1>4, <1>5, <1>6, <1>7, <1>8, <1>9, <1>10
       DEF Next, Faults, RunEnds, vars
-----------------------------------------------------------------------------
(* connect(). *)

\* What a step that makes no connection does to one of them, as the race sees it.
RaceK(k, l) ==
    /\ k.error => l.error
    /\ l.where = "live" => k.where = "live"
    /\ k.where = "none" => l.where = "none"

LEMMA QuietRace ==
    ASSUME TypeOK, RaceInv, UNCHANGED <<plan, handle, race>>,
           plan.role = "client" => \A c \in Conn : RaceK(conns[c], conns'[c])
    PROVE RaceInv'
<1>1. CASE plan.role # "client" BY <1>1 DEF RaceInv, RaceLeavesOne
<1>2. CASE plan.role = "client"
  <2>1. \A c \in Conn : RaceK(conns[c], conns'[c]) BY <1>2
  <2>2. ASSUME NEW i \in race.next .. Len(plan.candidates)
        PROVE conns'[plan.candidates[i]].where = "none" /\ handle[plan.candidates[i]] = "none"
    <3>1. plan.candidates[i] \in Conn
      <4>1. i \in 1 .. Len(plan.candidates)
        BY <2>2, PlanType, TypeParts DEF RaceInv, ActorTypes, RaceType
      <4> QED BY <4>1, PlanType
    <3> QED BY <1>2, <2>1, <2>2, <3>1 DEF RaceInv, RaceK
  <2>3. \A c \in Live(conns') : conns'[c].error \/ handle[c] \in {"connecting", "held", "closing"}
    <3> SUFFICES ASSUME NEW c \in Conn, conns'[c].where = "live"
                 PROVE conns'[c].error \/ handle[c] \in {"connecting", "held", "closing"}
      BY DEF Live
    <3>1. c \in Live(conns) BY <2>1 DEF RaceK, Live
    <3> QED BY <1>2, <2>1, <3>1 DEF RaceInv, RaceLeavesOne, RaceK
  <2>4. RaceLeavesOne' BY <1>2, <2>3 DEF RaceInv, RaceLeavesOne, Attempts
  <2> QED BY <1>2, <2>2, <2>4 DEF RaceInv
<1> QED BY <1>1, <1>2

LEMMA NotifyRace ==
    ASSUME TypeOK, RaceInv, UNCHANGED <<plan, handle, race>>, NEW C \in [Conn -> Connection],
           Notify(C), plan.role = "client" => \A c \in Conn : RaceK(conns[c], C[c])
    PROVE RaceInv'
<1>1. \A c \in Conn : Same(C[c], conns'[c]) BY NotifySame
<1>2. plan.role = "client" => \A c \in Conn : RaceK(conns[c], conns'[c])
  BY <1>1 DEF RaceK, Same
<1> QED BY <1>2, QuietRace

LEMMA RaceMoves ==
    ASSUME TypeOK, NEW k \in Connection
    PROVE /\ RaceK(k, k)
          /\ RaceK(k, ClosedK(k)) /\ RaceK(k, StoppedK(k))
          /\ \A why : RaceK(k, EndedK(k, why))
          /\ RaceK(k, [k EXCEPT !.handshake = TRUE])
          /\ \A b : RaceK(k, [k EXCEPT !.closeRequested = b])
          /\ k.where = "live" => RaceK(k, [k EXCEPT !.where = "gone"])
          /\ \A e : RaceK(k, [k EXCEPT !.dirty = TRUE, !.expiry = e])
          /\ \A e : RaceK(k, [k EXCEPT !.dirty = FALSE, !.wrote = TRUE, !.expiry = e])
          /\ RaceK(k, [k EXCEPT !.closeRequested = FALSE, !.closeSent = TRUE, !.retire = TRUE])
          /\ RaceK(k, FailedK(k)) /\ RaceK(k, UntoldK(k)) /\ RaceK(k, WorkK(k))
          /\ \A b : k.where = "live" => RaceK(k, GoneK(k, b))
<1>1. RaceK(k, k) BY DEF RaceK
<1>2. RaceK(k, ClosedK(k)) BY DEF RaceK, ClosedK, CloseK, Connection
<1>3. RaceK(k, StoppedK(k)) BY DEF RaceK, StoppedK, StopK, Connection
<1>4. \A why : RaceK(k, EndedK(k, why)) BY DEF RaceK, EndedK, Connection
<1>5. RaceK(k, [k EXCEPT !.handshake = TRUE]) BY DEF RaceK, Connection
<1>6. \A b : RaceK(k, [k EXCEPT !.closeRequested = b]) BY DEF RaceK, Connection
<1>7. k.where = "live" => RaceK(k, [k EXCEPT !.where = "gone"]) BY DEF RaceK, Connection
<1>8. \A e : RaceK(k, [k EXCEPT !.dirty = TRUE, !.expiry = e]) BY DEF RaceK, Connection
<1>9. \A e : RaceK(k, [k EXCEPT !.dirty = FALSE, !.wrote = TRUE, !.expiry = e])
  BY DEF RaceK, Connection
<1>10. RaceK(k, [k EXCEPT !.closeRequested = FALSE, !.closeSent = TRUE, !.retire = TRUE])
  BY DEF RaceK, Connection
<1>11. RaceK(k, FailedK(k)) /\ RaceK(k, UntoldK(k)) /\ RaceK(k, WorkK(k))
  BY DEF RaceK, FailedK, EndedK, UntoldK, WorkK, Connection
<1>12. \A b : k.where = "live" => RaceK(k, GoneK(k, b)) BY DEF RaceK, GoneK, Connection
<1> QED BY <1>1, <1>2, <1>3, <1>4, <1>5, <1>6, <1>7, <1>8, <1>9, <1>10, <1>11, <1>12

\* One connection changes.
LEMMA OneRace ==
    ASSUME TypeOK, NEW c \in Conn, NEW k, RaceK(conns[c], k), NEW C,
           C = [conns EXCEPT ![c] = k]
    PROVE \A d \in Conn : RaceK(conns[d], C[d])
<1>1. conns \in [Conn -> Connection] BY TypeParts
<1>2. \A d \in Conn : RaceK(conns[d], conns[d]) BY DEF RaceK
<1> QED BY <1>1, <1>2

LEMMA ReceivedRace ==
    ASSUME TypeOK, RaceInv, NEW c \in Conn, NEW C \in [Conn -> Connection], Received(C, c),
           plan.role = "client" => \A d \in Conn : RaceK(conns[d], C[d])
    PROVE RaceInv'
<1>1. PICK e \in 1..plan.horizon : Notify(Touched(C, c, e)) BY DEF Received, Touched
<1>2. PICK D : D = Touched(C, c, e) OBVIOUS
<1>3. D \in [Conn -> Connection] BY <1>2, TouchedType
<1>4. ASSUME NEW d \in Conn, plan.role = "client" PROVE RaceK(conns[d], D[d])
  <2>1. CASE d # c
    <3>1. D[d] = C[d] BY <1>2, <2>1 DEF Touched
    <3> QED BY <1>4, <3>1
  <2>2. CASE d = c
    <3>1. D[c] = [C[c] EXCEPT !.dirty = TRUE, !.expiry = e] BY <1>2 DEF Touched
    <3>2. C[c] \in Connection OBVIOUS
    <3>3. D[c].where = C[c].where /\ D[c].error = C[c].error BY <3>1, <3>2 DEF Connection
    <3> QED BY <1>4, <2>2, <3>3 DEF RaceK
  <2> QED BY <2>1, <2>2
<1>5. UNCHANGED <<plan, handle, race>> BY DEF Received
<1> QED BY <1>1, <1>2, <1>3, <1>4, <1>5, NotifyRace

LEMMA PeerRace == ASSUME TypeOK, RaceInv, PeerStep PROVE RaceInv'
<1>1. conns \in [Conn -> Connection] BY TypeParts
<1>6. \A d \in Conn : RaceK(conns[d], conns[d]) BY DEF RaceK
<1>7. CASE ReceiveOther BY <1>1, <1>6, <1>7, NotifyRace DEF ReceiveOther
<1> SUFFICES ASSUME NEW c \in Conn,
                    \/ ReceiveInitial(c) \/ Handshake(c) \/ ReceivePacket(c)
                    \/ ReceiveEnd(c) \/ ReceiveLate(c)
             PROVE RaceInv'
  BY <1>7 DEF PeerStep
<1>2. CASE ReceiveInitial(c)
  <2>1. PICK C : C = Made(conns, c) OBVIOUS
  <2>2. C \in [Conn -> Connection] BY <1>1, <2>1, HelperTypes
  <2>3. Received(C, c) /\ plan.role = "server" BY <1>2, <2>1 DEF ReceiveInitial
  <2> QED BY <2>2, <2>3, ReceivedRace
<1>3. CASE Handshake(c)
  <2>1. PICK C : C = Shaken(conns, c) OBVIOUS
  <2>2. C \in [Conn -> Connection] /\ Received(C, c)
    BY <1>1, <1>3, <2>1, ShakenType DEF Handshake, Shaken
  <2>3. C = [conns EXCEPT ![c] = [conns[c] EXCEPT !.handshake = TRUE]] BY <2>1 DEF Shaken
  <2>4. RaceK(conns[c], [conns[c] EXCEPT !.handshake = TRUE]) BY <1>1, RaceMoves
  <2>5. \A d \in Conn : RaceK(conns[d], C[d]) BY <2>3, <2>4, OneRace
  <2> QED BY <2>2, <2>5, ReceivedRace
<1>4. CASE ReceiveEnd(c)
  <2>1. PICK why : Received(Ended(conns, c, why), c) BY <1>4 DEF ReceiveEnd
  <2>2. PICK C : C = Ended(conns, c, why) OBVIOUS
  <2>3. C \in [Conn -> Connection] BY <1>1, <2>2, HelperTypes
  <2>4. C = [conns EXCEPT ![c] = EndedK(conns[c], why)] BY <1>1, <2>2, EndedIs
  <2>5. RaceK(conns[c], EndedK(conns[c], why)) BY <1>1, RaceMoves
  <2>6. \A d \in Conn : RaceK(conns[d], C[d]) BY <2>4, <2>5, OneRace
  <2> QED BY <2>1, <2>2, <2>3, <2>6, ReceivedRace
<1>5. CASE ReceiveLate(c)
  <2>1. PICK C : C = Requested(conns, c, TRUE) OBVIOUS
  <2>2. C = [conns EXCEPT ![c] = [conns[c] EXCEPT !.closeRequested = TRUE]] BY <2>1 DEF Requested
  <2>3. RaceK(conns[c], [conns[c] EXCEPT !.closeRequested = TRUE]) BY <1>1, RaceMoves
  <2>4. \A d \in Conn : RaceK(conns[d], C[d]) BY <2>2, <2>3, OneRace
  <2>5. C \in [Conn -> Connection] BY <1>1, <2>1, RequestedType
  <2>6. Notify(C) /\ UNCHANGED <<plan, handle, race>> BY <1>5, <2>1 DEF ReceiveLate, Requested
  <2> QED BY <2>4, <2>5, <2>6, NotifyRace
<1>8. CASE ReceivePacket(c) BY <1>1, <1>6, <1>8, ReceivedRace DEF ReceivePacket
<1> QED BY <1>2, <1>3, <1>4, <1>5, <1>8

LEMMA SenderRace ==
    ASSUME TypeOK, SenderInv, RaceInv, SenderStep \/ Expires PROVE RaceInv'
<1>1. conns \in [Conn -> Connection] BY TypeParts
<1>2. UNCHANGED <<plan, race, handle>>
  BY DEF SenderStep, SenderTurn, SendClose, SendNothing, SendData, DataSent, CloseSent, TurnEnds,
         SenderStops, Expires
<1>3. CASE SenderTurn
  <2>1. PICK S \in SUBSET Live(conns) : conns' = Gone(conns, S) BY <1>3 DEF SenderTurn
  <2>2. ASSUME NEW c \in Conn PROVE RaceK(conns[c], conns'[c])
    <3>1. conns'[c] = [conns[c] EXCEPT !.where = IF c \in S THEN "gone" ELSE @] BY <2>1 DEF Gone
    <3>2. conns[c] \in Connection /\ (c \in S => conns[c].where = "live") BY <1>1 DEF Live
    <3> QED BY <3>1, <3>2 DEF RaceK, Connection
  <2> QED BY <1>2, <2>2, QuietRace
<1>4. CASE SendClose \/ DataSent \/ SenderStops
  <2>1. conns' = conns BY <1>4 DEF SendClose, DataSent, SenderStops
  <2>2. \A c \in Conn : RaceK(conns[c], conns'[c]) BY <2>1 DEF RaceK
  <2> QED BY <1>2, <2>2, QuietRace
<1>5. CASE SendNothing
  <2>1. PICK c : c = Head(sender.rest) OBVIOUS
  <2>2. c \in Conn BY <1>5, <2>1, HeadLive DEF SendNothing, Turns
  <2>3. conns' = [conns EXCEPT ![c] = [conns[c] EXCEPT !.closeRequested = conns[c].closeRequested /\ ~CloseDue(c)]]
    BY <1>5, <2>1 DEF SendNothing
  <2>4. RaceK(conns[c], [conns[c] EXCEPT !.closeRequested = conns[c].closeRequested /\ ~CloseDue(c)])
    BY <1>1, <2>2, RaceMoves
  <2>5. \A d \in Conn : RaceK(conns[d], conns'[d]) BY <2>2, <2>3, <2>4, OneRace
  <2> QED BY <1>2, <2>5, QuietRace
<1>6. CASE SendData
  <2>1. PICK c : c = Head(sender.rest) OBVIOUS
  <2>2. c \in Conn BY <1>6, <2>1, HeadLive DEF SendData, Turns
  <2>3. PICK e : conns' = [conns EXCEPT ![c] = [conns[c] EXCEPT !.dirty = FALSE, !.wrote = TRUE, !.expiry = e]]
    BY <1>6, <2>1 DEF SendData
  <2>4. RaceK(conns[c], [conns[c] EXCEPT !.dirty = FALSE, !.wrote = TRUE, !.expiry = e])
    BY <1>1, <2>2, RaceMoves
  <2>5. \A d \in Conn : RaceK(conns[d], conns'[d]) BY <2>2, <2>3, <2>4, OneRace
  <2> QED BY <1>2, <2>5, QuietRace
<1>7. CASE CloseSent
  <2>1. PICK c : c = Head(sender.rest) OBVIOUS
  <2>2. c \in Conn BY <1>7, <2>1, HeadLive DEF CloseSent, SenderInv
  <2>3. conns' = [conns EXCEPT ![c] = [conns[c] EXCEPT !.closeRequested = FALSE, !.closeSent = TRUE, !.retire = TRUE]]
    BY <1>7, <2>1 DEF CloseSent
  <2>4. RaceK(conns[c], [conns[c] EXCEPT !.closeRequested = FALSE, !.closeSent = TRUE, !.retire = TRUE])
    BY <1>1, <2>2, RaceMoves
  <2>5. \A d \in Conn : RaceK(conns[d], conns'[d]) BY <2>2, <2>3, <2>4, OneRace
  <2> QED BY <1>2, <2>5, QuietRace
<1>8. CASE TurnEnds
  <2>1. Notify(conns) BY <1>8 DEF TurnEnds
  <2>2. \A c \in Conn : RaceK(conns[c], conns[c]) BY DEF RaceK
  <2> QED BY <1>1, <1>2, <2>1, <2>2, NotifyRace
<1>9. CASE Expires
  <2>1. PICK c : c = Head(sender.rest) OBVIOUS
  <2>2. c \in Conn BY <1>9, <2>1, HeadLive DEF Expires, Turns
  <2>3. PICK why : why = IF conns[c].handshake THEN "idle" ELSE "protocol" OBVIOUS
  <2>4. conns' = Ended(conns, c, why) BY <1>9, <2>1, <2>3 DEF Expires
  <2>5. conns' = [conns EXCEPT ![c] = EndedK(conns[c], why)] BY <1>1, <2>2, <2>4, EndedIs
  <2>6. RaceK(conns[c], EndedK(conns[c], why)) BY <1>1, <2>2, RaceMoves
  <2>7. \A d \in Conn : RaceK(conns[d], conns'[d]) BY <2>2, <2>5, <2>6, OneRace
  <2> QED BY <1>2, <2>7, QuietRace
<1> QED BY <1>3, <1>4, <1>5, <1>6, <1>7, <1>8, <1>9 DEF SenderStep

LEMMA StopRace ==
    ASSUME TypeOK, RaceInv, NEW C, C = (IF run.stopped THEN conns ELSE Stopped(conns)),
           Notify(C), UNCHANGED <<plan, handle, race>>
    PROVE RaceInv'
<1>1. conns \in [Conn -> Connection] BY TypeParts
<1>2. C \in [Conn -> Connection] BY <1>1, HelperTypes
<1>3. \A c \in Conn : Stopped(conns)[c] = StoppedK(conns[c]) BY StoppedIs
<1>4. \A c \in Conn : RaceK(conns[c], C[c]) BY <1>1, <1>3, RaceMoves
<1> QED BY <1>2, <1>4, NotifyRace

LEMMA FailRace ==
    ASSUME TypeOK, SenderInv, RaceInv, WriteFails \/ SendFails \/ CloseFails \/ RunEnds
    PROVE RaceInv'
<1>1. conns \in [Conn -> Connection] BY TypeParts
<1>2. UNCHANGED <<plan, handle, race>>
  BY DEF WriteFails, SendFails, CloseFails, NotSent, RunEnds, ClosingStarts, ContextEnds
<1> DEFINE h == Head(sender.rest)
<1>3. sender.rest # << >> => h \in Conn BY HeadLive
<1>4. CASE WriteFails
  <2>1. h \in Conn BY <1>3, <1>4 DEF WriteFails, Turns
  <2>2. conns' = [Ended(conns, h, "protocol") EXCEPT ![h].failed = TRUE] BY <1>4 DEF WriteFails
  <2> HIDE DEF h
  <2>3. conns' = [conns EXCEPT ![h] = FailedK(conns[h])] BY <1>1, <2>1, <2>2, FailedIs
  <2>4. RaceK(conns[h], FailedK(conns[h])) BY <1>1, <2>1, RaceMoves
  <2>5. \A d \in Conn : RaceK(conns[d], conns'[d]) BY <2>1, <2>3, <2>4, OneRace
  <2> QED BY <1>2, <2>5, QuietRace
<1>5. ASSUME NotSent, sender.rest # << >> PROVE RaceInv'
  <2>1. CASE Working
    <3>1. PICK C : C = (IF run.stopped THEN conns ELSE Stopped(conns)) OBVIOUS
    <3>2. Notify(C) BY <1>5, <2>1, <3>1 DEF NotSent
    <3> QED BY <1>2, <3>1, <3>2, StopRace
  <2>2. CASE ~Working
    <3>1. h \in Conn BY <1>3, <1>5
    <3>2. conns' = [conns EXCEPT ![h] = UntoldK(conns[h])] BY <1>5, <2>2 DEF NotSent, UntoldK
    <3> HIDE DEF h
    <3>3. RaceK(conns[h], UntoldK(conns[h])) BY <1>1, <3>1, RaceMoves
    <3>4. \A d \in Conn : RaceK(conns[d], conns'[d]) BY <3>1, <3>2, <3>3, OneRace
    <3> QED BY <1>2, <3>4, QuietRace
  <2> QED BY <2>1, <2>2
<1> HIDE DEF h
<1>6. CASE ClosingStarts
  <2>1. PICK C : C = (IF run.stopped THEN conns ELSE Stopped(conns)) OBVIOUS
  <2>2. Notify(C) BY <1>6, <2>1 DEF ClosingStarts
  <2> QED BY <1>2, <2>1, <2>2, StopRace
<1>7. CASE ContextEnds
  <2>1. ASSUME NEW c \in Conn PROVE RaceK(conns[c], conns'[c])
    <3>1. conns'[c] = IF c \in Live(conns) THEN GoneK(conns[c], c \notin ToSet(sender.rest))
                      ELSE conns[c]
      BY <1>7, EndedConns
    <3>2. conns[c] \in Connection BY <1>1
    <3>3. CASE c \in Live(conns)
      <4>1. conns[c].where = "live" BY <3>3 DEF Live
      <4>2. RaceK(conns[c], GoneK(conns[c], c \notin ToSet(sender.rest)))
        BY <3>2, <4>1, RaceMoves
      <4> QED BY <3>1, <3>3, <4>2
    <3>4. CASE c \notin Live(conns)
      <4>1. RaceK(conns[c], conns[c]) BY <3>2, RaceMoves
      <4> QED BY <3>1, <3>4, <4>1
    <3> QED BY <3>3, <3>4
  <2> QED BY <1>2, <2>1, QuietRace
<1> QED BY <1>4, <1>5, <1>6, <1>7, Failing DEF RunEnds

\* connect(endpoint) of the next candidate takes one from the untried ones.
LEMMA SpawnRace ==
    ASSUME TypeOK, ConnsInv, RaceInv, plan.role = "client", race.pc = "trying", Untried,
           NEW done \in Seq(Conn), Spawn(done), plan' = plan,
           \A c \in Conn : handle[c] = "held" => c \in ToSet(done)
    PROVE RaceInv'
<1> DEFINE c == plan.candidates[race.next]
<1>1. conns \in [Conn -> Connection] /\ handle \in HandleType /\ race \in RaceType
  BY TypeParts DEF ActorTypes
<1>2. c \in Conn /\ race.next \in 1 .. Len(plan.candidates) BY CandidateType
<1>3. PICK made \in BOOLEAN : made = (~run.stopped /\ HasRoom(conns)) OBVIOUS
<1>4. /\ race' = [race EXCEPT !.next = @ + 1, !.done = IF made THEN done ELSE Append(done, c)]
      /\ conns' = IF made THEN Made(conns, c) ELSE conns
      /\ handle' = [handle EXCEPT ![c] = IF made THEN "connecting" ELSE "dropped"]
  BY <1>3 DEF Spawn
<1>5. \A i \in race.next .. Len(plan.candidates) :
          conns[plan.candidates[i]].where = "none" /\ handle[plan.candidates[i]] = "none"
  BY DEF RaceInv
<1>6. \A i \in 1 .. Len(plan.candidates) :
          plan.candidates[i] \in Conn /\ (plan.candidates[i] = c => i = race.next)
  <2>1. plan.candidates \in Seq(Conn) /\ IsInjective(plan.candidates) BY PlanType
  <2>2. \A i, j \in 1 .. Len(plan.candidates) :
            plan.candidates[i] = plan.candidates[j] => i = j
    BY <2>1 DEF IsInjective
  <2> QED BY <1>2, <2>1, <2>2
<1>7. conns[c].where = "none" /\ handle[c] = "none" /\ race.next \in Nat
  <2>1. race.next \in race.next .. Len(plan.candidates) BY <1>2
  <2> QED BY <1>2, <1>5, <2>1
<1> HIDE DEF c
<1>8. Made(conns, c) = [conns EXCEPT ![c] = MadeK(conns[c])] BY <1>1, <1>2, MadeIs
<1>9. race'.next = race.next + 1 /\ race'.pc = "trying"
      /\ race'.done = IF made THEN done ELSE Append(done, c)
  BY <1>1, <1>4 DEF RaceType
<1>10. \A d \in Conn \ {c} : conns'[d] = conns[d] /\ handle'[d] = handle[d]
  BY <1>1, <1>2, <1>4, <1>8 DEF HandleType
<1>11. /\ handle'[c] = IF made THEN "connecting" ELSE "dropped"
       /\ ~made => conns'[c] = conns[c]
  BY <1>1, <1>2, <1>4 DEF HandleType
<1>12. ASSUME NEW i \in race'.next .. Len(plan.candidates)
       PROVE conns'[plan.candidates[i]].where = "none" /\ handle'[plan.candidates[i]] = "none"
  <2>1. i \in race.next .. Len(plan.candidates) /\ i # race.next /\ i \in 1 .. Len(plan.candidates)
    BY <1>2, <1>9
  <2>2. plan.candidates[i] \in Conn \ {c} BY <1>6, <2>1
  <2> QED BY <1>5, <1>10, <2>1, <2>2
<1>13. ASSUME NEW d \in Conn, handle'[d] = "held" PROVE d \in ToSet(race'.done)
  <2>1. d \in ToSet(done) BY <1>10, <1>11, <1>13
  <2>2. ToSet(Append(done, c)) = ToSet(done) \cup {c} BY <1>2, ToSetAppend
  <2> QED BY <1>9, <2>1, <2>2
<1>14. ASSUME NEW d \in Live(conns')
       PROVE conns'[d].error \/ handle'[d] \in {"connecting", "held", "closing"}
  <2>1. d \in Conn /\ conns'[d].where = "live" BY DEF Live
  <2>2. CASE d = c BY <1>7, <1>11, <2>1, <2>2
  <2>3. CASE d # c
    <3>1. d \in Live(conns) BY <1>10, <2>1, <2>3 DEF Live
    <3> QED BY <1>10, <2>1, <2>3, <3>1 DEF RaceInv, RaceLeavesOne
  <2> QED BY <2>2, <2>3
<1> QED BY <1>7, <1>9, <1>12, <1>13, <1>14 DEF RaceInv, RaceLeavesOne

\* The candidates that are still untried are connections of Conn.
LEMMA UntriedConn ==
    ASSUME TypeOK, RaceInv
    PROVE race.next \in Nat /\ \A i \in race.next .. Len(plan.candidates) : plan.candidates[i] \in Conn
<1>1. race.next \in Nat /\ race.next >= 1 BY TypeParts DEF RaceInv, ActorTypes, RaceType
<1>2. \A i \in race.next .. Len(plan.candidates) : i \in 1 .. Len(plan.candidates) BY <1>1
<1> QED BY <1>1, <1>2, PlanType

\* The race is over: whatever was still connecting is let go of, and so is all that had
\* completed but one.
LEMMA AbandonRace ==
    ASSUME TypeOK, RaceInv, plan.role = "client", plan' = plan,
           NEW S \in SUBSET Conn, Abandon(S), race'.next = race.next, race'.pc # "trying",
           \A c \in S : handle[c] # "none",
           \A c \in Conn \ S : handle[c] # "connecting",
           \A c, d \in Conn \ S : (handle[c] = "held" /\ handle[d] = "held") => c = d
    PROVE RaceInv'
<1>1. conns \in [Conn -> Connection] BY TypeParts
<1>2. PICK C : C = ClosedAll(conns, S) OBVIOUS
<1>3. C \in [Conn -> Connection] /\ Notify(C) BY <1>1, <1>2, HelperTypes DEF Abandon
<1>4. \A c \in Conn : conns'[c].where = C[c].where /\ conns'[c].error = C[c].error
  BY <1>3, NotifySame DEF Same
<1>5. \A c \in Conn : C[c] = IF c \in S THEN ClosedK(conns[c]) ELSE conns[c]
  BY <1>1, <1>2, ClosedAllIs
<1>6. ASSUME NEW c \in Conn
      PROVE /\ C[c].where = conns[c].where
            /\ c \notin S => C[c].error = conns[c].error
            /\ (c \in S /\ C[c].where = "live") => C[c].error
  <2>1. conns[c] \in Connection BY <1>1
  <2> QED BY <1>5, <2>1 DEF ClosedK, CloseK, Connection
<1>7. \A c \in Conn : handle'[c] = IF c \in S THEN "dropped" ELSE handle[c] BY DEF Abandon
<1>8. ASSUME NEW i \in race.next .. Len(plan.candidates)
      PROVE conns'[plan.candidates[i]].where = "none" /\ handle'[plan.candidates[i]] = "none"
  <2>1. plan.candidates[i] \in Conn BY UntriedConn
  <2>2. conns[plan.candidates[i]].where = "none" /\ handle[plan.candidates[i]] = "none"
    BY DEF RaceInv
  <2> QED BY <1>4, <1>6, <1>7, <2>1, <2>2
<1>9. ASSUME NEW c \in Live(conns')
      PROVE conns'[c].error \/ handle'[c] \in {"connecting", "held", "closing"}
  <2>1. c \in Conn /\ conns'[c].where = "live" BY DEF Live
  <2>2. c \in Live(conns) BY <1>4, <1>6, <2>1 DEF Live
  <2>3. conns[c].error \/ handle[c] \in {"connecting", "held", "closing"}
    BY <2>2 DEF RaceInv, RaceLeavesOne
  <2> QED BY <1>4, <1>6, <1>7, <2>1, <2>3
<1>10. Attempts' = {} BY <1>7 DEF Attempts
<1>11. \A c, d \in Conn : (handle'[c] = "held" /\ handle'[d] = "held") => c = d BY <1>7
<1>12. race.next >= 1 BY DEF RaceInv
<1> QED BY <1>8, <1>9, <1>10, <1>11, <1>12 DEF RaceInv, RaceLeavesOne

LEMMA AttemptRace ==
    ASSUME TypeOK, RaceInv, plan.role = "client", NEW c \in Conn, AttemptEnds(c) PROVE RaceInv'
<1>1. handle \in HandleType /\ race \in RaceType BY TypeParts DEF ActorTypes
<1>2. /\ handle[c] = "connecting" /\ UNCHANGED <<plan, conns>>
      /\ handle' = [handle EXCEPT ![c] = IF conns[c].error THEN "dropped" ELSE "held"]
      /\ race' = [race EXCEPT !.done = Append(@, c)]
  BY DEF AttemptEnds
<1>3. race'.next = race.next /\ race'.pc = race.pc /\ race'.done = Append(race.done, c)
      /\ race.done \in Seq(Conn)
  BY <1>1, <1>2 DEF RaceType
<1>4. \A d \in Conn \ {c} : handle'[d] = handle[d] BY <1>1, <1>2 DEF HandleType
<1>5. handle'[c] = IF conns[c].error THEN "dropped" ELSE "held" BY <1>1, <1>2 DEF HandleType
<1>6. race.pc = "trying" BY <1>2 DEF RaceInv, RaceLeavesOne, Attempts
<1>7. ToSet(race'.done) = ToSet(race.done) \cup {c} BY <1>3, ToSetAppend
<1>8. \A d \in Conn : handle'[d] = "held" => d \in ToSet(race'.done)
  BY <1>4, <1>6, <1>7 DEF RaceInv
<1>9. \A i \in race.next .. Len(plan.candidates) : handle'[plan.candidates[i]] = "none"
  BY <1>2, <1>4, UntriedConn DEF RaceInv
<1>10. \A d \in Live(conns) : conns[d].error \/ handle'[d] \in {"connecting", "held", "closing"}
  BY <1>4, <1>5 DEF RaceInv, RaceLeavesOne, Live
<1> QED BY <1>2, <1>3, <1>6, <1>8, <1>9, <1>10 DEF RaceInv, RaceLeavesOne

LEMMA FailedRace ==
    ASSUME TypeOK, ConnsInv, RaceInv, plan.role = "client", AttemptFailed PROVE RaceInv'
<1>1. race \in RaceType BY TypeParts DEF ActorTypes
<1>2. race.pc = "trying" /\ race.done # << >> /\ handle[Head(race.done)] # "held" /\ plan' = plan
  BY DEF AttemptFailed
<1>3. race.done \in Seq(Conn) BY <1>1 DEF RaceType
<1>4. Tail(race.done) \in Seq(Conn) /\ ToSet(race.done) = {Head(race.done)} \cup ToSet(Tail(race.done))
  BY <1>2, <1>3, ToSetTail
<1>5. \A c \in Conn : handle[c] = "held" => c \in ToSet(Tail(race.done))
  BY <1>2, <1>4 DEF RaceInv
<1>6. CASE Untried
  <2>1. Spawn(Tail(race.done)) BY <1>6 DEF AttemptFailed
  <2> QED BY <1>2, <1>4, <1>5, <1>6, <2>1, SpawnRace
<1>7. CASE ~Untried
  <2>1. /\ UNCHANGED <<conns, handle>>
        /\ race' = [race EXCEPT !.done = Tail(@),
                                !.pc = IF Attempts = {} /\ Tail(race.done) = << >> THEN "lost" ELSE @]
    BY <1>7 DEF AttemptFailed
  <2>2. /\ race'.next = race.next /\ race'.done = Tail(race.done)
        /\ race'.pc = IF Attempts = {} /\ Tail(race.done) = << >> THEN "lost" ELSE race.pc
    BY <1>1, <2>1 DEF RaceType
  <2>3. race'.pc # "trying" => Attempts = {} /\ \A c \in Conn : handle[c] # "held"
    BY <1>2, <1>5, <2>2, EmptyCopy
  <2> QED BY <1>2, <1>5, <2>1, <2>2, <2>3 DEF RaceInv, RaceLeavesOne, Attempts
<1> QED BY <1>6, <1>7

LEMMA RaceRace ==
    ASSUME TypeOK, ConnsInv, AcceptInv, RaceInv, RaceStep PROVE RaceInv'
<1>1. plan.role = "client"
  <2>1. race.pc = "trying" \/ \E c \in Conn : handle[c] = "connecting"
    BY DEF RaceStep, RaceGoesOn, AttemptFailed, RaceWon, RaceCanceled, AttemptEnds
  <2> QED BY <2>1, Racing
<1>2. race \in RaceType BY TypeParts DEF ActorTypes
<1>3. race.done \in Seq(Conn) /\ ToSet(race.done) \subseteq Conn BY <1>2, ToSetType DEF RaceType
<1>4. CASE RaceGoesOn
  <2>1. race.pc = "trying" /\ Untried /\ Spawn(race.done) /\ plan' = plan BY <1>4 DEF RaceGoesOn
  <2>2. \A c \in Conn : handle[c] = "held" => c \in ToSet(race.done)
    BY <1>1, <2>1 DEF RaceInv
  <2> QED BY <1>1, <1>3, <2>1, <2>2, SpawnRace
<1>5. CASE AttemptFailed BY <1>1, <1>5, FailedRace
<1>6. CASE RaceWon
  <2>1. PICK S : S = Attempts \cup {c \in ToSet(Tail(race.done)) : handle[c] = "held"} OBVIOUS
  <2>2. /\ race.pc = "trying" /\ race.done # << >> /\ handle[Head(race.done)] = "held"
        /\ Abandon(S) /\ plan' = plan /\ race' = [race EXCEPT !.pc = "won", !.done = << >>]
    BY <1>6, <2>1 DEF RaceWon
  <2>3. ToSet(race.done) = {Head(race.done)} \cup ToSet(Tail(race.done))
    BY <1>3, <2>2, ToSetTail
  <2>4. S \in SUBSET Conn BY <1>3, <2>1, <2>3 DEF Attempts
  <2>5. race'.next = race.next /\ race'.pc = "won" BY <1>2, <2>2 DEF RaceType
  <2>6. \A c \in Conn \ S : handle[c] # "connecting" BY <2>1 DEF Attempts
  <2>7. \A c \in Conn \ S : handle[c] = "held" => c = Head(race.done)
    BY <1>1, <2>1, <2>2, <2>3 DEF RaceInv
  <2>8. \A c \in S : handle[c] # "none" BY <2>1 DEF Attempts
  <2> QED BY <1>1, <2>2, <2>4, <2>5, <2>6, <2>7, <2>8, AbandonRace
<1>7. CASE RaceCanceled
  <2>1. PICK S : S = Attempts \cup {c \in ToSet(race.done) : handle[c] = "held"} OBVIOUS
  <2>2. /\ race.pc = "trying" /\ Abandon(S) /\ plan' = plan
        /\ race' = [race EXCEPT !.pc = "canceled", !.done = << >>]
    BY <1>7, <2>1 DEF RaceCanceled
  <2>3. S \in SUBSET Conn BY <1>3, <2>1 DEF Attempts
  <2>4. race'.next = race.next /\ race'.pc = "canceled" BY <1>2, <2>2 DEF RaceType
  <2>5. \A c \in Conn \ S : handle[c] # "connecting" BY <2>1 DEF Attempts
  <2>6. \A c \in Conn \ S : handle[c] # "held" BY <1>1, <2>1, <2>2 DEF RaceInv
  <2>7. \A c \in S : handle[c] # "none" BY <2>1 DEF Attempts
  <2> QED BY <1>1, <2>2, <2>3, <2>4, <2>5, <2>6, <2>7, AbandonRace
<1>8. CASE \E c \in Conn : AttemptEnds(c) BY <1>1, <1>8, AttemptRace
<1> QED BY <1>4, <1>5, <1>6, <1>7, <1>8 DEF RaceStep

\* What is let go of, by close() or a destructor, has an error.
LEMMA LetGoRace ==
    ASSUME TypeOK, RaceInv, UNCHANGED <<plan, race>>, NEW c \in Conn,
           handle[c] \in {"held", "closing"}, handle[c] = "held" => race.pc # "trying",
           \A d \in Conn : RaceK(conns[d], conns'[d]),
           NEW h \in {"closing", "dropped"}, handle' = [handle EXCEPT ![c] = h],
           (h = "dropped" /\ conns'[c].where = "live") => conns'[c].error
    PROVE RaceInv'
<1>1. handle \in HandleType BY TypeParts DEF ActorTypes
<1>2. handle'[c] = h /\ \A d \in Conn \ {c} : handle'[d] = handle[d]
  BY <1>1 DEF HandleType
<1>3. CASE plan.role # "client" BY <1>3 DEF RaceInv, RaceLeavesOne
<1>4. CASE plan.role = "client"
  <2>1. ASSUME NEW i \in race.next .. Len(plan.candidates)
        PROVE conns'[plan.candidates[i]].where = "none" /\ handle'[plan.candidates[i]] = "none"
    <3>1. plan.candidates[i] \in Conn BY UntriedConn
    <3>2. conns[plan.candidates[i]].where = "none" /\ handle[plan.candidates[i]] = "none"
      BY <1>4 DEF RaceInv
    <3> QED BY <1>2, <3>1, <3>2 DEF RaceK
  <2>2. race.pc = "trying" => \A d \in Conn : handle'[d] = "held" => d \in ToSet(race.done)
    BY <1>2, <1>4 DEF RaceInv
  <2>3. ASSUME NEW d \in Live(conns')
        PROVE conns'[d].error \/ handle'[d] \in {"connecting", "held", "closing"}
    <3>1. d \in Conn /\ conns'[d].where = "live" BY DEF Live
    <3>2. d \in Live(conns) BY <3>1 DEF RaceK, Live
    <3> QED BY <1>2, <1>4, <3>1, <3>2 DEF RaceInv, RaceLeavesOne, RaceK
  <2>4. race.pc # "trying" => Attempts' = {} BY <1>2, <1>4 DEF RaceInv, RaceLeavesOne, Attempts
  <2>5. race.pc # "trying" =>
            \A d, e \in Conn : (handle'[d] = "held" /\ handle'[e] = "held") => d = e
    BY <1>2, <1>4 DEF RaceInv, RaceLeavesOne
  <2> QED BY <1>4, <2>1, <2>2, <2>3, <2>4, <2>5 DEF RaceInv, RaceLeavesOne
<1> QED BY <1>3, <1>4

LEMMA ProgramRace ==
    ASSUME TypeOK, ConnsInv, RunInv, RaceInv, ProgramStep PROVE RaceInv'
<1>1. conns \in [Conn -> Connection] BY TypeParts
<1>2. CASE Stop
  <2>1. ~run.stopped /\ Notify(Stopped(conns)) /\ UNCHANGED <<plan, handle, race>>
    BY <1>2 DEF Stop
  <2>2. PICK C : C = (IF run.stopped THEN conns ELSE Stopped(conns)) OBVIOUS
  <2> QED BY <2>1, <2>2, StopRace
<1>3. CASE Accept BY <1>3 DEF Accept, RaceInv, RaceLeavesOne
<1>4. ASSUME NEW c \in Conn, Close(c) \/ Drop(c) PROVE RaceInv'
  <2>1. PICK C : C = Closed(conns, c) OBVIOUS
  <2>2. C \in [Conn -> Connection] BY <1>1, <2>1, HelperTypes
  <2>3. C = [conns EXCEPT ![c] = ClosedK(conns[c])] BY <1>1, <2>1, ClosedIs
  <2>4. RaceK(conns[c], ClosedK(conns[c])) BY <1>1, RaceMoves
  <2>5. \A d \in Conn : RaceK(conns[d], C[d]) BY <2>3, <2>4, OneRace
  <2>6. Notify(C) /\ UNCHANGED <<plan, race>> BY <1>4, <2>1 DEF Close, Drop
  <2>7. \A d \in Conn : Same(C[d], conns'[d]) BY <2>2, <2>6, NotifySame
  <2>8. \A d \in Conn : RaceK(conns[d], conns'[d]) BY <2>5, <2>7 DEF RaceK, Same
  <2>9. conns'[c].where = "live" => conns'[c].error
    <3>1. conns[c] \in Connection /\ C[c] = ClosedK(conns[c]) BY <1>1, <2>3
    <3>2. C[c].where = "live" => C[c].error BY <3>1 DEF ClosedK, CloseK, Connection
    <3> QED BY <2>7, <3>2 DEF Same
  <2>10. PICK h \in {"closing", "dropped"} : handle' = [handle EXCEPT ![c] = h]
    BY <1>4 DEF Close, Drop
  <2>11. handle[c] = "held" /\ race.pc # "trying" BY <1>4 DEF Close, Drop, Owned
  <2> QED BY <2>6, <2>8, <2>9, <2>10, <2>11, LetGoRace
<1>5. ASSUME NEW c \in Conn, CloseReturns(c) PROVE RaceInv'
  <2>1. /\ UNCHANGED <<plan, conns, race>> /\ handle[c] = "closing"
        /\ handle' = [handle EXCEPT ![c] = "dropped"] /\ (conns[c].closeSent \/ conns[c].woken)
    BY <1>5 DEF CloseReturns
  <2>2. \A d \in Conn : RaceK(conns[d], conns'[d]) BY <2>1 DEF RaceK
  <2>3. conns'[c].where = "live" => conns'[c].error
    <3>1. conns[c].closeSent \/ conns[c].woken => conns[c].error BY DEF ConnsInv, ConnOK
    <3> QED BY <2>1, <3>1
  <2> QED BY <2>1, <2>2, <2>3, LetGoRace
<1>6. ASSUME NEW c \in Conn, StreamWork(c) PROVE RaceInv'
  <2>1. conns' = [conns EXCEPT ![c] = WorkK(conns[c])] /\ UNCHANGED <<plan, handle, race>>
    BY <1>6 DEF StreamWork, WorkK
  <2>2. RaceK(conns[c], WorkK(conns[c])) BY <1>1, RaceMoves
  <2>3. \A d \in Conn : RaceK(conns[d], conns'[d]) BY <2>1, <2>2, OneRace
  <2> QED BY <2>1, <2>3, QuietRace
<1> QED BY <1>2, <1>3, <1>4, <1>5, <1>6 DEF ProgramStep

LEMMA NextRace == IInv /\ [Next]_vars => RaceInv'
<1> SUFFICES ASSUME IInv, [Next]_vars PROVE RaceInv'
  OBVIOUS
<1>1. TypeOK /\ ConnsInv /\ RunInv /\ SenderInv /\ AcceptInv /\ RaceInv BY DEF IInv
<1>2. CASE UNCHANGED <<plan, conns, handle, race>>
  <2>1. \A d \in Conn : RaceK(conns[d], conns'[d]) BY <1>2 DEF RaceK
  <2> QED BY <1>1, <1>2, <2>1, QuietRace
<1>3. CASE PeerStep BY <1>1, <1>3, PeerRace
<1>4. CASE SenderStep \/ Expires BY <1>1, <1>4, SenderRace
<1>5. CASE WriteFails \/ SendFails \/ CloseFails \/ RunEnds BY <1>1, <1>5, FailRace
<1>6. CASE TimerStep
  BY <1>2, <1>6 DEF TimerStep, TimerArms, TimerFires, TimerChanged
<1>7. CASE RaceStep BY <1>1, <1>7, RaceRace
<1>8. CASE ProgramStep BY <1>1, <1>8, ProgramRace
<1> QED BY <1>2, <1>3, <1>4, <1>5, <1>6, <1>7, <1>8 DEF Next, Faults, vars
-----------------------------------------------------------------------------
(* The invariant, and what it says. *)

LEMMA InitInv == Init => IInv
<1> SUFFICES ASSUME Init PROVE IInv
  OBVIOUS
<1>1. TypeOK BY InitType
<1>2. \A c \in Conn : conns[c] = Fresh /\ handle[c] = "none" BY DEF Init
<1>3. ConnsInv
  <2>1. ConnOK(Fresh) BY DEF ConnOK, Fresh, Owing
  <2> QED BY <1>2, <2>1 DEF ConnsInv
<1>4. Live(conns) = {} BY <1>2 DEF Live, Fresh
<1>5. sender.pc = "top" /\ sender.rest = << >> /\ run.pc = "working" /\ run.stopped = FALSE
      /\ incoming = << >> /\ timer = "top" /\ sync.armed = 0
      /\ race.next = 1 /\ race.pc = IF plan.role = "client" THEN "trying" ELSE "none"
  BY DEF Init
<1>6. RunInv BY <1>4, <1>5 DEF RunInv, Working
<1>7. SenderInv BY <1>5, EmptyCopy DEF SenderInv
<1>8. ServeInv BY <1>5 DEF ServeInv
<1>9. TimerInv BY <1>5 DEF TimerInv, TimerCovers, Sleeps
<1>10. AcceptInv
  <2>1. ToSet(incoming) = {} /\ IsInjective(incoming) BY <1>5, EmptyCopy DEF IsInjective
  <2> QED BY <1>2, <1>5, <2>1 DEF AcceptInv, Fresh
<1>11. RaceInv
  <2>1. \A i \in race.next .. Len(plan.candidates) : plan.candidates[i] \in Conn
    <3>1. plan.candidates \in Seq(Conn) BY <1>1, PlanType
    <3> QED BY <1>5, <3>1
  <2>2. \A c \in Conn : conns[c].where = "none" /\ handle[c] = "none" BY <1>2 DEF Fresh
  <2>3. RaceLeavesOne BY <1>4, <1>5, <2>2 DEF RaceLeavesOne, Attempts
  <2> QED BY <1>5, <2>1, <2>2, <2>3 DEF RaceInv
<1>12. PassInv BY <1>2, <1>5 DEF PassInv, PeerTold, Fresh
<1> QED BY <1>1, <1>3, <1>6, <1>7, <1>8, <1>9, <1>10, <1>11, <1>12 DEF IInv

LEMMA NextInv == IInv /\ [Next]_vars => IInv'
<1> SUFFICES ASSUME IInv, [Next]_vars PROVE IInv'
  OBVIOUS
<1>1. TypeOK' BY NextType DEF IInv
<1>2. ConnsInv' BY NextConns
<1>3. ActorInv' BY NextActors
<1>4. AcceptInv' BY NextAccept
<1>5. RaceInv' BY NextRace
<1> QED BY <1>1, <1>2, <1>3, <1>4, <1>5 DEF IInv, ActorInv

\* Every behaviour keeps the inductive invariant: one part per actor, over the connections
\* they share.
THEOREM Invariant == Spec => []IInv
<1>1. Init => IInv BY InitInv
<1>2. IInv /\ [Next]_vars => IInv' BY NextInv
<1> QED BY <1>1, <1>2, PTL DEF Spec

\* The types hold, and a context never has more than Config::maxConnections connections,
\* those in their closing period included.
THEOREM TypeCorrect == Spec => []TypeOK
<1>1. IInv => TypeOK BY DEF IInv
<1> QED BY <1>1, Invariant, PTL

\* sendWorker never sleeps on work: what became due while it awaited the socket for another
\* connection left wake set.  The close of a connection that ngtcp2 ended in the sender's own
\* turn is the exception, and the only one.
THEOREM SenderMissesNothing == Spec => []NothingUnserved
<1>1. IInv => NothingUnserved
  <2> SUFFICES ASSUME IInv, Sleeps, NEW c \in Live(conns)
               PROVE /\ conns[c].dirty => conns[c].error
                     /\ (conns[c].closeRequested /\ ~conns[c].draining) =>
                            (~conns[c].wrote \/ (conns[c].failed /\ ~conns[c].closeSent))
    BY DEF NothingUnserved
  <2>1. Served(conns[c]) BY DEF IInv, ServeInv, Sleeps
  <2> QED BY <2>1 DEF Served
<1> QED BY <1>1, Invariant, PTL

\* While the sender sleeps, timerWorker's sleep ends no later than any connection's expiry,
\* or the worker is about to arm it again.
THEOREM TimerMissesNothing == Spec => []TimerCovers
<1>1. IInv => TimerCovers BY DEF IInv, TimerInv
<1> QED BY <1>1, Invariant, PTL

\* notify() offers every completed handshake to accept(), once: it is in `incoming`, in one
\* place, until it ends or somebody has taken it.
THEOREM OfferedOnce == Spec => []AcceptOnce
<1>1. IInv => AcceptOnce
  <2> SUFFICES ASSUME IInv PROVE AcceptOnce
    OBVIOUS
  <2>1. AcceptInv BY DEF IInv
  <2>2. \A i \in DOMAIN incoming : incoming[i] \in ToSet(incoming) BY DEF ToSet
  <2>3. \A i \in DOMAIN incoming : handle[incoming[i]] = "none" BY <2>1, <2>2 DEF AcceptInv
  <2>4. ASSUME plan.role = "server", NEW c \in Live(conns), conns[c].handshake, ~conns[c].error
        PROVE c \in ToSet(incoming) \/ handle[c] # "none"
    BY <2>1, <2>4 DEF AcceptInv, Live
  <2> QED BY <2>1, <2>3, <2>4 DEF AcceptInv, AcceptOnce
<1> QED BY <1>1, Invariant, PTL

\* connect() leaves one connection at most, whatever order its candidates complete, fail or
\* are canceled in.
THEOREM OneConnectionLeft == Spec => []RaceLeavesOne
<1>1. IInv => RaceLeavesOne BY DEF IInv, RaceInv
<1> QED BY <1>1, Invariant, PTL

\* A connection that owes its peer a close is not forgotten before the close was sent, but
\* for those that the closing pass could not send to or did not reach: one peer that cannot
\* be told never costs another its close.
THEOREM ClosesAreSent == Spec => []PeerTold
<1>1. IInv => PeerTold BY DEF IInv, PassInv
<1> QED BY <1>1, Invariant, PTL
=============================================================================
