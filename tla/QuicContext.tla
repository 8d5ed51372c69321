---------------------------- MODULE QuicContext ----------------------------
(***************************************************************************)
(* A QuicContext (src/quic/quic.cpp): its connections from the handshake to *)
(* the end of their closing period, run()'s workers, which talk through the *)
(* events wake and timerChanged, connect()'s race of candidates, accept(),  *)
(* close() and stop().  ngtcp2 and the peers are external: they complete,   *)
(* close or break a connection and move its expiry as they like.            *)
(*                                                                          *)
(* One thread: a step is what runs between two awaits.  Times are ranks in  *)
(* 1..Horizon, Horizon being the second the sender sleeps at most; there is *)
(* no clock, a sleep may end at any moment.                                 *)
(*                                                                          *)
(* A definition X_Y is X with one plausible bug.                            *)
(***************************************************************************)
EXTENDS Integers, Sequences, FiniteSets, SequencesExt, Queues

CONSTANTS
    Conn,     \* the connections there may be
    Horizon,  \* bound: ranks of times
    Plans     \* the bounds of a behaviour; it follows one of these

Plan == [role : {"client", "server"},
         candidates : Seq(Conn),  \* client: what connect() resolved, in the order it tries them
         peers : SUBSET Conn,     \* server: the clients
         room : Nat \ {0},        \* Config::maxConnections
         horizon : 1..Horizon,    \* the ranks of times used
         breaks : SUBSET {"peer", "protocol", "idle", "socket", "cancel", "late"}]
                                  \* what may happen to connections, socket and run()

ASSUME QuicContextAssumption ==
    /\ IsFiniteSet(Conn)
    /\ Horizon \in Nat \ {0}
    /\ Plans \subseteq Plan /\ \A p \in Plans : IsInjective(p.candidates)

VARIABLES
    plan,      \* which of Plans; plan.role is Config::role
    conns,     \* ConnectionState of each connection; where: not yet made, in
               \*   ContextState::connections, or erased
    incoming,  \* ContextState::incoming
    handle,    \* the program's side: a connect() or close() under way, or a QuicConnection
    race,      \* connect(string): pc, next, and the attempts that completed, in order
    sender,    \* sendWorker: pc and the rest of its copy of the connections
    timer,     \* timerWorker: pc
    sync,      \* wake, timerChanged, deadline (0: none yet), armedDeadline
    run        \* stopped; where run() is: working, closing or ended

vars == <<plan, conns, incoming, handle, race, sender, timer, sync, run>>

Fresh == [where |-> "none", handshake |-> FALSE, queued |-> FALSE, error |-> FALSE,
          closeRequested |-> FALSE, closeSent |-> FALSE, draining |-> FALSE, retire |-> FALSE,
          expiry |-> 1,
          dirty |-> FALSE,    \* something to send that no turn of the sender has seen
          wrote |-> FALSE,    \* ngtcp2 has written a packet: it can write a close
          gaveUp |-> FALSE,   \* history: close() took effect
          broken |-> FALSE,   \* history: the peer, ngtcp2 or a timeout ended it
          failed |-> FALSE,   \* history: ngtcp2 ended it in a turn of the sender
          healthy |-> FALSE,  \* history: it had no error when the context stopped
          woken |-> FALSE,    \* history: it was there when the context stopped
          untold |-> FALSE]   \* history: the closing pass failed to send to it or did not reach it

Init ==
    /\ plan \in Plans
    /\ conns = [c \in Conn |-> Fresh]
    /\ incoming = << >>
    /\ handle = [c \in Conn |-> "none"]
    /\ race = [pc |-> IF plan.role = "client" THEN "trying" ELSE "none", next |-> 1, done |-> << >>]
    /\ sender = [pc |-> "top", rest |-> << >>]
    /\ timer = "top"
    /\ sync = [wake |-> FALSE, timerChanged |-> FALSE, deadline |-> 0, armed |-> 0]
    /\ run = [stopped |-> FALSE, pc |-> "working"]

-----------------------------------------------------------------------------
(* Shared helpers: each takes the connections a step has left so far. *)

Live(C) == {c \in Conn : C[c].where = "live"}
Working == run.pc = "working"
Wake(s) == [s EXCEPT !.wake = TRUE]

\* ContextState::notify: what has completed its handshake is offered to accept() once.
Offered(C) == {c \in Live(C) : plan.role = "server" /\ C[c].handshake /\ ~C[c].queued /\ ~C[c].error}
Notify_Again(C) ==
    /\ conns' = C
    /\ incoming' = Kept(incoming \o SetToSeq(Offered(C)), {c \in Conn : ~C[c].error})
Notify(C) ==
    /\ conns' = [c \in Conn |-> [C[c] EXCEPT !.queued = @ \/ c \in Offered(C)]]
    /\ incoming' = Kept(incoming \o SetToSeq(Offered(C)), {c \in Conn : ~C[c].error})

\* makeConnection refuses when the context is full; connections that close still count.
HasRoom_One(C) == Cardinality(Live(C)) <= plan.room
HasRoom(C) == Cardinality(Live(C)) < plan.room
Made(C, c) == [C EXCEPT ![c].where = "live", ![c].dirty = TRUE, ![c].expiry = plan.horizon]

\* ConnectionState::close: by the program, or by the destructor of what it abandons.
Closed_Retire(C, c) ==
    IF C[c].where = "none" \/ C[c].error THEN C
    ELSE [C EXCEPT ![c].error = TRUE, ![c].closeRequested = TRUE, ![c].gaveUp = TRUE,
                   ![c].retire = TRUE]
Closed(C, c) ==
    IF C[c].where = "none" \/ C[c].error THEN C
    ELSE [C EXCEPT ![c].error = TRUE, ![c].closeRequested = TRUE, ![c].gaveUp = TRUE]
ClosedAll(C, S) == [c \in Conn |-> IF c \in S THEN Closed(C, c)[c] ELSE C[c]]

\* ConnectionState::handleError: why it ends decides whether the peer is told.
Ended(C, c, why) ==
    [C EXCEPT ![c].error = TRUE, ![c].retire = TRUE, ![c].broken = TRUE,
              ![c].draining = @ \/ why = "peer",
              ![c].closeRequested = @ \/ why = "protocol"]

\* ContextState::stop.
Stopped(C) ==
    [c \in Conn |-> IF C[c].where = "live"
                    THEN [C[c] EXCEPT !.closeRequested = @ \/ ~C[c].error, !.healthy = ~C[c].error,
                                      !.error = TRUE, !.woken = TRUE]
                    ELSE C[c]]

-----------------------------------------------------------------------------
(* What the peers do, as receive() sees it; then receiveWorker notifies and  *)
(* wakes the sender.                                                         *)

Receives == Working /\ ~run.stopped
Received(C, c) ==
    /\ \E e \in 1..plan.horizon : Notify([C EXCEPT ![c].dirty = TRUE, ![c].expiry = e])
    /\ sync' = Wake(sync)
    /\ UNCHANGED <<plan, handle, race, sender, timer, run>>

\* The first packet of a client makes a connection.
ReceiveInitial(c) ==
    /\ Receives /\ plan.role = "server" /\ c \in plan.peers
    /\ conns[c].where = "none" /\ HasRoom(conns)
    /\ Received(Made(conns, c), c)

\* Any other datagram: of no connection, or of one that has ended.
ReceiveOther ==
    /\ Receives
    /\ Notify(conns)
    /\ sync' = Wake(sync)
    /\ UNCHANGED <<plan, handle, race, sender, timer, run>>

Reads(c) == Receives /\ conns[c].where = "live" /\ ~conns[c].draining /\ ~conns[c].closeSent

\* A packet that changes nothing but what there is to send: an acknowledgement, data, a credit.
ReceivePacket(c) == Reads(c) /\ ~conns[c].error /\ Received(conns, c)

\* cb.handshake_completed, of a connection whose own handshake packets went out.
Handshake(c) ==
    /\ Reads(c) /\ ~conns[c].error /\ ~conns[c].handshake /\ conns[c].wrote
    /\ Received([conns EXCEPT ![c].handshake = TRUE], c)

\* The peer closed the connection, or broke the protocol, ALPN and PSK included.
ReceiveEnd(c) ==
    /\ Reads(c)
    /\ \E why \in {"peer", "protocol"} \cap plan.breaks : Received(Ended(conns, c, why), c)

\* A packet after our CONNECTION_CLOSE: it is sent again.
ReceiveLate(c) ==
    /\ Receives /\ "late" \in plan.breaks
    /\ conns[c].where = "live" /\ ~conns[c].draining /\ conns[c].closeSent
    /\ Notify([conns EXCEPT ![c].closeRequested = TRUE])
    /\ sync' = Wake(sync)
    /\ UNCHANGED <<plan, handle, race, sender, timer, run>>

-----------------------------------------------------------------------------
(* sendWorker. *)

Gone(C, S) == [c \in Conn |-> [C[c] EXCEPT !.where = IF c \in S THEN "gone" ELSE @]]

AtTop == Working /\ (sender.pc = "top" \/ (sender.pc = "waiting" /\ sync.wake))
SenderStops ==
    /\ AtTop /\ run.stopped
    /\ sender' = [sender EXCEPT !.pc = "done"]
    /\ UNCHANGED <<plan, conns, incoming, handle, race, timer, sync, run>>

\* A turn starts: removeExpired, then the connections of this turn are copied.
SenderTurn ==
    /\ AtTop /\ ~run.stopped
    /\ \E S \in SUBSET {c \in Live(conns) : conns[c].retire} :
           /\ conns' = Gone(conns, S)
           /\ sender' = [pc |-> "turn", rest |-> SetToSeq(Live(conns) \ S)]
    /\ sync' = [sync EXCEPT !.wake = FALSE]
    /\ UNCHANGED <<plan, incoming, handle, race, timer, run>>

\* handle_expiry of the next connection: it was idle, or its handshake took too long.
Turns == sender.pc = "turn" /\ sender.rest # << >>
Expires ==
    /\ Working /\ Turns /\ "idle" \in plan.breaks
    /\ LET c == Head(sender.rest)
       IN  /\ ~conns[c].error
           /\ conns' = Ended(conns, c, IF conns[c].handshake THEN "idle" ELSE "protocol")
    /\ UNCHANGED <<plan, incoming, handle, race, sender, timer, sync, run>>

CloseDue(c) == conns[c].closeRequested /\ ~conns[c].draining
ServedNext == [sender EXCEPT !.rest = Tail(@)]

\* sendPackets: a close goes before everything else.
SendClose ==
    /\ Turns /\ CloseDue(Head(sender.rest)) /\ conns[Head(sender.rest)].wrote
    /\ sender' = [sender EXCEPT !.pc = "close"]
    /\ UNCHANGED <<plan, conns, incoming, handle, race, timer, sync, run>>

\* ngtcp2 writes no close before the first packet, and an ended connection sends nothing else.
SendNothing ==
    /\ Turns
    /\ LET c == Head(sender.rest)
       IN  /\ IF CloseDue(c) THEN ~conns[c].wrote ELSE conns[c].error
           /\ conns' = [conns EXCEPT ![c].closeRequested = @ /\ ~CloseDue(c)]
    /\ sender' = ServedNext
    /\ UNCHANGED <<plan, incoming, handle, race, timer, sync, run>>

\* ngtcp2 refuses a stream's change or the packets: the turn goes on, and the close that
\* handleError asks for waits for another wake of the sender.
WriteFails ==
    /\ Turns /\ "protocol" \in plan.breaks
    /\ LET c == Head(sender.rest)
       IN  /\ ~CloseDue(c) /\ ~conns[c].error
           /\ conns' = [Ended(conns, c, "protocol") EXCEPT ![c].failed = TRUE]
    /\ sender' = ServedNext
    /\ UNCHANGED <<plan, incoming, handle, race, timer, sync, run>>

\* A quantum of packets; what is left waits for the expiry (pacing).
SendData ==
    /\ Turns
    /\ LET c == Head(sender.rest)
       IN  /\ ~CloseDue(c) /\ ~conns[c].error
           /\ \E e \in 1..plan.horizon :
                  conns' = [conns EXCEPT ![c].dirty = FALSE, ![c].wrote = TRUE, ![c].expiry = e]
    /\ sender' = [sender EXCEPT !.pc = "data"]
    /\ UNCHANGED <<plan, incoming, handle, race, timer, sync, run>>

\* The await ends; the connection may have been closed meanwhile.
DataSent ==
    /\ sender.pc = "data"
    /\ sender' = [ServedNext EXCEPT !.pc = "turn"]
    /\ UNCHANGED <<plan, conns, incoming, handle, race, timer, sync, run>>
CloseSent_Unmarked ==
    /\ sender.pc = "close"
    /\ LET c == Head(sender.rest)
       IN  conns' = [conns EXCEPT ![c].closeRequested = FALSE, ![c].retire = TRUE]
    /\ sender' = [ServedNext EXCEPT !.pc = "turn"]
    /\ UNCHANGED <<plan, incoming, handle, race, timer, sync, run>>
CloseSent ==
    /\ sender.pc = "close"
    /\ LET c == Head(sender.rest)
       IN  conns' = [conns EXCEPT ![c].closeRequested = FALSE, ![c].closeSent = TRUE,
                                  ![c].retire = TRUE]
    /\ sender' = [ServedNext EXCEPT !.pc = "turn"]
    /\ UNCHANGED <<plan, incoming, handle, race, timer, sync, run>>

\* sendPackets returns an error: the worker stops the context; the closing pass goes on to
\* the next peer.
NotSent ==
    /\ IF Working
       THEN /\ Notify(IF run.stopped THEN conns ELSE Stopped(conns))
            /\ sender' = [pc |-> "done", rest |-> << >>]
            /\ sync' = Wake(sync)
            /\ run' = [run EXCEPT !.stopped = TRUE]
       ELSE /\ sender' = [ServedNext EXCEPT !.pc = "turn"]
            /\ conns' = [conns EXCEPT ![Head(sender.rest)].untold = TRUE]
            /\ UNCHANGED <<incoming, sync, run>>
    /\ UNCHANGED <<plan, handle, race, timer>>

\* The socket fails.
SendFails == "socket" \in plan.breaks /\ sender.pc \in {"data", "close"} /\ NotSent

\* ngtcp2 cannot encode the close, which it does once.
CloseFails ==
    /\ "protocol" \in plan.breaks
    /\ Turns /\ CloseDue(Head(sender.rest)) /\ ~conns[Head(sender.rest)].closeSent
    /\ NotSent

\* The turn ends: the deadline for the timer, which is told only of an earlier one.
Earliest(C) == LET due == {C[c].expiry : c \in Live(C)} \cup {plan.horizon}
               IN  CHOOSE t \in due : \A u \in due : t <= u
TurnEnds_Clears ==
    /\ Working /\ sender.pc = "turn" /\ sender.rest = << >>
    /\ Notify(conns)
    /\ sender' = [sender EXCEPT !.pc = IF run.stopped THEN "done" ELSE "waiting"]
    /\ LET due == Earliest(conns)
       IN  sync' = [sync EXCEPT !.deadline = due, !.wake = FALSE,
                                !.timerChanged = @ \/ sync.armed = 0 \/ due < sync.armed]
    /\ UNCHANGED <<plan, handle, race, timer, run>>
TurnEnds ==
    /\ Working /\ sender.pc = "turn" /\ sender.rest = << >>
    /\ Notify(conns)
    /\ IF run.stopped
       THEN sender' = [sender EXCEPT !.pc = "done"] /\ sync' = sync
       ELSE /\ sender' = [sender EXCEPT !.pc = "waiting"]
            /\ LET due == Earliest(conns)
               IN  sync' = [sync EXCEPT !.deadline = due,
                                !.timerChanged = @ \/ sync.armed = 0 \/ due < sync.armed]
    /\ UNCHANGED <<plan, handle, race, timer, run>>

-----------------------------------------------------------------------------
(* timerWorker. *)

TimerArms ==
    /\ Working /\ ~run.stopped /\ timer = "top"
    /\ sync' = [sync EXCEPT !.timerChanged = FALSE,
                            !.armed = IF sync.deadline = 0 THEN @ ELSE sync.deadline]
    /\ timer' = IF sync.deadline = 0 THEN "waiting" ELSE "armed"
    /\ UNCHANGED <<plan, conns, incoming, handle, race, sender, run>>

\* The sleep is over: the sender is to publish a fresh deadline.
TimerFires_Armed ==
    /\ Working /\ ~run.stopped /\ timer = "armed"
    /\ sync' = Wake(sync)
    /\ timer' = "waiting"
    /\ UNCHANGED <<plan, conns, incoming, handle, race, sender, run>>
TimerFires ==
    /\ Working /\ ~run.stopped /\ timer = "armed"
    /\ sync' = [Wake(sync) EXCEPT !.armed = 0]
    /\ timer' = "waiting"
    /\ UNCHANGED <<plan, conns, incoming, handle, race, sender, run>>

\* timerChanged interrupts the sleep or ends the wait.
TimerChanged ==
    /\ Working /\ ~run.stopped /\ timer \in {"armed", "waiting"} /\ sync.timerChanged
    /\ timer' = "top"
    /\ UNCHANGED <<plan, conns, incoming, handle, race, sender, sync, run>>

-----------------------------------------------------------------------------
(* stop() and the end of run(). *)

Stop_Silent ==
    /\ ~run.stopped
    /\ Notify(Stopped(conns))
    /\ sync' = [sync EXCEPT !.timerChanged = TRUE]
    /\ run' = [run EXCEPT !.stopped = TRUE]
    /\ UNCHANGED <<plan, handle, race, sender, timer>>
Stop ==
    /\ ~run.stopped
    /\ Notify(Stopped(conns))
    /\ sync' = Wake(sync)
    /\ run' = [run EXCEPT !.stopped = TRUE]
    /\ UNCHANGED <<plan, handle, race, sender, timer>>

\* A worker returned or run() was canceled: the other workers are canceled wherever they are,
\* and finally() closes every connection.
ClosingStarts ==
    /\ Working /\ (sender.pc = "done" \/ "cancel" \in plan.breaks)
    /\ LET C == IF run.stopped THEN conns ELSE Stopped(conns)
       IN  /\ Notify(C)
           /\ sender' = [pc |-> "turn", rest |-> SetToSeq(Live(C))]
    /\ run' = [run EXCEPT !.stopped = TRUE, !.pc = "closing"]
    /\ UNCHANGED <<plan, handle, race, timer, sync>>

\* The pass is complete, or its 250 ms are over and `rest` is left: the context lets go of
\* everything.
ContextEnds ==
    /\ run.pc = "closing"
    /\ conns' = [c \in Conn |-> [Gone(conns, Live(conns))[c] EXCEPT
                                     !.untold = @ \/ c \in ToSet(sender.rest)]]
    /\ run' = [run EXCEPT !.pc = "ended"]
    /\ incoming' = << >>
    /\ sender' = [pc |-> "done", rest |-> << >>]
    /\ UNCHANGED <<plan, handle, race, timer, sync>>

-----------------------------------------------------------------------------
(* The program: connect(), which races the candidates. *)

Attempts == {c \in Conn : handle[c] = "connecting"}
Untried == race.next <= Len(plan.candidates)

\* connect(endpoint) of the next candidate; it fails at once when there is no room.
Spawn(done) ==
    LET c == plan.candidates[race.next]
        made == ~run.stopped /\ HasRoom(conns)
    IN  /\ race' = [race EXCEPT !.next = @ + 1, !.done = IF made THEN done ELSE Append(done, c)]
        /\ conns' = IF made THEN Made(conns, c) ELSE conns
        /\ handle' = [handle EXCEPT ![c] = IF made THEN "connecting" ELSE "dropped"]
        /\ sync' = IF made THEN Wake(sync) ELSE sync

\* The first candidate, or the next after 250 ms without an answer.
RaceGoesOn ==
    /\ race.pc = "trying" /\ race.done = << >> /\ Untried
    /\ Spawn(race.done)
    /\ UNCHANGED <<plan, incoming, sender, timer, run>>

\* An attempt completes; a failed one lets go of its connection.
AttemptEnds(c) ==
    /\ handle[c] = "connecting" /\ (conns[c].handshake \/ conns[c].error)
    /\ handle' = [handle EXCEPT ![c] = IF conns[c].error THEN "dropped" ELSE "held"]
    /\ race' = [race EXCEPT !.done = Append(@, c)]
    /\ UNCHANGED <<plan, conns, incoming, sender, timer, sync, run>>

\* A failure starts the next candidate at once; the last failure is the result.
AttemptFailed ==
    /\ race.pc = "trying" /\ race.done # << >> /\ handle[Head(race.done)] # "held"
    /\ IF Untried THEN Spawn(Tail(race.done))
       ELSE /\ race' = [race EXCEPT !.done = Tail(@),
                    !.pc = IF Attempts = {} /\ Tail(race.done) = << >> THEN "lost" ELSE @]
            /\ UNCHANGED <<conns, handle, sync>>
    /\ UNCHANGED <<plan, incoming, sender, timer, run>>

\* The other attempts are canceled and joined: the destructors of those under way and of
\* those that completed close their connections.
Abandon(S) ==
    /\ Notify(ClosedAll(conns, S))
    /\ handle' = [c \in Conn |-> IF c \in S THEN "dropped" ELSE handle[c]]
    /\ sync' = Wake(sync)
RaceWon_Leak ==
    /\ race.pc = "trying" /\ race.done # << >> /\ handle[Head(race.done)] = "held"
    /\ Abandon(Attempts)
    /\ race' = [race EXCEPT !.pc = "won", !.done = << >>]
    /\ UNCHANGED <<plan, sender, timer, run>>
RaceWon ==
    /\ race.pc = "trying" /\ race.done # << >> /\ handle[Head(race.done)] = "held"
    /\ Abandon(Attempts \cup {c \in ToSet(Tail(race.done)) : handle[c] = "held"})
    /\ race' = [race EXCEPT !.pc = "won", !.done = << >>]
    /\ UNCHANGED <<plan, sender, timer, run>>
RaceCanceled ==
    /\ race.pc = "trying"
    /\ Abandon(Attempts \cup {c \in ToSet(race.done) : handle[c] = "held"})
    /\ race' = [race EXCEPT !.pc = "canceled", !.done = << >>]
    /\ UNCHANGED <<plan, sender, timer, run>>

-----------------------------------------------------------------------------
(* accept(), close() and ~QuicConnection. *)

Accept ==
    /\ plan.role = "server" /\ ~run.stopped
    /\ \E i \in DOMAIN incoming :
           /\ ~conns[incoming[i]].error /\ \A j \in 1..(i - 1) : conns[incoming[j]].error
           /\ handle' = [handle EXCEPT ![incoming[i]] = "held"]
           /\ incoming' = SubSeq(incoming, i + 1, Len(incoming))
    /\ UNCHANGED <<plan, conns, race, sender, timer, sync, run>>

Owned(c) == handle[c] = "held" /\ race.pc # "trying"

\* write, read, reset and the rest of the program's work on the streams of a connection.
StreamWork(c) ==
    /\ Owned(c) /\ conns[c].where = "live"
    /\ conns' = [conns EXCEPT ![c].dirty = @ \/ ~conns[c].error]
    /\ sync' = Wake(sync)
    /\ UNCHANGED <<plan, incoming, handle, race, sender, timer, run>>

\* close() waits, unless there is nothing to wait for; then it is woken by the close that is
\* sent, or by stop(), which does not reach a connection that was erased.
Close(c) ==
    /\ Owned(c) /\ (conns[c].error => conns[c].closeRequested \/ conns[c].closeSent)
    /\ handle' = [handle EXCEPT ![c] = IF conns[c].closeSent \/ run.stopped THEN "dropped"
                                       ELSE "closing"]
    /\ Notify(Closed(conns, c))
    /\ sync' = IF conns[c].error THEN sync ELSE Wake(sync)
    /\ UNCHANGED <<plan, race, sender, timer, run>>
CloseReturns(c) ==
    /\ handle[c] = "closing" /\ (conns[c].closeSent \/ conns[c].woken)
    /\ handle' = [handle EXCEPT ![c] = "dropped"]
    /\ UNCHANGED <<plan, conns, incoming, race, sender, timer, sync, run>>
Drop(c) ==
    /\ Owned(c)
    /\ handle' = [handle EXCEPT ![c] = "dropped"]
    /\ Notify(Closed(conns, c))
    /\ sync' = IF conns[c].error THEN sync ELSE Wake(sync)
    /\ UNCHANGED <<plan, race, sender, timer, run>>

-----------------------------------------------------------------------------
(* The behaviours. *)

PeerStep == \/ ReceiveOther
            \/ \E c \in Conn : \/ ReceiveInitial(c) \/ Handshake(c) \/ ReceivePacket(c)
                              \/ ReceiveEnd(c) \/ ReceiveLate(c)
SenderStep == \/ SenderTurn \/ SendClose \/ SendNothing \/ SendData \/ DataSent \/ CloseSent
              \/ TurnEnds \/ SenderStops
TimerStep == TimerArms \/ TimerFires \/ TimerChanged
RaceStep == \/ RaceGoesOn \/ AttemptFailed \/ RaceWon \/ RaceCanceled
            \/ \E c \in Conn : AttemptEnds(c)
ProgramStep == \/ Stop \/ Accept
               \/ \E c \in Conn : StreamWork(c) \/ Close(c) \/ CloseReturns(c) \/ Drop(c)
RunEnds == ClosingStarts \/ ContextEnds
Faults == Expires \/ WriteFails \/ SendFails \/ CloseFails
Next == PeerStep \/ SenderStep \/ Faults \/ TimerStep \/ RaceStep \/ ProgramStep \/ RunEnds

\* The executor runs what is ready, sends complete, and a sleep ends.
Fairness ==
    /\ WF_vars(SenderStep) /\ WF_vars(TimerStep)
    /\ WF_vars(sender.pc = "done" /\ ClosingStarts) /\ WF_vars(ContextEnds)
    /\ \A c \in Conn : WF_vars(CloseReturns(c))
Spec == Init /\ [][Next]_vars /\ Fairness

-----------------------------------------------------------------------------
(* Properties. *)

\* Types, and the limit on connections that the closing ones count against.
TypeOK ==
    /\ plan \in Plans
    /\ conns \in [Conn -> [where : {"none", "live", "gone"}, handshake : BOOLEAN, queued : BOOLEAN,
                          error : BOOLEAN, closeRequested : BOOLEAN, closeSent : BOOLEAN,
                          draining : BOOLEAN, retire : BOOLEAN, expiry : 1..Horizon,
                          dirty : BOOLEAN, wrote : BOOLEAN, gaveUp : BOOLEAN,
                          broken : BOOLEAN, failed : BOOLEAN, healthy : BOOLEAN,
                          woken : BOOLEAN, untold : BOOLEAN]]
    /\ incoming \in Seq(Conn)
    /\ handle \in [Conn -> {"none", "connecting", "held", "closing", "dropped"}]
    /\ race \in [pc : {"none", "trying", "won", "lost", "canceled"},
                 next : Nat, done : Seq(Conn)]
    /\ sender \in [pc : {"top", "turn", "close", "data", "waiting", "done"}, rest : Seq(Conn)]
    /\ timer \in {"top", "armed", "waiting"}
    /\ sync \in [wake : BOOLEAN, timerChanged : BOOLEAN,
                 deadline : 0..Horizon, armed : 0..Horizon]
    /\ run \in [stopped : BOOLEAN, pc : {"working", "closing", "ended"}]
    /\ Cardinality(Live(conns)) <= plan.room

Sleeps == Working /\ sender.pc = "waiting" /\ ~sync.wake

\* The sender never sleeps on work: whatever became due while it awaited the socket for
\* another connection (data of the program, a packet, a new connection, a close, the request
\* to send a close again) left `wake` set.  But for one: the close of a connection that
\* ngtcp2 ended in the sender's own turn waits for whatever wakes the sender next, and is
\* never sent if that is its retirement.
NothingUnserved ==
    Sleeps => \A c \in Live(conns) :
        /\ conns[c].dirty => conns[c].error
        /\ (conns[c].closeRequested /\ ~conns[c].draining) =>
               \/ ~conns[c].wrote
               \/ conns[c].failed /\ ~conns[c].closeSent

\* While the sender sleeps, the timer is armed for no later than any connection's expiry, or
\* about to be armed again: no order of publishing, firing and interrupting loses a deadline.
TimerCovers ==
    Sleeps => \/ sync.timerChanged \/ timer = "top"
              \/ timer = "armed" /\ \A c \in Live(conns) : sync.armed <= conns[c].expiry

\* Every connection that completed its handshake with a server is offered to accept() once:
\* while healthy it waits in `incoming` exactly once or somebody has it.
AcceptOnce ==
    /\ IsInjective(incoming) /\ \A i \in DOMAIN incoming : handle[incoming[i]] = "none"
    /\ plan.role = "server" => \A c \in Live(conns) :
           (conns[c].handshake /\ ~conns[c].error) =>
               (c \in ToSet(incoming) \/ handle[c] # "none")

\* connect() leaves one connection at most: once it has returned, every other candidate's
\* connection is closed, those whose handshake had completed too.
RaceLeavesOne ==
    plan.role = "client" =>
        /\ \A c \in Live(conns) : conns[c].error \/ handle[c] \in {"connecting", "held", "closing"}
        /\ race.pc # "trying" => /\ Attempts = {}
                                 /\ \A c, d \in Conn : (handle[c] = "held" /\ handle[d] = "held") => c = d

\* The peer of a connection that the program closes, or that is healthy when the context
\* stops, is told before the context forgets it, unless the connection broke by itself, never
\* sent a packet, or is one that the closing pass could not send to or did not reach in time:
\* every other peer is told all the same.
PeerTold ==
    \A c \in Conn :
        (conns[c].where = "gone" /\ (conns[c].gaveUp \/ conns[c].healthy) /\ conns[c].wrote
            /\ ~conns[c].broken /\ ~conns[c].untold) => conns[c].closeSent

\* run() ends once the context is stopped, whatever the workers were waiting for.
StopEnds == run.stopped ~> run.pc = "ended"

\* close() returns; not if the connection broke, or was never written to, before its close
\* was sent: closeSent then stays false and close() waits until the context stops, and if
\* the connection is erased before, for good.
CloseEnds ==
    \A c \in Conn : handle[c] = "closing" ~>
        (handle[c] # "closing" \/ conns[c].broken \/ ~conns[c].wrote)

=============================================================================
