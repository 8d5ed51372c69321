--------------------------- MODULE MCQuicContext ---------------------------
(* Two connections: a client that races two candidates, a server with two peers. *)
EXTENDS QuicContext

CONSTANTS x, y

MCConn == {x, y}

Client(candidates, room, horizon, breaks) ==
    [role |-> "client", candidates |-> candidates, peers |-> {}, room |-> room, horizon |-> horizon,
     breaks |-> breaks]
Server(peers, room, horizon, breaks) ==
    [role |-> "server", candidates |-> << >>, peers |-> peers, room |-> room, horizon |-> horizon,
     breaks |-> breaks]

MCPlans == {
    \* two candidates race, with room for both and with room for one
    Client(<<x, y>>, 2, 1, {}),
    Client(<<x, y>>, 1, 1, {"peer"}),
    \* a handshake times out, the peer breaks the protocol or goes on sending after a close
    Client(<<x>>, 1, 1, {"idle", "protocol", "late"}),
    \* two peers, with room for one
    Server({x, y}, 1, 1, {"late"}),
    \* deadlines move, and a connection is idle
    Server({x}, 1, 2, {"idle"}),
    \* the socket fails, or run() is canceled
    Server({x, y}, 2, 1, {"socket", "cancel"}) }
=============================================================================
