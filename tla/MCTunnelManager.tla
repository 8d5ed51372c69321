-------------------------- MODULE MCTunnelManager --------------------------
(* Instances of TunnelManager for TLC. *)
EXTENDS TunnelManager

\* One tunnel that carries more than a window one way, less the other.
OneTunnelBytes == [e \in Peer \X Id |-> IF e[1] = "server" THEN 7 ELSE 3]

\* Two tunnels, one opened by each peer, data towards both peers.
TwoTunnelBytes ==
    [e \in Peer \X Id |-> CASE e = <<"server", 0>> -> 3
                            [] e = <<"client", 1>> -> 2
                            [] OTHER -> 0]

\* Both tunnels carry data to the client.
LivenessBytes == [e \in Peer \X Id |-> CASE e = <<"server", 0>> -> 3
                                         [] e = <<"server", 1>> -> 1
                                         [] OTHER -> 0]
=============================================================================
