--------------------------- MODULE MCProxyRules ---------------------------
(* Two rules of one port, two clients of which one has rules, two connections. *)
EXTENDS ProxyRules

CONSTANTS port, x, y, r1, r2, c1, c2

MCPort == {port}
MCName == {x, y}
MCTarget == {x}
MCRule == {r1, r2}
MCConn == {c1, c2}
=============================================================================
