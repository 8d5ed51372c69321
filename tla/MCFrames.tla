------------------------------ MODULE MCFrames ------------------------------
(* Integers of one and two bytes, frames of up to four, two size classes.  *)
EXTENDS Frames

M(type, lead, rest) == [type |-> type, lead |-> lead, rest |-> rest]
F(type, payload) == [type |-> type, payload |-> payload]

MCClasses == <<[capacity |-> 2, blocksPerSlab |-> 1], [capacity |-> 9, blocksPerSlab |-> 2]>>

\* The second name is one byte too long for the writer.
MCControl == {M("Ping", << >>, << >>), M("WindowUpdate", <<1, 2>>, <<3>>),
              M("FatalError", << >>, <<4>>), M("OpenTunnel", <<1, 2>>, <<9, 9>>),
              M("OpenTunnel", <<1, 2>>, <<9, 9, 9>>), M("Hello", <<1>>, <<9>>)}

MCIds == {<<1, 2>>}
MCPayloads == {<<5>>, <<6, 7>>}

\* A longer TunnelClose, and messages that are too short.
MCForeign == {F("TunnelClose", <<8, 8, 8>>), F("TunnelClose", << >>), F("DataExchange", <<8>>)}
=============================================================================
