--------------------------- MODULE MCAgentPresence ---------------------------
(* Two agent connections that come and go. *)
EXTENDS AgentPresence, TLC

CONSTANTS c1, c2

MCConn == {c1, c2}
Symmetry == Permutations(MCConn)
=============================================================================
