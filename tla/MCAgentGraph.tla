---------------------------- MODULE MCAgentGraph -----------------------------
(* Constants for TLC: all three graphs, plans of up to three steps. *)
EXTENDS AgentGraph

CONSTANTS s1, s2
AllGraphs == {"v1", "v2", "agentic"}
TwoIds == {s1, s2}
=============================================================================
