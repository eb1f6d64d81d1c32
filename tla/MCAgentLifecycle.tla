--------------------------- MODULE MCAgentLifecycle ---------------------------
(* Small instances of AgentLifecycle for TLC.                              *)
EXTENDS AgentLifecycle, TLC

CONSTANTS c1, c2, c3, w1, w2, w3

Symmetry == Permutations({c1, c2, c3}) \cup Permutations({w1, w2, w3})
=============================================================================
