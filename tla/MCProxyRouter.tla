--------------------------- MODULE MCProxyRouter ----------------------------
(* Two agents, two targets, four tokens: enough for both agents to be      *)
(* re-pointed once with the old tokens still saved.                        *)
EXTENDS ProxyRouter, TLC

CONSTANTS a1, a2, t1, t2, k1, k2, k3, k4

MCAgents == {a1, a2}
MCTargets == {t1, t2}
MCTokens == {k1, k2, k3, k4}

Symmetry == Permutations(MCAgents) \cup Permutations(MCTargets) \cup Permutations(MCTokens)
=============================================================================
