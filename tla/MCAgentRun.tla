----------------------------- MODULE MCAgentRun -----------------------------
EXTENDS AgentRun, TLC
Symm == Permutations(Version)
=============================================================================
