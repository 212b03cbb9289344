------------------------- MODULE MCReleaseSentinel -------------------------
(* Two releases and two workflows, all alike.                              *)
EXTENDS ReleaseSentinel, TLC
CONSTANTS t1, t2, w1, w2
Alike == Permutations({t1, t2}) \cup Permutations({w1, w2})
=============================================================================
