---------------------------- MODULE MCEventQueue ----------------------------
(***************************************************************************)
(* Small instances of EventQueue: deliveries d1 and d2 of issue k1, d2 a   *)
(* manual triage; d3 of issue k2; d4, where a run has it, a `stop` for k1. *)
(***************************************************************************)
EXTENDS EventQueue

CONSTANTS d1, d2, d3, d4, k1, k2

Issues == [d \in Delivery |-> IF d = d3 THEN k2 ELSE k1]
=============================================================================
