---------------------------- MODULE MCAutoclose ----------------------------
(* One answered question. *)
EXTENDS Autoclose

CONSTANT i1
=============================================================================
