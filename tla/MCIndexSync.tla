---------------------------- MODULE MCIndexSync ----------------------------
(* Issues 1 to 3, one per page; the third page is the last a tick asks for. *)
EXTENDS IndexSync
=============================================================================
