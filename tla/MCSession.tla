----------------------------- MODULE MCSession -----------------------------
(* One caller beside the owner: what two callers do to each other is the   *)
(* business of MCCommandQueue.                                             *)
EXTENDS Session
=============================================================================
