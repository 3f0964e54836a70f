--------------------------- MODULE MCCommandQueue ---------------------------
(* Two callers and the owner; see MCCommandQueue.cfg for the bound.        *)
EXTENDS CommandQueue
=============================================================================
