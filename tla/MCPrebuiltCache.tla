-------------------------- MODULE MCPrebuiltCache --------------------------
(* Two builds at a time and two process ids, so that one is used again.    *)
EXTENDS PrebuiltCache
=============================================================================
