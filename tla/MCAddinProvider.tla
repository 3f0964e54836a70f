-------------------------- MODULE MCAddinProvider --------------------------
(* Three sessions at a time: one that has its device, one that comes       *)
(* between, and one that chains meanwhile.                                 *)
EXTENDS AddinProvider
=============================================================================
