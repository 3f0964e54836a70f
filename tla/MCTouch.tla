------------------------------ MODULE MCTouch ------------------------------
(* Three ids share two slots, and four Downs use an id again. *)
EXTENDS Touch
=============================================================================
