------------------------------- MODULE MCMic -------------------------------
(* Two formats that are accepted and one that is not, in lists of up to    *)
(* three.                                                                  *)
EXTENDS Mic
=============================================================================
