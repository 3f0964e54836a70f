---------------------------- MODULE MCClipboard ----------------------------
(* Three advertisements, three pastes and a channel that opens three times;*)
(* the bounds are in the configurations.                                   *)
EXTENDS Clipboard
=============================================================================
