------------------------------ MODULE MCAudio ------------------------------
(* Two reloads or reconnects beyond the two devices a session starts with. *)
EXTENDS Audio
=============================================================================
