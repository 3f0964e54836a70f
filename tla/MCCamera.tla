------------------------------ MODULE MCCamera ------------------------------
(* A queue of three samples; see MCCamera.cfg for the bounds.                *)
EXTENDS Camera
=============================================================================
