------------------------------ MODULE MCResize ------------------------------
(* Two desktops and two scales; see MCResize.cfg for the bounds.           *)
EXTENDS Resize

CONSTANTS small, large, single, double

MCDim   == {small, large}
MCScale == {single, double}
MCFirst == <<small, single>>
=============================================================================
