------------------------------ MODULE MCPaint ------------------------------
(* Desktops of one cell or two, two changes or resizes in all, and a       *)
(* server that waits for every acknowledgement.                            *)
EXTENDS Paint
=============================================================================
