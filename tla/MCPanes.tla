------------------------------ MODULE MCPanes ------------------------------
(* Bounds for checking Panes. *)
EXTENDS Panes
=============================================================================
