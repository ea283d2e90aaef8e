----------------------------- MODULE MCPairing -----------------------------
(* Bounds for checking Pairing. *)
EXTENDS Pairing
=============================================================================
