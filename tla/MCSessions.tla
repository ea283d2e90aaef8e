----------------------------- MODULE MCSessions -----------------------------
(* Bounds for checking Sessions. *)
EXTENDS Sessions
=============================================================================
