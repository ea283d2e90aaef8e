---------------------------- MODULE MCLifecycle ----------------------------
(* Bounds for checking Lifecycle. *)
EXTENDS Lifecycle
=============================================================================
