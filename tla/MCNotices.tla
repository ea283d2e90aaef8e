----------------------------- MODULE MCNotices -----------------------------
(* Bounds for checking Notices. *)
EXTENDS Notices
=============================================================================
