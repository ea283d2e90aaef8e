------------------------------ MODULE MCBridge ------------------------------
(* Model values and bounds for checking Bridge. *)
EXTENDS Bridge, TLC

CONSTANTS a, b, here1, there1

MCHome == a :> here1 @@ b :> there1
=============================================================================
