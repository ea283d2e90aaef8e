----------------------------- MODULE MCPeerRelay -----------------------------
(* PeerRelay with interchangeable targets.                                  *)
EXTENDS PeerRelay, TLC

MCSymmetry == Permutations(Targets)
=============================================================================
