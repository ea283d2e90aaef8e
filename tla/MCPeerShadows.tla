---------------------------- MODULE MCPeerShadows ----------------------------
(* PeerShadows for TLC: the safety properties with interchangeable agents.  *)
EXTENDS PeerShadows, TLC

MCSymmetry == Permutations(Remotes)
=============================================================================
