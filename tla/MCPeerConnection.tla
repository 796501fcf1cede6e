-------------------------- MODULE MCPeerConnection --------------------------
(* PeerConnection for TLC.  Callers and lifecycle goroutines are                   *)
(* interchangeable, which the runs that check no liveness use.                     *)
EXTENDS PeerConnection, TLC

Symmetry == Permutations(Callers) \cup Permutations(Runs)
=============================================================================
