-------------------------- MODULE MCRemoteSession --------------------------
(* Small instances of RemoteSession for TLC. *)
EXTENDS RemoteSession, TLC

AllFaults == FaultKinds

Symmetry == Permutations(Request) \cup Permutations(Station)
=============================================================================
