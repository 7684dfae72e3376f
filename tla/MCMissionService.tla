-------------------------- MODULE MCMissionService --------------------------
(* Small instances of MissionService for TLC.                               *)
EXTENDS MissionService, TLC

Symmetry == Permutations(Session) \cup Permutations(Key)
=============================================================================
