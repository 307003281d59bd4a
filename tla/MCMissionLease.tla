--------------------------- MODULE MCMissionLease ---------------------------
(* Small instances of MissionLease.                                        *)
EXTENDS MissionLease, TLC

OneWorkspace == [m \in Mission |-> CHOOSE ws \in Workspace : TRUE]
Symmetry == Permutations(Mission) \cup Permutations(Worker)
=============================================================================
