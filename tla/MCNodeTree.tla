------------------------------ MODULE MCNodeTree ------------------------------
(* NodeTree with few nodes; which ones and what sessions keep is in the cfg. *)
EXTENDS NodeTree, TLC

(* Home and the trash are in no permutation, and ids are only compared. *)
Symmetry == Permutations(Nodes \ ({Home} \cup Trashes)) \cup Permutations(Ids)

NothingStale == {}
(* Refutes OnlyDeletionLosesNodes: a drop on a container that is deleted. *)
StaleContainer == {"container"}
StaleCopy == {"copy"}
=============================================================================
