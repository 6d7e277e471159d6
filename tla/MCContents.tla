------------------------------ MODULE MCContents ------------------------------
(* Contents with few nodes of each kind. *)
EXTENDS Contents, TLC

Symmetry == Permutations(Folders \ {Home}) \cup Permutations(Trashes) \cup Permutations(References)
=============================================================================
