-------------------------- MODULE MCNodeTreeThreads --------------------------
(* NodeTreeThreads with few threads and nodes; the numbers are in the cfg. *)
EXTENDS NodeTreeThreads, TLC

(* The two definitions of isDescendant agree on every assignment of parents *)
(* to the nodes, with cycles or without.                                    *)
ASSUME DescendantAssumption ==
    \A par \in [Nodes -> Nodes \cup {NoNode}] : \A n \in Nodes :
        Below(par, n) = {m \in Nodes : n \in Above(par, m)}

(* Home takes part in no permutation, and neither do the threads. *)
Symmetry == Permutations(Nodes \ {Home})
=============================================================================
