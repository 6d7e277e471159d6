------------------------------- MODULE Ancestry -------------------------------
(* Which node is below which, for the modules about the tree of nodes. *)
EXTENDS Naturals, FiniteSets

CONSTANTS Nodes, NoNode

ASSUME NoNodeAssumption == NoNode \notin Nodes

(* The nodes m with m.isDescendant(n), by the parents in par: the least    *)
(* set that contains n and the children of its members.                    *)
Below(par, n) ==
    LET closed == {S \in SUBSET Nodes : n \in S /\ \A k \in Nodes : par[k] \in S => k \in S}
    IN  {m \in Nodes : \A S \in closed : m \in S}

(* n.getParents() and n itself: one parent after the other. *)
Above(par, n) ==
    LET up[k \in 0..Cardinality(Nodes)] == [m \in Nodes \cup {NoNode} |->
            IF m = NoNode \/ k = 0 THEN {} ELSE {m} \cup up[k - 1][par[m]]]
    IN  up[Cardinality(Nodes)][n]

(* No node is below itself. *)
NoCycle(par) ==
    \A S \in SUBSET Nodes : S # {} => \E n \in S : par[n] \notin S
=============================================================================
