--------------------------- MODULE MCSupplierCache ---------------------------
(* SupplierCache with two threads, two suppliers that look at the nodes, and *)
(* the users saved by persist().                                             *)
EXTENDS SupplierCache

CONSTANTS t1, t2, nodesByPath, redirects, nodes, users

MCThreads == {t1, t2}
MCSuppliers == {nodesByPath, redirects}
MCTopics == {nodes, users}
MCReads == [s \in MCSuppliers |-> {nodes}]
MCPersisted == {users}

(* Both suppliers are searched from the same slot on. *)
SameHome == [s \in MCSuppliers |-> 0]
=============================================================================
