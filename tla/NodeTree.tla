------------------------------- MODULE NodeTree -------------------------------
(***************************************************************************)
(* The tree of nodes (jease.cmf.domain.Node) and its persistence           *)
(* (jease.cmf.service.Nodes), as the sessions of several users work on it. *)
(*                                                                         *)
(* A request is one step here; NodeTreeThreads takes requests apart.       *)
(* Every request ends in Nodes.save or Nodes.delete, which persist the     *)
(* global set "changedNodes"; only a preview and the Copy button change    *)
(* nodes without saving.                                                   *)
(*                                                                         *)
(* Arrays of children are sets: their order is left out.                   *)
(* A node that was deleted and an object just created look alike: they     *)
(* have no parent, no children, and are not in the repository.  The table  *)
(* of children, from which a batch is appended, is the current one.        *)
(***************************************************************************)
EXTENDS Ancestry, FiniteSets

CONSTANTS Home,      \* the root that Setup created
          Ids, NoId, \* NoId: null, or the empty id of the root
          Trashes,   \* the nodes of class Trash
          Stale      \* what a session keeps while others work (see below)

(* "container": the container a session stands in, or a target of a drop,  *)
(*    that another session deleted meanwhile;                              *)
(* "copy": a copy of a container that is not saved yet.                    *)
ASSUME StaleAssumption == Stale \subseteq {"container", "copy"}
ASSUME HomeAssumption == Home \in Nodes
ASSUME TrashAssumption == Trashes \subseteq Nodes \ {Home}
ASSUME NoIdAssumption == NoId \notin Ids

VARIABLES
    parent, children, id,  \* the fields of the nodes in memory
    changed,               \* Node.changedNodes
    root,                  \* Nodes.root
    repository,            \* the nodes the database knows
    disk,                  \* the fields of a node when it was last saved
    shown                  \* the nodes that were in the tree at some time:
                           \* sessions may still hold them

tree == <<parent, children, id>>
vars == <<parent, children, id, changed, root, repository, disk, shown>>

Fields == [parent : Nodes \cup {NoNode}, children : SUBSET Nodes, id : Ids \cup {NoId}]

TypeOK ==
    /\ parent \in [Nodes -> Nodes \cup {NoNode}]
    /\ children \in [Nodes -> SUBSET Nodes]
    /\ id \in [Nodes -> Ids \cup {NoId}]
    /\ changed \subseteq Nodes
    /\ root \in Nodes \cup {NoNode}
    /\ repository \subseteq Nodes
    /\ disk \in [Nodes -> Fields]
    /\ shown \subseteq Nodes

Blank == [parent |-> NoNode, children |-> {}, id |-> NoId]

(* After Setup: the root is the only node. *)
Init ==
    /\ parent = [n \in Nodes |-> NoNode]
    /\ children = [n \in Nodes |-> {}]
    /\ id = [n \in Nodes |-> NoId]
    /\ changed = {}
    /\ root = Home
    /\ repository = {Home}
    /\ disk = [n \in Nodes |-> Blank]
    /\ shown = {Home}

(***************************************************************************)
(* Ancestors and descendants                                               *)
(***************************************************************************)

(* What node.traverse visits: the same by the arrays of children. *)
Traversed(n) ==
    LET closed == {S \in SUBSET Nodes : n \in S /\ \A k \in S : children[k] \subseteq S}
    IN  {m \in Nodes : \A S \in closed : m \in S}

(* Mutant: only the parent of the node is compared with the root. *)
Rooted_ParentOnly(par) == {n \in Nodes : n = root \/ par[n] = root}

(* The nodes n with isRooted(n). *)
Rooted(par) == IF root = NoNode THEN {} ELSE Below(par, root)

(* p.validateDuplicate(n, i): a Trash allows duplicates. *)
NoDuplicate(p, n, i) == p \in Trashes \/ \A m \in children[p] : m # n => id[m] # i

(* Mutant: a node may be moved below itself. *)
Valid_NoNesting(p, n, i) == NoDuplicate(p, n, i)

(* Mutant: siblings may share an id. *)
Valid_NoDuplicates(p, n, i) == p \notin Below(parent, n)

(* p.validateChild(n, i): no sibling has the id, and p is not below n. *)
Valid(p, n, i) ==
    /\ NoDuplicate(p, n, i)
    /\ p \notin Below(parent, n)

(* An object that nothing refers to yet. *)
Fresh(n) ==
    /\ n # root /\ n \notin repository \cup changed
    /\ parent[n] = NoNode /\ children[n] = {}

(* A container that a session can show. *)
Container(p) ==
    /\ p \in shown
    /\ p \in Rooted(parent) \/ "container" \in Stale

(***************************************************************************)
(* appendChild and detach                                                  *)
(***************************************************************************)

(* Mutant: detachParent leaves the child in the array of its old parent. *)
Append_KeepsOldEntry(p, ns) ==
    /\ parent' = [n \in Nodes |-> IF n \in ns THEN p ELSE parent[n]]
    /\ children' = [children EXCEPT ![p] = @ \cup ns]

(* p.appendChild(n) for the nodes n of ns: detachParent, then attach. *)
Append(p, ns) ==
    /\ parent' = [n \in Nodes |-> IF n \in ns THEN p ELSE parent[n]]
    /\ children' = [q \in Nodes |->
          (children[q] \ {n \in ns : parent[n] = q}) \cup (IF q = p THEN ns ELSE {})]

(* What these mark as changed: the children, their old parents, and p. *)
AppendMarks(p, ns) == ns \cup {p} \cup {q \in Nodes : \E n \in ns : n \in children[q] /\ parent[n] = q}

(* Mutant: detach leaves the children attached. *)
Detach_Shallow(n) ==
    /\ parent' = [parent EXCEPT ![n] = NoNode]
    /\ children' = [q \in Nodes |-> children[q] \ {m \in {n} : parent[m] = q}]

(* n.detach(): every node of the subtree loses its parent and children. *)
Detach(n) ==
    /\ parent' = [m \in Nodes |-> IF m \in Traversed(n) THEN NoNode ELSE parent[m]]
    /\ children' = [q \in Nodes |-> children[q] \ {m \in Traversed(n) : parent[m] = q}]

DetachMarks(n) ==
    Traversed(n) \cup {q \in Nodes : \E m \in Traversed(n) : m \in children[q] /\ parent[m] = q}

(***************************************************************************)
(* Persistence: processChangedNodes(traverse) in a transaction             *)
(***************************************************************************)

(* The fields of n as the step leaves them. *)
Image(n) == [parent |-> parent'[n], children |-> children'[n], id |-> id'[n]]

(* Mutant: nodes without a way to the root are kept. *)
Persist_KeepsDetached(marks, n) ==
    LET known == (changed \cup marks \cup {n}) \cap Rooted(parent')
    IN  /\ repository' = repository \cup known
        /\ disk' = [m \in Nodes |-> IF m \in known THEN Image(m) ELSE disk[m]]
        /\ changed' = {}
        /\ shown' = shown \cup known
        /\ UNCHANGED root

(* Mutant: only the node of the request is processed. *)
Persist_Alone(marks, n) ==
    LET known == {n} \cap Rooted(parent')
    IN  /\ repository' = (repository \ {n}) \cup known
        /\ disk' = [m \in Nodes |-> IF m \in known THEN Image(m) ELSE disk[m]]
        /\ changed' = changed \cup marks
        /\ shown' = shown \cup known
        /\ UNCHANGED root

(* A node that is rooted is saved, any other one is deleted deliberately.  *)
(* n is the node of the request, which save() itself marks.                *)
Persist(marks, n) ==
    LET todo == changed \cup marks \cup {n}
        known == todo \cap Rooted(parent')
    IN  /\ repository' = (repository \ todo) \cup known
        /\ disk' = [m \in Nodes |-> CASE m \in known -> Image(m)
                                      [] m \in todo \ known -> Blank
                                      [] OTHER -> disk[m]]
        /\ changed' = {}
        /\ shown' = shown \cup known
        /\ UNCHANGED root

(***************************************************************************)
(* Requests                                                                *)
(***************************************************************************)

(* The editor saves a node of the tree, with the id in its text field.     *)
(* The root has no id to edit.                                             *)
SaveNode(n, i) ==
    /\ n \in shown
    /\ n # root => parent[n] # NoNode /\ Valid(parent[n], n, i)
    /\ id' = [id EXCEPT ![n] = IF n = root THEN @ ELSE i]
    /\ UNCHANGED <<parent, children>>
    /\ Persist({}, n)

(* The editor saves a new node, or one that another session deleted, in    *)
(* the container of the session.                                           *)
CreateNode(c, n, i) ==
    /\ n # root /\ parent[n] = NoNode
    /\ Container(c) /\ Valid(c, n, i)
    /\ id' = [id EXCEPT ![n] = i]
    /\ Append(c, {n})
    /\ Persist(AppendMarks(c, {n}), n)

(* Nodes.append(p, n): a drop on a node of the tree. *)
AppendNode(p, n) ==
    /\ n \in shown /\ id[n] # NoId
    /\ Container(p) /\ Valid(p, n, id[n])
    /\ Append(p, {n})
    /\ UNCHANGED id
    /\ Persist(AppendMarks(p, {n}), p)

(* Nodes.append(p, ns): a drop into the table of the children of p.  Each  *)
(* of ns is validated against the children there are; then all of them are *)
(* appended again, in the new order.                                       *)
AppendNodes(p, ns) ==
    /\ ns \subseteq shown
    /\ \E n \in ns : ns \subseteq children[p] \cup {n}
    /\ Container(p)
    /\ \A n \in ns : id[n] # NoId /\ Valid(p, n, id[n])
    /\ Append(p, ns \cup children[p])
    /\ UNCHANGED id
    /\ Persist(AppendMarks(p, ns \cup children[p]), p)

(* Backups.restore and Imports: an object gets an id and is appended. *)
ImportNode(p, n, i) ==
    /\ Fresh(n)
    /\ Container(p) /\ Valid(p, n, i)
    /\ id' = [id EXCEPT ![n] = i]
    /\ Append(p, {n})
    /\ Persist(AppendMarks(p, {n}), p)

(* Nodes.delete(n).  The editor of a root has no button for it. *)
DeleteNode(n) ==
    /\ n \in shown \ {root}
    /\ Detach(n)
    /\ UNCHANGED id
    /\ Persist(DetachMarks(n), n)

(* viewContent and closePerformed: a copy k is attached to the container   *)
(* of the session and detached again; nothing is saved.                    *)
PreviewNode(c, k, i) ==
    /\ Fresh(k) /\ Container(c)
    /\ id' = [id EXCEPT ![k] = i]
    /\ changed' = changed \cup {k, c}
    /\ UNCHANGED <<parent, children, root, repository, disk, shown>>

(* The Copy button: f gives the copy of each node below n.  The copy of n  *)
(* has no id; copies are marked as they are appended to each other.        *)
CopyNode(n) ==
    /\ children[n] = {} \/ "copy" \in Stale
    /\ n \in shown
    /\ \E f \in [Traversed(n) -> {k \in Nodes : Fresh(k)}] :
        LET copies == {f[m] : m \in Traversed(n)}
            original(k) == CHOOSE m \in Traversed(n) : f[m] = k
        IN  /\ \A m, o \in Traversed(n) : f[m] = f[o] => m = o
            /\ copies \cap Traversed(n) = {}
            /\ \A m \in Traversed(n) : f[m] \in Trashes <=> m \in Trashes
            /\ parent' = [k \in Nodes |->
                  IF k \in copies \ {f[n]} THEN f[parent[original(k)]] ELSE parent[k]]
            /\ children' = [k \in Nodes |->
                  IF k \in copies THEN {f[m] : m \in children[original(k)]} ELSE children[k]]
            /\ id' = [k \in Nodes |->
                  IF k = f[n] THEN NoId ELSE IF k \in copies THEN id[original(k)] ELSE id[k]]
            /\ changed' = changed \cup (IF children[n] = {} THEN {} ELSE copies)
    /\ UNCHANGED <<root, repository, disk, shown>>

(* Mutant: the answer of the query, not its only element. *)
QueryRoot_List(stored) == {n \in stored : disk[n].parent \notin stored}

(* queryRoot(): the only stored node without a parent, or null. *)
QueryRoot(stored) ==
    IF Cardinality({n \in stored : disk[n].parent \notin stored}) = 1
    THEN CHOOSE n \in stored : disk[n].parent \notin stored
    ELSE NoNode

(* A restart after a crash, or after a transaction that failed: the nodes  *)
(* are what was saved.  References to nodes that were deleted are null.    *)
Restart ==
    /\ parent' = [n \in Nodes |-> IF n \in repository /\ disk[n].parent \in repository
                                  THEN disk[n].parent ELSE NoNode]
    /\ children' = [n \in Nodes |-> IF n \in repository
                                    THEN disk[n].children \cap repository ELSE {}]
    /\ id' = [n \in Nodes |-> IF n \in repository THEN disk[n].id ELSE NoId]
    /\ changed' = {}
    /\ root' = QueryRoot(repository)
    /\ shown' = repository
    /\ UNCHANGED <<repository, disk>>

Request ==
    \/ \E n \in Nodes, i \in Ids : SaveNode(n, i)
    \/ \E c, n \in Nodes, i \in Ids : CreateNode(c, n, i)
    \/ \E p, n \in Nodes : AppendNode(p, n)
    \/ \E p \in Nodes, ns \in SUBSET Nodes : AppendNodes(p, ns)
    \/ \E p, n \in Nodes, i \in Ids : ImportNode(p, n, i)
    \/ \E n \in Nodes : DeleteNode(n)
    \/ \E c, k \in Nodes, i \in Ids : PreviewNode(c, k, i)
    \/ \E n \in Nodes : CopyNode(n)

Next == Request \/ Restart

Spec == Init /\ [][Next]_vars

(***************************************************************************)
(* Properties                                                              *)
(***************************************************************************)

(* The array of children of p holds exactly the nodes whose parent is p.   *)
ParentsMatchChildren ==
    \A p, n \in Nodes : n \in children[p] <=> parent[n] = p

(* No node is below itself, however often the tree is reorganised:         *)
(* otherwise getPath, isRooted and traverse never end.                     *)
Acyclic == NoCycle(parent)

(* An id is unique between all the children of a node (Node.java:369), as  *)
(* long as it is not a Trash, out of which nodes with equal ids are moved. *)
UniqueIds ==
    \A p \in Nodes \ Trashes : \A m, n \in children[p] : id[m] = id[n] => m = n

(* The database knows the nodes of the tree and no others: nothing that    *)
(* was deleted or copied for a preview is left, and nothing of the tree is *)
(* missing.                                                                *)
RepositoryIsTree == repository = Rooted(parent)

(* What is on disk of the nodes in the tree is what is in memory: every    *)
(* change was marked, and persisted by the request that made it.           *)
DiskIsCurrent ==
    \A n \in Rooted(parent) :
        disk[n] = [parent |-> parent[n], children |-> children[n], id |-> id[n]]

(* Every restart finds the root that Setup created. *)
RootSurvives == root = Home

(* Only a deletion takes nodes out of the database: appending a child to a *)
(* node saves it ("Appends given child to given node and saves changes").  *)
OnlyDeletionLosesNodes ==
    [][(\E n \in Nodes : DeleteNode(n)) \/ repository \subseteq repository']_vars
=============================================================================
