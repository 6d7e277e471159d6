-------------------------------- MODULE Paths --------------------------------
(***************************************************************************)
(* Nodes.getByPath: the map from paths to nodes, which is cached by        *)
(* Database.query(Supplier) until the next write, and which every visitor  *)
(* of the site fills without a lock, while a session moves, renames,       *)
(* creates or deletes nodes, and another one previews a content.           *)
(*                                                                         *)
(* A write drops the map; visitors that have fetched it before go on with  *)
(* the old one, so maps are numbered by the writes.  The cache of          *)
(* suppliers itself is in SupplierCache, and what a save stores is in      *)
(* NodeTree.  A node is renamed or moved in memory and saved later; a      *)
(* preview attaches a copy, names it, detaches it, and saves nothing.      *)
(*                                                                         *)
(* The array of children is read, and written, in one step each; to        *)
(* compare the ids in it is part of the reading.                           *)
(***************************************************************************)
EXTENDS Integers, Sequences, FiniteSets, SequencesExt

CONSTANTS Nodes, Home, NoNode, Ids, NoId,
          Copies,        \* the objects made for previews
          Visitors,      \* the threads that look paths up
          Queries,       \* the paths they ask for, as sequences of ids
          FirstChildren, FirstIds,  \* the tree at the start
          MaxWrites,     \* bound on the number of writes
          None

ASSUME HomeAssumption ==
    Home \in Nodes \ Copies /\ NoNode \notin Nodes /\ Copies \subseteq Nodes
ASSUME IdsAssumption == NoId \notin Ids /\ Queries \subseteq Seq(Ids)
ASSUME TreeAssumption ==
    /\ FirstChildren \in [Nodes -> Seq(Nodes \ Copies)]
    /\ FirstIds \in [Nodes -> Ids \cup {NoId}]
    /\ \A k \in Copies : FirstIds[k] = NoId /\ FirstChildren[k] = <<>>
ASSUME BoundAssumption == MaxWrites \in Nat

VARIABLES
    children, id,  \* the fields of the nodes in memory
    locked,        \* whether a deletion holds the write lock
    edit,          \* what the session that edits is doing, or None
    peek,          \* what the session that previews is doing, or None
    maps, writes,  \* the maps of paths; the last one is maps[writes]
    pc,            \* where a visitor is in getByPath: idle, check, walk, put, get
    path,          \* the path it asks for
    own,           \* the map it has fetched
    at, rest,      \* the node it has come to, and the ids still to follow
    quiet          \* whether nothing has changed since it began (for the property)

treeVars == <<children, id>>
mapVars == <<maps, writes>>
visitVars == <<pc, path, own, at, rest>>
vars == <<treeVars, locked, edit, peek, mapVars, visitVars, quiet>>

Edits == [step : {"removed", "attached", "moved", "changed", "deleting"},
          node : Nodes, to : Nodes, name : Ids \cup {NoId}]
Peeks == [step : {"attached", "named"}, copy : Copies]

ASSUME NoneAssumption == None \notin Edits \cup Peeks

TypeOK ==
    /\ children \in [Nodes -> Seq(Nodes)]
    /\ id \in [Nodes -> Ids \cup {NoId}]
    /\ locked \in BOOLEAN
    /\ edit = None \/ edit \in Edits
    /\ peek = None \/ peek \in Peeks
    /\ writes \in 0..MaxWrites
    /\ maps \in [0..MaxWrites -> [Queries -> Nodes \cup {NoNode}]]
    /\ pc \in [Visitors -> {"idle", "check", "walk", "put", "get"}]
    /\ path \in [Visitors -> Queries \cup {None}]
    /\ own \in [Visitors -> 0..MaxWrites]
    /\ at \in [Visitors -> Nodes \cup {NoNode}]
    /\ rest \in [Visitors -> Seq(Ids)]
    /\ quiet \in [Visitors -> BOOLEAN]

EmptyMap == [p \in Queries |-> NoNode]

Init ==
    /\ children = FirstChildren /\ id = FirstIds
    /\ locked = FALSE /\ edit = None /\ peek = None
    /\ maps = [m \in 0..MaxWrites |-> EmptyMap] /\ writes = 0
    /\ pc = [t \in Visitors |-> "idle"]
    /\ path = [t \in Visitors |-> None]
    /\ own = [t \in Visitors |-> 0]
    /\ at = [t \in Visitors |-> NoNode]
    /\ rest = [t \in Visitors |-> <<>>]
    /\ quiet = [t \in Visitors |-> FALSE]

(***************************************************************************)
(* The tree                                                                *)
(***************************************************************************)

(* The first child of n with id i, as getChild finds it. *)
Child(n, i) ==
    LET hits == {k \in 1..Len(children[n]) : id[children[n][k]] = i}
    IN  IF hits = {} THEN NoNode
        ELSE children[n][CHOOSE k \in hits : \A m \in hits : k <= m]

(* root.getChild(p), if nothing changes meanwhile. *)
NodeAt(p) ==
    LET walk[k \in 0..Len(p)] ==
            IF k = 0 THEN Home
            ELSE IF walk[k - 1] = NoNode THEN NoNode ELSE Child(walk[k - 1], p[k])
    IN  walk[Len(p)]

(* n.traverse, by the arrays of children. *)
Subtree(n) ==
    LET down[k \in 0..Cardinality(Nodes)] ==
            IF k = 0 THEN {n} ELSE UNION {{m} \cup ToSet(children[m]) : m \in down[k - 1]}
    IN  down[Cardinality(Nodes)]

InTree == Subtree(Home)

(* ArrayUtils.removeElement of the parent's array. *)
Without(n) == [p \in Nodes |-> RemoveFirst(children[p], n)]

(* validateChild: no sibling has the id, and p is not below n. *)
Valid(p, n, i) ==
    /\ \A m \in ToSet(children[p]) : m # n => id[m] # i
    /\ p \notin Subtree(n)

(* A change of the tree, which visitors may or may not see. *)
Disturb == quiet' = [t \in Visitors |-> FALSE]

(* The end of a write: supplierCache.clear().  Of the old maps only those  *)
(* matter that a visitor holds.                                            *)
Clear ==
    /\ writes' = writes + 1
    /\ maps' = [m \in 0..MaxWrites |->
          IF \E t \in Visitors : pc[t] # "idle" /\ own[t] = m THEN maps[m] ELSE EmptyMap]

(***************************************************************************)
(* A session that edits                                                    *)
(***************************************************************************)

(* It starts a request; at least one write will follow. *)
Begin == edit = None /\ writes < MaxWrites

(* appendChild: the node leaves the array of its parent, *)
BeginMove(n, p) ==
    /\ Begin
    /\ n \in InTree \ {Home} /\ p \in InTree \ Copies /\ n \notin Copies
    /\ id[n] # NoId /\ Valid(p, n, id[n])
    /\ edit' = [step |-> "removed", node |-> n, to |-> p, name |-> id[n]]
    /\ children' = Without(n)
    /\ Disturb
    /\ UNCHANGED <<id, locked, peek, mapVars, visitVars>>

(* and enters that of the new one. *)
Attach ==
    /\ edit # None /\ edit.step = "removed"
    /\ edit' = [edit EXCEPT !.step = "moved"]
    /\ children' = [children EXCEPT ![edit.to] = Append(@, edit.node)]
    /\ Disturb
    /\ UNCHANGED <<id, locked, peek, mapVars, visitVars>>

(* The editor of a new (or deleted) node attaches it, *)
BeginCreate(n, p, i) ==
    /\ Begin
    /\ n \notin InTree \cup Copies /\ p \in InTree \ Copies
    /\ Valid(p, n, i)
    /\ edit' = [step |-> "attached", node |-> n, to |-> p, name |-> i]
    /\ children' = [children EXCEPT ![p] = Append(@, n)]
    /\ Disturb
    /\ UNCHANGED <<id, locked, peek, mapVars, visitVars>>

(* and sets the id then: no path has changed, if it had none. *)
Name ==
    /\ edit # None /\ edit.step = "attached"
    /\ edit' = [edit EXCEPT !.step = IF id[edit.node] \in {NoId, edit.name} THEN "changed"
                                    ELSE "moved"]
    /\ id' = [id EXCEPT ![edit.node] = edit.name]
    /\ Disturb
    /\ UNCHANGED <<children, locked, peek, mapVars, visitVars>>

(* The editor of a node of the tree sets another id. *)
BeginRename(n, p, i) ==
    /\ Begin
    /\ n \in ToSet(children[p]) /\ n \in InTree \ Copies
    /\ i # id[n] /\ Valid(p, n, i)
    /\ edit' = [step |-> "moved", node |-> n, to |-> p, name |-> i]
    /\ id' = [id EXCEPT ![n] = i]
    /\ Disturb
    /\ UNCHANGED <<children, locked, peek, mapVars, visitVars>>

(* onPathChange: the relocator looks the new path up itself, and writes,   *)
(* unless the node is in the trash now.                                    *)
Relocate ==
    /\ edit # None /\ edit.step = "moved"
    /\ edit' = [edit EXCEPT !.step = "changed"]
    /\ \/ writes + 1 < MaxWrites /\ Clear
       \/ /\ maps' = [maps EXCEPT ![writes] = [p \in Queries |->
                  IF @[p] = NoNode /\ NodeAt(p) = edit.node THEN edit.node ELSE @[p]]]
          /\ UNCHANGED writes
    /\ UNCHANGED <<treeVars, locked, peek, visitVars, quiet>>

(* Mutant: the cache is not cleared. *)
Save_KeepsMap ==
    /\ edit # None /\ edit.step = "changed"
    /\ edit' = None
    /\ UNCHANGED <<treeVars, locked, peek, mapVars, visitVars, quiet>>

(* Nodes.save *)
Save ==
    /\ edit # None /\ edit.step = "changed"
    /\ edit' = None
    /\ Clear
    /\ UNCHANGED <<treeVars, locked, peek, visitVars, quiet>>

(* Nodes.delete detaches the nodes under the lock, children first.  They   *)
(* keep their ids, and an editor that still shows one may create it again. *)
BeginDelete(n) ==
    /\ Begin
    /\ n \in InTree \ ({Home} \cup Copies)
    /\ edit' = [step |-> "deleting", node |-> n, to |-> n, name |-> id[n]]
    /\ locked' = TRUE
    /\ UNCHANGED <<treeVars, peek, mapVars, visitVars, quiet>>

DetachNode(m) ==
    /\ edit # None /\ edit.step = "deleting"
    /\ edit.node \in InTree /\ m \in Subtree(edit.node) /\ children[m] = <<>>
    /\ children' = Without(m)
    /\ Disturb
    /\ UNCHANGED <<id, locked, edit, peek, mapVars, visitVars>>

EndDelete ==
    /\ edit # None /\ edit.step = "deleting" /\ edit.node \notin InTree
    /\ edit' = None /\ locked' = FALSE
    /\ Clear
    /\ UNCHANGED <<treeVars, peek, visitVars, quiet>>

(***************************************************************************)
(* A session that previews (viewContent, closePerformed), each copy once   *)
(***************************************************************************)

BeginPeek(k, c) ==
    /\ peek = None /\ k \in Copies /\ id[k] = NoId /\ c \in InTree \ Copies
    /\ peek' = [step |-> "attached", copy |-> k]
    /\ children' = [children EXCEPT ![c] = Append(@, k)]
    /\ Disturb
    /\ UNCHANGED <<id, locked, edit, mapVars, visitVars>>

NamePeek(i) ==
    /\ peek # None /\ peek.step = "attached"
    /\ peek' = [peek EXCEPT !.step = "named"]
    /\ id' = [id EXCEPT ![peek.copy] = i]
    /\ Disturb
    /\ UNCHANGED <<children, locked, edit, mapVars, visitVars>>

EndPeek ==
    /\ peek # None /\ peek.step = "named"
    /\ peek' = None
    /\ children' = Without(peek.copy)
    /\ Disturb
    /\ UNCHANGED <<id, locked, edit, mapVars, visitVars>>

(***************************************************************************)
(* getByPath                                                               *)
(***************************************************************************)

(* Database.query(nodesByPath), under the read lock. *)
Fetch(t, p) ==
    /\ pc[t] = "idle" /\ ~locked
    /\ pc' = [pc EXCEPT ![t] = "check"]
    /\ path' = [path EXCEPT ![t] = p]
    /\ own' = [own EXCEPT ![t] = writes]
    /\ quiet' = [quiet EXCEPT ![t] = edit = None /\ peek = None]
    /\ UNCHANGED <<treeVars, locked, edit, peek, mapVars, at, rest>>

(* cache.containsKey(path), root.getChild(path) *)
Check(t) ==
    /\ pc[t] = "check"
    /\ IF maps[own[t]][path[t]] # NoNode
       THEN /\ pc' = [pc EXCEPT ![t] = "get"]
            /\ UNCHANGED <<at, rest>>
       ELSE /\ pc' = [pc EXCEPT ![t] = "walk"]
            /\ at' = [at EXCEPT ![t] = Home]
            /\ rest' = [rest EXCEPT ![t] = path[t]]
    /\ UNCHANGED <<treeVars, locked, edit, peek, mapVars, path, own, quiet>>

(* One id of the path; a node that is not found is not remembered. *)
Walk(t) ==
    /\ pc[t] = "walk"
    /\ IF rest[t] = <<>>
       THEN pc' = [pc EXCEPT ![t] = "put"] /\ UNCHANGED <<at, rest>>
       ELSE /\ at' = [at EXCEPT ![t] = Child(at[t], Head(rest[t]))]
            /\ rest' = [rest EXCEPT ![t] = IF at'[t] = NoNode THEN <<>> ELSE Tail(@)]
            /\ pc' = [pc EXCEPT ![t] = IF at'[t] = NoNode THEN "get" ELSE @]
    /\ UNCHANGED <<treeVars, locked, edit, peek, mapVars, path, own, quiet>>

(* Mutant: the ids that are left are put, not the path. *)
Put_Rest(t) ==
    /\ pc[t] = "put"
    /\ pc' = [pc EXCEPT ![t] = "get"]
    /\ maps' = [maps EXCEPT ![own[t]] = rest[t] :> at[t]]
    /\ UNCHANGED <<treeVars, locked, edit, peek, writes, path, own, at, rest, quiet>>

(* cache.put(path, node) *)
Put(t) ==
    /\ pc[t] = "put"
    /\ pc' = [pc EXCEPT ![t] = "get"]
    /\ maps' = [maps EXCEPT ![own[t]][path[t]] = at[t]]
    /\ UNCHANGED <<treeVars, locked, edit, peek, writes, path, own, at, rest, quiet>>

(* return cache.get(path) *)
Get(t) ==
    /\ pc[t] = "get"
    /\ pc' = [pc EXCEPT ![t] = "idle"]
    /\ path' = [path EXCEPT ![t] = None]
    /\ own' = [own EXCEPT ![t] = 0]
    /\ at' = [at EXCEPT ![t] = NoNode]
    /\ rest' = [rest EXCEPT ![t] = <<>>]
    /\ quiet' = [quiet EXCEPT ![t] = FALSE]
    /\ UNCHANGED <<treeVars, locked, edit, peek, mapVars>>

Next ==
    \/ \E n, p \in Nodes : BeginMove(n, p)
    \/ \E n, p \in Nodes, i \in Ids : BeginCreate(n, p, i)
    \/ \E n, p \in Nodes, i \in Ids : BeginRename(n, p, i)
    \/ \E n \in Nodes : BeginDelete(n)
    \/ Attach \/ Name \/ Relocate \/ Save
    \/ \E m \in Nodes : DetachNode(m)
    \/ EndDelete
    \/ \E k, c \in Nodes : BeginPeek(k, c)
    \/ \E i \in Ids : NamePeek(i)
    \/ EndPeek
    \/ \E t \in Visitors, p \in Queries : Fetch(t, p)
    \/ \E t \in Visitors : Check(t) \/ Walk(t) \/ Put(t) \/ Get(t)

Spec == Init /\ [][Next]_vars

(***************************************************************************)
(* Properties                                                              *)
(***************************************************************************)

(* "Returns node from root by given path": a lookup during which nothing   *)
(* changes, and before which every change was saved, returns the node that *)
(* has the path, or null if none has, whatever lookups put into the maps   *)
(* while nodes moved; unless a preview was there, which saves nothing: its *)
(* copy may stay in the map until the next write.                          *)
AnswerAtPath ==
    \A t \in Visitors : pc[t] = "get" /\ quiet[t] =>
        maps[own[t]][path[t]] \in {NodeAt(path[t])} \cup Copies
=============================================================================
