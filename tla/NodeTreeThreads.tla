--------------------------- MODULE NodeTreeThreads ---------------------------
(***************************************************************************)
(* The requests of NodeTree taken apart, as threads interleave them.       *)
(* Fields of nodes are read and written without a lock; marking a node     *)
(* takes the monitor of changedNodes; the marked nodes are processed under *)
(* that monitor and the write lock of the database.                        *)
(*                                                                         *)
(* Ids, new nodes and relocation are left to the sequential modules, and   *)
(* every request of a session names nodes of the tree.  The fields of the  *)
(* node that an editor saves are its parent and its children here.         *)
(***************************************************************************)
EXTENDS Ancestry, ReadWriteLock

CONSTANTS Home,    \* the root
          Movers   \* the threads that move nodes; the others save and delete

ASSUME MoversAssumption == Movers \subseteq Threads
ASSUME HomeAssumption == Home \in Nodes

VARIABLES
    parent, children,  \* the fields of the nodes in memory
    changed,           \* Node.changedNodes
    monitor,           \* the thread that holds its monitor, or NoThread
    repository,        \* the nodes the database knows
    disk,              \* the fields of these nodes when they were last saved
    pc, loc,           \* where a thread is in its request; its local variables
    unmarked,          \* history: nodes that a request changed, and failed to mark
    overtaken          \* history: threads whose move was validated, and for which
                       \* another thread has assigned a parent since then

nodeVars == <<parent, children>>
storeVars == <<repository, disk>>
markVars == <<changed, unmarked>>
vars == <<parent, children, changed, monitor, repository, disk, pc, loc, lockVars,
          unmarked, overtaken>>

(* From the validation to the assignment of the new parent. *)
BeforeSteps == {"find", "contains", "remove", "array", "write", "reread", "markOld",
                "unparent", "markNode", "reparent"}

Steps == BeforeSteps \cup
    {"idle", "read", "add", "markNew", "lock", "detach", "markSaved", "enter", "process"}

Fields == [parent : Nodes \cup {NoNode}, children : SUBSET Nodes]

(* node: the one to move, save or delete; target: where it is moved; old:  *)
(* the parent that detachParent has read last; array: an array of children *)
(* the thread has read; todo: the marked nodes still to process.           *)
Locals == [op : {"append", "save", "delete"}, node : Nodes, target : Nodes,
           old : Nodes, array : SUBSET Nodes, todo : SUBSET Nodes]

TypeOK ==
    /\ LockTypeOK
    /\ parent \in [Nodes -> Nodes \cup {NoNode}]
    /\ children \in [Nodes -> SUBSET Nodes]
    /\ changed \subseteq Nodes
    /\ monitor \in Threads \cup {NoThread}
    /\ repository \subseteq Nodes
    /\ disk \in [Nodes -> Fields]
    /\ pc \in [Threads -> Steps]
    /\ loc \in [Threads -> Locals]
    /\ unmarked \subseteq Nodes
    /\ overtaken \subseteq Threads

Image(n) == [parent |-> parent[n], children |-> children[n]]

Blank == [parent |-> NoNode, children |-> {}]

NoLocals == [op |-> "save", node |-> Home, target |-> Home,
             old |-> Home, array |-> {}, todo |-> {}]

(* Any tree with root Home, all of it saved. *)
Init ==
    /\ LockInit
    /\ parent \in [Nodes -> Nodes \cup {NoNode}]
    /\ Below(parent, Home) = Nodes /\ parent[Home] = NoNode
    /\ children = [n \in Nodes |-> {m \in Nodes : parent[m] = n}]
    /\ changed = {}
    /\ monitor = NoThread
    /\ repository = Nodes
    /\ disk = [n \in Nodes |-> Image(n)]
    /\ pc = [t \in Threads |-> "idle"]
    /\ loc = [t \in Threads |-> NoLocals]
    /\ unmarked = {} /\ overtaken = {}

Tree == Below(parent, Home)

(* Thread t goes from one place to the next. *)
Goto(t, from, to) == pc[t] = from /\ pc' = [pc EXCEPT ![t] = to]

(* markChanged by thread t. *)
Mark(t, ns) ==
    /\ monitor = NoThread
    /\ changed' = changed \cup ns
    /\ unmarked' = unmarked \ ns

(***************************************************************************)
(* Nodes.append(p, n): validate, and appendChild without a lock            *)
(***************************************************************************)

(* Mutant: the nesting is not validated. *)
BeginAppend_NoNesting(t, p, n) ==
    /\ t \in Movers /\ n # Home
    /\ Goto(t, "idle", "find")
    /\ loc' = [loc EXCEPT ![t] = [@ EXCEPT !.op = "append", !.node = n, !.target = p]]
    /\ overtaken' = overtaken \ {t}
    /\ UNCHANGED <<nodeVars, markVars, monitor, storeVars, lockVars>>

BeginAppend(t, p, n) ==
    /\ t \in Movers
    /\ Goto(t, "idle", "find")
    /\ p \notin Below(parent, n)
    /\ loc' = [loc EXCEPT ![t] = [@ EXCEPT !.op = "append", !.node = n, !.target = p]]
    /\ overtaken' = overtaken \ {t}
    /\ UNCHANGED <<nodeVars, markVars, monitor, storeVars, lockVars>>

(***************************************************************************)
(* child.detachParent() reads the field "parent" again for every use of it *)
(***************************************************************************)

(* if (parent != null && ... *)
FindOld(t) ==
    /\ Goto(t, "find", IF parent[loc[t].node] = NoNode THEN "unparent" ELSE "contains")
    /\ UNCHANGED <<nodeVars, markVars, monitor, storeVars, lockVars, loc, overtaken>>

(* ... ArrayUtils.contains(parent.children, this)) *)
LookUp(t) ==
    LET p == parent[loc[t].node]
    IN  /\ p # NoNode
        /\ Goto(t, "contains", IF loc[t].node \in children[p] THEN "remove" ELSE "unparent")
        /\ UNCHANGED <<nodeVars, markVars, monitor, storeVars, lockVars, loc, overtaken>>

(* Mutant: the parent is kept in a variable without a check for null. *)
FindOwner_NoNullCheck(t) ==
    /\ Goto(t, "remove", "array")
    /\ loc' = [loc EXCEPT ![t].old = parent[loc[t].node]]
    /\ UNCHANGED <<nodeVars, markVars, monitor, storeVars, lockVars, overtaken>>

(* The parent on the left of "parent.children =". *)
FindOwner(t) ==
    LET p == parent[loc[t].node]
    IN  /\ p # NoNode
        /\ Goto(t, "remove", "array")
        /\ loc' = [loc EXCEPT ![t].old = p]
        /\ UNCHANGED <<nodeVars, markVars, monitor, storeVars, lockVars, overtaken>>

(* The one on its right, and its array. *)
ReadOld(t) ==
    LET p == parent[loc[t].node]
    IN  /\ p # NoNode
        /\ Goto(t, "array", "write")
        /\ loc' = [loc EXCEPT ![t].array = children[p]]
        /\ UNCHANGED <<nodeVars, markVars, monitor, storeVars, lockVars, overtaken>>

RemoveFromOld(t) ==
    /\ Goto(t, "write", "reread")
    /\ children' = [children EXCEPT ![loc[t].old] = loc[t].array \ {loc[t].node}]
    /\ loc' = [loc EXCEPT ![t].array = {}]
    /\ UNCHANGED <<parent, markVars, monitor, storeVars, lockVars, overtaken>>

(* The parent of "parent.markChanged()", which may be another one by now. *)
FindMarked(t) ==
    LET p == parent[loc[t].node]
    IN  /\ p # NoNode
        /\ Goto(t, "reread", "markOld")
        /\ loc' = [loc EXCEPT ![t].old = p]
        /\ unmarked' = unmarked \cup ({loc[t].old} \ {p})
        /\ UNCHANGED <<nodeVars, changed, monitor, storeVars, lockVars, overtaken>>

MarkOld(t) ==
    /\ Goto(t, "markOld", "unparent")
    /\ Mark(t, {loc[t].old})
    /\ UNCHANGED <<nodeVars, monitor, storeVars, lockVars, loc, overtaken>>

(* Another thread has set the parent to null: a NullPointerException ends  *)
(* the request, and what it has changed stays as it is.                    *)
ParentGone(t) ==
    /\ pc[t] \in {"contains", "remove", "array", "reread"}
    /\ parent[loc[t].node] = NoNode
    /\ pc' = [pc EXCEPT ![t] = "idle"]
    /\ loc' = [loc EXCEPT ![t] = NoLocals]
    /\ unmarked' = unmarked \cup (IF pc[t] = "reread" THEN {loc[t].old} ELSE {})
    /\ UNCHANGED <<nodeVars, changed, monitor, storeVars, lockVars, overtaken>>

Unparent(t) ==
    /\ Goto(t, "unparent", "markNode")
    /\ parent' = [parent EXCEPT ![loc[t].node] = NoNode]
    /\ UNCHANGED <<children, markVars, monitor, storeVars, lockVars, loc, overtaken>>

MarkNode(t) ==
    /\ Goto(t, "markNode", "reparent")
    /\ Mark(t, {loc[t].node})
    /\ UNCHANGED <<nodeVars, monitor, storeVars, lockVars, loc, overtaken>>

(* The assignment of the new parent is not marked again. *)
Reparent(t) ==
    /\ Goto(t, "reparent", "read")
    /\ parent' = [parent EXCEPT ![loc[t].node] = loc[t].target]
    /\ overtaken' = overtaken \cup {u \in Threads \ {t} : pc[u] \in BeforeSteps}
    /\ UNCHANGED <<children, markVars, monitor, storeVars, lockVars, loc>>

ReadNew(t) ==
    /\ Goto(t, "read", "add")
    /\ loc' = [loc EXCEPT ![t].array = children[loc[t].target]]
    /\ UNCHANGED <<nodeVars, markVars, monitor, storeVars, lockVars, overtaken>>

AddToNew(t) ==
    /\ Goto(t, "add", "markNew")
    /\ children' = [children EXCEPT ![loc[t].target] = loc[t].array \cup {loc[t].node}]
    /\ loc' = [loc EXCEPT ![t].array = {}]
    /\ UNCHANGED <<parent, markVars, monitor, storeVars, lockVars, overtaken>>

MarkNew(t) ==
    /\ Goto(t, "markNew", "lock")
    /\ Mark(t, {loc[t].target})
    /\ UNCHANGED <<nodeVars, monitor, storeVars, lockVars, loc, overtaken>>

(***************************************************************************)
(* Nodes.save and Nodes.delete: Database.write(...)                        *)
(***************************************************************************)

BeginSave(t, n) ==
    /\ Goto(t, "idle", "lock")
    /\ loc' = [loc EXCEPT ![t] = [@ EXCEPT !.op = "save", !.node = n]]
    /\ UNCHANGED <<nodeVars, markVars, monitor, storeVars, lockVars, overtaken>>

(* The editor of the root has no button to delete it. *)
BeginDelete(t, n) ==
    /\ t \notin Movers /\ n # Home
    /\ Goto(t, "idle", "lock")
    /\ loc' = [loc EXCEPT ![t] = [@ EXCEPT !.op = "delete", !.node = n]]
    /\ UNCHANGED <<nodeVars, markVars, monitor, storeVars, lockVars, overtaken>>

Lock(t) ==
    /\ Goto(t, "lock", IF loc[t].op = "delete" THEN "detach" ELSE "markSaved")
    /\ WriteLock(t)
    /\ UNCHANGED <<nodeVars, markVars, monitor, storeVars, loc, overtaken>>

(* What detach() visits: the node, its children, and theirs. *)
Visited(n) ==
    LET closed == {S \in SUBSET Nodes : n \in S /\ \A k \in S : children[k] \subseteq S}
    IN  {m \in Nodes : \A S \in closed : m \in S}

(* Mutant: the parents that lose a child are not marked. *)
DetachSubtree_MarksNodesOnly(t) ==
    LET gone == Visited(loc[t].node)
    IN  /\ Goto(t, "detach", "enter")
        /\ parent' = [m \in Nodes |-> IF m \in gone THEN NoNode ELSE parent[m]]
        /\ children' = [q \in Nodes |-> children[q] \ {m \in gone : parent[m] = q}]
        /\ Mark(t, gone)
        /\ UNCHANGED <<monitor, storeVars, lockVars, loc, overtaken>>

(* node.detach(), in one step: the steps of two threads in the middle of   *)
(* it are left out.                                                        *)
DetachSubtree(t) ==
    LET gone == Visited(loc[t].node)
        losing == {q \in Nodes : \E m \in gone : m \in children[q] /\ parent[m] = q}
    IN  /\ Goto(t, "detach", "enter")
        /\ parent' = [m \in Nodes |-> IF m \in gone THEN NoNode ELSE parent[m]]
        /\ children' = [q \in Nodes |-> children[q] \ {m \in gone : parent[m] = q}]
        /\ Mark(t, gone \cup losing)
        /\ UNCHANGED <<monitor, storeVars, lockVars, loc, overtaken>>

(* save() is called for the container when a node is appended. *)
MarkSaved(t) ==
    /\ Goto(t, "markSaved", "enter")
    /\ Mark(t, {IF loc[t].op = "append" THEN loc[t].target ELSE loc[t].node})
    /\ UNCHANGED <<nodeVars, monitor, storeVars, lockVars, loc, overtaken>>

(***************************************************************************)
(* processChangedNodes(traverse), and the end of the transaction           *)
(***************************************************************************)

Enter(t) ==
    /\ Goto(t, "enter", "process")
    /\ monitor = NoThread /\ monitor' = t
    /\ loc' = [loc EXCEPT ![t].todo = changed]
    /\ UNCHANGED <<nodeVars, markVars, storeVars, lockVars, overtaken>>

(* One node is saved if it is rooted and deleted if it is not; on a cycle  *)
(* of parents isRooted would not end.                                      *)
Process(t, n) ==
    /\ pc[t] = "process" /\ n \in loc[t].todo
    /\ n \notin Tree => \E top \in Nodes : parent[top] = NoNode /\ n \in Below(parent, top)
    /\ IF n \in Tree
       THEN repository' = repository \cup {n} /\ disk' = [disk EXCEPT ![n] = Image(n)]
       ELSE repository' = repository \ {n} /\ disk' = [disk EXCEPT ![n] = Blank]
    /\ loc' = [loc EXCEPT ![t].todo = @ \ {n}]
    /\ UNCHANGED <<nodeVars, markVars, monitor, lockVars, pc, overtaken>>

(* Mutant: the marks are kept for the next request. *)
Leave_KeepsMarks(t) ==
    /\ Goto(t, "process", "idle")
    /\ loc[t].todo = {}
    /\ monitor' = NoThread
    /\ WriteUnlock(t)
    /\ loc' = [loc EXCEPT ![t] = NoLocals]
    /\ UNCHANGED <<nodeVars, markVars, storeVars, overtaken>>

Leave(t) ==
    /\ Goto(t, "process", "idle")
    /\ loc[t].todo = {}
    /\ changed' = {}
    /\ monitor' = NoThread
    /\ WriteUnlock(t)
    /\ loc' = [loc EXCEPT ![t] = NoLocals]
    /\ UNCHANGED <<nodeVars, storeVars, unmarked, overtaken>>

(* What a thread does once it has begun. *)
Step(t) ==
    \/ FindOld(t) \/ LookUp(t) \/ FindOwner(t) \/ ReadOld(t) \/ RemoveFromOld(t)
    \/ FindMarked(t) \/ MarkOld(t) \/ ParentGone(t)
    \/ Unparent(t) \/ MarkNode(t) \/ Reparent(t)
    \/ ReadNew(t) \/ AddToNew(t) \/ MarkNew(t)
    \/ Lock(t) \/ DetachSubtree(t) \/ MarkSaved(t)
    \/ Enter(t) \/ (\E n \in Nodes : Process(t, n)) \/ Leave(t)

(* A session names nodes of the tree. *)
Begin(t) ==
    /\ pc[t] = "idle"
    /\ \E n \in Tree :
          \/ \E p \in Tree : BeginAppend(t, p, n)
          \/ BeginSave(t, n)
          \/ BeginDelete(t, n)

Next == \E t \in Threads : Begin(t) \/ Step(t)

Spec == Init /\ [][Next]_vars

(***************************************************************************)
(* Properties                                                              *)
(***************************************************************************)

AtRest == \A t \in Threads : pc[t] = "idle"

(* Whatever the interleaving of one thread that moves nodes with others    *)
(* that save and delete: when all are done, what is on disk of a node is   *)
(* what is in memory (every assignment is marked before its thread saves,  *)
(* and a mark is never lost between two requests).  After a request that   *)
(* ended in a NullPointerException arrays of children may differ, but only *)
(* in nodes that were deleted, which a restart does not find.              *)
DiskCurrentAtRest ==
    AtRest => \A n \in repository :
        /\ disk[n].parent = parent[n]
        /\ disk[n].children \cap repository = children[n] \cap repository
        /\ n \in unmarked \/ disk[n] = Image(n)

(* ... and no mark is left for which nobody saves. *)
NoMarkAtRest == AtRest => changed = {}

(* One thread that moves nodes never makes a cycle, although its target is *)
(* validated long before the node is appended.                             *)
Acyclic == NoCycle(parent)

(* With any number of them, the step that closes a cycle is one whose      *)
(* nesting was validated before another thread moved a node.               *)
CyclesNeedTwoMoves ==
    [][NoCycle(parent) /\ ~NoCycle(parent') =>
          \E t \in overtaken : Reparent(t)]_vars

(* A node of the tree is stored when nobody is busy: Nodes.append "appends *)
(* given child to given node and saves changes to database", Nodes.save    *)
(* "saves all changes of a given node".                                    *)
TreeIsStored == AtRest => Tree \subseteq repository
=============================================================================
