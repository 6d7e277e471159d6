------------------------- MODULE NodeTreeThreadsProofs -------------------------
(***************************************************************************)
(* Proofs about NodeTreeThreads, for any set of nodes and threads: types,  *)
(* marks, what a cycle takes, and, if one thread moves nodes, that what is *)
(* on disk follows the memory.                                             *)
(***************************************************************************)
EXTENDS NodeTreeThreads, AncestryProofs

USE HomeAssumption, MoversAssumption, NoNodeAssumption, NoThreadAssumption

OneMover == \A t, u \in Movers : t = u

MoveSteps == BeforeSteps \cup {"read", "add", "markNew"}

(* The marked nodes that some thread will process. *)
Unsaved == IF monitor = NoThread THEN changed ELSE loc[monitor].todo

(* Those that have been changed, and whose thread is about to mark them.   *)
Pending ==
    {n \in Nodes : \E t \in Threads : \/ pc[t] = "markOld" /\ n = loc[t].old
                                      \/ pc[t] = "markNode" /\ n = loc[t].node
                                      \/ pc[t] = "markNew" /\ n = loc[t].target}

(* The thread that processes holds the monitor of changedNodes. *)
MonitorHeld == \A t \in Threads : pc[t] = "process" <=> monitor = t

RootOnTop == parent[Home] = NoNode

(* A node that was deleted, and that no request will attach again. *)
Gone(c) ==
    /\ c # Home /\ parent[c] = NoNode
    /\ c \notin repository \/ c \in Unsaved
    /\ \A t \in Threads : pc[t] \in MoveSteps => loc[t].node # c

(* A node that is on its way is not the root.  Nobody but its thread gives *)
(* it a parent; without one it is to be marked, or out of the database.    *)
OnItsWay ==
    \A t \in Threads :
        /\ pc[t] \in MoveSteps => t \in Movers
        /\ pc[t] \in BeforeSteps => loc[t].node # Home
        /\ pc[t] \in {"markNode", "reparent"} => parent[loc[t].node] = NoNode
        /\ pc[t] \in BeforeSteps \ {"markNode"} /\ parent[loc[t].node] = NoNode =>
              loc[t].node \notin repository \/ loc[t].node \in Unsaved
        /\ pc[t] \in {"array", "write", "reread"} => parent[loc[t].node] \in {loc[t].old, NoNode}

(* An array that was read is out of date only in nodes that are gone.      *)
ArrayKnown ==
    \A t \in Threads : pc[t] = "write" =>
        \A c \in Nodes \ {loc[t].node} :
            (c \in loc[t].array <=> c \in children[loc[t].old]) \/ Gone(c)

(* But for the nodes of X, disk and memory differ in nodes that are gone.  *)
Agree(q, X) ==
    /\ disk[q].parent = parent[q]
    /\ \A c \in Nodes \ X : (c \in disk[q].children <=> c \in children[q]) \/ Gone(c)

(* What is not on disk as it is in memory is marked, or about to be; or a  *)
(* request has written the array of its children and could not mark it.    *)
Accounted ==
    \A n \in repository :
        \/ disk[n] = Image(n) \/ n \in Unsaved \cup Pending
        \/ n \in unmarked /\ Agree(n, {})
        \/ \E t \in Threads : pc[t] = "reread" /\ n = loc[t].old /\ Agree(n, {loc[t].node})

Stepwise == RootOnTop /\ MonitorHeld /\ OnItsWay /\ ArrayKnown /\ Accounted

ThreadsInv == TypeOK /\ Stepwise

(***************************************************************************)
(* Types and marks                                                         *)
(***************************************************************************)

LEMMA TreeNodes == Tree \subseteq Nodes
  BY DEF Tree, Below

LEMMA LocalsTyped ==
    ASSUME NEW f \in Locals,
           NEW op \in {"append", "save", "delete"}, NEW n \in Nodes, NEW p \in Nodes,
           NEW S \in SUBSET Nodes
    PROVE  /\ [f EXCEPT !.op = op, !.node = n] \in Locals
           /\ [f EXCEPT !.op = op, !.node = n, !.target = p] \in Locals
           /\ [f EXCEPT !.old = p] \in Locals
           /\ [f EXCEPT !.array = S] \in Locals
           /\ [f EXCEPT !.todo = S] \in Locals
           /\ NoLocals \in Locals
  BY DEF Locals, NoLocals

LEMMA ImageTyped ==
    ASSUME TypeOK, NEW n \in Nodes
    PROVE  Image(n) \in Fields /\ Blank \in Fields
  BY DEF TypeOK, Image, Blank, Fields

LEMMA InitTyped == Init => TypeOK
  <1> SUFFICES ASSUME Init  PROVE TypeOK
    OBVIOUS
  <1>1. NoLocals \in Locals  BY DEF Locals, NoLocals
  <1>2. \A n \in Nodes : Image(n) \in Fields  BY DEF Init, Image, Fields
  <1>3. disk \in [Nodes -> Fields]  BY <1>2 DEF Init
  <1>4. QED  BY <1>1, <1>3 DEF Init, TypeOK, LockInit, LockTypeOK, Steps

LEMMA TypeStep ==
    ASSUME TypeOK, [Next]_vars
    PROVE  TypeOK'
  <1> USE DEF TypeOK, LockTypeOK, Goto, nodeVars, storeVars, lockVars
  <1>1. CASE UNCHANGED vars
    BY <1>1 DEF vars
  <1>2. ASSUME NEW t \in Threads, Begin(t)  PROVE TypeOK'
    <2>1. PICK n \in Tree : \/ \E p \in Tree : BeginAppend(t, p, n)
                            \/ BeginSave(t, n)
                            \/ BeginDelete(t, n)
      BY <1>2 DEF Begin
    <2>2. n \in Nodes  BY TreeNodes
    <2>3. CASE \E p \in Tree : BeginAppend(t, p, n)
      <3>1. PICK p \in Nodes : BeginAppend(t, p, n)  BY <2>3, TreeNodes
      <3>2. loc' \in [Threads -> Locals]
        BY <2>2, <3>1, LocalsTyped DEF BeginAppend
      <3>3. QED  BY <3>1, <3>2 DEF BeginAppend, BeforeSteps, Steps, markVars
    <2>4. CASE BeginSave(t, n)
      <3>1. loc' \in [Threads -> Locals]
        BY <2>2, <2>4, LocalsTyped DEF BeginSave
      <3>2. QED  BY <2>4, <3>1 DEF BeginSave, BeforeSteps, Steps, markVars
    <2>5. CASE BeginDelete(t, n)
      <3>1. loc' \in [Threads -> Locals]
        BY <2>2, <2>5, LocalsTyped DEF BeginDelete
      <3>2. QED  BY <2>5, <3>1 DEF BeginDelete, BeforeSteps, Steps, markVars
    <2>6. QED  BY <2>1, <2>3, <2>4, <2>5
  <1>3. ASSUME NEW t \in Threads, Step(t)  PROVE TypeOK'
    <2> DEFINE l == loc[t]
    <2>0. /\ l \in Locals /\ l.node \in Nodes /\ l.target \in Nodes /\ l.old \in Nodes
          /\ l.array \subseteq Nodes /\ l.todo \subseteq Nodes
      BY DEF Locals
    <2>1. CASE FindOld(t) \/ LookUp(t)
      BY <2>1 DEF FindOld, LookUp, BeforeSteps, Steps, markVars
    <2>17. CASE FindOwner(t) \/ FindMarked(t)
      <3> DEFINE q == parent[l.node]
      <3>1. /\ q \in Nodes
            /\ loc' = [loc EXCEPT ![t] = [@ EXCEPT !.old = q]]
        BY <2>0, <2>17 DEF FindOwner, FindMarked
      <3>2. loc' \in [Threads -> Locals]
        BY <2>0, <3>1, LocalsTyped
      <3>3. unmarked' \subseteq Nodes
        BY <2>0, <2>17 DEF FindOwner, FindMarked, markVars
      <3>4. QED  BY <2>17, <3>2, <3>3 DEF FindOwner, FindMarked, BeforeSteps, Steps, markVars
    <2>18. CASE ReadOld(t)
      <3>1. loc' \in [Threads -> Locals]
        BY <2>0, <2>18, LocalsTyped DEF ReadOld
      <3>2. QED  BY <2>18, <3>1 DEF ReadOld, BeforeSteps, Steps, markVars
    <2>19. CASE ParentGone(t)
      <3>1. loc' \in [Threads -> Locals]
        BY <2>0, <2>19, LocalsTyped DEF ParentGone
      <3>2. QED  BY <2>0, <2>19, <3>1 DEF ParentGone, BeforeSteps, Steps, markVars
    <2>2. CASE RemoveFromOld(t)
      <3>1. loc' \in [Threads -> Locals]
        BY <2>0, <2>2, LocalsTyped DEF RemoveFromOld
      <3>2. QED  BY <2>0, <2>2, <3>1 DEF RemoveFromOld, BeforeSteps, Steps, markVars
    <2>3. CASE MarkOld(t)
      BY <2>0, <2>3 DEF MarkOld, Mark, BeforeSteps, Steps, markVars
    <2>4. CASE Unparent(t)
      BY <2>0, <2>4 DEF Unparent, BeforeSteps, Steps, markVars
    <2>5. CASE MarkNode(t)
      BY <2>0, <2>5 DEF MarkNode, Mark, BeforeSteps, Steps, markVars
    <2>6. CASE Reparent(t)
      BY <2>0, <2>6 DEF Reparent, BeforeSteps, Steps, markVars
    <2>7. CASE ReadNew(t)
      <3>1. loc' \in [Threads -> Locals]
        BY <2>0, <2>7, LocalsTyped DEF ReadNew
      <3>2. QED  BY <2>7, <3>1 DEF ReadNew, BeforeSteps, Steps, markVars
    <2>8. CASE AddToNew(t)
      <3>1. loc' \in [Threads -> Locals]
        BY <2>0, <2>8, LocalsTyped DEF AddToNew
      <3>2. QED  BY <2>0, <2>8, <3>1 DEF AddToNew, BeforeSteps, Steps, markVars
    <2>9. CASE MarkNew(t)
      BY <2>0, <2>9 DEF MarkNew, Mark, BeforeSteps, Steps, markVars
    <2>10. CASE Lock(t)
      BY <2>10 DEF Lock, WriteLock, BeforeSteps, Steps, markVars
    <2>11. CASE DetachSubtree(t)
      BY <2>11 DEF DetachSubtree, Mark, Visited, BeforeSteps, Steps, markVars
    <2>12. CASE MarkSaved(t)
      BY <2>0, <2>12 DEF MarkSaved, Mark, BeforeSteps, Steps, markVars
    <2>13. CASE Enter(t)
      <3>1. loc' \in [Threads -> Locals]
        BY <2>0, <2>13, LocalsTyped DEF Enter
      <3>2. QED  BY <2>13, <3>1 DEF Enter, BeforeSteps, Steps, markVars
    <2>14. CASE \E n \in Nodes : Process(t, n)
      <3>1. PICK n \in Nodes : Process(t, n)  BY <2>14
      <3>2. l.todo \ {n} \in SUBSET Nodes  BY <2>0
      <3>3. loc' \in [Threads -> Locals]
        BY <2>0, <3>1, <3>2, LocalsTyped DEF Process
      <3>4. disk' \in [Nodes -> Fields] /\ repository' \subseteq Nodes
        BY <3>1, ImageTyped DEF Process
      <3>5. QED  BY <3>1, <3>3, <3>4 DEF Process, markVars
    <2>15. CASE Leave(t)
      <3>1. loc' \in [Threads -> Locals]
        BY <2>0, <2>15, LocalsTyped DEF Leave
      <3>2. QED  BY <2>15, <3>1 DEF Leave, WriteUnlock, BeforeSteps, Steps, markVars
    <2>16. QED
      BY <1>3, <2>1, <2>2, <2>3, <2>4, <2>5, <2>6, <2>7, <2>8, <2>9, <2>10, <2>11, <2>12,
         <2>13, <2>14, <2>15, <2>17, <2>18, <2>19 DEF Step
  <1>4. QED  BY <1>1, <1>2, <1>3 DEF Next

(* A mark has a thread that will save, and no longer reads a parent that   *)
(* may be gone.                                                            *)
Saving == {"unparent", "markNode", "reparent", "read", "add", "markNew", "lock", "detach",
           "markSaved", "enter", "process"}
MarksOwned == changed # {} => \E t \in Threads : pc[t] \in Saving

LEMMA MarksStep ==
    ASSUME TypeOK, MarksOwned, [Next]_vars
    PROVE  MarksOwned'
  <1>1. CASE UNCHANGED vars
    BY <1>1 DEF vars, MarksOwned
  <1>2. ASSUME NEW t \in Threads, Begin(t)  PROVE MarksOwned'
    BY <1>2 DEF Begin, BeginAppend, BeginSave, BeginDelete, Goto, TypeOK, MarksOwned, markVars,
                Saving
  <1>3. ASSUME NEW t \in Threads, Step(t)  PROVE MarksOwned'
    <2>1. CASE Leave(t)
      BY <2>1 DEF Leave, MarksOwned
    <2>2. CASE \/ FindOld(t) \/ LookUp(t) \/ FindOwner(t) \/ ReadOld(t) \/ RemoveFromOld(t)
               \/ FindMarked(t) \/ ParentGone(t)
      <3>1. changed' = changed /\ pc[t] \notin Saving
            /\ \A u \in Threads \ {t} : pc'[u] = pc[u]
        BY <2>2 DEF FindOld, LookUp, FindOwner, ReadOld, RemoveFromOld, FindMarked, ParentGone,
           Goto, TypeOK, markVars, Saving
      <3>2. QED  BY <3>1 DEF MarksOwned
    <2>3. CASE \/ MarkOld(t) \/ Unparent(t) \/ MarkNode(t) \/ Reparent(t)
               \/ ReadNew(t) \/ AddToNew(t) \/ MarkNew(t)
               \/ Lock(t) \/ DetachSubtree(t) \/ MarkSaved(t)
               \/ Enter(t) \/ (\E n \in Nodes : Process(t, n))
      <3>1. pc'[t] \in Saving
        BY <2>3 DEF MarkOld, Unparent, MarkNode, Reparent, ReadNew, AddToNew, MarkNew, Lock,
           DetachSubtree, MarkSaved, Enter, Process, Goto, TypeOK, Saving
      <3>2. QED  BY <3>1 DEF MarksOwned
    <2>4. QED  BY <1>3, <2>1, <2>2, <2>3 DEF Step
  <1>4. QED  BY <1>1, <1>2, <1>3 DEF Next

(***************************************************************************)
(* What every step keeps                                                   *)
(***************************************************************************)

LEMMA RootHasNoParent ==
    ASSUME NEW n \in Tree, TypeOK, n # Home
    PROVE  parent[n] # NoNode
  <1>1. parent[n] \in Below(parent, Home)
    BY BelowParent DEF Tree
  <1>2. QED  BY <1>1 DEF Below

(* Who loses a parent leaves what was below another node, and nothing else *)
(* comes there.                                                            *)
LEMMA BelowShrinks ==
    ASSUME NEW par, NEW lost, NEW n \in Nodes,
           \A m \in Nodes : lost[m] \in {par[m], NoNode}
    PROVE  Below(lost, n) \subseteq Below(par, n)
  <1> DEFINE B == Below(par, n)
  <1>1. n \in B /\ B \in SUBSET Nodes
    BY BelowItself DEF Below
  <1>2. \A k \in Nodes : lost[k] \in B => k \in B
    <2> SUFFICES ASSUME NEW k \in Nodes, lost[k] \in B  PROVE k \in B
      OBVIOUS
    <2>1. lost[k] = par[k]  BY <1>1
    <2>2. QED  BY <2>1, BelowClosed
  <1>3. QED  BY <1>1, <1>2, BelowLeast

(* What is gone stays so, if a step attaches nothing but its own node. *)
LEMMA GoneStays ==
    ASSUME ThreadsInv, NEW t \in Threads, NEW c \in Nodes, Gone(c),
           parent'[c] = NoNode,
           c \notin repository' \/ c \in Unsaved',
           \A u \in Threads \ {t} : pc'[u] = pc[u] /\ loc'[u].node = loc[u].node,
           pc'[t] \in MoveSteps => pc[t] \in MoveSteps /\ loc'[t].node = loc[t].node
    PROVE  Gone(c)'
  BY DEF Gone

(* A step that leaves the disk alone, marks or owes a mark for what it     *)
(* changes, and keeps the marks of others.                                 *)
LEMMA AccountsKept ==
    ASSUME ThreadsInv, NEW X,
           UNCHANGED <<repository, disk>>,
           \A q \in Nodes \ X : parent'[q] = parent[q] /\ children'[q] = children[q],
           X \cap repository \subseteq Unsaved' \cup Pending',
           Unsaved \subseteq Unsaved', Pending \subseteq Unsaved' \cup Pending',
           unmarked \subseteq unmarked' \cup Unsaved',
           \A c \in Nodes : Gone(c) => Gone(c)',
           \A u \in Threads : pc[u] = "reread" =>
               \/ pc'[u] = "reread" /\ loc'[u].old = loc[u].old /\ loc'[u].node = loc[u].node
               \/ loc[u].old \in Unsaved' \cup Pending'
    PROVE  Accounted'
  <1> SUFFICES ASSUME NEW q \in repository, q \notin Unsaved' \cup Pending'
               PROVE  \/ disk[q] = Image(q)'
                      \/ q \in unmarked' /\ Agree(q, {})'
                      \/ \E t \in Threads : /\ pc'[t] = "reread" /\ q = loc'[t].old
                                            /\ Agree(q, {loc[t].node})'
    BY DEF Accounted
  <1>1. q \in Nodes /\ parent'[q] = parent[q] /\ children'[q] = children[q]
    BY DEF ThreadsInv, TypeOK
  <1>2. \A Y : Agree(q, Y) => Agree(q, Y)'
    BY <1>1 DEF Agree
  <1>3. CASE disk[q] = Image(q)
    BY <1>1, <1>3 DEF Image
  <1>4. CASE q \in unmarked /\ Agree(q, {})
    BY <1>2, <1>4
  <1>5. CASE \E t \in Threads : pc[t] = "reread" /\ q = loc[t].old /\ Agree(q, {loc[t].node})
    <2>1. PICK t \in Threads : pc[t] = "reread" /\ q = loc[t].old /\ Agree(q, {loc[t].node})
      BY <1>5
    <2>2. pc'[t] = "reread" /\ loc'[t].old = q /\ loc'[t].node = loc[t].node
      BY <2>1
    <2>3. Agree(q, {loc[t].node})'
      BY <1>1, <2>1, <2>2 DEF Agree
    <2>4. QED  BY <2>1, <2>2, <2>3
  <1>6. QED  BY <1>3, <1>4, <1>5 DEF ThreadsInv, Stepwise, Accounted

(***************************************************************************)
(* The steps, each with what it can disturb                                *)
(***************************************************************************)

(* The beginning of a request. *)
LEMMA BeginStep ==
    ASSUME ThreadsInv, NEW t \in Threads, Begin(t)
    PROVE  Stepwise'
  <1>1. /\ UNCHANGED <<parent, children, changed, monitor, repository, disk, unmarked>>
        /\ pc[t] = "idle" /\ pc' = [pc EXCEPT ![t] = pc'[t]] /\ pc'[t] \in {"find", "lock"}
        /\ loc' = [loc EXCEPT ![t] = loc'[t]]
    BY DEF ThreadsInv, TypeOK, Begin, BeginAppend, BeginSave, BeginDelete, Goto, nodeVars,
           storeVars, markVars
  <1>2. \A u \in Threads \ {t} : pc'[u] = pc[u] /\ loc'[u] = loc[u]
    BY <1>1 DEF ThreadsInv, TypeOK
  <1>3. MonitorHeld' /\ monitor # t
    BY <1>1, <1>2 DEF ThreadsInv, Stepwise, MonitorHeld
  <1>4. Unsaved' = Unsaved
    BY <1>1, <1>2, <1>3 DEF Unsaved, ThreadsInv, TypeOK
  <1>5. Pending' = Pending
    BY <1>1, <1>2 DEF Pending
  <1>6. pc'[t] = "find" => /\ t \in Movers /\ loc'[t].node # Home
                           /\ loc'[t].node \in Tree
    <2> SUFFICES ASSUME pc'[t] = "find"
                 PROVE  t \in Movers /\ loc'[t].node # Home /\ loc'[t].node \in Tree
      OBVIOUS
    <2>1. PICK n \in Tree, p \in Tree : BeginAppend(t, p, n)
      BY <1>1 DEF Begin, BeginSave, BeginDelete, Goto, ThreadsInv, TypeOK
    <2>2. loc'[t].node = n /\ t \in Movers /\ p \notin Below(parent, n)
      BY <2>1 DEF BeginAppend, ThreadsInv, TypeOK, Locals
    <2>3. n # Home  BY <2>2 DEF Tree
    <2>4. QED  BY <2>2, <2>3
  <1>7. pc'[t] = "find" => parent[loc'[t].node] # NoNode
    BY <1>6, RootHasNoParent DEF ThreadsInv
  <1>8. \A c \in Nodes : Gone(c) => Gone(c)'
    BY <1>1, <1>2, <1>4, <1>7 DEF Gone, MoveSteps, BeforeSteps
  <1>9. Accounted'
    <2> DEFINE X == {}
    <2>1. X \cap repository \subseteq Unsaved' \cup Pending'  OBVIOUS
    <2>2. \A u \in Threads : pc[u] = "reread" => u # t  BY <1>1
    <2> HIDE DEF X
    <2>3. QED  BY <1>1, <1>2, <1>4, <1>5, <1>8, <2>1, <2>2, AccountsKept
  <1>10. OnItsWay'
    BY <1>1, <1>2, <1>4, <1>6, <1>7 DEF OnItsWay, ThreadsInv, Stepwise, MoveSteps, BeforeSteps
  <1>11. ArrayKnown'
    BY <1>1, <1>2, <1>8 DEF ArrayKnown, ThreadsInv, Stepwise
  <1>12. QED  BY <1>1, <1>3, <1>9, <1>10, <1>11 DEF ThreadsInv, Stepwise, RootOnTop

(* To read a field, or to take the lock, changes nothing that others see.  *)
LEMMA ReadStep ==
    ASSUME ThreadsInv, NEW t \in Threads,
           FindOld(t) \/ LookUp(t) \/ FindOwner(t) \/ ReadOld(t) \/ ReadNew(t) \/ Lock(t)
    PROVE  Stepwise'
  <1>0. loc[t].node \in Nodes /\ loc[t] \in Locals
    BY DEF ThreadsInv, TypeOK, Locals
  <1>1. /\ UNCHANGED <<parent, children, changed, monitor, repository, disk, unmarked>>
        /\ \/ pc[t] = "find" /\ pc'[t] \in {"contains", "unparent"}
           \/ pc[t] = "contains" /\ pc'[t] \in {"remove", "unparent"}
           \/ pc[t] = "remove" /\ pc'[t] = "array" /\ loc'[t].old = parent[loc[t].node]
           \/ /\ pc[t] = "array" /\ pc'[t] = "write" /\ loc'[t].old = loc[t].old
              /\ parent[loc[t].node] # NoNode /\ loc'[t].array = children[parent[loc[t].node]]
           \/ pc[t] = "read" /\ pc'[t] = "add"
           \/ pc[t] = "lock" /\ pc'[t] \in {"detach", "markSaved"}
        /\ pc' = [pc EXCEPT ![t] = pc'[t]]
        /\ loc' = [loc EXCEPT ![t] = loc'[t]]
        /\ loc'[t].node = loc[t].node /\ loc'[t].target = loc[t].target
    BY <1>0 DEF ThreadsInv, TypeOK, Locals, FindOld, LookUp, FindOwner, ReadOld, ReadNew, Lock,
                Goto, nodeVars, storeVars, markVars
  <1>2. \A u \in Threads \ {t} : pc'[u] = pc[u] /\ loc'[u] = loc[u]
    BY <1>1 DEF ThreadsInv, TypeOK
  <1>3. MonitorHeld' /\ monitor # t
    BY <1>1, <1>2 DEF ThreadsInv, Stepwise, MonitorHeld
  <1>4. Unsaved' = Unsaved
    BY <1>1, <1>2, <1>3 DEF Unsaved, ThreadsInv, TypeOK
  <1>5. Pending' = Pending
    BY <1>1, <1>2 DEF Pending
  <1>6. \A c \in Nodes : Gone(c) => Gone(c)'
    BY <1>1, <1>2, <1>4 DEF Gone, MoveSteps, BeforeSteps
  <1>7. Accounted'
    <2> DEFINE X == {}
    <2>1. X \cap repository \subseteq Unsaved' \cup Pending'  OBVIOUS
    <2>2. \A u \in Threads : pc[u] = "reread" => u # t  BY <1>1
    <2> HIDE DEF X
    <2>3. QED  BY <1>1, <1>2, <1>4, <1>5, <1>6, <2>1, <2>2, AccountsKept
  <1>8. OnItsWay'
    BY <1>1, <1>2, <1>4 DEF OnItsWay, ThreadsInv, Stepwise, MoveSteps, BeforeSteps
  <1>9. ArrayKnown'
    <2>1. pc'[t] = "write" => loc'[t].array = children[loc'[t].old]
      BY <1>1 DEF ThreadsInv, Stepwise, OnItsWay
    <2>2. QED  BY <1>1, <1>2, <1>6, <2>1 DEF ArrayKnown, ThreadsInv, Stepwise
  <1>10. QED  BY <1>1, <1>3, <1>7, <1>8, <1>9 DEF ThreadsInv, Stepwise, RootOnTop

(* The array of the old parent is assigned: until it is marked, it differs *)
(* from the disk in the node that leaves, and in nodes that are gone.      *)
LEMMA RemoveStep ==
    ASSUME ThreadsInv, OneMover, NEW t \in Threads, RemoveFromOld(t)
    PROVE  Stepwise'
  <1> DEFINE q == loc[t].old
             n == loc[t].node
  <1>1. /\ UNCHANGED <<parent, changed, monitor, repository, disk, unmarked>>
        /\ pc[t] = "write" /\ pc' = [pc EXCEPT ![t] = "reread"]
        /\ loc' = [loc EXCEPT ![t] = loc'[t]]
        /\ loc'[t].node = n /\ loc'[t].target = loc[t].target /\ loc'[t].old = q
        /\ children' = [children EXCEPT ![q] = loc[t].array \ {n}]
        /\ q \in Nodes /\ n \in Nodes
    BY DEF ThreadsInv, TypeOK, RemoveFromOld, Goto, storeVars, markVars, Locals
  <1>2. /\ \A u \in Threads \ {t} : pc'[u] = pc[u] /\ loc'[u] = loc[u]
        /\ pc'[t] = "reread" /\ children'[q] = loc[t].array \ {n}
        /\ \A m \in Nodes \ {q} : children'[m] = children[m]
    BY <1>1 DEF ThreadsInv, TypeOK
  <1>3. MonitorHeld' /\ monitor # t
    BY <1>1, <1>2 DEF ThreadsInv, Stepwise, MonitorHeld
  <1>4. Unsaved' = Unsaved
    BY <1>1, <1>2, <1>3 DEF Unsaved, ThreadsInv, TypeOK
  <1>5. Pending' = Pending
    BY <1>1, <1>2 DEF Pending
  <1>6. \A c \in Nodes : Gone(c) => Gone(c)'
    BY <1>1, <1>2, <1>4 DEF Gone, MoveSteps, BeforeSteps
  <1>7. \A u \in Threads \ {t} : pc[u] \notin MoveSteps
    BY <1>1 DEF ThreadsInv, Stepwise, OnItsWay, OneMover, MoveSteps, BeforeSteps
  <1>8. Pending = {}
    BY <1>1, <1>7 DEF Pending, MoveSteps, BeforeSteps
  <1>9. ASSUME NEW c \in Nodes \ {n}
        PROVE  (c \in children'[q] <=> c \in children[q]) \/ Gone(c)
    BY <1>1, <1>2 DEF ThreadsInv, Stepwise, ArrayKnown
  <1>10. ASSUME q \in repository, q \notin Unsaved
         PROVE  /\ disk'[q].parent = parent'[q]
                /\ \A c \in Nodes \ {n} :
                      (c \in disk'[q].children <=> c \in children'[q]) \/ Gone(c)'
    <2>1. disk[q] = Image(q) \/ Agree(q, {})
      BY <1>1, <1>7, <1>8, <1>10 DEF ThreadsInv, Stepwise, Accounted, MoveSteps, BeforeSteps
    <2>2. Agree(q, {})
      BY <2>1 DEF Agree, Image
    <2>3. QED  BY <1>1, <1>6, <1>9, <2>2 DEF Agree
  <1> HIDE DEF q, n
  <1>11. Accounted'
    <2> SUFFICES ASSUME NEW m \in repository, m \notin Unsaved
                 PROVE  \/ disk[m] = Image(m)'
                        \/ m \in unmarked /\ Agree(m, {})'
                        \/ \E u \in Threads : /\ pc'[u] = "reread" /\ m = loc'[u].old
                                              /\ Agree(m, {loc[u].node})'
      BY <1>1, <1>4 DEF Accounted
    <2>1. CASE m = q
      <3>1. /\ pc'[t] = "reread" /\ m = loc'[t].old /\ loc'[t].node = n
            /\ parent' = parent /\ disk' = disk
        BY <1>1, <1>2, <2>1
      <3>2. Agree(m, {loc[t].node})'
        BY <1>10, <2>1, <3>1 DEF Agree
      <3>3. QED  BY <3>1, <3>2
    <2>2. CASE m # q
      <3>1. m \in Nodes /\ children'[m] = children[m] /\ parent'[m] = parent[m]
        BY <1>1, <1>2, <2>2 DEF ThreadsInv, TypeOK
      <3>2. disk[m] = Image(m) \/ (m \in unmarked /\ Agree(m, {}))
        BY <1>1, <1>7, <1>8 DEF ThreadsInv, Stepwise, Accounted, MoveSteps, BeforeSteps
      <3>3. CASE disk[m] = Image(m)
        BY <3>1, <3>3 DEF Image
      <3>4. CASE m \in unmarked /\ Agree(m, {})
        <4>1. Agree(m, {})'  BY <1>1, <1>6, <3>1, <3>4 DEF Agree
        <4>2. QED  BY <3>4, <4>1
      <3>5. QED  BY <3>2, <3>3, <3>4
    <2>3. QED  BY <2>1, <2>2
  <1>12. OnItsWay'
    <2>1. parent[n] \in {q, NoNode}
      BY <1>1 DEF OnItsWay, ThreadsInv, Stepwise, q, n
    <2>2. QED
      BY <1>1, <1>2, <1>4, <2>1 DEF OnItsWay, ThreadsInv, Stepwise, MoveSteps, BeforeSteps, n
  <1>13. ArrayKnown'
    BY <1>2, <1>7 DEF ArrayKnown, MoveSteps, BeforeSteps
  <1>14. QED  BY <1>1, <1>3, <1>11, <1>12, <1>13 DEF ThreadsInv, Stepwise, RootOnTop

(* The array of the new parent is assigned, which is to be marked. *)
LEMMA AddStep ==
    ASSUME ThreadsInv, OneMover, NEW t \in Threads, AddToNew(t)
    PROVE  Stepwise'
  <1> DEFINE q == loc[t].target
  <1>1. /\ UNCHANGED <<parent, changed, monitor, repository, disk, unmarked>>
        /\ pc[t] = "add" /\ pc' = [pc EXCEPT ![t] = "markNew"]
        /\ loc' = [loc EXCEPT ![t] = loc'[t]]
        /\ loc'[t].node = loc[t].node /\ loc'[t].target = q
        /\ \A m \in Nodes \ {q} : children'[m] = children[m]
        /\ q \in Nodes
    BY DEF ThreadsInv, TypeOK, AddToNew, Goto, storeVars, markVars, Locals
  <1>2. pc'[t] = "markNew" /\ \A u \in Threads \ {t} : pc'[u] = pc[u] /\ loc'[u] = loc[u]
    BY <1>1 DEF ThreadsInv, TypeOK
  <1>3. MonitorHeld' /\ monitor # t
    BY <1>1, <1>2 DEF ThreadsInv, Stepwise, MonitorHeld
  <1>4. Unsaved' = Unsaved
    BY <1>1, <1>2, <1>3 DEF Unsaved, ThreadsInv, TypeOK
  <1>5. Pending \cup {q} \subseteq Pending'
    BY <1>1, <1>2 DEF Pending
  <1>6. \A c \in Nodes : Gone(c) => Gone(c)'
    BY <1>1, <1>2, <1>4 DEF Gone, MoveSteps, BeforeSteps
  <1>7. \A u \in Threads \ {t} : pc[u] \notin MoveSteps
    BY <1>1 DEF ThreadsInv, Stepwise, OnItsWay, OneMover, MoveSteps, BeforeSteps
  <1> HIDE DEF q
  <1>8. Accounted'
    <2> DEFINE X == {q}
    <2>1. X \cap repository \subseteq Unsaved' \cup Pending'  BY <1>5
    <2>2. \A u \in Threads : pc[u] # "reread"  BY <1>1, <1>7 DEF MoveSteps, BeforeSteps
    <2>3. \A m \in Nodes \ X : parent'[m] = parent[m] /\ children'[m] = children[m]
      BY <1>1
    <2> HIDE DEF X
    <2>4. QED  BY <1>1, <1>4, <1>5, <1>6, <2>1, <2>2, <2>3, AccountsKept
  <1>9. OnItsWay'
    BY <1>1, <1>2, <1>4 DEF OnItsWay, ThreadsInv, Stepwise, MoveSteps, BeforeSteps
  <1>10. ArrayKnown'
    BY <1>2, <1>7 DEF ArrayKnown, MoveSteps, BeforeSteps
  <1>11. QED  BY <1>1, <1>3, <1>8, <1>9, <1>10 DEF ThreadsInv, Stepwise, RootOnTop

(* The parent that is to be marked is the one whose array was written.     *)
LEMMA RereadStep ==
    ASSUME ThreadsInv, NEW t \in Threads, FindMarked(t)
    PROVE  Stepwise'
  <1> DEFINE q == loc[t].old
  <1>0. parent[loc[t].node] = q /\ q \in Nodes
    BY DEF FindMarked, Goto, ThreadsInv, Stepwise, OnItsWay, TypeOK, Locals
  <1>1. /\ UNCHANGED <<parent, children, changed, monitor, repository, disk, unmarked>>
        /\ pc[t] = "reread" /\ pc' = [pc EXCEPT ![t] = "markOld"]
        /\ loc' = [loc EXCEPT ![t] = loc'[t]]
        /\ loc'[t].node = loc[t].node /\ loc'[t].target = loc[t].target /\ loc'[t].old = q
    BY <1>0 DEF ThreadsInv, TypeOK, FindMarked, Goto, nodeVars, storeVars, Locals
  <1>2. pc'[t] = "markOld" /\ \A u \in Threads \ {t} : pc'[u] = pc[u] /\ loc'[u] = loc[u]
    BY <1>1 DEF ThreadsInv, TypeOK
  <1>3. MonitorHeld' /\ monitor # t
    BY <1>1, <1>2 DEF ThreadsInv, Stepwise, MonitorHeld
  <1>4. Unsaved' = Unsaved
    BY <1>1, <1>2, <1>3 DEF Unsaved, ThreadsInv, TypeOK
  <1>5. Pending \cup {q} \subseteq Pending'
    BY <1>0, <1>1, <1>2 DEF Pending
  <1>6. \A c \in Nodes : Gone(c) => Gone(c)'
    BY <1>1, <1>2, <1>4 DEF Gone, MoveSteps, BeforeSteps
  <1>7. Accounted'
    <2> DEFINE X == {}
    <2>1. X \cap repository \subseteq Unsaved' \cup Pending'  OBVIOUS
    <2>2. \A u \in Threads : pc[u] = "reread" => u # t \/ loc[u].old \in Pending'
      BY <1>5
    <2> HIDE DEF X, q
    <2>3. QED  BY <1>1, <1>2, <1>4, <1>5, <1>6, <2>1, <2>2, AccountsKept
  <1>8. OnItsWay'
    BY <1>1, <1>2, <1>4 DEF OnItsWay, ThreadsInv, Stepwise, MoveSteps, BeforeSteps
  <1>9. ArrayKnown'
    BY <1>1, <1>2, <1>6 DEF ArrayKnown, ThreadsInv, Stepwise
  <1>10. QED  BY <1>1, <1>3, <1>7, <1>8, <1>9 DEF ThreadsInv, Stepwise, RootOnTop

(* A request ends because its node has lost its parent: then the node is   *)
(* gone, and if the old parent is not marked, it differs in nothing else.  *)
LEMMA GiveUpStep ==
    ASSUME ThreadsInv, OneMover, NEW t \in Threads, ParentGone(t)
    PROVE  Stepwise'
  <1> DEFINE q == loc[t].old
             n == loc[t].node
  <1>1. /\ UNCHANGED <<parent, children, changed, monitor, repository, disk>>
        /\ pc[t] \in {"contains", "remove", "array", "reread"} /\ parent[n] = NoNode
        /\ pc' = [pc EXCEPT ![t] = "idle"] /\ loc' = [loc EXCEPT ![t] = NoLocals]
        /\ unmarked \subseteq unmarked' /\ (pc[t] = "reread" => q \in unmarked')
        /\ n \in Nodes
    BY DEF ThreadsInv, TypeOK, ParentGone, nodeVars, storeVars, Locals
  <1>2. pc'[t] = "idle" /\ \A u \in Threads \ {t} : pc'[u] = pc[u] /\ loc'[u] = loc[u]
    BY <1>1 DEF ThreadsInv, TypeOK
  <1>3. MonitorHeld' /\ monitor # t
    BY <1>1, <1>2 DEF ThreadsInv, Stepwise, MonitorHeld
  <1>4. Unsaved' = Unsaved
    BY <1>1, <1>2, <1>3 DEF Unsaved, ThreadsInv, TypeOK
  <1>5. \A c \in Nodes : Gone(c) => Gone(c)'
    BY <1>1, <1>2, <1>4 DEF Gone, MoveSteps, BeforeSteps
  <1>6. /\ \A u \in Threads \ {t} : pc[u] \notin MoveSteps
        /\ n # Home /\ (n \notin repository \/ n \in Unsaved)
    BY <1>1 DEF ThreadsInv, Stepwise, OnItsWay, OneMover, MoveSteps, BeforeSteps
  <1>7. /\ parent'[n] = NoNode /\ n # Home /\ (n \notin repository' \/ n \in Unsaved')
        /\ \A u \in Threads : pc'[u] \notin MoveSteps
    <2>1. \A u \in Threads : pc'[u] \notin MoveSteps
      BY <1>2, <1>6 DEF MoveSteps, BeforeSteps
    <2>2. parent'[n] = NoNode /\ n # Home /\ (n \notin repository' \/ n \in Unsaved')
      BY <1>1, <1>4, <1>6
    <2>3. QED  BY <2>1, <2>2
  <1>8. Pending = {}
    BY <1>1, <1>6 DEF Pending, MoveSteps, BeforeSteps
  <1> HIDE DEF q, n
  <1>9. Accounted'
    <2> SUFFICES ASSUME NEW m \in repository, m \notin Unsaved
                 PROVE  disk[m] = Image(m)' \/ (m \in unmarked' /\ Agree(m, {})')
      BY <1>1, <1>4 DEF Accounted
    <2>1. CASE disk[m] = Image(m)
      BY <1>1, <2>1 DEF Image
    <2>2. CASE m \in unmarked /\ Agree(m, {})
      <3>1. Agree(m, {})'  BY <1>1, <1>5, <2>2 DEF Agree
      <3>2. QED  BY <1>1, <2>2, <3>1
    <2>3. CASE \E u \in Threads : pc[u] = "reread" /\ m = loc[u].old /\ Agree(m, {loc[u].node})
      <3>1. pc[t] = "reread" /\ m = q /\ Agree(m, {n})
        BY <1>6, <2>3 DEF MoveSteps, BeforeSteps, q, n
      <3>2. \A c \in {n} : Gone(c)'  BY <1>7 DEF Gone
      <3>3. Agree(m, {})'  BY <1>1, <1>5, <3>1, <3>2 DEF Agree
      <3>4. QED  BY <1>1, <3>1, <3>3
    <2>4. QED  BY <1>8, <2>1, <2>2, <2>3 DEF ThreadsInv, Stepwise, Accounted
  <1>10. OnItsWay'
    BY <1>1, <1>2, <1>4 DEF OnItsWay, ThreadsInv, Stepwise, MoveSteps, BeforeSteps
  <1>11. ArrayKnown'
    BY <1>1, <1>2, <1>5 DEF ArrayKnown, ThreadsInv, Stepwise
  <1>12. QED  BY <1>1, <1>3, <1>9, <1>10, <1>11 DEF ThreadsInv, Stepwise, RootOnTop

(* A node is marked, which nobody does while another processes the marks. *)
LEMMA MarkStep ==
    ASSUME ThreadsInv, NEW t \in Threads,
           MarkOld(t) \/ MarkNode(t) \/ MarkNew(t) \/ MarkSaved(t)
    PROVE  Stepwise'
  <1>1. /\ UNCHANGED <<parent, children, monitor, repository, disk, loc>>
        /\ monitor = NoThread /\ changed \subseteq changed' /\ unmarked \subseteq unmarked' \cup changed'
        /\ \/ pc[t] = "markOld" /\ pc'[t] = "unparent" /\ loc[t].old \in changed'
           \/ pc[t] = "markNode" /\ pc'[t] = "reparent" /\ loc[t].node \in changed'
           \/ pc[t] = "markNew" /\ pc'[t] = "lock" /\ loc[t].target \in changed'
           \/ pc[t] = "markSaved" /\ pc'[t] = "enter"
        /\ pc' = [pc EXCEPT ![t] = pc'[t]]
    BY DEF ThreadsInv, TypeOK, MarkOld, MarkNode, MarkNew, MarkSaved, Mark, Goto, nodeVars,
           storeVars
  <1>2. \A u \in Threads \ {t} : pc'[u] = pc[u]
    BY <1>1 DEF ThreadsInv, TypeOK
  <1>3. MonitorHeld'
    BY <1>1, <1>2 DEF ThreadsInv, Stepwise, MonitorHeld
  <1>4. Unsaved = changed /\ Unsaved' = changed'
    BY <1>1 DEF Unsaved
  <1>5. Pending \subseteq Pending' \cup changed'
    BY <1>1, <1>2 DEF Pending
  <1>6. \A c \in Nodes : Gone(c) => Gone(c)'
    BY <1>1, <1>2, <1>4 DEF Gone, MoveSteps, BeforeSteps
  <1>7. Accounted'
    <2> DEFINE X == {}
    <2>1. X \cap repository \subseteq Unsaved' \cup Pending'  OBVIOUS
    <2>2. \A u \in Threads : pc[u] = "reread" => u # t
      BY <1>1
    <2> HIDE DEF X
    <2>3. QED  BY <1>1, <1>2, <1>4, <1>5, <1>6, <2>1, <2>2, AccountsKept
  <1>8. OnItsWay'
    BY <1>1, <1>2, <1>4 DEF OnItsWay, ThreadsInv, Stepwise, MoveSteps, BeforeSteps
  <1>9. ArrayKnown'
    BY <1>1, <1>2, <1>6 DEF ArrayKnown, ThreadsInv, Stepwise
  <1>10. QED  BY <1>1, <1>3, <1>7, <1>8, <1>9 DEF ThreadsInv, Stepwise, RootOnTop

(* The node loses its parent: it is to be marked. *)
LEMMA UnparentStep ==
    ASSUME ThreadsInv, OneMover, NEW t \in Threads, Unparent(t)
    PROVE  Stepwise'
  <1> DEFINE n == loc[t].node
  <1>1. /\ UNCHANGED <<children, changed, monitor, repository, disk, loc, unmarked>>
        /\ pc[t] = "unparent" /\ pc' = [pc EXCEPT ![t] = "markNode"]
        /\ parent' = [m \in Nodes |-> IF m = n THEN NoNode ELSE parent[m]]
        /\ n \in Nodes
    BY DEF ThreadsInv, TypeOK, Unparent, Goto, storeVars, markVars, Locals
  <1>2. pc'[t] = "markNode" /\ \A u \in Threads \ {t} : pc'[u] = pc[u]
    BY <1>1 DEF ThreadsInv, TypeOK
  <1>3. MonitorHeld'
    BY <1>1, <1>2 DEF ThreadsInv, Stepwise, MonitorHeld
  <1>4. Unsaved' = Unsaved
    BY <1>1 DEF Unsaved
  <1>5. Pending \cup {n} \subseteq Pending'
    BY <1>1, <1>2 DEF Pending
  <1>6. \A c \in Nodes : Gone(c) => Gone(c)'
    BY <1>1, <1>2, <1>4 DEF Gone, MoveSteps, BeforeSteps
  <1>7. \A u \in Threads \ {t} : pc[u] \notin MoveSteps
    BY <1>1 DEF ThreadsInv, Stepwise, OnItsWay, OneMover, MoveSteps, BeforeSteps
  <1>8. parent'[n] = NoNode /\ parent'[Home] = NoNode
    BY <1>1 DEF ThreadsInv, Stepwise, RootOnTop
  <1>9. Accounted'
    <2> DEFINE X == {n}
    <2>1. X \cap repository \subseteq Unsaved' \cup Pending'  BY <1>5
    <2>2. \A u \in Threads : pc[u] # "reread"  BY <1>1, <1>7 DEF MoveSteps, BeforeSteps
    <2>3. \A m \in Nodes \ X : parent'[m] = parent[m] /\ children'[m] = children[m]
      BY <1>1
    <2> HIDE DEF X, n
    <2>4. QED  BY <1>1, <1>4, <1>5, <1>6, <2>1, <2>2, <2>3, AccountsKept
  <1>10. OnItsWay'
    <2>1. \A u \in Threads \ {t} : pc'[u] \notin MoveSteps  BY <1>2, <1>7
    <2>2. t \in Movers /\ n # Home
      BY <1>1 DEF OnItsWay, ThreadsInv, Stepwise, MoveSteps, BeforeSteps
    <2>3. QED  BY <1>1, <1>2, <1>8, <2>1, <2>2 DEF OnItsWay, MoveSteps, BeforeSteps
  <1>11. ArrayKnown'
    BY <1>2, <1>7 DEF ArrayKnown, MoveSteps, BeforeSteps
  <1>12. QED  BY <1>3, <1>8, <1>9, <1>10, <1>11 DEF Stepwise, RootOnTop

(* The node gets its new parent: it is marked, or out of the database.     *)
LEMMA ReparentStep ==
    ASSUME ThreadsInv, OneMover, NEW t \in Threads, Reparent(t)
    PROVE  Stepwise'
  <1> DEFINE n == loc[t].node
             p == loc[t].target
  <1>1. /\ UNCHANGED <<children, changed, monitor, repository, disk, loc, unmarked>>
        /\ pc[t] = "reparent" /\ pc' = [pc EXCEPT ![t] = "read"]
        /\ parent' = [m \in Nodes |-> IF m = n THEN p ELSE parent[m]]
        /\ n \in Nodes /\ p \in Nodes
    BY DEF ThreadsInv, TypeOK, Reparent, Goto, storeVars, markVars, Locals
  <1>2. pc'[t] = "read" /\ \A u \in Threads \ {t} : pc'[u] = pc[u]
    BY <1>1 DEF ThreadsInv, TypeOK
  <1>3. MonitorHeld'
    BY <1>1, <1>2 DEF ThreadsInv, Stepwise, MonitorHeld
  <1>4. Unsaved' = Unsaved
    BY <1>1 DEF Unsaved
  <1>5. Pending \subseteq Pending'
    BY <1>1, <1>2 DEF Pending
  <1>6. (n \notin repository \/ n \in Unsaved) /\ t \in Movers /\ n # Home
    BY <1>1 DEF ThreadsInv, Stepwise, OnItsWay, MoveSteps, BeforeSteps
  <1>7. \A u \in Threads \ {t} : pc[u] \notin MoveSteps
    BY <1>6 DEF ThreadsInv, Stepwise, OnItsWay, OneMover
  <1>8. \A c \in Nodes : Gone(c) => Gone(c)'
    <2> SUFFICES ASSUME NEW c \in Nodes, Gone(c)  PROVE Gone(c)'
      OBVIOUS
    <2>1. c # n  BY <1>1 DEF Gone, MoveSteps, BeforeSteps
    <2>2. parent'[c] = NoNode  BY <1>1, <2>1 DEF Gone
    <2>3. QED  BY <1>1, <1>2, <1>4, <2>2 DEF Gone, MoveSteps, BeforeSteps
  <1>9. parent'[Home] = NoNode
    BY <1>1, <1>6 DEF ThreadsInv, Stepwise, RootOnTop
  <1>10. Accounted'
    <2> DEFINE X == {n}
    <2>1. X \cap repository \subseteq Unsaved' \cup Pending'  BY <1>4, <1>6
    <2>2. \A u \in Threads : pc[u] # "reread"  BY <1>1, <1>7 DEF MoveSteps, BeforeSteps
    <2>3. \A m \in Nodes \ X : parent'[m] = parent[m] /\ children'[m] = children[m]
      BY <1>1
    <2> HIDE DEF X, n, p
    <2>4. QED  BY <1>1, <1>4, <1>5, <1>8, <2>1, <2>2, <2>3, AccountsKept
  <1>11. OnItsWay'
    BY <1>1, <1>2, <1>6, <1>7 DEF OnItsWay, MoveSteps, BeforeSteps
  <1>12. ArrayKnown'
    BY <1>2, <1>7 DEF ArrayKnown, MoveSteps, BeforeSteps
  <1>13. QED  BY <1>3, <1>9, <1>10, <1>11, <1>12 DEF Stepwise, RootOnTop

(* What detach() changes is marked in the same step, and what a thread has *)
(* read in an array meanwhile is gone.                                     *)
LEMMA DetachStep ==
    ASSUME ThreadsInv, OneMover, NEW t \in Threads, DetachSubtree(t)
    PROVE  Stepwise'
  <1> DEFINE gone == Visited(loc[t].node)
             losing == {q \in Nodes : \E m \in gone : m \in children[q] /\ parent[m] = q}
  <1>1. /\ UNCHANGED <<monitor, repository, disk, loc>>
        /\ pc[t] = "detach" /\ pc' = [pc EXCEPT ![t] = "enter"]
        /\ parent' = [m \in Nodes |-> IF m \in gone THEN NoNode ELSE parent[m]]
        /\ children' = [q \in Nodes |-> children[q] \ {m \in gone : parent[m] = q}]
        /\ monitor = NoThread /\ changed' = changed \cup (gone \cup losing)
        /\ unmarked' = unmarked \ (gone \cup losing)
    BY DEF DetachSubtree, Mark, Goto, storeVars
  <1>2. gone \in SUBSET Nodes  BY DEF Visited
  <1>3. \A m \in Nodes \ (gone \cup losing) :
            parent'[m] = parent[m] /\ children'[m] = children[m]
    BY <1>1 DEF ThreadsInv, TypeOK
  <1> HIDE DEF gone, losing
  <1>4. pc'[t] = "enter" /\ \A u \in Threads \ {t} : pc'[u] = pc[u]
    BY <1>1 DEF ThreadsInv, TypeOK
  <1>5. MonitorHeld'
    BY <1>1, <1>4 DEF ThreadsInv, Stepwise, MonitorHeld
  <1>6. Unsaved = changed /\ Unsaved' = changed'
    BY <1>1 DEF Unsaved
  <1>7. Pending \subseteq Pending'
    BY <1>1, <1>4 DEF Pending
  <1>8. \A c \in Nodes : Gone(c) => Gone(c)'
    BY <1>1, <1>4, <1>6 DEF Gone, MoveSteps, BeforeSteps
  <1>9. Accounted'
    <2> DEFINE X == gone \cup losing
    <2>1. X \cap repository \subseteq Unsaved' \cup Pending'  BY <1>1, <1>6
    <2>2. \A u \in Threads : pc[u] = "reread" => u # t  BY <1>1
    <2>3. \A m \in Nodes \ X : parent'[m] = parent[m] /\ children'[m] = children[m]
      BY <1>3
    <2>4. unmarked \subseteq unmarked' \cup Unsaved'  BY <1>1, <1>6
    <2> HIDE DEF X
    <2>5. QED  BY <1>1, <1>4, <1>6, <1>7, <1>8, <2>1, <2>2, <2>3, <2>4, AccountsKept
  <1>10. \A u \in Threads : loc[u].node \in Nodes /\ loc[u].old \in Nodes
    BY DEF ThreadsInv, TypeOK, Locals
  <1>11. OnItsWay'
    <2> SUFFICES ASSUME NEW u \in Threads, u # t
                 PROVE  /\ pc[u] \in MoveSteps => u \in Movers
                        /\ pc[u] \in BeforeSteps => loc[u].node # Home
                        /\ pc[u] \in {"markNode", "reparent"} => parent'[loc[u].node] = NoNode
                        /\ pc[u] \in BeforeSteps \ {"markNode"} /\ parent'[loc[u].node] = NoNode =>
                              loc[u].node \notin repository \/ loc[u].node \in Unsaved'
                        /\ pc[u] \in {"array", "write", "reread"} =>
                              parent'[loc[u].node] \in {loc[u].old, NoNode}
      BY <1>1, <1>4 DEF OnItsWay, MoveSteps, BeforeSteps
    <2>1. \/ loc[u].node \in gone /\ parent'[loc[u].node] = NoNode /\ loc[u].node \in Unsaved'
          \/ parent'[loc[u].node] = parent[loc[u].node]
      BY <1>1, <1>6, <1>10
    <2>2. Unsaved \subseteq Unsaved'  BY <1>1, <1>6
    <2>3. QED  BY <2>1, <2>2 DEF ThreadsInv, Stepwise, OnItsWay
  <1>12. parent'[Home] = NoNode
    BY <1>1 DEF ThreadsInv, Stepwise, RootOnTop
  <1>13. ArrayKnown'
    <2> SUFFICES ASSUME NEW u \in Threads, pc[u] = "write", u # t,
                        NEW c \in Nodes \ {loc[u].node}
                 PROVE  (c \in loc[u].array <=> c \in children'[loc[u].old]) \/ Gone(c)'
      BY <1>1, <1>4 DEF ArrayKnown
    <2>1. (c \in loc[u].array <=> c \in children[loc[u].old]) \/ Gone(c)
      BY DEF ThreadsInv, Stepwise, ArrayKnown
    <2>2. CASE c \in children'[loc[u].old] <=> c \in children[loc[u].old]
      BY <1>8, <2>1, <2>2
    <2>3. CASE c \in gone /\ parent[c] = loc[u].old
      <3>1. c # Home
        BY <1>10, <2>3 DEF ThreadsInv, Stepwise, RootOnTop
      <3>2. parent'[c] = NoNode /\ c \in Unsaved'
        BY <1>1, <1>6, <2>3
      <3>3. \A v \in Threads \ {u} : pc[v] \notin MoveSteps
        BY DEF ThreadsInv, Stepwise, OnItsWay, OneMover, MoveSteps, BeforeSteps
      <3>4. QED  BY <1>1, <1>4, <3>1, <3>2, <3>3 DEF Gone, MoveSteps, BeforeSteps
    <2>4. QED  BY <1>1, <1>10, <2>2, <2>3
  <1>14. QED  BY <1>5, <1>9, <1>11, <1>12, <1>13 DEF Stepwise, RootOnTop

(* The marks become the work of one thread. *)
LEMMA EnterStep ==
    ASSUME ThreadsInv, NEW t \in Threads, Enter(t)
    PROVE  Stepwise'
  <1>1. /\ UNCHANGED <<parent, children, changed, repository, disk, unmarked>>
        /\ pc[t] = "enter" /\ pc' = [pc EXCEPT ![t] = "process"]
        /\ monitor = NoThread /\ monitor' = t
        /\ loc' = [loc EXCEPT ![t] = loc'[t]]
        /\ loc'[t].todo = changed /\ loc'[t].node = loc[t].node
    BY DEF ThreadsInv, TypeOK, Enter, Goto, nodeVars, storeVars, markVars, Locals
  <1>2. pc'[t] = "process" /\ \A u \in Threads \ {t} : pc'[u] = pc[u] /\ loc'[u] = loc[u]
    BY <1>1 DEF ThreadsInv, TypeOK
  <1>3. MonitorHeld'
    BY <1>1, <1>2 DEF ThreadsInv, Stepwise, MonitorHeld
  <1>4. Unsaved = changed /\ Unsaved' = changed
    BY <1>1 DEF Unsaved
  <1>5. Pending \subseteq Pending'
    BY <1>1, <1>2 DEF Pending
  <1>6. \A c \in Nodes : Gone(c) => Gone(c)'
    BY <1>1, <1>2, <1>4 DEF Gone, MoveSteps, BeforeSteps
  <1>7. Accounted'
    <2> DEFINE X == {}
    <2>1. X \cap repository \subseteq Unsaved' \cup Pending'  OBVIOUS
    <2>2. \A u \in Threads : pc[u] = "reread" => u # t  BY <1>1
    <2> HIDE DEF X
    <2>3. QED  BY <1>1, <1>2, <1>4, <1>5, <1>6, <2>1, <2>2, AccountsKept
  <1>8. OnItsWay'
    BY <1>1, <1>2, <1>4 DEF OnItsWay, ThreadsInv, Stepwise, MoveSteps, BeforeSteps
  <1>9. ArrayKnown'
    BY <1>1, <1>2, <1>6 DEF ArrayKnown, ThreadsInv, Stepwise
  <1>10. QED  BY <1>1, <1>3, <1>7, <1>8, <1>9 DEF ThreadsInv, Stepwise, RootOnTop

(* A node is saved as it is, or it leaves the database; one that is on its *)
(* way without a parent, or gone, leaves.                                  *)
LEMMA ProcessStep ==
    ASSUME ThreadsInv, NEW t \in Threads, NEW n \in Nodes, Process(t, n)
    PROVE  Stepwise'
  <1>1. /\ UNCHANGED <<parent, children, changed, monitor, pc, unmarked>>
        /\ pc[t] = "process"
        /\ loc' = [loc EXCEPT ![t] = loc'[t]]
        /\ loc'[t].todo = loc[t].todo \ {n} /\ loc'[t].node = loc[t].node
        /\ loc'[t].target = loc[t].target /\ loc'[t].old = loc[t].old
        /\ loc'[t].array = loc[t].array
    BY DEF ThreadsInv, TypeOK, Process, nodeVars, markVars, Locals
  <1>2. \A u \in Threads \ {t} : loc'[u] = loc[u]
    BY <1>1 DEF ThreadsInv, TypeOK
  <1>3. MonitorHeld' /\ monitor = t
    BY <1>1 DEF ThreadsInv, Stepwise, MonitorHeld
  <1>4. Unsaved' = Unsaved \ {n}
    BY <1>1, <1>3 DEF Unsaved
  <1>5. Pending' = Pending
    BY <1>1, <1>2 DEF Pending
  <1>6. /\ \A m \in Nodes \ {n} : disk'[m] = disk[m] /\ (m \in repository' <=> m \in repository)
        /\ n \in Tree => disk'[n] = Image(n)
        /\ n \notin Tree => n \notin repository'
    BY DEF ThreadsInv, TypeOK, Process
  <1>7. \A m \in Nodes : Image(m)' = Image(m)
    BY <1>1 DEF Image
  <1>8. repository \subseteq Nodes /\ repository' \subseteq Nodes
    BY DEF ThreadsInv, TypeOK, Process
  <1>9. ASSUME NEW m \in Nodes, m # Home, parent[m] = NoNode,
               m \notin repository \/ m \in Unsaved
        PROVE  m \notin repository' \/ m \in Unsaved'
    <2>1. m \notin Tree  BY <1>9, RootHasNoParent DEF ThreadsInv
    <2>2. QED  BY <1>4, <1>6, <1>9, <2>1
  <1>10. \A u \in Threads : /\ loc'[u].node = loc[u].node /\ loc'[u].target = loc[u].target
                            /\ loc'[u].old = loc[u].old /\ loc'[u].array = loc[u].array
    BY <1>1, <1>2
  <1>11. \A c \in Nodes : Gone(c) => Gone(c)'
    BY <1>1, <1>9, <1>10 DEF Gone
  <1>12. Accounted'
    <2> SUFFICES ASSUME NEW m \in repository', m \notin Unsaved' \cup Pending'
                 PROVE  \/ disk'[m] = Image(m)'
                        \/ m \in unmarked' /\ Agree(m, {})'
                        \/ \E u \in Threads : /\ pc'[u] = "reread" /\ m = loc'[u].old
                                              /\ Agree(m, {loc[u].node})'
      BY DEF Accounted
    <2>1. CASE m = n
      BY <1>6, <1>7, <2>1
    <2>2. CASE m # n
      <3>1. m \in repository /\ m \in Nodes /\ disk'[m] = disk[m] /\ m \notin Unsaved \cup Pending
        BY <1>4, <1>5, <1>6, <1>8, <2>2
      <3>2. \A Y : Agree(m, Y) => Agree(m, Y)'
        BY <1>1, <1>11, <3>1 DEF Agree
      <3>3. CASE disk[m] = Image(m)  BY <1>7, <3>1, <3>3
      <3>4. CASE m \in unmarked /\ Agree(m, {})
        <4>1. Agree(m, {})'  BY <3>2, <3>4
        <4>2. QED  BY <1>1, <3>4, <4>1
      <3>5. CASE \E u \in Threads : pc[u] = "reread" /\ m = loc[u].old /\ Agree(m, {loc[u].node})
        <4>1. PICK u \in Threads : pc[u] = "reread" /\ m = loc[u].old /\ Agree(m, {loc[u].node})
          BY <3>5
        <4>2. pc'[u] = "reread" /\ m = loc'[u].old /\ loc'[u].node = loc[u].node
          BY <1>1, <1>10, <4>1
        <4>3. Agree(m, {loc[u].node})'
          BY <1>1, <1>11, <3>1, <4>1, <4>2 DEF Agree
        <4>4. QED  BY <4>2, <4>3
      <3>6. QED  BY <3>1, <3>3, <3>4, <3>5 DEF ThreadsInv, Stepwise, Accounted
    <2>3. QED  BY <2>1, <2>2
  <1>13. OnItsWay'
    <2>1. \A u \in Threads : loc[u].node \in Nodes  BY DEF ThreadsInv, TypeOK, Locals
    <2>2. QED  BY <1>1, <1>9, <1>10, <2>1 DEF OnItsWay, ThreadsInv, Stepwise, BeforeSteps
  <1>14. ArrayKnown'
    BY <1>1, <1>10, <1>11 DEF ArrayKnown, ThreadsInv, Stepwise
  <1>15. QED  BY <1>1, <1>3, <1>12, <1>13, <1>14 DEF ThreadsInv, Stepwise, RootOnTop

(* When the marks are cleared they have all been processed, and nobody has *)
(* marked anything since.                                                  *)
LEMMA LeaveStep ==
    ASSUME ThreadsInv, NEW t \in Threads, Leave(t)
    PROVE  Stepwise'
  <1>1. /\ UNCHANGED <<parent, children, repository, disk, unmarked>>
        /\ pc[t] = "process" /\ pc' = [pc EXCEPT ![t] = "idle"]
        /\ changed' = {} /\ monitor' = NoThread /\ loc[t].todo = {}
        /\ loc' = [loc EXCEPT ![t] = NoLocals]
    BY DEF Leave, Goto, nodeVars, storeVars
  <1>2. \A u \in Threads \ {t} : pc'[u] = pc[u] /\ loc'[u] = loc[u]
    BY <1>1 DEF ThreadsInv, TypeOK
  <1>3. pc'[t] = "idle" /\ monitor = t
    BY <1>1 DEF ThreadsInv, Stepwise, TypeOK, MonitorHeld
  <1>4. MonitorHeld'
    BY <1>1, <1>2, <1>3 DEF ThreadsInv, Stepwise, MonitorHeld
  <1>5. Unsaved = {} /\ Unsaved' = {}
    BY <1>1, <1>3 DEF Unsaved
  <1>6. Pending \subseteq Pending'
    BY <1>1, <1>2 DEF Pending
  <1>7. \A c \in Nodes : Gone(c) => Gone(c)'
    BY <1>1, <1>2, <1>3, <1>5 DEF Gone, MoveSteps, BeforeSteps
  <1>8. Accounted'
    <2> DEFINE X == {}
    <2>1. X \cap repository \subseteq Unsaved' \cup Pending'  OBVIOUS
    <2>2. \A u \in Threads : pc[u] = "reread" => u # t  BY <1>1
    <2> HIDE DEF X
    <2>3. QED  BY <1>1, <1>2, <1>5, <1>6, <1>7, <2>1, <2>2, AccountsKept
  <1>9. OnItsWay'
    BY <1>1, <1>2, <1>3, <1>5 DEF OnItsWay, ThreadsInv, Stepwise, MoveSteps, BeforeSteps
  <1>10. ArrayKnown'
    BY <1>1, <1>2, <1>3, <1>7 DEF ArrayKnown, ThreadsInv, Stepwise
  <1>11. QED  BY <1>1, <1>4, <1>8, <1>9, <1>10 DEF ThreadsInv, Stepwise, RootOnTop

(***************************************************************************)
(* Cycles, with any number of movers                                       *)
(***************************************************************************)

(* Unless another thread has moved a node since, a target is not below the *)
(* node that is to be appended to it.                                      *)
StillValid ==
    \A t \in Threads : pc[t] \in BeforeSteps /\ t \notin overtaken =>
        loc[t].target \notin Below(parent, loc[t].node)

LEMMA StillValidStep ==
    ASSUME TypeOK, StillValid, [Next]_vars
    PROVE  StillValid'
  <1> USE DEF TypeOK, Goto
  <1>1. CASE UNCHANGED vars
    BY <1>1 DEF vars, StillValid
  <1>2. ASSUME NEW t \in Threads, Begin(t)  PROVE StillValid'
    <2>1. PICK n \in Tree : \/ \E p \in Tree : BeginAppend(t, p, n)
                            \/ BeginSave(t, n)
                            \/ BeginDelete(t, n)
      BY <1>2 DEF Begin
    <2>2. CASE \E p \in Tree : BeginAppend(t, p, n)
      <3>1. PICK p \in Tree : BeginAppend(t, p, n)  BY <2>2
      <3>2. /\ loc'[t].node = n /\ loc'[t].target = p /\ p \notin Below(parent, n)
            /\ parent' = parent /\ overtaken' = overtaken \ {t}
            /\ \A u \in Threads \ {t} : pc'[u] = pc[u] /\ loc'[u] = loc[u]
        BY <3>1 DEF BeginAppend, Locals, nodeVars
      <3>3. QED  BY <3>2 DEF StillValid
    <2>3. CASE BeginSave(t, n) \/ BeginDelete(t, n)
      BY <2>3 DEF BeginSave, BeginDelete, StillValid, BeforeSteps, nodeVars
    <2>4. QED  BY <2>1, <2>2, <2>3
  <1>3. ASSUME NEW t \in Threads, Step(t)  PROVE StillValid'
    <2> DEFINE l == loc[t]
    <2>0. l \in Locals /\ l.node \in Nodes
      BY DEF Locals
    <2>1. CASE Reparent(t)
      BY <2>1 DEF Reparent, StillValid, BeforeSteps
    <2>2. CASE Unparent(t) \/ DetachSubtree(t)
      <3>1. PICK T \in SUBSET Nodes :
                /\ parent' = [m \in Nodes |-> IF m \in T THEN NoNode ELSE parent[m]]
                /\ overtaken' = overtaken /\ loc' = loc
                /\ \A u \in Threads : pc'[u] \in BeforeSteps => pc[u] \in BeforeSteps
        <4>1. CASE Unparent(t)
          <5>1. parent' = [m \in Nodes |-> IF m \in {l.node} THEN NoNode ELSE parent[m]]
            BY <2>0, <4>1 DEF Unparent
          <5>2. /\ overtaken' = overtaken /\ loc' = loc
                /\ \A u \in Threads : pc'[u] \in BeforeSteps => pc[u] \in BeforeSteps
            BY <4>1 DEF Unparent, BeforeSteps
          <5>3. {l.node} \in SUBSET Nodes  BY <2>0
          <5> HIDE DEF l
          <5>4. QED  BY <5>1, <5>2, <5>3
        <4>2. CASE DetachSubtree(t)
          <5> DEFINE T == Visited(loc[t].node)
          <5>1. T \in SUBSET Nodes  BY DEF Visited
          <5>2. /\ parent' = [m \in Nodes |-> IF m \in T THEN NoNode ELSE parent[m]]
                /\ overtaken' = overtaken /\ loc' = loc
                /\ \A u \in Threads : pc'[u] \in BeforeSteps => pc[u] \in BeforeSteps
            BY <4>2 DEF DetachSubtree, BeforeSteps
          <5> HIDE DEF T
          <5>3. QED  BY <5>1, <5>2
        <4>3. QED  BY <2>2, <4>1, <4>2
      <3>2. \A u \in Threads : loc[u].node \in Nodes  BY DEF Locals
      <3>3. \A u \in Threads : Below(parent', loc[u].node) \subseteq Below(parent, loc[u].node)
        <4> SUFFICES ASSUME NEW u \in Threads
                     PROVE  Below(parent', loc[u].node) \subseteq Below(parent, loc[u].node)
          OBVIOUS
        <4>1. \A m \in Nodes : parent'[m] \in {parent[m], NoNode}
          BY <3>1
        <4>2. QED  BY <3>2, <4>1, BelowShrinks
      <3>4. QED  BY <3>1, <3>3 DEF StillValid
    <2>3. CASE \/ FindOld(t) \/ LookUp(t) \/ MarkOld(t) \/ MarkNode(t) \/ MarkNew(t)
               \/ Lock(t) \/ MarkSaved(t)
      BY <2>3 DEF FindOld, LookUp, MarkOld, MarkNode, MarkNew, Lock, MarkSaved, StillValid,
                  BeforeSteps, nodeVars
    <2>4. CASE \/ FindOwner(t) \/ ReadOld(t) \/ RemoveFromOld(t) \/ FindMarked(t)
               \/ ReadNew(t) \/ AddToNew(t) \/ Enter(t) \/ (\E n \in Nodes : Process(t, n))
      <3>1. /\ parent' = parent /\ overtaken' = overtaken
            /\ loc'[t].node = l.node /\ loc'[t].target = l.target
            /\ pc'[t] \in BeforeSteps => pc[t] \in BeforeSteps
            /\ \A u \in Threads \ {t} : pc'[u] = pc[u] /\ loc'[u] = loc[u]
        BY <2>0, <2>4 DEF FindOwner, ReadOld, RemoveFromOld, FindMarked, ReadNew, AddToNew, Enter,
           Process, Locals, BeforeSteps, nodeVars
      <3>2. QED  BY <3>1 DEF StillValid
    <2>5. CASE ParentGone(t) \/ Leave(t)
      BY <2>5 DEF ParentGone, Leave, StillValid, BeforeSteps, nodeVars
    <2>6. QED  BY <1>3, <2>1, <2>2, <2>3, <2>4, <2>5 DEF Step
  <1>4. QED  BY <1>1, <1>2, <1>3 DEF Next

(* Only an assignment of a parent makes a cycle. *)
LEMMA CycleStep ==
    ASSUME TypeOK, StillValid, [Next]_vars, NoCycle(parent), ~NoCycle(parent')
    PROVE  \E t \in overtaken : Reparent(t)
  <1>1. parent' # parent
    OBVIOUS
  <1>2. PICK t \in Threads : Unparent(t) \/ DetachSubtree(t) \/ Reparent(t)
    BY <1>1 DEF Next, vars, Begin, BeginAppend, BeginSave, BeginDelete, Step, FindOld, LookUp,
       FindOwner, ReadOld, RemoveFromOld, FindMarked, MarkOld, ParentGone, MarkNode, ReadNew,
       AddToNew, MarkNew, Lock, MarkSaved, Enter, Process, Leave, nodeVars
  <1>3. loc[t].node \in Nodes /\ loc[t].target \in Nodes
    BY DEF TypeOK, Locals
  <1>4. ~Unparent(t)
    <2> SUFFICES ASSUME Unparent(t)  PROVE FALSE
      OBVIOUS
    <2>1. {loc[t].node} \in SUBSET Nodes
          /\ parent' = [m \in Nodes |-> IF m \in {loc[t].node} THEN NoNode ELSE parent[m]]
      BY <1>3 DEF Unparent, TypeOK
    <2>2. QED  BY <2>1, DetachNoCycle
  <1>5. ~DetachSubtree(t)
    <2> SUFFICES ASSUME DetachSubtree(t)  PROVE FALSE
      OBVIOUS
    <2>1. Visited(loc[t].node) \in SUBSET Nodes
          /\ parent' = [m \in Nodes |-> IF m \in Visited(loc[t].node) THEN NoNode ELSE parent[m]]
      BY DEF DetachSubtree, Visited
    <2>2. QED  BY <2>1, DetachNoCycle
  <1>6. CASE Reparent(t)
    <2>1. parent' = [m \in Nodes |-> IF m \in {loc[t].node} THEN loc[t].target ELSE parent[m]]
          /\ pc[t] \in BeforeSteps
      BY <1>3, <1>6 DEF Reparent, Goto, TypeOK, BeforeSteps
    <2> DEFINE ns == {loc[t].node}
    <2>2. loc[t].target \notin Below(parent, loc[t].node) =>
              \A n \in ns : loc[t].target \notin Below(parent, n)
      OBVIOUS
    <2>3. parent' = [m \in Nodes |-> IF m \in ns THEN loc[t].target ELSE parent[m]]
          /\ ns \in SUBSET Nodes
      BY <1>3, <2>1
    <2> HIDE DEF ns
    <2>4. loc[t].target \in Below(parent, loc[t].node)
      BY <1>3, <2>2, <2>3, MoveNoCycle
    <2>5. QED  BY <1>6, <2>1, <2>4 DEF StillValid
  <1>7. QED  BY <1>2, <1>4, <1>5, <1>6

(***************************************************************************)
(* Theorems                                                                *)
(***************************************************************************)

(* At the start all of the tree is saved, and nobody is busy. *)
LEMMA InitThreads == Init => ThreadsInv
  BY InitTyped DEF Init, ThreadsInv, Stepwise, RootOnTop, MonitorHeld, OnItsWay, ArrayKnown,
     Accounted, MoveSteps, BeforeSteps

(* ThreadsInv holds in every state of every execution with one mover. *)
THEOREM Invariance == OneMover => (Spec => []ThreadsInv)
  <1> SUFFICES ASSUME OneMover  PROVE Spec => []ThreadsInv
    OBVIOUS
  <1>1. ThreadsInv /\ [Next]_vars => ThreadsInv'
    <2> SUFFICES ASSUME ThreadsInv, [Next]_vars  PROVE ThreadsInv'
      OBVIOUS
    <2>1. TypeOK'
      BY TypeStep DEF ThreadsInv
    <2>2. CASE UNCHANGED vars
      <3>1. Stepwise'
        BY <2>2 DEF ThreadsInv, Stepwise, vars, RootOnTop, MonitorHeld, OnItsWay, ArrayKnown,
           Accounted, Unsaved, Pending, Image, Agree, Gone
      <3>2. QED  BY <2>1, <3>1 DEF ThreadsInv
    <2>3. ASSUME NEW t \in Threads, Begin(t) \/ Step(t)  PROVE ThreadsInv'
      <3>1. Stepwise'
        BY <2>3, BeginStep, ReadStep, RemoveStep, AddStep, RereadStep, GiveUpStep, MarkStep,
           UnparentStep, ReparentStep, DetachStep, EnterStep, ProcessStep, LeaveStep DEF Step
      <3>2. QED  BY <2>1, <3>1 DEF ThreadsInv
    <2>4. QED  BY <2>2, <2>3 DEF Next
  <1>2. QED  BY InitThreads, <1>1, PTL DEF Spec

(* Every variable has its type, however many threads move nodes. *)
THEOREM Typing == Spec => []TypeOK
  <1>1. QED  BY InitTyped, TypeStep, PTL DEF Spec

(* No mark is left for which nobody saves, however many threads move nodes *)
(* and whoever clears the marks of whom.                                   *)
THEOREM NoMarkIsLost == Spec => []NoMarkAtRest
  <1>1. Init => MarksOwned
    BY DEF Init, MarksOwned
  <1>2. TypeOK /\ MarksOwned => NoMarkAtRest
    BY DEF MarksOwned, NoMarkAtRest, AtRest, Saving
  <1>3. QED  BY Typing, <1>1, <1>2, MarksStep, PTL DEF Spec

(* With one thread that moves nodes, what is on disk of a node is what is  *)
(* in memory as soon as nobody is busy, although the marks are global, and *)
(* the new parent of a node is assigned after its mark; where a request    *)
(* gave up because its node was deleted, but for nodes that were deleted.  *)
THEOREM DiskFollows == OneMover => (Spec => []DiskCurrentAtRest)
  <1>1. ThreadsInv /\ NoMarkAtRest => DiskCurrentAtRest
    <2> SUFFICES ASSUME ThreadsInv, NoMarkAtRest, AtRest, NEW n \in repository
                 PROVE  /\ disk[n].parent = parent[n]
                        /\ disk[n].children \cap repository = children[n] \cap repository
                        /\ n \in unmarked \/ disk[n] = Image(n)
      BY DEF DiskCurrentAtRest
    <2>1. Pending = {}  BY DEF Pending, AtRest
    <2>2. monitor = NoThread
      BY DEF ThreadsInv, Stepwise, MonitorHeld, AtRest, TypeOK
    <2>3. Unsaved = {}  BY <2>2 DEF Unsaved, NoMarkAtRest
    <2>4. disk[n] = Image(n) \/ (n \in unmarked /\ Agree(n, {}))
      <3>1. \A t \in Threads : pc[t] # "reread"  BY DEF AtRest
      <3>2. QED  BY <2>1, <2>3, <3>1 DEF ThreadsInv, Stepwise, Accounted
    <2>5. CASE disk[n] = Image(n)
      BY <2>5 DEF Image
    <2>6. CASE n \in unmarked /\ Agree(n, {})
      <3>1. \A c \in Nodes : Gone(c) => c \notin repository
        BY <2>3 DEF Gone
      <3>2. repository \subseteq Nodes  BY DEF ThreadsInv, TypeOK
      <3>3. QED  BY <2>6, <3>1, <3>2 DEF Agree
    <2>7. QED  BY <2>4, <2>5, <2>6
  <1>2. QED  BY Invariance, NoMarkIsLost, <1>1, PTL

(* However many threads move nodes: a cycle is closed only by a request    *)
(* that another one has overtaken since its nesting was validated.         *)
THEOREM CyclesNeedOvertaking == Spec => CyclesNeedTwoMoves
  <1>1. Init => StillValid
    BY DEF Init, StillValid, BeforeSteps
  <1>2. Spec => []StillValid
    BY Typing, <1>1, StillValidStep, PTL DEF Spec
  <1>3. TypeOK /\ StillValid /\ [Next]_vars =>
            [NoCycle(parent) /\ ~NoCycle(parent') => \E t \in overtaken : Reparent(t)]_vars
    BY CycleStep
  <1>4. QED  BY Typing, <1>2, <1>3, PTL DEF Spec, CyclesNeedTwoMoves
=============================================================================
