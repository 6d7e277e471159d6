---------------------------- MODULE NodeTreeProofs ----------------------------
(***************************************************************************)
(* Proofs about NodeTree, for any set of nodes and ids: the shape of the   *)
(* tree, whatever stale objects sessions work on; and the tree and the     *)
(* database together, when no session works on anything stale.             *)
(***************************************************************************)
EXTENDS NodeTree, AncestryProofs

USE HomeAssumption, NoNodeAssumption, NoIdAssumption, TrashAssumption

(***************************************************************************)
(* What holds whatever sessions keep: the shape of the tree in memory,     *)
(* from a start to the next restart                                        *)
(***************************************************************************)

Shape == TypeOK /\ NoCycle(parent) /\ ParentsMatchChildren /\ UniqueIds

(* Requests of any sessions, on a server that nobody restarts. *)
Uptime == Init /\ [][Request]_vars

(* A save keeps the types, whatever it is about. *)
LEMMA PersistTypes ==
    ASSUME TypeOK, NEW marks \in SUBSET Nodes, NEW n \in Nodes, Persist(marks, n),
           Typed(parent'), children' \in [Nodes -> SUBSET Nodes],
           id' \in [Nodes -> Ids \cup {NoId}]
    PROVE  TypeOK'
  <1>1. \A m \in Nodes : Image(m) \in Fields
    BY DEF Image, Fields, Typed
  <1>2. Blank \in Fields  BY DEF Blank, Fields
  <1> DEFINE todo == changed \cup marks \cup {n}
             known == todo \cap Rooted(parent')
  <1>3. todo \subseteq Nodes  BY DEF TypeOK
  <1>4. /\ repository' = (repository \ todo) \cup known
        /\ disk' = [m \in Nodes |-> CASE m \in known -> Image(m)
                                      [] m \in todo \ known -> Blank
                                      [] OTHER -> disk[m]]
        /\ changed' = {} /\ shown' = shown \cup known /\ root' = root
    BY DEF Persist
  <1>5. known \subseteq Nodes  BY <1>3
  <1> HIDE DEF todo, known
  <1>6. \A m \in Nodes : disk'[m] \in Fields
    BY <1>1, <1>2, <1>4 DEF TypeOK
  <1>7. disk' \in [Nodes -> Fields]
    BY <1>4, <1>6
  <1>8. QED  BY <1>3, <1>4, <1>5, <1>7 DEF TypeOK, Typed

(* Below a node are, by the arrays of children, only nodes with a parent   *)
(* below it, and the node itself is nobody's child there.                  *)
LEMMA TraversedParent ==
    ASSUME Shape, NEW n \in Nodes
    PROVE  /\ n \in Traversed(n) /\ Traversed(n) \in SUBSET Nodes
           /\ \A m \in Traversed(n) : children[m] \subseteq Traversed(n) \ {n}
           /\ \A m \in Traversed(n) : m # n => parent[m] \in Traversed(n)
  <1> DEFINE T == Traversed(n)
             U == {n} \cup {m \in T : parent[m] \in T}
  <1>1. n \in T /\ T \in SUBSET Nodes
    BY DEF Traversed
  <1>2. \A m \in T : children[m] \subseteq T
    BY DEF Traversed, Shape, TypeOK
  <1>3. \A m \in U : children[m] \subseteq U
    BY <1>1, <1>2 DEF Shape, TypeOK, ParentsMatchChildren
  <1>4. n \in U /\ U \in SUBSET Nodes  BY <1>1
  <1> HIDE DEF U
  <1>5. T \subseteq U  BY <1>3, <1>4 DEF Traversed
  <1>6. \A m \in T : m # n => parent[m] \in T  BY <1>5 DEF U
  <1> HIDE DEF T
  <1>7. parent[n] \notin T
    BY <1>1, <1>6 DEF Shape, NoCycle
  <1>8. \A m \in T : n \notin children[m]
    BY <1>1, <1>7 DEF Shape, ParentsMatchChildren
  <1>9. QED  BY <1>1, <1>2, <1>6, <1>8 DEF T

(* The id that a node is saved with is valid. *)
LEMMA SaveKeepsIds ==
    ASSUME Shape, NEW n \in Nodes, NEW i \in Ids, SaveNode(n, i)
    PROVE  UniqueIds'
  <1> USE DEF SaveNode
  <1> SUFFICES ASSUME NEW p \in Nodes \ Trashes, NEW l \in children[p], NEW m \in children[p],
                      id'[l] = id'[m], l # m
               PROVE  FALSE
    BY DEF UniqueIds
  <1>1. parent[l] = p /\ parent[m] = p /\ l \in Nodes /\ m \in Nodes
    BY DEF Shape, TypeOK, ParentsMatchChildren
  <1>2. \A k \in Nodes : id'[k] = IF k = n /\ n # root THEN i ELSE id[k]
    BY DEF Shape, TypeOK
  <1>3. CASE n = root \/ (l # n /\ m # n)
    BY <1>1, <1>2, <1>3 DEF Shape, UniqueIds
  <1>4. CASE n # root /\ (l = n \/ m = n)
    <2>1. \A k \in children[p] : k # n => id[k] # i
      BY <1>1, <1>4 DEF Valid, NoDuplicate
    <2>2. QED  BY <1>1, <1>2, <1>4, <2>1
  <1>5. QED  BY <1>3, <1>4

(* Appending one node n with id i that is valid in p. *)
LEMMA AppendOneKeepsIds ==
    ASSUME Shape, NEW p \in Nodes, NEW n \in Nodes, NEW i, Valid(p, n, i),
           Append(p, {n}), id' = [id EXCEPT ![n] = i]
    PROVE  UniqueIds'
  <1> SUFFICES ASSUME NEW q \in Nodes \ Trashes, NEW l \in children'[q], NEW m \in children'[q],
                      id'[l] = id'[m], l # m
               PROVE  FALSE
    BY DEF UniqueIds
  <1>1. \A k \in Nodes : k \in children'[q] =>
            \/ k = n /\ q = p
            \/ k # n /\ k \in children[q]
    BY DEF Append, Shape, TypeOK, ParentsMatchChildren
  <1>2. l \in Nodes /\ m \in Nodes
    BY DEF Append, Shape, TypeOK
  <1>3. \A k \in Nodes : id'[k] = IF k = n THEN i ELSE id[k]
    BY DEF Shape, TypeOK
  <1>4. QED  BY <1>1, <1>2, <1>3 DEF Valid, NoDuplicate, Shape, UniqueIds

(* No node of a batch is above p, *)
LEMMA BatchIsBelow ==
    ASSUME Shape, NEW p \in Nodes, NEW ns \in SUBSET Nodes, AppendNodes(p, ns)
    PROVE  \A m \in ns \cup children[p] : p \notin Below(parent, m)
  <1>1. ASSUME NEW m \in children[p]  PROVE p \notin Below(parent, m)
    <2>1. m \in Nodes /\ parent[m] = p
      BY DEF Shape, TypeOK, ParentsMatchChildren
    <2>2. QED  BY <2>1, ParentAbove DEF Shape
  <1>2. QED  BY <1>1 DEF AppendNodes, Valid

(* and at most one is not yet a child of p. *)
LEMMA BatchKeepsIds ==
    ASSUME Shape, NEW p \in Nodes, NEW ns \in SUBSET Nodes, AppendNodes(p, ns)
    PROVE  UniqueIds'
  <1>1. PICK n \in ns : ns \subseteq children[p] \cup {n}
    BY DEF AppendNodes
  <1>2. p \notin Trashes => \A m \in children[p] : m # n => id[m] # id[n]
    BY DEF AppendNodes, Valid, NoDuplicate
  <1>3. \A q \in Nodes, k \in Nodes : k \in children'[q] =>
            IF q = p THEN k \in children[p] \cup {n} ELSE k \in children[q]
    BY <1>1 DEF AppendNodes, Append, Shape, TypeOK
  <1>4. children' \in [Nodes -> SUBSET Nodes]
    BY DEF AppendNodes, Append, Shape, TypeOK
  <1>5. QED  BY <1>2, <1>3, <1>4 DEF AppendNodes, UniqueIds, Shape

(* appendChild, to a container that may be deleted or unsaved. *)
LEMMA AppendKeepsShape ==
    ASSUME Shape, NEW p \in Nodes, NEW ns \in SUBSET Nodes,
           \A m \in ns : p \notin Below(parent, m),
           NEW n \in Nodes, Append(p, ns), Persist(AppendMarks(p, ns), n),
           id' \in [Nodes -> Ids \cup {NoId}], UniqueIds'
    PROVE  Shape'
  <1>1. parent' = [m \in Nodes |-> IF m \in ns THEN p ELSE parent[m]]
    BY DEF Append
  <1>2. Typed(parent')
    BY <1>1 DEF Shape, TypeOK, Typed
  <1>3. NoCycle(parent)'
    <2>1. NoCycle(parent')  BY <1>1, MoveNoCycle DEF Shape
    <2>2. QED  BY <2>1 DEF NoCycle
  <1>4. children' \in [Nodes -> SUBSET Nodes]
    BY DEF Append, Shape, TypeOK
  <1>5. ParentsMatchChildren'
    BY DEF ParentsMatchChildren, Append, Shape, TypeOK
  <1>6. AppendMarks(p, ns) \in SUBSET Nodes
    BY DEF AppendMarks
  <1>7. TypeOK'
    BY <1>2, <1>4, <1>6, PersistTypes DEF Shape
  <1>8. QED  BY <1>3, <1>5, <1>7 DEF Shape

(* n.detach(): the nodes of the subtree are on their own. *)
LEMMA DeleteKeepsShape ==
    ASSUME Shape, NEW n \in Nodes, DeleteNode(n)
    PROVE  Shape'
  <1> DEFINE T == Traversed(n)
  <1>1. T \in SUBSET Nodes /\ \A m \in T : children[m] \subseteq T
    BY TraversedParent
  <1>2. parent' = [m \in Nodes |-> IF m \in T THEN NoNode ELSE parent[m]]
    BY DEF DeleteNode, Detach
  <1>3. children' = [q \in Nodes |-> children[q] \ {m \in T : parent[m] = q}] /\ id' = id
    BY DEF DeleteNode, Detach
  <1>4. DetachMarks(n) = T \cup {q \in Nodes : \E m \in T : m \in children[q] /\ parent[m] = q}
    BY DEF DetachMarks
  <1> HIDE DEF T
  <1>5. NoCycle(parent)'
    <2>1. NoCycle(parent')  BY <1>1, <1>2, DetachNoCycle DEF Shape
    <2>2. QED  BY <2>1 DEF NoCycle
  <1>6. Typed(parent') /\ children' \in [Nodes -> SUBSET Nodes]
    BY <1>2, <1>3 DEF Shape, TypeOK, Typed
  <1>7. TypeOK'
    <2>1. DetachMarks(n) \in SUBSET Nodes  BY <1>1, <1>4
    <2>2. id' \in [Nodes -> Ids \cup {NoId}]  BY <1>3 DEF Shape, TypeOK
    <2>3. Persist(DetachMarks(n), n)  BY DEF DeleteNode
    <2>4. QED  BY <1>6, <2>1, <2>2, <2>3, PersistTypes DEF Shape
  <1>8. ParentsMatchChildren'
    BY <1>1, <1>2, <1>3 DEF ParentsMatchChildren, Shape, TypeOK
  <1>9. UniqueIds'
    BY <1>3 DEF UniqueIds, Shape, TypeOK
  <1>10. QED  BY <1>5, <1>7, <1>8, <1>9 DEF Shape

(* The Copy button, on a content or on a whole container.                  *)
LEMMA CopyKeepsShape ==
    ASSUME Shape, NEW n \in Nodes, CopyNode(n)
    PROVE  Shape'
  <1> DEFINE T == Traversed(n)
  <1>1. /\ n \in T /\ T \in SUBSET Nodes
        /\ \A m \in T : children[m] \subseteq T \ {n}
        /\ \A m \in T : m # n => parent[m] \in T
    BY TraversedParent
  <1>2. PICK f \in [T -> {k \in Nodes : Fresh(k)}] :
            /\ \A m, o \in T : f[m] = f[o] => m = o
            /\ {f[m] : m \in T} \cap T = {}
            /\ \A m \in T : f[m] \in Trashes <=> m \in Trashes
            /\ parent' = [k \in Nodes |->
                  IF k \in {f[m] : m \in T} \ {f[n]}
                  THEN f[parent[CHOOSE m \in T : f[m] = k]] ELSE parent[k]]
            /\ children' = [k \in Nodes |->
                  IF k \in {f[m] : m \in T}
                  THEN {f[m] : m \in children[CHOOSE m \in T : f[m] = k]} ELSE children[k]]
            /\ id' = [k \in Nodes |->
                  IF k = f[n] THEN NoId
                  ELSE IF k \in {f[m] : m \in T} THEN id[CHOOSE m \in T : f[m] = k] ELSE id[k]]
            /\ changed' = changed \cup (IF children[n] = {} THEN {} ELSE {f[m] : m \in T})
    BY Zenon DEF CopyNode
  <1> DEFINE copies == {f[m] : m \in T}
  <1>3. UNCHANGED <<root, repository, disk, shown>>
    BY DEF CopyNode
  <1> HIDE DEF T
  <1>4. \A m \in T : (CHOOSE o \in T : f[o] = f[m]) = m
    BY <1>2
  <1>5. \A m \in T : f[m] \in copies /\ f[m] \in Nodes /\ Fresh(f[m])
    BY <1>2
  <1>6. \A k \in copies : \E m \in T : k = f[m]
    OBVIOUS
  <1>7. \A m \in T : /\ parent'[f[m]] = IF m = n THEN NoNode ELSE f[parent[m]]
                     /\ children'[f[m]] = {f[o] : o \in children[m]}
                     /\ id'[f[m]] = IF m = n THEN NoId ELSE id[m]
    <2> SUFFICES ASSUME NEW m \in T
                 PROVE  /\ parent'[f[m]] = IF m = n THEN NoNode ELSE f[parent[m]]
                        /\ children'[f[m]] = {f[o] : o \in children[m]}
                        /\ id'[f[m]] = IF m = n THEN NoId ELSE id[m]
      OBVIOUS
    <2>1. f[m] = f[n] <=> m = n  BY <1>1, <1>2
    <2>2. parent[f[m]] = NoNode  BY <1>5 DEF Fresh
    <2>3. QED  BY <1>2, <1>4, <1>5, <2>1, <2>2
  <1>8. \A k \in Nodes \ copies :
            parent'[k] = parent[k] /\ children'[k] = children[k] /\ id'[k] = id[k]
    BY <1>1, <1>2, <1>5
  <1>9. \A k \in copies : parent[k] = NoNode /\ children[k] = {} /\ k \in Nodes
    BY <1>5, <1>6 DEF Fresh
  <1>10. /\ parent' = [k \in Nodes |-> parent'[k]]
         /\ children' = [k \in Nodes |-> children'[k]]
         /\ id' = [k \in Nodes |-> id'[k]]
    BY <1>2
  <1>11. changed' \subseteq changed \cup copies
    BY <1>2
  <1> HIDE DEF copies
  <1>12. TypeOK'
    <2>1. ASSUME NEW k \in Nodes
          PROVE  /\ parent'[k] \in Nodes \cup {NoNode} /\ children'[k] \in SUBSET Nodes
                 /\ id'[k] \in Ids \cup {NoId}
      <3>1. CASE k \notin copies
        BY <1>8, <2>1, <3>1 DEF Shape, TypeOK
      <3>2. CASE k \in copies
        <4>1. PICK m \in T : k = f[m]  BY <1>6, <3>2
        <4>2. parent'[k] \in Nodes \cup {NoNode}
          BY <1>1, <1>5, <1>7, <4>1
        <4>3. children'[k] \in SUBSET Nodes
          BY <1>1, <1>5, <1>7, <4>1
        <4>4. id'[k] \in Ids \cup {NoId}
          BY <1>1, <1>7, <4>1 DEF Shape, TypeOK
        <4>5. QED  BY <4>2, <4>3, <4>4
      <3>3. QED  BY <3>1, <3>2
    <2>2. /\ parent' \in [Nodes -> Nodes \cup {NoNode}]
          /\ children' \in [Nodes -> SUBSET Nodes]
          /\ id' \in [Nodes -> Ids \cup {NoId}]
      BY <1>10, <2>1
    <2>3. changed' \subseteq Nodes
      BY <1>9, <1>11 DEF Shape, TypeOK
    <2>4. QED  BY <1>3, <2>2, <2>3 DEF Shape, TypeOK
  <1>13. NoCycle(parent)'
    <2> SUFFICES ASSUME NEW S \in SUBSET Nodes, S # {}, \A k \in S : parent'[k] \in S
                 PROVE  FALSE
      BY DEF NoCycle
    <2>1. CASE S \cap copies = {}
      <3>1. \A k \in S : parent[k] \in S  BY <1>8, <2>1
      <3>2. QED  BY <3>1 DEF Shape, NoCycle
    <2>2. CASE S \cap copies # {}
      <3> DEFINE originals == {m \in T : f[m] \in S}
      <3>1. originals # {}  BY <1>6, <2>2
      <3>2. ASSUME NEW m \in originals  PROVE parent[m] \in originals
        <4>1. parent'[f[m]] \in S  OBVIOUS
        <4>2. m # n  BY <1>7, <4>1
        <4>3. QED  BY <1>1, <1>7, <4>1, <4>2
      <3>3. originals \in SUBSET Nodes  BY <1>1
      <3> HIDE DEF originals
      <3>4. QED  BY <3>1, <3>2, <3>3 DEF Shape, NoCycle
    <2>3. QED  BY <2>1, <2>2
  <1>14. ParentsMatchChildren'
    <2> SUFFICES ASSUME NEW p \in Nodes, NEW q \in Nodes
                 PROVE  q \in children'[p] <=> parent'[q] = p
      BY DEF ParentsMatchChildren
    <2>1. q \in children[p] <=> parent[q] = p
      BY DEF Shape, ParentsMatchChildren
    <2>2. CASE p \in copies
      <3>1. PICK m \in T : p = f[m]  BY <1>6, <2>2
      <3>2. ASSUME q \in children'[p]  PROVE parent'[q] = p
        <4>1. PICK o \in children[m] : q = f[o]  BY <1>7, <3>1, <3>2
        <4>2. o \in T /\ o # n /\ parent[o] = m
          BY <1>1, <4>1 DEF Shape, ParentsMatchChildren
        <4>3. QED  BY <1>7, <3>1, <4>1, <4>2
      <3>3. ASSUME parent'[q] = p  PROVE q \in children'[p]
        <4>1. q \in copies  BY <1>8, <1>9, <2>1, <2>2, <3>3
        <4>2. PICK o \in T : q = f[o]  BY <1>6, <4>1
        <4>3. o # n /\ f[parent[o]] = f[m] /\ parent[o] \in T
          BY <1>1, <1>7, <3>1, <3>3, <4>2
        <4>4. parent[o] = m  BY <1>2, <4>3
        <4>5. o \in children[m]
          BY <1>1, <4>4 DEF Shape, ParentsMatchChildren
        <4>6. QED  BY <1>7, <3>1, <4>2, <4>5
      <3>4. QED  BY <3>2, <3>3
    <2>3. CASE p \notin copies
      <3>1. CASE q \notin copies
        BY <1>8, <2>1, <2>3, <3>1
      <3>2. CASE q \in copies
        <4>1. PICK o \in T : q = f[o]  BY <1>6, <3>2
        <4>2. parent'[q] # p  BY <1>1, <1>5, <1>7, <2>3, <4>1
        <4>3. q \notin children[p]  BY <1>9, <2>1, <3>2
        <4>4. QED  BY <1>8, <2>3, <4>2, <4>3
      <3>3. QED  BY <3>1, <3>2
    <2>4. QED  BY <2>2, <2>3
  <1>15. UniqueIds'
    <2> SUFFICES ASSUME NEW p \in Nodes \ Trashes, NEW q \in children'[p], NEW r \in children'[p],
                        id'[q] = id'[r]
                 PROVE  q = r
      BY DEF UniqueIds
    <2>1. CASE p \in copies
      <3>1. PICK m \in T : p = f[m]  BY <1>6, <2>1
      <3>2. PICK o \in children[m] : q = f[o]  BY <1>7, <3>1
      <3>3. PICK s \in children[m] : r = f[s]  BY <1>7, <3>1
      <3>4. o \in T \ {n} /\ s \in T \ {n}  BY <1>1, <3>2, <3>3
      <3>5. id[o] = id[s]  BY <1>7, <3>2, <3>3, <3>4
      <3>6. m \in Nodes \ Trashes  BY <1>1, <1>2, <3>1
      <3>7. QED  BY <3>2, <3>3, <3>5, <3>6 DEF Shape, UniqueIds
    <2>2. CASE p \notin copies
      <3>1. q \in children[p] /\ r \in children[p]  BY <1>8, <2>2
      <3>2. q \in Nodes /\ r \in Nodes /\ parent[q] = p /\ parent[r] = p
        BY <3>1 DEF Shape, TypeOK, ParentsMatchChildren
      <3>3. q \notin copies /\ r \notin copies
        BY <1>9, <3>2
      <3>4. QED  BY <1>8, <3>1, <3>2, <3>3 DEF Shape, UniqueIds
    <2>3. QED  BY <2>1, <2>2
  <1>16. QED  BY <1>12, <1>13, <1>14, <1>15 DEF Shape

(* Every request keeps the shape, whatever its session held. *)
LEMMA RequestKeepsShape == Shape /\ [Request]_vars => Shape'
  <1> SUFFICES ASSUME Shape, [Request]_vars  PROVE Shape'
    OBVIOUS
  <1>1. CASE UNCHANGED vars
    BY <1>1 DEF vars, Shape, TypeOK, ParentsMatchChildren, UniqueIds, NoCycle
  <1>2. ASSUME NEW n \in Nodes, NEW i \in Ids, SaveNode(n, i)  PROVE Shape'
    <2>1. Typed(parent') /\ parent' = parent /\ children' = children
      BY <1>2 DEF SaveNode, Shape, TypeOK, Typed
    <2>2. id' \in [Nodes -> Ids \cup {NoId}]
      BY <1>2 DEF SaveNode, Shape, TypeOK
    <2>3. TypeOK'
      <3>1. Persist({}, n) /\ {} \in SUBSET Nodes  BY <1>2 DEF SaveNode
      <3>2. children' \in [Nodes -> SUBSET Nodes]  BY <2>1 DEF Shape, TypeOK
      <3>3. QED  BY <2>1, <2>2, <3>1, <3>2, PersistTypes DEF Shape
    <2>4. UniqueIds'  BY <1>2, SaveKeepsIds DEF SaveNode
    <2>5. QED  BY <2>1, <2>3, <2>4 DEF Shape, NoCycle, ParentsMatchChildren
  <1>3. ASSUME NEW c \in Nodes, NEW n \in Nodes, NEW i \in Ids, CreateNode(c, n, i)  PROVE Shape'
    <2>1. id' \in [Nodes -> Ids \cup {NoId}]
      BY <1>3 DEF CreateNode, Shape, TypeOK
    <2>2. UniqueIds'  BY <1>3, AppendOneKeepsIds DEF CreateNode
    <2>3. QED  BY <1>3, <2>1, <2>2, AppendKeepsShape DEF CreateNode, Valid
  <1>4. ASSUME NEW p \in Nodes, NEW n \in Nodes, AppendNode(p, n)  PROVE Shape'
    <2>1. id' = [id EXCEPT ![n] = id[n]] /\ id' \in [Nodes -> Ids \cup {NoId}]
      BY <1>4 DEF AppendNode, Shape, TypeOK
    <2>2. UniqueIds'  BY <1>4, <2>1, AppendOneKeepsIds DEF AppendNode
    <2>3. QED  BY <1>4, <2>1, <2>2, AppendKeepsShape DEF AppendNode, Valid
  <1>5. ASSUME NEW p \in Nodes, NEW ns \in SUBSET Nodes, AppendNodes(p, ns)  PROVE Shape'
    <2> DEFINE all == ns \cup children[p]
    <2>1. all \in SUBSET Nodes  BY DEF Shape, TypeOK
    <2>2. \A m \in all : p \notin Below(parent, m)
      BY <1>5, BatchIsBelow
    <2>3. id' \in [Nodes -> Ids \cup {NoId}]
      BY <1>5 DEF AppendNodes, Shape, TypeOK
    <2>4. UniqueIds'  BY <1>5, BatchKeepsIds
    <2>5. Append(p, all) /\ Persist(AppendMarks(p, all), p)
      BY <1>5 DEF AppendNodes
    <2> HIDE DEF all
    <2>6. QED  BY <2>1, <2>2, <2>3, <2>4, <2>5, AppendKeepsShape
  <1>6. ASSUME NEW p \in Nodes, NEW n \in Nodes, NEW i \in Ids, ImportNode(p, n, i)  PROVE Shape'
    <2>1. id' \in [Nodes -> Ids \cup {NoId}]
      BY <1>6 DEF ImportNode, Shape, TypeOK
    <2>2. UniqueIds'  BY <1>6, AppendOneKeepsIds DEF ImportNode
    <2>3. QED  BY <1>6, <2>1, <2>2, AppendKeepsShape DEF ImportNode, Valid
  <1>7. ASSUME NEW c \in Nodes, NEW k \in Nodes, NEW i \in Ids, PreviewNode(c, k, i)  PROVE Shape'
    <2>1. TypeOK' /\ parent' = parent /\ children' = children
      BY <1>7 DEF PreviewNode, Shape, TypeOK
    <2>2. \A p \in Nodes : k \notin children[p]
      BY <1>7 DEF PreviewNode, Fresh, Shape, ParentsMatchChildren
    <2>3. UniqueIds'
      BY <1>7, <2>1, <2>2 DEF PreviewNode, Shape, TypeOK, UniqueIds
    <2>4. QED  BY <2>1, <2>3 DEF Shape, NoCycle, ParentsMatchChildren
  <1>8. QED
    BY <1>1, <1>2, <1>3, <1>4, <1>5, <1>6, <1>7, DeleteKeepsShape, CopyKeepsShape DEF Request

(***************************************************************************)
(* The inductive invariant                                                 *)
(***************************************************************************)

TreeInv ==
    /\ TypeOK
    /\ root = Home
    /\ NoCycle(parent) /\ Chained(parent, Home)
    /\ ParentsMatchChildren
    /\ UniqueIds
    /\ repository = Attached(parent, Home)
    /\ \A n \in Attached(parent, Home) :
          disk[n] = [parent |-> parent[n], children |-> children[n], id |-> id[n]]

LEMMA TreeHasShape == TreeInv => Shape
  BY DEF TreeInv, Shape

LEMMA RootedIsAttached ==
    ASSUME TreeInv  PROVE Rooted(parent) = Attached(parent, Home)
  BY RootedNodes DEF TreeInv, TypeOK, Typed, Rooted

(* A setup leaves a tree with one node. *)
LEMMA InitTree == Init => TreeInv
  <1> SUFFICES ASSUME Init  PROVE TreeInv
    OBVIOUS
  <1> USE DEF Init
  <1>1. TypeOK
    <2>1. disk \in [Nodes -> Fields]  BY DEF Blank, Fields
    <2>2. QED  BY <2>1 DEF TypeOK
  <1>2. NoCycle(parent) /\ Chained(parent, Home)
    BY DEF NoCycle, Chained
  <1>3. ParentsMatchChildren /\ UniqueIds
    BY DEF ParentsMatchChildren, UniqueIds
  <1>4. repository = Attached(parent, Home)  BY DEF Attached
  <1>5. QED  BY <1>1, <1>2, <1>3, <1>4 DEF TreeInv, Attached, Blank

(* Persisting the marked nodes brings the database in line with the tree,  *)
(* provided that every node whose fields have changed is marked.           *)
LEMMA PersistKeeps ==
    ASSUME TreeInv, NEW marks \in SUBSET Nodes, NEW n \in Nodes, Persist(marks, n),
           Typed(parent'), children' \in [Nodes -> SUBSET Nodes],
           id' \in [Nodes -> Ids \cup {NoId}],
           NoCycle(parent'), Chained(parent', Home),
           \A m \in Nodes \ (marks \cup {n}) :
               parent'[m] = parent[m] /\ children'[m] = children[m] /\ id'[m] = id[m]
    PROVE  /\ TypeOK' /\ root' = Home /\ repository' = Attached(parent', Home)
           /\ \A m \in Attached(parent', Home) :
                 disk'[m] = [parent |-> parent'[m], children |-> children'[m], id |-> id'[m]]
  <1> DEFINE todo == changed \cup marks \cup {n}
  <1>1. Rooted(parent') = Attached(parent', Home)
    BY RootedNodes DEF Rooted, TreeInv
  <1>2. root' = Home /\ changed' = {}
    BY DEF Persist, TreeInv
  <1>3. repository' = (repository \ todo) \cup (todo \cap Attached(parent', Home))
    BY <1>1 DEF Persist
  <1>4. \A m \in Nodes : disk'[m] = IF m \in todo \cap Attached(parent', Home) THEN Image(m)
                                   ELSE IF m \in todo THEN Blank ELSE disk[m]
    BY <1>1 DEF Persist
  <1>5. repository' = Attached(parent', Home)
    BY <1>3 DEF TreeInv, TypeOK, Attached
  <1>6. \A m \in Attached(parent', Home) :
            disk'[m] = [parent |-> parent'[m], children |-> children'[m], id |-> id'[m]]
    BY <1>4 DEF Image, TreeInv, Attached
  <1>7. TypeOK'
    <2>1. \A m \in Nodes : Image(m) \in Fields
      BY DEF Image, Fields, Typed
    <2>2. Blank \in Fields  BY DEF Blank, Fields
    <2>3. \A m \in Nodes : disk'[m] \in Fields
      BY <1>4, <2>1, <2>2 DEF TreeInv, TypeOK
    <2>4. disk' = [m \in Nodes |-> disk'[m]]
      BY <1>1 DEF Persist
    <2>5. disk' \in [Nodes -> Fields]  BY <2>3, <2>4
    <2>6. shown' \subseteq Nodes  BY <1>1 DEF Persist, Attached, TreeInv, TypeOK
    <2>7. QED  BY <1>2, <1>5, <2>5, <2>6 DEF TypeOK, Typed, Attached
  <1>8. QED  BY <1>2, <1>5, <1>6, <1>7

(* appendChild and the save after it. *)
LEMMA AppendKeeps ==
    ASSUME TreeInv, NEW p \in Attached(parent, Home), NEW ns \in SUBSET Nodes,
           \A m \in ns : p \notin Below(parent, m),
           NEW n \in ns \cup {p}, Append(p, ns), Persist(AppendMarks(p, ns), n),
           id' \in [Nodes -> Ids \cup {NoId}],
           \A m \in Nodes \ ns : id'[m] = id[m],
           UniqueIds'
    PROVE  TreeInv'
  <1>1. p \in Nodes  BY DEF Attached
  <1>2. parent' = Moved(parent, p, ns)  BY DEF Append, Moved
  <1>3. Typed(parent') /\ NoCycle(parent') /\ Chained(parent', Home)
    BY <1>2, MoveKeepsTree DEF TreeInv, TypeOK, Typed
  <1>4. children' \in [Nodes -> SUBSET Nodes]
    BY DEF Append, TreeInv, TypeOK
  <1>5. ParentsMatchChildren'
    BY <1>1 DEF ParentsMatchChildren, Append, TreeInv, TypeOK
  <1>6. AppendMarks(p, ns) \in SUBSET Nodes
    BY <1>1 DEF AppendMarks
  <1>7. \A m \in Nodes \ (AppendMarks(p, ns) \cup {n}) :
            parent'[m] = parent[m] /\ children'[m] = children[m] /\ id'[m] = id[m]
    <2> SUFFICES ASSUME NEW m \in Nodes, m \notin AppendMarks(p, ns)
                 PROVE  parent'[m] = parent[m] /\ children'[m] = children[m] /\ id'[m] = id[m]
      OBVIOUS
    <2>1. m \notin ns /\ m # p  BY DEF AppendMarks
    <2>2. \A k \in ns : parent[k] # m
      BY DEF AppendMarks, TreeInv, ParentsMatchChildren
    <2>3. QED  BY <2>1, <2>2 DEF Append, TreeInv, TypeOK
  <1>8. n \in Nodes  BY <1>1
  <1>9. /\ TypeOK' /\ root' = Home /\ repository' = Attached(parent', Home)
        /\ \A m \in Attached(parent', Home) :
              disk'[m] = [parent |-> parent'[m], children |-> children'[m], id |-> id'[m]]
    BY <1>3, <1>4, <1>6, <1>7, <1>8, PersistKeeps
  <1>10. NoCycle(parent)' /\ Chained(parent, Home)' /\ (repository = Attached(parent, Home))'
    BY <1>3, <1>9 DEF NoCycle, Chained, Attached
  <1>11. QED  BY <1>5, <1>9, <1>10 DEF TreeInv, Attached

(***************************************************************************)
(* Requests                                                                *)
(***************************************************************************)

LEMMA SaveStep ==
    ASSUME TreeInv, NEW n \in Nodes, NEW i \in Ids, SaveNode(n, i)
    PROVE  TreeInv'
  <1> USE DEF SaveNode
  <1>1. Typed(parent') /\ NoCycle(parent') /\ Chained(parent', Home)
    BY DEF TreeInv, TypeOK, Typed
  <1>2. id' \in [Nodes -> Ids \cup {NoId}] /\ \A m \in Nodes \ {n} : id'[m] = id[m]
    BY DEF TreeInv, TypeOK
  <1>3. /\ TypeOK' /\ root' = Home /\ repository' = Attached(parent', Home)
        /\ \A m \in Attached(parent', Home) :
              disk'[m] = [parent |-> parent'[m], children |-> children'[m], id |-> id'[m]]
    BY <1>1, <1>2, PersistKeeps DEF TreeInv, TypeOK
  <1>4. ParentsMatchChildren'  BY DEF TreeInv, ParentsMatchChildren
  <1>5. UniqueIds'
    BY TreeHasShape, SaveKeepsIds
  <1>6. QED  BY <1>1, <1>3, <1>4, <1>5 DEF TreeInv, Attached, NoCycle, Chained

LEMMA CreateStep ==
    ASSUME TreeInv, Stale = {}, NEW c \in Nodes, NEW n \in Nodes, NEW i \in Ids,
           CreateNode(c, n, i)
    PROVE  TreeInv'
  <1>1. c \in Attached(parent, Home)
    BY RootedIsAttached DEF CreateNode, Container
  <1>2. UniqueIds'
    BY TreeHasShape, AppendOneKeepsIds DEF CreateNode
  <1>3. id' \in [Nodes -> Ids \cup {NoId}] /\ \A m \in Nodes \ {n} : id'[m] = id[m]
    BY DEF CreateNode, TreeInv, TypeOK
  <1>4. QED  BY <1>1, <1>2, <1>3, AppendKeeps DEF CreateNode, Valid

LEMMA AppendStep ==
    ASSUME TreeInv, Stale = {}, NEW p \in Nodes, NEW n \in Nodes, AppendNode(p, n)
    PROVE  TreeInv'
  <1>1. p \in Attached(parent, Home)
    BY RootedIsAttached DEF AppendNode, Container
  <1>2. id' = [id EXCEPT ![n] = id[n]]
    BY DEF AppendNode, TreeInv, TypeOK
  <1>3. UniqueIds'
    BY <1>2, TreeHasShape, AppendOneKeepsIds DEF AppendNode
  <1>4. id' \in [Nodes -> Ids \cup {NoId}] /\ \A m \in Nodes \ {n} : id'[m] = id[m]
    BY DEF AppendNode, TreeInv, TypeOK
  <1>5. QED  BY <1>1, <1>3, <1>4, AppendKeeps DEF AppendNode, Valid

LEMMA ImportStep ==
    ASSUME TreeInv, Stale = {}, NEW p \in Nodes, NEW n \in Nodes, NEW i \in Ids,
           ImportNode(p, n, i)
    PROVE  TreeInv'
  <1>1. p \in Attached(parent, Home)
    BY RootedIsAttached DEF ImportNode, Container
  <1>2. UniqueIds'
    BY TreeHasShape, AppendOneKeepsIds DEF ImportNode
  <1>3. id' \in [Nodes -> Ids \cup {NoId}] /\ \A m \in Nodes \ {n} : id'[m] = id[m]
    BY DEF ImportNode, TreeInv, TypeOK
  <1>4. QED  BY <1>1, <1>2, <1>3, AppendKeeps DEF ImportNode, Valid

LEMMA AppendNodesStep ==
    ASSUME TreeInv, Stale = {}, NEW p \in Nodes, NEW ns \in SUBSET Nodes, AppendNodes(p, ns)
    PROVE  TreeInv'
  <1> DEFINE all == ns \cup children[p]
  <1>1. p \in Attached(parent, Home)
    BY RootedIsAttached DEF AppendNodes, Container
  <1>2. all \in SUBSET Nodes  BY DEF TreeInv, TypeOK
  <1>3. \A m \in all : p \notin Below(parent, m)
    BY TreeHasShape, BatchIsBelow
  <1>4. UniqueIds'
    BY TreeHasShape, BatchKeepsIds
  <1>5. id' \in [Nodes -> Ids \cup {NoId}] /\ \A m \in Nodes \ all : id'[m] = id[m]
    BY DEF AppendNodes, TreeInv, TypeOK
  <1>6. Append(p, all) /\ Persist(AppendMarks(p, all), p)
    BY DEF AppendNodes
  <1> HIDE DEF all
  <1>7. QED  BY <1>1, <1>2, <1>3, <1>4, <1>5, <1>6, AppendKeeps

(* What traverse visits is closed under children, and contains the node. *)
LEMMA TraversedClosed ==
    ASSUME TreeInv, NEW n \in Nodes
    PROVE  /\ n \in Traversed(n) /\ Traversed(n) \in SUBSET Nodes
           /\ \A k \in Nodes : parent[k] \in Traversed(n) => k \in Traversed(n)
  <1>1. n \in Traversed(n) /\ Traversed(n) \in SUBSET Nodes
    BY DEF Traversed
  <1>2. ASSUME NEW k \in Nodes, parent[k] \in Traversed(n)
        PROVE  k \in Traversed(n)
    <2>1. parent[k] \in Nodes /\ k \in children[parent[k]]
      BY <1>1, <1>2 DEF TreeInv, ParentsMatchChildren
    <2>2. QED  BY <1>2, <2>1 DEF Traversed
  <1>3. QED  BY <1>1, <1>2

LEMMA DeleteStep ==
    ASSUME TreeInv, NEW n \in Nodes, DeleteNode(n)
    PROVE  TreeInv'
  <1> DEFINE T == Traversed(n)
  <1>1. n \in T /\ T \in SUBSET Nodes /\ \A k \in Nodes : parent[k] \in T => k \in T
    BY TraversedClosed
  <1>2. parent' = Detached(parent, T)
    BY DEF DeleteNode, Detach, Detached
  <1>3. children' = [q \in Nodes |-> children[q] \ {m \in T : parent[m] = q}] /\ id' = id
    BY DEF DeleteNode, Detach
  <1>4. DetachMarks(n) = T \cup {q \in Nodes : \E m \in T : m \in children[q] /\ parent[m] = q}
    BY DEF DetachMarks
  <1> HIDE DEF T
  <1>5. Typed(parent') /\ NoCycle(parent') /\ Chained(parent', Home)
    BY <1>1, <1>2, DetachKeepsTree DEF TreeInv, TypeOK, Typed
  <1>6. children' \in [Nodes -> SUBSET Nodes] /\ id' \in [Nodes -> Ids \cup {NoId}]
    BY <1>3 DEF TreeInv, TypeOK
  <1>7. \A m \in Nodes \ (DetachMarks(n) \cup {n}) :
            parent'[m] = parent[m] /\ children'[m] = children[m] /\ id'[m] = id[m]
    <2> SUFFICES ASSUME NEW m \in Nodes, m \notin DetachMarks(n)
                 PROVE  parent'[m] = parent[m] /\ children'[m] = children[m] /\ id'[m] = id[m]
      OBVIOUS
    <2>1. m \notin T /\ \A k \in T : parent[k] # m
      BY <1>1, <1>4 DEF TreeInv, ParentsMatchChildren
    <2>2. QED  BY <1>2, <1>3, <2>1 DEF Detached, TreeInv, TypeOK
  <1>8. DetachMarks(n) \in SUBSET Nodes  BY <1>1, <1>4
  <1>9. /\ TypeOK' /\ root' = Home /\ repository' = Attached(parent', Home)
        /\ \A m \in Attached(parent', Home) :
              disk'[m] = [parent |-> parent'[m], children |-> children'[m], id |-> id'[m]]
    BY <1>5, <1>6, <1>7, <1>8, PersistKeeps DEF DeleteNode
  <1>10. ParentsMatchChildren'
    BY <1>1, <1>2, <1>3 DEF ParentsMatchChildren, Detached, TreeInv, TypeOK
  <1>11. UniqueIds'
    BY <1>3 DEF UniqueIds, TreeInv, TypeOK
  <1>12. QED  BY <1>5, <1>9, <1>10, <1>11 DEF TreeInv, Attached, NoCycle, Chained

(* Nothing but the id of a node outside of the tree may change unsaved. *)
LEMMA LooseIdKeeps ==
    ASSUME TreeInv, NEW k \in Nodes, parent[k] = NoNode, k # root, NEW i \in Ids \cup {NoId},
           id' = [id EXCEPT ![k] = i], parent' = parent, children' = children,
           changed' \subseteq Nodes,
           UNCHANGED <<root, repository, disk, shown>>
    PROVE  TreeInv'
  <1>1. \A p \in Nodes : k \notin children[p]
    BY DEF TreeInv, ParentsMatchChildren
  <1>2. TypeOK'
    BY DEF TreeInv, TypeOK
  <1>3. UniqueIds'
    BY <1>1 DEF TreeInv, TypeOK, UniqueIds
  <1>4. \A n \in Attached(parent, Home) : id'[n] = id[n]
    BY DEF TreeInv, TypeOK, Attached
  <1>5. ParentsMatchChildren'
    BY DEF TreeInv, ParentsMatchChildren
  <1>6. QED  BY <1>2, <1>3, <1>4, <1>5 DEF TreeInv, Attached, NoCycle, Chained

LEMMA PreviewStep ==
    ASSUME TreeInv, NEW c \in Nodes, NEW k \in Nodes, NEW i \in Ids, PreviewNode(c, k, i)
    PROVE  TreeInv'
  <1>1. changed' \subseteq Nodes
    BY DEF PreviewNode, TreeInv, TypeOK
  <1>2. QED  BY <1>1, LooseIdKeeps DEF PreviewNode, Fresh

(* Only nodes without children are copied when no copy is stale. *)
LEMMA CopyStep ==
    ASSUME TreeInv, Stale = {}, NEW n \in Nodes, CopyNode(n)
    PROVE  TreeInv'
  <1>1. children[n] = {}
    BY DEF CopyNode
  <1>2. Traversed(n) = {n}
    <2>1. \A k \in {n} : children[k] \subseteq {n}  BY <1>1
    <2>2. QED  BY <2>1 DEF Traversed
  <1>3. PICK f \in [Traversed(n) -> {k \in Nodes : Fresh(k)}] :
            /\ parent' = [k \in Nodes |->
                  IF k \in {f[m] : m \in Traversed(n)} \ {f[n]}
                  THEN f[parent[CHOOSE m \in Traversed(n) : f[m] = k]] ELSE parent[k]]
            /\ children' = [k \in Nodes |->
                  IF k \in {f[m] : m \in Traversed(n)}
                  THEN {f[m] : m \in children[CHOOSE m \in Traversed(n) : f[m] = k]}
                  ELSE children[k]]
            /\ id' = [k \in Nodes |->
                  IF k = f[n] THEN NoId
                  ELSE IF k \in {f[m] : m \in Traversed(n)}
                       THEN id[CHOOSE m \in Traversed(n) : f[m] = k] ELSE id[k]]
            /\ changed' = changed \cup
                  (IF children[n] = {} THEN {} ELSE {f[m] : m \in Traversed(n)})
    BY Zenon DEF CopyNode
  <1>4. f[n] \in Nodes /\ Fresh(f[n]) /\ {f[m] : m \in Traversed(n)} = {f[n]}
    BY <1>2
  <1>5. (CHOOSE m \in Traversed(n) : f[m] = f[n]) = n
    BY <1>2
  <1>6. parent' = parent
    BY <1>3, <1>4 DEF TreeInv, TypeOK
  <1>7. children' = children
    <2>1. {f[m] : m \in children[n]} = {}  BY <1>1
    <2>2. children[f[n]] = {}  BY <1>4 DEF Fresh
    <2>3. \A k \in Nodes : children'[k] = children[k]
      BY <1>3, <1>4, <1>5, <2>1, <2>2
    <2>4. QED  BY <1>3, <2>3 DEF TreeInv, TypeOK
  <1>8. id' = [id EXCEPT ![f[n]] = NoId]
    BY <1>3, <1>4 DEF TreeInv, TypeOK
  <1>9. changed' \subseteq Nodes /\ UNCHANGED <<root, repository, disk, shown>>
    BY <1>1, <1>3 DEF CopyNode, TreeInv, TypeOK
  <1>10. QED  BY <1>4, <1>6, <1>7, <1>8, <1>9, LooseIdKeeps DEF Fresh

(* A restart reads the tree that was in memory. *)
LEMMA RestartStep ==
    ASSUME TreeInv, Restart  PROVE TreeInv'
  <1>1. \A n \in Attached(parent, Home) : parent[n] = NoNode \/ parent[n] \in Attached(parent, Home)
    BY DEF TreeInv, Chained, Attached, TypeOK
  <1> DEFINE fields(n) == [parent |-> parent[n], children |-> children[n], id |-> id[n]]
  <1>a. \A n \in repository : n \in Nodes /\ disk[n] = fields(n)
    BY DEF TreeInv, TypeOK
  <1>b. ASSUME NEW n \in repository
        PROVE  disk[n].parent = parent[n] /\ disk[n].children = children[n]
    <2>1. disk[n] = [parent |-> parent[n], children |-> children[n], id |-> id[n]]
      BY <1>a
    <2>2. QED  BY <2>1
  <1>2. parent' = parent
    <2>1. \A n \in Nodes : parent'[n] = parent[n]
      BY <1>1 DEF Restart, TreeInv, TypeOK, Attached
    <2>2. QED  BY <2>1 DEF Restart, TreeInv, TypeOK
  <1>3. \A p \in Nodes : \A n \in children[p] : n \in Attached(parent, Home) /\ p \in Attached(parent, Home)
    <2> SUFFICES ASSUME NEW p \in Nodes, NEW n \in children[p]
                 PROVE  n \in Attached(parent, Home) /\ p \in Attached(parent, Home)
      OBVIOUS
    <2>1. n \in Nodes /\ parent[n] = p  BY DEF TreeInv, TypeOK, ParentsMatchChildren
    <2>2. QED  BY <2>1 DEF TreeInv, Chained, Attached
  <1>4. children' = children
    <2>1. \A n \in repository : children'[n] = children[n] \cap repository
      BY <1>a, <1>b DEF Restart
    <2>2. \A n \in repository : children[n] \subseteq repository
      BY <1>3 DEF TreeInv, TypeOK
    <2>3. \A n \in Nodes \ repository : children'[n] = {} /\ children[n] = {}
      BY <1>3 DEF Restart, TreeInv, TypeOK
    <2>4. \A n \in repository : children[n] \cap repository = children[n]
      BY <2>2
    <2>5. \A n \in Nodes : children'[n] = children[n]
      BY <2>1, <2>3, <2>4, Zenon
    <2>6. QED  BY <2>5 DEF Restart, TreeInv, TypeOK
  <1>5. id' \in [Nodes -> Ids \cup {NoId}] /\ \A n \in Attached(parent, Home) : id'[n] = id[n]
    BY DEF Restart, TreeInv, TypeOK, Attached
  <1>6. root' = Home
    <2> DEFINE tops == {n \in repository : disk[n].parent \notin repository}
    <2>1. tops = {Home}
      <3>2. Home \in repository /\ NoNode \notin repository /\ parent[Home] = NoNode
        BY DEF TreeInv, TypeOK, Attached, Chained
      <3>3. \A n \in repository : n # Home => parent[n] \in repository
        BY <1>1 DEF TreeInv, Attached
      <3>4. QED  BY <1>b, <3>2, <3>3
    <2>2. Cardinality(tops) = 1  BY <2>1, FS_Singleton
    <2>3. QED  BY <2>1, <2>2 DEF Restart, QueryRoot
  <1>7. TypeOK'
    BY <1>2, <1>4, <1>5, <1>6 DEF Restart, TreeInv, TypeOK
  <1>8. UniqueIds'
    BY <1>3, <1>4, <1>5 DEF TreeInv, UniqueIds
  <1>9. repository' = Attached(parent, Home)' /\ disk' = disk
    BY <1>2 DEF Restart, TreeInv, Attached
  <1>10. NoCycle(parent)' /\ Chained(parent, Home)' /\ ParentsMatchChildren'
    BY <1>2, <1>4 DEF TreeInv, NoCycle, Chained, ParentsMatchChildren
  <1>11. \A n \in Attached(parent, Home)' :
             disk'[n] = [parent |-> parent'[n], children |-> children'[n], id |-> id'[n]]
    BY <1>2, <1>4, <1>5, <1>9 DEF TreeInv, Attached
  <1>12. QED  BY <1>6, <1>7, <1>8, <1>9, <1>10, <1>11 DEF TreeInv

(***************************************************************************)
(* Theorems                                                                *)
(***************************************************************************)

(* Whatever containers, copies and deleted nodes sessions still work on,   *)
(* the tree in memory keeps its shape until a restart: parents and         *)
(* children agree, siblings have different ids unless they are in a trash, *)
(* and no node is below itself.                                            *)
THEOREM ShapeWhileUp == Uptime => [](ParentsMatchChildren /\ UniqueIds /\ Acyclic)
  <1>1. Init => Shape
    BY InitTree, TreeHasShape
  <1>2. Shape => ParentsMatchChildren /\ UniqueIds /\ Acyclic
    BY DEF Shape, Acyclic, NoCycle
  <1>3. QED  BY <1>1, <1>2, RequestKeepsShape, PTL DEF Uptime

(* TreeInv holds in every state of every execution. *)
THEOREM Invariance == Stale = {} => (Spec => []TreeInv)
  <1> SUFFICES ASSUME Stale = {}  PROVE Spec => []TreeInv
    OBVIOUS
  <1>1. TreeInv /\ [Next]_vars => TreeInv'
    <2> SUFFICES ASSUME TreeInv, [Next]_vars  PROVE TreeInv'
      OBVIOUS
    <2>1. CASE UNCHANGED vars
      BY <2>1 DEF vars, TreeInv, TypeOK, ParentsMatchChildren, UniqueIds, Attached,
                  NoCycle, Chained
    <2>2. CASE Next
      BY <2>2, SaveStep, CreateStep, AppendStep, AppendNodesStep, ImportStep, DeleteStep,
         PreviewStep, CopyStep, RestartStep DEF Next, Request
    <2>3. QED  BY <2>1, <2>2
  <1>2. QED  BY InitTree, <1>1, PTL DEF Spec

(* Every variable has its type, and whatever is marked is a node. *)
THEOREM Typing == Stale = {} => (Spec => []TypeOK)
  <1>1. TreeInv => TypeOK  BY DEF TreeInv
  <1>2. QED  BY Invariance, <1>1, PTL

(* However users reorganise the tree, parents and children agree.          *)
THEOREM TreeShape == Stale = {} => (Spec => []ParentsMatchChildren)
  <1>1. TreeInv => ParentsMatchChildren  BY DEF TreeInv
  <1>2. QED  BY Invariance, <1>1, PTL

(* No move, drop, import or copy puts a node below itself, so that isRooted *)
(* and getPath return.                                                     *)
THEOREM NoCycles == Stale = {} => (Spec => []Acyclic)
  <1>1. TreeInv => Acyclic  BY DEF TreeInv, Acyclic, NoCycle
  <1>2. QED  BY Invariance, <1>1, PTL

(* With no stale sessions, also after restarts: siblings have different    *)
(* ids unless they are in a trash, so that the path of a page names one    *)
(* node, and a node that leaves the trash gets an id of its own.           *)
THEOREM SiblingIds == Stale = {} => (Spec => []UniqueIds)
  <1>1. TreeInv => UniqueIds  BY DEF TreeInv
  <1>2. QED  BY Invariance, <1>1, PTL

(* The database knows the nodes of the tree and no others.                 *)
THEOREM DatabaseIsTree == Stale = {} => (Spec => []RepositoryIsTree)
  <1>1. TreeInv => RepositoryIsTree
    BY RootedIsAttached DEF TreeInv, RepositoryIsTree
  <1>2. QED  BY Invariance, <1>1, PTL

(* What it has of them are the fields they have in memory, although only   *)
(* the marked nodes are saved, and any save consumes the marks of all.     *)
THEOREM DiskFollows == Stale = {} => (Spec => []DiskIsCurrent)
  <1>1. TreeInv => DiskIsCurrent
    BY RootedIsAttached DEF TreeInv, DiskIsCurrent
  <1>2. QED  BY Invariance, <1>1, PTL

(* A restart finds the root of Setup: no other stored node lacks a parent. *)
THEOREM RestartFindsRoot == Stale = {} => (Spec => []RootSurvives)
  <1>1. TreeInv => RootSurvives
    BY RootedIsAttached DEF TreeInv, RootSurvives
  <1>2. QED  BY Invariance, <1>1, PTL

(* As long as no session drops on a container that is deleted, nothing     *)
(* that is appended, imported, saved, copied or previewed makes another    *)
(* node leave the database: only a deletion does.                          *)
THEOREM DeletionOnly == Stale = {} => (Spec => OnlyDeletionLosesNodes)
  <1>1. TreeInv /\ TreeInv' /\ [Next]_vars =>
            [(\E n \in Nodes : DeleteNode(n)) \/ repository \subseteq repository']_vars
    <2> SUFFICES ASSUME TreeInv, TreeInv', Next, ~\E n \in Nodes : DeleteNode(n)
                 PROVE  repository \subseteq repository'
      OBVIOUS
    <2>1. repository = Attached(parent, Home) /\ repository' = Attached(parent', Home)
      BY DEF TreeInv, Attached
    <2>2. ASSUME NEW p \in Nodes, NEW ns \in SUBSET Nodes, Append(p, ns)
          PROVE  repository \subseteq repository'
      BY <2>1, <2>2 DEF Append, Attached
    <2>3. CASE \/ \E n \in Nodes, i \in Ids : SaveNode(n, i)
               \/ \E c, k \in Nodes, i \in Ids : PreviewNode(c, k, i)
               \/ \E n \in Nodes : CopyNode(n)
               \/ Restart
      <3>1. parent' = parent \/ repository' = repository
        BY <2>3 DEF SaveNode, PreviewNode, CopyNode, Restart
      <3>2. QED  BY <2>1, <3>1
    <2>4. CASE \/ \E c, n \in Nodes, i \in Ids : CreateNode(c, n, i)
               \/ \E p, n \in Nodes : AppendNode(p, n)
               \/ \E p \in Nodes, ns \in SUBSET Nodes : AppendNodes(p, ns)
               \/ \E p, n \in Nodes, i \in Ids : ImportNode(p, n, i)
      <3>1. ASSUME NEW p \in Nodes, NEW n \in Nodes, Append(p, {n})
            PROVE  repository \subseteq repository'
        BY <2>2, <3>1
      <3>2. ASSUME NEW p \in Nodes, NEW ns \in SUBSET Nodes, Append(p, ns \cup children[p])
            PROVE  repository \subseteq repository'
        BY <2>2, <3>2 DEF TreeInv, TypeOK
      <3>3. QED  BY <2>4, <3>1, <3>2 DEF CreateNode, AppendNode, AppendNodes, ImportNode
    <2>5. QED  BY <2>3, <2>4 DEF Next, Request
  <1>2. QED  BY Invariance, <1>1, PTL DEF Spec, OnlyDeletionLosesNodes
=============================================================================
