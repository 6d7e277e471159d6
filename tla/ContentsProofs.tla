---------------------------- MODULE ContentsProofs ----------------------------
(***************************************************************************)
(* Proofs about Contents, for any finite set of nodes, any number of       *)
(* containers, trashes and references in it, and any choices of the users, *)
(* of trashes and deleted contents, too.                                   *)
(***************************************************************************)
EXTENDS Contents, AncestryProofs

USE KindAssumption, NoNodeAssumption, FiniteAssumption

ContentsInv == TypeOK /\ NoCycle(parent) /\ Chained(parent, Home)

(* What a step may not do to the roots of users and to references. *)
RootsSafe ==
    \A f \in (roots \cap Tree) \ Tree' : f \in Trashes /\ ChildrenOf(f) = {}

ReferencesSafe ==
    \A r \in References \cap Tree \cap Tree' :
        ref[r] \in Tree /\ ref'[r] \notin Tree' =>
            \/ ref'[r] # ref[r]
            \/ ref[r] \in Trashes /\ ChildrenOf(ref[r]) = {}

Safe == RootsSafe /\ ReferencesSafe

(***************************************************************************)
(* What is above a node                                                    *)
(***************************************************************************)

LEMMA ParentsTyped == TypeOK => Typed(parent)
  BY DEF TypeOK, Typed, Containers

(* The node is above itself, with a node its parent is, and whatever else  *)
(* is above it is above its parent.                                        *)
LEMMA UpFacts ==
    ASSUME TypeOK, NEW n \in Nodes
    PROVE  /\ n \in Up(n) /\ Up(n) \subseteq Nodes
           /\ \A m \in Up(n) : parent[m] # NoNode => parent[m] \in Up(n)
           /\ \A m \in Up(n) : m # n => parent[n] \in Nodes /\ m \in Up(parent[n])
           /\ \A m \in Nodes : m \in Up(n) <=> n \in Below(parent, m)
  <1>1. Typed(parent)  BY ParentsTyped
  <1>2. /\ n \in Up(n) /\ Up(n) \subseteq Nodes
        /\ \A m \in Up(n) : parent[m] # NoNode => parent[m] \in Up(n)
    BY <1>1, AboveClosed DEF Up
  <1>3. \A m \in Nodes, k \in Nodes : k \in Up(m) <=> m \in Below(parent, k)
    BY <1>1, AboveIsBelow DEF Up
  <1>4. ASSUME NEW m \in Up(n), m # n  PROVE parent[n] \in Nodes /\ m \in Up(parent[n])
    <2>1. m \in Nodes /\ n \in Below(parent, m)  BY <1>2, <1>3
    <2>2. parent[n] \in Below(parent, m)  BY <1>4, <2>1, BelowParent
    <2>3. parent[n] \in Nodes  BY <2>2 DEF Below
    <2>4. QED  BY <1>3, <2>1, <2>2, <2>3
  <1>5. QED  BY <1>2, <1>3, <1>4

(* What is above something above n is above n. *)
LEMMA UpTransitive ==
    ASSUME TypeOK, NEW n \in Nodes, NEW m \in Up(n)
    PROVE  Up(m) \subseteq Up(n)
  <1>1. m \in Nodes /\ Up(n) \in SUBSET Nodes
    BY UpFacts
  <1>2. \A k \in Up(n) : parent[k] # NoNode => parent[k] \in Up(n)
    BY UpFacts
  <1>3. QED  BY <1>1, <1>2, ParentsTyped, AboveClosed DEF Up

(* No two nodes are above each other. *)
LEMMA UpAntisymmetric ==
    ASSUME TypeOK, NoCycle(parent), NEW n \in Nodes, NEW m \in Up(n), n \in Up(m)
    PROVE  m = n
  <1> SUFFICES ASSUME m # n  PROVE FALSE
    OBVIOUS
  <1>1. parent[n] \in Nodes /\ m \in Up(parent[n])
    BY UpFacts
  <1>2. n \in Up(parent[n])
    BY <1>1, UpTransitive
  <1>3. parent[n] \in Below(parent, n)
    BY <1>1, <1>2, UpFacts
  <1>4. QED  BY <1>3, ParentAbove

(* A node is in the tree exactly if it is the root or has a parent. *)
LEMMA TreeIsAttached ==
    ASSUME NEW par, Typed(par), NoCycle(par), Chained(par, Home)
    PROVE  {n \in Nodes : Home \in Above(par, n)} = Attached(par, Home)
  <1>1. Home \in Nodes  OBVIOUS
  <1>2. Below(par, Home) = Attached(par, Home)
    BY <1>1, RootedNodes
  <1>3. \A n \in Nodes : Home \in Above(par, n) <=> n \in Below(par, Home)
    BY <1>1, AboveIsBelow
  <1>4. QED  BY <1>2, <1>3 DEF Below

(* Above a container there are containers only. *)
LEMMA ContainersAbove ==
    ASSUME TypeOK, NEW f \in Containers
    PROVE  Up(f) \subseteq Containers
  <1>1. Containers \in SUBSET Nodes  BY DEF Containers
  <1>2. \A m \in Containers : parent[m] # NoNode => parent[m] \in Containers
    BY <1>1 DEF TypeOK
  <1>3. QED  BY <1>1, <1>2, ParentsTyped, AboveClosed DEF Up

(***************************************************************************)
(* Removing and moving                                                     *)
(***************************************************************************)

Gone(S) == {n \in Nodes : Up(n) \cap S # {}}

(* What is removed is the nodes and all below them, no more and no less.   *)
LEMMA RemoveTree ==
    ASSUME ContentsInv, TypeOK', NEW S \in SUBSET Nodes, Home \notin S, Remove(S)
    PROVE  /\ NoCycle(parent') /\ Chained(parent', Home)
           /\ Tree' = Tree \ Gone(S)
           /\ \A r \in References : ref'[r] = IF r \in Gone(S) THEN NoNode ELSE ref[r]
           /\ S \subseteq Gone(S) /\ Home \notin Gone(S)
  <1> USE DEF ContentsInv
  <1>1. parent' = Detached(parent, Gone(S))
    BY DEF Remove, Detached, Gone
  <1>2. Gone(S) \in SUBSET Nodes /\ S \subseteq Gone(S)
    BY UpFacts DEF Gone
  <1>3. \A k \in Nodes : parent[k] \in Gone(S) => k \in Gone(S)
    <2> SUFFICES ASSUME NEW k \in Nodes, parent[k] \in Gone(S)  PROVE k \in Gone(S)
      OBVIOUS
    <2>1. parent[k] \in Nodes /\ parent[k] # NoNode  BY DEF Gone
    <2>2. parent[k] \in Up(k)  BY <2>1, UpFacts
    <2>3. Up(parent[k]) \subseteq Up(k)  BY <2>2, UpTransitive
    <2>4. QED  BY <2>3 DEF Gone
  <1>4. Home \notin Gone(S)
    <2>1. parent[Home] = NoNode  BY DEF Chained
    <2>2. \A m \in Up(Home) : m = Home  BY <2>1, UpFacts
    <2>3. QED  BY <2>2 DEF Gone
  <1>5. /\ NoCycle(parent') /\ Chained(parent', Home)
        /\ Attached(parent', Home) = {n \in Attached(parent, Home) : n = Home \/ n \notin Gone(S)}
    BY <1>1, <1>2, <1>3, ParentsTyped, DetachKeepsTree
  <1>6. Tree' = Attached(parent', Home)
    <2>1. Typed(parent')  BY DEF TypeOK, Typed, Containers
    <2>2. QED  BY <1>5, <2>1, TreeIsAttached DEF Tree, Up
  <1>7. Tree = Attached(parent, Home)
    BY ParentsTyped, TreeIsAttached DEF Tree, Up
  <1>8. Tree' = Tree \ Gone(S)
    BY <1>4, <1>5, <1>6, <1>7
  <1>9. \A r \in References : ref'[r] = IF r \in Gone(S) THEN NoNode ELSE ref[r]
    BY DEF Remove, Gone
  <1>10. QED  BY <1>2, <1>4, <1>5, <1>8, <1>9

(* A node that is appended joins the tree, and nothing leaves it.          *)
LEMMA MoveTree ==
    ASSUME ContentsInv, TypeOK', NEW n \in Nodes, NEW p \in Tree, n \notin Up(p),
           parent' = [parent EXCEPT ![n] = p]
    PROVE  /\ NoCycle(parent') /\ Chained(parent', Home)
           /\ Tree' = Tree \cup {n}
  <1> USE DEF ContentsInv
  <1>1. p \in Nodes  BY DEF Tree
  <1>2. Typed(parent) /\ Typed(parent')
    BY DEF TypeOK, Typed, Containers
  <1>3. Tree = Attached(parent, Home)
    BY <1>2, TreeIsAttached DEF Tree, Up
  <1>4. parent' = Moved(parent, p, {n})
    BY <1>2 DEF Moved, Typed
  <1>5. \A m \in {n} : p \notin Below(parent, m)
    BY <1>1, UpFacts
  <1>6. /\ NoCycle(parent') /\ Chained(parent', Home)
        /\ Attached(parent', Home) = Attached(parent, Home) \cup {n}
    <2>1. Home \in Nodes /\ p \in Attached(parent, Home) /\ {n} \in SUBSET Nodes
      BY <1>3
    <2>2. Chained(parent, Home) /\ NoCycle(parent)  OBVIOUS
    <2>3. /\ NoCycle(Moved(parent, p, {n})) /\ Chained(Moved(parent, p, {n}), Home)
          /\ Attached(Moved(parent, p, {n}), Home) = Attached(parent, Home) \cup {n}
      BY <1>2, <1>5, <2>1, <2>2, MoveKeepsTree
    <2>4. QED  BY <1>4, <2>3
  <1>7. Tree' = Attached(parent', Home)
    BY <1>2, <1>6, TreeIsAttached DEF Tree, Up
  <1>8. QED  BY <1>3, <1>6, <1>7

(* A guard is a trash of the tree, outside of what it guards. *)
LEMMA GuardFacts ==
    ASSUME ContentsInv, NEW n \in Nodes, NEW g \in Guards(n) \ Up(n)
    PROVE  g \in Trashes /\ g \in Tree /\ n \notin Up(g) /\ n \in Tree /\ n # Home
  <1> USE DEF ContentsInv
  <1>1. g \in Trashes /\ g \in Nodes /\ parent[g] \in Up(n) \ {n} /\ g # n
    BY UpFacts DEF Guards
  <1>2. parent[g] \in Nodes /\ parent[g] # NoNode
    BY <1>1, UpFacts
  <1>3. parent[g] \in Up(g) /\ Up(parent[g]) \subseteq Up(g)
    BY <1>1, <1>2, UpFacts, UpTransitive
  <1>4. n \notin Up(g)
    <2> SUFFICES ASSUME n \in Up(g)  PROVE FALSE
      OBVIOUS
    <2>1. n \in Up(parent[g])  BY <1>1, UpFacts
    <2>2. QED  BY <1>1, <1>2, <2>1, UpAntisymmetric
  <1>5. Tree = Attached(parent, Home)
    BY ParentsTyped, TreeIsAttached DEF Tree, Up
  <1>6. g \in Tree
    BY <1>1, <1>2, <1>5 DEF Attached
  <1>7. parent[n] # NoNode
    <2>1. parent[n] \in Nodes  BY <1>1, UpFacts
    <2>2. QED  BY <2>1
  <1>8. n \in Tree /\ n # Home
    BY <1>5, <1>7 DEF Attached, Chained
  <1>9. QED  BY <1>1, <1>4, <1>6, <1>8

(* The references that are deleted with n lead below n, or below another   *)
(* of them; and those that do are deleted.                                 *)
LEMMA ReferenceFacts ==
    ASSUME NEW n \in Nodes
    PROVE  /\ ReferencesTo(n) \subseteq References
           /\ RefsTo(n) \subseteq ReferencesTo(n)
           /\ \A q \in ReferencesTo(n) : RefsTo(q) \subseteq ReferencesTo(n)
           /\ \A r \in ReferencesTo(n) :
                 r \in RefsTo(n) \/ \E q \in ReferencesTo(n) : r \in RefsTo(q)
  <1> DEFINE closed == {S \in SUBSET References :
                           RefsTo(n) \subseteq S /\ \A r \in S : RefsTo(r) \subseteq S}
             R == ReferencesTo(n)
             T == {r \in R : r \in RefsTo(n) \/ \E q \in R : r \in RefsTo(q)}
  <1>1. R = {r \in References : \A S \in closed : r \in S}
    BY DEF ReferencesTo
  <1>2. \A m : RefsTo(m) \subseteq References
    BY DEF RefsTo
  <1>3. R \subseteq References /\ RefsTo(n) \subseteq R
    BY <1>1, <1>2
  <1>4. \A q \in R : RefsTo(q) \subseteq R
    BY <1>1, <1>2
  <1>5. T \in closed
    BY <1>3, <1>4
  <1>6. R \subseteq T
    BY <1>1, <1>5
  <1> HIDE DEF R
  <1>7. QED  BY <1>3, <1>4, <1>6 DEF R

(***************************************************************************)
(* Deletions                                                               *)
(***************************************************************************)

(* Contents.delete of what is deletable, with the references to it. *)
LEMMA RemoveKeeps ==
    ASSUME ContentsInv, TypeOK', NEW n \in Nodes, n # Home, IsDeletable(n),
           Remove({n} \cup ReferencesTo(n)), UNCHANGED roots
    PROVE  ContentsInv' /\ Safe
  <1> DEFINE S == {n} \cup ReferencesTo(n)
  <1>1. S \in SUBSET Nodes /\ Home \notin S
    BY ReferenceFacts DEF Containers
  <1>2. ReferencesTo(n) \subseteq References /\ n \in S
    BY ReferenceFacts
  <1>3. Remove(S)  OBVIOUS
  <1> HIDE DEF S
  <1>4. /\ NoCycle(parent') /\ Chained(parent', Home)
        /\ Tree' = Tree \ Gone(S)
        /\ \A r \in References : ref'[r] = IF r \in Gone(S) THEN NoNode ELSE ref[r]
        /\ S \subseteq Gone(S)
    BY <1>1, <1>3, RemoveTree
  <1>5. RootsSafe
    <2> SUFFICES ASSUME NEW f \in roots \cap Tree, f \in Gone(S)  PROVE FALSE
      BY <1>4 DEF RootsSafe
    <2>1. PICK m \in S : m \in Up(f)
      BY DEF Gone
    <2>2. f \in Containers  BY DEF ContentsInv, TypeOK, Containers
    <2>3. m \in Containers  BY <2>1, <2>2, ContainersAbove DEF ContentsInv
    <2>4. m = n  BY <1>2, <2>3 DEF S
    <2>5. QED  BY <2>1, <2>4 DEF IsDeletable
  <1>6. ReferencesSafe
    <2> SUFFICES ASSUME NEW r \in References, r \in Tree, r \in Tree', ref[r] \in Tree
                 PROVE  ref'[r] \in Tree'
      BY DEF ReferencesSafe
    <2> DEFINE c == ref[r]
    <2>1. r \notin Gone(S) /\ ref'[r] = c
      BY <1>4
    <2>2. c \in Nodes /\ c # NoNode  BY DEF Tree
    <2>3. \A m \in Nodes : m \in Up(c) => r \in RefsTo(m)
      BY <2>2 DEF RefsTo, Tree
    <2>4. ASSUME NEW m \in S, m \in Up(c)  PROVE FALSE
      <3>1. r \in RefsTo(m)  BY <1>1, <2>3, <2>4
      <3>2. r \in ReferencesTo(n)  BY <3>1, ReferenceFacts DEF S
      <3>3. QED  BY <1>4, <2>1, <3>2 DEF S
    <2>5. c \notin Gone(S)  BY <2>4 DEF Gone
    <2>6. QED  BY <1>4, <2>1, <2>5
  <1>7. QED  BY <1>4, <1>5, <1>6 DEF ContentsInv, Safe

(* An empty trash, whoever has it as a root or a content. *)
LEMMA RemoveTrashKeeps ==
    ASSUME ContentsInv, TypeOK', NEW n \in Trashes, ChildrenOf(n) = {},
           Remove({n}), UNCHANGED roots
    PROVE  ContentsInv' /\ Safe /\ Tree' = Tree \ {n}
  <1>1. n \in Nodes /\ n # Home  OBVIOUS
  <1>2. Gone({n}) = {n}
    <2>1. n \in Gone({n})  BY <1>1, UpFacts DEF Gone, ContentsInv
    <2>2. ASSUME NEW m \in Nodes, n \in Up(m), m # n  PROVE FALSE
      <3>1. n \in Nodes /\ m \in Below(parent, n) /\ m # n
        BY <1>1, <2>2, UpFacts DEF ContentsInv
      <3>2. \A k \in Nodes : parent[k] \in {n} => k \in {n}
        BY DEF ChildrenOf
      <3>3. Below(parent, n) \subseteq {n}
        BY <1>1, <3>2, BelowLeast
      <3>4. QED  BY <3>1, <3>3
    <2>3. QED  BY <2>1, <2>2 DEF Gone
  <1>3. /\ NoCycle(parent') /\ Chained(parent', Home)
        /\ Tree' = Tree \ {n}
        /\ \A r \in References : ref'[r] = IF r \in {n} THEN NoNode ELSE ref[r]
    BY <1>1, <1>2, RemoveTree
  <1>4. \A r \in References : r # n
    BY DEF Containers
  <1>5. RootsSafe /\ ReferencesSafe
    BY <1>3, <1>4 DEF RootsSafe, ReferencesSafe
  <1>6. QED  BY <1>3, <1>5 DEF ContentsInv, Safe

(* Where nothing leaves the tree nothing is lost. *)
LEMMA NothingLeaves ==
    ASSUME Tree \subseteq Tree'
    PROVE  Safe
  BY DEF Safe, RootsSafe, ReferencesSafe

(* A content goes to the trash that guards it. *)
LEMMA TrashKeeps ==
    ASSUME ContentsInv, TypeOK', NEW n \in Nodes, NEW g \in Guards(n) \ Up(n),
           parent' = [parent EXCEPT ![n] = g], UNCHANGED <<ref, roots>>
    PROVE  ContentsInv' /\ Tree' = Tree
  <1>1. g \in Tree /\ n \notin Up(g) /\ n \in Tree
    BY GuardFacts
  <1>2. NoCycle(parent') /\ Chained(parent', Home) /\ Tree' = Tree \cup {n}
    BY <1>1, MoveTree
  <1>3. Tree' = Tree  BY <1>1, <1>2
  <1>4. QED  BY <1>2, <1>3 DEF ContentsInv

(***************************************************************************)
(* The steps                                                               *)
(***************************************************************************)

(* delete(n) of a content that is no trash *)
LEMMA DisposeTyped ==
    ASSUME ContentsInv, NEW n \in Nodes, Dispose(n)
    PROVE  /\ parent' \in [Nodes -> Containers \cup {NoNode}]
           /\ ref' \in [References -> Nodes \cup {NoNode}]
  <1> USE DEF ContentsInv, TypeOK
  <1>1. ASSUME NEW g \in Guards(n) \ Up(n), parent' = [parent EXCEPT ![n] = g], UNCHANGED ref
        PROVE  /\ parent' \in [Nodes -> Containers \cup {NoNode}]
               /\ ref' \in [References -> Nodes \cup {NoNode}]
    <2>1. g \in Containers  BY DEF Guards, Containers
    <2>2. QED  BY <1>1, <2>1
  <1>2. ASSUME NEW S, Remove(S)
        PROVE  /\ parent' \in [Nodes -> Containers \cup {NoNode}]
               /\ ref' \in [References -> Nodes \cup {NoNode}]
    BY <1>2 DEF Remove
  <1>3. QED  BY <1>1, <1>2 DEF Dispose

LEMMA TypeStep ==
    ASSUME ContentsInv, [Next]_vars
    PROVE  TypeOK'
  <1> USE DEF ContentsInv, TypeOK
  <1>1. CASE UNCHANGED vars
    BY <1>1 DEF vars
  <1>2. \A n \in Nodes : ChildrenOf(n) \subseteq Nodes \ {Home}
    BY DEF ChildrenOf, Chained
  <1>4. ASSUME NEW S, Remove(S)
        PROVE  /\ parent' \in [Nodes -> Containers \cup {NoNode}]
               /\ ref' \in [References -> Nodes \cup {NoNode}]
    BY <1>4 DEF Remove
  <1>5. ASSUME NEW n \in Nodes, Delete(n)  PROVE TypeOK'
    BY <1>2, <1>4, <1>5, DisposeTyped DEF Delete
  <1>6. ASSUME NEW n \in Nodes, DeleteNext(n)  PROVE TypeOK'
    <2>1. CASE todo' = todo \ {n} /\ UNCHANGED <<parent, ref>>
      BY <1>6, <2>1 DEF DeleteNext
    <2>2. CASE Dispose(n) /\ todo' = todo \ {n}
      BY <1>6, <2>2, DisposeTyped DEF DeleteNext
    <2>3. CASE Remove({n}) /\ todo' = todo \ {n}
      BY <1>4, <1>6, <2>3 DEF DeleteNext
    <2>4. CASE todo' = (todo \ {n}) \cup ChildrenOf(n) /\ UNCHANGED <<parent, ref>>
      BY <1>2, <1>6, <2>4 DEF DeleteNext
    <2>5. QED  BY <1>6, <2>1, <2>2, <2>3, <2>4 DEF DeleteNext
  <1>7. ASSUME NEW old \in SUBSET {n \in Nodes : parent[n] \in Trashes}, EmptyTrash(old)
        PROVE  TypeOK'
    <2>1. Home \notin old  BY <1>7 DEF Chained
    <2>2. QED  BY <1>7, <2>1 DEF EmptyTrash
  <1>8. ASSUME NEW p \in Nodes, NEW n \in Nodes, Append(p, n)  PROVE TypeOK'
    BY <1>8 DEF Append
  <1>9. ASSUME NEW r \in References, NEW c \in Nodes, NEW p \in Containers, EditReference(p, r, c)
        PROVE  TypeOK'
    BY <1>9 DEF EditReference
  <1>10. ASSUME NEW S \in SUBSET Containers, EditRoots(S)  PROVE TypeOK'
    BY <1>10 DEF EditRoots, Containers
  <1>11. QED  BY <1>1, <1>5, <1>6, <1>7, <1>8, <1>9, <1>10 DEF Next, Choices

(* One content that is no trash: it goes to a trash, or away, or it stays. *)
LEMMA DisposeKeeps ==
    ASSUME ContentsInv, TypeOK', NEW n \in Nodes, n # Home, Dispose(n), UNCHANGED roots
    PROVE  ContentsInv' /\ Safe
  <1>1. CASE \E g \in Guards(n) \ Up(n) : parent' = [parent EXCEPT ![n] = g] /\ UNCHANGED ref
    BY <1>1, TrashKeeps, NothingLeaves
  <1>2. CASE IsDeletable(n) /\ Remove({n} \cup ReferencesTo(n))
    BY <1>2, RemoveKeeps
  <1>3. CASE UNCHANGED <<parent, ref>>
    <2>1. Tree' = Tree  BY <1>3 DEF Tree, Up
    <2>2. QED  BY <1>3, <2>1, NothingLeaves DEF ContentsInv
  <1>4. QED  BY <1>1, <1>2, <1>3 DEF Dispose

LEMMA DeleteStep ==
    ASSUME ContentsInv, TypeOK', NEW n \in Nodes, Delete(n) \/ DeleteNext(n)
    PROVE  ContentsInv' /\ Safe
  <1>1. n # Home /\ UNCHANGED roots  BY DEF Delete, DeleteNext, ContentsInv, TypeOK
  <1>2. CASE Dispose(n)
    BY <1>1, <1>2, DisposeKeeps
  <1>3. CASE n \in Trashes /\ ChildrenOf(n) = {} /\ Remove({n})
    BY <1>1, <1>3, RemoveTrashKeeps
  <1>4. CASE UNCHANGED <<parent, ref>>
    <2>1. Tree' = Tree  BY <1>4 DEF Tree, Up
    <2>2. QED  BY <1>1, <1>4, <2>1, NothingLeaves DEF ContentsInv
  <1>5. QED  BY <1>2, <1>3, <1>4 DEF Delete, DeleteNext

LEMMA AppendStep ==
    ASSUME ContentsInv, TypeOK', NEW p \in Nodes, NEW n \in Nodes, Append(p, n)
    PROVE  ContentsInv' /\ Tree \subseteq Tree'
  <1>1. p \in Tree  BY DEF Append, Tree
  <1>2. n \notin Up(p) /\ parent' = [parent EXCEPT ![n] = p]
    BY DEF Append
  <1>3. NoCycle(parent') /\ Chained(parent', Home) /\ Tree' = Tree \cup {n}
    BY <1>1, <1>2, MoveTree
  <1>4. QED  BY <1>3 DEF ContentsInv

LEMMA EditReferenceStep ==
    ASSUME ContentsInv, TypeOK', NEW r \in References, NEW c \in Nodes,
           NEW p \in Containers, EditReference(p, r, c)
    PROVE  ContentsInv' /\ Tree \subseteq Tree'
  <1>1. r \in Nodes  OBVIOUS
  <1>2. CASE UNCHANGED parent
    <2>1. Tree' = Tree  BY <1>2 DEF Tree, Up
    <2>2. QED  BY <1>2, <2>1 DEF ContentsInv
  <1>3. CASE /\ Home \notin Up(r) /\ Home \in Up(p)
             /\ parent' = [parent EXCEPT ![r] = p]
    <2>1. p \in Tree  BY <1>3 DEF Tree, Containers
    <2>2. r \notin Up(p)
      <3>1. r \notin Containers  OBVIOUS
      <3>2. QED  BY <3>1, ContainersAbove DEF ContentsInv
    <2>3. NoCycle(parent') /\ Chained(parent', Home) /\ Tree' = Tree \cup {r}
      BY <1>1, <1>3, <2>1, <2>2, MoveTree
    <2>4. QED  BY <2>3 DEF ContentsInv
  <1>4. QED  BY <1>2, <1>3 DEF EditReference

LEMMA InitContents == Init => ContentsInv
  <1> SUFFICES ASSUME Init  PROVE ContentsInv
    OBVIOUS
  <1>1. TypeOK  BY DEF Init, TypeOK
  <1>2. NoCycle(parent) /\ Chained(parent, Home)
    BY DEF Init, NoCycle, Chained
  <1>3. QED  BY <1>1, <1>2 DEF ContentsInv

(* Every step keeps ContentsInv, and harms no root and no reference. *)
LEMMA ContentsStep ==
    ASSUME ContentsInv, [Next]_vars
    PROVE  ContentsInv' /\ (Safe \/ UNCHANGED vars)
  <1>1. TypeOK'  BY TypeStep
  <1>2. CASE UNCHANGED vars
    BY <1>1, <1>2 DEF ContentsInv, vars
  <1>3. ASSUME NEW n \in Nodes, Delete(n) \/ DeleteNext(n)  PROVE ContentsInv' /\ Safe
    BY <1>1, <1>3, DeleteStep
  <1>4. ASSUME NEW p \in Nodes, NEW n \in Nodes, Append(p, n)  PROVE ContentsInv' /\ Safe
    BY <1>1, <1>4, AppendStep, NothingLeaves
  <1>5. ASSUME NEW r \in References, NEW c \in Nodes, NEW p \in Containers,
               EditReference(p, r, c)
        PROVE  ContentsInv' /\ Safe
    BY <1>1, <1>5, EditReferenceStep, NothingLeaves
  <1>6. ASSUME UNCHANGED parent  PROVE ContentsInv' /\ Safe
    <2>1. Tree' = Tree  BY <1>6 DEF Tree, Up
    <2>2. QED  BY <1>1, <1>6, <2>1, NothingLeaves DEF ContentsInv
  <1>7. QED
    BY <1>2, <1>3, <1>4, <1>5, <1>6 DEF Next, Choices, EmptyTrash, EditRoots

(***************************************************************************)
(* Theorems                                                                *)
(***************************************************************************)

(* ContentsInv holds in every state, whatever users choose. *)
THEOREM Invariance == Spec => []ContentsInv
  <1>1. QED  BY InitContents, ContentsStep, PTL DEF Spec

(* Every variable has its type; the loop never comes to delete the root.   *)
THEOREM Typing == Spec => []TypeOK
  <1>1. ContentsInv => TypeOK  BY DEF ContentsInv
  <1>2. QED  BY Invariance, <1>1, PTL

(* The root folders of users stay, through deletions above and below them, *)
(* trashes in trashes, and loops that others get in between: all that a    *)
(* request takes from a user is an empty trash.                            *)
THEOREM RootsSurvive == Spec => RootsStay
  <1>1. ContentsInv /\ [Next]_vars =>
            [\A f \in (roots \cap Tree) \ Tree' : f \in Trashes /\ ChildrenOf(f) = {}]_vars
    BY ContentsStep DEF Safe, RootsSafe
  <1>2. QED  BY Invariance, <1>1, PTL DEF Spec, RootsStay

(* However many references lead to a content, to what is below it, and to  *)
(* each other: none is left when the content leaves, but to empty trashes. *)
THEOREM NoneDangles == Spec => NoDanglingReference
  <1>1. ContentsInv /\ [Next]_vars =>
            [\A r \in References \cap Tree \cap Tree' :
                ref[r] \in Tree /\ ref'[r] \notin Tree' =>
                    \/ ref'[r] # ref[r]
                    \/ ref[r] \in Trashes /\ ChildrenOf(ref[r]) = {}]_vars
    BY ContentsStep DEF Safe, ReferencesSafe
  <1>2. QED  BY Invariance, <1>1, PTL DEF Spec, NoDanglingReference

(* The move to a trash is not validated, and still makes no cycle.         *)
THEOREM NoCycles == Spec => []Acyclic
  <1>1. ContentsInv => Acyclic  BY DEF ContentsInv, Acyclic
  <1>2. QED  BY Invariance, <1>1, PTL

(***************************************************************************)
(* What a guard protects                                                   *)
(***************************************************************************)

(* If there is a trash above a content, there is a nearest one.            *)
LEMMA NearestGuard ==
    ASSUME ContentsInv, NEW n \in Nodes, Guards(n) = {}
    PROVE  \A g \in Trashes : parent[g] \notin Up(n) \ {n}
  <1> SUFFICES ASSUME NEW first \in Trashes, parent[first] \in Up(n) \ {n}
               PROVE  FALSE
    OBVIOUS
  <1> USE DEF ContentsInv
  <1> DEFINE guarding == {g \in Trashes : parent[g] \in Up(n) \ {n}}
             P == {parent[g] : g \in guarding}
             T == {k \in Up(n) : P \subseteq Up(k)}
  <1>1. Up(n) \subseteq Nodes /\ n \in Up(n)  BY UpFacts
  <1>2. P \subseteq Up(n) /\ P \subseteq Nodes /\ parent[first] \in P
    BY <1>1
  <1>3. n \in T /\ T \in SUBSET Nodes  BY <1>1, <1>2
  <1>4. ASSUME NEW g \in guarding, parent[g] \in T  PROVE FALSE
    <2>1. \A h \in guarding : parent[g] \in Up(parent[h]) => parent[g] = parent[h]
      <3> SUFFICES ASSUME NEW h \in guarding, parent[g] \in Up(parent[h])
                   PROVE  parent[g] = parent[h]
        OBVIOUS
      <3>1. parent[h] \in P /\ parent[h] \in Nodes  BY <1>1
      <3>2. parent[h] \in Up(parent[g])  BY <1>4, <3>1
      <3>3. QED  BY <3>1, <3>2, UpAntisymmetric
    <2>2. g \in Guards(n)  BY <2>1 DEF Guards
    <2>3. QED  BY <2>2
  <1>5. \A k \in T : k \notin P  BY <1>4
  <1>6. ASSUME NEW k \in T, parent[k] # NoNode  PROVE parent[k] \in T
    <2>1. k \in Nodes /\ parent[k] \in Up(n)  BY <1>1, <1>6, UpFacts
    <2>2. \A q \in P : q \in Up(k) /\ q # k  BY <1>5, <1>6
    <2> HIDE DEF P
    <2>3. \A q \in P : q \in Up(parent[k])  BY <2>1, <2>2, UpFacts
    <2>4. QED  BY <2>1, <2>3
  <1> HIDE DEF T
  <1>7. Up(n) \subseteq T
    BY <1>3, <1>6, ParentsTyped, AboveClosed DEF Up
  <1>8. QED  BY <1>2, <1>5, <1>7

(* Whoever leaves with S is below somebody of S. *)
LEMMA LossBelow ==
    ASSUME ContentsInv, TypeOK', NEW S \in SUBSET Nodes, Home \notin S, Remove(S),
           NEW k \in Tree \ Tree'
    PROVE  \E m \in S : m \in Up(k) \ Tree'
  <1>1. Tree' = Tree \ Gone(S) /\ S \subseteq Gone(S)
    BY RemoveTree
  <1>2. PICK m \in S : m \in Up(k)
    BY <1>1 DEF Gone
  <1>3. QED  BY <1>1, <1>2

LEMMA DisposeSpares ==
    ASSUME ContentsInv, TypeOK', NEW n \in Nodes, n # Home, Dispose(n), NEW k \in Tree \ Tree'
    PROVE  \E m \in Up(k) \ Tree' : Unprotected(m)
  <1> DEFINE S == {n} \cup ReferencesTo(n)
  <1>1. CASE \E g \in Guards(n) \ Up(n) : parent' = [parent EXCEPT ![n] = g]
    <2>1. PICK g \in Guards(n) \ Up(n) : parent' = [parent EXCEPT ![n] = g]  BY <1>1
    <2>2. g \in Tree /\ n \notin Up(g)  BY GuardFacts
    <2>3. Tree' = Tree \cup {n}  BY <2>1, <2>2, MoveTree
    <2>4. QED  BY <2>3
  <1>2. CASE (Guards(n) = {} \/ Guards(n) \cap Up(n) # {}) /\ Remove(S)
    <2>1. S \in SUBSET Nodes /\ Home \notin S
      BY ReferenceFacts DEF Containers
    <2>2. Tree' = Tree \ Gone(S) /\ S \subseteq Gone(S)
      BY <1>2, <2>1, RemoveTree
    <2>3. PICK m \in S : m \in Up(k) \ Tree'
      BY <1>2, <2>1, LossBelow
    <2>4. CASE m = n
      <3>1. CASE Guards(n) = {}
        BY <2>3, <2>4, <3>1, NearestGuard DEF Unprotected
      <3>2. CASE Guards(n) \cap Up(n) # {}
        <4>1. Guards(n) \subseteq Trashes  BY DEF Guards
        <4>2. QED  BY <2>3, <2>4, <3>2, <4>1 DEF Unprotected
      <3>3. QED  BY <1>2, <3>1, <3>2
    <2>5. CASE m \in ReferencesTo(n)
      <3>1. PICK q \in S : m \in RefsTo(q)
        BY <2>5, ReferenceFacts
      <3>2. m \in References /\ ref[m] # NoNode /\ q \in Up(ref[m])
        BY <3>1 DEF RefsTo
      <3>3. ref[m] \in Nodes  BY <3>2 DEF ContentsInv, TypeOK
      <3>4. ref[m] \in Gone(S)  BY <3>1, <3>2, <3>3 DEF Gone
      <3>5. ref[m] \notin Tree'  BY <2>2, <3>4
      <3>6. QED  BY <2>3, <3>2, <3>5 DEF Unprotected
    <2>6. QED  BY <2>3, <2>4, <2>5
  <1>3. CASE UNCHANGED parent
    BY <1>3 DEF Tree, Up
  <1>4. QED  BY <1>1, <1>2, <1>3 DEF Dispose

(* An empty trash takes nothing with it. *)
LEMMA TrashSpares ==
    ASSUME ContentsInv, TypeOK', NEW n \in Trashes, ChildrenOf(n) = {}, Remove({n}),
           UNCHANGED roots, NEW k \in Tree \ Tree'
    PROVE  \E m \in Up(k) \ Tree' : Unprotected(m)
  <1>1. Tree' = Tree \ {n}  BY RemoveTrashKeeps
  <1>2. k = n /\ n \in Nodes  BY <1>1
  <1>3. n \in Up(n)  BY <1>2, UpFacts DEF ContentsInv
  <1>4. QED  BY <1>2, <1>3 DEF Unprotected

(* What a trash guards leaves the tree only by way of it: by no request,   *)
(* and by no round of the loop, whatever came before.                      *)
THEOREM GuardsProtect == Spec => GuardedContentsStay
  <1>1. ContentsInv /\ ContentsInv' /\ [Next]_vars =>
            [\A n \in Tree \ Tree' : \E m \in Up(n) \ Tree' : Unprotected(m)]_parent
    <2> SUFFICES ASSUME ContentsInv, TypeOK', Next, NEW k \in Tree \ Tree', parent' # parent
                 PROVE  \E m \in Up(k) \ Tree' : Unprotected(m)
      BY DEF ContentsInv, vars
    <2>1. ASSUME NEW n \in Nodes, Delete(n)
          PROVE  \E m \in Up(k) \ Tree' : Unprotected(m)
      <3>1. n # Home /\ UNCHANGED roots  BY <2>1 DEF Delete
      <3>2. \/ Dispose(n)
            \/ n \in Trashes /\ ChildrenOf(n) = {} /\ Remove({n})
        BY <2>1 DEF Delete
      <3>3. QED  BY <3>1, <3>2, DisposeSpares, TrashSpares
    <2>2. ASSUME NEW n \in Nodes, DeleteNext(n)
          PROVE  \E m \in Up(k) \ Tree' : Unprotected(m)
      <3>1. n # Home /\ UNCHANGED roots  BY <2>2 DEF DeleteNext, ContentsInv, TypeOK
      <3>2. \/ Dispose(n)
            \/ n \in Trashes /\ ChildrenOf(n) = {} /\ Remove({n})
        BY <2>2 DEF DeleteNext
      <3>3. QED  BY <3>1, <3>2, DisposeSpares, TrashSpares
    <2>3. ASSUME NEW p \in Nodes, NEW n \in Nodes, Append(p, n)  PROVE FALSE
      BY <2>3, AppendStep
    <2>4. ASSUME NEW r \in References, NEW c \in Nodes, NEW p \in Containers,
                 EditReference(p, r, c)
          PROVE  FALSE
      BY <2>4, EditReferenceStep
    <2>5. QED
      BY <2>1, <2>2, <2>3, <2>4 DEF Next, Choices, EmptyTrash, EditRoots
  <1>2. QED  BY Invariance, <1>1, PTL DEF Spec, GuardedContentsStay
=============================================================================
