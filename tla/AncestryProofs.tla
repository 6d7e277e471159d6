---------------------------- MODULE AncestryProofs ----------------------------
(***************************************************************************)
(* Facts about ancestors and descendants, for any set of nodes, and that   *)
(* the two definitions of module Ancestry agree.                           *)
(***************************************************************************)
EXTENDS Ancestry, TLAPS, FiniteSetTheorems

Typed(par) == par \in [Nodes -> Nodes \cup {NoNode}]

(***************************************************************************)
(* Descendants                                                             *)
(***************************************************************************)

(* A node is below itself. *)
LEMMA BelowItself ==
    ASSUME NEW par, NEW n \in Nodes
    PROVE  n \in Below(par, n)
  BY DEF Below

(* The children of what is below n are below n. *)
LEMMA BelowClosed ==
    ASSUME NEW par, NEW n \in Nodes, NEW k \in Nodes, par[k] \in Below(par, n)
    PROVE  k \in Below(par, n)
  BY DEF Below

(* Any closed set with n contains what is below n. *)
LEMMA BelowLeast ==
    ASSUME NEW par, NEW n \in Nodes, NEW S \in SUBSET Nodes,
           n \in S, \A k \in Nodes : par[k] \in S => k \in S
    PROVE  Below(par, n) \subseteq S
  BY DEF Below

(* Other than n itself, what is below n has its parent below n. *)
LEMMA BelowParent ==
    ASSUME NEW par, NEW n \in Nodes, NEW m \in Below(par, n), m # n
    PROVE  par[m] \in Below(par, n)
  <1> DEFINE B == Below(par, n)
             T == {n} \cup {k \in B : par[k] \in B}
  <1>1. B \subseteq Nodes  BY DEF Below
  <1>2. \A k \in Nodes : par[k] \in T => k \in T
    BY BelowItself, BelowClosed
  <1>3. n \in T /\ T \in SUBSET Nodes  BY <1>1
  <1> HIDE DEF T
  <1>4. B \subseteq T  BY <1>2, <1>3, BelowLeast
  <1>5. QED  BY <1>4 DEF T

(* A parent is not below its child. *)
LEMMA ParentAbove ==
    ASSUME NEW par, NoCycle(par), NEW c \in Nodes
    PROVE  par[c] \notin Below(par, c)
  <1> SUFFICES ASSUME par[c] \in Below(par, c)  PROVE FALSE
    OBVIOUS
  <1>1. \A m \in Below(par, c) : par[m] \in Below(par, c)
    BY BelowParent
  <1>2. c \in Below(par, c) /\ Below(par, c) \subseteq Nodes
    BY BelowItself DEF Below
  <1>3. QED  BY <1>1, <1>2 DEF NoCycle

(***************************************************************************)
(* Changes of parents that make no cycle                                   *)
(***************************************************************************)

(* To move nodes to a parent that is not below any of them. *)
LEMMA MoveNoCycle ==
    ASSUME NEW par, NoCycle(par), NEW p \in Nodes, NEW ns \in SUBSET Nodes,
           \A n \in ns : p \notin Below(par, n)
    PROVE  NoCycle([n \in Nodes |-> IF n \in ns THEN p ELSE par[n]])
  <1> DEFINE moved == [n \in Nodes |-> IF n \in ns THEN p ELSE par[n]]
  <1> SUFFICES ASSUME NEW S \in SUBSET Nodes, S # {}, \A n \in S : moved[n] \in S
               PROVE  FALSE
    BY DEF NoCycle
  <1>1. CASE S \cap ns = {}
    <2>1. \A n \in S : par[n] \in S  BY <1>1
    <2>2. QED  BY <2>1 DEF NoCycle
  <1>2. CASE S \cap ns # {}
    <2> DEFINE T == {k \in S : \A n \in ns : k \notin Below(par, n)}
    <2>1. p \in T  BY <1>2
    <2>2. \A k \in T : par[k] \in T
      <3> SUFFICES ASSUME NEW k \in T  PROVE par[k] \in T
        OBVIOUS
      <3>1. k \notin ns  BY BelowItself
      <3>2. par[k] \in S  BY <3>1
      <3>3. \A n \in ns : par[k] \notin Below(par, n)  BY BelowClosed
      <3>4. QED  BY <3>2, <3>3
    <2>3. T \in SUBSET Nodes  OBVIOUS
    <2>4. QED  BY <2>1, <2>2, <2>3 DEF NoCycle
  <1>3. QED  BY <1>1, <1>2

(* To take the parents of some nodes away. *)
LEMMA DetachNoCycle ==
    ASSUME NEW par, NoCycle(par), NEW T \in SUBSET Nodes
    PROVE  NoCycle([n \in Nodes |-> IF n \in T THEN NoNode ELSE par[n]])
  <1> DEFINE detached == [n \in Nodes |-> IF n \in T THEN NoNode ELSE par[n]]
  <1> SUFFICES ASSUME NEW S \in SUBSET Nodes, S # {}, \A n \in S : detached[n] \in S
               PROVE  FALSE
    BY DEF NoCycle
  <1>1. \A n \in S : n \notin T /\ par[n] \in S  BY NoNodeAssumption
  <1>2. QED  BY <1>1 DEF NoCycle

(***************************************************************************)
(* A tree with a root                                                      *)
(***************************************************************************)

(* The nodes with a parent hang together: a chain of them ends at top. *)
Chained(par, top) ==
    /\ par[top] = NoNode
    /\ \A n \in Nodes : par[n] # NoNode => par[n] = top \/ par[par[n]] # NoNode

Attached(par, top) == {n \in Nodes : n = top \/ par[n] # NoNode}

(* In a well-founded tree whose parents hang together, a node is below the *)
(* root exactly if it is the root or has a parent.                         *)
LEMMA RootedNodes ==
    ASSUME NEW top \in Nodes, NEW par, Typed(par), NoCycle(par), Chained(par, top)
    PROVE  Below(par, top) = Attached(par, top)
  <1> DEFINE B == Below(par, top)
  <1>1. B \subseteq Attached(par, top)
    <2>1. \A k \in Nodes : par[k] \in Attached(par, top) => k \in Attached(par, top)
      BY NoNodeAssumption DEF Attached, Typed
    <2>2. top \in Attached(par, top) /\ Attached(par, top) \in SUBSET Nodes
      BY DEF Attached
    <2>3. QED  BY <2>1, <2>2, BelowLeast
  <1>2. Attached(par, top) \subseteq B
    <2> DEFINE S == Attached(par, top) \ B
    <2>1. \A k \in S : par[k] \in S
      <3> SUFFICES ASSUME NEW k \in S  PROVE par[k] \in S
        OBVIOUS
      <3>1. k \in Nodes /\ k # top /\ par[k] # NoNode
        BY BelowItself DEF Attached
      <3>2. par[k] \in Nodes /\ par[k] \in Attached(par, top)
        BY <3>1 DEF Typed, Chained, Attached
      <3>3. par[k] \notin B  BY <3>1, BelowClosed
      <3>4. QED  BY <3>2, <3>3
    <2>2. S = {}
      BY <2>1 DEF NoCycle, Attached
    <2>3. QED  BY <2>2
  <1>3. QED  BY <1>1, <1>2

(* The parents after p.appendChild(n) for the nodes of ns. *)
Moved(par, p, ns) == [n \in Nodes |-> IF n \in ns THEN p ELSE par[n]]

LEMMA MoveKeepsTree ==
    ASSUME NEW top \in Nodes, NEW par, Typed(par), NoCycle(par), Chained(par, top),
           NEW p \in Attached(par, top), NEW ns \in SUBSET Nodes,
           \A n \in ns : p \notin Below(par, n)
    PROVE  /\ Typed(Moved(par, p, ns)) /\ NoCycle(Moved(par, p, ns))
           /\ Chained(Moved(par, p, ns), top)
           /\ Attached(Moved(par, p, ns), top) = Attached(par, top) \cup ns
           /\ top \notin ns
  <1> DEFINE moved == Moved(par, p, ns)
  <1>1. p \in Nodes /\ p \notin ns /\ p # NoNode
    BY BelowItself, NoNodeAssumption DEF Attached
  <1>2. p \in Below(par, top)
    BY RootedNodes
  <1>3. top \notin ns
    BY <1>2
  <1>4. Typed(moved)
    BY <1>1 DEF Typed, Moved
  <1>5. NoCycle(moved)
    BY <1>1, MoveNoCycle DEF Moved
  <1>6. Chained(moved, top)
    BY <1>1, <1>3 DEF Chained, Moved, Attached, Typed
  <1>7. Attached(moved, top) = Attached(par, top) \cup ns
    BY <1>1 DEF Attached, Moved
  <1>8. QED  BY <1>3, <1>4, <1>5, <1>6, <1>7

(* The parents after the nodes of T have lost theirs. *)
Detached(par, T) == [m \in Nodes |-> IF m \in T THEN NoNode ELSE par[m]]

LEMMA DetachKeepsTree ==
    ASSUME NEW top \in Nodes, NEW par, Typed(par), NoCycle(par), Chained(par, top),
           NEW T \in SUBSET Nodes, \A k \in Nodes : par[k] \in T => k \in T
    PROVE  /\ Typed(Detached(par, T)) /\ NoCycle(Detached(par, T))
           /\ Chained(Detached(par, T), top)
           /\ Attached(Detached(par, T), top) =
                  {n \in Attached(par, top) : n = top \/ n \notin T}
  <1>1. Typed(Detached(par, T))  BY DEF Typed, Detached
  <1>2. NoCycle(Detached(par, T))
    BY DetachNoCycle DEF Detached
  <1>3. Chained(Detached(par, T), top)
    BY NoNodeAssumption DEF Chained, Detached, Typed
  <1>4. Attached(Detached(par, T), top) = {n \in Attached(par, top) : n = top \/ n \notin T}
    BY DEF Attached, Detached
  <1>5. QED  BY <1>1, <1>2, <1>3, <1>4

(***************************************************************************)
(* Ancestors, one parent after the other                                   *)
(***************************************************************************)

(* A set of numbers with 0 and all successors has all natural numbers. *)
LEMMA SetInduction ==
    ASSUME NEW S, 0 \in S, \A k \in Nat : k \in S => k + 1 \in S
    PROVE  Nat \subseteq S
  <1> DEFINE T == Nat \ S
             Less == OpToRel(<, Nat)
  <1> SUFFICES ASSUME T # {}  PROVE FALSE
    OBVIOUS
  <1>1. IsWellFoundedOn(Less, Nat)  BY NatLessThanWellFounded
  <1>2. \A i, j \in Nat : <<i, j>> \in Less <=> i < j  BY DEF OpToRel
  <1>3. \E i \in T : \A j \in T : ~(<<j, i>> \in Less)
    <2>1. T \subseteq Nat  OBVIOUS
    <2> HIDE DEF T, Less
    <2>2. QED  BY <1>1, <2>1, WFMin, Zenon
  <1> HIDE DEF Less
  <1>4. PICK i \in T : \A j \in T : ~(j < i)
    BY <1>2, <1>3
  <1>5. i \in Nat /\ i # 0 /\ i - 1 \in Nat /\ (i - 1) + 1 = i /\ i - 1 < i
    BY <1>4
  <1>6. i - 1 \in S  BY <1>4, <1>5
  <1>7. QED  BY <1>5, <1>6

(* The recursion of Above, over K parents. *)
Level(par, k, up) ==
    [m \in Nodes \cup {NoNode} |->
        IF m = NoNode \/ k = 0 THEN {} ELSE {m} \cup up[k - 1][par[m]]]

IsClimb(par, K, up) == up = [k \in 0..K |-> Level(par, k, up)]

LEMMA ClimbExists ==
    ASSUME NEW par, NEW N \in Nat
    PROVE  \E up : IsClimb(par, N, up)
  <1> DEFINE S == {K \in Nat : \E up : IsClimb(par, K, up)}
  <1>1. 0 \in S
    <2> DEFINE none == [m \in Nodes \cup {NoNode} |-> {}]
    <2>1. IsClimb(par, 0, [k \in 0..0 |-> none])  BY DEF IsClimb, Level
    <2>2. QED  BY <2>1
  <1>2. ASSUME NEW K \in Nat, K \in S  PROVE K + 1 \in S
    <2>1. PICK up : IsClimb(par, K, up)  BY <1>2
    <2> DEFINE next == [k \in 0..(K + 1) |-> Level(par, k, up)]
    <2>2. \A k \in 0..K : up[k] = Level(par, k, up)
      BY <2>1 DEF IsClimb
    <2>3. \A k \in 0..(K + 1) : next[k] = Level(par, k, up)
      OBVIOUS
    <2>4. \A k \in 0..K : next[k] = up[k]
      <3> HIDE DEF next
      <3>1. \A k \in 0..K : k \in 0..(K + 1)  OBVIOUS
      <3>2. QED  BY <2>2, <2>3, <3>1
    <2>5. \A k \in 0..(K + 1) : next[k] = Level(par, k, next)
      <3> SUFFICES ASSUME NEW k \in 0..(K + 1)  PROVE Level(par, k, up) = Level(par, k, next)
        BY <2>3
      <3>1. CASE k = 0  BY <3>1 DEF Level
      <3>2. CASE k # 0
        <4>1. k - 1 \in 0..K  BY <3>2
        <4>2. next[k - 1] = up[k - 1]  BY <4>1, <2>4
        <4> HIDE DEF next
        <4>3. QED  BY <4>2 DEF Level
      <3>3. QED  BY <3>1, <3>2
    <2>6. next = [k \in 0..(K + 1) |-> Level(par, k, next)]
      <3>1. next = [k \in 0..(K + 1) |-> next[k]]  OBVIOUS
      <3> HIDE DEF next
      <3>2. QED  BY <3>1, <2>5
    <2>7. IsClimb(par, K + 1, next)
      <3> HIDE DEF next
      <3>1. QED  BY <2>6 DEF IsClimb
    <2>8. QED  BY <2>7
  <1> HIDE DEF S
  <1>3. Nat \subseteq S  BY <1>1, <1>2, SetInduction
  <1>4. QED  BY <1>3 DEF S

(* Above is the last level of such a climb. *)
LEMMA AboveIsClimb ==
    ASSUME NEW par, IsFiniteSet(Nodes)
    PROVE  \E up : /\ IsClimb(par, Cardinality(Nodes), up)
                   /\ \A n : Above(par, n) = up[Cardinality(Nodes)][n]
  <1> DEFINE N == Cardinality(Nodes)
             climb == CHOOSE up : IsClimb(par, N, up)
  <1>1. N \in Nat  BY FS_CardinalityType
  <1>2. IsClimb(par, N, climb)
    BY <1>1, ClimbExists
  <1>3. \A n : Above(par, n) = climb[N][n]
    BY DEF Above, IsClimb, Level
  <1>4. QED  BY <1>2, <1>3

(* A node with its parent, for all nodes of a set. *)
WithParents(par, S) == S \cup ({par[m] : m \in S} \ {NoNode})

(* What a level is made of. *)
LEMMA ClimbLevels ==
    ASSUME NEW par, Typed(par), NEW N \in Nat, NEW up, IsClimb(par, N, up)
    PROVE  /\ \A m \in Nodes \cup {NoNode} : up[0][m] = {}
           /\ \A k \in Nat : k <= N => up[k][NoNode] = {}
           /\ \A k \in Nat : k + 1 <= N =>
                 \A m \in Nodes : up[k + 1][m] = {m} \cup up[k][par[m]]
  <1>1. \A k \in 0..N : up[k] = Level(par, k, up)
    BY DEF IsClimb
  <1>2. ASSUME NEW k \in 0..N, NEW m \in Nodes \cup {NoNode}, m = NoNode \/ k = 0
        PROVE  up[k][m] = {}
    <2>1. Level(par, k, up)[m] = {}  BY <1>2 DEF Level
    <2>2. QED  BY <1>1, <2>1
  <1>3. ASSUME NEW k \in Nat, k + 1 <= N, NEW m \in Nodes
        PROVE  up[k + 1][m] = {m} \cup up[k][par[m]]
    <2>1. k + 1 \in 0..N /\ (k + 1) - 1 = k /\ k + 1 # 0  BY <1>3
    <2>2. Level(par, k + 1, up)[m] = {m} \cup up[k][par[m]]
      BY <2>1, NoNodeAssumption DEF Level
    <2>3. up[k + 1] = Level(par, k + 1, up)  BY <1>1, <2>1
    <2>4. QED  BY <2>2, <2>3
  <1>4. \A m \in Nodes \cup {NoNode} : up[0][m] = {}
    <2>1. 0 \in 0..N  OBVIOUS
    <2>2. QED  BY <1>2, <2>1
  <1>5. \A k \in Nat : k <= N => up[k][NoNode] = {}
    <2>1. \A k \in Nat : k <= N => k \in 0..N  OBVIOUS
    <2>2. QED  BY <1>2, <2>1
  <1>6. QED  BY <1>3, <1>4, <1>5

(* One more level adds the parents of what has been found. *)
LEMMA ClimbSteps ==
    ASSUME NEW par, Typed(par), NEW N \in Nat, NEW up, IsClimb(par, N, up)
    PROVE  \A k \in Nat : k + 2 <= N => \A m \in Nodes :
               /\ up[1][m] = {m}
               /\ up[k + 2][m] = WithParents(par, up[k + 1][m])
  <1> DEFINE M == Nodes \cup {NoNode}
  <1>1. \A m \in M : up[0][m] = {}
    BY ClimbLevels
  <1>2. \A k \in Nat : k <= N => up[k][NoNode] = {}
    BY ClimbLevels
  <1>3. \A k \in Nat : k + 1 <= N => \A m \in Nodes : up[k + 1][m] = {m} \cup up[k][par[m]]
    BY ClimbLevels
  <1>4. 1 <= N => \A m \in Nodes : up[1][m] = {m}
    <2> SUFFICES ASSUME 1 <= N, NEW m \in Nodes  PROVE up[1][m] = {m}
      OBVIOUS
    <2>1. up[0][par[m]] = {}  BY <1>1 DEF Typed
    <2>2. up[0 + 1][m] = {m} \cup up[0][par[m]]  BY <1>3
    <2>3. QED  BY <2>1, <2>2
  <1> DEFINE S == {k \in Nat : k + 2 <= N =>
                      \A m \in M : up[k + 2][m] = WithParents(par, up[k + 1][m])}
  <1>5. 0 \in S
    <2> SUFFICES ASSUME 2 <= N, NEW m \in M  PROVE up[2][m] = WithParents(par, up[1][m])
      OBVIOUS
    <2>1. CASE m = NoNode
      BY <2>1, <1>2 DEF WithParents
    <2>2. CASE m \in Nodes
      <3>1. up[1 + 1][m] = {m} \cup up[1][par[m]] /\ up[1][m] = {m}
        BY <2>2, <1>3, <1>4
      <3>2. up[1][par[m]] = IF par[m] = NoNode THEN {} ELSE {par[m]}
        <4>1. par[m] = NoNode \/ par[m] \in Nodes  BY <2>2 DEF Typed
        <4>2. up[1][NoNode] = {}  BY <1>2
        <4>3. \A j \in Nodes : up[1][j] = {j} /\ j # NoNode
          BY <1>4, NoNodeAssumption
        <4>4. CASE par[m] = NoNode  BY <4>2, <4>4
        <4>5. CASE par[m] \in Nodes  BY <4>3, <4>5
        <4>6. QED  BY <4>1, <4>4, <4>5
      <3>3. QED  BY <2>2, <3>1, <3>2, NoNodeAssumption DEF WithParents
    <2>3. QED  BY <2>1, <2>2
  <1>6. ASSUME NEW k \in Nat, k \in S  PROVE k + 1 \in S
    <2> SUFFICES ASSUME k + 3 <= N, NEW m \in M
                 PROVE  up[k + 3][m] = WithParents(par, up[k + 2][m])
      OBVIOUS
    <2>1. CASE m = NoNode
      BY <2>1, <1>2 DEF WithParents
    <2>2. CASE m \in Nodes
      <3>1. k + 1 \in Nat /\ k + 2 \in Nat /\ (k + 1) + 1 = k + 2 /\ (k + 2) + 1 = k + 3
        OBVIOUS
      <3>2. /\ up[k + 3][m] = {m} \cup up[k + 2][par[m]]
            /\ up[k + 2][m] = {m} \cup up[k + 1][par[m]]
        BY <2>2, <1>3, <3>1
      <3>3. par[m] \in M  BY <2>2 DEF Typed
      <3>4. up[k + 2][par[m]] = WithParents(par, up[k + 1][par[m]])
        BY <1>6, <3>3
      <3>5. par[m] # NoNode => par[m] \in up[k + 1][par[m]]
        BY <1>3, <3>3
      <3>6. QED  BY <2>2, <3>2, <3>4, <3>5, NoNodeAssumption DEF WithParents
    <2>3. QED  BY <2>1, <2>2
  <1> HIDE DEF S
  <1>7. Nat \subseteq S  BY <1>5, <1>6, SetInduction
  <1>8. QED  BY <1>4, <1>7 DEF S

(* What a climb has found is above, and with one parent after the other it *)
(* finds everything: in the end there is no node left to add.              *)
LEMMA AboveClosed ==
    ASSUME NEW par, Typed(par), NEW n \in Nodes, IsFiniteSet(Nodes)
    PROVE  /\ n \in Above(par, n) /\ Above(par, n) \subseteq Nodes
           /\ \A m \in Above(par, n) : par[m] # NoNode => par[m] \in Above(par, n)
           /\ \A T \in SUBSET Nodes :
                 n \in T /\ (\A m \in T : par[m] # NoNode => par[m] \in T)
                 => Above(par, n) \subseteq T
  <1> DEFINE N == Cardinality(Nodes)
             Closed(A) == \A m \in A : par[m] # NoNode => par[m] \in A
  <1>1. N \in Nat /\ N # 0
    BY FS_CardinalityType, FS_EmptySet
  <1>2. PICK up : IsClimb(par, N, up) /\ Above(par, n) = up[N][n]
    BY AboveIsClimb
  <1> DEFINE L(k) == up[k + 1][n]
  <1>3. L(0) = {n}
    <2>1. up[0][par[n]] = {}
      BY <1>1, <1>2, ClimbLevels DEF Typed
    <2>2. up[0 + 1][n] = {n} \cup up[0][par[n]]
      BY <1>1, <1>2, ClimbLevels
    <2>3. QED  BY <2>1, <2>2
  <1>4. \A k \in Nat : k + 1 < N => L(k + 1) = WithParents(par, L(k))
    BY <1>1, <1>2, ClimbSteps
  <1> HIDE DEF N, L
  <1>5. \A k \in Nat : k < N => n \in L(k) /\ L(k) \subseteq Nodes
    <2> DEFINE S == {k \in Nat : k < N => n \in L(k) /\ L(k) \subseteq Nodes}
    <2>1. 0 \in S  BY <1>3
    <2>2. ASSUME NEW k \in Nat, k \in S  PROVE k + 1 \in S
      <3> SUFFICES ASSUME k + 1 < N  PROVE n \in L(k + 1) /\ L(k + 1) \subseteq Nodes
        OBVIOUS
      <3>1. n \in L(k) /\ L(k) \subseteq Nodes  BY <2>2, <1>1
      <3>2. L(k + 1) = WithParents(par, L(k))  BY <1>4
      <3>3. QED  BY <3>1, <3>2, NoNodeAssumption DEF WithParents, Typed
    <2> HIDE DEF S
    <2>3. Nat \subseteq S  BY <2>1, <2>2, SetInduction
    <2>4. QED  BY <2>3 DEF S
  <1>6. \A k \in Nat : k < N => Closed(L(k)) \/ Cardinality(L(k)) > k
    <2> DEFINE S == {k \in Nat : k < N => Closed(L(k)) \/ Cardinality(L(k)) > k}
    <2>1. 0 \in S  BY <1>3, FS_Singleton
    <2>2. ASSUME NEW k \in Nat, k \in S  PROVE k + 1 \in S
      <3> SUFFICES ASSUME k + 1 < N
                   PROVE  Closed(L(k + 1)) \/ Cardinality(L(k + 1)) > k + 1
        OBVIOUS
      <3>1. k < N /\ L(k + 1) = WithParents(par, L(k)) /\ L(k) \subseteq Nodes
        BY <1>1, <1>4, <1>5
      <3>2. CASE Closed(L(k))
        <4>1. L(k) \subseteq L(k + 1)
          BY <3>1, NoNodeAssumption DEF WithParents
        <4>2. L(k + 1) \subseteq L(k)
          BY <3>1, <3>2 DEF WithParents
        <4>3. L(k + 1) = L(k)  BY <4>1, <4>2
        <4>4. QED  BY <4>3, <3>2
      <3>3. CASE ~Closed(L(k))
        <4>1. Cardinality(L(k)) > k  BY <2>2, <3>1, <3>3
        <4>2. L(k) \subseteq L(k + 1)
          BY <3>1, NoNodeAssumption DEF WithParents
        <4>3. \E m \in L(k) : par[m] # NoNode /\ par[m] \notin L(k)
          BY <3>3
        <4>4. L(k) # L(k + 1)
          BY <3>1, <4>3 DEF WithParents
        <4>5. IsFiniteSet(L(k + 1))
          BY <1>5, FS_Subset
        <4>6. /\ Cardinality(L(k)) <= Cardinality(L(k + 1))
              /\ Cardinality(L(k)) # Cardinality(L(k + 1))
              /\ IsFiniteSet(L(k))
          BY <4>2, <4>4, <4>5, FS_Subset
        <4>7. Cardinality(L(k)) \in Nat /\ Cardinality(L(k + 1)) \in Nat
          BY <4>5, <4>6, FS_CardinalityType
        <4>8. QED  BY <4>1, <4>6, <4>7
      <3>4. QED  BY <3>2, <3>3
    <2> HIDE DEF S
    <2>3. Nat \subseteq S  BY <2>1, <2>2, SetInduction
    <2>4. QED  BY <2>3 DEF S
  <1>7. Above(par, n) = L(N - 1) /\ N - 1 \in Nat /\ N - 1 < N
    BY <1>1, <1>2 DEF L
  <1>8. n \in L(N - 1) /\ L(N - 1) \subseteq Nodes
    BY <1>5, <1>7
  <1>9. Closed(L(N - 1))
    <2>1. CASE Cardinality(L(N - 1)) > N - 1
      <3>1. Cardinality(L(N - 1)) <= N /\ (N = Cardinality(L(N - 1)) => L(N - 1) = Nodes)
        BY <1>8, FS_Subset DEF N
      <3>2. Cardinality(L(N - 1)) \in Nat
        BY <1>8, FS_Subset, FS_CardinalityType
      <3>3. L(N - 1) = Nodes  BY <1>1, <2>1, <3>1, <3>2
      <3>4. QED  BY <3>3 DEF Typed
    <2>2. QED  BY <1>6, <1>7, <2>1
  <1>10. ASSUME NEW T \in SUBSET Nodes, n \in T, Closed(T)  PROVE L(N - 1) \subseteq T
    <2> DEFINE S == {k \in Nat : k < N => L(k) \subseteq T}
    <2>1. 0 \in S  BY <1>3, <1>10
    <2>2. ASSUME NEW k \in Nat, k \in S  PROVE k + 1 \in S
      <3> SUFFICES ASSUME k + 1 < N  PROVE L(k + 1) \subseteq T
        OBVIOUS
      <3>1. L(k) \subseteq T /\ L(k + 1) = WithParents(par, L(k))
        BY <2>2, <1>1, <1>4
      <3>2. QED  BY <3>1, <1>10 DEF WithParents
    <2> HIDE DEF S
    <2>3. Nat \subseteq S  BY <2>1, <2>2, SetInduction
    <2>4. QED  BY <2>3, <1>7 DEF S
  <1>11. QED  BY <1>7, <1>8, <1>9, <1>10

(* Both definitions agree, whatever the parents are: m is above n exactly  *)
(* if n is below m.                                                        *)
THEOREM AboveIsBelow ==
    ASSUME NEW par, Typed(par), NEW n \in Nodes, NEW m \in Nodes, IsFiniteSet(Nodes)
    PROVE  m \in Above(par, n) <=> n \in Below(par, m)
  <1>1. ASSUME m \in Above(par, n)  PROVE n \in Below(par, m)
    <2> DEFINE T == {k \in Nodes : n \in Below(par, k)}
    <2>1. n \in T  BY BelowItself
    <2>2. \A k \in T : par[k] # NoNode => par[k] \in T
      <3> SUFFICES ASSUME NEW k \in T, par[k] # NoNode  PROVE par[k] \in T
        OBVIOUS
      <3>1. par[k] \in Nodes  BY DEF Typed
      <3>2. k \in Below(par, par[k])  BY <3>1, BelowItself, BelowClosed
      <3>3. \A j \in Nodes : par[j] \in Below(par, par[k]) => j \in Below(par, par[k])
        BY <3>1, BelowClosed
      <3>4. Below(par, par[k]) \in SUBSET Nodes  BY DEF Below
      <3>5. Below(par, k) \subseteq Below(par, par[k])
        BY <3>2, <3>3, <3>4, BelowLeast
      <3>6. QED  BY <3>1, <3>5
    <2>3. Above(par, n) \subseteq T
      BY <2>1, <2>2, AboveClosed
    <2>4. QED  BY <2>3, <1>1
  <1>2. ASSUME n \in Below(par, m)  PROVE m \in Above(par, n)
    <2> SUFFICES ASSUME m \notin Above(par, n)  PROVE FALSE
      OBVIOUS
    <2> DEFINE T == Nodes \ Above(par, n)
    <2>1. \A k \in Nodes : par[k] \in T => k \in T
      BY AboveClosed, NoNodeAssumption
    <2>2. m \in T  OBVIOUS
    <2> HIDE DEF T
    <2>3. Below(par, m) \subseteq T
      BY <2>1, <2>2, BelowLeast DEF T
    <2>4. n \in T  BY <2>3, <1>2
    <2>5. QED  BY <2>4, AboveClosed DEF T
  <1>3. QED  BY <1>1, <1>2
=============================================================================
