----------------------------- MODULE PathsProofs -----------------------------
(***************************************************************************)
(* Proofs about Paths, for any nodes, ids, visitors and queries, any tree  *)
(* at the start and any bound on the writes.                               *)
(*                                                                         *)
(* A preview hangs its copy into the tree and takes it out again, so that  *)
(* the walk of a visitor is compared with a walk that ignores the copies,  *)
(* the real walk: previews do not change it.                               *)
(***************************************************************************)
EXTENDS Paths, TLAPS, FiniteSetTheorems, SequenceTheorems

(* A set of numbers that is not empty has a first one. *)
LEMMA FirstExists ==
    ASSUME NEW T, T \subseteq Nat, T # {}
    PROVE  \E i \in T : \A j \in T : i <= j
  <1> DEFINE Less == OpToRel(<, Nat)
  <1>1. IsWellFoundedOn(Less, Nat)  BY NatLessThanWellFounded
  <1>2. \A i, j \in Nat : <<i, j>> \in Less <=> i < j  BY DEF OpToRel
  <1> HIDE DEF Less
  <1>3. PICK i \in T : \A j \in T : ~(<<j, i>> \in Less)
    BY <1>1, WFMin, Zenon
  <1>4. \A j \in T : ~(j < i)
    BY <1>2, <1>3
  <1>5. \A j \in T : i <= j
    BY <1>4
  <1>6. QED  BY <1>5

(* A set of numbers with 0 and all successors has all natural numbers. *)
LEMMA Induction ==
    ASSUME NEW S, 0 \in S, \A k \in Nat : k \in S => k + 1 \in S
    PROVE  Nat \subseteq S
  <1> SUFFICES ASSUME Nat \ S # {}  PROVE FALSE
    OBVIOUS
  <1>1. PICK i \in Nat \ S : \A j \in Nat \ S : i <= j
    BY FirstExists
  <1>2. i # 0 /\ i - 1 \in Nat /\ (i - 1) + 1 = i /\ ~(i <= i - 1)
    BY <1>1
  <1>3. i - 1 \in S
    BY <1>1, <1>2
  <1>4. QED  BY <1>1, <1>2, <1>3

(***************************************************************************)
(* Arrays of children                                                      *)
(***************************************************************************)

(* k is the first index of s whose element is in S. *)
FirstIn(s, S, k) == k \in 1..Len(s) /\ s[k] \in S /\ \A j \in 1..k - 1 : s[j] \notin S

(* t is s without its element at i. *)
Shifted(s, t, i) ==
    /\ Len(t) = Len(s) - 1
    /\ \A j \in 1..Len(t) : t[j] = IF j < i THEN s[j] ELSE s[j + 1]

(* RemoveFirst takes one element out, if there is one to take out. *)
LEMMA RemoveFirstShifts ==
    ASSUME NEW s \in Seq(Nodes), NEW e
    PROVE  /\ RemoveFirst(s, e) \in Seq(Nodes)
           /\ \/ RemoveFirst(s, e) = s /\ \A j \in 1..Len(s) : s[j] # e
              \/ \E i \in 1..Len(s) : s[i] = e /\ Shifted(s, RemoveFirst(s, e), i)
  <1>1. CASE ~ \E i \in 1..Len(s) : s[i] = e
    BY <1>1 DEF RemoveFirst
  <1>2. CASE \E i \in 1..Len(s) : s[i] = e
    <2> DEFINE I == {i \in 1..Len(s) : s[i] = e}
    <2> DEFINE i == Min(I)
    <2>1. I \subseteq Nat /\ I # {}
      BY <1>2
    <2>2. i \in I
      BY <2>1, FirstExists DEF Min
    <2>3. SelectInSeq(s, LAMBDA v : v = e) = i
      BY <2>1 DEF SelectInSeq
    <2>4. RemoveFirst(s, e) = SubSeq(s, 1, i - 1) \o SubSeq(s, i + 1, Len(s))
      BY <1>2, <2>3 DEF RemoveFirst, RemoveAt
    <2>5. i \in 1..Len(s) /\ s[i] = e
      BY <2>2
    <2> HIDE DEF I, i
    <2>6. RemoveFirst(s, e) \in Seq(Nodes)
      BY <2>4, <2>5
    <2>7. Shifted(s, RemoveFirst(s, e), i)
      <3> DEFINE a == SubSeq(s, 1, i - 1)
                 b == SubSeq(s, i + 1, Len(s))
      <3>1. a \in Seq(Nodes) /\ Len(a) = i - 1 /\ \A j \in 1..i - 1 : a[j] = s[j]
        BY <2>5
      <3>2. /\ b \in Seq(Nodes) /\ Len(b) = Len(s) - i
            /\ \A j \in 1..Len(s) - i : b[j] = s[i + j]
        BY <2>5
      <3> HIDE DEF a, b
      <3>3. /\ Len(a \o b) = Len(a) + Len(b)
            /\ \A j \in 1..Len(a) + Len(b) :
                  (a \o b)[j] = IF j <= Len(a) THEN a[j] ELSE b[j - Len(a)]
        BY <3>1, <3>2, ConcatProperties
      <3>4. ASSUME NEW j \in 1..Len(a \o b)
            PROVE  (a \o b)[j] = IF j < i THEN s[j] ELSE s[j + 1]
        <4>1. CASE j < i
          BY <4>1, <2>5, <3>1, <3>2, <3>3
        <4>2. CASE i <= j
          <5>1. j - Len(a) \in 1..Len(s) - i /\ i + (j - Len(a)) = j + 1
            BY <4>2, <2>5, <3>1, <3>2, <3>3
          <5>2. QED  BY <4>2, <2>5, <3>1, <3>2, <3>3, <5>1
        <4>3. QED  BY <4>1, <4>2, <2>5, <3>1, <3>2, <3>3
      <3>5. RemoveFirst(s, e) = a \o b
        BY <2>4 DEF a, b
      <3>6. Len(a \o b) = Len(s) - 1
        BY <2>5, <3>1, <3>2, <3>3
      <3>7. QED  BY <3>4, <3>5, <3>6 DEF Shifted
    <2>8. QED  BY <2>5, <2>6, <2>7
  <1>3. QED  BY <1>1, <1>2

(* The first element of s that is in S. *)
FirstOf(s, S) ==
    IF \E k \in 1..Len(s) : FirstIn(s, S, k)
    THEN s[CHOOSE k \in 1..Len(s) : FirstIn(s, S, k)] ELSE NoNode

(* If an element is in S, there is a first one. *)
LEMMA FirstInExists ==
    ASSUME NEW s \in Seq(Nodes), NEW S, NEW j \in 1..Len(s), s[j] \in S
    PROVE  \E k \in 1..Len(s) : FirstIn(s, S, k)
  <1> DEFINE T == {k \in 1..Len(s) : s[k] \in S}
  <1>1. PICK k \in T : \A m \in T : k <= m
    <2>1. T \subseteq Nat /\ T # {}  OBVIOUS
    <2> HIDE DEF T
    <2>2. QED  BY <2>1, FirstExists
  <1>2. FirstIn(s, S, k)  BY <1>1 DEF FirstIn
  <1>3. QED  BY <1>1, <1>2

(* FirstOf returns it, *)
LEMMA FirstOfIs ==
    ASSUME NEW s \in Seq(Nodes), NEW S, NEW k, FirstIn(s, S, k)
    PROVE  FirstOf(s, S) = s[k]
  <1> DEFINE c == CHOOSE m \in 1..Len(s) : FirstIn(s, S, m)
  <1>1. c \in 1..Len(s) /\ FirstIn(s, S, c)
    BY DEF FirstIn
  <1>2. FirstOf(s, S) = s[c]
    BY DEF FirstOf, FirstIn
  <1> HIDE DEF c
  <1>3. c = k  BY <1>1 DEF FirstIn
  <1>4. QED  BY <1>2, <1>3

(* or none if no element is in S. *)
LEMMA FirstOfTyping ==
    ASSUME NEW s \in Seq(Nodes), NEW S
    PROVE  \/ FirstOf(s, S) = NoNode /\ \A k \in 1..Len(s) : s[k] \notin S
           \/ \E k \in 1..Len(s) : FirstIn(s, S, k) /\ FirstOf(s, S) = s[k]
  <1>1. CASE \E k \in 1..Len(s) : FirstIn(s, S, k)
    BY <1>1, FirstOfIs
  <1>2. CASE ~ \E k \in 1..Len(s) : FirstIn(s, S, k)
    BY <1>2, FirstInExists DEF FirstOf
  <1>3. QED  BY <1>1, <1>2

(* To append what is not in S does not change the first one, *)
LEMMA FirstOfAppend ==
    ASSUME NEW s \in Seq(Nodes), NEW e \in Nodes, NEW S, e \notin S
    PROVE  FirstOf(Append(s, e), S) = FirstOf(s, S)
  <1> DEFINE t == Append(s, e)
  <1>1. t \in Seq(Nodes) /\ Len(t) = Len(s) + 1 /\ t[Len(t)] = e
        /\ \A k \in 1..Len(s) : t[k] = s[k]
    OBVIOUS
  <1> HIDE DEF t
  <1>2. CASE \A k \in 1..Len(s) : s[k] \notin S
    <2>1. \A k \in 1..Len(t) : t[k] \notin S  BY <1>1, <1>2
    <2>2. QED  BY <1>1, <1>2, <2>1, FirstOfTyping DEF FirstIn, t
  <1>3. ASSUME NEW k \in 1..Len(s), FirstIn(s, S, k), FirstOf(s, S) = s[k]
        PROVE  FirstOf(t, S) = FirstOf(s, S)
    <2>1. FirstIn(t, S, k)  BY <1>1, <1>3 DEF FirstIn
    <2>2. QED  BY <1>1, <1>3, <2>1, FirstOfIs
  <1>4. QED  BY <1>2, <1>3, FirstOfTyping DEF t

(* nor does it to remove something that is not in S. *)
LEMMA FirstOfRemove ==
    ASSUME NEW s \in Seq(Nodes), NEW e, NEW S, e \notin S
    PROVE  FirstOf(RemoveFirst(s, e), S) = FirstOf(s, S)
  <1> DEFINE t == RemoveFirst(s, e)
  <1>1. t \in Seq(Nodes)  BY RemoveFirstShifts
  <1>2. CASE t = s  BY <1>2
  <1>3. ASSUME NEW i \in 1..Len(s), s[i] = e, Shifted(s, t, i)
        PROVE  FirstOf(t, S) = FirstOf(s, S)
    <2> HIDE DEF t
    <2>1. CASE \A k \in 1..Len(s) : s[k] \notin S
      <3>1. \A k \in 1..Len(t) : t[k] \notin S  BY <1>1, <1>3, <2>1 DEF Shifted
      <3>2. QED  BY <1>1, <2>1, <3>1, FirstOfTyping DEF FirstIn
    <2>2. ASSUME NEW k \in 1..Len(s), FirstIn(s, S, k), FirstOf(s, S) = s[k]
          PROVE  FirstOf(t, S) = FirstOf(s, S)
      <3>1. k # i  BY <1>3, <2>2 DEF FirstIn
      <3>2. CASE k < i
        <4>1. FirstIn(t, S, k) /\ t[k] = s[k]
          BY <1>1, <1>3, <2>2, <3>2 DEF FirstIn, Shifted
        <4>2. QED  BY <1>1, <2>2, <4>1, FirstOfIs
      <3>3. CASE i < k
        <4>1. k - 1 \in 1..Len(t) /\ t[k - 1] = s[k]
          BY <1>1, <1>3, <3>3 DEF Shifted
        <4>2. ASSUME NEW j \in 1..k - 2  PROVE t[j] \notin S
          BY <1>1, <1>3, <2>2, <3>3, <4>1 DEF FirstIn, Shifted
        <4>3. FirstIn(t, S, k - 1)
          BY <2>2, <4>1, <4>2 DEF FirstIn
        <4>4. QED  BY <1>1, <2>2, <4>1, <4>3, FirstOfIs
      <3>4. QED  BY <3>1, <3>2, <3>3
    <2>3. QED  BY <2>1, <2>2, FirstOfTyping
  <1>4. QED  BY <1>2, <1>3, RemoveFirstShifts

(* The first in a larger set is the same, or in the larger set only. *)
LEMMA FirstOfLarger ==
    ASSUME NEW s \in Seq(Nodes), NEW S, NEW T, S \subseteq T, NoNode \notin T
    PROVE  FirstOf(s, T) \in (T \ S) \cup {FirstOf(s, S)}
  <1>1. CASE \A k \in 1..Len(s) : s[k] \notin T
    BY <1>1, FirstOfTyping DEF FirstIn
  <1>2. ASSUME NEW k \in 1..Len(s), FirstIn(s, T, k), FirstOf(s, T) = s[k]
        PROVE  FirstOf(s, T) \in (T \ S) \cup {FirstOf(s, S)}
    <2>1. CASE s[k] \notin S  BY <1>2, <2>1 DEF FirstIn
    <2>2. CASE s[k] \in S
      <3>1. FirstIn(s, S, k)  BY <1>2, <2>2 DEF FirstIn
      <3>2. QED  BY <1>2, <3>1, FirstOfIs
    <2>3. QED  BY <2>1, <2>2
  <1>3. QED  BY <1>1, <1>2, FirstOfTyping

(***************************************************************************)
(* Walks                                                                   *)
(***************************************************************************)

Places == Nodes \cup {NoNode}
Steps == [Nodes -> [Ids -> Places]]

(* w[k] is where the first k ids of p lead by f. *)
WalkFrom(f, p, w, k) ==
    IF k = 0 THEN Home ELSE IF w[k - 1] = NoNode THEN NoNode ELSE f[w[k - 1]][p[k]]
IsWalk(f, p, K, w) == w = [k \in 0..K |-> WalkFrom(f, p, w, k)]

(* The walk of p by f. *)
WalkOf(f, p) == CHOOSE w : IsWalk(f, p, Len(p), w)

(* The recursion has a solution, which is built id by id. *)
LEMMA WalkExists ==
    ASSUME NEW f \in Steps, NEW p \in Seq(Ids)
    PROVE  IsWalk(f, p, Len(p), WalkOf(f, p))
  <1> DEFINE S == {K \in Nat : \E w : IsWalk(f, p, K, w)}
  <1>1. 0 \in S
    <2>1. IsWalk(f, p, 0, [k \in 0..0 |-> Home])  BY DEF IsWalk, WalkFrom
    <2>2. QED  BY <2>1
  <1>2. ASSUME NEW K \in Nat, K \in S  PROVE K + 1 \in S
    <2>1. PICK w : IsWalk(f, p, K, w)  BY <1>2
    <2> DEFINE next == [k \in 0..(K + 1) |-> WalkFrom(f, p, w, k)]
    <2>2. \A k \in 0..K : w[k] = WalkFrom(f, p, w, k)
      BY <2>1 DEF IsWalk
    <2>3. \A k \in 0..(K + 1) : next[k] = WalkFrom(f, p, w, k)
      OBVIOUS
    <2>4. next = [k \in 0..(K + 1) |-> next[k]]
      OBVIOUS
    <2> HIDE DEF next
    <2>5. \A k \in 0..K : next[k] = w[k]
      <3>1. \A k \in 0..K : k \in 0..(K + 1)  OBVIOUS
      <3>2. QED  BY <2>2, <2>3, <3>1
    <2>6. ASSUME NEW k \in 0..(K + 1)  PROVE next[k] = WalkFrom(f, p, next, k)
      <3>1. CASE k = 0  BY <2>3, <3>1 DEF WalkFrom
      <3>2. CASE k # 0
        <4>1. k - 1 \in 0..K  BY <3>2
        <4>2. next[k - 1] = w[k - 1]  BY <4>1, <2>5
        <4>3. QED  BY <2>3, <4>2 DEF WalkFrom
      <3>3. QED  BY <3>1, <3>2
    <2>7. IsWalk(f, p, K + 1, next)
      BY <2>4, <2>6 DEF IsWalk
    <2>8. QED  BY <2>7
  <1> HIDE DEF S
  <1>3. Nat \subseteq S  BY <1>1, <1>2, Induction
  <1>4. Len(p) \in S  BY <1>3
  <1>5. \E w : IsWalk(f, p, Len(p), w)  BY <1>4 DEF S
  <1>6. QED  BY <1>5 DEF WalkOf

(* What the walk is, step by step. *)
LEMMA WalkSteps ==
    ASSUME NEW f \in Steps, NEW p \in Seq(Ids)
    PROVE  /\ WalkOf(f, p)[0] = Home
           /\ \A k \in 0..Len(p) - 1 :
                 WalkOf(f, p)[k + 1] = IF WalkOf(f, p)[k] = NoNode THEN NoNode
                                       ELSE f[WalkOf(f, p)[k]][p[k + 1]]
  <1> DEFINE w == WalkOf(f, p)
  <1>1. IsWalk(f, p, Len(p), w)  BY WalkExists
  <1> HIDE DEF w
  <1>2. ASSUME NEW k \in 0..Len(p)  PROVE w[k] = WalkFrom(f, p, w, k)
    BY <1>1 DEF IsWalk
  <1>3. w[0] = Home  BY <1>2 DEF WalkFrom
  <1>4. ASSUME NEW k \in 0..Len(p) - 1
        PROVE  w[k + 1] = IF w[k] = NoNode THEN NoNode ELSE f[w[k]][p[k + 1]]
    <2>1. k + 1 \in 0..Len(p) /\ k + 1 # 0 /\ (k + 1) - 1 = k  OBVIOUS
    <2>2. QED  BY <1>2, <2>1 DEF WalkFrom
  <1>5. QED  BY <1>3, <1>4 DEF w

(* It leads to nodes, or to none. *)
LEMMA WalkTyping ==
    ASSUME NEW f \in Steps, NEW p \in Seq(Ids)
    PROVE  \A k \in 0..Len(p) : WalkOf(f, p)[k] \in Places
  <1> DEFINE w == WalkOf(f, p)
             S == {k \in Nat : k <= Len(p) => w[k] \in Places}
  <1>1. 0 \in S  BY WalkSteps, HomeAssumption DEF Places
  <1>2. ASSUME NEW k \in Nat, k \in S  PROVE k + 1 \in S
    <2> SUFFICES ASSUME k + 1 <= Len(p)  PROVE w[k + 1] \in Places
      OBVIOUS
    <2>1. k \in 0..Len(p) - 1 /\ w[k] \in Places  BY <1>2
    <2>2. k + 1 \in 1..Len(p)  BY <2>1
    <2>3. p[k + 1] \in Ids  BY <2>2
    <2>4. w[k + 1] = IF w[k] = NoNode THEN NoNode ELSE f[w[k]][p[k + 1]]
      BY <2>1, WalkSteps
    <2> HIDE DEF w
    <2>5. QED  BY <2>1, <2>3, <2>4 DEF Steps, Places
  <1> HIDE DEF S
  <1>3. Nat \subseteq S  BY <1>1, <1>2, Induction
  <1>4. QED  BY <1>3 DEF S

(* Once lost, a walk stays lost. *)
LEMMA LostStaysLost ==
    ASSUME NEW f \in Steps, NEW p \in Seq(Ids), NEW j \in 0..Len(p),
           WalkOf(f, p)[j] = NoNode
    PROVE  WalkOf(f, p)[Len(p)] = NoNode
  <1> DEFINE w == WalkOf(f, p)
             S == {k \in Nat : j + k <= Len(p) => w[j + k] = NoNode}
  <1>1. 0 \in S  OBVIOUS
  <1>2. ASSUME NEW k \in Nat, k \in S  PROVE k + 1 \in S
    <2> SUFFICES ASSUME j + (k + 1) <= Len(p)  PROVE w[j + (k + 1)] = NoNode
      OBVIOUS
    <2>1. j + k \in 0..Len(p) - 1 /\ w[j + k] = NoNode /\ j + (k + 1) = (j + k) + 1
      BY <1>2
    <2>2. QED  BY <2>1, WalkSteps
  <1> HIDE DEF S
  <1>3. Nat \subseteq S  BY <1>1, <1>2, Induction
  <1>4. Len(p) - j \in S /\ j + (Len(p) - j) = Len(p)  BY <1>3
  <1>5. QED  BY <1>4 DEF S

(***************************************************************************)
(* The walk by all children, and the one that ignores the copies           *)
(***************************************************************************)

WithId(i) == {m \in Nodes : id[m] = i}
Real(i) == WithId(i) \ Copies

childOf == [n \in Nodes |-> [i \in Ids |-> Child(n, i)]]
realChild == [n \in Nodes |-> [i \in Ids |-> FirstOf(children[n], Real(i))]]

RealWalk(p) == WalkOf(realChild, p)
RealAt(p) == RealWalk(p)[Len(p)]

(* Child is the first element with the id. *)
LEMMA ChildIsFirst ==
    ASSUME TypeOK, NEW n \in Nodes, NEW i \in Ids
    PROVE  Child(n, i) = FirstOf(children[n], WithId(i))
  <1> DEFINE s == children[n]
             hits == {k \in 1..Len(s) : id[s[k]] = i}
             c == CHOOSE k \in hits : \A m \in hits : k <= m
  <1>1. s \in Seq(Nodes)  BY DEF TypeOK
  <1>2. Child(n, i) = IF hits = {} THEN NoNode ELSE s[c]
    BY DEF Child
  <1>3. \A k \in 1..Len(s) : k \in hits <=> s[k] \in WithId(i)
    BY <1>1 DEF WithId
  <1>4. hits \subseteq 1..Len(s) /\ hits \subseteq Nat
    OBVIOUS
  <1> HIDE DEF hits, s
  <1>5. CASE hits = {}
    <2>1. FirstOf(s, WithId(i)) = NoNode
      BY <1>1, <1>3, <1>5, FirstOfTyping DEF FirstIn
    <2>2. QED  BY <1>2, <1>5, <2>1 DEF s
  <1>6. CASE hits # {}
    <2>1. c \in hits /\ \A m \in hits : c <= m
      BY <1>4, <1>6, FirstExists
    <2> HIDE DEF c
    <2>2. FirstIn(s, WithId(i), c)
      BY <1>1, <1>3, <1>4, <2>1 DEF FirstIn
    <2>3. QED  BY <1>1, <1>2, <1>6, <2>2, FirstOfIs DEF s
  <1>7. QED  BY <1>5, <1>6

(* A child is a node, or none; and it is the real one, or a copy. *)
LEMMA ChildTyping ==
    ASSUME TypeOK, NEW n \in Nodes, NEW i \in Ids
    PROVE  /\ Child(n, i) \in Places
           /\ realChild[n][i] \in Places
           /\ Child(n, i) \in Copies \cup {realChild[n][i]}
  <1>1. children[n] \in Seq(Nodes)  BY DEF TypeOK
  <1>2. \A T : FirstOf(children[n], T) \in Places
    <2> SUFFICES ASSUME NEW T  PROVE FirstOf(children[n], T) \in Places
      OBVIOUS
    <2>1. QED  BY <1>1, FirstOfTyping DEF Places
  <1>3. Real(i) \subseteq WithId(i) /\ NoNode \notin WithId(i)
    BY HomeAssumption DEF Real, WithId
  <1>4. FirstOf(children[n], WithId(i)) \in (WithId(i) \ Real(i)) \cup {FirstOf(children[n], Real(i))}
    BY <1>1, <1>3, FirstOfLarger
  <1>5. WithId(i) \ Real(i) \subseteq Copies
    BY DEF Real
  <1>6. realChild[n][i] = FirstOf(children[n], Real(i))
    BY DEF realChild
  <1>7. QED  BY <1>2, <1>4, <1>5, <1>6, ChildIsFirst

(* Both kinds of steps lead from nodes and ids to nodes, or to none. *)
LEMMA StepsTyping == TypeOK => childOf \in Steps /\ realChild \in Steps
  <1> SUFFICES ASSUME TypeOK  PROVE childOf \in Steps /\ realChild \in Steps
    OBVIOUS
  <1>1. childOf \in Steps
    BY ChildTyping DEF childOf, Steps
  <1>2. ASSUME NEW n \in Nodes, NEW i \in Ids
        PROVE  FirstOf(children[n], Real(i)) \in Places
    BY ChildTyping DEF realChild
  <1>3. realChild \in Steps
    BY <1>2 DEF realChild, Steps
  <1>4. QED  BY <1>1, <1>3

(* NodeAt is the end of the walk by all children. *)
LEMMA NodeAtIsWalk ==
    ASSUME TypeOK, NEW p \in Seq(Ids)
    PROVE  NodeAt(p) = WalkOf(childOf, p)[Len(p)]
  <1> DEFINE w == WalkOf(childOf, p)
             Rec(v) == v = [k \in 0..Len(p) |->
                               IF k = 0 THEN Home
                               ELSE IF v[k - 1] = NoNode THEN NoNode ELSE Child(v[k - 1], p[k])]
             v == CHOOSE v : Rec(v)
  <1>1. NodeAt(p) = v[Len(p)]
    BY DEF NodeAt
  <1>2. childOf \in Steps  BY StepsTyping
  <1>3. \A k \in 0..Len(p) : w[k] \in Places
    BY <1>2, WalkTyping
  <1>4. ASSUME NEW n \in Nodes, NEW k \in 1..Len(p)  PROVE childOf[n][p[k]] = Child(n, p[k])
    BY DEF childOf
  <1>5. w = [k \in 0..Len(p) |-> WalkFrom(childOf, p, w, k)]
    BY <1>2, WalkExists DEF IsWalk
  <1> HIDE DEF w
  <1>6. ASSUME NEW k \in 0..Len(p)
        PROVE  WalkFrom(childOf, p, w, k) =
                  IF k = 0 THEN Home
                  ELSE IF w[k - 1] = NoNode THEN NoNode ELSE Child(w[k - 1], p[k])
    <2>1. CASE k = 0  BY <2>1 DEF WalkFrom
    <2>2. CASE k # 0
      <3>1. k \in 1..Len(p) /\ k - 1 \in 0..Len(p)  BY <2>2
      <3>2. w[k - 1] # NoNode => w[k - 1] \in Nodes  BY <1>3, <3>1 DEF Places
      <3>3. QED  BY <1>4, <2>2, <3>1, <3>2 DEF WalkFrom
    <2>3. QED  BY <2>1, <2>2
  <1>7. Rec(w)
    BY <1>5, <1>6
  <1>8. Rec(v)
    <2> HIDE DEF Rec
    <2>1. QED  BY <1>7
  <1> HIDE DEF v
  <1> DEFINE S == {k \in Nat : k <= Len(p) => v[k] = w[k]}
  <1>9. \A k \in 0..Len(p) : v[k] = IF k = 0 THEN Home
                  ELSE IF v[k - 1] = NoNode THEN NoNode ELSE Child(v[k - 1], p[k])
    BY <1>8
  <1>10. \A k \in 0..Len(p) : w[k] = IF k = 0 THEN Home
                  ELSE IF w[k - 1] = NoNode THEN NoNode ELSE Child(w[k - 1], p[k])
    BY <1>7
  <1> HIDE DEF Rec
  <1>11. 0 \in S  BY <1>9, <1>10
  <1>12. ASSUME NEW k \in Nat, k \in S  PROVE k + 1 \in S
    <2> SUFFICES ASSUME k + 1 <= Len(p)  PROVE v[k + 1] = w[k + 1]
      OBVIOUS
    <2>1. k + 1 \in 0..Len(p) /\ k + 1 # 0 /\ (k + 1) - 1 = k /\ v[k] = w[k]  BY <1>12
    <2>2. QED  BY <1>9, <1>10, <2>1
  <1> HIDE DEF S
  <1>13. Nat \subseteq S  BY <1>11, <1>12, Induction
  <1>14. Len(p) \in S  BY <1>13
  <1>15. QED  BY <1>1, <1>14 DEF S, w

(***************************************************************************)
(* The inductive invariant                                                 *)
(***************************************************************************)

(* An edit leaves room for its writes, and is not about copies. *)
EditInv ==
    edit # None => writes < MaxWrites /\ edit.node \notin Copies /\ edit.to \notin Copies

(* The only copy in s is c, and it is there once. *)
OnlyCopy(s, C) ==
    \A j \in 1..Len(s) : s[j] \in Copies =>
        s[j] \in C /\ \A k \in 1..Len(s) : s[k] = s[j] => k = j

(* The tree holds the copy that is shown and no other; copies are leaves. *)
Shown == IF peek = None THEN {} ELSE {peek.copy}
CopyInv ==
    /\ \A n \in Nodes : OnlyCopy(children[n], Shown)
    /\ \A k \in Copies : children[k] = <<>>

(* r are the last ids of p. *)
Suffix(r, p) ==
    Len(r) <= Len(p) /\ \A j \in 1..Len(r) : r[j] = p[Len(p) - Len(r) + j]

VisitInv == \A t \in Visitors :
    /\ own[t] <= writes
    /\ pc[t] # "idle" => path[t] \in Queries
    /\ pc[t] \in {"walk", "put"} => at[t] # NoNode
    /\ pc[t] = "walk" => Suffix(rest[t], path[t])

(* A visitor is where the real walk leads, as far as it has followed the   *)
(* path, or at one of the copies C.                                        *)
OnTrack(t, C) ==
    /\ pc[t] = "walk" => at[t] \in C \cup {RealWalk(path[t])[Len(path[t]) - Len(rest[t])]}
    /\ pc[t] = "put" => at[t] \in C \cup {RealAt(path[t])}

(* A map with nothing stale in it, and nothing stale about to be put.      *)
Fresh(m) ==
    /\ \A p \in Queries : maps[m][p] \in Copies \cup {NoNode, RealAt(p)}
    /\ \A t \in Visitors : pc[t] # "idle" /\ own[t] = m => OnTrack(t, Copies)

(* Between edits the current map is fresh. *)
MapInv == edit = None => Fresh(writes)

(* So is that of a visitor since whose start nothing has changed; and what *)
(* it has not found is not there.                                          *)
QuietInv == \A t \in Visitors : quiet[t] =>
    /\ pc[t] # "idle" /\ peek = None
    /\ edit = None \/ edit.step = "deleting"
    /\ Fresh(own[t]) /\ OnTrack(t, {})
    /\ pc[t] = "get" => maps[own[t]][path[t]] # NoNode \/ RealAt(path[t]) = NoNode

PathsInv == TypeOK /\ EditInv /\ CopyInv /\ VisitInv /\ MapInv /\ QuietInv

(* The start: no copies in the tree, nothing in the maps, nobody at work.  *)
LEMMA InitPaths == Init => PathsInv
  <1> SUFFICES ASSUME Init  PROVE PathsInv
    OBVIOUS
  <1> USE DEF Init
  <1>1. children \in [Nodes -> Seq(Nodes \ Copies)] /\ children \in [Nodes -> Seq(Nodes)]
    <2>1. Seq(Nodes \ Copies) \subseteq Seq(Nodes)
      BY SeqMonotonic
    <2>2. QED  BY <2>1, TreeAssumption
  <1>2. TypeOK
    <2>1. EmptyMap \in [Queries -> Nodes \cup {NoNode}]
      BY DEF EmptyMap
    <2>2. writes \in 0..MaxWrites /\ own \in [Visitors -> 0..MaxWrites]
      BY BoundAssumption
    <2>3. maps \in [0..MaxWrites -> [Queries -> Nodes \cup {NoNode}]]
      BY <2>1
    <2>4. rest \in [Visitors -> Seq(Ids)]
      OBVIOUS
    <2>5. QED  BY <1>1, <2>2, <2>3, <2>4, TreeAssumption DEF TypeOK
  <1>3. CopyInv
    <2>1. ASSUME NEW n \in Nodes, NEW j \in 1..Len(children[n])  PROVE children[n][j] \notin Copies
      BY <1>1
    <2>2. QED  BY <2>1, TreeAssumption DEF CopyInv, OnlyCopy
  <1>4. EditInv /\ VisitInv /\ QuietInv
    BY BoundAssumption DEF EditInv, VisitInv, QuietInv
  <1>5. MapInv
    BY BoundAssumption DEF MapInv, Fresh, EmptyMap
  <1>6. QED  BY <1>2, <1>3, <1>4, <1>5 DEF PathsInv

(***************************************************************************)
(* Changes of the tree                                                     *)
(***************************************************************************)

(* To append a node that is no copy shows none, *)
LEMMA AppendShowsNone ==
    ASSUME NEW s \in Seq(Nodes), NEW C, OnlyCopy(s, C), NEW e \in Nodes \ Copies
    PROVE  OnlyCopy(Append(s, e), C)
  <1> DEFINE t == Append(s, e)
  <1>1. /\ t \in Seq(Nodes) /\ Len(t) = Len(s) + 1 /\ t[Len(t)] = e
        /\ \A j \in 1..Len(s) : t[j] = s[j]
    OBVIOUS
  <1> HIDE DEF t
  <1>2. ASSUME NEW j \in 1..Len(t), t[j] \in Copies
        PROVE  t[j] \in C /\ \A k \in 1..Len(t) : t[k] = t[j] => k = j
    <2>1. j \in 1..Len(s)  BY <1>1, <1>2
    <2>2. QED  BY <1>1, <1>2, <2>1 DEF OnlyCopy
  <1>3. QED  BY <1>2 DEF OnlyCopy, t

(* nor does it to remove anything. *)
LEMMA RemoveShowsNone ==
    ASSUME NEW s \in Seq(Nodes), NEW C, OnlyCopy(s, C), NEW e
    PROVE  OnlyCopy(RemoveFirst(s, e), C)
  <1> DEFINE t == RemoveFirst(s, e)
  <1>1. CASE t = s  BY <1>1
  <1>2. ASSUME NEW i \in 1..Len(s), Shifted(s, t, i)  PROVE OnlyCopy(t, C)
    <2>1. t \in Seq(Nodes)  BY RemoveFirstShifts
    <2> HIDE DEF t
    <2> DEFINE from(j) == IF j < i THEN j ELSE j + 1
    <2>2. \A j \in 1..Len(t) : from(j) \in 1..Len(s) /\ t[j] = s[from(j)]
      BY <1>2, <2>1 DEF Shifted
    <2>3. \A j, k \in 1..Len(t) : from(j) = from(k) => j = k
      BY <2>1
    <2> HIDE DEF from
    <2>4. QED  BY <2>2, <2>3 DEF OnlyCopy
  <1>3. QED  BY <1>1, <1>2, RemoveFirstShifts

(* The end of a preview: its copy is gone. *)
LEMMA RemoveTheCopy ==
    ASSUME NEW s \in Seq(Nodes), NEW e \in Copies, OnlyCopy(s, {e})
    PROVE  OnlyCopy(RemoveFirst(s, e), {})
  <1> DEFINE t == RemoveFirst(s, e)
  <1> SUFFICES ASSUME NEW j \in 1..Len(t), t[j] \in Copies  PROVE FALSE
    BY DEF OnlyCopy
  <1>1. t[j] = e
    <2>1. OnlyCopy(t, {e})  BY RemoveShowsNone
    <2> HIDE DEF t
    <2>2. QED  BY <2>1 DEF OnlyCopy
  <1>2. CASE t = s /\ \A k \in 1..Len(s) : s[k] # e
    BY <1>1, <1>2
  <1>3. ASSUME NEW i \in 1..Len(s), s[i] = e, Shifted(s, t, i)  PROVE FALSE
    <2>1. t \in Seq(Nodes)  BY RemoveFirstShifts
    <2> HIDE DEF t
    <2>2. PICK k \in 1..Len(s) : k # i /\ t[j] = s[k]
      BY <1>3, <2>1 DEF Shifted
    <2>3. QED  BY <1>1, <1>3, <2>2 DEF OnlyCopy
  <1>4. QED  BY <1>2, <1>3, RemoveFirstShifts

(* To take a node out of all arrays keeps their types and shows no copy. *)
LEMMA WithoutKeeps ==
    ASSUME TypeOK, CopyInv, NEW m \in Nodes
    PROVE  /\ Without(m) \in [Nodes -> Seq(Nodes)]
           /\ \A n \in Nodes : OnlyCopy(Without(m)[n], Shown)
           /\ \A k \in Copies : Without(m)[k] = <<>>
  <1>1. \A n \in Nodes : children[n] \in Seq(Nodes)
    BY DEF TypeOK
  <1>2. Without(m) \in [Nodes -> Seq(Nodes)]
    BY <1>1, RemoveFirstShifts DEF Without
  <1>3. \A n \in Nodes : OnlyCopy(Without(m)[n], Shown)
    BY <1>1, RemoveShowsNone DEF Without, CopyInv
  <1>4. ASSUME NEW k \in Copies  PROVE Without(m)[k] = <<>>
    <2>1. children[k] = <<>> /\ k \in Nodes
      BY HomeAssumption DEF CopyInv
    <2>2. RemoveFirst(<<>>, m) = <<>>
      BY DEF RemoveFirst
    <2>3. QED  BY <2>1, <2>2 DEF Without
  <1>5. QED  BY <1>2, <1>3, <1>4

(* So does appending a node to that of one that is no copy. *)
LEMMA AppendKeeps ==
    ASSUME TypeOK, CopyInv, NEW p \in Nodes \ Copies, NEW m \in Nodes \ Copies
    PROVE  LET new == [children EXCEPT ![p] = Append(@, m)]
           IN  /\ new \in [Nodes -> Seq(Nodes)]
               /\ \A n \in Nodes : OnlyCopy(new[n], Shown)
               /\ \A k \in Copies : new[k] = <<>>
  <1> DEFINE new == [children EXCEPT ![p] = Append(@, m)]
  <1>1. \A n \in Nodes : children[n] \in Seq(Nodes)
    BY DEF TypeOK
  <1>2. new \in [Nodes -> Seq(Nodes)]
    BY <1>1 DEF TypeOK
  <1>3. ASSUME NEW n \in Nodes  PROVE OnlyCopy(new[n], Shown)
    <2>1. CASE n = p
      <3>1. new[n] = Append(children[p], m)  BY <2>1 DEF TypeOK
      <3>2. OnlyCopy(children[p], Shown)  BY DEF CopyInv
      <3>3. QED  BY <1>1, <3>1, <3>2, AppendShowsNone
    <2>2. CASE n # p
      BY <2>2 DEF TypeOK, CopyInv
    <2>3. QED  BY <2>1, <2>2
  <1>4. \A k \in Copies : new[k] = <<>>
    BY HomeAssumption DEF TypeOK, CopyInv
  <1>5. QED  BY <1>2, <1>3, <1>4

(* While an edit goes on nobody is quiet, and the maps may hold anything.  *)
LEMMA EditGoesOn ==
    ASSUME PathsInv, TypeOK', EditInv', CopyInv', edit' # None, Disturb,
           UNCHANGED <<mapVars, visitVars>>
    PROVE  PathsInv'
  <1>1. VisitInv'
    BY DEF PathsInv, VisitInv, Suffix, mapVars, visitVars
  <1>2. MapInv' /\ QuietInv'
    BY DEF MapInv, QuietInv, Disturb
  <1>3. QED  BY <1>1, <1>2 DEF PathsInv

(* The types of what no change of the tree touches. *)
LEMMA TypeKept ==
    ASSUME TypeOK, Disturb, children' \in [Nodes -> Seq(Nodes)],
           id' \in [Nodes -> Ids \cup {NoId}], edit' = None \/ edit' \in Edits,
           peek' = None \/ peek' \in Peeks, UNCHANGED <<locked, mapVars, visitVars>>
    PROVE  TypeOK'
  <1>1. quiet' \in [Visitors -> BOOLEAN]  BY DEF Disturb
  <1>2. QED  BY <1>1 DEF TypeOK, mapVars, visitVars

(* appendChild, first half: the node leaves its old parent, *)
LEMMA BeginMoveStep ==
    ASSUME PathsInv, NEW n \in Nodes, NEW p \in Nodes, BeginMove(n, p)
    PROVE  PathsInv'
  <1> USE DEF BeginMove, Begin
  <1>1. TypeOK /\ CopyInv /\ n \notin Copies /\ p \notin Copies /\ edit = None
    BY DEF PathsInv
  <1>2. edit' = [step |-> "removed", node |-> n, to |-> p, name |-> id[n]]
    OBVIOUS
  <1>3. edit' \in Edits /\ edit' # None
    BY <1>1, <1>2, NoneAssumption DEF TypeOK, Edits
  <1>4. /\ children' \in [Nodes -> Seq(Nodes)]
        /\ \A m \in Nodes : OnlyCopy(children'[m], Shown)
        /\ \A k \in Copies : children'[k] = <<>>
    BY <1>1, WithoutKeeps
  <1>5. CopyInv'
    BY <1>4 DEF CopyInv, Shown
  <1>6. EditInv'
    BY <1>1, <1>2 DEF EditInv, mapVars
  <1>7. TypeOK'
    BY <1>1, <1>3, <1>4, TypeKept DEF TypeOK
  <1>8. QED  BY <1>3, <1>5, <1>6, <1>7, EditGoesOn

(* second half: it enters its new one. *)
LEMMA AttachStep ==
    ASSUME PathsInv, Attach
    PROVE  PathsInv'
  <1> USE DEF Attach
  <1>1. /\ TypeOK /\ CopyInv /\ edit \in Edits /\ writes < MaxWrites
        /\ edit.node \in Nodes \ Copies /\ edit.to \in Nodes \ Copies
    BY DEF PathsInv, TypeOK, EditInv, Edits
  <1>2. edit' \in Edits /\ edit' # None /\ edit'.node = edit.node /\ edit'.to = edit.to
    BY <1>1, NoneAssumption DEF Edits
  <1>3. /\ children' \in [Nodes -> Seq(Nodes)]
        /\ \A m \in Nodes : OnlyCopy(children'[m], Shown)
        /\ \A k \in Copies : children'[k] = <<>>
    BY <1>1, AppendKeeps
  <1>4. CopyInv'
    BY <1>3 DEF CopyInv, Shown
  <1>5. EditInv'
    BY <1>1, <1>2 DEF EditInv, mapVars
  <1>6. TypeOK'
    BY <1>1, <1>2, <1>3, TypeKept DEF TypeOK
  <1>7. QED  BY <1>2, <1>4, <1>5, <1>6, EditGoesOn

(* A new node enters the tree. *)
LEMMA BeginCreateStep ==
    ASSUME PathsInv, NEW n \in Nodes, NEW p \in Nodes, NEW i \in Ids, BeginCreate(n, p, i)
    PROVE  PathsInv'
  <1> USE DEF BeginCreate, Begin
  <1>1. TypeOK /\ CopyInv /\ n \in Nodes \ Copies /\ p \in Nodes \ Copies /\ edit = None
    BY DEF PathsInv
  <1>2. edit' = [step |-> "attached", node |-> n, to |-> p, name |-> i]
    OBVIOUS
  <1>3. edit' \in Edits /\ edit' # None
    BY <1>1, <1>2, NoneAssumption DEF Edits
  <1>4. /\ children' \in [Nodes -> Seq(Nodes)]
        /\ \A m \in Nodes : OnlyCopy(children'[m], Shown)
        /\ \A k \in Copies : children'[k] = <<>>
    BY <1>1, AppendKeeps
  <1>5. CopyInv'
    BY <1>4 DEF CopyInv, Shown
  <1>6. EditInv'
    BY <1>1, <1>2 DEF EditInv, mapVars
  <1>7. TypeOK'
    BY <1>1, <1>3, <1>4, TypeKept DEF TypeOK
  <1>8. QED  BY <1>3, <1>5, <1>6, <1>7, EditGoesOn

(* To change ids moves nothing, and so shows no copy. *)
LEMMA NameStep ==
    ASSUME PathsInv, Name
    PROVE  PathsInv'
  <1> USE DEF Name
  <1>1. TypeOK /\ CopyInv /\ edit \in Edits /\ edit.node \in Nodes
    BY DEF PathsInv, TypeOK, Edits
  <1>2. edit' \in Edits /\ edit' # None /\ edit'.node = edit.node /\ edit'.to = edit.to
    BY <1>1, NoneAssumption DEF Edits
  <1>3. id' \in [Nodes -> Ids \cup {NoId}]
    BY <1>1 DEF TypeOK, Edits
  <1>4. CopyInv'
    BY DEF PathsInv, CopyInv, Shown, OnlyCopy
  <1>5. EditInv'
    BY <1>2 DEF PathsInv, EditInv, mapVars
  <1>6. TypeOK'
    BY <1>1, <1>2, <1>3, TypeKept DEF TypeOK
  <1>7. QED  BY <1>2, <1>4, <1>5, <1>6, EditGoesOn

(* The target of a rename has a child, and so is no copy. *)
LEMMA BeginRenameStep ==
    ASSUME PathsInv, NEW n \in Nodes, NEW p \in Nodes, NEW i \in Ids, BeginRename(n, p, i)
    PROVE  PathsInv'
  <1> USE DEF BeginRename, Begin
  <1>1. TypeOK /\ CopyInv /\ n \notin Copies /\ edit = None
    BY DEF PathsInv
  <1>2. edit' = [step |-> "moved", node |-> n, to |-> p, name |-> i]
    OBVIOUS
  <1>3. edit' \in Edits /\ edit' # None
    BY <1>2, NoneAssumption DEF Edits
  <1>4. CopyInv'
    BY DEF PathsInv, CopyInv, Shown, OnlyCopy
  <1>5. p \notin Copies
    <2>1. children[p] # <<>>
      BY DEF ToSet
    <2>2. QED  BY <1>1, <2>1 DEF CopyInv
  <1>6. EditInv'
    BY <1>1, <1>2, <1>5 DEF EditInv, mapVars
  <1>7. TypeOK'
    BY <1>1, <1>3, TypeKept DEF TypeOK
  <1>8. QED  BY <1>3, <1>4, <1>6, <1>7, EditGoesOn

(* A deletion may take a copy along; it stays the copy that is shown. *)
LEMMA DetachNodeStep ==
    ASSUME PathsInv, NEW m \in Nodes, DetachNode(m)
    PROVE  PathsInv'
  <1> USE DEF DetachNode
  <1>1. TypeOK /\ CopyInv /\ edit # None
    BY DEF PathsInv
  <1>2. /\ children' \in [Nodes -> Seq(Nodes)]
        /\ \A n \in Nodes : OnlyCopy(children'[n], Shown)
        /\ \A k \in Copies : children'[k] = <<>>
    BY <1>1, WithoutKeeps
  <1>3. CopyInv'
    BY <1>2 DEF CopyInv, Shown
  <1>4. EditInv'
    BY DEF PathsInv, EditInv, mapVars
  <1>5. TypeOK'
    BY <1>1, <1>2, TypeKept DEF TypeOK
  <1>6. QED  BY <1>1, <1>3, <1>4, <1>5, EditGoesOn

(* Where the tree stays, so do the real steps. *)
LEMMA SameTree == UNCHANGED treeVars => realChild' = realChild
  BY DEF treeVars, realChild, Real, WithId

(***************************************************************************)
(* Steps of an edit that leave the tree alone                              *)
(***************************************************************************)

(* A deletion begins with the lock, and has not changed anything yet. *)
LEMMA BeginDeleteStep ==
    ASSUME PathsInv, NEW n \in Nodes, BeginDelete(n)
    PROVE  PathsInv'
  <1> USE DEF BeginDelete, Begin
  <1>1. TypeOK /\ n \notin Copies /\ edit = None
    BY DEF PathsInv
  <1>2. edit' = [step |-> "deleting", node |-> n, to |-> n, name |-> id[n]]
    OBVIOUS
  <1>3. edit' \in Edits /\ edit' # None /\ edit'.step = "deleting"
    BY <1>1, <1>2, NoneAssumption DEF TypeOK, Edits
  <1>4. realChild' = realChild
    BY SameTree
  <1>5. CopyInv'
    BY DEF PathsInv, CopyInv, Shown, OnlyCopy, treeVars
  <1>6. EditInv'
    BY <1>1, <1>2 DEF EditInv, mapVars
  <1>7. VisitInv'
    BY DEF PathsInv, VisitInv, Suffix, mapVars, visitVars
  <1>8. MapInv'
    BY <1>3 DEF MapInv
  <1>9. QuietInv'
    BY <1>3, <1>4 DEF PathsInv, QuietInv, Fresh, OnTrack, RealAt, RealWalk, mapVars, visitVars
  <1>10. TypeOK'
    BY <1>1, <1>3 DEF TypeOK, treeVars, mapVars, visitVars
  <1>11. QED  BY <1>5, <1>6, <1>7, <1>8, <1>9, <1>10 DEF PathsInv

(* The write clears the cache: nobody holds the new map, which is empty,   *)
(* and those that are held stay as they are.                               *)
LEMMA ClearKeeps ==
    ASSUME PathsInv, writes < MaxWrites, Clear,
           UNCHANGED <<treeVars, peek, visitVars, quiet>>
    PROVE  /\ writes' = writes + 1 /\ writes' \in 0..MaxWrites
           /\ maps' \in [0..MaxWrites -> [Queries -> Nodes \cup {NoNode}]]
           /\ VisitInv' /\ Fresh(writes)'
           /\ \A t \in Visitors : pc[t] # "idle" => maps'[own[t]] = maps[own[t]]
  <1>1. TypeOK /\ VisitInv
    BY DEF PathsInv
  <1>2. writes' = writes + 1 /\ writes' \in 0..MaxWrites /\ writes \in Nat
    BY <1>1, BoundAssumption DEF Clear, TypeOK
  <1>3. EmptyMap \in [Queries -> Nodes \cup {NoNode}]
    BY DEF EmptyMap
  <1>4. maps' = [m \in 0..MaxWrites |->
            IF \E t \in Visitors : pc[t] # "idle" /\ own[t] = m THEN maps[m] ELSE EmptyMap]
    BY DEF Clear
  <1>5. maps' \in [0..MaxWrites -> [Queries -> Nodes \cup {NoNode}]]
    BY <1>1, <1>3, <1>4 DEF TypeOK
  <1>6. VisitInv'
    BY <1>1, <1>2 DEF TypeOK, VisitInv, Suffix, visitVars
  <1>7. \A t \in Visitors : own[t] # writes + 1
    BY <1>1, <1>2 DEF VisitInv, TypeOK
  <1>8. maps'[writes'] = EmptyMap
    BY <1>2, <1>4, <1>7
  <1>9. Fresh(writes)'
    BY <1>2, <1>7, <1>8 DEF Fresh, EmptyMap, visitVars
  <1>10. ASSUME NEW t \in Visitors, pc[t] # "idle"  PROVE maps'[own[t]] = maps[own[t]]
    BY <1>1, <1>4, <1>10 DEF TypeOK
  <1>11. QED  BY <1>2, <1>5, <1>6, <1>9, <1>10

(* The end of an edit. *)
LEMMA EndEdit ==
    ASSUME PathsInv, edit # None, edit' = None, locked' \in BOOLEAN, Clear,
           UNCHANGED <<treeVars, peek, visitVars, quiet>>
    PROVE  PathsInv'
  <1>1. TypeOK /\ writes < MaxWrites
    BY DEF PathsInv, EditInv
  <1>2. realChild' = realChild
    BY SameTree
  <1>3. /\ writes' \in 0..MaxWrites
        /\ maps' \in [0..MaxWrites -> [Queries -> Nodes \cup {NoNode}]]
        /\ VisitInv' /\ Fresh(writes)'
        /\ \A t \in Visitors : pc[t] # "idle" => maps'[own[t]] = maps[own[t]]
    BY <1>1, ClearKeeps
  <1>4. TypeOK'
    BY <1>1, <1>3 DEF TypeOK, treeVars, visitVars
  <1>5. CopyInv' /\ EditInv' /\ MapInv'
    BY <1>3 DEF PathsInv, CopyInv, Shown, OnlyCopy, EditInv, MapInv, treeVars
  <1>6. QuietInv'
    <2>1. ASSUME NEW t \in Visitors, quiet'[t]
          PROVE  /\ pc'[t] # "idle" /\ peek' = None
                 /\ Fresh(own[t])' /\ OnTrack(t, {})'
                 /\ pc'[t] = "get" => maps'[own'[t]][path'[t]] # NoNode \/ RealAt(path[t])' = NoNode
      <3>1. /\ pc[t] # "idle" /\ peek = None /\ Fresh(own[t]) /\ OnTrack(t, {})
            /\ pc[t] = "get" => maps[own[t]][path[t]] # NoNode \/ RealAt(path[t]) = NoNode
        BY <2>1 DEF PathsInv, QuietInv
      <3>2. maps'[own[t]] = maps[own[t]]
        BY <1>3, <3>1
      <3>3. OnTrack(t, {})'
        BY <1>2, <3>1 DEF OnTrack, RealAt, RealWalk, visitVars
      <3>4. Fresh(own[t])'
        BY <1>2, <3>1, <3>2 DEF Fresh, OnTrack, RealAt, RealWalk, visitVars
      <3>5. QED  BY <1>2, <3>1, <3>2, <3>3, <3>4 DEF RealAt, RealWalk, visitVars
    <2>2. QED  BY <2>1 DEF QuietInv
  <1>7. QED  BY <1>3, <1>4, <1>5, <1>6 DEF PathsInv

(* Nodes.save and Nodes.delete end so. *)
LEMMA SaveStep == PathsInv /\ (Save \/ EndDelete) => PathsInv'
  <1>1. PathsInv => locked \in BOOLEAN
    BY DEF PathsInv, TypeOK
  <1>2. QED  BY <1>1, EndEdit DEF Save, EndDelete

(* The relocator fills a map or clears the cache while nobody is quiet.    *)
LEMMA RelocateStep ==
    ASSUME PathsInv, Relocate
    PROVE  PathsInv'
  <1> USE DEF Relocate
  <1>1. TypeOK /\ edit \in Edits /\ edit # None /\ writes \in 0..MaxWrites
    BY DEF PathsInv, TypeOK
  <1>2. edit' \in Edits /\ edit' # None /\ edit'.node = edit.node /\ edit'.to = edit.to
    BY <1>1, NoneAssumption DEF Edits
  <1>3. \A t \in Visitors : ~quiet[t]
    BY <1>1 DEF PathsInv, QuietInv, TypeOK
  <1>4. CopyInv' /\ MapInv' /\ QuietInv'
    BY <1>2, <1>3 DEF PathsInv, CopyInv, Shown, OnlyCopy, MapInv, QuietInv, treeVars
  <1>5. CASE writes + 1 < MaxWrites /\ Clear
    <2>1. /\ writes' = writes + 1 /\ writes' \in 0..MaxWrites
          /\ maps' \in [0..MaxWrites -> [Queries -> Nodes \cup {NoNode}]] /\ VisitInv'
      BY <1>1, <1>5, BoundAssumption, ClearKeeps
    <2>2. EditInv'
      BY <1>2, <1>5, <2>1 DEF PathsInv, EditInv
    <2>3. TypeOK'
      BY <1>1, <1>2, <2>1 DEF TypeOK, treeVars, visitVars
    <2>4. QED  BY <1>4, <2>1, <2>2, <2>3 DEF PathsInv
  <1>6. CASE /\ maps' = [maps EXCEPT ![writes] = [p \in Queries |->
                   IF @[p] = NoNode /\ NodeAt(p) = edit.node THEN edit.node ELSE @[p]]]
             /\ UNCHANGED writes
    <2>1. edit.node \in Nodes
      BY <1>1 DEF Edits
    <2> DEFINE filled == [p \in Queries |->
                   IF maps[writes][p] = NoNode /\ NodeAt(p) = edit.node
                   THEN edit.node ELSE maps[writes][p]]
    <2>2. maps' = [maps EXCEPT ![writes] = filled]
      BY <1>6
    <2>3. filled \in [Queries -> Nodes \cup {NoNode}]
      BY <1>1, <2>1 DEF TypeOK
    <2> HIDE DEF filled
    <2>4. maps' \in [0..MaxWrites -> [Queries -> Nodes \cup {NoNode}]]
      BY <1>1, <2>2, <2>3 DEF TypeOK
    <2>5. TypeOK'
      BY <1>1, <1>2, <1>6, <2>4 DEF TypeOK, treeVars, visitVars
    <2>6. EditInv' /\ VisitInv'
      BY <1>2, <1>6 DEF PathsInv, EditInv, VisitInv, Suffix, visitVars
    <2>7. QED  BY <1>4, <2>5, <2>6 DEF PathsInv
  <1>7. QED  BY <1>5, <1>6

(***************************************************************************)
(* Previews                                                                *)
(***************************************************************************)

(* A preview does not change the real walk, so that no map becomes stale.  *)
LEMMA PeekGoesOn ==
    ASSUME PathsInv, TypeOK', CopyInv', Disturb, realChild' = realChild,
           UNCHANGED <<edit, mapVars, visitVars>>
    PROVE  PathsInv'
  <1>1. VisitInv' /\ EditInv'
    BY DEF PathsInv, VisitInv, Suffix, EditInv, mapVars, visitVars
  <1>2. QuietInv'
    BY DEF QuietInv, Disturb
  <1>3. MapInv'
    BY DEF PathsInv, MapInv, Fresh, OnTrack, RealAt, RealWalk, mapVars, visitVars
  <1>4. QED  BY <1>1, <1>2, <1>3 DEF PathsInv

(* The copy goes to the end of an array without copies. *)
LEMMA BeginPeekStep ==
    ASSUME PathsInv, NEW k \in Nodes, NEW c \in Nodes, BeginPeek(k, c)
    PROVE  PathsInv'
  <1> USE DEF BeginPeek
  <1>1. TypeOK /\ CopyInv /\ peek = None /\ k \in Copies /\ c \in Nodes \ Copies
    BY DEF PathsInv
  <1>2. peek' = [step |-> "attached", copy |-> k]
    OBVIOUS
  <1>3. peek' \in Peeks /\ peek' # None /\ peek'.copy = k
    BY <1>1, <1>2, NoneAssumption DEF Peeks
  <1>4. /\ \A n \in Nodes : children[n] \in Seq(Nodes)
        /\ \A n \in Nodes : \A j \in 1..Len(children[n]) : children[n][j] \notin Copies
    BY <1>1 DEF TypeOK, CopyInv, OnlyCopy, Shown
  <1>5. children' \in [Nodes -> Seq(Nodes)]
    BY <1>4 DEF PathsInv, TypeOK
  <1>6. \A n \in Nodes : children'[n] = IF n = c THEN Append(children[c], k) ELSE children[n]
    BY DEF PathsInv, TypeOK
  <1>7. ASSUME NEW n \in Nodes  PROVE OnlyCopy(children'[n], {k})
    <2>1. CASE n = c
      <3> DEFINE t == Append(children[c], k)
      <3>1. /\ t \in Seq(Nodes) /\ Len(t) = Len(children[c]) + 1 /\ t[Len(t)] = k
            /\ \A j \in 1..Len(children[c]) : t[j] = children[c][j] /\ t[j] \notin Copies
        BY <1>4
      <3>2. children'[n] = t
        BY <1>6, <2>1
      <3> HIDE DEF t
      <3>3. \A j \in 1..Len(t) : t[j] \in Copies => j = Len(t)
        BY <1>4, <3>1
      <3>4. QED  BY <1>1, <3>1, <3>2, <3>3 DEF OnlyCopy
    <2>2. CASE n # c
      BY <1>4, <1>6, <2>2 DEF OnlyCopy
    <2>3. QED  BY <2>1, <2>2
  <1>8. CopyInv'
    <2>1. Shown' = {k}
      BY <1>3 DEF Shown
    <2>2. \A d \in Copies : children'[d] = <<>>
      BY <1>1, <1>6, HomeAssumption DEF CopyInv
    <2>3. QED  BY <1>7, <2>1, <2>2 DEF CopyInv
  <1>9. realChild' = realChild
    <2>1. ASSUME NEW n \in Nodes, NEW i \in Ids
          PROVE  FirstOf(children'[n], Real(i)) = FirstOf(children[n], Real(i))
      BY <1>1, <1>4, <1>6, FirstOfAppend DEF Real
    <2>2. \A i \in Ids : Real(i)' = Real(i)
      BY DEF Real, WithId
    <2>3. QED  BY <2>1, <2>2 DEF realChild
  <1>10. TypeOK'
    BY <1>1, <1>3, <1>5, TypeKept DEF TypeOK
  <1>11. QED  BY <1>8, <1>9, <1>10, PeekGoesOn

(* Its id does not matter to the real walk. *)
LEMMA NamePeekStep ==
    ASSUME PathsInv, NEW i \in Ids, NamePeek(i)
    PROVE  PathsInv'
  <1> USE DEF NamePeek
  <1>1. TypeOK /\ CopyInv /\ peek \in Peeks /\ peek.copy \in Copies
    BY DEF PathsInv, TypeOK, Peeks
  <1>2. peek' \in Peeks /\ peek' # None /\ peek'.copy = peek.copy
    BY <1>1, NoneAssumption DEF Peeks
  <1>3. CopyInv'
    BY <1>1, <1>2 DEF CopyInv, Shown, OnlyCopy
  <1>4. realChild' = realChild
    <2>1. ASSUME NEW j \in Ids  PROVE Real(j)' = Real(j)
      BY <1>1 DEF Real, WithId, TypeOK
    <2>2. QED  BY <2>1 DEF realChild
  <1>5. id' \in [Nodes -> Ids \cup {NoId}]
    BY <1>1 DEF TypeOK
  <1>6. TypeOK'
    BY <1>1, <1>2, <1>5, TypeKept DEF TypeOK
  <1>7. QED  BY <1>3, <1>4, <1>6, PeekGoesOn

(* The tree has no copy when the preview is over. *)
LEMMA EndPeekStep ==
    ASSUME PathsInv, EndPeek
    PROVE  PathsInv'
  <1> USE DEF EndPeek
  <1>1. TypeOK /\ CopyInv /\ peek # None /\ peek.copy \in Copies /\ peek.copy \in Nodes
    BY HomeAssumption DEF PathsInv, TypeOK, Peeks
  <1>2. \A n \in Nodes : children[n] \in Seq(Nodes) /\ children'[n] = RemoveFirst(children[n], peek.copy)
    BY <1>1 DEF TypeOK, Without
  <1>3. /\ children' \in [Nodes -> Seq(Nodes)]
        /\ \A k \in Copies : children'[k] = <<>>
    BY <1>1, WithoutKeeps
  <1>4. CopyInv'
    <2>1. Shown = {peek.copy} /\ Shown' = {}
      BY <1>1 DEF Shown
    <2>2. \A n \in Nodes : OnlyCopy(children'[n], {})
      BY <1>1, <1>2, <2>1, RemoveTheCopy DEF CopyInv
    <2>3. QED  BY <1>3, <2>1, <2>2 DEF CopyInv
  <1>5. realChild' = realChild
    <2>1. ASSUME NEW n \in Nodes, NEW i \in Ids
          PROVE  FirstOf(children'[n], Real(i)) = FirstOf(children[n], Real(i))
      BY <1>1, <1>2, FirstOfRemove DEF Real
    <2>2. \A i \in Ids : Real(i)' = Real(i)
      BY DEF Real, WithId
    <2>3. QED  BY <2>1, <2>2 DEF realChild
  <1>6. TypeOK'
    BY <1>1, <1>3, TypeKept DEF TypeOK
  <1>7. QED  BY <1>4, <1>5, <1>6, PeekGoesOn

(***************************************************************************)
(* Lookups                                                                 *)
(***************************************************************************)

(* Nothing of the other visitors changes. *)
Others(t) == \A u \in Visitors \ {t} :
    /\ pc'[u] = pc[u] /\ path'[u] = path[u] /\ own'[u] = own[u]
    /\ at'[u] = at[u] /\ rest'[u] = rest[u] /\ quiet'[u] = quiet[u]

(* A map stays fresh if what the visitor puts is, and if it keeps on track *)
(* while it holds the map.                                                 *)
LEMMA StaysFresh ==
    ASSUME NEW t \in Visitors, NEW m, Fresh(m), Others(t), realChild' = realChild,
           \A p \in Queries : maps'[m][p] \in Copies \cup {maps[m][p], RealAt(p)},
           pc'[t] # "idle" /\ own'[t] = m => OnTrack(t, Copies)'
    PROVE  Fresh(m)'
  <1>1. \A p : RealAt(p)' = RealAt(p)
    BY DEF RealAt, RealWalk
  <1>2. \A p \in Queries : maps'[m][p] \in Copies \cup {NoNode, RealAt(p)'}
    BY <1>1 DEF Fresh
  <1>3. ASSUME NEW u \in Visitors, u # t, pc'[u] # "idle", own'[u] = m
        PROVE  OnTrack(u, Copies)'
    <2>1. OnTrack(u, Copies)
      BY <1>3 DEF Fresh, Others
    <2>2. QED  BY <1>3, <2>1 DEF OnTrack, Others, RealAt, RealWalk
  <1>4. QED  BY <1>2, <1>3 DEF Fresh

(* A step of a visitor keeps the invariant if it keeps the visitor on      *)
(* track and puts nothing stale into a fresh map, nor takes anything out.  *)
LEMMA VisitorGoesOn ==
    ASSUME PathsInv, TypeOK', NEW t \in Visitors, Others(t),
           UNCHANGED <<treeVars, edit, peek, writes>>,
           /\ own'[t] <= writes
           /\ pc'[t] # "idle" => path'[t] \in Queries
           /\ pc'[t] \in {"walk", "put"} => at'[t] # NoNode
           /\ pc'[t] = "walk" => Suffix(rest'[t], path'[t]),
           \A m \in 0..MaxWrites : \A p \in Queries :
              /\ Fresh(m) => maps'[m][p] \in Copies \cup {maps[m][p], RealAt(p)}
              /\ maps[m][p] # NoNode => maps'[m][p] # NoNode,
           \A m \in 0..MaxWrites :
              Fresh(m) /\ pc'[t] # "idle" /\ own'[t] = m => OnTrack(t, Copies)',
           quiet'[t] =>
              /\ pc'[t] # "idle" /\ peek = None /\ (edit = None \/ edit.step = "deleting")
              /\ \E m \in 0..MaxWrites : m = own'[t] /\ Fresh(m)
              /\ OnTrack(t, {})'
              /\ pc'[t] = "get" => maps'[own'[t]][path'[t]] # NoNode \/ RealAt(path'[t]) = NoNode
    PROVE  PathsInv'
  <1>1. realChild' = realChild
    BY SameTree
  <1>2. \A p : RealAt(p)' = RealAt(p) /\ RealWalk(p)' = RealWalk(p)
    BY <1>1 DEF RealAt, RealWalk
  <1>3. ASSUME NEW m \in 0..MaxWrites, Fresh(m)  PROVE Fresh(m)'
    BY <1>1, <1>3, StaysFresh
  <1>4. EditInv' /\ CopyInv'
    BY DEF PathsInv, EditInv, CopyInv, Shown, OnlyCopy, treeVars
  <1>5. VisitInv'
    <2>1. ASSUME NEW u \in Visitors, u # t
          PROVE  /\ own'[u] <= writes
                 /\ pc'[u] # "idle" => path'[u] \in Queries
                 /\ pc'[u] \in {"walk", "put"} => at'[u] # NoNode
                 /\ pc'[u] = "walk" => Suffix(rest'[u], path'[u])
      <3>1. /\ pc'[u] = pc[u] /\ path'[u] = path[u] /\ own'[u] = own[u]
            /\ at'[u] = at[u] /\ rest'[u] = rest[u]
        BY <2>1 DEF Others
      <3>2. QED  BY <3>1 DEF PathsInv, VisitInv
    <2>2. QED  BY <2>1 DEF VisitInv, Suffix
  <1>6. MapInv'
    <2> SUFFICES ASSUME edit = None  PROVE Fresh(writes)'
      BY DEF MapInv
    <2>1. PICK m \in 0..MaxWrites : m = writes
      BY DEF PathsInv, TypeOK
    <2>2. Fresh(m)
      BY <2>1 DEF PathsInv, MapInv
    <2>3. Fresh(m)' /\ m = writes'
      BY <1>3, <2>1, <2>2
    <2>4. QED  BY <2>3 DEF Fresh
  <1>7. QuietInv'
    <2> SUFFICES ASSUME NEW u \in Visitors, quiet'[u]
                 PROVE  /\ pc'[u] # "idle" /\ peek' = None
                        /\ edit' = None \/ edit'.step = "deleting"
                        /\ Fresh(own[u])' /\ OnTrack(u, {})'
                        /\ pc'[u] = "get" => \/ maps'[own'[u]][path'[u]] # NoNode
                                             \/ RealAt(path'[u]) = NoNode
      BY <1>2 DEF QuietInv, RealAt, RealWalk
    <2>1. CASE u = t
      <3>1. PICK m \in 0..MaxWrites : m = own'[t] /\ Fresh(m)
        BY <2>1
      <3>2. Fresh(m)'
        BY <1>3, <3>1
      <3>3. Fresh(own[u])'
        BY <2>1, <3>1, <3>2 DEF Fresh
      <3>4. QED  BY <2>1, <3>3
    <2>2. CASE u # t
      <3>1. /\ pc'[u] = pc[u] /\ path'[u] = path[u] /\ own'[u] = own[u]
            /\ at'[u] = at[u] /\ rest'[u] = rest[u] /\ quiet[u]
        BY <2>2 DEF Others
      <3>2. /\ pc[u] # "idle" /\ peek = None /\ (edit = None \/ edit.step = "deleting")
            /\ Fresh(own[u]) /\ OnTrack(u, {})
            /\ pc[u] = "get" => maps[own[u]][path[u]] # NoNode \/ RealAt(path[u]) = NoNode
        BY <3>1 DEF PathsInv, QuietInv
      <3>3. PICK m \in 0..MaxWrites : m = own[u]
        BY DEF PathsInv, TypeOK
      <3>4. Fresh(m)
        BY <3>2, <3>3
      <3>5. Fresh(m)'
        BY <1>3, <3>4
      <3>6. Fresh(own[u])'
        BY <3>1, <3>3, <3>5 DEF Fresh
      <3>7. OnTrack(u, {})'
        BY <1>2, <3>1, <3>2 DEF OnTrack
      <3>8. path[u] \in Queries
        BY <3>2 DEF PathsInv, VisitInv
      <3>9. QED  BY <3>1, <3>2, <3>3, <3>6, <3>7, <3>8
    <2>3. QED  BY <2>1, <2>2
  <1>8. QED  BY <1>4, <1>5, <1>6, <1>7 DEF PathsInv

(* A lookup that begins between edits has a fresh map. *)
LEMMA FetchStep ==
    ASSUME PathsInv, NEW t \in Visitors, NEW p \in Queries, Fetch(t, p)
    PROVE  PathsInv'
  <1> USE DEF Fetch
  <1>1. /\ TypeOK /\ writes \in 0..MaxWrites
        /\ edit = None => Fresh(writes)
    BY DEF PathsInv, TypeOK, MapInv
  <1>2. /\ pc'[t] = "check" /\ path'[t] = p /\ own'[t] = writes
        /\ quiet'[t] = (edit = None /\ peek = None)
    BY <1>1 DEF TypeOK
  <1>3. Others(t)
    BY <1>1 DEF Others, TypeOK
  <1>4. TypeOK'
    BY <1>1 DEF TypeOK, treeVars, mapVars
  <1>5. \A C : OnTrack(t, C)'
    BY <1>2 DEF OnTrack
  <1>6. quiet'[t] => \E m \in 0..MaxWrites : m = own'[t] /\ Fresh(m)
    BY <1>1, <1>2
  <1>7. own'[t] <= writes
    BY <1>1, <1>2, BoundAssumption
  <1>8. \A m \in 0..MaxWrites : \A q \in Queries : maps'[m][q] = maps[m][q]
    BY DEF mapVars
  <1>9. QED  BY <1>1, <1>2, <1>3, <1>4, <1>5, <1>6, <1>7, <1>8, VisitorGoesOn DEF mapVars

(* What is known of a visitor that has fetched a map. *)
LEMMA AtWork ==
    ASSUME PathsInv, NEW t \in Visitors, pc[t] # "idle"
    PROVE  /\ own[t] \in 0..MaxWrites /\ own[t] <= writes /\ path[t] \in Queries
           /\ path[t] \in Seq(Ids) /\ Len(path[t]) \in Nat
           /\ realChild \in Steps
           /\ \A m \in 0..MaxWrites : Fresh(m) /\ own[t] = m => OnTrack(t, Copies)
           /\ quiet[t] =>
                 /\ peek = None /\ (edit = None \/ edit.step = "deleting")
                 /\ Fresh(own[t]) /\ OnTrack(t, {})
  <1>1. path[t] \in Queries /\ own[t] \in 0..MaxWrites /\ own[t] <= writes
    BY DEF PathsInv, VisitInv, TypeOK
  <1>2. realChild \in Steps
    BY StepsTyping DEF PathsInv
  <1>3. ASSUME NEW m \in 0..MaxWrites, Fresh(m), own[t] = m  PROVE OnTrack(t, Copies)
    BY <1>3 DEF Fresh
  <1>4. QED  BY <1>1, <1>2, <1>3, IdsAssumption DEF PathsInv, QuietInv

(* It is done if the map has the path; else it starts at the root, *)
LEMMA CheckStep ==
    ASSUME PathsInv, NEW t \in Visitors, Check(t)
    PROVE  PathsInv'
  <1> USE DEF Check
  <1>1. TypeOK /\ pc[t] = "check"
    BY DEF PathsInv
  <1>2. /\ own[t] \in 0..MaxWrites /\ own[t] <= writes /\ path[t] \in Queries
        /\ path[t] \in Seq(Ids) /\ Len(path[t]) \in Nat /\ realChild \in Steps
        /\ quiet[t] => /\ peek = None /\ (edit = None \/ edit.step = "deleting")
                       /\ Fresh(own[t])
    BY <1>1, AtWork
  <1>3. Others(t) /\ realChild' = realChild
    BY <1>1, SameTree DEF Others, TypeOK
  <1>4. quiet'[t] => \E m \in 0..MaxWrites : m = own'[t] /\ Fresh(m)
    BY <1>2
  <1>5. CASE maps[own[t]][path[t]] # NoNode
    <2>1. pc'[t] = "get" /\ UNCHANGED <<at, rest>>
      BY <1>1, <1>5 DEF TypeOK
    <2>2. TypeOK'
      BY <1>1, <1>5 DEF TypeOK, treeVars, mapVars
    <2>3. \A C : OnTrack(t, C)'
      BY <2>1 DEF OnTrack
    <2>4. QED
      BY <1>2, <1>3, <1>4, <1>5, <2>1, <2>2, <2>3, VisitorGoesOn DEF mapVars
  <1>6. CASE maps[own[t]][path[t]] = NoNode
    <2>1. pc'[t] = "walk" /\ at'[t] = Home /\ rest'[t] = path[t]
      BY <1>1, <1>6 DEF TypeOK
    <2>2. TypeOK'
      BY <1>1, <1>2, <1>6, HomeAssumption DEF TypeOK, treeVars, mapVars
    <2>3. RealWalk(path[t])[0] = Home /\ Len(path[t]) - Len(path[t]) = 0
      BY <1>2, WalkSteps DEF RealWalk
    <2>4. \A C : OnTrack(t, C)'
      BY <1>3, <2>1, <2>3 DEF OnTrack, RealWalk
    <2>5. Suffix(rest'[t], path'[t]) /\ at'[t] # NoNode
      BY <1>2, <2>1, HomeAssumption DEF Suffix
    <2>6. QED
      BY <1>2, <1>3, <1>4, <2>1, <2>2, <2>4, <2>5, VisitorGoesOn DEF mapVars
  <1>7. QED  BY <1>5, <1>6

(* What is put is what the real walk has found, or a copy. *)
LEMMA PutStep ==
    ASSUME PathsInv, NEW t \in Visitors, Put(t)
    PROVE  PathsInv'
  <1> USE DEF Put
  <1>1. TypeOK /\ pc[t] = "put" /\ at[t] # NoNode /\ at[t] \in Nodes
    BY DEF PathsInv, VisitInv, TypeOK
  <1>2. /\ own[t] \in 0..MaxWrites /\ own[t] <= writes /\ path[t] \in Queries
        /\ \A m \in 0..MaxWrites : Fresh(m) /\ own[t] = m => OnTrack(t, Copies)
        /\ quiet[t] => /\ peek = None /\ (edit = None \/ edit.step = "deleting")
                       /\ Fresh(own[t])
    BY <1>1, AtWork
  <1>3. Others(t) /\ pc'[t] = "get"
    BY <1>1 DEF Others, TypeOK
  <1>4. \A m \in 0..MaxWrites : \A p \in Queries :
            maps'[m][p] = IF m = own[t] /\ p = path[t] THEN at[t] ELSE maps[m][p]
    BY <1>1, <1>2 DEF TypeOK
  <1>5. TypeOK'
    <2>1. maps' \in [0..MaxWrites -> [Queries -> Nodes \cup {NoNode}]]
      BY <1>1, <1>2 DEF TypeOK
    <2>2. QED  BY <1>1, <2>1 DEF TypeOK, treeVars
  <1>6. ASSUME NEW m \in 0..MaxWrites, NEW p \in Queries, Fresh(m)
        PROVE  maps'[m][p] \in Copies \cup {maps[m][p], RealAt(p)}
    BY <1>1, <1>2, <1>4, <1>6 DEF OnTrack
  <1>7. \A C : OnTrack(t, C)'
    BY <1>3 DEF OnTrack
  <1>8. quiet'[t] => \E m \in 0..MaxWrites : m = own'[t] /\ Fresh(m)
    BY <1>2
  <1>9. \A m \in 0..MaxWrites : \A p \in Queries : maps[m][p] # NoNode => maps'[m][p] # NoNode
    BY <1>1, <1>4
  <1>10. maps'[own'[t]][path'[t]] # NoNode
    BY <1>1, <1>2, <1>4
  <1>11. QED
    BY <1>2, <1>3, <1>5, <1>6, <1>7, <1>8, <1>9, <1>10, VisitorGoesOn

(* A visitor that leaves has nothing to keep. *)
LEMMA GetStep ==
    ASSUME PathsInv, NEW t \in Visitors, Get(t)
    PROVE  PathsInv'
  <1> USE DEF Get
  <1>1. TypeOK /\ writes \in 0..MaxWrites
    BY DEF PathsInv, TypeOK
  <1>2. Others(t) /\ pc'[t] = "idle" /\ ~quiet'[t] /\ own'[t] = 0
    BY <1>1 DEF Others, TypeOK
  <1>3. TypeOK'
    <2>1. 0 \in 0..MaxWrites /\ <<>> \in Seq(Ids)
      BY BoundAssumption
    <2>2. QED  BY <1>1, <2>1 DEF TypeOK, treeVars, mapVars
  <1>4. own'[t] <= writes
    BY <1>1, <1>2, BoundAssumption
  <1>5. QED  BY <1>2, <1>3, <1>4, VisitorGoesOn DEF mapVars

(* What a visitor finds at a node where the real walk leads, or at a copy; *)
(* while no copy is in the tree it finds the next node of the real walk.   *)
LEMMA FoundOnTrack ==
    ASSUME TypeOK, CopyInv, NEW C, C = Copies \/ (C = {} /\ peek = None),
           NEW n \in Nodes, NEW i \in Ids, Child(n, i) # NoNode
    PROVE  n \notin Copies /\ Child(n, i) \in C \cup {realChild[n][i]}
  <1>1. children[n] \in Seq(Nodes)
    BY DEF TypeOK
  <1>2. PICK k \in 1..Len(children[n]) : Child(n, i) = children[n][k]
    BY <1>1, ChildIsFirst, FirstOfTyping
  <1>3. n \notin Copies
    BY <1>2 DEF CopyInv
  <1>4. peek = None => Child(n, i) \notin Copies
    BY <1>2 DEF CopyInv, OnlyCopy, Shown
  <1>5. QED  BY <1>3, <1>4, ChildTyping

(* What it does not find there, the real walk does not find either. *)
LEMMA RealFound ==
    ASSUME TypeOK, NEW n \in Nodes, NEW i \in Ids, Child(n, i) = NoNode
    PROVE  realChild[n][i] = NoNode
  <1>1. Child(n, i) \in Copies \cup {realChild[n][i]}
    BY ChildTyping
  <1>2. QED  BY <1>1, HomeAssumption

(* One more id, the end of the path, or the end of the walk. *)
LEMMA WalkStep ==
    ASSUME PathsInv, NEW t \in Visitors, Walk(t)
    PROVE  PathsInv'
  <1> DEFINE p == path[t]
             r == rest[t]
             k == Len(p) - Len(r)
             c == Child(at[t], Head(r))
  <1>1. /\ TypeOK /\ CopyInv /\ pc[t] = "walk" /\ at[t] \in Nodes
        /\ Suffix(r, p) /\ r \in Seq(Ids)
    BY DEF Walk, PathsInv, VisitInv, TypeOK
  <1>2. /\ own[t] \in 0..MaxWrites /\ own[t] <= writes /\ p \in Queries
        /\ p \in Seq(Ids) /\ Len(p) \in Nat /\ realChild \in Steps
        /\ \A m \in 0..MaxWrites : Fresh(m) /\ own[t] = m => OnTrack(t, Copies)
        /\ quiet[t] => /\ peek = None /\ (edit = None \/ edit.step = "deleting")
                       /\ Fresh(own[t]) /\ OnTrack(t, {})
    BY <1>1, AtWork
  <1>3. Others(t) /\ realChild' = realChild
    BY <1>1, SameTree DEF Walk, Others, TypeOK
  <1>4. /\ UNCHANGED <<treeVars, edit, peek, writes, maps>>
        /\ path'[t] = p /\ own'[t] = own[t] /\ quiet'[t] = quiet[t]
    BY DEF Walk, mapVars
  <1>5. quiet'[t] => \E m \in 0..MaxWrites : m = own'[t] /\ Fresh(m)
    BY <1>2, <1>4
  <1>6. CASE r = <<>>
    <2>1. pc'[t] = "put" /\ at'[t] = at[t] /\ rest'[t] = r
      BY <1>1, <1>6 DEF Walk, TypeOK
    <2>2. TypeOK'
      BY <1>1, <1>6 DEF Walk, TypeOK, treeVars, mapVars
    <2>3. k = Len(p)
      BY <1>2, <1>6
    <2>4. \A C : OnTrack(t, C) => OnTrack(t, C)'
      BY <1>1, <1>3, <1>4, <2>1, <2>3 DEF OnTrack, RealAt, RealWalk
    <2>5. QED
      BY <1>1, <1>2, <1>3, <1>4, <1>5, <2>1, <2>2, <2>4, HomeAssumption, VisitorGoesOn
  <1>7. CASE r # <<>>
    <2>1. /\ k \in 0..Len(p) - 1 /\ Head(r) \in Ids /\ Head(r) = p[k + 1]
          /\ Tail(r) \in Seq(Ids) /\ Len(Tail(r)) = Len(r) - 1
          /\ \A j \in 1..Len(Tail(r)) : Tail(r)[j] = r[j + 1]
      <3> HIDE DEF p, r
      <3>1. /\ Len(r) \in Nat /\ Len(r) # 0 /\ Len(r) <= Len(p)
            /\ \A j \in 1..Len(r) : r[j] = p[Len(p) - Len(r) + j]
        BY <1>1, <1>7 DEF Suffix
      <3>2. Head(r) = r[1] /\ r[1] \in Ids /\ r[1] = p[Len(p) - Len(r) + 1]
        BY <1>1, <1>7, <3>1
      <3>3. /\ Tail(r) \in Seq(Ids) /\ Len(Tail(r)) = Len(r) - 1
            /\ \A j \in 1..Len(Tail(r)) : Tail(r)[j] = r[j + 1]
        BY <1>1, <1>7, HeadTailProperties
      <3>4. k \in 0..Len(p) - 1
        BY <1>2, <3>1
      <3>5. QED  BY <3>2, <3>3, <3>4
    <2>2. /\ c \in Places
          /\ \A C : C = Copies \/ (C = {} /\ peek = None) =>
                (c # NoNode =>
                    at[t] \notin Copies /\ c \in C \cup {realChild[at[t]][Head(r)]})
      BY <1>1, <2>1, ChildTyping, FoundOnTrack
    <2>3. /\ at'[t] = c
          /\ rest'[t] = IF c = NoNode THEN <<>> ELSE Tail(r)
          /\ pc'[t] = IF c = NoNode THEN "get" ELSE "walk"
      BY <1>1, <1>7 DEF Walk, TypeOK
    <2>4. TypeOK'
      <3>1. /\ at' = [at EXCEPT ![t] = c]
            /\ pc' = [pc EXCEPT ![t] = IF c = NoNode THEN "get" ELSE pc[t]]
            /\ rest' = [rest EXCEPT ![t] = IF c = NoNode THEN <<>> ELSE Tail(r)]
        BY <1>1, <1>7, <2>3 DEF Walk
      <3> HIDE DEF c
      <3>2. at' \in [Visitors -> Nodes \cup {NoNode}]
        BY <1>1, <2>2, <3>1 DEF TypeOK, Places
      <3>3. rest' \in [Visitors -> Seq(Ids)]
        <4>1. <<>> \in Seq(Ids)  OBVIOUS
        <4>2. QED  BY <1>1, <2>1, <3>1, <4>1 DEF TypeOK
      <3>4. pc' \in [Visitors -> {"idle", "check", "walk", "put", "get"}]
        BY <1>1, <3>1 DEF TypeOK
      <3>5. QED
        BY <1>1, <3>2, <3>3, <3>4 DEF Walk, TypeOK, treeVars, mapVars
    <2>5. /\ RealWalk(p)[k + 1] = IF RealWalk(p)[k] = NoNode THEN NoNode
                                  ELSE realChild[RealWalk(p)[k]][p[k + 1]]
          /\ RealWalk(p)[k + 1] = NoNode => RealAt(p) = NoNode
      <3>1. k + 1 \in 0..Len(p)
        <4> HIDE DEF k, p
        <4>1. QED  BY <1>2, <2>1
      <3>2. RealWalk(p)[k + 1] = NoNode => RealAt(p) = NoNode
        BY <1>2, <3>1, LostStaysLost DEF RealWalk, RealAt
      <3>3. RealWalk(p)[k + 1] = IF RealWalk(p)[k] = NoNode THEN NoNode
                                 ELSE realChild[RealWalk(p)[k]][p[k + 1]]
        <4> HIDE DEF k, p
        <4>1. QED  BY <1>2, <2>1, WalkSteps DEF RealWalk
      <3>4. QED  BY <3>2, <3>3
    <2>6. CASE c = NoNode
      <3>1. \A C : OnTrack(t, C)'
        BY <2>3, <2>6 DEF OnTrack
      <3>2. quiet[t] => RealAt(p) = NoNode
        <4> SUFFICES ASSUME quiet[t]  PROVE RealAt(p) = NoNode
          OBVIOUS
        <4>1. at[t] = RealWalk(p)[k]
          BY <1>1, <1>2 DEF OnTrack
        <4>2. realChild[at[t]][Head(r)] = NoNode
          BY <1>1, <1>2, <2>1, <2>6, RealFound
        <4>3. QED  BY <2>1, <2>5, <4>1, <4>2
      <3>3. QED
        BY <1>1, <1>2, <1>3, <1>4, <1>5, <2>3, <2>4, <2>6, <3>1, <3>2, VisitorGoesOn
    <2>7. CASE c # NoNode
      <3>1. Suffix(rest'[t], path'[t])
        <4>1. rest'[t] = Tail(r) /\ path'[t] = p
          BY <1>4, <2>3, <2>7
        <4> HIDE DEF p, r
        <4>2. ASSUME NEW j \in 1..Len(Tail(r))
              PROVE  Tail(r)[j] = p[Len(p) - Len(Tail(r)) + j]
          <5>1. Tail(r)[j] = r[j + 1] /\ j + 1 \in 1..Len(r)
            BY <1>1, <2>1
          <5>2. r[j + 1] = p[Len(p) - Len(r) + (j + 1)]
            BY <1>1, <5>1 DEF Suffix
          <5>3. Len(p) - Len(r) + (j + 1) = Len(p) - Len(Tail(r)) + j
            BY <1>1, <1>2, <2>1
          <5>4. QED  BY <5>1, <5>2, <5>3
        <4>3. Len(Tail(r)) <= Len(p)
          BY <1>1, <1>2, <2>1 DEF Suffix
        <4>4. QED  BY <4>1, <4>2, <4>3 DEF Suffix
      <3>2. ASSUME NEW C, C = Copies \/ (C = {} /\ peek = None), OnTrack(t, C)
            PROVE  OnTrack(t, C)'
        <4>1. at[t] = RealWalk(p)[k]
          BY <1>1, <2>2, <2>7, <3>2 DEF OnTrack
        <4>2. c \in C \cup {RealWalk(p)[k + 1]}
          BY <1>1, <2>1, <2>2, <2>5, <2>7, <3>2, <4>1, HomeAssumption
        <4>3. Len(p) - (Len(r) - 1) = k + 1
          BY <1>1, <1>2
        <4>4. QED
          BY <1>3, <1>4, <2>1, <2>3, <2>7, <4>2, <4>3 DEF OnTrack, RealWalk
      <3>3. QED
        BY <1>1, <1>2, <1>3, <1>4, <1>5, <2>3, <2>4, <2>7, <3>1, <3>2, VisitorGoesOn
    <2>8. QED  BY <2>6, <2>7
  <1>8. QED  BY <1>6, <1>7

(***************************************************************************)
(* The theorems                                                            *)
(***************************************************************************)

(* Every step keeps the invariant. *)
LEMMA NextPaths == PathsInv /\ [Next]_vars => PathsInv'
  <1> SUFFICES ASSUME PathsInv, [Next]_vars  PROVE PathsInv'
    OBVIOUS
  <1>1. CASE UNCHANGED vars
    <2>1. realChild' = realChild
      BY <1>1, SameTree DEF vars
    <2>2. TypeOK' /\ EditInv' /\ CopyInv' /\ VisitInv'
      BY <1>1 DEF PathsInv, TypeOK, EditInv, CopyInv, OnlyCopy, Shown, VisitInv, Suffix,
                  vars, treeVars, mapVars, visitVars
    <2>3. MapInv' /\ QuietInv'
      BY <1>1, <2>1 DEF PathsInv, MapInv, QuietInv, Fresh, OnTrack, RealAt, RealWalk,
                        vars, mapVars, visitVars
    <2>4. QED  BY <2>2, <2>3 DEF PathsInv
  <1>2. CASE Next
    BY <1>2, BeginMoveStep, BeginCreateStep, BeginRenameStep, BeginDeleteStep, AttachStep,
       NameStep, RelocateStep, SaveStep, DetachNodeStep, BeginPeekStep, NamePeekStep,
       EndPeekStep, FetchStep, CheckStep, WalkStep, PutStep, GetStep DEF Next
  <1>3. QED  BY <1>1, <1>2

(* The invariant holds throughout. *)
THEOREM Invariance == Spec => []PathsInv
  BY InitPaths, NextPaths, PTL DEF Spec

(* Every variable keeps its type, whatever is moved, named, shown or       *)
(* deleted, and whoever asks for a path meanwhile.                         *)
THEOREM Typing == Spec => []TypeOK
  <1>1. PathsInv => TypeOK
    BY DEF PathsInv
  <1>2. QED  BY <1>1, Invariance, PTL

(* While no copy is in the tree, the real walk is that of getChild. *)
LEMMA RealIsActual ==
    ASSUME TypeOK, CopyInv, peek = None, NEW p \in Seq(Ids)
    PROVE  NodeAt(p) = RealAt(p)
  <1>1. ASSUME NEW n \in Nodes, NEW i \in Ids  PROVE Child(n, i) = realChild[n][i]
    <2>1. CASE Child(n, i) = NoNode
      BY <2>1, RealFound
    <2>2. CASE Child(n, i) # NoNode
      <3>1. Child(n, i) \in {} \cup {realChild[n][i]}
        BY <2>2, FoundOnTrack
      <3>2. QED  BY <3>1
    <2>3. QED  BY <2>1, <2>2
  <1>2. childOf = realChild
    <2>1. realChild = [n \in Nodes |-> [i \in Ids |-> realChild[n][i]]]
      BY DEF realChild
    <2>2. QED  BY <1>1, <2>1 DEF childOf
  <1>3. QED  BY <1>2, NodeAtIsWalk DEF RealAt, RealWalk

(* Once every change is saved, the map that the next lookup fetches holds  *)
(* nothing stale, whatever walks were under way while nodes moved.         *)
THEOREM SavedMapIsFresh ==
    Spec => [](edit = None /\ peek = None =>
                  \A p \in Queries : maps[writes][p] \in Copies \cup {NoNode, NodeAt(p)})
  <1>1. ASSUME PathsInv, edit = None, peek = None, NEW p \in Queries
        PROVE  maps[writes][p] \in Copies \cup {NoNode, NodeAt(p)}
    <2>1. Fresh(writes)
      BY <1>1 DEF PathsInv, MapInv
    <2>2. NodeAt(p) = RealAt(p)
      BY <1>1, IdsAssumption, RealIsActual DEF PathsInv
    <2>3. QED  BY <2>1, <2>2 DEF Fresh
  <1>2. PathsInv => (edit = None /\ peek = None =>
            \A p \in Queries : maps[writes][p] \in Copies \cup {NoNode, NodeAt(p)})
    BY <1>1
  <1>3. QED  BY <1>2, Invariance, PTL

(* A lookup during which nothing changes, and before which every change    *)
(* was saved, returns the node at the path, or the copy of a preview.      *)
THEOREM LookupsFindPath == Spec => []AnswerAtPath
  <1>1. PathsInv => AnswerAtPath
    <2> SUFFICES ASSUME PathsInv, NEW t \in Visitors, pc[t] = "get", quiet[t]
                 PROVE  maps[own[t]][path[t]] \in {NodeAt(path[t])} \cup Copies
      BY DEF AnswerAtPath
    <2>1. /\ path[t] \in Queries /\ path[t] \in Seq(Ids) /\ peek = None /\ Fresh(own[t])
          /\ maps[own[t]][path[t]] # NoNode \/ RealAt(path[t]) = NoNode
      BY AtWork DEF PathsInv, QuietInv
    <2>2. NodeAt(path[t]) = RealAt(path[t])
      BY <2>1, RealIsActual DEF PathsInv
    <2>3. maps[own[t]][path[t]] \in Copies \cup {NoNode, RealAt(path[t])}
      BY <2>1 DEF Fresh
    <2>4. QED  BY <2>1, <2>2, <2>3
  <1>2. QED  BY <1>1, Invariance, PTL
=============================================================================
