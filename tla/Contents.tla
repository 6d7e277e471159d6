------------------------------- MODULE Contents -------------------------------
(***************************************************************************)
(* Deletion in the CMS (jease.cms.service.Contents): contents go to the    *)
(* trash that guards them and from there out of the tree, together with    *)
(* the references to them, unless they hold the root folder of a user.     *)
(*                                                                         *)
(* A node without a parent, other than Home, is not in the tree and not in *)
(* the database (module NodeTree): it is new, or was deleted and is still  *)
(* shown by some editor, which may save it.  A request is one step, but    *)
(* the loop that empties a trash goes from one transaction to the next, so *)
(* other sessions work in between; one such loop runs at a time.           *)
(***************************************************************************)
EXTENDS Ancestry

CONSTANTS Home,
          Folders, Trashes,  \* the containers
          References,        \* symbolic links to contents
          MaxNodes,          \* bound on the nodes that are in the tree at once
          MaxRoots           \* bound on the roots of all users

Containers == Folders \cup Trashes

ASSUME KindAssumption ==
    /\ Folders \subseteq Nodes /\ Trashes \subseteq Nodes /\ References \subseteq Nodes
    /\ Folders \cap Trashes = {} /\ Containers \cap References = {}
    /\ Home \in Folders /\ MaxNodes \in Nat /\ MaxRoots \in Nat
ASSUME FiniteAssumption == IsFiniteSet(Nodes)

VARIABLES
    parent,  \* the parents; children[p] is {n : parent[n] = p} (NodeTree)
    ref,     \* the content of a reference
    roots,   \* the roots of all users
    todo     \* what the loop that empties a trash still has to delete

vars == <<parent, ref, roots, todo>>

TypeOK ==
    /\ parent \in [Nodes -> Containers \cup {NoNode}]
    /\ ref \in [References -> Nodes \cup {NoNode}]
    /\ roots \subseteq Folders \cup Trashes
    /\ todo \subseteq Nodes \ {Home}

Init ==
    /\ parent = [n \in Nodes |-> NoNode]
    /\ ref = [r \in References |-> NoNode]
    /\ roots = {Home}
    /\ todo = {}

Up(n) == Above(parent, n)
Tree == {n \in Nodes : Home \in Up(n)}
ChildrenOf(p) == {n \in Nodes : parent[n] = p}

(***************************************************************************)
(* What decides about a deletion                                           *)
(***************************************************************************)

(* Mutant: only the content itself is compared with the roots. *)
IsDeletable_NotBelow(n) == n \notin roots

(* No root of a user is the content or below it. *)
IsDeletable(n) == \A f \in roots : n \notin Up(f)

(* Mutant: only trashes beside the content guard it. *)
Guards_SiblingsOnly(n) == ChildrenOf(parent[n]) \cap Trashes

(* Mutant: a trash in the content itself guards it, too. *)
Guards_FromContent(n) ==
    LET above == Up(n)
        guarding == {g \in Trashes : parent[g] \in above}
    IN  {g \in guarding : \A h \in guarding : parent[g] \in Up(parent[h])
                                           => parent[g] = parent[h]}

(* getGuards of the parent of n: the trashes in the nearest container      *)
(* above n that has one.                                                   *)
Guards(n) ==
    LET above == Up(n) \ {n}
        guarding == {g \in Trashes : parent[g] \in above}
    IN  {g \in guarding : \A h \in guarding : parent[g] \in Up(parent[h])
                                           => parent[g] = parent[h]}

(* The stored references whose content is below n. *)
RefsTo(n) == {r \in References : /\ ref[r] # NoNode /\ n \in Up(ref[r])
                                 /\ Home \in Up(r)}

(* Mutant: references to references stay. *)
ReferencesTo_Direct(n) == RefsTo(n)

(* Those that deleteReferences(n) deletes: also the references to these. *)
ReferencesTo(n) ==
    LET closed == {S \in SUBSET References :
                      RefsTo(n) \subseteq S /\ \A r \in S : RefsTo(r) \subseteq S}
    IN  {r \in References : \A S \in closed : r \in S}

(***************************************************************************)
(* Contents.delete                                                         *)
(***************************************************************************)

(* Nodes.delete of the nodes in S, each with all that is below it. *)
Remove(S) ==
    LET gone == {n \in Nodes : Up(n) \cap S # {}}
    IN  /\ parent' = [n \in Nodes |-> IF n \in gone THEN NoNode ELSE parent[n]]
        /\ ref' = [r \in References |-> IF r \in gone THEN NoNode ELSE ref[r]]

(* delete(n) for a content that is no trash. *)
Dispose(n) ==
    LET guards == Guards(n) IN
    \/ \E g \in guards \ Up(n) :
          /\ parent' = [parent EXCEPT ![n] = g]
          /\ UNCHANGED ref
    \/ /\ guards = {} \/ guards \cap Up(n) # {}
       /\ IF IsDeletable(n)
          THEN Remove({n} \cup ReferencesTo(n))
          ELSE UNCHANGED <<parent, ref>>

(* A user deletes a content in its editor, which the root has no button    *)
(* for.  Of a trash with something in it, the children are deleted.        *)
Delete(n) ==
    /\ n # Home /\ Home \in Up(n)
    /\ \/ n \notin Trashes /\ Dispose(n) /\ UNCHANGED todo
       \/ /\ n \in Trashes /\ ChildrenOf(n) = {}
          /\ Remove({n}) /\ UNCHANGED todo
       \/ /\ n \in Trashes /\ ChildrenOf(n) # {} /\ todo = {}
          /\ todo' = ChildrenOf(n) /\ UNCHANGED <<parent, ref>>
    /\ UNCHANGED roots

(* The administrator empties all trashes of what is older than some days. *)
EmptyTrash(old) ==
    /\ todo = {} /\ old # {}
    /\ \A n \in old : parent[n] \in Trashes /\ Home \in Up(n)
    /\ todo' = old
    /\ UNCHANGED <<parent, ref, roots>>

(* One round of the loop.  Of a content that another session has deleted,  *)
(* and that no other has saved again since, delete() of a trash takes no   *)
(* notice, and emptyTrash only deletes the references to it.  The children *)
(* of a trash in the trash join the list: in the code they come before the *)
(* rest of it.                                                             *)
DeleteNext(n) ==
    /\ n \in todo
    /\ \/ /\ parent[n] = NoNode \/ ~IsDeletable(n)
          /\ todo' = todo \ {n} /\ UNCHANGED <<parent, ref>>
       \/ /\ IsDeletable(n) /\ n \notin Trashes
          /\ Dispose(n) /\ todo' = todo \ {n}
       \/ /\ IsDeletable(n) /\ n \in Trashes /\ ChildrenOf(n) = {}
          /\ Remove({n}) /\ todo' = todo \ {n}
       \/ /\ IsDeletable(n) /\ n \in Trashes /\ ChildrenOf(n) # {}
          /\ todo' = (todo \ {n}) \cup ChildrenOf(n) /\ UNCHANGED <<parent, ref>>
    /\ UNCHANGED roots

(***************************************************************************)
(* The other requests                                                      *)
(***************************************************************************)

(* The tree has room for n, or n is in it. *)
Room(n) == Home \in Up(n) \/ Cardinality(Tree) < MaxNodes

(* Mutant: a drop on a content that is no container. *)
Append_AnyParent(p, n) ==
    /\ n # Home /\ Home \in Up(p) /\ n \notin Up(p) /\ Room(n)
    /\ n \in References => ref[n] # NoNode
    /\ parent' = [parent EXCEPT ![n] = p]
    /\ UNCHANGED <<ref, roots, todo>>

(* A new content, or a drop; a reference already has its content. *)
Append(p, n) ==
    /\ p \in Containers /\ n # Home
    /\ Home \in Up(p) /\ n \notin Up(p) /\ Room(n)
    /\ n \in References => ref[n] # NoNode
    /\ parent' = [parent EXCEPT ![n] = p]
    /\ UNCHANGED <<ref, roots, todo>>

(* The editor of a reference saves the content that was chosen from a list *)
(* it loaded before: by now the content may have been deleted.             *)
EditReference(p, r, c) ==
    /\ ref' = [ref EXCEPT ![r] = c]
    /\ \/ Home \in Up(r) /\ p = parent[r] /\ UNCHANGED parent
       \/ /\ Home \notin Up(r) /\ Room(r) /\ p \in Containers /\ Home \in Up(p)
          /\ parent' = [parent EXCEPT ![r] = p]
    /\ UNCHANGED <<roots, todo>>

(* The administrator gives a user other roots, from a list of containers   *)
(* that was loaded before: trashes are among them, and deleted ones.       *)
EditRoots(S) ==
    /\ Home \in S /\ S \subseteq Containers /\ Cardinality(S) <= MaxRoots
    /\ roots' = S
    /\ UNCHANGED <<parent, ref, todo>>

(* Nobody chooses chains of references that lead back to themselves. *)
Choices(r) == Nodes \ (ReferencesTo(r) \cup {r})

Next ==
    \/ \E n \in Nodes : Delete(n) \/ DeleteNext(n)
    \/ \E old \in SUBSET {n \in Nodes : parent[n] \in Trashes} : EmptyTrash(old)
    \/ \E p, n \in Nodes : Append(p, n)
    \/ \E r \in References : \E c \in Choices(r), p \in Containers : EditReference(p, r, c)
    \/ \E S \in SUBSET Containers : EditRoots(S)

Spec == Init /\ [][Next]_vars

(***************************************************************************)
(* Properties                                                              *)
(***************************************************************************)

(* The root folders of the users stay, whatever is deleted above or below  *)
(* them, from a trash or not.  (Contents.delete asks isDeletable, but of   *)
(* an empty trash.  A root may be out of the tree from the beginning.)     *)
RootsStay ==
    [][\A f \in (roots \cap Tree) \ Tree' : f \in Trashes /\ ChildrenOf(f) = {}]_vars

(* No deletion leaves a reference that leads out of the tree, but to what  *)
(* had been deleted when it was chosen: deleteReferences, which is not     *)
(* called for an empty trash.                                              *)
NoDanglingReference ==
    [][\A r \in References \cap Tree \cap Tree' :
          ref[r] \in Tree /\ ref'[r] \notin Tree' =>
              \/ ref'[r] # ref[r]
              \/ ref[r] \in Trashes /\ ChildrenOf(ref[r]) = {}]_vars

(* The trash takes contents without a validation, and still no content     *)
(* ends up below itself.                                                   *)
Acyclic == NoCycle(parent)

(* What is under the guard of a trash and not in it does not leave the     *)
(* tree: only trashes, contents in a trash, contents without a guard, what *)
(* is below these, and references to contents that leave do.               *)
Unprotected(n) ==
    \/ n \in Trashes
    \/ n \in References /\ ref[n] \notin Tree'
    \/ \A g \in Trashes : parent[g] \notin Up(n) \ {n}
    \/ Up(n) \cap Trashes # {}

GuardedContentsStay ==
    [][\A n \in Tree \ Tree' : \E m \in Up(n) \ Tree' : Unprotected(m)]_parent
=============================================================================
