--------------------------- MODULE ObjectGraphProofs ---------------------------
(***************************************************************************)
(* The objects of module ObjectGraph, for any classes of objects: what a   *)
(* saved object holds stays in the database, values stay with their owner, *)
(* and delete() decides about the references before its transaction.       *)
(***************************************************************************)
EXTENDS ObjectGraph, TLAPS

USE LinkAssumption, OwnerAssumption, BoundAssumption

(* The first count of delete() still holds, unless a setter interferes.    *)
NoReferrer ==
    deleting # NoEntity /\ ~raced => \A o \in stored : <<o, deleting>> \notin refs

GraphInv == StoreWellFormed /\ NoReferrer

LEMMA InitGraph == Init => GraphInv
  <1> SUFFICES ASSUME Init  PROVE GraphInv
    OBVIOUS
  <1>1. crashes \in 0..MaxCrashes  BY DEF Init
  <1>2. TypeOK  BY <1>1 DEF Init, TypeOK
  <1>3. StoreWellFormed  BY <1>2 DEF Init, StoreWellFormed
  <1>4. NoReferrer  BY DEF Init, NoReferrer
  <1>5. QED  BY <1>3, <1>4 DEF GraphInv

(* Garbage is held by no stored object, and what delete() cascades to is   *)
(* held by the deleted object alone.                                       *)
LEMMA Unheld ==
    ASSUME TypeOK, NEW e \in Entities, NEW R \in {{}, Garbage, Cascade(e)},
           NEW l \in refs, l[1] \in stored \ R, l[2] \in Values
    PROVE  l[2] \notin R
  <1>1. l \in Links /\ l = <<l[1], l[2]>>  BY DEF TypeOK, Objects
  <1>2. CASE R = Garbage  BY <1>1, <1>2 DEF Garbage
  <1>3. CASE R = Cascade(e)
    <2>1. e \in R /\ \A v \in R : v = e \/ <<e, v>> \in refs
      BY <1>3 DEF Cascade, ValuesOf
    <2>2. l[2] \in R => <<e, l[2]>> \in Links  BY <2>1 DEF TypeOK
    <2>3. l[2] \in R => <<e, l[2]>> = l  BY <1>1, <2>2
    <2>4. QED  BY <2>1, <2>3
  <1>4. QED  BY <1>2, <1>3

(* No saved object loses a value, whatever is deleted or collected: every  *)
(* set that the code removes is of this kind.                              *)
LEMMA RemoveKeeps ==
    ASSUME StoreWellFormed, NEW e \in Entities, NEW R \in {{}, Garbage, Cascade(e)},
           Remove(R), UNCHANGED <<refs, touched>>, TypeOK'
    PROVE  StoreWellFormed'
  <1>1. stored' = stored \ R /\ saved' = {l \in saved : l[1] \notin R}
    BY DEF Remove
  <1>2. \A l \in saved' : l[1] \in stored'
    BY <1>1 DEF StoreWellFormed
  <1>3. ASSUME NEW l \in (saved' \cap refs) \ touched, l[2] \in Values
        PROVE  l[2] \in stored'
    <2>1. l[1] \in stored \ R /\ l[2] \in stored  BY <1>1, <1>3 DEF StoreWellFormed
    <2>2. l[2] \notin R  BY <1>3, <2>1, Unheld DEF StoreWellFormed
    <2>3. QED  BY <1>1, <2>1, <2>2
  <1>4. QED  BY <1>2, <1>3 DEF StoreWellFormed

(* What is removed was of the database. *)
LEMMA RemoveTypes ==
    ASSUME TypeOK, NEW R, Remove(R), UNCHANGED refs
    PROVE  stored' \subseteq Objects /\ saved' \subseteq Links
           /\ stored' \subseteq stored /\ refs' \subseteq Links
  BY DEF TypeOK, Remove

(* A deletion that is not under way says nothing. *)
LEMMA FewerStored ==
    ASSUME NoReferrer, stored' \subseteq stored, UNCHANGED <<refs, raced>>,
           deleting' \in {deleting, NoEntity}
    PROVE  NoReferrer'
  BY DEF NoReferrer

(* save() stores an object with all the values below it. *)
LEMMA SaveStep ==
    ASSUME GraphInv, NEW e \in Entities, Save(e)  PROVE GraphInv'
  <1> DEFINE E == Enclosed(e)
  <1>1. /\ stored' = stored \cup E /\ refs' = refs
        /\ saved' = {l \in saved : l[1] \notin E} \cup {l \in refs : l[1] \in E}
        /\ touched' = {l \in touched : l[1] \notin E}
    BY DEF Save
  <1>2. refs \subseteq Links /\ stored \subseteq Objects /\ saved \subseteq Links
        /\ touched \subseteq ValueLinks
    BY DEF GraphInv, StoreWellFormed, TypeOK
  <1>3. E \subseteq Objects
    BY DEF Enclosed, ValuesOf, Objects
  <1>4. ASSUME NEW l \in refs, l[1] \in E, l[2] \in Values  PROVE l[2] \in E
    <2>0. l \in Links /\ l = <<l[1], l[2]>>  BY <1>2 DEF Objects
    <2>1. CASE l[1] = e
      BY <1>4, <2>0, <2>1 DEF Enclosed, ValuesOf
    <2>2. CASE l[1] \in ValuesOf({e})
      <3>1. l[2] \in ValuesOf(ValuesOf({e}))  BY <1>4, <2>0, <2>2 DEF ValuesOf
      <3>2. QED  BY <3>1 DEF Enclosed
    <2>3. CASE l[1] \in ValuesOf(ValuesOf({e}))
      <3>1. PICK o \in ValuesOf({e}) : <<o, l[1]>> \in refs
        BY <2>3 DEF ValuesOf
      <3>2. o \in Values  BY DEF ValuesOf
      <3> DEFINE k == <<o, l[1]>>
      <3>3. k \in Links /\ k[1] \in Values /\ l[1] = k[2]
        BY <1>2, <3>1, <3>2
      <3>4. l[2] \notin Values  BY <2>0, <3>3
      <3>5. QED  BY <1>4, <3>4
    <2>4. QED  BY <1>4, <2>1, <2>2, <2>3 DEF Enclosed
  <1> HIDE DEF E
  <1>5. TypeOK'
    BY <1>1, <1>2, <1>3 DEF Save, deleteVars, GraphInv, StoreWellFormed, TypeOK
  <1>6. \A l \in saved' : l[1] \in stored'
    BY <1>1 DEF GraphInv, StoreWellFormed
  <1>7. \A l \in (saved' \cap refs') \ touched' : l[2] \in Values => l[2] \in stored'
    <2> SUFFICES ASSUME NEW l \in (saved' \cap refs) \ touched', l[2] \in Values
                 PROVE  l[2] \in stored'
      BY <1>1
    <2>1. CASE l[1] \in E  BY <1>1, <1>4, <2>1
    <2>2. CASE l[1] \notin E
      BY <1>1, <2>2 DEF GraphInv, StoreWellFormed
    <2>3. QED  BY <2>1, <2>2
  <1>8. NoReferrer'
    BY DEF Save, Unlocked, deleteVars, NoReferrer
  <1>9. QED  BY <1>5, <1>6, <1>7, <1>8 DEF GraphInv, StoreWellFormed

(* A setter changes fields in memory; a field for values counts as touched. *)
LEMMA SetterStep ==
    ASSUME GraphInv, NEW o \in Objects, NEW p \in Objects, Assign(o, p) \/ Unassign(o, p)
    PROVE  GraphInv'
  <1>1. UNCHANGED <<stored, saved, deleteVars, up, scheduled, timer, crashes>>
        /\ touched' = touched \cup ({<<o, p>>} \cap ValueLinks)
    BY DEF Assign, Unassign
  <1>2. TypeOK'
    BY <1>1 DEF Assign, Unassign, deleteVars, GraphInv, StoreWellFormed, TypeOK
  <1>3. \A l \in (saved' \cap refs') \ touched' : l[2] \in Values => l[2] \in stored'
    <2> SUFFICES ASSUME NEW l \in (saved \cap refs') \ touched', l[2] \in Values
                 PROVE  l[2] \in stored
      BY <1>1
    <2>1. l \in Links  BY DEF GraphInv, StoreWellFormed, TypeOK
    <2>2. l \in ValueLinks  BY <2>1 DEF ValueLinks
    <2>3. l # <<o, p>> /\ l \notin touched  BY <1>1, <2>2
    <2>4. l \in refs  BY <2>3 DEF Assign, Unassign
    <2>5. QED  BY <2>3, <2>4 DEF GraphInv, StoreWellFormed
  <1>4. \A l \in saved' : l[1] \in stored'
    BY <1>1 DEF GraphInv, StoreWellFormed
  <1>5. NoReferrer'
    BY <1>1 DEF Assign, Unassign, deleteVars, GraphInv, NoReferrer
  <1>6. QED  BY <1>2, <1>3, <1>4, <1>5 DEF GraphInv, StoreWellFormed

(* delete() starts its transaction only if no stored object refers to e. *)
LEMMA BeginStep ==
    ASSUME GraphInv, NEW e \in Deletable, DeleteBegin(e)  PROVE GraphInv'
  <1> DEFINE collected == IF Referrers(e, stored) = {} THEN {} ELSE Garbage
  <1>1. /\ Remove(collected) /\ UNCHANGED <<refs, counted, up, timer, crashes, touched>>
        /\ deleting' = IF Referrers(e, stored \ collected) = {} THEN e ELSE NoEntity
        /\ scheduled' = (scheduled \/ collected # {})
        /\ raced' = FALSE
    BY DEF DeleteBegin
  <1>2. collected \in {{}, Garbage, Cascade(e)} /\ e \in Entities
    OBVIOUS
  <1> HIDE DEF collected
  <1>3. TypeOK'
    <2>1. stored' \subseteq Objects /\ saved' \subseteq Links
      BY <1>1, RemoveTypes DEF GraphInv, StoreWellFormed
    <2>2. deleting' \in Deletable \cup {NoEntity} /\ scheduled' \in BOOLEAN
      BY <1>1 DEF GraphInv, StoreWellFormed, TypeOK
    <2>3. QED  BY <1>1, <2>1, <2>2 DEF GraphInv, StoreWellFormed, TypeOK
  <1>4. StoreWellFormed'  BY <1>1, <1>2, <1>3, RemoveKeeps DEF GraphInv
  <1>5. NoReferrer'
    <2> SUFFICES ASSUME deleting' # NoEntity, NEW o \in stored'
                 PROVE  <<o, deleting'>> \notin refs
      BY <1>1 DEF NoReferrer
    <2>1. deleting' = e /\ Referrers(e, stored \ collected) = {}
          /\ o \in stored \ collected
      BY <1>1 DEF Remove
    <2>2. <<o, e>> \notin refs \cap Declared  BY <2>1 DEF Referrers
    <2>3. <<o, e>> \in Links => <<o, e>> \in Declared
      <3> DEFINE k == <<o, e>>
      <3>1. k[2] = e  OBVIOUS
      <3>2. k \in Links => k \in Declared  BY <3>1
      <3>3. QED  BY <3>2
    <2>4. QED  BY <2>1, <2>2, <2>3 DEF GraphInv, StoreWellFormed, TypeOK
  <1>6. QED  BY <1>4, <1>5 DEF GraphInv

(* The steps of the transaction of delete(). *)
LEMMA TransactionStep ==
    ASSUME GraphInv, NEW e \in Deletable, DeleteCount(e) \/ DeleteFails(e) \/ DeleteRemove(e)
    PROVE  GraphInv'
  <1>1. CASE DeleteCount(e)
    BY <1>1 DEF DeleteCount, GraphInv, StoreWellFormed, TypeOK, NoReferrer
  <1>2. CASE DeleteFails(e)
    BY <1>2 DEF DeleteFails, GraphInv, StoreWellFormed, TypeOK, NoReferrer
  <1>3. CASE DeleteRemove(e)
    <2>1. /\ Remove(Cascade(e)) /\ deleting' = NoEntity /\ counted' = FALSE
          /\ scheduled' = TRUE /\ UNCHANGED <<refs, up, timer, crashes, raced, touched>>
      BY <1>3 DEF DeleteRemove
    <2>2. TypeOK'
      BY <2>1, RemoveTypes DEF GraphInv, StoreWellFormed, TypeOK
    <2>3. StoreWellFormed'
      BY <2>1, <2>2, RemoveKeeps DEF GraphInv
    <2>4. NoReferrer'  BY <2>1 DEF NoReferrer
    <2>5. QED  BY <2>3, <2>4 DEF GraphInv
  <1>4. QED  BY <1>1, <1>2, <1>3

(* Nodes are deleted without a look at references. *)
LEMMA DeliberateStep ==
    ASSUME GraphInv, NEW e \in Entities, DeleteDeliberately(e)  PROVE GraphInv'
  <1>1. /\ Remove(Cascade(e)) /\ scheduled' = TRUE
        /\ UNCHANGED <<refs, deleting, counted, up, timer, crashes, raced, touched>>
    BY DEF DeleteDeliberately, deleteVars
  <1>2. TypeOK'  BY <1>1, RemoveTypes DEF GraphInv, StoreWellFormed, TypeOK
  <1>3. StoreWellFormed'  BY <1>1, <1>2, RemoveKeeps DEF GraphInv
  <1>4. NoReferrer'
    BY <1>1, RemoveTypes, FewerStored DEF GraphInv, StoreWellFormed
  <1>5. QED  BY <1>3, <1>4 DEF GraphInv

(* gc(), called or by the timer. *)
LEMMA CollectStep ==
    ASSUME GraphInv, Gc \/ Maintain  PROVE GraphInv'
  <1>1. /\ Remove(Garbage) /\ scheduled' \in BOOLEAN /\ timer' \in BOOLEAN
        /\ UNCHANGED <<refs, deleting, counted, up, crashes, raced, touched>>
    BY DEF Gc, Maintain, deleteVars, GraphInv, StoreWellFormed, TypeOK
  <1>2. TypeOK'  BY <1>1, RemoveTypes DEF GraphInv, StoreWellFormed, TypeOK
  <1>3. StoreWellFormed'
    <2>1. CASE Entities = {}
      <3>1. \A l \in (saved \cap refs) : l[1] \in stored /\ l[2] \in Values
                                          => l[2] \notin Garbage
        BY DEF Garbage, GraphInv, StoreWellFormed, TypeOK, Objects
      <3>2. stored' = stored \ Garbage /\ saved' = {l \in saved : l[1] \notin Garbage}
        BY <1>1 DEF Remove
      <3>3. QED  BY <1>1, <1>2, <3>1, <3>2 DEF GraphInv, StoreWellFormed
    <2>2. ASSUME NEW e \in Entities  PROVE StoreWellFormed'
      BY <1>1, <1>2, <2>2, RemoveKeeps DEF GraphInv
    <2>3. QED  BY <2>1, <2>2
  <1>4. NoReferrer'
    BY <1>1, RemoveTypes, FewerStored DEF GraphInv, StoreWellFormed
  <1>5. QED  BY <1>3, <1>4 DEF GraphInv

(* After a start memory is what was saved. *)
LEMMA OpenStep ==
    ASSUME GraphInv, Crash \/ Restart  PROVE GraphInv'
  <1>1. Reopen /\ crashes' \in 0..MaxCrashes
    <2>1. CASE Crash
      <3>1. crashes \in 0..MaxCrashes /\ crashes < MaxCrashes /\ crashes' = crashes + 1
        BY <2>1 DEF Crash, GraphInv, StoreWellFormed, TypeOK
      <3>2. QED  BY <2>1, <3>1 DEF Crash
    <2>2. CASE Restart
      BY <2>2 DEF Restart, GraphInv, StoreWellFormed, TypeOK
    <2>3. QED  BY <2>1, <2>2
  <1>2. TypeOK'
    BY <1>1 DEF Reopen, GraphInv, StoreWellFormed, TypeOK
  <1>3. StoreWellFormed'
    BY <1>1, <1>2 DEF Reopen, GraphInv, StoreWellFormed
  <1>4. NoReferrer'  BY <1>1 DEF Reopen, NoReferrer
  <1>5. QED  BY <1>3, <1>4 DEF GraphInv

(* GraphInv holds in every state of every execution. *)
THEOREM Invariance == Spec => []GraphInv
  <1>1. GraphInv /\ [Next]_vars => GraphInv'
    <2> SUFFICES ASSUME GraphInv, [Next]_vars  PROVE GraphInv'
      OBVIOUS
    <2>1. CASE UNCHANGED vars
      BY <2>1 DEF vars, deleteVars, GraphInv, StoreWellFormed, TypeOK, NoReferrer
    <2>2. CASE Next
      BY <2>2, SetterStep, SaveStep, BeginStep, TransactionStep, DeliberateStep,
         CollectStep, OpenStep DEF Next, DeleteStep
    <2>3. QED  BY <2>1, <2>2
  <1>2. QED  BY InitGraph, <1>1, PTL DEF Spec

(* A saved object finds its values in the database, in any order of        *)
(* setters, saves (of deleted objects, too), deletions and collections.    *)
THEOREM SavedValuesStay == Spec => []StoreWellFormed
  <1>1. GraphInv => StoreWellFormed  BY DEF GraphInv
  <1>2. QED  BY Invariance, <1>1, PTL

(* What a step does to the stored objects and to the open database. *)
LEMMA StepKinds ==
    ASSUME GraphInv, [Next]_vars
    PROVE  /\ stored \subseteq stored' \/ stored' \subseteq stored
           /\ up /\ ~up' => \E e \in Deletable : DeleteFails(e)
  <1>1. CASE UNCHANGED vars  BY <1>1 DEF vars
  <1>2. ASSUME NEW o \in Objects, NEW p \in Objects, Assign(o, p) \/ Unassign(o, p)
        PROVE  stored' = stored /\ up' = up
    BY <1>2 DEF Assign, Unassign
  <1>3. ASSUME NEW e \in Entities, Save(e)
        PROVE  stored \subseteq stored' /\ up' = up
    BY <1>3 DEF Save
  <1>4. ASSUME NEW e \in Entities, DeleteDeliberately(e)
        PROVE  stored' \subseteq stored /\ up' = up
    BY <1>4 DEF DeleteDeliberately, Remove
  <1>5. ASSUME NEW e \in Deletable, DeleteBegin(e)
        PROVE  stored' \subseteq stored /\ up' = up
    BY <1>5 DEF DeleteBegin, Remove
  <1>6. ASSUME NEW e \in Deletable, DeleteCount(e) \/ DeleteRemove(e)
        PROVE  stored' \subseteq stored /\ up' = up
    BY <1>6 DEF DeleteCount, DeleteRemove, Remove
  <1>7. ASSUME NEW e \in Deletable, DeleteFails(e)
        PROVE  stored' = stored
    BY <1>7 DEF DeleteFails
  <1>8. ASSUME Gc \/ Maintain
        PROVE  stored' \subseteq stored /\ up' = up
    BY <1>8 DEF Gc, Maintain, Remove
  <1>9. CASE Crash \/ Restart  BY <1>9 DEF Crash, Restart, Reopen
  <1>10. QED
    BY <1>1, <1>2, <1>3, <1>4, <1>5, <1>6, <1>7, <1>8, <1>9 DEF Next, DeleteStep

(* Database.delete takes no entity that a stored object refers to, and does *)
(* not close the database, unless a reference was set while it ran: the     *)
(* count before the transaction is what decides.                            *)
THEOREM DeletionDecides == Spec => DeleteDecides
  <1>1. ASSUME GraphInv, [Next]_vars, up, ~up'  PROVE raced
    <2>1. PICK e \in Deletable : DeleteFails(e)  BY <1>1, StepKinds
    <2>2. deleting = e /\ \E o \in stored : <<o, e>> \in refs
      BY <2>1 DEF DeleteFails, Referrers
    <2>3. e # NoEntity  BY DEF Objects
    <2>4. QED  BY <1>1, <2>2, <2>3 DEF GraphInv, NoReferrer
  <1>2. ASSUME GraphInv, [Next]_vars, NEW e \in stored \ stored', deleting = e, ~raced,
               NEW o \in stored'
        PROVE  <<o, e>> \notin refs
    <2>1. o \in stored  BY <1>2, StepKinds
    <2>2. e # NoEntity  BY <1>2 DEF GraphInv, StoreWellFormed, TypeOK
    <2>3. QED  BY <1>2, <2>1, <2>2 DEF GraphInv, NoReferrer
  <1>3. GraphInv /\ [Next]_vars =>
            [/\ up /\ ~up' => raced
             /\ \A e \in stored \ stored' :
                   deleting = e /\ ~raced => \A o \in stored' : <<o, e>> \notin refs]_vars
    BY <1>1, <1>2
  <1>4. QED  BY Invariance, <1>3, PTL DEF Spec, DeleteDecides

(* Whatever a transaction deletes or collects, an object that stays keeps  *)
(* its values: what goes was held by nobody, or by the object that goes.   *)
THEOREM ValuesStay == Spec => ValuesStayWithOwner
  <1>1. ASSUME GraphInv, [Next]_vars, NEW v \in Values, v \in stored \ stored', NEW o \in stored'
        PROVE  <<o, v>> \notin refs
    <2>1. ASSUME NEW e \in Entities, NEW R \in {{}, Garbage, Cascade(e)}, Remove(R)
          PROVE  <<o, v>> \notin refs
      <3> SUFFICES ASSUME <<o, v>> \in refs  PROVE FALSE
        OBVIOUS
      <3> DEFINE l == <<o, v>>
      <3>1. l \in refs /\ l[1] = o /\ l[2] = v  OBVIOUS
      <3>2. v \in R /\ o \in stored \ R  BY <1>1, <2>1 DEF Remove
      <3>3. TypeOK  BY <1>1 DEF GraphInv, StoreWellFormed
      <3> HIDE DEF l
      <3>4. QED  BY <2>1, <3>1, <3>2, <3>3, Unheld
    <2>2. ASSUME NEW e \in Entities, DeleteDeliberately(e)  PROVE <<o, v>> \notin refs
      BY <2>1, <2>2 DEF DeleteDeliberately
    <2>3. ASSUME NEW e \in Deletable, DeleteBegin(e)  PROVE <<o, v>> \notin refs
      <3>1. e \in Entities /\ (Remove({}) \/ Remove(Garbage))
        BY <2>3 DEF DeleteBegin
      <3>2. QED  BY <2>1, <3>1
    <2>4. ASSUME NEW e \in Deletable, DeleteRemove(e)  PROVE <<o, v>> \notin refs
      <3>1. e \in Entities /\ Remove(Cascade(e))  BY <2>4 DEF DeleteRemove
      <3>2. QED  BY <2>1, <3>1
    <2>5. CASE Gc \/ Maintain
      BY <1>1, <2>5 DEF Gc, Maintain, Remove, Garbage
    <2>6. ASSUME NEW e \in Deletable, DeleteCount(e) \/ DeleteFails(e)  PROVE stored' = stored
      BY <2>6 DEF DeleteCount, DeleteFails
    <2>7. ASSUME NEW p \in Objects, NEW q \in Objects, Assign(p, q) \/ Unassign(p, q)
          PROVE  stored' = stored
      BY <2>7 DEF Assign, Unassign
    <2>8. ASSUME NEW e \in Entities, Save(e)  PROVE stored \subseteq stored'
      BY <2>8 DEF Save
    <2>9. CASE Crash \/ Restart \/ UNCHANGED vars
      BY <1>1, <2>9 DEF Crash, Restart, Reopen, vars
    <2>10. QED
      BY <1>1, <2>2, <2>3, <2>4, <2>5, <2>6, <2>7, <2>8, <2>9 DEF Next, DeleteStep
  <1>2. GraphInv /\ [Next]_vars =>
            [\A v \in Values : v \in stored \ stored' =>
                 \A o \in stored' : <<o, v>> \notin refs]_vars
    BY <1>1
  <1>3. QED  BY Invariance, <1>2, PTL DEF Spec, ValuesStayWithOwner
=============================================================================
