----------------------------- MODULE ObjectGraph -----------------------------
(***************************************************************************)
(* The references between the objects of the database: what save() and     *)
(* delete() cascade to, what delete() refuses, and what the garbage        *)
(* collector and the maintenance timer remove.                             *)
(*                                                                         *)
(* A transaction is one step here; module ObjectDatabase shows that the    *)
(* others see it as one.  delete() is several: it counts the referrers     *)
(* before its transaction and again inside it.  The references are fields  *)
(* in memory, which the application changes without any lock, at any time, *)
(* and before it saves the object; it may also change and save objects     *)
(* that another session has deleted.                                       *)
(*                                                                         *)
(* An entity has a life of its own; a value (Version, Property, Blob) is   *)
(* enclosed by one object, and values nest two deep at most (a Version or  *)
(* a Property holds a Blob).                                               *)
(***************************************************************************)
EXTENDS Naturals

CONSTANTS Entities, Values,
          Deletable,   \* entities that Database.delete is called for: User, Role, ...
          Links,       \* <<o, p>>: o has a field that may hold p
          Declared,    \* ... whose declared type is the class of p, or a subclass
          NoEntity,
          BackupFails, \* backup() may throw
          MaxCrashes   \* bound on the number of crashes

Objects == Entities \cup Values
ValueLinks == {l \in Links : l[2] \in Values}

ASSUME LinkAssumption ==
    /\ Entities \cap Values = {} /\ Deletable \subseteq Entities
    /\ NoEntity \notin Objects
    /\ Links \subseteq Objects \X Objects
    (* Fields of values are declared with the class of the value, those of   *)
    (* users, roles, ... with their class, which has no subclasses.          *)
    /\ \A l \in Links : l[2] \in Values \cup Deletable => l \in Declared
    (* Versions and properties hold at most a blob, and never an entity.     *)
    /\ \A l \in Links : l[1] \in Values => l[2] \in Values
    /\ \A l, m \in Links : m[1] = l[2] /\ l[1] \in Values => m[2] \notin Values
ASSUME BoundAssumption == MaxCrashes \in Nat
ASSUME OwnerAssumption ==
    \A l, m \in Links : l[2] \in Values /\ m[2] = l[2] => m = l

VARIABLES
    refs,       \* the references in memory
    stored,     \* the objects of the repository, and of the last commit
    saved,      \* the references on disk
    deleting,   \* the entity for which delete() holds the lock, or NoEntity
    counted,    \* ... its referrers were counted inside the transaction
    up,         \* the database is open
    scheduled,  \* maintenanceScheduled
    timer,      \* the thread of maintenanceTimer is alive
    crashes,
    raced,      \* history: a reference to "deleting" was set since delete() began
    touched     \* history: fields for values, changed since their object was saved

deleteVars == <<deleting, counted>>
vars == <<refs, stored, saved, deleting, counted, up, scheduled, timer, crashes,
          raced, touched>>

TypeOK ==
    /\ refs \subseteq Links /\ saved \subseteq Links
    /\ stored \subseteq Objects
    /\ deleting \in Deletable \cup {NoEntity} /\ counted \in BOOLEAN
    /\ up \in BOOLEAN /\ scheduled \in BOOLEAN /\ timer \in BOOLEAN
    /\ crashes \in 0..MaxCrashes
    /\ raced \in BOOLEAN /\ touched \subseteq ValueLinks

Init ==
    /\ refs = {} /\ saved = {}
    /\ stored = {}
    /\ deleting = NoEntity /\ counted = FALSE
    /\ up = TRUE /\ scheduled = FALSE /\ timer = TRUE
    /\ crashes = 0
    /\ raced = FALSE /\ touched = {}

(***************************************************************************)
(* What the code computes on the references                                *)
(***************************************************************************)

(* The values in the fields of S: executeOnValues. *)
ValuesOf(S) == {v \in Values : \E o \in S : <<o, v>> \in refs}

(* Mutant: the values of values are forgotten. *)
Enclosed_OneLevel(o) == {o} \cup ValuesOf({o})

(* What traverseAndSave puts: the object, its values and theirs. *)
Enclosed(o) == {o} \cup ValuesOf({o}) \cup ValuesOf(ValuesOf({o}))

(* What traverseAndDelete removes: it does not cascade on values. *)
Cascade(o) == {o} \cup ValuesOf({o})

(* getReferrers among the objects of S: only fields whose declared type is *)
(* the class of the reference or a subclass are looked at.                 *)
Referrers(p, S) == {o \in S : <<o, p>> \in refs \cap Declared}

(* Mutant: only entities keep a value alive. *)
Garbage_OfEntities ==
    {v \in stored \cap Values : \A o \in stored \cap Entities : <<o, v>> \notin refs}

(* getGarbage(Value): the values that no stored object holds. *)
Garbage == {v \in stored \cap Values : \A o \in stored : <<o, v>> \notin refs}

(* The objects of R are removed from the repository and the engine. *)
Remove(R) ==
    /\ stored' = stored \ R
    /\ saved' = {l \in saved : l[1] \notin R}

(***************************************************************************)
(* The application                                                         *)
(***************************************************************************)

(* A setter, without a lock, of whatever object a session holds. *)
Assign(o, p) ==
    /\ <<o, p>> \in Links \ refs
    /\ refs' = refs \cup {<<o, p>>}
    /\ raced' = (raced \/ p = deleting)
    /\ touched' = touched \cup ({<<o, p>>} \cap ValueLinks)
    /\ UNCHANGED <<stored, saved, deleteVars, up, scheduled, timer, crashes>>

Unassign(o, p) ==
    /\ <<o, p>> \in refs
    /\ refs' = refs \ {<<o, p>>}
    /\ touched' = touched \cup ({<<o, p>>} \cap ValueLinks)
    /\ UNCHANGED <<stored, saved, deleteVars, up, scheduled, timer, crashes, raced>>

(* The write lock is free, and the engine there. *)
Unlocked == up /\ deleting = NoEntity

(* Database.save(e), also of an entity that was deleted. *)
Save(e) ==
    /\ Unlocked
    /\ stored' = stored \cup Enclosed(e)
    /\ saved' = {l \in saved : l[1] \notin Enclosed(e)}
                   \cup {l \in refs : l[1] \in Enclosed(e)}
    /\ scheduled' = TRUE
    /\ touched' = {l \in touched : l[1] \notin Enclosed(e)}
    /\ UNCHANGED <<refs, deleteVars, up, timer, crashes, raced>>

(* Mutant: the referrers are counted inside the transaction only. *)
DeleteBegin_CountsInside(e) ==
    /\ Unlocked
    /\ deleting' = e
    /\ raced' = FALSE
    /\ UNCHANGED <<refs, stored, saved, counted, up, scheduled, timer, crashes, touched>>

(* Database.delete(e): garbage is collected if e has referrers, and if some *)
(* are left an exception is thrown before any transaction.                  *)
DeleteBegin(e) ==
    /\ Unlocked
    /\ LET collected == IF Referrers(e, stored) = {} THEN {} ELSE Garbage
       IN  /\ Remove(collected)
           /\ deleting' = IF Referrers(e, stored \ collected) = {} THEN e ELSE NoEntity
           /\ scheduled' = (scheduled \/ collected # {})
    /\ raced' = FALSE
    /\ UNCHANGED <<refs, counted, up, timer, crashes, touched>>

(* write() calls delete(e) again, which counts again, *)
DeleteCount(e) ==
    /\ deleting = e /\ ~counted
    /\ Referrers(e, stored) = {}
    /\ counted' = TRUE
    /\ UNCHANGED <<refs, stored, saved, deleting, up, scheduled, timer, crashes, raced, touched>>

(* throws inside the transaction if a referrer has come up that is not      *)
(* garbage: write() rolls it back and closes the database,                  *)
DeleteFails(e) ==
    /\ deleting = e /\ ~counted
    /\ Referrers(e, stored \ Garbage) # {}
    /\ deleting' = NoEntity
    /\ up' = FALSE /\ timer' = FALSE /\ scheduled' = TRUE
    /\ UNCHANGED <<refs, stored, saved, counted, crashes, raced, touched>>

(* or removes e with its values, and commits. *)
DeleteRemove(e) ==
    /\ deleting = e /\ counted
    /\ Remove(Cascade(e))
    /\ deleting' = NoEntity /\ counted' = FALSE
    /\ scheduled' = TRUE
    /\ UNCHANGED <<refs, up, timer, crashes, raced, touched>>

DeleteStep == \E e \in Deletable : DeleteCount(e) \/ DeleteFails(e) \/ DeleteRemove(e)

(* deleteDeliberately(e), by which nodes are deleted: references are not *)
(* looked at.                                                            *)
DeleteDeliberately(e) ==
    /\ Unlocked
    /\ Remove(Cascade(e))
    /\ scheduled' = TRUE
    /\ UNCHANGED <<refs, deleteVars, up, timer, crashes, raced, touched>>

(* gc(): one pass, each value in a transaction of its own. *)
Gc ==
    /\ Unlocked
    /\ Garbage # {}
    /\ Remove(Garbage)
    /\ scheduled' = TRUE
    /\ UNCHANGED <<refs, deleteVars, up, timer, crashes, raced, touched>>

(***************************************************************************)
(* The maintenance timer and the process                                   *)
(***************************************************************************)

(* Mutant: the flag is taken back although nothing was collected. *)
Maintain_OnlyBackup ==
    /\ Unlocked
    /\ timer /\ scheduled
    /\ scheduled' = FALSE
    /\ timer' \in (IF BackupFails THEN BOOLEAN ELSE {TRUE})
    /\ UNCHANGED <<refs, stored, saved, deleteVars, up, crashes, raced, touched>>

(* The timer task: gc(), backup(), and the flag that the transactions of  *)
(* gc() have set again is reset.  A backup that throws ends the thread of *)
(* the java.util.Timer.                                                   *)
Maintain ==
    /\ Unlocked
    /\ timer /\ scheduled
    /\ Remove(Garbage)
    /\ scheduled' = FALSE
    /\ timer' \in (IF BackupFails THEN BOOLEAN ELSE {TRUE})
    /\ UNCHANGED <<refs, deleteVars, up, crashes, raced, touched>>

(* A new process: memory is what was saved (the engine reads a reference to *)
(* a deleted object as null), and open() schedules no maintenance.          *)
Reopen ==
    /\ refs' = {l \in saved : l[1] \in stored /\ l[2] \in stored}
    /\ deleting' = NoEntity /\ counted' = FALSE
    /\ up' = TRUE /\ scheduled' = FALSE /\ timer' = TRUE
    /\ raced' = FALSE /\ touched' = {}
    /\ UNCHANGED <<stored, saved>>

(* The process dies, also within a deletion, or is restarted because the *)
(* database was closed.                                                  *)
Crash ==
    /\ up /\ crashes < MaxCrashes
    /\ crashes' = crashes + 1
    /\ Reopen

Restart ==
    /\ ~up
    /\ Reopen
    /\ UNCHANGED crashes

Next ==
    \/ \E o, p \in Objects : Assign(o, p) \/ Unassign(o, p)
    \/ \E e \in Entities : Save(e) \/ DeleteDeliberately(e)
    \/ \E e \in Deletable : DeleteBegin(e)
    \/ DeleteStep \/ Gc \/ Maintain \/ Crash \/ Restart

Spec == Init /\ [][Next]_vars

(* A deletion that has begun goes on, and the timer task, which waits for   *)
(* the lock among the other threads, gets it some time, as long as its      *)
(* thread is alive.                                                         *)
FairSpec == Spec /\ WF_vars(DeleteStep) /\ SF_vars(Maintain)

(***************************************************************************)
(* Properties                                                              *)
(***************************************************************************)

(* An object that was saved finds its values in the database, whatever was *)
(* deleted, collected and saved again since then, and after a restart: a   *)
(* value is missing only where a field was changed and not saved.          *)
StoreWellFormed ==
    /\ TypeOK
    /\ \A l \in saved : l[1] \in stored
    /\ \A l \in (saved \cap refs) \ touched : l[2] \in Values => l[2] \in stored

(* "If references to given object still exists in database, a              *)
(* RuntimeException is thrown" (Database.delete), and to the caller alone: *)
(* a deletion takes no entity that a stored object refers to, and does not *)
(* close the database for everybody, unless another thread sets such a     *)
(* reference while delete() runs.                                          *)
DeleteDecides ==
    [][/\ up /\ ~up' => raced
       /\ \A e \in stored \ stored' :
             deleting = e /\ ~raced => \A o \in stored' : <<o, e>> \notin refs]_vars

(* Whatever is deleted or collected, an object that stays keeps its values. *)
ValuesStayWithOwner ==
    [][\A v \in Values : v \in stored \ stored' =>
          \A o \in stored' : <<o, v>> \notin refs]_vars

(* If transactions keep coming, and no backup ends the thread of the timer, *)
(* every value that has become garbage is collected.                        *)
GarbageGoes ==
    []<>scheduled /\ <>[]timer => \A v \in Values : []<>(v \notin Garbage)
=============================================================================
