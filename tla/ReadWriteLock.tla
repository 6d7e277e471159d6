---------------------------- MODULE ReadWriteLock ----------------------------
(***************************************************************************)
(* The java.util.concurrent ReentrantReadWriteLock that ObjectDatabase     *)
(* keeps in its field "lock" (external code, modelled by the way           *)
(* ObjectDatabase uses it): many readers or one writer; the writer may     *)
(* take the write lock again; a reader may not upgrade.                    *)
(*                                                                         *)
(* Hold counts are left to the user of the module: it releases the lock in *)
(* the outermost finally block only.                                       *)
(***************************************************************************)
CONSTANTS Threads,   \* the threads of the servlet container and the timer
          NoThread   \* "no owner"

ASSUME NoThreadAssumption == NoThread \notin Threads

VARIABLES writer,    \* owner of the write lock, or NoThread
          readers    \* threads holding the read lock

lockVars == <<writer, readers>>

LockTypeOK ==
    /\ writer \in Threads \cup {NoThread}
    /\ readers \subseteq Threads

LockInit ==
    /\ writer = NoThread
    /\ readers = {}

(* writeLock().lock(): granted when nobody holds the lock, or again to its owner. *)
WriteLock(t) ==
    /\ \/ writer = NoThread /\ readers = {}
       \/ writer = t
    /\ writer' = t
    /\ UNCHANGED readers

(* The writeLock().unlock() that brings the hold count of the owner to zero. *)
WriteUnlock(t) ==
    /\ writer = t
    /\ writer' = NoThread
    /\ UNCHANGED readers

(* readLock().lock() by a thread that does not own the write lock. *)
ReadLock(t) ==
    /\ writer = NoThread
    /\ readers' = readers \cup {t}
    /\ UNCHANGED writer

(* readLock().unlock() of the outermost read section. *)
ReadUnlock(t) ==
    /\ t \in readers
    /\ readers' = readers \ {t}
    /\ UNCHANGED writer

(* A process that dies takes its locks with it. *)
LockVanishes ==
    /\ writer' = NoThread
    /\ readers' = {}
=============================================================================
