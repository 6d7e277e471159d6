---------------------------- MODULE ObjectDatabase ----------------------------
(***************************************************************************)
(* jfix.db4o.ObjectDatabase: transactions on the in-memory repository and  *)
(* the persistence engine under one read-write lock, with the files of the *)
(* blobs moved and unlinked on the side.                                   *)
(*                                                                         *)
(* write(txn) is a sequence of steps, between any two of which the process *)
(* may die: run the transaction, move the files of the blobs it saved,     *)
(* unlink the files of the blobs it deleted, commit, finally.  An          *)
(* exception rolls the engine back and closes the database, unless the     *)
(* engine throws there, too: then the half-changed repository stays in     *)
(* use, and "broken" says so.  The transaction may itself call write()     *)
(* (what save() and delete() do when no transaction is in progress), up to *)
(* MaxDepth frames.                                                        *)
(*                                                                         *)
(* An object is a model value.  An entity encloses a fixed set of blobs,   *)
(* which are saved and deleted with it (the cascade of traverseAndSave and *)
(* traverseAndDelete); module ObjectGraph has the references themselves.   *)
(***************************************************************************)
EXTENDS Naturals, ReadWriteLock

CONSTANTS Entities,   \* objects with a life of their own (Node, User, ...)
          Blobs,      \* objects whose content is a file
          Parts,      \* Parts[e]: the blobs entity e encloses
          MaxDepth,   \* frames of write() that may be nested
          NoAnswer

Objects == Entities \cup Blobs

ASSUME PartsAssumption ==
    /\ Entities \cap Blobs = {}
    /\ Parts \in [Entities -> SUBSET Blobs]
ASSUME DepthAssumption == MaxDepth \in Nat \ {0}
ASSUME AnswerAssumption == NoAnswer \notin SUBSET Objects

VARIABLES
    up,        \* the database is open (engine and repository are not null)
    repo,      \* objectRepository: what queries look at
    work,      \* the engine's objects, with the uncommitted changes
    disk,      \* the engine's objects as of its last commit
    dropped,   \* objects deleted since the database was opened
    broken,    \* a rollback() or close() of the engine threw, and it is still open
    file,      \* file[b]: in the temporary directory, in the blob directory, gone
    toSave, toDelete,   \* blobsToSave, blobsToDelete
    txn,       \* transactionInProgress
    depth,     \* frames of write() on the stack of the writer
    phase,     \* where the innermost of these frames is
    seen       \* seen[t]: what t's query returned within its read section

storeVars == <<repo, work, disk, dropped, broken>>
frameVars == <<txn, depth, phase>>
vars == <<writer, readers, up, repo, work, disk, dropped, broken, file, toSave,
          toDelete, txn, depth, phase, seen>>

(* "close" is the call of close() in the catch block, "thrown" the finally  *)
(* block with an exception on its way to the caller.                        *)
Phases == {"idle", "run", "paths", "unlink", "commit", "rollback", "close",
           "finally", "thrown"}

TypeOK ==
    /\ LockTypeOK
    /\ up \in BOOLEAN
    /\ repo \subseteq Objects /\ work \subseteq Objects
    /\ disk \subseteq Objects /\ dropped \subseteq Objects
    /\ broken \in BOOLEAN
    /\ file \in [Blobs -> {"tmp", "dir", "gone"}]
    /\ toSave \subseteq Blobs /\ toDelete \subseteq Blobs
    /\ txn \in BOOLEAN
    /\ depth \in 0..MaxDepth
    /\ phase \in Phases
    /\ seen \in [Threads -> (SUBSET Objects) \cup {NoAnswer}]

(* A new database, opened. *)
Init ==
    /\ LockInit
    /\ up = TRUE
    /\ repo = {} /\ work = {} /\ disk = {} /\ dropped = {} /\ broken = FALSE
    /\ file = [b \in Blobs |-> "tmp"]
    /\ toSave = {} /\ toDelete = {}
    /\ txn = FALSE /\ depth = 0 /\ phase = "idle"
    /\ seen = [t \in Threads |-> NoAnswer]

(***************************************************************************)
(* Read sections                                                           *)
(***************************************************************************)

(* query(), isStored(), ... take the read lock, *)
ReadEnter(t) ==
    /\ up
    /\ t \notin readers
    /\ ReadLock(t)
    /\ UNCHANGED <<up, storeVars, file, toSave, toDelete, frameVars, seen>>

(* look at the repository, more than once in queryUnique() and read(), *)
Read(t) ==
    /\ t \in readers
    /\ seen' = [seen EXCEPT ![t] = repo]
    /\ UNCHANGED <<lockVars, up, storeVars, file, toSave, toDelete, frameVars>>

(* and release the lock in their finally block. *)
ReadExit(t) ==
    /\ ReadUnlock(t)
    /\ seen' = [seen EXCEPT ![t] = NoAnswer]
    /\ UNCHANGED <<up, storeVars, file, toSave, toDelete, frameVars>>

(***************************************************************************)
(* Transactions                                                            *)
(***************************************************************************)

(* Mutant: takes no heed of the readers. *)
WriteEnter_Unlocked(t) ==
    /\ up
    /\ phase = "idle"
    /\ writer' = t /\ txn' = TRUE /\ depth' = 1 /\ phase' = "run"
    /\ UNCHANGED <<readers, up, storeVars, file, toSave, toDelete, seen>>

(* write(): lock, begin, transactionInProgress = true. *)
WriteEnter(t) ==
    /\ up
    /\ phase \in {"idle", "run"} /\ depth < MaxDepth
    /\ WriteLock(t)
    /\ txn' = TRUE
    /\ depth' = depth + 1
    /\ phase' = "run"
    /\ UNCHANGED <<up, storeVars, file, toSave, toDelete, seen>>

(* save() with a transaction in progress: traverseAndSave.  A session may    *)
(* save again what another one has deleted in the meantime; no transaction   *)
(* of the application saves what it has deleted itself (Nodes.java:151-167). *)
Save(t, e) ==
    /\ writer = t /\ phase = "run" /\ txn
    /\ Parts[e] \cap toDelete = {}
    /\ repo' = repo \cup {e} \cup Parts[e]
    /\ work' = work \cup {e} \cup Parts[e]
    /\ toSave' = toSave \cup Parts[e]
    /\ UNCHANGED <<lockVars, up, disk, dropped, broken, file, toDelete, frameVars, seen>>

(* delete() of an unreferenced object, or deleteDeliberately(), with a *)
(* transaction in progress: traverseAndDelete.                         *)
Delete(t, e) ==
    /\ writer = t /\ phase = "run" /\ txn
    /\ e \in repo
    /\ repo' = repo \ ({e} \cup Parts[e])
    /\ work' = work \ ({e} \cup Parts[e])
    /\ toDelete' = toDelete \cup Parts[e]
    /\ dropped' = dropped \cup {e} \cup Parts[e]
    /\ UNCHANGED <<lockVars, up, disk, broken, file, toSave, frameVars, seen>>

(* transaction.run() returns. *)
RunReturns(t) ==
    /\ writer = t /\ phase = "run"
    /\ phase' = "paths"
    /\ UNCHANGED <<lockVars, up, storeVars, file, toSave, toDelete, txn, depth, seen>>

(* Blob.initPath moves the file of a blob that is still temporary; it does *)
(* nothing for one that has been moved, and perhaps unlinked, before.      *)
InitPath(t, b) ==
    /\ writer = t /\ phase = "paths"
    /\ b \in toSave /\ file[b] = "tmp"
    /\ file' = [file EXCEPT ![b] = "dir"]
    /\ UNCHANGED <<lockVars, up, storeVars, toSave, toDelete, frameVars, seen>>

(* Mutant: goes on before the files are moved. *)
PathsInitialized_AtOnce(t) ==
    /\ writer = t /\ phase = "paths"
    /\ phase' = "unlink"
    /\ UNCHANGED <<lockVars, up, storeVars, file, toSave, toDelete, txn, depth, seen>>

PathsInitialized(t) ==
    /\ writer = t /\ phase = "paths"
    /\ \A b \in toSave : file[b] # "tmp"
    /\ phase' = "unlink"
    /\ UNCHANGED <<lockVars, up, storeVars, file, toSave, toDelete, txn, depth, seen>>

(* Mutant: unlinks the blobs of the wrong list. *)
Unlink_Saved(t, b) ==
    /\ writer = t /\ phase = "unlink"
    /\ b \in toSave /\ file[b] # "gone"
    /\ file' = [file EXCEPT ![b] = "gone"]
    /\ UNCHANGED <<lockVars, up, storeVars, toSave, toDelete, frameVars, seen>>

(* blob.getFile().delete(), *)
Unlink(t, b) ==
    /\ writer = t /\ phase = "unlink"
    /\ b \in toDelete /\ file[b] # "gone"
    /\ file' = [file EXCEPT ![b] = "gone"]
    /\ UNCHANGED <<lockVars, up, storeVars, toSave, toDelete, frameVars, seen>>

(* whose result nobody looks at: a file may also stay behind. *)
Unlinked(t) ==
    /\ writer = t /\ phase = "unlink"
    /\ phase' = "commit"
    /\ UNCHANGED <<lockVars, up, storeVars, file, toSave, toDelete, txn, depth, seen>>

(* persistenceEngine.commit() *)
Commit(t) ==
    /\ writer = t /\ phase = "commit"
    /\ disk' = work
    /\ phase' = "finally"
    /\ UNCHANGED <<lockVars, up, repo, work, dropped, broken, file, toSave, toDelete,
                   txn, depth, seen>>

(* The transaction, the work on a file or the commit throws. *)
Throw(t) ==
    /\ writer = t /\ phase \in {"run", "paths", "unlink", "commit"}
    /\ phase' = "rollback"
    /\ UNCHANGED <<lockVars, up, storeVars, file, toSave, toDelete, txn, depth, seen>>

(* Mutant of the catch block: without rollback(). *)
Rollback_Skipped(t) ==
    /\ writer = t /\ phase = "rollback" /\ up
    /\ phase' = "close"
    /\ UNCHANGED <<lockVars, up, storeVars, file, toSave, toDelete, txn, depth, seen>>

(* The catch block: persistenceEngine.rollback() ... *)
Rollback(t) ==
    /\ writer = t /\ phase = "rollback" /\ up
    /\ work' = disk
    /\ phase' = "close"
    /\ UNCHANGED <<lockVars, up, repo, disk, dropped, broken, file, toSave, toDelete,
                   txn, depth, seen>>

(* ... which may throw itself, so that close() is never called.  It does in   *)
(* an outer frame when the inner one has set persistenceEngine to null.       *)
RollbackThrows(t) ==
    /\ writer = t /\ phase = "rollback"
    /\ broken' = up
    /\ phase' = "thrown"
    /\ UNCHANGED <<lockVars, up, repo, work, disk, dropped, file, toSave, toDelete,
                   txn, depth, seen>>

(* Mutants of close(): the repository stays; the exception gets past finally. *)
CloseEngine_KeepsRepository(t) ==
    /\ writer = t /\ phase = "close"
    /\ broken' = FALSE
    /\ phase' = "thrown"
    /\ UNCHANGED <<lockVars, up, repo, work, disk, dropped, file, toSave, toDelete,
                   txn, depth, seen>>

CloseEngine_SkipsFinally(t) ==
    /\ writer = t /\ phase = "close"
    /\ up' = FALSE /\ broken' = FALSE
    /\ repo' = {}
    /\ phase' = "idle"
    /\ UNCHANGED <<lockVars, work, disk, dropped, file, toSave, toDelete, txn, depth, seen>>

(* close(): the engine, and then the repository and the cache are forgotten, *)
CloseEngine(t) ==
    /\ writer = t /\ phase = "close"
    /\ up' = FALSE /\ broken' = FALSE
    /\ repo' = {}
    /\ phase' = "thrown"
    /\ UNCHANGED <<lockVars, work, disk, dropped, file, toSave, toDelete, txn, depth, seen>>

(* but not if the engine throws when it is closed. *)
CloseThrows(t) ==
    /\ writer = t /\ phase = "close"
    /\ broken' = TRUE
    /\ phase' = "thrown"
    /\ UNCHANGED <<lockVars, up, repo, work, disk, dropped, file, toSave, toDelete,
                   txn, depth, seen>>

(* Mutants: the lists of blobs survive; the lock is released once too often. *)
Finally_KeepsLists(t) ==
    /\ writer = t /\ phase \in {"finally", "thrown"}
    /\ txn' = FALSE
    /\ depth' = depth - 1
    /\ IF depth = 1
       THEN WriteUnlock(t) /\ phase' = "idle"
       ELSE UNCHANGED lockVars /\ phase' = IF phase = "thrown" THEN "rollback" ELSE "run"
    /\ UNCHANGED <<up, storeVars, file, toSave, toDelete, seen>>

Finally_UnlocksTwice(t) ==
    /\ writer = t /\ phase \in {"finally", "thrown"}
    /\ toSave' = {} /\ toDelete' = {}
    /\ txn' = FALSE
    /\ depth' = depth - 2
    /\ WriteUnlock(t) /\ phase' = "idle"
    /\ UNCHANGED <<up, storeVars, file, seen>>

(* The finally block.  It clears the lists and transactionInProgress in a    *)
(* nested frame, too.  An outer frame goes on with its transaction, or, with *)
(* an exception of the inner one, in its own catch block.                    *)
Finally(t) ==
    /\ writer = t /\ phase \in {"finally", "thrown"}
    /\ toSave' = {} /\ toDelete' = {}
    /\ txn' = FALSE
    /\ depth' = depth - 1
    /\ IF depth = 1
       THEN WriteUnlock(t) /\ phase' = "idle"
       ELSE UNCHANGED lockVars /\ phase' = IF phase = "thrown" THEN "rollback" ELSE "run"
    /\ UNCHANGED <<up, storeVars, file, seen>>

(***************************************************************************)
(* Opening, closing and dying                                              *)
(***************************************************************************)

(* close(), called when the web application stops.  An engine that was left  *)
(* open with uncommitted changes may commit them when it is closed (Perst,   *)
(* Db4o) or roll them back (ZooDB).                                          *)
Close ==
    /\ up
    /\ writer = NoThread /\ readers = {}
    /\ up' = FALSE /\ broken' = FALSE
    /\ repo' = {}
    /\ disk' \in {disk, work} /\ work' = disk'
    /\ UNCHANGED <<lockVars, dropped, file, toSave, toDelete, frameVars, seen>>

(* The process dies: what the engine has not committed is lost. *)
Crash ==
    /\ LockVanishes
    /\ up' = FALSE /\ broken' = FALSE
    /\ repo' = {} /\ work' = disk
    /\ toSave' = {} /\ toDelete' = {}
    /\ txn' = FALSE /\ depth' = 0 /\ phase' = "idle"
    /\ seen' = [t \in Threads |-> NoAnswer]
    /\ UNCHANGED <<disk, dropped, file>>

(* open() in a new process: populateObjectRepository puts every committed *)
(* object and moves the file of a blob that is still temporary.  No       *)
(* session holds an object that is not on disk: its name is free for a    *)
(* new one.                                                               *)
Open ==
    /\ ~up /\ writer = NoThread
    /\ up' = TRUE
    /\ repo' = disk
    /\ dropped' = {}
    /\ file' = [b \in Blobs |-> IF b \notin disk THEN "tmp"
                               ELSE IF file[b] = "tmp" THEN "dir" ELSE file[b]]
    /\ UNCHANGED <<lockVars, work, disk, broken, toSave, toDelete, frameVars, seen>>

(* One step of the frames of write() that t has on its stack. *)
TxnStep(t) ==
    \/ RunReturns(t) \/ PathsInitialized(t) \/ Unlinked(t)
    \/ Commit(t) \/ Finally(t)
    \/ Rollback(t) \/ RollbackThrows(t) \/ CloseEngine(t) \/ CloseThrows(t)
    \/ \E b \in Blobs : InitPath(t, b) \/ Unlink(t, b)

Next ==
    \/ \E t \in Threads :
          \/ ReadEnter(t) \/ Read(t) \/ ReadExit(t)
          \/ WriteEnter(t)
          \/ \E e \in Entities : Save(t, e) \/ Delete(t, e)
          \/ TxnStep(t)
          \/ Throw(t)
    \/ Close \/ Crash \/ Open

Spec == Init /\ [][Next]_vars

(* A thread in write() is scheduled, and its transaction returns after a    *)
(* finite number of nested calls.                                           *)
Fairness ==
    \A t \in Threads : /\ WF_vars(TxnStep(t))
                       /\ SF_vars(depth = 1 /\ RunReturns(t))

FairSpec == Spec /\ Fairness

(***************************************************************************)
(* Properties                                                              *)
(***************************************************************************)

(* A query sees committed objects only: none of a transaction in progress  *)
(* and none of one that failed (write: the lock, close() after rollback()), *)
(* unless the engine threw in that rollback() or close().                  *)
ReadersSeeCommitted ==
    \A t \in readers : seen[t] # NoAnswer /\ ~broken => seen[t] = disk

(* Between transactions nothing is left of a transaction that would leak   *)
(* into the next one (the finally block of write), and an open database    *)
(* holds in memory just what is on disk, unless the engine threw when it   *)
(* was to be rolled back and closed.                                       *)
RepositoryMatchesDisk ==
    writer = NoThread =>
        /\ toSave = {} /\ toDelete = {} /\ ~txn
        /\ up /\ ~broken => repo = disk /\ work = disk

(* Two queries within one read section get the same answer (queryUnique,   *)
(* isUnique and read() rely on it).                                        *)
RepeatableRead ==
    [][\A t \in readers \cap readers' :
          seen[t] # NoAnswer => seen'[t] = seen[t]]_vars

(* A blob is committed only with its file in the blob directory: a crash   *)
(* right after the commit cannot lose the content of a new blob.  A blob   *)
(* that was deleted and is saved again has lost its file before, and after *)
(* a failed rollback() the engine may commit blobs that nobody has moved.  *)
CommittedBlobsMoved ==
    [][\A b \in Blobs \cap (disk' \ disk) :
          b \notin dropped /\ ~broken => file[b] = "dir"]_vars

(* Only a blob that is no longer in the repository loses its file.         *)
UnlinkOnlyRemoved ==
    [][\A b \in Blobs : file[b] # "gone" /\ file'[b] = "gone" => b \notin repo]_vars

(* A thread in write() gives the lock back, whatever fails.                *)
WriterLeaves == (writer # NoThread) ~> (writer = NoThread)

(* What Blob and PersistenceEngine promise: a transaction that is rolled   *)
(* back is undone, so that the content of every stored blob can be read    *)
(* from getFile(), if nobody has deleted the blob and saved it again.      *)
StoredBlobHasFile ==
    up /\ writer = NoThread /\ ~broken =>
        \A b \in (Blobs \cap repo) \ dropped : file[b] = "dir"

(* Where the abstract transaction is. *)
Stage ==
    CASE writer = NoThread -> "none"
      [] writer # NoThread /\ phase = "finally" -> "committed"
      [] writer # NoThread /\ (phase = "thrown" \/ ~up) -> "aborted"
      [] OTHER -> "active"

Store == INSTANCE TransactionalStore
            WITH store <- disk, draft <- work, owner <- writer,
                 stage <- Stage, open <- up, torn <- broken, answer <- seen

(* The database implements the abstract store: transactions, nested or not, *)
(* failed or cut off by a crash, are published as a whole or not at all, as *)
(* long as the engine does not throw while it is rolled back and closed.    *)
ImplementsStore == Store!Spec
=============================================================================
