------------------------- MODULE ObjectDatabaseProofs -------------------------
(***************************************************************************)
(* Proofs about the two sides of jfix.db4o.ObjectDatabase and their lock:  *)
(* the transactions of ObjectDatabase, for any set of threads, entities    *)
(* and blobs and any bound on the frames of write(), and, from "The cache  *)
(* of suppliers" on, the queries of SupplierCache, for any threads,        *)
(* suppliers, topics and slots.                                            *)
(***************************************************************************)
EXTENDS ObjectDatabase, SupplierCache, TLAPS

USE NoThreadAssumption, PartsAssumption, DepthAssumption, AnswerAssumption

(***************************************************************************)
(* The inductive invariant                                                 *)
(***************************************************************************)

(* Who holds the lock, and where its frames are. *)
FrameInv ==
    /\ writer # NoThread => readers = {}
    /\ writer = NoThread <=> phase = "idle"
    /\ phase = "idle" <=> depth = 0
    /\ phase = "idle" => ~txn /\ toSave = {} /\ toDelete = {}
    /\ readers # {} => up

(* Memory and engine agree while the database is open, but for the moment *)
(* between rollback() and close(); a closed database has nothing           *)
(* uncommitted, nor has an open one outside of a transaction.  The         *)
(* exceptions are those of an engine that has thrown in the catch block.   *)
StoreInv ==
    /\ up /\ ~broken /\ phase # "close" => repo = work
    /\ up /\ ~broken /\ phase \in {"idle", "finally"} => work = disk
    /\ ~up => repo = {} /\ work = disk /\ phase \in {"idle", "rollback", "thrown"}
    /\ broken => up
    /\ phase = "thrown" /\ up => broken
    /\ phase = "close" => up /\ work = disk

(* An answer exists within a read section only, and is still true. *)
SeenInv == \A t \in Threads : seen[t] # NoAnswer => t \in readers /\ seen[t] = repo

IInv == TypeOK /\ FrameInv /\ StoreInv /\ SeenInv

(* The initial state satisfies the invariant: a new database is empty, and *)
(* nobody holds its lock.                                                  *)
LEMMA InitInv == Init => IInv
  <1> SUFFICES ASSUME Init PROVE IInv
    OBVIOUS
  <1> USE DEF Init, LockInit
  <1>1. TypeOK
    <2>1. depth \in 0..MaxDepth  OBVIOUS
    <2>2. seen \in [Threads -> (SUBSET Objects) \cup {NoAnswer}]  OBVIOUS
    <2>3. QED  BY <2>1, <2>2 DEF TypeOK, LockTypeOK, Phases
  <1>2. FrameInv  BY DEF FrameInv
  <1>3. StoreInv  BY DEF StoreInv
  <1>4. SeenInv   BY DEF SeenInv
  <1>5. QED  BY <1>1, <1>2, <1>3, <1>4 DEF IInv

(* Read sections change neither the store nor the frames. *)
LEMMA ReadInv ==
    ASSUME IInv, NEW t \in Threads, ReadEnter(t) \/ Read(t) \/ ReadExit(t)
    PROVE  IInv'
  <1> USE DEF IInv, TypeOK, LockTypeOK, Phases, FrameInv, StoreInv, SeenInv, Objects,
              lockVars, storeVars, frameVars
  <1>1. CASE ReadEnter(t)  BY <1>1 DEF ReadEnter, ReadLock
  <1>2. CASE Read(t)       BY <1>2 DEF Read
  <1>3. CASE ReadExit(t)   BY <1>3 DEF ReadExit, ReadUnlock
  <1>4. QED  BY <1>1, <1>2, <1>3

(* The writer is alone, so the answers of the readers do not matter. *)
LEMMA TxnInv ==
    ASSUME IInv, NEW t \in Threads,
           \/ WriteEnter(t) \/ Throw(t) \/ TxnStep(t)
           \/ \E e \in Entities : Save(t, e) \/ Delete(t, e)
    PROVE  IInv'
  <1> USE DEF IInv, TypeOK, LockTypeOK, Phases, FrameInv, StoreInv, SeenInv, Objects,
              lockVars, storeVars, frameVars
  <1>1. CASE WriteEnter(t)        BY <1>1 DEF WriteEnter, WriteLock
  <1>2. CASE Throw(t)             BY <1>2 DEF Throw
  <1>3. ASSUME NEW e \in Entities, Save(t, e)    PROVE IInv'
    BY <1>3 DEF Save
  <1>4. ASSUME NEW e \in Entities, Delete(t, e)  PROVE IInv'
    BY <1>4 DEF Delete
  <1>5. CASE RunReturns(t)        BY <1>5 DEF RunReturns
  <1>6. CASE PathsInitialized(t)  BY <1>6 DEF PathsInitialized
  <1>7. CASE Unlinked(t)          BY <1>7 DEF Unlinked
  <1>8. CASE Commit(t)            BY <1>8 DEF Commit
  <1>9. CASE Rollback(t) \/ RollbackThrows(t) \/ CloseEngine(t) \/ CloseThrows(t)
    <2>1. CASE Rollback(t)        BY <2>1 DEF Rollback
    <2>2. CASE RollbackThrows(t)  BY <2>2 DEF RollbackThrows
    <2>3. CASE CloseEngine(t)     BY <2>3 DEF CloseEngine
    <2>4. CASE CloseThrows(t)     BY <2>4 DEF CloseThrows
    <2>5. QED  BY <1>9, <2>1, <2>2, <2>3, <2>4
  <1>10. CASE Finally(t)
    <2>1. depth \in 1..MaxDepth /\ phase \in {"finally", "thrown"} /\ readers = {}
      BY <1>10 DEF Finally
    <2>2. UNCHANGED <<repo, work, disk, dropped, broken, up, file, seen, readers>>
      BY <1>10 DEF Finally, WriteUnlock
    <2>3. toSave' = {} /\ toDelete' = {} /\ txn' = FALSE
      BY <1>10 DEF Finally
    <2>4. /\ depth' \in 0..MaxDepth
          /\ writer' \in {writer, NoThread}
          /\ depth' = 0 <=> writer' = NoThread
          /\ phase' = IF depth' = 0 THEN "idle" ELSE IF phase = "thrown" THEN "rollback" ELSE "run"
      BY <1>10, <2>1 DEF Finally, WriteUnlock
    <2>5. TypeOK'    BY <2>2, <2>3, <2>4
    <2>6. FrameInv'  BY <2>1, <2>2, <2>3, <2>4
    <2>7. StoreInv'  BY <2>1, <2>2, <2>4
    <2>8. SeenInv'   BY <2>2
    <2>9. QED  BY <2>5, <2>6, <2>7, <2>8
  <1>11. ASSUME NEW b \in Blobs, InitPath(t, b)  PROVE IInv'
    BY <1>11 DEF InitPath
  <1>12. ASSUME NEW b \in Blobs, Unlink(t, b)    PROVE IInv'
    BY <1>12 DEF Unlink
  <1>13. QED
    BY <1>1, <1>2, <1>3, <1>4, <1>5, <1>6, <1>7, <1>8, <1>9, <1>10, <1>11, <1>12 DEF TxnStep

(* A process that closes the database, dies or starts leaves what is on disk. *)
LEMMA ProcessInv ==
    ASSUME IInv, Close \/ Crash \/ Open
    PROVE  IInv'
  <1> USE DEF IInv, TypeOK, LockTypeOK, Phases, FrameInv, StoreInv, SeenInv, Objects,
              lockVars, storeVars, frameVars
  <1>1. CASE Close  BY <1>1 DEF Close
  <1>2. CASE Crash
    <2> USE <1>2 DEF Crash, LockVanishes
    <2>1. TypeOK'
      <3>1. depth' \in 0..MaxDepth  OBVIOUS
      <3>2. seen' \in [Threads -> (SUBSET Objects) \cup {NoAnswer}]  OBVIOUS
      <3>3. QED  BY <3>1, <3>2
    <2>2. FrameInv'  OBVIOUS
    <2>3. StoreInv'  OBVIOUS
    <2>4. SeenInv'   OBVIOUS
    <2>5. QED  BY <2>1, <2>2, <2>3, <2>4
  <1>3. CASE Open   BY <1>3 DEF Open
  <1>4. QED  BY <1>1, <1>2, <1>3

LEMMA StutterInv == IInv /\ UNCHANGED vars => IInv'
  BY DEF IInv, TypeOK, LockTypeOK, Phases, FrameInv, StoreInv, SeenInv, vars

(* Every reachable state satisfies the inductive invariant. *)
THEOREM Invariance == Spec => []IInv
  <1>1. IInv /\ [Next]_vars => IInv'
    BY ReadInv, TxnInv, ProcessInv, StutterInv DEF Next
  <1>2. QED  BY InitInv, <1>1, PTL DEF Spec

(* The variables have their types in every reachable state. *)
THEOREM TypeCorrect == Spec => []TypeOK
  BY Invariance, PTL DEF IInv

(* Whatever the transactions do, and wherever they fail, a query returns   *)
(* committed objects only, unless the engine threw in the catch block.     *)
THEOREM CommittedReads == Spec => []ReadersSeeCommitted
  <1>1. IInv => ReadersSeeCommitted
    BY DEF IInv, FrameInv, StoreInv, SeenInv, ReadersSeeCommitted, TypeOK, LockTypeOK
  <1>2. QED  BY Invariance, <1>1, PTL

(* Between transactions no list of blobs is left over, and memory and disk *)
(* are the same, unless the engine threw in the catch block.               *)
THEOREM MemoryMatchesDisk == Spec => []RepositoryMatchesDisk
  <1>1. IInv => RepositoryMatchesDisk
    BY DEF IInv, FrameInv, StoreInv, RepositoryMatchesDisk
  <1>2. QED  BY Invariance, <1>1, PTL

(* The answers of two queries within one read section are the same: no     *)
(* writer gets in between, after whatever failure.                         *)
THEOREM AnswersRepeat == Spec => RepeatableRead
  <1>1. ASSUME IInv, [Next]_vars, NEW t \in readers \cap readers', seen[t] # NoAnswer
        PROVE  seen'[t] = seen[t]
    <2> USE DEF lockVars, storeVars, frameVars
    <2>1. t \in Threads /\ seen[t] = repo
      BY <1>1 DEF IInv, TypeOK, LockTypeOK, SeenInv
    <2>2. seen \in [Threads -> (SUBSET Objects) \cup {NoAnswer}]
      BY <1>1 DEF IInv, TypeOK
    <2>3. ASSUME NEW u \in Threads, Read(u)  PROVE seen'[t] = seen[t]
      BY <2>1, <2>2, <2>3 DEF Read
    <2>4. ASSUME NEW u \in Threads, ReadExit(u)  PROVE seen'[t] = seen[t]
      <3>1. t # u  BY <1>1, <2>4 DEF ReadExit, ReadUnlock
      <3>2. QED  BY <2>1, <2>2, <2>4, <3>1 DEF ReadExit
    <2>5. Crash => FALSE  BY <1>1 DEF Crash, LockVanishes
    <2>6. ASSUME NEW u \in Threads,
                 \/ ReadEnter(u) \/ WriteEnter(u) \/ Throw(u) \/ TxnStep(u)
                 \/ \E e \in Entities : Save(u, e) \/ Delete(u, e)
          PROVE  seen' = seen
      BY <2>6 DEF ReadEnter, WriteEnter, Throw, TxnStep, Save, Delete, RunReturns,
                  PathsInitialized, Unlinked, Commit, Rollback, RollbackThrows, CloseEngine,
                  CloseThrows, Finally, InitPath, Unlink
    <2>7. Close \/ Open \/ UNCHANGED vars => seen' = seen
      BY DEF Close, Open, vars
    <2>8. QED  BY <1>1, <2>3, <2>4, <2>5, <2>6, <2>7 DEF Next
  <1>2. IInv /\ [Next]_vars =>
            [\A t \in readers \cap readers' : seen[t] # NoAnswer => seen'[t] = seen[t]]_vars
    BY <1>1
  <1>3. QED  BY Invariance, <1>2, PTL DEF Spec, RepeatableRead

(***************************************************************************)
(* The files of the blobs                                                  *)
(***************************************************************************)

(* What a transaction has added is on the list of blobs to save, what it   *)
(* has removed is dropped, and the files are behind neither of the lists.  *)
BlobInv ==
    /\ toDelete \subseteq dropped
    /\ toDelete \cap repo = {}
    /\ disk \ work \subseteq dropped
    /\ ~broken => Blobs \cap (work \ disk) \subseteq toSave
    /\ \A b \in Blobs : file[b] = "gone" => b \in dropped \cup disk
    /\ phase \in {"unlink", "commit"} => \A b \in toSave : file[b] # "tmp"

(* Every step keeps the files in accord with the lists of blobs. *)
LEMMA BlobStep == IInv /\ BlobInv /\ [Next]_vars => BlobInv'
  <1> SUFFICES ASSUME IInv, BlobInv, [Next]_vars  PROVE BlobInv'
    OBVIOUS
  <1> USE DEF IInv, TypeOK, LockTypeOK, FrameInv, StoreInv, BlobInv, Objects,
              lockVars, storeVars, frameVars
  <1>1. ASSUME NEW t \in Threads, ReadEnter(t) \/ Read(t) \/ ReadExit(t)  PROVE BlobInv'
    BY <1>1 DEF ReadEnter, Read, ReadExit
  <1>2. ASSUME NEW t \in Threads, WriteEnter(t) \/ Throw(t)  PROVE BlobInv'
    BY <1>2 DEF WriteEnter, Throw
  <1>3. ASSUME NEW t \in Threads, NEW e \in Entities, Save(t, e)  PROVE BlobInv'
    BY <1>3 DEF Save
  <1>4. ASSUME NEW t \in Threads, NEW e \in Entities, Delete(t, e)  PROVE BlobInv'
    BY <1>4 DEF Delete
  <1>5. ASSUME NEW t \in Threads, TxnStep(t)  PROVE BlobInv'
    <2>1. CASE RunReturns(t)        BY <2>1 DEF RunReturns
    <2>2. CASE PathsInitialized(t)  BY <2>2 DEF PathsInitialized
    <2>3. CASE Unlinked(t)          BY <2>3 DEF Unlinked
    <2>4. CASE Commit(t)            BY <2>4 DEF Commit
    <2>5. CASE Rollback(t) \/ RollbackThrows(t) \/ CloseEngine(t) \/ CloseThrows(t)
      <3>1. CASE Rollback(t)        BY <3>1 DEF Rollback
      <3>2. CASE RollbackThrows(t)  BY <3>2 DEF RollbackThrows
      <3>3. CASE CloseEngine(t)     BY <3>3 DEF CloseEngine
      <3>4. CASE CloseThrows(t)     BY <3>4 DEF CloseThrows
      <3>5. QED  BY <2>5, <3>1, <3>2, <3>3, <3>4
    <2>6. CASE Finally(t)           BY <2>6 DEF Finally
    <2>7. ASSUME NEW b \in Blobs, InitPath(t, b)  PROVE BlobInv'
      BY <2>7 DEF InitPath
    <2>8. ASSUME NEW b \in Blobs, Unlink(t, b)    PROVE BlobInv'
      BY <2>8 DEF Unlink
    <2>9. QED  BY <1>5, <2>1, <2>2, <2>3, <2>4, <2>5, <2>6, <2>7, <2>8 DEF TxnStep
  <1>6. CASE Close  BY <1>6 DEF Close
  <1>7. CASE Crash  BY <1>7 DEF Crash
  <1>8. CASE Open   BY <1>8 DEF Open
  <1>9. CASE UNCHANGED vars  BY <1>9 DEF vars
  <1>10. QED  BY <1>1, <1>2, <1>3, <1>4, <1>5, <1>6, <1>7, <1>8, <1>9 DEF Next

(* The files agree with the lists of blobs in every reachable state. *)
LEMMA BlobInvariance == Spec => [](IInv /\ BlobInv)
  <1>1. Init => BlobInv
    BY DEF Init, BlobInv
  <1>2. QED  BY Invariance, <1>1, BlobStep, PTL DEF Spec

(* A blob is committed after its file has been moved, and never before, if *)
(* it was not deleted before and the engine has not thrown while a         *)
(* transaction was rolled back.                                            *)
THEOREM NewBlobsAreMoved == Spec => CommittedBlobsMoved
  <1>1. IInv /\ BlobInv /\ [Next]_vars =>
           \A b \in Blobs \cap (disk' \ disk) : b \notin dropped /\ ~broken => file[b] = "dir"
    <2> SUFFICES ASSUME IInv, BlobInv, [Next]_vars, NEW b \in Blobs, b \in disk' \ disk,
                        b \notin dropped, ~broken
                 PROVE  file[b] = "dir"
      OBVIOUS
    <2>1. Close \/ \E t \in Threads : Commit(t)
      BY DEF Next, TxnStep, vars, storeVars, ReadEnter, Read, ReadExit, WriteEnter, Throw,
             Save, Delete, RunReturns, PathsInitialized, Unlinked, Rollback, RollbackThrows,
             CloseEngine, CloseThrows, Finally, InitPath, Unlink, Crash, Open
    <2>2. ~Close
      BY DEF Close, IInv, FrameInv, StoreInv
    <2>3. b \in work /\ phase = "commit"
      BY <2>1, <2>2 DEF Commit
    <2>4. b \in toSave /\ file[b] # "tmp"
      BY <2>3 DEF BlobInv
    <2>5. file[b] # "gone"
      BY DEF BlobInv
    <2>6. QED  BY <2>4, <2>5 DEF IInv, TypeOK
  <1>2. QED  BY BlobInvariance, <1>1, PTL DEF Spec, CommittedBlobsMoved

(* No blob of the repository is ever unlinked, in whatever order a         *)
(* transaction saves and deletes.                                          *)
THEOREM StoredBlobsKeepFiles == Spec => UnlinkOnlyRemoved
  <1>1. IInv /\ BlobInv /\ [Next]_vars =>
           \A b \in Blobs : file[b] # "gone" /\ file'[b] = "gone" => b \notin repo
    <2> SUFFICES ASSUME IInv, BlobInv, [Next]_vars, NEW b \in Blobs,
                        file[b] # "gone", file'[b] = "gone"
                 PROVE  b \notin repo
      OBVIOUS
    <2>1. file' # file
      OBVIOUS
    <2>2. Open \/ \E t \in Threads, c \in Blobs : Unlink(t, c) \/ InitPath(t, c)
      BY <2>1 DEF Next, TxnStep, vars, ReadEnter, Read, ReadExit, WriteEnter, Throw,
             Save, Delete, RunReturns, PathsInitialized, Unlinked, Commit, Rollback,
             RollbackThrows, CloseEngine, CloseThrows, Finally, Close, Crash
    <2>3. PICK t \in Threads, c \in Blobs : Unlink(t, c)
      BY <2>2 DEF InitPath, Open, IInv, TypeOK
    <2>4. b = c
      BY <2>3 DEF Unlink, IInv, TypeOK
    <2>5. QED  BY <2>3, <2>4 DEF Unlink, BlobInv, IInv, StoreInv
  <1>2. QED  BY BlobInvariance, <1>1, PTL DEF Spec, UnlinkOnlyRemoved

(***************************************************************************)
(* Refinement                                                              *)
(***************************************************************************)

(* A read section is one of the abstract answers, or a stutter. *)
LEMMA ReadRefines ==
    ASSUME IInv, NEW t \in Threads, ReadEnter(t) \/ Read(t) \/ ReadExit(t)
    PROVE  [Store!Next]_(Store!vars)
  <1> USE DEF lockVars, storeVars, frameVars, Stage, Store!vars
  <1>1. CASE ReadEnter(t)
    <2>1. UNCHANGED Store!vars  BY <1>1 DEF ReadEnter, ReadLock
    <2>2. QED  BY <2>1
  <1>2. CASE Read(t)
    <2>1. Store!Answer(t)
      BY <1>2 DEF Read, Store!Answer, IInv, TypeOK, LockTypeOK, FrameInv, StoreInv
    <2>2. QED  BY <2>1 DEF Store!Next
  <1>3. CASE ReadExit(t)
    <2>1. Store!Forget(t)  BY <1>3 DEF ReadExit, ReadUnlock, Store!Forget
    <2>2. QED  BY <2>1 DEF Store!Next
  <1>4. QED  BY <1>1, <1>2, <1>3

(* The steps of write() are those of the abstract transaction; moving and  *)
(* unlinking files and entering a nested frame are stutters.               *)
LEMMA TxnRefines ==
    ASSUME IInv, NEW t \in Threads,
           \/ WriteEnter(t) \/ Throw(t) \/ TxnStep(t)
           \/ \E e \in Entities : Save(t, e) \/ Delete(t, e)
    PROVE  [Store!Next]_(Store!vars)
  <1> USE DEF IInv, TypeOK, LockTypeOK, FrameInv, StoreInv, SeenInv, Objects,
              lockVars, storeVars, frameVars, Stage, Store!vars
  <1>1. CASE WriteEnter(t)
    <2>1. CASE phase = "idle"
      <3>1. Store!Begin(t)  BY <1>1, <2>1 DEF WriteEnter, WriteLock, Store!Begin
      <3>2. QED  BY <3>1 DEF Store!Next
    <2>2. CASE phase = "run"
      <3>1. UNCHANGED Store!vars  BY <1>1, <2>2 DEF WriteEnter, WriteLock
      <3>2. QED  BY <3>1
    <2>3. QED  BY <1>1, <2>1, <2>2 DEF WriteEnter
  <1>2. ASSUME NEW e \in Entities, Save(t, e) \/ Delete(t, e)
        PROVE  [Store!Next]_(Store!vars)
    <2>1. Store!Change  BY <1>2 DEF Save, Delete, Store!Change
    <2>2. QED  BY <2>1 DEF Store!Next
  <1>3. CASE Commit(t)
    <2>1. Store!Publish  BY <1>3 DEF Commit, Store!Publish
    <2>2. QED  BY <2>1 DEF Store!Next
  <1>4. CASE Rollback(t) \/ RollbackThrows(t) \/ CloseEngine(t) \/ CloseThrows(t)
    <2>1. CASE Rollback(t)
      <3>1. Store!Change  BY <2>1 DEF Rollback, Store!Change
      <3>2. QED  BY <3>1 DEF Store!Next
    <2>2. CASE RollbackThrows(t) /\ up
      <3>1. Store!Tear  BY <2>2 DEF RollbackThrows, Store!Tear
      <3>2. QED  BY <3>1 DEF Store!Next
    <2>3. CASE RollbackThrows(t) /\ ~up
      <3>1. UNCHANGED Store!vars  BY <2>3 DEF RollbackThrows
      <3>2. QED  BY <3>1
    <2>4. CASE CloseEngine(t)
      <3>1. Store!Abort  BY <2>4 DEF CloseEngine, Store!Abort
      <3>2. QED  BY <3>1 DEF Store!Next
    <2>5. CASE CloseThrows(t)
      <3>1. Store!Tear  BY <2>5 DEF CloseThrows, Store!Tear
      <3>2. QED  BY <3>1 DEF Store!Next
    <2>6. QED  BY <1>4, <2>1, <2>2, <2>3, <2>4, <2>5
  <1>5. CASE Finally(t)
    <2>1. CASE depth = 1
      <3>1. Store!End  BY <1>5, <2>1 DEF Finally, WriteUnlock, Store!End
      <3>2. QED  BY <3>1 DEF Store!Next
    <2>2. CASE depth # 1 /\ up
      <3>1. Store!Resume  BY <1>5, <2>2 DEF Finally, Store!Resume
      <3>2. QED  BY <3>1 DEF Store!Next
    <2>3. CASE depth # 1 /\ ~up
      <3>1. UNCHANGED Store!vars  BY <1>5, <2>3 DEF Finally
      <3>2. QED  BY <3>1
    <2>4. QED  BY <2>1, <2>2, <2>3
  <1>6. CASE Throw(t) \/ RunReturns(t) \/ PathsInitialized(t) \/ Unlinked(t)
    <2>1. UNCHANGED Store!vars
      BY <1>6 DEF Throw, RunReturns, PathsInitialized, Unlinked
    <2>2. QED  BY <2>1
  <1>7. ASSUME NEW b \in Blobs, InitPath(t, b) \/ Unlink(t, b)
        PROVE  [Store!Next]_(Store!vars)
    <2>1. UNCHANGED Store!vars  BY <1>7 DEF InitPath, Unlink
    <2>2. QED  BY <2>1
  <1>8. QED  BY <1>1, <1>2, <1>3, <1>4, <1>5, <1>6, <1>7 DEF TxnStep

(* Closing and dying stop the abstract store, opening restarts it. *)
LEMMA ProcessRefines ==
    ASSUME IInv, Close \/ Crash \/ Open
    PROVE  [Store!Next]_(Store!vars)
  <1> USE DEF IInv, TypeOK, LockTypeOK, FrameInv, StoreInv, SeenInv,
              lockVars, storeVars, frameVars, Stage, Store!vars
  <1>1. CASE Close
    <2>1. seen = [t \in Threads |-> NoAnswer]
      BY <1>1 DEF Close
    <2>2. Store!Stop  BY <1>1, <2>1 DEF Close, Store!Stop
    <2>3. QED  BY <2>2 DEF Store!Next
  <1>2. CASE Crash
    <2>1. Store!Stop  BY <1>2 DEF Crash, LockVanishes, Store!Stop
    <2>2. QED  BY <2>1 DEF Store!Next
  <1>3. CASE Open
    <2>1. Store!Restart  BY <1>3 DEF Open, Store!Restart
    <2>2. QED  BY <2>1 DEF Store!Next
  <1>4. QED  BY <1>1, <1>2, <1>3

(* ObjectDatabase implements the TransactionalStore: what a frame of       *)
(* write() did is committed and seen as a whole, or it is gone and the     *)
(* database is closed, or the engine could not be rolled back and closed.  *)
THEOREM Refinement == Spec => ImplementsStore
  <1>1. Init => Store!Init
    BY DEF Init, LockInit, Stage, Store!Init
  <1>2. IInv /\ [Next]_vars => [Store!Next]_(Store!vars)
    <2> SUFFICES ASSUME IInv, [Next]_vars  PROVE [Store!Next]_(Store!vars)
      OBVIOUS
    <2>1. CASE UNCHANGED vars  BY <2>1 DEF vars, Stage, Store!vars
    <2>2. QED  BY <2>1, ReadRefines, TxnRefines, ProcessRefines DEF Next
  <1>3. QED  BY Invariance, <1>1, <1>2, PTL DEF Spec, ImplementsStore, Store!Spec

(***************************************************************************)
(* The cache of suppliers                                                  *)
(***************************************************************************)

(* The lock excludes readers from transactions, and the flag of persist()  *)
(* is up for its own transaction only.                                     *)
CacheTxnInv ==
    /\ writer # NoThread => readers = {}
    /\ writer = NoThread <=> inTxn = "none"
    /\ retention <=> inTxn = "persist"

(* A thread in query() holds the lock, and knows what its next step needs. *)
QueryInv ==
    \A t \in Threads :
        /\ pc[t] # "idle" => (t \in readers \/ writer = t) /\ asked[t] \in Suppliers
        /\ pc[t] \in {"idle", "get"} => result[t] = None
        /\ pc[t] \in {"probe", "key", "value", "done"} => result[t] # None
        /\ pc[t] \in {"key", "value"} => slot[t] \in SlotSet

(* v was computed from the objects as they are. *)
Current(v) == v # None => v = ValueOf(v.by)

(* Only a transaction of write(), which clears the cache in the end, may   *)
(* leave values behind that are out of date.                               *)
CurrentInv ==
    inTxn # "write" =>
        /\ \A i \in SlotSet : Current(vals[i])
        /\ \A t \in Threads : Current(result[t])

CacheInv == CacheTypeOK /\ CacheTxnInv /\ QueryInv /\ CurrentInv

(* Of whom a value is, and that it is one. *)
LEMMA ValueTyping ==
    ASSUME CacheTypeOK, NEW s \in Suppliers
    PROVE  ValueOf(s) \in Values /\ ValueOf(s) # None /\ ValueOf(s).by = s
  <1>1. [x \in Reads[s] |-> data[x]] \in [Reads[s] -> 0..MaxVersion]
    BY TableAssumption DEF CacheTypeOK
  <1>2. ValueOf(s) \in Values
    BY <1>1 DEF ValueOf, Values
  <1>3. QED  BY <1>2, NoneAssumption DEF ValueOf

(* Whether a value is current depends on the objects it was computed from. *)
LEMMA StaysCurrent ==
    ASSUME CacheTypeOK, NEW v \in Values \cup {None}, Current(v),
           \A x \in Topics : x \notin Persisted => data'[x] = data[x]
    PROVE  v # None => v = [by |-> v.by, of |-> [x \in Reads[v.by] |-> data'[x]]]
  <1> SUFFICES ASSUME v # None  PROVE v = [by |-> v.by, of |-> [x \in Reads[v.by] |-> data'[x]]]
    OBVIOUS
  <1>1. v.by \in Suppliers /\ v = ValueOf(v.by)
    BY DEF Current, Values
  <1>2. \A x \in Reads[v.by] : data'[x] = data[x]
    BY <1>1, TableAssumption, PersistAssumption
  <1>3. [x \in Reads[v.by] |-> data[x]] = [x \in Reads[v.by] |-> data'[x]]
    BY <1>2
  <1>4. QED  BY <1>1, <1>3 DEF ValueOf

LEMMA InitCache == CacheInit => CacheInv
  <1> SUFFICES ASSUME CacheInit  PROVE CacheInv
    OBVIOUS
  <1>1. CacheTypeOK
    <2>1. LockTypeOK
      BY DEF CacheInit, LockInit, LockTypeOK
    <2>2. data \in [Topics -> 0..MaxVersion]
      BY TableAssumption DEF CacheInit
    <2>3. QED  BY <2>1, <2>2 DEF CacheInit, CacheTypeOK
  <1>2. CacheTxnInv /\ QueryInv
    BY DEF CacheInit, LockInit, CacheTxnInv, QueryInv
  <1>3. CurrentInv
    BY DEF CacheInit, CurrentInv, Current
  <1>4. QED  BY <1>1, <1>2, <1>3 DEF CacheInv

(***************************************************************************)
(* query()                                                                 *)
(***************************************************************************)

LEMMA QueryEnterStep ==
    ASSUME CacheInv, NEW t \in Threads, NEW s \in Suppliers, QueryEnter(t, s)
    PROVE  CacheInv'
  <1> USE DEF CacheInv
  <1>1. CacheTypeOK'
    BY DEF QueryEnter, CacheTypeOK, LockTypeOK, ReadLock, lockVars, mapVars
  <1>2. CacheTxnInv'
    BY DEF QueryEnter, CacheTxnInv, ReadLock, lockVars
  <1>3. QueryInv'
    <2> SUFFICES ASSUME NEW u \in Threads  PROVE QueryInv!(u)'
      BY DEF QueryInv
    <2>1. CASE u = t
      BY <2>1 DEF QueryEnter, QueryInv, CacheTypeOK, ReadLock, lockVars
    <2>2. CASE u # t
      BY <2>2 DEF QueryEnter, QueryInv, CacheTypeOK, ReadLock, lockVars
    <2>3. QED  BY <2>1, <2>2
  <1>4. CurrentInv'
    BY DEF QueryEnter, CurrentInv, Current, ValueOf, mapVars
  <1>5. QED  BY <1>1, <1>2, <1>3, <1>4

LEMMA GetStep ==
    ASSUME CacheInv, NEW t \in Threads, Get(t)
    PROVE  CacheInv'
  <1> USE DEF CacheInv
  <1> PICK i \in SlotSet :
          /\ result' = [result EXCEPT ![t] = IF keys[i] = asked[t] THEN vals[i] ELSE None]
          /\ pc' = [pc EXCEPT ![t] = IF result'[t] = None THEN "compute" ELSE "done"]
    BY DEF Get
  <1>1. CacheTypeOK'
    BY DEF Get, CacheTypeOK, LockTypeOK, lockVars, mapVars
  <1>2. CacheTxnInv'
    BY DEF Get, CacheTxnInv, lockVars
  <1>3. QueryInv'
    <2> SUFFICES ASSUME NEW u \in Threads  PROVE QueryInv!(u)'
      BY DEF QueryInv
    <2>1. pc[t] = "get"
      BY DEF Get
    <2>2. QED  BY <2>1 DEF Get, QueryInv, CacheTypeOK, lockVars
  <1>4. CurrentInv'
    <2> SUFFICES ASSUME inTxn # "write"
                 PROVE  (\A j \in SlotSet : Current(vals[j])') /\ \A u \in Threads : Current(result[u])'
      BY DEF CurrentInv, Get
    <2>1. UNCHANGED <<data, vals>>
      BY DEF Get, mapVars
    <2>2. result' \in [Threads -> {None, vals[i]} \cup {result[u] : u \in Threads}]
      BY DEF CacheTypeOK
    <2>3. QED  BY <2>1, <2>2 DEF CurrentInv, Current, ValueOf, CacheTypeOK
  <1>5. QED  BY <1>1, <1>2, <1>3, <1>4

LEMMA ComputeStep ==
    ASSUME CacheInv, NEW t \in Threads, Compute(t)
    PROVE  CacheInv'
  <1> USE DEF CacheInv
  <1>0. asked[t] \in Suppliers
    BY DEF Compute, QueryInv
  <1>1. ValueOf(asked[t]) \in Values /\ ValueOf(asked[t]) # None /\ ValueOf(asked[t]).by = asked[t]
    BY <1>0, ValueTyping
  <1>2. CacheTypeOK'
    BY <1>1 DEF Compute, CacheTypeOK, LockTypeOK, lockVars, mapVars
  <1>3. CacheTxnInv'
    BY DEF Compute, CacheTxnInv, lockVars
  <1>4. QueryInv'
    <2> SUFFICES ASSUME NEW u \in Threads  PROVE QueryInv!(u)'
      BY DEF QueryInv
    <2>1. pc[t] = "compute"
      BY DEF Compute
    <2>2. QED  BY <1>1, <2>1 DEF Compute, QueryInv, CacheTypeOK, lockVars
  <1>5. CurrentInv'
    <2> DEFINE v == ValueOf(asked[t])
    <2>1. v = ValueOf(v.by)
      BY <1>1
    <2> HIDE DEF v
    <2>2. UNCHANGED <<data, vals, inTxn>> /\ result' = [result EXCEPT ![t] = v]
      BY DEF Compute, mapVars, v
    <2>3. QED  BY <2>1, <2>2 DEF CurrentInv, Current, ValueOf, CacheTypeOK
  <1>6. QED  BY <1>2, <1>3, <1>4, <1>5

LEMMA PutStep ==
    ASSUME CacheInv, NEW t \in Threads, PutProbe(t) \/ PutKey(t) \/ PutValue(t)
    PROVE  CacheInv'
  <1> USE DEF CacheInv
  <1>1. CASE PutProbe(t)
    <2> PICK i \in SlotSet :
            /\ slot' = [slot EXCEPT ![t] = i]
            /\ pc' = [pc EXCEPT ![t] = IF keys[i] = None THEN "key" ELSE "value"]
      BY <1>1 DEF PutProbe
    <2>1. /\ pc[t] = "probe" /\ met' \in BOOLEAN
          /\ UNCHANGED <<lockVars, data, mapVars, inTxn, retention, asked, result>>
      BY <1>1 DEF PutProbe, CacheTypeOK
    <2>2. CacheTypeOK'
      BY <2>1 DEF CacheTypeOK, LockTypeOK, lockVars, mapVars
    <2>3. CacheTxnInv' /\ CurrentInv'
      BY <2>1 DEF CacheTxnInv, CurrentInv, Current, ValueOf, lockVars, mapVars
    <2>4. QueryInv'
      <3> SUFFICES ASSUME NEW u \in Threads  PROVE QueryInv!(u)'
        BY DEF QueryInv
      <3>1. QED  BY <2>1 DEF QueryInv, CacheTypeOK, lockVars
    <2>5. QED  BY <2>2, <2>3, <2>4
  <1>2. CASE PutKey(t)
    <2>1. asked[t] \in Suppliers /\ slot[t] \in SlotSet /\ result[t] # None
      BY <1>2 DEF PutKey, QueryInv
    <2>2. CacheTypeOK'
      BY <1>2, <2>1 DEF PutKey, CacheTypeOK, LockTypeOK, lockVars
    <2>3. CacheTxnInv' /\ CurrentInv'
      BY <1>2 DEF PutKey, CacheTxnInv, CurrentInv, Current, ValueOf, lockVars
    <2>4. QueryInv'
      <3> SUFFICES ASSUME NEW u \in Threads  PROVE QueryInv!(u)'
        BY DEF QueryInv
      <3>1. QED  BY <1>2, <2>1 DEF PutKey, QueryInv, CacheTypeOK, lockVars
    <2>5. QED  BY <2>2, <2>3, <2>4
  <1>3. CASE PutValue(t)
    <2>1. slot[t] \in SlotSet /\ result[t] # None
      BY <1>3 DEF PutValue, QueryInv
    <2>2. CacheTypeOK'
      BY <1>3, <2>1 DEF PutValue, CacheTypeOK, LockTypeOK, lockVars
    <2>3. CacheTxnInv'
      BY <1>3 DEF PutValue, CacheTxnInv, lockVars
    <2>4. CurrentInv'
      BY <1>3, <2>1 DEF PutValue, CurrentInv, Current, ValueOf, CacheTypeOK
    <2>5. QueryInv'
      <3> SUFFICES ASSUME NEW u \in Threads  PROVE QueryInv!(u)'
        BY DEF QueryInv
      <3>1. QED  BY <1>3, <2>1 DEF PutValue, QueryInv, CacheTypeOK, lockVars
    <2>6. QED  BY <2>2, <2>3, <2>4, <2>5
  <1>4. QED  BY <1>1, <1>2, <1>3

LEMMA QueryExitStep ==
    ASSUME CacheInv, NEW t \in Threads, QueryExit(t)
    PROVE  CacheInv'
  <1> USE DEF CacheInv
  <1>1. CacheTypeOK'
    BY DEF QueryExit, CacheTypeOK, LockTypeOK, ReadUnlock, lockVars, mapVars
  <1>2. CacheTxnInv'
    BY DEF QueryExit, CacheTxnInv, ReadUnlock, lockVars
  <1>3. QueryInv'
    <2> SUFFICES ASSUME NEW u \in Threads  PROVE QueryInv!(u)'
      BY DEF QueryInv
    <2>1. CASE u = t
      BY <2>1 DEF QueryExit, QueryInv, CacheTypeOK
    <2>2. CASE u # t
      BY <2>2 DEF QueryExit, QueryInv, CacheTypeOK, ReadUnlock, lockVars
    <2>3. QED  BY <2>1, <2>2
  <1>4. CurrentInv'
    BY DEF QueryExit, CurrentInv, Current, ValueOf, CacheTypeOK, mapVars
  <1>5. QED  BY <1>1, <1>2, <1>3, <1>4

(***************************************************************************)
(* write() and persist()                                                   *)
(***************************************************************************)

LEMMA EnterStep ==
    ASSUME CacheInv, NEW t \in Threads, BeginWrite(t) \/ PersistEnter(t)
    PROVE  CacheInv'
  <1> USE DEF CacheInv
  <1>1. writer = NoThread /\ inTxn = "none" /\ ~retention /\ readers = {}
    BY DEF BeginWrite, PersistEnter, WriteLock, CacheTxnInv, CacheTypeOK
  <1>2. /\ writer' = t /\ readers' = {}
        /\ \/ inTxn' = "write" /\ retention' = FALSE
           \/ inTxn' = "persist" /\ retention' = TRUE
        /\ UNCHANGED <<data, mapVars, queryVars, met>>
    BY <1>1 DEF BeginWrite, PersistEnter, WriteLock, CacheTypeOK
  <1>3. CacheTypeOK'
    BY <1>2 DEF CacheTypeOK, LockTypeOK, mapVars, queryVars
  <1>4. CacheTxnInv'
    BY <1>2 DEF CacheTxnInv
  <1>5. QueryInv'
    BY <1>1, <1>2 DEF QueryInv, queryVars
  <1>6. CurrentInv'
    BY <1>1, <1>2 DEF CurrentInv, Current, ValueOf, mapVars, queryVars
  <1>7. QED  BY <1>3, <1>4, <1>5, <1>6

LEMMA ChangeStep ==
    ASSUME CacheInv, NEW t \in Threads, NEW x \in Topics, Change(t, x)
    PROVE  CacheInv'
  <1> USE DEF CacheInv
  <1>1. data' \in [Topics -> 0..MaxVersion]
    BY TableAssumption DEF Change, CacheTypeOK
  <1>2. UNCHANGED <<lockVars, mapVars, inTxn, retention, queryVars, met>>
    BY DEF Change
  <1>3. CacheTypeOK'
    BY <1>1, <1>2 DEF CacheTypeOK, LockTypeOK, lockVars, mapVars, queryVars
  <1>4. CacheTxnInv' /\ QueryInv'
    BY <1>2 DEF CacheTxnInv, QueryInv, lockVars, queryVars
  <1>5. CurrentInv'
    <2> SUFFICES ASSUME inTxn # "write"
                 PROVE  (\A j \in SlotSet : Current(vals[j])') /\ \A u \in Threads : Current(result[u])'
      BY <1>2 DEF CurrentInv
    <2>1. \A y \in Topics : y \notin Persisted => data'[y] = data[y]
      BY DEF Change, CacheTypeOK
    <2>2. UNCHANGED <<vals, result>>
      BY <1>2 DEF mapVars, queryVars
    <2>3. ASSUME NEW j \in SlotSet  PROVE Current(vals[j])'
      <3>1. vals[j] \in Values \cup {None} /\ Current(vals[j])
        BY DEF CacheTypeOK, CurrentInv
      <3>2. vals[j] # None => vals[j] =
                [by |-> vals[j].by, of |-> [y \in Reads[vals[j].by] |-> data'[y]]]
        BY <2>1, <3>1, StaysCurrent
      <3>3. QED  BY <2>2, <3>2 DEF Current, ValueOf
    <2>4. ASSUME NEW u \in Threads  PROVE Current(result[u])'
      <3>1. result[u] \in Values \cup {None} /\ Current(result[u])
        BY DEF CacheTypeOK, CurrentInv
      <3>2. result[u] # None => result[u] =
                [by |-> result[u].by, of |-> [y \in Reads[result[u].by] |-> data'[y]]]
        BY <2>1, <3>1, StaysCurrent
      <3>3. QED  BY <2>2, <3>2 DEF Current, ValueOf
    <2>5. QED  BY <2>3, <2>4
  <1>6. QED  BY <1>3, <1>4, <1>5

LEMMA WriteExitStep ==
    ASSUME CacheInv, NEW t \in Threads, WriteExit(t)
    PROVE  CacheInv'
  <1> USE DEF CacheInv
  <1>1. /\ writer = t /\ readers = {} /\ inTxn # "none" /\ pc[t] = "idle"
        /\ writer' = NoThread /\ readers' = {} /\ inTxn' = "none" /\ retention' = FALSE
        /\ UNCHANGED <<data, queryVars>> /\ met' \in BOOLEAN
    BY DEF WriteExit, WriteUnlock, CacheTxnInv, CacheTypeOK
  <1>2. \A u \in Threads : pc[u] = "idle" /\ result[u] = None
    BY <1>1 DEF QueryInv, CacheTypeOK
  <1>3. \/ retention /\ UNCHANGED mapVars
        \/ ~retention /\ EmptyMap
    BY DEF WriteExit
  <1>4. CacheTypeOK'
    BY <1>1, <1>3 DEF CacheTypeOK, LockTypeOK, mapVars, queryVars, EmptyMap
  <1>5. CacheTxnInv'
    BY <1>1 DEF CacheTxnInv
  <1>6. QueryInv'
    BY <1>1, <1>2 DEF QueryInv, queryVars
  <1>7. CurrentInv'
    <2>1. \A u \in Threads : Current(result[u])'
      BY <1>1, <1>2 DEF Current, queryVars
    <2>2. CASE retention
      BY <1>1, <1>3, <2>1, <2>2 DEF CacheTxnInv, CurrentInv, Current, ValueOf, mapVars
    <2>3. CASE ~retention
      BY <1>3, <2>1, <2>3 DEF CurrentInv, Current, EmptyMap
    <2>4. QED  BY <2>2, <2>3
  <1>8. QED  BY <1>4, <1>5, <1>6, <1>7

(***************************************************************************)
(* Theorems                                                                *)
(***************************************************************************)

LEMMA NextCache == CacheInv /\ [CacheNext]_cacheVars => CacheInv'
  <1> SUFFICES ASSUME CacheInv, [CacheNext]_cacheVars  PROVE CacheInv'
    OBVIOUS
  <1>1. CASE UNCHANGED cacheVars
    BY <1>1 DEF cacheVars, CacheInv, CacheTypeOK, LockTypeOK, CacheTxnInv, QueryInv, CurrentInv, Current, ValueOf
  <1>2. CASE CacheNext
    BY <1>2, QueryEnterStep, GetStep, ComputeStep, PutStep, QueryExitStep, EnterStep,
       WriteExitStep, ChangeStep DEF CacheNext, QueryStep
  <1>3. QED  BY <1>1, <1>2

(* CacheInv holds in every state of every execution. *)
THEOREM CacheInvariance == CacheSpec => []CacheInv
  BY InitCache, NextCache, PTL DEF CacheSpec

(* The variables keep their types, also where puts into the map interleave. *)
THEOREM CacheTyping == CacheSpec => []CacheTypeOK
  <1>1. CacheInv => CacheTypeOK  BY DEF CacheInv
  <1>2. QED  BY CacheInvariance, <1>1, PTL

(* Between writes every cached value is what its supplier would compute,   *)
(* although query() fills the map under the read lock and in transactions, *)
(* and persist() keeps it.                                                 *)
THEOREM CachedValuesAreCurrent == CacheSpec => []CacheCurrent
  <1>1. CacheInv => CacheCurrent
    BY DEF CacheInv, CacheTxnInv, CurrentInv, Current, CacheCurrent
  <1>2. QED  BY CacheInvariance, <1>1, PTL

(* A reader is never answered with what was true before the last write.    *)
THEOREM AnswersAreCurrent == CacheSpec => []AnswerCurrent
  <1>1. CacheInv => AnswerCurrent
    BY DEF CacheInv, CacheTypeOK, LockTypeOK, CacheTxnInv, QueryInv, CurrentInv, Current, AnswerCurrent
  <1>2. QED  BY CacheInvariance, <1>1, PTL

(***************************************************************************)
(* Puts that meet in a slot                                                *)
(***************************************************************************)

(* Without a meeting, whoever has found a slot finds nobody else's key in  *)
(* it later, and every value stands beside the key of its supplier.        *)
SlotInv ==
    /\ \A i \in SlotSet : vals[i] # None => vals[i].by = keys[i]
    /\ \A t \in Threads :
          /\ result[t] # None => result[t].by = asked[t]
          /\ pc[t] = "key" => keys[slot[t]] \in {asked[t], None}
          /\ pc[t] = "value" => keys[slot[t]] = asked[t]
    /\ \A t, u \in Threads :
          pc[t] = "key" /\ pc[u] = "key" /\ slot[t] = slot[u] => asked[t] = asked[u]

MixInv == ~met => SlotInv

(* Every step keeps the entries apart, or is a meeting. *)
LEMMA MixStep == CacheInv /\ MixInv /\ [CacheNext]_cacheVars => MixInv'
  <1> SUFFICES ASSUME CacheInv, MixInv, [CacheNext]_cacheVars, ~met'  PROVE SlotInv'
    BY DEF MixInv
  <1> USE DEF CacheInv, MixInv
  <1>1. CASE UNCHANGED cacheVars
    BY <1>1 DEF cacheVars, mapVars, queryVars, SlotInv
  <1>2. ASSUME NEW t \in Threads, NEW s \in Suppliers, QueryEnter(t, s)  PROVE SlotInv'
    <2>1. result[t] = None /\ UNCHANGED <<mapVars, slot, result, met>>
      BY <1>2 DEF QueryEnter, QueryInv
    <2>2. QED  BY <1>2, <2>1 DEF QueryEnter, SlotInv, CacheTypeOK, mapVars
  <1>3. ASSUME NEW t \in Threads, Get(t)  PROVE SlotInv'
    <2> PICK i \in SlotSet :
            /\ result' = [result EXCEPT ![t] = IF keys[i] = asked[t] THEN vals[i] ELSE None]
            /\ pc' = [pc EXCEPT ![t] = IF result'[t] = None THEN "compute" ELSE "done"]
      BY <1>3 DEF Get
    <2>1. QED  BY <1>3 DEF Get, SlotInv, CacheTypeOK, mapVars
  <1>4. ASSUME NEW t \in Threads, Compute(t)  PROVE SlotInv'
    <2>1. ValueOf(asked[t]).by = asked[t]
      BY DEF ValueOf
    <2>2. QED  BY <1>4, <2>1 DEF Compute, SlotInv, CacheTypeOK, mapVars
  <1>5. ASSUME NEW t \in Threads, PutProbe(t)  PROVE SlotInv'
    <2> PICK i \in SlotSet :
            /\ Finds(asked[t], i)
            /\ slot' = [slot EXCEPT ![t] = i]
            /\ pc' = [pc EXCEPT ![t] = IF keys[i] = None THEN "key" ELSE "value"]
            /\ met' = (met \/ \E u \in Threads :
                         pc[u] = "key" /\ slot[u] = i /\ asked[u] # asked[t])
      BY <1>5 DEF PutProbe
    <2>1. /\ ~met
          /\ \A u \in Threads : pc[u] = "key" /\ slot[u] = i => asked[u] = asked[t]
      OBVIOUS
    <2>2. keys[i] \in {asked[t], None}
      BY DEF Finds
    <2>3. QED  BY <1>5, <2>1, <2>2 DEF PutProbe, SlotInv, CacheTypeOK, mapVars
  <1>6. ASSUME NEW t \in Threads, PutKey(t)  PROVE SlotInv'
    <2>1. asked[t] # None /\ slot[t] \in SlotSet /\ ~met
      BY <1>6, NoneAssumption DEF PutKey, QueryInv
    <2>2. \A i \in SlotSet : keys[i] # None => keys'[i] = keys[i]
      BY <1>6, <2>1 DEF PutKey, SlotInv, CacheTypeOK
    <2>3. \A i \in SlotSet : vals[i] # None => keys[i] # None
      BY <2>1, NoneAssumption DEF SlotInv, CacheTypeOK, Values
    <2>4. keys'[slot[t]] = asked[t] /\ \A i \in SlotSet : i # slot[t] => keys'[i] = keys[i]
      BY <1>6, <2>1 DEF PutKey, CacheTypeOK
    <2>5. pc'[t] = "value" /\ \A u \in Threads : u # t => pc'[u] = pc[u]
      BY <1>6 DEF PutKey, CacheTypeOK
    <2>6. UNCHANGED <<vals, asked, slot, result, met>>
      BY <1>6 DEF PutKey
    <2>7. \A i \in SlotSet : vals'[i] # None => vals'[i].by = keys'[i]
      BY <2>1, <2>2, <2>3, <2>6 DEF SlotInv
    <2>8. ASSUME NEW u \in Threads
          PROVE  /\ result'[u] # None => result'[u].by = asked'[u]
                 /\ pc'[u] = "key" => keys'[slot'[u]] \in {asked'[u], None}
                 /\ pc'[u] = "value" => keys'[slot'[u]] = asked'[u]
      <3>1. pc[u] \in {"key", "value"} => slot[u] \in SlotSet /\ asked[u] # None
        BY NoneAssumption DEF QueryInv
      <3>2. pc[u] = "key" /\ slot[u] = slot[t] => asked[u] = asked[t]
        BY <1>6, <2>1 DEF PutKey, SlotInv
      <3>3. QED  BY <2>1, <2>2, <2>4, <2>5, <2>6, <3>1, <3>2 DEF SlotInv
    <2>9. \A u, v \in Threads :
            pc'[u] = "key" /\ pc'[v] = "key" /\ slot'[u] = slot'[v] => asked'[u] = asked'[v]
      BY <2>1, <2>5, <2>6 DEF SlotInv
    <2>10. QED  BY <2>7, <2>8, <2>9 DEF SlotInv
  <1>7. ASSUME NEW t \in Threads, PutValue(t)  PROVE SlotInv'
    <2>1. result[t] # None /\ slot[t] \in SlotSet
      BY <1>7 DEF PutValue, QueryInv
    <2>2. QED  BY <1>7, <2>1 DEF PutValue, SlotInv, CacheTypeOK
  <1>8. ASSUME NEW t \in Threads, QueryExit(t)  PROVE SlotInv'
    BY <1>8 DEF QueryExit, SlotInv, CacheTypeOK, mapVars
  <1>9. ASSUME NEW t \in Threads, BeginWrite(t) \/ PersistEnter(t) \/ \E x \in Topics : Change(t, x)
        PROVE  SlotInv'
    BY <1>9 DEF BeginWrite, PersistEnter, Change, SlotInv, mapVars, queryVars
  <1>10. ASSUME NEW t \in Threads, WriteExit(t)  PROVE SlotInv'
    <2>1. \A u \in Threads : pc[u] = "idle" /\ result[u] = None
      BY <1>10 DEF WriteExit, WriteUnlock, CacheTxnInv, QueryInv, CacheTypeOK
    <2>2. UNCHANGED queryVars
      BY <1>10 DEF WriteExit
    <2>3. UNCHANGED <<mapVars, met>> \/ EmptyMap
      BY <1>10 DEF WriteExit
    <2>4. QED  BY <2>1, <2>2, <2>3 DEF SlotInv, EmptyMap, mapVars, queryVars
  <1>11. QED
    BY <1>1, <1>2, <1>3, <1>4, <1>5, <1>6, <1>7, <1>8, <1>9, <1>10 DEF CacheNext, QueryStep

(* However puts interleave, two suppliers are mixed up only after they have *)
(* met in an empty slot, and no longer than to the end of the next write(). *)
THEOREM MixUpsNeedAMeeting == CacheSpec => []MixUpsEnd
  <1>1. CacheInit => MixInv
    BY DEF CacheInit, MixInv, SlotInv
  <1>2. CacheInv /\ MixInv => MixUpsEnd
    BY DEF CacheInv, QueryInv, MixInv, SlotInv, MixUpsEnd
  <1>3. QED  BY CacheInvariance, <1>1, MixStep, <1>2, PTL DEF CacheSpec
=============================================================================
