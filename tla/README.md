# Jease: TLA+ models, checks and proofs

Jease is a content-management system in Java. All of its state lives in memory as
plain objects; an object database (`jfix.db4o`) keeps them on disk, a tree of
`Node`s (`jease.cmf`) gives them paths, and the CMS (`jease.cms`, `jease.site`)
adds users, guards, revisions, a trash, references, links and a web front end.
The repository has no tests, so the code, its comments and its Javadoc are the
reference. Paths below are relative to `src/src/main/java`; `PROJECT.json` maps every
definition to its lines and lists the hazards each property is aimed at.

## 1. Inventory

| Component | State | Operations | What is hard | What must hold |
|---|---|---|---|---|
| Object database (`jfix/db4o/ObjectDatabase`, `Database`, `Blob`) | read-write lock, `objectRepository`, engine, `blobsToSave/Delete`, `transactionInProgress`, files of blobs | `open`, `close`, `read`, `query*`, `write`, `save`, `delete` | many threads; failure or crash between the steps of `write`; nested `write` | queries see committed data only; a failed transaction is fail-stop; blobs keep their files |
| Object graph and garbage collection (`ObjectRepository`, `Reflections`, `gc`, maintenance timer) | references between objects, `maintenanceScheduled` | `getReferrers`, `getGarbage`, `gc`, `delete`, `deleteDeliberately` | fields are changed outside of any lock; values enclose values | no stored reference to a deleted object; garbage is collected |
| Supplier cache (`ObjectDatabase.query(Supplier)`) | `supplierCache`, an `IdentityHashMap` | cached query, `persist` (keeps the cache) | filled under a *shared* lock | a cached value is current, and the one of its supplier |
| Persistence engines (`jfix/db4o/engine`) | files | `begin`, `save`, `delete`, `commit`, `rollback`, `backup` | four implementations of one contract | rollback restores the last commit |
| Node tree (`jease/cmf/domain/Node`, `jease/cmf/service/Nodes`) | `parent`, `children`, `id`, the global `changedNodes` | `appendChild(ren)`, `detach`, `setId`, `validateChild`, `save`, `delete` | the tree is changed without a lock, and saved under one | it is a tree; what is rooted is stored and nothing else; ids are unique among siblings, but in a trash |
| Paths and relocation (`Nodes.getByPath`, `Relocator`) | map path to node, links in texts, redirects | lookup, path change | the map is filled outside of the lock; links are rewritten in a transaction before that of the move | a lookup returns the node that has the path; links follow their target |
| Contents (`Contents`, `Trash`, `Reference`, `Factory`, `Access`) | trash, references to content, roots of users | `delete`, `emptyTrash`, copy, sync, guards | references to references, trash in a trash | no deletion leaves a reference behind, or takes a root of a user |
| Editing (`ContentEditor`, `ObjectEditor`) | edited copy, `lastModified`, `lastModifier` | load, validate, save, view, close | two sessions on one content; purges, relocations and deletions above that do not take the monitor; saves that throw half-way; factories | no lost update without "content is stale"; the database follows |
| Discussions (`Discussion`, `Discussions`) | comments | add, moderate, delete | ids counted from the number of comments | ids are unique |
| Sequences (`Sequences`, `Sequence`) | value | `getNext`, `get` | first use by two threads; crash | numbers increase |
| Revisions (`Revisions`, `Version`, `Revisioner`, `Serializer`) | versions of a content | check in, check out, purge | blobs enclosed by versions; a purge beside a save | a purge keeps what it says, versions stay in order |
| Users and roles (`Users`, `User`, `Role`) | users, roots, roles | save, remove | two administrators at once | logins are unique; a referenced user stays |
| Link checker (`Linkchecker`) | table of results, `active` | `start`, `clear`, `check` | each start makes a new instance, so checks overlap | the table is of one check |
| Timers, mails, properties, setup, import, backup | background threads, files | | pure input and output on top of the above | |
| Request routing (`JeaseController`, `Navigations`, `Authorizations`) | session, guard cache | filter, rewrite, guard | caches | a guarded page asks for its guard |
| Widgets and utilities (`jfix/zk`, `jfix/util`, `jfix/servlet`, `org/sinnlabs`) | user interface, pure functions | | | |

How they interact: every request of the web front end runs in a thread of the servlet
container. It reads and changes nodes *in memory and without a lock*, and then calls
`Nodes.save` or `Nodes.delete`, which take the write lock of the database, and under it the
monitor of `Node.changedNodes`, and store or delete what was marked. Queries take the read
lock and hand out live objects. The maintenance timer is one more thread that takes the write
lock. Caches (`Database.query(Supplier)`) are cleared at the end of a write. After a
transaction that fails, the database closes itself and stays closed until it is opened again
(unless the engine throws once more while it is rolled back or closed).

The hard behaviours follow from that: steps of requests between the unlocked change and the
locked save; a global set of marks that any save consumes; failures and crashes between the
steps of `write()`; sessions that show a tree others have changed; and deletions that have to
take the right things with them (references, values, files) and nothing else.

## 2. Plan

The order in which the modules were written, and in which they are best read:

1. `ReadWriteLock`, `TransactionalStore`, `ObjectDatabase`, `ObjectDatabaseProofs`: the
   transactions everything else relies on; the abstract store and the refinement.
2. `SupplierCache`: the cache, under the same lock; what is proved about it is in `ObjectDatabaseProofs`.
3. `ObjectGraph`, `ObjectGraphProofs`: references, deletion, garbage collection and its timer.
4. `Ancestry`, `AncestryProofs`, `NodeTree`, `NodeTreeProofs`: the tree and its persistence, a
   request at a time.
5. `NodeTreeThreads`, `NodeTreeThreadsProofs`: the same requests taken apart and interleaved.
6. `Contents`, `ContentsProofs`: guards, trashes, references and the roots of users on top of
   the tree.
7. `Editing`, `EditingProofs`: sessions that edit one content, its revisions and its links.
8. `Paths`, `PathsProofs`: the map of paths, filled by visitors while the tree changes.

What could follow, most valuable first: the deletion of `Contents` taken apart (references
first, then the content, in two transactions); the `XStream` engine, the one whose commit and
rollback are written in this repository, to see what of `work` and `disk` of
`ObjectDatabase` it keeps; the map of guards of `Authorizations`, which is filled like that of `Paths`;
the overlapping checks of `Linkchecker`. Section 7 says why the rest is left out.

## 3. Modules

### ReadWriteLock, TransactionalStore, ObjectDatabase

`ReadWriteLock` is the `ReentrantReadWriteLock` as the database uses it: `WriteLock` is granted
again to its owner, and only the outermost `finally` releases it.

| Specification | Code (`ObjectDatabase.java`) |
|---|---|
| `up` | `objectRepository`, `persistenceEngine` are not null |
| `repo` | `objectRepository` |
| `work`, `disk` | the objects of the engine: with uncommitted changes, and as of the last commit |
| `file[b]` | the file of a blob: temporary, in the blob directory, gone |
| `toSave`, `toDelete`, `txn` | `blobsToSave`, `blobsToDelete`, `transactionInProgress` |
| `depth`, `phase` | frames of `write()` on the stack, and where the innermost is |
| `dropped`, `broken` | histories: what was deleted since the start; the engine threw while it was rolled back or closed, and is still in use |
| `ReadEnter`, `Read`, `ReadExit` | `query*`, `isUnique`, `isStored`, `read` |
| `WriteEnter`, `Save`, `Delete`, `RunReturns` | `write()` up to the return of `transaction.run()`; `traverseAndSave`, `traverseAndDelete` |
| `InitPath`, `PathsInitialized`, `Unlink`, `Unlinked`, `Commit` | the rest of the `try` block, file by file |
| `Throw` | an exception of the transaction, of the work on a file, or of the commit |
| `Rollback`, `RollbackThrows`, `CloseEngine`, `CloseThrows`, `Finally` | the `catch` and `finally` blocks; `rollback()` and the `close()` of the engine may throw themselves, and then nothing is set to null |
| `Close`, `Crash`, `Open` | `close()`, death of the process, `open()` with `populateObjectRepository` |

`TransactionalStore` is what callers may rely on: a set of objects that changes only when the
open transaction publishes its draft, answers that are always the published set, a failure
that closes the store. `torn` is the exception: a failure in which the engine throws as well leaves
the half-changed repository in use, and until the store is closed answers and drafts may hold
anything. `Resume` is the price of nesting: a nested `write()` publishes what the
outer transaction did so far. `ImplementsStore` maps `disk` to the store, `work` to the draft, `broken` to `torn`,
and the phase of `write()` to the stage of the transaction.

`Save` takes any entity, also one that another session has deleted (`NodeEditor.doSave` puts such a
content back into the tree): its blob is stored again although its file is gone, as `initPath` does
nothing for a blob that has a path. `CommittedBlobsMoved` and `StoredBlobHasFile` say so, and speak of
the other blobs. The one guard left is that a transaction does not save what it deleted itself, which
the two transactions of `Nodes` never do. The engines differ in what `close()` does with uncommitted
changes, hence both outcomes in `Close`; that of XStream is durable only when it is closed, since its
`commit()` writes nothing, and is not modelled (section 7).

### SupplierCache

`query(Supplier)` runs under the *read* lock and fills an `IdentityHashMap`. The map is a table of
slots with linear probing (`keys`, `vals`, `Home`), and `put()` is three steps, `PutProbe`,
`PutKey`, `PutValue`, as in the class of the JDK. `data` holds a version per topic; a cached value
says of whom and from which versions it was computed. `write()` and `persist()` are
`BeginWrite`/`PersistEnter`, `Change` and `WriteExit`, with `retention` for `supplierCacheRetention`.
`Finds` is the probe: a slot is found if no earlier one holds the key or is empty, and a step that
finds none does not happen. In the run both suppliers start in the same slot (`SameHome`), so that two
`put()` can find the same empty one; `met` remembers that they have. Left out: the table is never resized, and `close()` (the cache is null after it).

### ObjectGraph

`refs` are the fields in memory, `saved` those on disk, `stored` the objects of the repository.
A transaction is one step, which `ObjectDatabase` justifies, but `delete()` is taken apart: it
counts the referrers (and collects garbage) before its transaction (`DeleteBegin`), counts again in
it (`DeleteCount`, or `DeleteFails`, which closes the database) and removes (`DeleteRemove`), while
setters go on without a lock. `Links` says which field may hold
what and `Declared` which of these fields `Reflections.isAssignable` accepts. `Assign` and
`Unassign` are setters, of any object that a session may hold, deleted ones too, and `Save` stores
those again. `Deletable` are the classes that `Database.delete` is called for (users, roles, ...);
contents are deleted with `DeleteDeliberately`, which looks at no references. `raced` and `touched` are
histories: a reference to what is being deleted was set meanwhile; fields for values that were
changed and not saved. `Maintain` the task of the timer, which may lose its thread to a backup
that throws; `Crash` reads back what was saved. A value is enclosed by one object
(`OwnerAssumption`), and values nest two deep.

### Ancestry, NodeTree

`Ancestry` has the ancestors and descendants of a node in two forms: `Below`, the least closed
set (convenient for proofs, and meaningful on a cycle), and `Above`, one parent after the
other. Both agree on every assignment of parents, with cycles or without:
`AncestryProofs.AboveIsBelow` proves it, and `MCNodeTreeThreads` lets TLC evaluate it.

| Specification | Code |
|---|---|
| `parent`, `children`, `id` | fields of `Node`; the array of children as a set |
| `changed` | `Node.changedNodes` |
| `root` | `Nodes.root`, set by `queryRoot` at the start |
| `repository`, `disk` | the nodes the database knows, and their fields when last saved |
| `shown` | nodes that sessions may still hold |
| `Append`, `Detach`, `Valid` | `appendChild`, `detach`, `validateChild`; a `Trash` takes children with equal ids |
| `Persist` | `Nodes.save`/`delete` with `processChangedNodes`: rooted nodes are saved, others deleted, the marks cleared |
| `SaveNode`, `CreateNode`, `DeleteNode`, `PreviewNode`, `CopyNode` | `NodeEditor`, `ContentEditor` |
| `AppendNode`, `AppendNodes` | drops on the tree and into the table (`Nodes.append`) |
| `ImportNode` | `Backups.restore`, `Imports` |
| `Restart` | death or failure of the database, and a new start |

A request is one step. `Stale` says what a session may keep while others work: nothing, a
container another session has deleted, or an unsaved copy of a container.

### NodeTreeThreads

Here `appendChild` and `save`/`delete` are the single reads and writes of the fields. `detachParent` reads
the field `parent` anew for each use: `FindOld`, `LookUp`, `FindOwner`, `ReadOld`, `RemoveFromOld`, `FindMarked`,
`MarkOld`, `Unparent`, `MarkNode`. If another thread detaches the node in between, the next read is a
`NullPointerException` (`ParentGone`), and the array that was written stays unmarked (`unmarked`).
Then `Reparent`, `ReadNew`, `AddToNew`, `MarkNew`; `Lock`, `MarkSaved` or `DetachSubtree`, `Enter` (the monitor), `Process` for each
marked node in any order, `Leave`. A marked node below a cycle of parents blocks `Process`, as
`isRooted` never returns. `overtaken` are the threads that validated a
move before another one moved a node. Left out: ids, new nodes, and interleavings inside `detach()` of
a subtree, which is one step: the array of a parent that another thread writes at that moment may then
lose an entry or keep one, but not its marks.

### Contents

`Contents.delete`, `deleteReferences`, `isDeletable`, the guards of `Content`, and `emptyTrash`, on the parents
of `NodeTree`. The loop that empties a trash keeps its list (`todo`) from one transaction to the
next, so that other requests (`Delete`, `Append`, `EditReference`, `EditRoots`) come in between.
`EditReference` and `EditRoots` save what was chosen from a list that was loaded before, so it may be a trash, or
deleted by now; so may the reference itself, which is put back into the tree. What is left out:
references that lead back to themselves (`Choices`; `deleteReferences` would recurse for ever), a
hazard in the list.

### Editing

One content. `text`, `editor`, `stamp` and `revisions` are its fields in memory, `disk` what the
database has of it. A text is the save it comes from and the links in it; a date (`stamp`) is
compared by its identity, so a number per save stands for it.

| Specification | Code |
|---|---|
| `Load`, `Close` | `ObjectEditor.invokeLoad`, `closePerformed`; `lastNodeModification` is `seen` |
| `Choose` | the list of revisions in `ContentEditor` and `Revisions.checkout` |
| `Validate` | `invokeSave` up to the stale check, with the monitor of the content (`monitor`) |
| `ValidateInFactory` | the same in a session whose container is a `Factory`: there is no stale check |
| `Write` | `saveEditorToObject` and `saveLastModification` (`Mark`, `Marks`: an administrator who saves the content of somebody else leaves no date) |
| `Checkin`, `Purged` | `Revisions.checkin`, `purge(content, count, days)` |
| `Persist` | `Nodes.save` and the end of `invokeSave` |
| `Fail` | an exception before that, which `invokeSave` catches: the parent, the date, the fields and the version that were assigned stay, nothing is stored, and the monitor is free |
| `PurgeRead`, `PurgeWrite` | `Revisions.purge` of the administrator: reads the array, sets it and saves, without the monitor |
| `Delete`, `DeleteAbove`, `ReplaceUser` | `ContentEditor.delete`, the deletion of a container, `Users.replace` |
| `Move`, `Relocate`, `SaveMove`, `FailMove` | the path change of a link target: in memory, `Relocator.process` in its own transaction (which does nothing when the new path is in a trash), the save, or an exception in between |
| `SaveOther` | the save of some other node, which stores the marked ones, too |
| `Crash` | the process dies, or a transaction fails and closes the database: memory is what the database had |

The variables `missed`, `lost`, `kept`, `pending`, `failed`, `outdated` and `mixed` are histories for the
properties; no guard reads them. A failed save has an effect worth knowing: it leaves its own
date, so that the next try of the same editor is refused as stale. Left out: previews and copies (requests of `NodeTree`), the
texts of the validation and the index.

### Paths

`Nodes.getByPath` takes the map of paths from `Database.query(Supplier)`, and then looks up, walks
and puts without a lock: `Fetch`, `Check`, `Walk` (one id at a time), `Put`, `Get`. A write clears the
cache, but a visitor goes on with the map it has, so maps are numbered (`maps`, `writes`, `own`).
`BeginMove`, `Attach`, `BeginCreate`, `Name`, `BeginRename`, `Relocate` (which looks the new path up
itself), `Save`, `BeginDelete`, `DetachNode`, `EndDelete` are the session that edits (deleted nodes keep their
ids, and `BeginCreate` is also the save of one that an editor still shows); `BeginPeek`,
`NamePeek`, `EndPeek` the preview, which saves nothing. Here the children are a sequence, since
`getChild` returns the first with the id. `quiet` is a history for the property.

## 4. Runs

| Run | Instance | Shows |
|---|---|---|
| `db_txn` | 2 threads, 2 entities with a blob each, 2 frames | isolation, agreement of memory and disk, repeatable reads, both promises about the files of blobs, the refinement, and that the writer gives the lock back; 96,676 states |
| `db_blob_file` | the same, 1 frame | **violated**: files of deleted blobs are unlinked before the commit |
| `cache_coherent` | 2 threads, 2 suppliers that start in the same slot | cached values and answers are current, and of the supplier that was asked unless two puts have met since the last write; 45,759 states |
| `graph` | content, user, reference, version, blob, 1 crash | saved objects have their values, a deletion decides once, values stay with their owner, garbage goes; 279,336 states |
| `tree_sessions` | 5 nodes, one of them a trash, 2 ids, nothing stale | the tree is a tree and the database holds just it; 4,685 states up to symmetry |
| `tree_stale_copy` | 5 nodes, unsaved copies | **violated**: the children of a copy are never saved |
| `tree_threads` | 4 nodes, one thread moves and saves, the other saves and deletes | disk follows memory, no mark is lost, no cycle; 571,631 states |
| `tree_race` | the same | **violated**: a moved node is deleted by a save that comes in between |
| `contents` | root, 2 folders, 2 trashes, 2 references, at most 4 in the tree, 2 roots of users | roots of users stay, no deletion leaves a dangling reference, guarded contents stay; 49,402 states |
| `editing` | an administrator and a user, two link targets, one path the beginning of another and one in the trash, 2 events | no dated change is lost, the database follows, revisions are kept in order, links follow; 2,755,196 states |
| `editing_links` | the same, 1 event | **violated**: the relocation of one target rewrites the links to the other |
| `paths` | 4 nodes of which one is the copy of a preview, 2 visitors, 1 path | a quiet lookup finds the node that has the path; 431,985 states |

Bounds, and why they are enough. The database has one lock, so two threads show every
conflict between a reader and a writer, and between two writers; two entities tell a whole
transaction from a part; two frames tell an outer from an inner one, and a third would repeat
the second. In the cache, `MaxVersion = 2` lets the repository change between any two steps of a query,
and three slots leave room for a probe beyond the first, where both suppliers start. The classes of `graph` are the longest
chain that the domain has (reference, content, version, blob) and one more entity; `MaxCrashes = 1`
since a crash leaves nothing but what was saved. A tree of five nodes has chains of five
and siblings on two levels: moves across, into and out of a subtree, and copies of a subtree beside
its original. In `contents`, two references make a chain, two trashes a trash in a trash, and
four of seven nodes in the tree at once are the root, a trash, a folder in it and a reference to
that, or two references in a chain; two roots are that of the administrator and one more. `tree_race` and `tree_threads` have one thread that moves nodes: with two, moves below
each other pass both validations and make a cycle (a hazard in the list, and a block of
`Process`; `CyclesNeedOvertaking` proves what it takes). In `editing`, `MaxEvents = 2` allows two saves,
deletions or moves in all: what one session can do behind the back of the other, a save and a move of the
target, or a move into the trash and out of it, with purges, failures and crashes beside them;
`FirstEditor` is the user, so that the administrator's first save leaves no date; `Count = 2` and `Days = 0` keep two revisions, so that the second save purges the first text;
`PurgeTo = {1}` is a purge that drops something and keeps something; one target moves (`Moving`), and the
links to the other are those it may take along. In `paths`, `MaxWrites = 2` lets a visitor hold a
map that was dropped while another fills the next; the path has two ids, so that a move between
them can come in between; each copy is attached once, after which its entry in a map is the old one.

Fairness. `db_txn` uses weak fairness of the steps of `write()` (a thread with the lock is
scheduled) and strong fairness of the return of the outermost transaction (it calls
nested transactions finitely often). `graph` uses weak fairness of a deletion that has begun, and
strong fairness of the timer task, which comes back periodically and waits for the write lock;
`GarbageGoes` has as its premises that transactions go on and
that no backup ends the thread of the timer. No other run states fairness: users may always
stop. Deadlock is checked in every run.

## 5. What the violated runs show

* `db_blob_file`: `write()` unlinks the files of deleted blobs (`ObjectDatabase.java:266-270`) before
  it commits (271). If the commit fails, or the process dies in between, the blob is back
  after the restart, without its file.
* `tree_stale_copy`: the marks of copied children are consumed by any save before the copy is
  saved, so they are in the tree and not in the database.
* `tree_race`: between `detachParent()` and the assignment of the new parent the moved node is not
  rooted; a save by another thread in that moment deletes it.
* `editing_links`: the relocator replaces the old path as a plain prefix
  (`Relocator.java:40-45`), so that a move of `/news` changes the links to `/news2`.

What the other properties do not claim. Each excuse is a history variable or a constant, so that it covers
just the case named here; the code does show the behaviour, and the hazards in `PROJECT.json` name the lines.

* `ReadersSeeCommitted`, `RepositoryMatchesDisk`, `ImplementsStore` (`broken`, `torn`): when `rollback()`, or the
  engine in `close()`, throws in the catch block of `write()`, engine and repository stay in use with
  the half of the transaction in them.
* `CommittedBlobsMoved`, `StoredBlobHasFile` (`dropped`): a content that is saved again after its deletion keeps a
  blob whose file is gone.
* `MixUpsEnd` (`met`): two `put()` on the `IdentityHashMap` find the same empty slot under the shared lock, and the
  key of one ends beside the value of the other, until the next write.
* `StoreWellFormed` (`touched`): the collector looks at fields in memory, so a value that was taken out of its entity
  and not saved is gone after a crash. `DeleteDecides` (`raced`): a reference that is set while `delete()` runs dangles,
  or closes the database. `Reference.content` of type `Content` holds a `Text`, which `getReferrers` does not see
  (`Reflections.java:213`); it does not matter to `delete()`, which is not called for contents.
* `OnlyDeletionLosesNodes`, `RootSurvives`, and `UniqueIds` for tables (`Stale = {}`): with `StaleContainer`,
  `Nodes.append` on a container that another session deleted passes `validateChild`, and its save then deletes the appended node. What is below
  that node stays in the database without a parent, and after a crash `queryRoot` finds two such
  nodes and returns null. Children of a trash may have equal ids, as `Trash.java` says.
* `DiskCurrentAtRest` (`unmarked`): after the `NullPointerException` of `detachParent` the array of the old parent
  on disk still has children that were deleted, which a restart does not find.
* `RootsStay`, `NoDanglingReference`: an empty trash is deleted without a look at roots and references, and what was
  chosen from a list that is out of date is saved although it was deleted.
* `NoDatedChangeLost`: a save in a factory is not checked, nor is one after the choice of a revision; a change by an
  administrator to the content of somebody else leaves no date.
* `StoredAtRest` (`failed`): a save that throws leaves what it assigned in memory.
* `RevisionsKept`: versions checked in while the administrator purges.
* `LinksStay` (`outdated`, `mixed`): a text that was loaded before a move, an old revision, a move into the trash or of
  a target whose request fails, a crash between the transaction of the relocation and that of the
  move; and the prefix of `editing_links`.
* `AnswerAtPath` excuses copies: a preview may get its copy into the map, where it stays until
  the next write.

## 6. Proofs

All theorems hold for any sets of threads, sessions, entities, nodes, ... that satisfy the named
assumptions of the modules, and for every value of the bounds.

* `ObjectDatabaseProofs`. `TypeCorrect`, `CommittedReads`, `MemoryMatchesDisk`, `AnswersRepeat`. `ReadersSeeCommitted` is not inductive: a
  reader's answer stays committed only because a writer excludes readers (`FrameInv`),
  and because memory and engine agree at the start of every read section (`StoreInv`:
  `repo = work` while open, `work = disk` outside of a transaction and in `finally`, unless `broken`).
  `IInv` is the conjunction of these with the types and `SeenInv`. `NewBlobsAreMoved` and
  `StoredBlobsKeepFiles` need `BlobInv` in addition, which ties the files to the two lists. `Refinement`
  uses `IInv` only: each step of `write()` is a step of the abstract transaction or a stutter,
  for every bound on the nesting, whatever throws in the catch block.
  Of the cache (`SupplierCache`, `CacheSpec`): `CacheTyping`, `CachedValuesAreCurrent`, `AnswersAreCurrent`
  without a hypothesis. `CacheInv` adds that the lock excludes readers from transactions
  (`CacheTxnInv`), that a thread in `query()` holds it (`QueryInv`), and that only a transaction of
  `write()` leaves values behind that are not current (`CurrentInv`). `MixUpsNeedAMeeting` holds wherever
  suppliers start, and its invariant (`SlotInv`) only as long as `met` is false: whoever is about to write a key has found
  a slot that no other has found, and whoever writes a value writes it beside its own key.
* `ObjectGraphProofs`. `SavedValuesStay`, `DeletionDecides`, `ValuesStay`, without a hypothesis beyond the assumptions on
  fields (`LinkAssumption`, `OwnerAssumption`). `GraphInv` adds to `StoreWellFormed` that, while a deletion is between its counts and
  its removal, no stored object refers to what it deletes unless such a reference was set meanwhile
  (`NoReferrer`). A collection may not take a value that a saved field needs: fields in memory and on
  disk differ only where they are `touched`.
* `AncestryProofs`. What the three modules with a tree share: `MoveNoCycle` and `MoveKeepsTree` (a node
  that moves below something outside of its subtree), `DetachNoCycle` and `DetachKeepsTree`, and
  `RootedNodes`: in a tree where whatever has a parent has a parent that is the top or has one
  (`Chained`), "rooted" is "is the top or has a parent", a condition that steps can be checked
  against without an induction over paths. `AboveIsBelow`, for finite sets of nodes, goes by
  induction over the length of the climb and a count of the nodes visited; `SetInduction`
  states induction for a set of numbers, derived from the well-foundedness of `Nat`.
* `NodeTreeProofs`. For any `Stale`: `ShapeWhileUp`, parents and children agree, siblings outside of trashes have different ids and
  there are no cycles, however long the server runs (`Uptime`, the requests without `Restart`: a restart
  reads a database that stale objects have left incomplete, and TLC finds a cycle after it). `Shape` is
  inductive by itself; `CopyKeepsShape` maps a cycle among copies to one among the originals.
  If `Stale = {}`: `Typing`, `TreeShape`, `NoCycles`, `SiblingIds`, `DatabaseIsTree`, `DiskFollows`, `RestartFindsRoot`,
  `DeletionOnly`, with restarts. The invariant `TreeInv` adds `Chained` to the properties. `PersistKeeps` is the save after
  a change of the tree, and one lemma per request combines both.
* `NodeTreeThreadsProofs`. `Typing` and `NoMarkIsLost` for any threads; `DiskFollows` if one thread moves nodes
  (`OneMover`); `CyclesNeedOvertaking` for any number again: the step that closes a cycle is the assignment of a parent by
  a thread whose validation another one has overtaken (`StillValid`: of the others, what they validated still holds). `ThreadsInv` says where the change of a node is while it is not on disk (`Accounted`):
  marked (`Unsaved`: the global set, or what the thread in the monitor has taken from it), or about
  to be marked by the thread that made it (`Pending`). The write of the new parent has no mark
  after it; that it is saved follows from `OnItsWay`: the node is still marked, or a save has
  deleted it from the database, which is `tree_race`. When `detachParent` throws, the array it wrote is no longer
  accounted for (`unmarked`), but its difference to the disk is nodes that are not stored (`Gone`, `Agree`).
* `ContentsProofs`: `Typing`, `RootsSurvive`, `NoneDangles`, `NoCycles`, `GuardsProtect`, whatever users choose as roots and as contents of
  references. `ContentsInv` is the types, the absence of cycles and `Chained`; the action properties follow from it step
  by step. The climb to the root is `Above`, so that these proofs use `AboveIsBelow` throughout. `GuardsProtect` is
  about the contents that a trash guards, not about roots.
* `EditingProofs`. `EditingTyping`, `StaleCheckSuffices`, `StoredWhenNobodySaves`, `RevisionsStay`, `LinksKept`, without a
  hypothesis: `EditingInv` says who saves has the monitor (`MonitorInv`), who missed a date sees another one
  (`StaleInv`), where memory and disk may differ (`StoreInv`), that revisions are ordered and older
  than the clock (`VersionInv`), and which of the versions that are owed are on disk (`KeptInv`). `LinksKept` needs
  `LinksInv` in addition: of a target that no excuse covers, the links in memory, on disk and in the editors
  that may still save follow from where it is, was, or is moving to.
* `PathsProofs`. `Typing`, `SavedMapIsFresh`, `LookupsFindPath` for any tree at the start whose copies are bare
  (`TreeAssumption`); that the children form a tree is not needed. A preview changes the
  children without a save, so `RealAt` is the walk that ignores copies: previews leave it alone, as
  taking out a child does not change which of the others is first (`FirstOfRemove`), and the tree
  holds no copy but the one that is shown (`CopyInv`). While nothing is edited, the current map is
  `Fresh` (`MapInv`): it holds copies, nodes at their real place, or nothing, and whoever walks for
  it is where the real walk leads, or at a copy (`OnTrack`). A lookup during which nothing has changed
  has a fresh map of its own and meets no copy, and what it has not found is not there
  (`QuietInv`). Maps that `Clear` has dropped need not be fresh, since nobody fetches them again. Walks are
  followed by induction over their length (`Induction`), so the recursion of `NodeAt` is part of the proof.

Only model-checked: the liveness properties `WriterLeaves` and `GarbageGoes`, since the prover
does not treat liveness under fairness; and `Acyclic` of `tree_threads`, for one mover and one thread that deletes. Every other invariant and action property of the passing runs is
stated by a theorem.

## 7. Not modelled

* The persistence engines. Three are adapters of libraries, and what they add is a few
  calls; their contract is `work` and `disk` of `ObjectDatabase`. XStream's is weaker: its
  `commit()` only forgets the undo lists (`PersistenceEngineXStream.java:112-115`), and its
  file is written when it is closed (135-145). `backup()` copies files.
* Factories and guards of pages: walks over the tree without state of their own. The map of guards is
  filled like the map of paths.
* Sequences, discussions, the uniqueness of logins: a query and a save in two
  transactions, or an id that is counted. What goes wrong is plain from the code (see the
  hazards), no document promises more, and a model would restate it.
* Redirects, relative paths, dates of visibility, and what a reference delegates to its content: reads
  without interplay.
* The link checker writes a table nothing else relies on. Timers, mails, setup, imports,
  backups, request routing, search and output, and the migrations of databases are input and
  output; where they change nodes, their request is an action (`ImportNode` for imports).
* Widgets (`jfix/zk`, `org/sinnlabs/zk`) and utilities: layout, events and stateless helpers. What
  a session can still hold when it sends a request is `Stale` in `NodeTree` and `seen`, `fields` in `Editing`.
* The JavaScript under `src/main/resources/web` and `src/main/webapp` is vendored code of CodeMirror
  with its modes, and scripts of site templates. The scripts of the project itself
  are the glue of the editor widget (`CodeMirrorWidget.js` and its mold), which passes text between
  CodeMirror and the client of ZK, and a configuration of CKEditor. All of the system's own logic
  is Java, and that is what the modules map.

Components that `PROJECT.json` calls "partly" have their state machine modelled; the note of each
names the operations left out.
