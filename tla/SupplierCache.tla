---------------------------- MODULE SupplierCache ----------------------------
(***************************************************************************)
(* ObjectDatabase.query(Supplier): values derived from the repository are  *)
(* cached by their supplier until the next write().                        *)
(*                                                                         *)
(* The cache is a java.util.IdentityHashMap (external code): a table of    *)
(* slots that is probed linearly from the home slot of the key.  query()   *)
(* fills it while it holds the read lock only, so put() runs in several    *)
(* threads at once, and its steps - find a slot, write the key, write the  *)
(* value - interleave.  The table is never resized: a step that finds no   *)
(* slot does not happen.                                                   *)
(*                                                                         *)
(* The repository is abstracted to the versions of a few topics (classes   *)
(* of objects); the value of a supplier says of whom and from what it was  *)
(* computed.                                                               *)
(***************************************************************************)
EXTENDS Integers, ReadWriteLock

CONSTANTS Suppliers, Topics,
          Reads,       \* Reads[s]: the topics supplier s looks at
          Persisted,   \* the topics of the objects saved by persist()
          Slots,       \* number of slots of the table
          Home,        \* Home[s]: the slot at which the search for s starts
          MaxVersion,  \* bound on the number of changes of a topic
          None

ASSUME TableAssumption ==
    /\ Slots \in Nat \ {0} /\ MaxVersion \in Nat
    /\ Home \in [Suppliers -> 0..Slots - 1]
    /\ Reads \in [Suppliers -> SUBSET Topics]
(* The only caller of persist() saves a user, which no supplier looks at.  *)
ASSUME PersistAssumption ==
    /\ Persisted \subseteq Topics
    /\ \A s \in Suppliers : Reads[s] \cap Persisted = {}

VARIABLES
    data,        \* the version of each topic in the repository
    keys, vals,  \* the slots of supplierCache
    inTxn,       \* the call that runs a transaction: none, write or persist
    retention,   \* supplierCacheRetention
    pc,          \* where t is in query(): idle, get, compute, probe, key, value, done
    asked,       \* the supplier t asks for
    slot,        \* the slot put() has found for it
    result,      \* the value query() will return
    met          \* history: two puts of different suppliers have found the same
                 \* empty slot since the last write()

mapVars == <<keys, vals>>
queryVars == <<pc, asked, slot, result>>
cacheVars == <<writer, readers, data, keys, vals, inTxn, retention, pc, asked, slot,
              result, met>>

SlotSet == 0..Slots - 1
ValueOf(s) == [by |-> s, of |-> [x \in Reads[s] |-> data[x]]]
Values == [by : Suppliers,
           of : UNION {[Reads[s] -> 0..MaxVersion] : s \in Suppliers}]

ASSUME NoneAssumption == None \notin Suppliers \cup Values

CacheTypeOK ==
    /\ LockTypeOK
    /\ data \in [Topics -> 0..MaxVersion]
    /\ keys \in [SlotSet -> Suppliers \cup {None}]
    /\ vals \in [SlotSet -> Values \cup {None}]
    /\ inTxn \in {"none", "write", "persist"} /\ retention \in BOOLEAN
    /\ pc \in [Threads -> {"idle", "get", "compute", "probe", "key", "value", "done"}]
    /\ asked \in [Threads -> Suppliers \cup {None}]
    /\ slot \in [Threads -> SlotSet \cup {None}]
    /\ result \in [Threads -> Values \cup {None}]
    /\ met \in BOOLEAN

EmptyMap ==
    /\ keys' = [i \in SlotSet |-> None]
    /\ vals' = [i \in SlotSet |-> None]

CacheInit ==
    /\ LockInit
    /\ data = [x \in Topics |-> 0]
    /\ keys = [i \in SlotSet |-> None] /\ vals = [i \in SlotSet |-> None]
    /\ inTxn = "none" /\ retention = FALSE
    /\ pc = [t \in Threads |-> "idle"]
    /\ asked = [t \in Threads |-> None]
    /\ slot = [t \in Threads |-> None]
    /\ result = [t \in Threads |-> None]
    /\ met = FALSE

(***************************************************************************)
(* query(Supplier)                                                         *)
(***************************************************************************)

(* Slot i is the first one from Home[s] on that holds s or nothing. *)
Nth(s, k) == (Home[s] + k) % Slots
Finds(s, i) ==
    \E n \in SlotSet :
        /\ i = Nth(s, n) /\ keys[i] \in {s, None}
        /\ \A m \in 0..n - 1 : keys[Nth(s, m)] \notin {s, None}

(* readLock().lock(); the writer may query within its own transaction. *)
QueryEnter(t, s) ==
    /\ pc[t] = "idle"
    /\ ReadLock(t) \/ (writer = t /\ UNCHANGED lockVars)
    /\ pc' = [pc EXCEPT ![t] = "get"]
    /\ asked' = [asked EXCEPT ![t] = s]
    /\ UNCHANGED <<data, mapVars, inTxn, retention, slot, result, met>>

(* supplierCache.get(supplier); a key whose value is not yet written is a miss. *)
Get(t) ==
    /\ pc[t] = "get"
    /\ \E i \in SlotSet :
          /\ Finds(asked[t], i)
          /\ result' = [result EXCEPT ![t] = IF keys[i] = asked[t] THEN vals[i] ELSE None]
          /\ pc' = [pc EXCEPT ![t] = IF result'[t] = None THEN "compute" ELSE "done"]
    /\ UNCHANGED <<lockVars, data, mapVars, inTxn, retention, asked, slot, met>>

(* supplier.get() *)
Compute(t) ==
    /\ pc[t] = "compute"
    /\ result' = [result EXCEPT ![t] = ValueOf(asked[t])]
    /\ pc' = [pc EXCEPT ![t] = "probe"]
    /\ UNCHANGED <<lockVars, data, mapVars, inTxn, retention, asked, slot, met>>

(* supplierCache.put(supplier, result) finds a slot, which may be the one   *)
(* that another thread has found, and whose key it has not written yet.    *)
PutProbe(t) ==
    /\ pc[t] = "probe"
    /\ \E i \in SlotSet :
          /\ Finds(asked[t], i)
          /\ slot' = [slot EXCEPT ![t] = i]
          /\ pc' = [pc EXCEPT ![t] = IF keys[i] = None THEN "key" ELSE "value"]
          /\ met' = (met \/ \E u \in Threads :
                       pc[u] = "key" /\ slot[u] = i /\ asked[u] # asked[t])
    /\ UNCHANGED <<lockVars, data, mapVars, inTxn, retention, asked, result>>

(* Mutant: the value is written where the key belongs. *)
PutKey_Swapped(t) ==
    /\ pc[t] = "key"
    /\ keys' = [keys EXCEPT ![slot[t]] = result[t]]
    /\ pc' = [pc EXCEPT ![t] = "value"]
    /\ UNCHANGED <<lockVars, data, vals, inTxn, retention, asked, slot, result, met>>

(* writes the key into it, *)
PutKey(t) ==
    /\ pc[t] = "key"
    /\ keys' = [keys EXCEPT ![slot[t]] = asked[t]]
    /\ pc' = [pc EXCEPT ![t] = "value"]
    /\ UNCHANGED <<lockVars, data, vals, inTxn, retention, asked, slot, result, met>>

(* and the value beside it. *)
PutValue(t) ==
    /\ pc[t] = "value"
    /\ vals' = [vals EXCEPT ![slot[t]] = result[t]]
    /\ pc' = [pc EXCEPT ![t] = "done"]
    /\ UNCHANGED <<lockVars, data, keys, inTxn, retention, asked, slot, result, met>>

(* readLock().unlock(), return. *)
QueryExit(t) ==
    /\ pc[t] = "done"
    /\ ReadUnlock(t) \/ (writer = t /\ UNCHANGED lockVars)
    /\ pc' = [pc EXCEPT ![t] = "idle"]
    /\ asked' = [asked EXCEPT ![t] = None]
    /\ slot' = [slot EXCEPT ![t] = None]
    /\ result' = [result EXCEPT ![t] = None]
    /\ UNCHANGED <<data, mapVars, inTxn, retention, met>>

(***************************************************************************)
(* write() and persist()                                                   *)
(***************************************************************************)

(* write() of any transaction. *)
BeginWrite(t) ==
    /\ pc[t] = "idle" /\ writer # t
    /\ WriteLock(t)
    /\ inTxn' = "write"
    /\ UNCHANGED <<data, mapVars, retention, queryVars, met>>

(* persist() sets supplierCacheRetention for its save(). *)
PersistEnter(t) ==
    /\ pc[t] = "idle" /\ writer # t
    /\ WriteLock(t)
    /\ inTxn' = "persist" /\ retention' = TRUE
    /\ UNCHANGED <<data, mapVars, queryVars, met>>

(* The transaction changes objects of a topic. *)
Change(t, x) ==
    /\ writer = t /\ inTxn # "none" /\ pc[t] = "idle"
    /\ inTxn = "persist" => x \in Persisted
    /\ data[x] < MaxVersion
    /\ data' = [data EXCEPT ![x] = @ + 1]
    /\ UNCHANGED <<lockVars, mapVars, inTxn, retention, queryVars, met>>

(* Mutants of the end of write(): the cache is not cleared; persist() does *)
(* not take back its flag.                                               *)
WriteExit_KeepsCache(t) ==
    /\ writer = t /\ inTxn # "none" /\ pc[t] = "idle"
    /\ inTxn' = "none" /\ retention' = FALSE
    /\ met' = (retention /\ met)
    /\ WriteUnlock(t)
    /\ UNCHANGED <<data, mapVars, queryVars>>

WriteExit_KeepsFlag(t) ==
    /\ writer = t /\ inTxn # "none" /\ pc[t] = "idle"
    /\ inTxn' = "none"
    /\ IF retention THEN UNCHANGED <<mapVars, met>> ELSE EmptyMap /\ met' = FALSE
    /\ WriteUnlock(t)
    /\ UNCHANGED <<data, retention, queryVars>>

(* The finally block of write(), and that of persist(). *)
WriteExit(t) ==
    /\ writer = t /\ inTxn # "none" /\ pc[t] = "idle"
    /\ inTxn' = "none" /\ retention' = FALSE
    /\ IF retention THEN UNCHANGED <<mapVars, met>> ELSE EmptyMap /\ met' = FALSE
    /\ WriteUnlock(t)
    /\ UNCHANGED <<data, queryVars>>

QueryStep(t) ==
    \/ Get(t) \/ Compute(t) \/ PutProbe(t) \/ PutKey(t) \/ PutValue(t) \/ QueryExit(t)

CacheNext == \E t \in Threads :
    \/ \E s \in Suppliers : QueryEnter(t, s)
    \/ QueryStep(t)
    \/ BeginWrite(t) \/ PersistEnter(t) \/ WriteExit(t)
    \/ \E x \in Topics : Change(t, x)

CacheSpec == CacheInit /\ [][CacheNext]_cacheVars

(***************************************************************************)
(* Properties                                                              *)
(***************************************************************************)

(* "The value of the supplier will be cached as long as no write-operation *)
(* is performed": outside of write() every cached value is computed from   *)
(* the objects as they are, although persist() keeps the cache and a       *)
(* transaction may have filled it half-way.                                *)
CacheCurrent ==
    writer = NoThread =>
        \A i \in SlotSet : vals[i] # None => vals[i] = ValueOf(vals[i].by)

(* What query() returns to a reader is current when it returns.            *)
AnswerCurrent ==
    \A t \in readers : pc[t] = "done" => result[t] = ValueOf(result[t].by)

(* "Retrieves (cached) value from given supplier" (Database.query): the map *)
(* mixes up two suppliers only if their puts, both under the read lock,    *)
(* have found the same empty slot, and no longer than to the end of the    *)
(* next write(): else an entry and an answer are of the supplier that was  *)
(* asked for.                                                              *)
MixUpsEnd ==
    ~met =>
        /\ \A i \in SlotSet : vals[i] # None => vals[i].by = keys[i]
        /\ \A t \in Threads : pc[t] = "done" => result[t].by = asked[t]
=============================================================================
