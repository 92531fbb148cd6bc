---------------------------- MODULE LocalStorage ----------------------------
(***************************************************************************)
(* The local storage of one origin (WebCore/storage): StorageAreaImpl      *)
(* holds the items in memory, StorageAreaSync carries the changes in       *)
(* batches to a database that only LocalStorageThread touches, and         *)
(* StorageNamespaceImpl closes both when the application ends.  The main   *)
(* thread changes items, and its timer fires; the storage thread imports,  *)
(* writes item by item, and terminates.                                    *)
(*                                                                         *)
(* A HashMap of items is a function on Keys: Null is a null String (in the *)
(* maps of changes: the key was removed), Absent that the map has no entry.*)
(* Maps are iterated in an order nothing depends on.                       *)
(***************************************************************************)
EXTENDS Integers, Sequences, FiniteSets

CONSTANTS
    Keys, Values,
    Null, Absent,
    MaxiumItemsToSync,   \* how many changes a batch takes
    MaxChanges,          \* bound on the changes the page makes
    MaxFailures          \* bound on how often the database fails

ASSUME ItemAssumption == Null \notin Values /\ Absent \notin Values /\ Null # Absent
ASSUME BoundAssumption == MaxiumItemsToSync \in Nat /\ MaxChanges \in Nat /\ MaxFailures \in Nat

VARIABLES
    memory,           \* m_storageMap of the StorageAreaImpl
    main,             \* "open"; "closing": m_finalSyncScheduled, joins the
                      \*   storage thread; or "closed"
    area,             \* whether m_storageArea of the StorageAreaSync is set
    timer,            \* whether m_syncTimer is active
    changed,          \* m_changedItems
    cleared,          \* m_itemsCleared
    pending,          \* m_itemsPendingSync
    clearing,         \* m_clearItemsWhileSyncing
    syncScheduled,    \* m_syncScheduled
    syncInProgress,   \* m_syncInProgress
    importComplete,   \* m_importComplete
    disabled,         \* disableSuddenTermination calls not yet balanced
    queue,            \* m_queue of the LocalStorageThread
    thread,           \* where the storage thread is
    items,            \* performSync's items
    clearItems,       \* performSync's clearItems, until the table is cleared
    db,               \* ItemTable of the database
    opened,           \* whether m_database is open
    changes,          \* how many changes the page has made
    failures,         \* how often the database failed
    overtaken         \* history: keys whose last change a partial sync dropped

requests == <<timer, changed, cleared>>
shared == <<pending, clearing, syncScheduled, syncInProgress>>
threadVars == <<thread, items, clearItems, db, opened, failures>>
vars == <<memory, main, area, requests, shared, importComplete, disabled,
          queue, threadVars, changes, overtaken>>

Items == [Keys -> Values \cup {Null}]
Changes == [Keys -> Values \cup {Null, Absent}]
NoChanges == [k \in Keys |-> Absent]
Entries(map) == {k \in Keys : map[k] # Absent}

TypeOK ==
    /\ memory \in Items /\ db \in Items
    /\ main \in {"open", "closing", "closed"}
    /\ changed \in Changes /\ pending \in Changes /\ items \in Changes
    /\ area \in BOOLEAN /\ timer \in BOOLEAN /\ cleared \in BOOLEAN
    /\ clearing \in BOOLEAN /\ syncScheduled \in BOOLEAN
    /\ syncInProgress \in BOOLEAN /\ importComplete \in BOOLEAN
    /\ clearItems \in BOOLEAN /\ opened \in BOOLEAN
    /\ disabled \in Nat
    /\ queue \in Seq({"import", "sync", "terminate"})
    /\ thread \in {"waiting", "imported", "syncing", "synced", "ended"}
    /\ changes \in 0..MaxChanges /\ failures \in 0..MaxFailures
    /\ overtaken \subseteq Keys

\* storageArea() made the area and its import was scheduled; the database may
\* hold items from earlier on.
Init ==
    /\ memory = [k \in Keys |-> Null] /\ db \in Items
    /\ main = "open" /\ area = TRUE
    /\ timer = FALSE /\ changed = NoChanges /\ cleared = FALSE
    /\ pending = NoChanges /\ clearing = FALSE
    /\ syncScheduled = FALSE /\ syncInProgress = FALSE
    /\ importComplete = FALSE
    /\ disabled = 0
    /\ queue = <<"import">>
    /\ thread = "waiting" /\ items = NoChanges /\ clearItems = FALSE /\ opened = FALSE
    /\ changes = 0 /\ failures = 0 /\ overtaken = {}

-----------------------------------------------------------------------------
(* The main thread.                                                        *)

\* Every access waits for the import, and then lets go of the area.
BlockUntilImportComplete ==
    /\ importComplete
    /\ area' = FALSE

\* The page makes one of its changes.
PageChanges ==
    /\ main = "open"
    /\ changes < MaxChanges
    /\ changes' = changes + 1
    /\ BlockUntilImportComplete
    /\ UNCHANGED <<main, shared, importComplete, queue, threadVars>>

\* Mutant: sudden termination is not disabled for the timer.
StartTimerUncounted ==
    /\ timer' = TRUE
    /\ disabled' = disabled

\* Start m_syncTimer and disable sudden termination, unless it is active.
StartTimer ==
    /\ timer' = TRUE
    /\ disabled' = IF timer THEN disabled ELSE disabled + 1

\* scheduleItemForSync.
ScheduleItemForSync(k, v) ==
    /\ changed' = [changed EXCEPT ![k] = v]
    /\ StartTimer
    /\ overtaken' = overtaken \ {k}
    /\ UNCHANGED cleared

\* setItem and removeItem (v = Null) that make a difference.
SetItem(k, v) ==
    /\ PageChanges
    /\ memory[k] # v
    /\ memory' = [memory EXCEPT ![k] = v]
    /\ ScheduleItemForSync(k, v)

\* clear of an area that has items, and scheduleClear.
Clear ==
    /\ PageChanges
    /\ \E k \in Keys : memory[k] # Null
    /\ memory' = [k \in Keys |-> Null]
    /\ changed' = NoChanges
    /\ cleared' = TRUE
    /\ StartTimer
    /\ overtaken' = {}

\* A read, or a change that makes no difference.
Access ==
    /\ main = "open"
    /\ BlockUntilImportComplete
    /\ UNCHANGED <<memory, main, requests, shared, importComplete, disabled, queue, threadVars,
                   changes, overtaken>>

\* The entries of m_changedItems that may make a batch.
Batch == IF Cardinality(Entries(changed)) <= MaxiumItemsToSync
         THEN {Entries(changed)}
         ELSE {b \in SUBSET Entries(changed) : Cardinality(b) = MaxiumItemsToSync}

Partial(b) == b # Entries(changed)

\* Mutant: a clear leaves what was pending before it.
MergeKeepsPending(b) ==
    [k \in Keys |-> IF k \in b THEN changed[k] ELSE pending[k]]

\* m_itemsPendingSync with the batch.
Merge(b) ==
    [k \in Keys |-> IF k \in b THEN changed[k] ELSE IF cleared THEN Absent ELSE pending[k]]

\* StorageSyncManager::scheduleSync, unless a task is already on its way.
Scheduled == IF syncScheduled THEN queue ELSE Append(queue, "sync")

\* syncTimerFired with the lock, for the batch b; its caller brought disabled
\* to d.  What is pending is no longer changed, so after a full batch what was
\* changed again since it became pending is forgotten.
Sync(b, d) ==
    /\ pending' = Merge(b)
    /\ clearing' = (clearing \/ cleared)
    /\ cleared' = FALSE
    /\ changed' = IF Partial(b)
                  THEN [k \in Keys |-> IF pending'[k] # Absent THEN Absent ELSE changed[k]]
                  ELSE NoChanges
    /\ overtaken' = overtaken \cup {k \in Entries(changed) : changed'[k] = Absent /\ pending'[k] # changed[k]}
    /\ timer' = Partial(b)
    /\ syncScheduled' = TRUE
    /\ disabled' = d + (IF syncScheduled THEN 0 ELSE 1) - (IF Partial(b) THEN 0 ELSE 1)

\* Mutant: while a sync is in progress the timer is not started again.
SyncTimerForgets ==
    /\ main = "open" /\ timer
    /\ IF syncInProgress
       THEN timer' = FALSE /\ UNCHANGED <<changed, cleared, pending, clearing, syncScheduled,
                                          queue, disabled, overtaken>>
       ELSE (\E b \in Batch : Sync(b, disabled)) /\ queue' = Scheduled
    /\ UNCHANGED <<memory, main, area, syncInProgress, importComplete, threadVars, changes>>

\* The timer fires; while a sync is in progress it is only started again.
SyncTimerFired ==
    /\ main = "open" /\ timer
    /\ ~syncInProgress
    /\ \E b \in Batch : Sync(b, disabled)
    /\ queue' = Scheduled
    /\ UNCHANGED <<memory, main, area, syncInProgress, importComplete, threadVars, changes>>

\* Mutant: the queue is killed and not given a task that kills it.
CloseKillsQueue ==
    /\ main = "open"
    /\ BlockUntilImportComplete
    /\ Sync(Entries(changed), IF timer THEN disabled ELSE disabled + 1)
    /\ queue' = <<"terminate">>
    /\ main' = "closing"
    /\ UNCHANGED <<memory, syncInProgress, importComplete, threadVars, changes>>

\* StorageNamespaceImpl::close: the final sync of the area takes everything,
\* also while a sync is in progress; then the storage thread is to terminate.
Close ==
    /\ main = "open"
    /\ BlockUntilImportComplete
    /\ Sync(Entries(changed), IF timer THEN disabled ELSE disabled + 1)
    /\ queue' = Append(Scheduled, "terminate")
    /\ main' = "closing"
    /\ UNCHANGED <<memory, syncInProgress, importComplete, threadVars, changes>>

Joined ==
    /\ main = "closing" /\ thread = "ended"
    /\ main' = "closed"
    /\ UNCHANGED <<memory, area, requests, shared, importComplete, disabled, queue, threadVars,
                   changes, overtaken>>

-----------------------------------------------------------------------------
(* The storage thread.                                                     *)

TakeTask(task) ==
    /\ thread = "waiting"
    /\ queue # <<>> /\ Head(queue) = task
    /\ queue' = Tail(queue)

DatabaseFails ==
    /\ failures < MaxFailures
    /\ failures' = failures + 1

\* performImport: the items are read, and only then put into the area; the
\* database may not open, or open and not be read.
PerformImport ==
    /\ TakeTask("import")
    /\ \/ memory' = db /\ opened' = TRUE /\ UNCHANGED failures
       \/ DatabaseFails /\ opened' \in BOOLEAN /\ UNCHANGED memory
    /\ thread' = "imported"
    /\ UNCHANGED <<main, area, requests, shared, importComplete, disabled, items, clearItems, db,
                   changes, overtaken>>

\* Mutant: the import is marked complete before the items are put into the area.
MarkImportedEarly ==
    /\ thread = "waiting" /\ queue # <<>> /\ Head(queue) = "import"
    /\ importComplete' = TRUE
    /\ UNCHANGED <<memory, main, area, requests, shared, disabled, queue, threadVars, changes, overtaken>>

MarkImported ==
    /\ thread = "imported"
    /\ importComplete' = TRUE
    /\ thread' = "waiting"
    /\ UNCHANGED <<memory, main, area, requests, shared, disabled, queue, items, clearItems, db,
                   opened, failures, changes, overtaken>>

\* performSync takes what is pending.
StartSync ==
    /\ TakeTask("sync")
    /\ items' = pending /\ pending' = NoChanges
    /\ clearItems' = clearing /\ clearing' = FALSE
    /\ syncScheduled' = FALSE
    /\ syncInProgress' = TRUE
    /\ thread' = "syncing"
    /\ UNCHANGED <<memory, main, area, requests, importComplete, disabled, db, opened, failures,
                   changes, overtaken>>

ClearTable ==
    /\ thread = "syncing" /\ opened
    /\ clearItems
    /\ db' = [k \in Keys |-> Null]
    /\ clearItems' = FALSE
    /\ UNCHANGED <<memory, main, area, requests, shared, importComplete, disabled, queue, thread,
                   items, opened, failures, changes, overtaken>>

WriteItem(k) ==
    /\ thread = "syncing" /\ opened
    /\ ~clearItems /\ items[k] # Absent
    /\ db' = [db EXCEPT ![k] = items[k]]
    /\ items' = [items EXCEPT ![k] = Absent]
    /\ UNCHANGED <<memory, main, area, requests, shared, importComplete, disabled, queue, thread,
                   clearItems, opened, failures, changes, overtaken>>

\* A database that is not open, or a statement that fails, ends sync at once;
\* what it had still to write is lost.
AbandonSync ==
    /\ thread = "syncing"
    /\ clearItems \/ items # NoChanges
    /\ IF opened THEN DatabaseFails ELSE UNCHANGED failures
    /\ items' = NoChanges /\ clearItems' = FALSE
    /\ UNCHANGED <<memory, main, area, requests, shared, importComplete, disabled, queue, thread,
                   db, opened, changes, overtaken>>

SyncDone ==
    /\ thread = "syncing"
    /\ ~clearItems /\ items = NoChanges
    /\ syncInProgress' = FALSE
    /\ thread' = "synced"
    /\ UNCHANGED <<memory, main, area, requests, pending, clearing, syncScheduled, importComplete,
                   disabled, queue, items, clearItems, db, opened, failures, changes, overtaken>>

\* Mutant: a sync that wrote nothing leaves sudden termination disabled.
EnableOnlyIfOpened ==
    /\ thread = "synced"
    /\ disabled' = IF opened THEN disabled - 1 ELSE disabled
    /\ thread' = "waiting"
    /\ UNCHANGED <<memory, main, area, requests, shared, importComplete, queue, items, clearItems,
                   db, opened, failures, changes, overtaken>>

\* enableSuddenTermination, after the lock is released.
EnableTermination ==
    /\ thread = "synced"
    /\ disabled' = disabled - 1
    /\ thread' = "waiting"
    /\ UNCHANGED <<memory, main, area, requests, shared, importComplete, queue, items, clearItems,
                   db, opened, failures, changes, overtaken>>

\* performTerminate kills the queue, and the thread ends.
Terminate ==
    /\ TakeTask("terminate")
    /\ thread' = "ended"
    /\ UNCHANGED <<memory, main, area, requests, shared, importComplete, disabled, items,
                   clearItems, db, opened, failures, changes, overtaken>>

StorageThread ==
    \/ PerformImport \/ MarkImported
    \/ StartSync \/ ClearTable \/ (\E k \in Keys : WriteItem(k)) \/ AbandonSync \/ SyncDone
    \/ EnableTermination \/ Terminate

Next ==
    \/ \E k \in Keys, v \in Values \cup {Null} : SetItem(k, v)
    \/ Clear \/ Access \/ SyncTimerFired \/ Close \/ Joined
    \/ StorageThread

\* The timer fires, the storage thread runs, and the main thread is woken when
\* it has joined it; the page does what it likes.
Fairness == WF_vars(StorageThread) /\ WF_vars(SyncTimerFired) /\ WF_vars(Joined)

Spec == Init /\ [][Next]_vars /\ Fairness

-----------------------------------------------------------------------------
(* Properties.                                                             *)

One(b) == IF b THEN 1 ELSE 0

\* Every disableSuddenTermination is balanced once, on whichever thread: there
\* is one for the timer, one for a sync that is scheduled and one for a sync
\* the storage thread is at; a sync task finds m_syncScheduled set.
SuddenTerminationBalanced ==
    /\ disabled = One(timer) + One(syncScheduled) + One(thread \in {"syncing", "synced"})
    /\ syncScheduled <=> \E i \in 1..Len(queue) : queue[i] = "sync"

\* Items on which memory and database agree, but for those a partial sync
\* dropped.
Saved == \A k \in Keys \ overtaken : db[k] = memory[k]

\* The process may be terminated at any time it has not forbidden: everything
\* the page changed is in the database, and a clear left nothing from before.
TerminationLosesNothing ==
    disabled = 0 /\ importComplete /\ failures = 0 => Saved

\* close returns with everything in the database and nothing left to do.
CloseLosesNothing ==
    main = "closed" => disabled = 0 /\ queue = <<>> /\ (failures = 0 => Saved)

\* The storage thread puts what it read into the area while the main thread
\* still keeps it for that and has not looked at it.
ImportedBeforeUse == [][thread' = "imported" => area]_vars

\* What a stage of changes will make of an item: a clear, then a value.
Stage(clear, change) ==
    (IF clear THEN <<Null>> ELSE <<>>) \o (IF change = Absent THEN <<>> ELSE <<change>>)

Late == [k \in Keys |-> Stage(clearItems, items[k]) \o Stage(clearing, pending[k])
                                                   \o Stage(cleared, changed[k])]
Lost == IF failures > 0 THEN Keys ELSE overtaken
Imported == importComplete \/ thread = "imported"

Area == INSTANCE WriteBehind WITH
    Values <- Values \cup {Null}, disk <- db, late <- Late, lost <- Lost,
    loaded <- Imported, forbidden <- disabled > 0, closed <- main = "closed"

\* The three stages, their clears, the batches and the flags are an area that
\* is written behind: an item's changes reach the database in the order the
\* page made them, a clear between those before and after it, and while
\* nothing forbids to terminate the process, or after close, none is on its way.
ImplementsWriteBehind == Area!Spec

\* Every change reaches the database, however often the timer finds a sync in
\* progress.
EveryChangeIsSaved ==
    \A k \in Keys :
        (importComplete /\ memory[k] # db[k])
            ~> (memory[k] = db[k] \/ k \in overtaken \/ failures > 0)

\* Nothing the page changed last is dropped on the way to the database.
LastChangeIsSaved ==
    disabled = 0 /\ importComplete /\ failures = 0 => db = memory
=============================================================================
