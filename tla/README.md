# WebKit's threads, queues and persistent state in TLA+

This directory is a verification development of the concurrent and stateful core
of the repository: the primitives of WTF (the "Web Template Framework" under
`JavaScriptCore/wtf`) that every background thread of WebKit is built from, and
the WebCore components that use them: dedicated workers, message ports, local
storage and SQL databases. It consists of TLA+ modules that model those components,
TLC configurations that check them on small instances, and theorems about all
seven that TLAPS has checked for every instance. For each component there is an
abstract specification of what it promises to its users, and the detailed one is
shown to implement it. Every invariant, action property and refinement that a passing
run states is proved, of the refinement that includes liveness the safety part;
liveness is what TLC alone checks.

A module states in its head what it models, names its variables after the
members of the C++ classes (a comment gives the member), and has one action per
operation, handler or step. `PROJECT.json` maps every definition to the lines it
stands for, lists the hazards the properties are aimed at, the runs, the
theorems, and for every checked property a *mutant*: a plausible bug, kept as an
operator next to the definition it changes (`\* Mutant: ...`), which makes TLC
find the property violated.

## 1. Inventory

### Components, their state and their operations

| Component | State | Operations | Hard behaviour | What makes it correct |
|---|---|---|---|---|
| `WTF::MessageQueue` (`wtf/MessageQueue.h`) | a deque of owned messages, `m_killed`, a mutex and a condition | `append`, `prepend`, `waitForMessage` with filter and deadline, `tryGetMessage`, `removeIf`, `kill` | one signal for many filtered waiters, timeouts, kill against a waiter that has been signalled | no lost wakeup, a message has one owner, nothing is delivered after kill, a mailbox to its users |
| `PlatformCondition` (`wtf/ThreadingWin.cpp`) | two semaphores, a mutex, three counters | `timedWait`, `signal(all)` | a timeout racing a signal, late comers stealing a wakeup, the gate, normalisation of a counter at its limit | no waiter is forgotten, the gate is opened exactly when it is closed |
| main-thread queue (`wtf/MainThread.cpp`) | `functionQueue`, `callbacksPaused`, the platform's pending event | `callOnMainThread`, `callOnMainThreadAndWait`, `cancelCallOnMainThread`, `setMainThreadCallbacksPaused`, `dispatchFunctionsFromMainThread` | scheduling decided under the lock and done outside it, pauses that use up an event, nested run loops, giving way | nothing is stranded, a call runs once or is cancelled, who waits returns after the call |
| dedicated workers (`WebCore/workers`, `WebCore/loader/WorkerThreadableLoader.cpp`) | `Worker`, `WorkerMessagingProxy` (counts, flags, early tasks), `WorkerThread`, `WorkerContext`, `WorkerRunLoop`, a loader bridge per load | post, terminate, close, collect, load and import, the run loop's tasks, shutdown in two tasks | everything the parent knows of the worker is as late as a task; nested run loops take only their own tasks | the late picture errs on the safe side, messages in order, nothing used after it is deleted, the thread ends |
| message ports (`WebCore/dom`) | `MessagePort`, two `PlatformMessagePortChannel`s with a mutex each and no common lock, two queues, `ProcessMessagesSoonTask`s | post, start, entangle, disentangle, close, context destroyed, dispatch | each operation on the other end is two critical sections; an end travels between contexts | the pointer followed by a post is live, messages arrive in order wherever the end goes, close is mutual |
| local storage (`WebCore/storage`) | the items, `m_changedItems`, `m_itemsPendingSync` and four flags in `StorageAreaSync`, the queue of `LocalStorageThread`, the database | set, remove, clear, timer, import, performSync, close, sudden termination | changes overtaking a batch that is being written, clear between batches, process death when nothing forbids it, shutdown | what the process is allowed to die with is saved, close loses nothing, the import precedes any use |
| SQL databases (`WebCore/storage/SQL*.cpp`, `Database*.cpp`) | handles with a queue of transactions and an SQLite connection, transactions with a next step, a coordinator's lock per file, the database thread's queue, the context's pending callbacks | `openDatabase`, `transaction`, `readTransaction`, `executeSql`, the steps and callbacks that alternate between two threads, delete, stop, terminate | an error at every step, steps that are unscheduled, a lock whose holder is gone, blocking calls into the other thread, a thread that ends between two steps | a turn finds the file free, a step is scheduled once, the page is told the truth, nothing is left open or waiting |
| shared workers, file API, web sockets, icon database, application cache | see `PROJECT.json` | | | later or not modelled |
| CoreIPC (`WebKit2/Platform/CoreIPC`) and the split process | outgoing and incoming queues, pending synchronous replies, the child's life | send, sendSync, dispatch, invalidate | deadlocks of synchronous sends, process crash | planned |
| loader and memory cache, timers | per-host queues, cached resources; heap of timers | re-entrant callbacks on one thread | re-entrancy | later |
| JavaScriptCore engine, DOM, CSS, rendering, ports, tools | | | data structures rather than control | not modelled |

### How they interact

```
 page script                              worker script
     |                                         |
  Worker -- WorkerMessagingProxy        DedicatedWorkerContext
     |              |                          |
     |   tasks of the parent context <---- postTaskToLoader, reports
     |              |                          |
     +--------> WorkerRunLoop::m_messageQueue -+      (WTF::MessageQueue)
                                |
                     ThreadCondition / Mutex           (pthreads or ThreadingWin)

 MessagePort == PlatformMessagePortChannel <=> PlatformMessagePortChannel == MessagePort
     (tells the other context through a ProcessMessagesSoonTask)

 Storage -> StorageAreaImpl -> StorageAreaSync -> LocalStorageThread (MessageQueue) -> SQLite

 Database -> SQLTransaction -> DatabaseThread (MessageQueue) -> SQLite
     ^             |                 |
     |      DeliverPendingCallback   SQLTransactionCoordinator (turns on a file)
     +---- tasks of the context <----+

 any thread -> callOnMainThread -> functionQueue -> platform event -> main thread
```

* `MessageQueue` calls `ThreadCondition`, which on Windows is `PlatformCondition`.
  Worker run loops, the local storage thread, the database thread and the file
  thread each own a queue and are its only consumer.
* A worker's parent and its thread share two task queues only. Termination,
  activity, loads and messages all travel through them.
* A message port's two ends share nothing but the channels; the contexts' task
  queues carry the notifications.
* An SQL transaction is in the database thread's queue, in the context's, or in
  neither while the coordinator has not given it its turn; `openDatabase` and
  `deleteDatabaseFile` block the context's thread until the database thread has
  done its part. `stopDatabases` unschedules, `terminate` kills the queue, and the
  database thread on its way out ends what is open.
* Local storage shares maps and flags under `m_syncLock`, and the area itself,
  without a lock, until the import is complete.

## 2. Modules

| Module | Models | Role |
|---|---|---|
| `BlockingMailbox` | what a `MessageQueue` promises, without mutex and condition | abstract specification |
| `ConditionVariable` | what a condition variable promises to a monitor, without semaphores and gate | abstract |
| `CallQueue` | what `callOnMainThread` promises, without events, dispatch loops and pauses | abstract |
| `WorkerSession` | what a page and its worker promise each other, without tasks, proxy and counts | abstract |
| `DuplexChannel` | what a message channel promises, without ports, mutexes and the steps of sending an end | abstract |
| `WriteBehind` | what an area that is written behind promises, without batches, flags and the second thread | abstract |
| `SerialTransactions` | what a page may rely on in SQL transactions, without threads, coordinator, handles and SQLite | abstract |
| `MessageQueue` | `wtf/MessageQueue.h` over a Mesa condition variable | detailed specification, refines the mailbox |
| `WindowsCondition` | `PlatformCondition` step by step under `MessageQueue`'s use of it | detailed; what `MessageQueue` assumes of `m_condition`, where WTF implements it itself; refines `ConditionVariable` |
| `MainThreadQueue` | `wtf/MainThread.cpp` | detailed, refines `CallQueue` |
| `Worker` | object, proxy, thread, run loop and loader bridges of one worker | composes the parent's and the worker's thread over two queues; refines `WorkerSession` |
| `MessagePort` | one channel, its two ends, the contexts that hold them | composes two ends and any number of contexts; refines `DuplexChannel` |
| `LocalStorage` | one origin's area, its synchroniser, the storage thread and the database | composes the main thread and the storage thread; refines `WriteBehind` |
| `SqlTransactions` | handles, transactions, coordinator and database thread of one context and file | composes the context's thread, the database thread, SQLite and the coordinator; refines `SerialTransactions` |
| `MessageQueueProofs`, `WindowsConditionProofs`, `MainThreadQueueProofs`, `WorkerProofs`, `MessagePortProofs`, `LocalStorageProofs`, `SqlTransactionsProofs` | | theorems |
| `QueueFacts` | what is in a queue after an element or a part is added or taken, and that it is there once | lemmas four of the proof modules share |
| `MC*` | | instances for TLC |

### Correspondence with the code

**MessageQueue.** Every operation holds `m_mutex` from its first line to its
last, so it is one action: `Append_`, `Prepend`, `Kill`, `RemoveIf`,
`TryGetMessage`. `waitForMessageFilteredWithTimeout` gives the mutex up in one
place, so it is `WaitForMessage` (entry up to the first wait), `Reacquire` (one
turn of the loop with the mutex back) and, between them, `SpuriousWakeup` and
`DeadlinePasses`. `Evaluate` is the decision the loop makes: killed first, then
the first message the filter accepts, then the timeout, else wait again.
A filter is the set of messages it accepts.

**WindowsCondition.** A step goes up to the next place where a thread can wait
or another can get between two accesses to the counters: `EnterWait` (the gate
and `m_waitersBlocked`), `LeaveSection`, `MainWait` (semaphore or timeout),
`Unblock` (the accounting under `m_unblockLock`), `Normalize` (`m_waitersGone` at
its limit), `OpenGate`, `EnterSection`; for a signal `SignalStart`, `CloseGate`,
`ReleaseWaiters`. `Consume`, `Test`, `Post`, `Kill` and `Leave` are the calls
`MessageQueue` makes around it. `INT_MAX / 2` is the constant `GoneLimit`.
`m_recursionCount`, which only `tryLock` reads, is left out.

**MainThreadQueue.** `functionQueue` and `callbacksPaused` are the globals;
`scheduled` counts the platform's events that have still to be delivered
(external: only that an event leads to a dispatch on the main thread is used);
`stack` holds the dispatch loops of the main thread, one for each nested run
loop. `ScheduleDispatch` is separate from `CallOnMainThread` because the code
schedules after it released the mutex; `callOnMainThreadAndWait` schedules with
it. `FunctionReturns` includes the decision to give way.

**Worker.** The variables are grouped as in the code: the object and its proxy
(`object`, `proxy`, `thread`, `unconfirmed`, `hadActivity`, `asked`, `early`), the
worker's thread (`pc`, `nested`, `importing`, `closing`, `forbidden`, `timer`), the
two queues (`mainTasks`, `tasks` with `killed`), and for each load its two ends
(`client`, `bridge`). `MainThreadTask` has one action per kind of task the parent
performs, `RunLoop` one per kind the worker performs, plus its start and end.
Scripts are free: they post, import, load, set a timer, close or return in any
order. A synchronous load is `StartLoad`, the nested loop `NestedTask`, and
`SyncLoadReturns`. A load's callbacks are reduced to the last one.

**MessagePort.** Each end is one record of arrays indexed by `Ends`. `op` says
between which two critical sections the thread that holds the end is, so that
`Disentangle`/`Disentangled`, `Entangle`/`Entangled` and `Close`/`CloseSelf`/
`CloseRemote` interleave with everything another thread can do. A context's
thread does one operation at a time (`Free`). Ports are numbered so that a
pointer to an old port differs from one to its successor.

**LocalStorage.** `memory` is the area, `changed`, `cleared`, `pending`,
`clearing`, `syncScheduled`, `syncInProgress` the members of `StorageAreaSync`,
`items` and `clearItems` the locals of `performSync`, `db` the table, `disabled`
the balance of `disableSuddenTermination`. `Sync` is the critical section of
`syncTimerFired` with what its caller does before and after; `SyncTimerFired`
and `Close` use it. `syncTimerFired` that finds a sync in progress only starts
its timer again, which leaves the state as it is. The storage thread's actions
are the tasks `import`, `sync` and `terminate`, the second one item by item.
`overtaken` is a history variable: the keys whose last change a full batch
dropped (finding 5 below), so that what is true apart from that can be stated.

**SqlTransactions.** `step` is `m_nextStep`, `statements` the length of
`m_statementQueue`, `current` what has become of `m_currentStatement`, `sqlite`
`m_sqliteTransaction`, `connection` the transaction SQLite has open on a handle's
connection. The context's thread does one thing at a time: `doing` and `handle` say
which call of `openDatabase`, `deleteDatabaseFile` or `stopDatabases` it is in the
middle of, and on which database. `PerformNextStep` is what
the database thread does for one task, one disjunct for each `m_nextStep`, and
`PerformPendingCallback` the same on the context's thread, where the page's callback
executes statements, succeeds or throws. When a transaction is over, the database
thread schedules the handle's next one in a step of its own (`ScheduleNext`), so that
the context's thread can get between them, as it can between the two halves of
`transaction` (`Transaction`, `Submit`). Failures are counted: any call into
SQLite, the quota, and the opening of the file may fail while `failures` allows.

### What each component promises, and the refinement mappings

An abstract specification keeps what matters to the users of a component and nothing of
how the component does it: no lock, no task and no step between two critical sections.
The detailed module instantiates it, with the variables it has not given by name in
an `INSTANCE ... WITH`, and states the refinement as a property of its run.

* `WindowsCondition` implements `ConditionVariable` (`ImplementsCondition`): a waiter
  waits from the moment it is counted until it has accounted for its wakeup
  (`Waiting`); what a signal owes is `m_waitersToUnblock`; `spare`, how many may still
  go on without a signal because a thread whose deadline passed used up theirs, is what
  the semaphore holds, is about to be given (`Units`) or has given (`Took`) beyond that.
* `MainThreadQueue` implements `CallQueue` (`ServesInOrder`): the stack of dispatch
  loops becomes the stack of functions that run (`InFunctions`), a call is answered when
  its caller returned. Calls are taken in order and once; with spurious wakeups the
  abstract caller too may go on early.
* `Worker` implements `WorkerSession` (`ImplementsSession`): what is on its way is the
  posts in the parent's queue; a worker rests when its object is gone and its thread was
  not, or could not be, created, has ended, or is in its loop with nothing left that runs
  a script (`AtRest`). An object that is collected before termination was asked for must have
  missed nothing and leave a worker at rest, which it stays.
* `MessagePort` implements `DuplexChannel` (`ImplementsChannel`): an end is held by a
  context, in transit or gone (`Holder`), open as long as `outgoing` says so.
* `LocalStorage` implements `WriteBehind` (`ImplementsWriteBehind`): what is late for a
  key is what the three stages will still do to it, each a clear and a value (`Late`);
  keys of a failed database, and `overtaken` ones, are lost. The database takes a key
  through values the page gave it, in the page's order, and nothing is late when the
  process may be terminated or the area is closed.
* `SqlTransactions` implements `SerialTransactions` (`Serial`): the steps of a
  transaction become six phases (`PhaseOf`); it runs when none it conflicts with does,
  its changes are all in the file or none, and it is answered at most once and truthfully.
* `MessageQueue` implements `BlockingMailbox`, with its liveness (`ImplementsMailbox`).

## 3. What is checked

Passing runs, with the size of the state space TLC explores completely:

| Run | Instance | Distinct states | Shows |
|---|---|---|---|
| `queue_one_consumer` | one consumer, two filters (default and nested mode), three messages, one of them doomed to `removeIf` | 2 368 | no lost wakeup, one owner, refinement of the mailbox with its liveness (hence nothing after kill, and no timeout without a deadline) |
| `windows_condition` | two consumers, one poster, three posts, normalisation at 2 | 180 166 | no sleeper is forgotten, implements `ConditionVariable`, every consumer returns after kill |
| `main_thread_queue` | two plain and two waiting calls, two nested loops, two pauses | 61 482 | nothing stranded, implements `CallQueue` (in order, once or cancelled, the waiting caller outlives the call if there are no spurious wakeups), every call ends |
| `worker` | two messages, one post or exception, one import, one asynchronous load, thread creation may fail | 368 688 | accounting of confirmations, safe collection, no use after delete, implements `WorkerSession` (order in both directions, nothing lost); terminated or self-closed, the thread ends and the proxy is freed |
| `message_port` | a document and a worker that may die, two messages each way, one transfer | 484 581 | live notification, mutual close, no message stranded, implements `DuplexChannel` (order across transfers, one holder), arrival |
| `storage` | two keys, two values, batches of one, four changes, one database failure | 105 494 | balance of sudden termination, nothing lost when it is allowed, import first, implements `WriteBehind` (order of writes, nothing left after close), changes reach the database |
| `sql_transactions` | two handles of one file, two writers and a reader, two statements, one failure of anything that may fail | 457 787 | a turn finds the file free, one scheduled step, implements `SerialTransactions` (serial, truthful answers), nothing stranded or left open, transactions end, the context's thread returns |

Violation runs, each with one property that quotes what the code's own comments say:

1. `worker_sync_load` / `ThreadEnds`: `WorkerThread::stop` "ensures that tasks are
   being handled by thread event loop", but the shutdown task has the default
   mode, and the nested loop of `importScripts` or a synchronous request takes
   only its own; the proxy drops the load's callbacks once termination was asked
   for, so the thread stays. The passing runs state `ThreadEndsUnlessLoading` and
   `ProxyFreed` with that exception.
2. `worker_import` / `InitializationIsActivity`: "Worker initialization means a
   pending activity", but a report from `importScripts` inside the first script
   resets it, and an unreferenced worker is collected while it starts.
   `ImportsAnywhere` is `TRUE` only in this run; in the run `worker` imports are made
   by message handlers.
3. `message_port_transit` / `MessagesSurviveClose`: "previously-existing messages
   should still be delivered", but a port that arrives after its channel was
   closed gets no channel.
4. `message_port_race` / `RemotePortIsLive`: a close between the two steps of
   `entangleIfOpen` leaves the closed end pointing to a port, and nothing resets it
   when that port goes. `NotifiesLivePort`, proved, says that no *post* follows such
   a pointer; `locallyEntangledPort` does.
5. `storage_overtaken` / `LastChangeIsSaved`: with more changes than fit in a batch,
   `syncTimerFired` removes from `m_changedItems` every key that is pending, also
   one changed again since it became pending. The passing run's properties
   exempt exactly those keys (`overtaken`).

### Bounds

* *MessageQueue.* With three messages a filter can pass over one in front of the
  one it takes and one behind, and `removeIf` can hit any of them. The code has one
  consumer for every queue; the safety properties are proved for all sizes.
* *WindowsCondition.* Two waiters are the least with which one can time out while
  the signal is for the other, three posts let a signal come while the previous
  one is still unblocking, and `GoneLimit = 2` makes two timeouts normalise.
  A second poster adds nothing to the instance: a signal is sent with the
  critical section held.
* *MainThreadQueue.* Two calls of each kind make the queue non-empty at a post,
  and give a nested loop something to take; two pauses allow pause, resume, pause.
* *Worker.* Two messages are the least for an order and for an early and a late
  one; one synchronous and one asynchronous load may overlap. With two posts the
  liveness properties take longer than the other runs together; the order of
  posts is proved for any number of them.
* *MessagePort.* One transfer per run is what TLC can take with two messages each
  way; `message_port_race` has two. The proofs have no bound.
* *LocalStorage.* `MaxiumItemsToSync` is 100 in the code; with two keys and a batch
  of one every batch can be partial. Four changes let a key change before, between,
  and after a clear and a batch. One failure at every point where the database may
  fail. The proofs hold for any batch size, any keys and any number of failures.
* *SqlTransactions.* Two writers and a reader on two handles give every pair that
  conflicts and a pair that does not, within a handle and across handles; two
  statements are the least for one to fail after another. One failure is put at
  every point in turn; the proofs have no bound on any of these.

### Fairness and liveness

* A thread that can take the mutex takes it eventually: weak fairness of
  `Reacquire`, and of the steps inside an operation of a port.
* On Windows the critical section and the semaphores are contended by others
  again and again, so strong fairness for a thread's next step: the kernel does
  not starve a waiter.
* Run loops deliver: weak fairness of `Dispatch` in the outermost run loop (a
  nested loop may end at any time, so none is assumed there), `MainThreadTask`,
  `RunLoop`, `DispatchPorts`, the storage thread, the database thread, and the context
  that delivers a transaction's callbacks and goes on with a call it has begun.
* The network answers a load. A script ends only if it is being terminated
  (JavaScriptCore's timeout checker stops it); any other may run for ever.
* Nobody is assumed to post, start, close, send, terminate, resume callbacks,
  or to have a deadline.

Deadlock is checked for the queue and the Windows condition. It is off where the
system rightly stops: all calls made, a worker gone, a channel closed, storage closed,
the database thread ended.

### Data that is abstracted

Messages are model values or numbers in the order they were posted; strings, script
values and serialisation are left out; a storage item's value is one of two model
values or `Null`; SQLite is, for local storage, a table that is written item by item and
may fail, and for SQL databases at most one open transaction per connection; what a
statement does is left out, its number in a transaction is not.

## 4. What is proved

TLAPS checks 15 165 obligations, from the assumptions on the constants that each
module states (and that TLC evaluates on every run), with SMT, Zenon and LS4.

**MessageQueueProofs**: for any messages, consumers and filters, `TypeOK`,
`ExactlyOnce`, `NothingAfterKill`, `InfiniteWaitNeverTimesOut` and the refinement
`MailboxSafety` (the last three are theorems only; the run states them through the
refinement); and `NoLostWakeup` for a queue with one consumer, the way the code uses
it (with filters and several consumers it is not true).
`ExactlyOnce` is inductive together with `TypeOK`, given two lemmas on sequences: what
taking one element out leaves (`WithoutElements`) and what a filtering by increasing
positions leaves (`RemoveIfLemma`). `NoLostWakeup` needs `BlockedForAReason`: a
consumer is blocked only if it saw neither kill nor a message it accepts, and
everything that changes either wakes it. The refinement maps a consumer that is
blocked or woken to one that waits; every wakeup stutters, and `WithoutIsCut`
relates the two ways of writing "the first message the filter accepts".

**WindowsConditionProofs**: for any number of waiters, signallers and messages and any
limit of normalisation, `TypeOK` (the counters stay in their ranges),
`NoSleeperForgotten`, `GateClosedWhileUnblocking` (a theorem only) and the refinement
`ConditionIsKept`. None is inductive; the invariant counts threads. `CountInv`: `m_waitersBlocked` and `m_waitersToUnblock`
together are the threads between the gate and their accounting, plus those already
counted as gone, and nobody is gone while there is someone to unblock.
`UnitInv`: who is to be unblocked has a unit of the semaphore, released, about to be
released, or taken by a waiter that has not accounted for it yet. `MessageInv`: as
long as a waiter is blocked that no signal is for, there is a unit or a consumer that
is up for every message; once killed, the signal is for everyone. A sleeper without a
unit then makes more waiters than units, so one of them is blocked, so for every
message somebody is up. `CardMove` reduces a step of one thread to adding or
taking at most one element of each of the sets. The refinement needs, from the same
counts, that `spare` never goes below zero, and that it grows only when a waiter whose
deadline passed leaves a unit behind (`Unblock`); normalisation and the gate stutter.

**MainThreadQueueProofs**: for any calls, nesting and pauses, `TypeOK`,
`NothingStranded`, `EveryCallOnce` (a theorem only) and the refinement
`QueueServesInOrder`, with or without spurious wakeups: without them it says that a
waiting caller goes on only after its call ran, with them that it may go on earlier.
`CallInv` places each call, once, in the queue, in one dispatch loop, among those that
ran or among those cancelled. The refinement needs `LoopInv`, that only the innermost
loop is between two functions, and `FlagInv`, that who waits is told only by the call
that ran.

**WorkerProofs**: for any numbers of messages and posts and any finite set of loads,
`TypeOK`, `ConfirmationsAreOwed`, `ProxyOutlivesUse`, the action property
`MessagesInOrder` (a theorem only; the run states it through the refinement) and, if
only message handlers import scripts, `IdleWhenUnreferenced` and the refinement
`SessionIsKept`; `worker_import` shows that this last assumption is needed.
`LifeInv`, `StopInv`, `TaskInv` and `LoadInv` say how far the thread can be from what
its parent knows: no load is under way before the context exists or after it was told
to stop, the bridge of a load that was created is destroyed by a task behind the one
that created it (`Ordered`), and the notice that the context is gone, which is sent
only by a thread that has ended, is the last task of `mainTasks`. So nothing is left
when the task that deletes the proxy has run. `CountInv` splits `unconfirmed` into the
messages queued, the one being handled and the confirmations on their way, counted by
position in both queues; it gives `ConfirmationsAreOwed`, and that the count, which
`ReportActivity` decrements, never goes below zero.
`PictureInv` is about the last report the parent will hear, which may be the one it
has heard (`Silent`, with that one at position 0): if it tells that the worker is
idle, the worker is, and no post follows it. The exception is a report that says
nothing about the present, sent by `importScripts`; `Unfounded` and its absence say
that one is always followed by the confirmation of the message being handled, so
that the proxy, which counts this message, does not act on it.
`OrderInv`: as long as the worker takes messages, its queue holds, in order, exactly
those between the last one it handled and the last one posted.
`SessionInv` adds that the posts in the parent's queue are in order and that an object
is gone only when termination was asked for. The refinement then has two steps that are
not immediate: `CollectedMissedNothing`, which is `IdleWhenUnreferenced` and `OrderInv`
at the moment of the collection, and `RestIsKept`, that nothing which is left can run a
script in a worker at rest (a synchronous load would keep it in a script, by
`FlagsInv`).

**MessagePortProofs**: for any contexts and bounds, `TypeOK`, `NotifiesLivePort`,
`CloseIsMutual`, `NoMessageStranded`, `QueueHoldsTheRest` (a theorem only) and the
refinement `ChannelIsKept`. The two about closing and notifying are not inductive: a post is
safe because `outgoing` is reset whenever the end could point to a port that is
gone, and that depends on where the other thread is between its two steps.
`ChannelInv` adds `Closing` (the two ends agree but for a thread that is between
`CloseSelf` and `CloseRemote`) and `Pointers` (who may point to which port in which
state of `op`). `QueueInv` carries the order of messages across ports.
That no message is stranded needs `Arrived`: a port that has reached a context is known
to the other end for as long as that may post, so the post that makes the queue non-empty
tells it, or else its own start or arrival does. The refinement needs `HoldersAlive`:
what takes an end from its context, or to it, finds the context alive.

**LocalStorageProofs**: for any keys, values, batch size, number of changes and
failures, `TypeOK`, `SuddenTerminationBalanced`, `TerminationLosesNothing`, `ImportedBeforeUse`,
`CloseLosesNothing` (a theorem only) and the refinement `AreaIsWrittenBehind`. A change moves through three stages,
`changed`, `pending` and `items`, each with a flag for a clear that precedes it.
`CarriedInv` says that, unless the database failed, applying to `db` the items being
written, then what is pending, then what is changed, each after its clear, gives
`memory` (but for `overtaken` keys). `TaskInv`, `ImportInv` and `AnnouncedInv` tie the
flags to the tasks in the queue and to where the storage thread is, so that a
balance of zero means that all three stages are empty; then `CarriedInv` is `Saved`. In the refinement `Late` is a
concatenation of three sequences of at most two values. A change by the page appends to
the last (`ChangedLast`) or replaces what it ends in, a batch moves part of one stage to
the next (`SyncParts`), and a write takes the first (`WritesFirst`); each leaves a part,
in order, of what was late, and `CarriedInv` gives that its last value is the page's
(`FinalIsLast`).

**SqlTransactionsProofs**: for any handles, transactions, numbers of statements and
failures, the invariants of the run, `AnswersAreTrue` (a theorem only) and the
refinement `TransactionsAreSerial`. They build on each other.
`HandleKnown` and `SyncInv` tie the database thread's tasks to the call the context's
thread is blocked in. `PlaceInv` says where a transaction with a step to come can be:
once in the database thread's queue, in the context's callbacks, in its handle's queue
or with the coordinator, as `step` demands; `OneStepAtATime` is part of it.
`NothingStranded` asks for more than the flag `m_transactionInProgress`: while
transactions of a handle wait, one of them is being submitted or another one `Proceeds`,
that is, has its step queued on one of the two threads, waits for a lock that some
transaction has, or is the one the database thread is at. `FlagInv` is that waiting
transactions have the flag set or a submitter, `ChainInv` that the flag is set only while
a transaction proceeds, `WaitersInv` that the coordinator keeps nobody waiting for a lock
that is free, and `OwnerInv` that an open handle has not lost the step of a transaction
that has a lock. Stopped and deleted handles are exempt: their steps are taken away
(`Database.cpp:384`, `:449`) and the flag then stays set for ever, with nobody to
schedule what still waits. `LockInv` gives the coordinator's writer and readers to the
transactions past `acquireLock`, and `ConnectionInv` what SQLite has open to one that
holds the lock and is not past its commit or rollback; together they are
`TurnFindsFileFree`. `CommittedInv` follows the commit from the last statement to the
success callback (`AnswersAreTrue`), and `OpenInv` lists what is open for the
database thread to close at its end (`EndLeavesNothingOpen`). The refinement has a step
for each disjunct of `PerformNextStep`; that a transaction begins alone is
`TurnFindsFileFree` with `LockInv`, that SQLite has nothing open for one that still
waits is `BegunInv`, and the answer it gives is that of `CommittedInv`.

Only model-checked are the liveness properties: the temporal half of
`ImplementsMailbox`, `KilledConsumersReturn`, `EveryCallEnds`, `PostsAreDelivered`,
`ThreadEndsUnlessLoading`, `ProxyFreed`, `MessagesArrive`, `EveryChangeIsSaved`,
`EveryTransactionEnds` and `ContextReturns`. Liveness under fairness and `ENABLED` are out
of the prover's reach. Where a promise has a part that is an invariant, that part is
proved: `NoLostWakeup`, `NoSleeperForgotten`, both `NothingStranded` and
`NoMessageStranded` say that what must happen next is under way, and only that it does
happen is left to fairness. (A transaction that waits for the lock is one that
`NothingStranded` of `SqlTransactions` counts as proceeding; that the lock's holder lets
go of it is `EveryTransactionEnds`.)

## 5. What is not modelled, and limits of what is

* Worker: console messages, ports carried by a worker's messages, the databases a
  worker waits for when it shuts down, several workers. A load is started once.
  A script that `close()` keeps waiting in a synchronous load is in the model
  (its callback is skipped) but exempted by the liveness properties, and so is a
  thread that could not be created.
* MessageQueue, Windows: a deadline that is already past makes `timedWait` return before
  it waits (`ThreadingWin.cpp:460-462`); here it is a time-out right after the wait began.
* MainThreadQueue: the wait in `callOnMainThreadAndWait` has no loop
  (`MainThread.cpp:199`). With spurious wakeups, which pthreads permit, the caller may
  return before its function ran. `CallQueue` allows it then, and the run has
  `SpuriousWakeups = FALSE`; nothing here says that a waiting caller outlives its call on
  pthreads. On the main thread itself `callOnMainThreadAndWait` calls the function at once
  (`MainThread.cpp:188-191`), which touches none of this state and is left out.
* Worker: the worker's shared timer fires (`TimerFires`) when the wait for a message
  timed out with an empty queue. A task that is appended between the time-out and the
  moment the thread has the mutex again (`MessageQueue.h:135-148`,
  `WorkerRunLoop.cpp:165`) counts as appended after it: the thread does nothing in between.
* MessagePort: one channel; a port sent through another, `locallyEntangledPort` and the
  collection of two unreachable ports of one context; the order in which a worker
  context's base class is destroyed.
* LocalStorage: one origin; session storage, private browsing, events, the quota
  and its accounting (`StorageMap::m_currentLength`), areas used after close.
  What is saved after a failure of the database is not promised by the code.
* SqlTransactions: one context and one file; the coordinator has an entry for every
  file, and nothing else is shared between them. `m_stopped` and
  `m_isTransactionQueueEnabled` are one variable, since `stop` sets them together; the
  append to `m_transactionQueue` without the mutex (`Database.cpp:640`) is an atomic
  step of its own. After `stopDatabases` the context starts nothing.
  `waitForTaskCompletion` tests once, without a loop (`DatabaseTask.cpp:46-47`):
  `OpenReturns` and `CloseReturns` assume no spurious wakeup there.
  `ContextRemoveOpenDatabaseTask`, authorisation, cached and expected versions, the
  database tracker and `changeVersion`'s own queries are left out (its preflight and
  postflight are calls that may fail). Statements have no names. A transaction of a
  deleted database that holds the lock never releases it, because
  `unscheduleDatabaseTasks` took its next step away (`Database.cpp:449`), and other
  handles of the file then wait for ever: `EveryTransactionEnds` exempts exactly this,
  so the defect is described, not caught. Transactions that wait in the queue of a
  deleted handle are not scheduled either, and `NothingStranded` exempts them.
  Three things seen while translating that no run states: a quota failure that the
  page's statement callback handled is handled once more when the statement is looked
  at again, and ends the transaction (`SQLTransaction.cpp:328`, against the comment at
  417); the assertion at `SQLTransaction.cpp:271` fails when the preflight of
  `changeVersion` fails after `BEGIN`; and `ChangeVersionWrapper::performPostflight`
  sets the expected version before the commit, which may fail.
* The memory model: accesses outside a lock are modelled as atomic steps; where
  the code reads a flag without one (for example `m_storageArea`), it is written by
  the same thread.
* Not modelled at all: the components marked `not_modelled` in `PROJECT.json`, with
  the reason.

## 6. Plan

In this order, most important behaviour first:

1. **Storage quota**: `StorageMap`'s accounting with widths, against the sum of
   lengths; copy-on-write of session storage.
2. **Versions of SQL databases**: the map from files to versions shared by all
   contexts, the expected version of a handle, and `changeVersion` over them.
3. **CoreIPC**: `Connection::sendSyncMessage`, invalidation, and the web process'
   crash; then the update and acknowledgement protocol of the drawing areas.
4. **Shared workers**: `DefaultSharedWorkerRepository` on top of the worker's thread.

## 7. Running

```
tlc -workers 2 -config MCWorker.cfg MCWorker      # any run of PROJECT.json
tlapm LocalStorageProofs.tla                      # any *Proofs module
```
