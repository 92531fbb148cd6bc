--------------------------- MODULE SqlTransactions ---------------------------
(***************************************************************************)
(* The SQL databases of one script execution context (WebCore/storage).    *)
(* Several Database objects are handles to the same file, each with an     *)
(* SQLite connection.  An SQLTransaction is a chain of steps that goes     *)
(* back and forth between the DatabaseThread, which talks to SQLite, and   *)
(* the context's thread, which runs the page's callbacks.  An              *)
(* SQLTransactionCoordinator, used by the database thread alone, makes     *)
(* transactions on one file take turns: one writer, or readers.            *)
(*                                                                         *)
(* The files of a context have entries of their own in the coordinator;    *)
(* the model has one file.  The transactions that the page may start have  *)
(* their handle and mode given; which callbacks a transaction has is       *)
(* chosen when the code looks, which is once.                              *)
(***************************************************************************)
EXTENDS Integers, Sequences, FiniteSets

CONSTANTS
    Databases,        \* the Database objects
    Transactions,     \* the SQLTransactions the page may start
    DatabaseOf,       \* the handle of each
    ReadOnly,         \* those of readTransaction
    None,
    MaxStatements,    \* bound on the statements the page executes
    MaxFailures       \* bound on the failures of SQLite, and of the quota

ASSUME HandleAssumption == DatabaseOf \in [Transactions -> Databases]
ASSUME ModeAssumption == ReadOnly \subseteq Transactions
ASSUME NoneAssumption == None \notin Transactions \cup Databases
ASSUME BoundAssumption == MaxStatements \in Nat /\ MaxFailures \in Nat

VARIABLES
    \* of the context
    doing,            \* what its thread is in the middle of
    killed,           \* whether it asked the database thread to terminate
    handle,           \* the database that is about
    doomed,           \* those deleteDatabaseFile has still to close
    callbacks,        \* its DeliverPendingCallbackTasks
    registered,       \* m_openDatabaseSet of the context
    \* of each database
    opened,           \* m_opened
    deleted,          \* m_deleted
    stopped,          \* m_stopped, which disables the transaction queue
    transactionQueue, \* m_transactionQueue
    inProgress,       \* m_transactionInProgress
    connection,       \* the transaction SQLite has open
    \* of each transaction
    step,             \* m_nextStep
    statements,       \* how many m_statementQueue holds
    current,          \* m_currentStatement: "done"; "failed" for the quota, then
                      \*   "raised" (m_shouldRetryCurrentStatement), or "handled"
                      \*   by its callback; "none" also when nothing looks at it
    lockAcquired,     \* m_lockAcquired
    sqlite,           \* m_sqliteTransaction, and its m_inProgress
    \* of the coordinator
    pending,          \* pendingTransactions
    readers,          \* activeReadTransactions
    writer,           \* activeWriteTransaction
    \* of the database thread
    tasks,            \* m_queue
    thread,           \* where it is
    running,          \* the transaction it is about to replace by the next
    \* history and bounds
    asked,            \* how many statements the page has executed
    committed,        \* the transactions SQLite has committed
    failures

contextVars == <<doing, handle, doomed, registered, killed>>
handleVars == <<opened, deleted, stopped>>
queueVars == <<transactionQueue, inProgress>>
statementVars == <<statements, current, asked>>
lockVars == <<pending, readers, writer, lockAcquired>>
threadVars == <<thread, running>>
historyVars == <<committed, failures>>
vars == <<contextVars, callbacks, handleVars, queueVars, connection, step, statementVars,
          lockVars, sqlite, tasks, threadVars, historyVars>>

Writers == Transactions \ ReadOnly
Active == readers \cup (IF writer = None THEN {} ELSE {writer})

ThreadSteps == {"acquireLock", "openTransactionAndPreflight", "runStatements",
                "cleanupAfterSuccessCallback", "cleanupAfterTransactionErrorCallback"}
ContextSteps == {"deliverTransactionCallback", "deliverStatementCallback",
                 "deliverQuotaIncreaseCallback", "deliverSuccessCallback",
                 "deliverTransactionErrorCallback"}

\* DatabaseTransactionTask, DatabaseOpenTask and DatabaseCloseTask.
Step(t) == [kind |-> "step", of |-> t]
Open(d) == [kind |-> "open", of |-> d]
Close(d) == [kind |-> "close", of |-> d]
Tasks == [kind : {"step"}, of : Transactions] \cup [kind : {"open", "close"}, of : Databases]
TaskDatabase(task) == IF task.kind = "step" THEN DatabaseOf[task.of] ELSE task.of

TypeOK ==
    /\ doing \in {"nothing", "submitting", "opening", "openReturns", "deleting", "marked",
                  "unscheduled", "closing", "closeReturns", "stopping", "unscheduling"}
    /\ handle \in Databases \cup {None}
    /\ killed \in BOOLEAN
    /\ doomed \subseteq Databases /\ registered \subseteq Databases
    /\ opened \subseteq Databases /\ deleted \subseteq Databases /\ stopped \subseteq Databases
    /\ callbacks \in Seq(Transactions)
    /\ transactionQueue \in [Databases -> Seq(Transactions)]
    /\ inProgress \in [Databases -> BOOLEAN]
    /\ connection \in [Databases -> Transactions \cup {None}]
    /\ step \in [Transactions -> ThreadSteps \cup ContextSteps \cup {"uncreated", "none"}]
    /\ statements \in [Transactions -> Nat] /\ asked \in 0..MaxStatements
    /\ current \in [Transactions -> {"none", "done", "failed", "raised", "handled"}]
    /\ lockAcquired \subseteq Transactions
    /\ sqlite \in [Transactions -> {"none", "inProgress", "ended"}]
    /\ pending \in Seq(Transactions) /\ readers \subseteq Transactions
    /\ writer \in Transactions \cup {None}
    /\ tasks \in Seq(Tasks)
    /\ thread \in {"waiting", "next", "closing", "ended"}
    /\ running \in Transactions \cup {None}
    /\ committed \subseteq Transactions
    /\ failures \in 0..MaxFailures

Init ==
    /\ doing = "nothing" /\ handle = None /\ doomed = {} /\ registered = {}
    /\ killed = FALSE /\ callbacks = <<>>
    /\ opened = {} /\ deleted = {} /\ stopped = {}
    /\ transactionQueue = [d \in Databases |-> <<>>]
    /\ inProgress = [d \in Databases |-> FALSE]
    /\ connection = [d \in Databases |-> None]
    /\ step = [t \in Transactions |-> "uncreated"]
    /\ statements = [t \in Transactions |-> 0] /\ asked = 0
    /\ current = [t \in Transactions |-> "none"]
    /\ pending = <<>> /\ readers = {} /\ writer = None /\ lockAcquired = {}
    /\ sqlite = [t \in Transactions |-> "none"]
    /\ tasks = <<>> /\ thread = "waiting" /\ running = None
    /\ committed = {} /\ failures = 0

Fail ==
    /\ failures < MaxFailures
    /\ failures' = failures + 1

-----------------------------------------------------------------------------
(* The context's thread.                                                   *)

\* Mutant: the transaction is not removed from m_transactionQueue.
ScheduleTransactionKept(d, queue) ==
    /\ inProgress' = [inProgress EXCEPT ![d] = d \notin stopped /\ transactionQueue[d] # <<>>]
    /\ tasks' = IF d \notin stopped /\ transactionQueue[d] # <<>>
                THEN Append(queue, Step(Head(transactionQueue[d]))) ELSE queue
    /\ UNCHANGED transactionQueue

\* Database::scheduleTransaction, with m_transactionInProgressMutex.
ScheduleTransaction(d, queue) ==
    IF d \notin stopped /\ transactionQueue[d] # <<>>
    THEN /\ transactionQueue' = [transactionQueue EXCEPT ![d] = Tail(@)]
         /\ inProgress' = [inProgress EXCEPT ![d] = TRUE]
         /\ tasks' = Append(queue, Step(Head(transactionQueue[d])))
    ELSE /\ inProgress' = [inProgress EXCEPT ![d] = FALSE]
         /\ tasks' = queue
         /\ UNCHANGED transactionQueue

\* openDatabase: the database thread opens the file, and the context waits.
OpenDatabase(d) ==
    /\ doing = "nothing" /\ ~killed
    /\ d \notin registered \cup deleted
    /\ registered' = registered \cup {d}
    /\ tasks' = <<Open(d)>> \o tasks
    /\ doing' = "opening" /\ handle' = d
    /\ UNCHANGED <<doomed, killed, callbacks, handleVars, queueVars, connection, step,
                   statementVars, lockVars, sqlite, threadVars, historyVars>>

OpenReturns ==
    /\ doing = "openReturns"
    /\ registered' = IF handle \in opened THEN registered ELSE registered \ {handle}
    /\ doing' = "nothing" /\ handle' = None
    /\ UNCHANGED <<doomed, killed, callbacks, handleVars, queueVars, connection, step,
                   statementVars, lockVars, sqlite, tasks, threadVars, historyVars>>

\* transaction, readTransaction and changeVersion: the transaction is appended
\* without the mutex (on a stopped database it would stay there) ...
Transaction(t) ==
    /\ doing = "nothing" /\ ~killed
    /\ step[t] = "uncreated" /\ DatabaseOf[t] \in registered \cup deleted
    /\ step' = [step EXCEPT ![t] = "acquireLock"]
    /\ transactionQueue' = [transactionQueue EXCEPT ![DatabaseOf[t]] = Append(@, t)]
    /\ doing' = "submitting" /\ handle' = DatabaseOf[t]
    /\ UNCHANGED <<doomed, registered, killed, callbacks, handleVars, inProgress, connection,
                   statementVars, lockVars, sqlite, tasks, threadVars, historyVars>>

\* ... and scheduled with it, unless one is in progress.
Submit ==
    /\ doing = "submitting"
    /\ IF inProgress[handle] THEN UNCHANGED <<queueVars, tasks>>
                             ELSE ScheduleTransaction(handle, tasks)
    /\ doing' = "nothing" /\ handle' = None
    /\ UNCHANGED <<doomed, registered, killed, callbacks, handleVars, connection, step,
                   statementVars, lockVars, sqlite, threadVars, historyVars>>

\* Mutant: the tasks are cleared, not removed.
ClearTasks(D) ==
    tasks' = [i \in DOMAIN tasks |-> IF TaskDatabase(tasks[i]) \in D THEN None ELSE tasks[i]]

\* unscheduleDatabaseTasks for the databases D: f lists the positions of the
\* tasks that are kept.
UnscheduleDatabaseTasks(D) ==
    LET kept == {i \in 1..Len(tasks) : TaskDatabase(tasks[i]) \notin D} IN
    \E f \in [1..Cardinality(kept) -> kept] :
        /\ \A i, j \in DOMAIN f : i < j => f[i] < f[j]
        /\ tasks' = [i \in 1..Cardinality(kept) |-> tasks[f[i]]]

\* DatabaseTracker::deleteDatabaseFile: every database open on the file, one by
\* one, is marked as deleted and closed (on a terminated database thread it would
\* only be marked).
DeleteDatabaseFile ==
    /\ doing = "nothing" /\ ~killed
    /\ registered # {}
    /\ doomed' = registered
    /\ doing' = "deleting"
    /\ UNCHANGED <<handle, registered, killed, callbacks, handleVars, queueVars, connection, step,
                   statementVars, lockVars, sqlite, tasks, threadVars, historyVars>>

\* markAsDeletedAndClose.
MarkAsDeleted(d) ==
    /\ doing = "deleting" /\ d \in doomed
    /\ doomed' = doomed \ {d}
    /\ deleted' = deleted \cup {d}
    /\ doing' = "marked" /\ handle' = d
    /\ UNCHANGED <<registered, killed, callbacks, opened, stopped, queueVars, connection, step,
                   statementVars, lockVars, sqlite, tasks, threadVars, historyVars>>

\* Mutant: the tasks are unscheduled after the close task is scheduled.
ScheduleCloseFirst ==
    /\ doing = "unscheduled"
    /\ UnscheduleDatabaseTasks({handle})
    /\ doing' = "closing"
    /\ UNCHANGED <<handle, doomed, registered, killed, callbacks, handleVars, queueVars,
                   connection, step, statementVars, lockVars, sqlite, threadVars, historyVars>>

\* Once its tasks are unscheduled, the database's close task comes first.
ScheduleClose ==
    /\ doing = "unscheduled"
    /\ tasks' = <<Close(handle)>> \o tasks
    /\ doing' = "closing"
    /\ UNCHANGED <<handle, doomed, registered, killed, callbacks, handleVars, queueVars,
                   connection, step, statementVars, lockVars, sqlite, threadVars, historyVars>>

CloseReturns ==
    /\ doing = "closeReturns"
    /\ registered' = registered \ {handle}
    /\ doing' = IF doomed = {} THEN "nothing" ELSE "deleting"
    /\ handle' = None
    /\ UNCHANGED <<doomed, killed, callbacks, handleVars, queueVars, connection, step,
                   statementVars, lockVars, sqlite, tasks, threadVars, historyVars>>

\* ScriptExecutionContext::stopDatabases: each database is stopped (the flag
\* m_stopped and m_isTransactionQueueEnabled are one here) ...
Stop(d) ==
    /\ doing \in {"nothing", "stopping"} /\ ~killed
    /\ d \in registered \ stopped
    /\ stopped' = stopped \cup {d}
    /\ inProgress' = [inProgress EXCEPT ![d] = FALSE]
    /\ doing' = "unscheduling" /\ handle' = d
    /\ UNCHANGED <<doomed, registered, killed, callbacks, opened, deleted, transactionQueue,
                   connection, step, statementVars, lockVars, sqlite, tasks, threadVars,
                   historyVars>>

\* ... and its tasks are unscheduled, as are those of a database marked as deleted.
Unschedule ==
    /\ doing \in {"marked", "unscheduling"}
    /\ UnscheduleDatabaseTasks({handle})
    /\ IF doing = "marked" THEN doing' = "unscheduled" /\ UNCHANGED handle
                           ELSE doing' = "stopping" /\ handle' = None
    /\ UNCHANGED <<doomed, registered, killed, callbacks, handleVars, queueVars, connection, step,
                   statementVars, lockVars, sqlite, threadVars, historyVars>>

\* In the end the queue of the database thread is killed.
RequestTermination ==
    /\ doing \in {"nothing", "stopping"} /\ ~killed
    /\ registered \subseteq stopped
    /\ killed' = TRUE /\ doing' = "nothing"
    /\ UNCHANGED <<handle, doomed, registered, callbacks, handleVars, queueVars, connection, step,
                   statementVars, lockVars, sqlite, tasks, threadVars, historyVars>>

-----------------------------------------------------------------------------
(* The callbacks of a transaction, on the context's thread.                *)

\* scheduleTransactionStep with step s.
ScheduleStep(t, s) ==
    /\ step' = [step EXCEPT ![t] = s]
    /\ tasks' = Append(tasks, Step(t))

\* A callback of the page calls executeSql any number of times.
ExecuteSQL(t) ==
    \E n \in 0..(MaxStatements - asked) :
        /\ statements' = [statements EXCEPT ![t] = @ + n]
        /\ asked' = asked + n

\* handleTransactionError in a callback, and deliverTransactionErrorCallback: the
\* page is told, if it gave a callback for that, and the cleanup is next.
HandleErrorInCallback(t) == ScheduleStep(t, "cleanupAfterTransactionErrorCallback")

DeliverTransactionCallback(t) ==
    /\ ExecuteSQL(t)
    /\ ScheduleStep(t, "runStatements") \/ HandleErrorInCallback(t)
    /\ UNCHANGED current

\* The error of a statement is not cleared by the callback that handles it.
DeliverStatementCallback(t) ==
    /\ ExecuteSQL(t)
    /\ \/ /\ ScheduleStep(t, "runStatements")
          /\ current' = [current EXCEPT ![t] = IF @ = "failed" THEN "handled" ELSE "none"]
       \/ /\ HandleErrorInCallback(t)
          /\ current' = [current EXCEPT ![t] = "none"]

\* didExceedQuota: whether the quota was raised.
DeliverQuotaIncreaseCallback(t) ==
    /\ \E state \in {"failed", "raised"} : current' = [current EXCEPT ![t] = state]
    /\ ScheduleStep(t, "runStatements")
    /\ UNCHANGED <<statements, asked>>

DeliverSuccessCallback(t) ==
    /\ ScheduleStep(t, "cleanupAfterSuccessCallback")
    /\ UNCHANGED statementVars

DeliverTransactionErrorCallback(t) ==
    /\ HandleErrorInCallback(t)
    /\ UNCHANGED statementVars

\* checkAndHandleClosedDatabase on the context's thread.
CancelCallback(t) ==
    /\ statements' = [statements EXCEPT ![t] = 0]
    /\ step' = [step EXCEPT ![t] = "none"]
    /\ UNCHANGED <<current, asked, tasks>>

PerformPendingCallback(t) ==
    /\ doing = "nothing"
    /\ callbacks # <<>> /\ Head(callbacks) = t
    /\ callbacks' = Tail(callbacks)
    /\ \/ DatabaseOf[t] \in stopped /\ CancelCallback(t)
       \/ /\ DatabaseOf[t] \notin stopped
          /\ \/ step[t] = "deliverTransactionCallback" /\ DeliverTransactionCallback(t)
             \/ step[t] = "deliverStatementCallback" /\ DeliverStatementCallback(t)
             \/ step[t] = "deliverQuotaIncreaseCallback" /\ DeliverQuotaIncreaseCallback(t)
             \/ step[t] = "deliverSuccessCallback" /\ DeliverSuccessCallback(t)
             \/ /\ step[t] = "deliverTransactionErrorCallback"
                /\ DeliverTransactionErrorCallback(t)
    /\ UNCHANGED <<contextVars, handleVars, queueVars, connection, lockVars, sqlite, threadVars,
                   committed, failures>>

-----------------------------------------------------------------------------
(* The coordinator.                                                        *)

\* Mutant: a writer does not wait for the readers.
TurnOfWriter(n, p, rs, w) ==
    \/ n = 0 /\ (p = <<>> \/ w # None)
    \/ /\ n \in 1..Len(p) /\ w = None
       /\ \A i \in 1..n : p[i] \in ReadOnly
       /\ n < Len(p) => p[n + 1] \in Writers
    \/ n = 1 /\ p # <<>> /\ w = None /\ Head(p) \in Writers

\* With pending p, readers rs and writer w it is the turn of the first n.
Turn(n, p, rs, w) ==
    \/ n = 0 /\ (p = <<>> \/ w # None)
    \/ n = 0 /\ p # <<>> /\ Head(p) \in Writers /\ rs # {}
    \/ /\ n \in 1..Len(p) /\ w = None
       /\ \A i \in 1..n : p[i] \in ReadOnly
       /\ n < Len(p) => p[n + 1] \in Writers
    \/ n = 1 /\ p # <<>> /\ w = None /\ rs = {} /\ Head(p) \in Writers

\* processPendingTransactions, and lockAcquired of those whose turn it is; it
\* is called in a task of t, whose next step is then s.
ProcessPendingTransactions(t, s, p, rs, w) ==
    \E n \in 0..Len(p) :
        /\ Turn(n, p, rs, w)
        /\ LET granted == {p[i] : i \in 1..n} IN
           /\ pending' = SubSeq(p, n + 1, Len(p))
           /\ readers' = rs \cup (granted \cap ReadOnly)
           /\ writer' = IF granted \cap Writers = {} THEN w ELSE p[1]
           /\ lockAcquired' = lockAcquired \cup granted
           /\ step' = [u \in Transactions |->
                         IF u \in granted THEN "openTransactionAndPreflight"
                         ELSE IF u = t THEN s ELSE step[u]]
        /\ tasks' = [i \in 1..n |-> Step(p[n + 1 - i])] \o Tail(tasks)

AcquireLock(t) ==
    ProcessPendingTransactions(t, "acquireLock", Append(pending, t), readers, writer)

\* releaseLock at the end of a transaction.
ReleaseLock(t) ==
    IF t \in ReadOnly
    THEN ProcessPendingTransactions(t, "none", pending, readers \ {t}, writer)
    ELSE ProcessPendingTransactions(t, "none", pending, readers, None)

-----------------------------------------------------------------------------
(* The steps of a transaction, on the database thread.                     *)

\* scheduleTransactionCallback with step s.
ScheduleCallback(t, s) ==
    /\ step' = [step EXCEPT ![t] = s]
    /\ callbacks' = Append(callbacks, t)
    /\ tasks' = Tail(tasks)
    /\ UNCHANGED lockVars

\* The connections after a rollback of t.
RolledBack(t) ==
    [connection EXCEPT ![DatabaseOf[t]] = IF @ = t THEN None ELSE @]

\* cleanupAfterTransactionErrorCallback.
CleanupAfterError(t) ==
    /\ connection' = RolledBack(t)
    /\ sqlite' = [sqlite EXCEPT ![t] = "none"]
    /\ statements' = [statements EXCEPT ![t] = 0]
    /\ ReleaseLock(t)
    /\ UNCHANGED callbacks

\* Mutant: the lock is kept.
CleanupKeepsLock(t) ==
    /\ sqlite' = [sqlite EXCEPT ![t] = "none"]
    /\ step' = [step EXCEPT ![t] = "none"]
    /\ tasks' = Tail(tasks)
    /\ UNCHANGED <<callbacks, lockVars>>

CleanupAfterSuccess(t) ==
    /\ sqlite' = [sqlite EXCEPT ![t] = "none"]
    /\ ReleaseLock(t)
    /\ UNCHANGED callbacks

\* handleTransactionError, with left statements and the connections conn.
HandleTransactionError(t, left, conn) ==
    \/ /\ ScheduleCallback(t, "deliverTransactionErrorCallback")
       /\ statements' = [statements EXCEPT ![t] = left]
       /\ connection' = conn
       /\ UNCHANGED sqlite
    \/ CleanupAfterError(t)

\* SQLite lets t begin.
CanBegin(t) ==
    /\ connection[DatabaseOf[t]] = None
    /\ \A d \in Databases : t \in Writers => connection[d] \notin Writers

\* openTransactionAndPreflight: the database was deleted, or SQLite does not
\* begin; or the preflight of a changeVersion fails, and what was begun is
\* rolled back; or the page's callback is next.
OpenTransactionAndPreflight(t) ==
    /\ \/ /\ \/ DatabaseOf[t] \in deleted /\ UNCHANGED failures
             \/ DatabaseOf[t] \notin deleted /\ ~CanBegin(t) /\ UNCHANGED failures
             \/ DatabaseOf[t] \notin deleted /\ Fail
          /\ HandleTransactionError(t, statements[t], connection)
       \/ /\ DatabaseOf[t] \notin deleted /\ CanBegin(t)
          /\ connection' = [connection EXCEPT ![DatabaseOf[t]] = t]
          /\ sqlite' = [sqlite EXCEPT ![t] = "inProgress"]
          /\ ScheduleCallback(t, "deliverTransactionCallback")
          /\ UNCHANGED <<statements, failures>>
    /\ UNCHANGED <<current, committed>>

\* handleCurrentStatementError: the statement's own callback, unless it has none
\* (left) or SQLite rolled the transaction back.
HandleCurrentStatementError(t, state, left, conn) ==
    \/ /\ state # "handled" /\ conn[DatabaseOf[t]] = t
       /\ current' = [current EXCEPT ![t] = state]
       /\ ScheduleCallback(t, "deliverStatementCallback")
       /\ statements' = [statements EXCEPT ![t] = left]
       /\ connection' = conn
       /\ UNCHANGED sqlite
    \/ /\ current' = [current EXCEPT ![t] = "none"]
       /\ HandleTransactionError(t, left, conn)

\* Mutant: the postflight comes after the commit.
CommitBeforePostflight(t) ==
    /\ current' = [current EXCEPT ![t] = "none"]
    /\ \/ /\ Fail
          /\ connection[DatabaseOf[t]] = t
          /\ HandleTransactionError(t, 0, RolledBack(t))
          /\ committed' = committed \cup {t}
       \/ /\ connection[DatabaseOf[t]] # t /\ UNCHANGED <<committed, failures>>
          /\ HandleTransactionError(t, 0, connection)
       \/ /\ connection[DatabaseOf[t]] = t
          /\ connection' = RolledBack(t)
          /\ committed' = committed \cup {t}
          /\ statements' = [statements EXCEPT ![t] = 0]
          /\ \/ /\ ScheduleCallback(t, "deliverSuccessCallback")
                /\ sqlite' = [sqlite EXCEPT ![t] = "ended"]
             \/ CleanupAfterSuccess(t)
          /\ UNCHANGED failures

\* postflightAndCommit, when no statement is left: the postflight of a
\* changeVersion or the commit fails, or the transaction is committed.
PostflightAndCommit(t) ==
    /\ current' = [current EXCEPT ![t] = "none"]
    /\ \/ /\ Fail \/ (connection[DatabaseOf[t]] # t /\ UNCHANGED failures)
          /\ HandleTransactionError(t, 0, connection)
          /\ UNCHANGED committed
       \/ /\ connection[DatabaseOf[t]] = t
          /\ connection' = RolledBack(t)
          /\ committed' = committed \cup {t}
          /\ statements' = [statements EXCEPT ![t] = 0]
          /\ \/ /\ ScheduleCallback(t, "deliverSuccessCallback")
                /\ sqlite' = [sqlite EXCEPT ![t] = "ended"]
             \/ CleanupAfterSuccess(t)
          /\ UNCHANGED failures

\* runCurrentStatement for the last one the loop runs, with left to come: it
\* succeeded and has a callback, or exceeded the quota, or failed; SQLite may
\* have rolled the transaction back in either case.
StatementNeedsCallback(t, left) ==
    \/ /\ DatabaseOf[t] \in opened
       /\ current' = [current EXCEPT ![t] = "done"]
       /\ ScheduleCallback(t, "deliverStatementCallback")
       /\ statements' = [statements EXCEPT ![t] = left]
       /\ UNCHANGED <<connection, sqlite, failures>>
    \/ /\ DatabaseOf[t] \in opened /\ t \in Writers /\ Fail
       /\ current' = [current EXCEPT ![t] = "failed"]
       /\ ScheduleCallback(t, "deliverQuotaIncreaseCallback")
       /\ statements' = [statements EXCEPT ![t] = left]
       /\ connection' \in {connection, RolledBack(t)}
       /\ UNCHANGED sqlite
    \/ /\ \E conn \in {connection, RolledBack(t)} :
             HandleCurrentStatementError(t, "done", left, conn)
       /\ UNCHANGED failures

\* Whether the statement that failed for the quota is run again.
Retries(t) == current[t] = "raised" /\ connection[DatabaseOf[t]] = t

\* runStatements: a failure for the quota that is not retried is an error;
\* otherwise the loop runs statements until one needs a callback, or none is
\* left.  On a closed database every statement fails.
RunStatements(t) ==
    LET todo == statements[t] + (IF Retries(t) THEN 1 ELSE 0) IN
    \/ /\ current[t] \in {"failed", "raised", "handled"} /\ ~Retries(t)
       /\ HandleCurrentStatementError(t, current[t], statements[t], connection)
       /\ UNCHANGED <<committed, failures>>
    \/ /\ current[t] \in {"none", "done"} \/ Retries(t)
       /\ \/ /\ \E left \in 0..(todo - 1) :
                   /\ DatabaseOf[t] \in opened \/ left = todo - 1
                   /\ StatementNeedsCallback(t, left)
             /\ UNCHANGED committed
          \/ /\ DatabaseOf[t] \in opened \/ todo = 0
             /\ PostflightAndCommit(t)

\* checkAndHandleClosedDatabase on the database thread: SQLiteTransaction::stop
\* leaves what SQLite has open to the closing of the database.
HandleClosedDatabase(t) ==
    /\ statements' = [statements EXCEPT ![t] = 0]
    /\ sqlite' = [sqlite EXCEPT ![t] = "none"]
    /\ IF t \in lockAcquired
       THEN ReleaseLock(t)
       ELSE /\ step' = [step EXCEPT ![t] = "none"]
            /\ tasks' = Tail(tasks)
            /\ UNCHANGED lockVars
    /\ UNCHANGED <<callbacks, connection, current, committed, failures>>

\* A DatabaseTransactionTask; when no step is left (step'[t]), the next
\* transaction is due.
PerformNextStep(t) ==
    /\ thread = "waiting" /\ ~killed
    /\ tasks # <<>> /\ Head(tasks) = Step(t)
    /\ \/ DatabaseOf[t] \in stopped /\ HandleClosedDatabase(t)
       \/ /\ DatabaseOf[t] \notin stopped
          /\ \/ /\ step[t] = "acquireLock" /\ AcquireLock(t)
                /\ UNCHANGED <<callbacks, connection, sqlite, statements, current, committed,
                               failures>>
             \/ step[t] = "openTransactionAndPreflight" /\ OpenTransactionAndPreflight(t)
             \/ step[t] = "runStatements" /\ RunStatements(t)
             \/ /\ step[t] = "cleanupAfterSuccessCallback" /\ CleanupAfterSuccess(t)
                /\ UNCHANGED <<connection, statements, current, committed, failures>>
             \/ /\ step[t] = "cleanupAfterTransactionErrorCallback" /\ CleanupAfterError(t)
                /\ UNCHANGED <<current, committed, failures>>
    /\ IF step'[t] = "none" THEN thread' = "next" /\ running' = t
                            ELSE UNCHANGED threadVars
    /\ UNCHANGED <<contextVars, handleVars, queueVars, asked>>

\* Mutant: the next transaction is left to the page.
ScheduleNextForgets ==
    /\ thread = "next"
    /\ inProgress' = [inProgress EXCEPT ![DatabaseOf[running]] = FALSE]
    /\ thread' = "waiting" /\ running' = None
    /\ UNCHANGED <<contextVars, callbacks, handleVars, transactionQueue, connection, step,
                   statementVars, lockVars, sqlite, tasks, historyVars>>

ScheduleNext ==
    /\ thread = "next"
    /\ ScheduleTransaction(DatabaseOf[running], tasks)
    /\ thread' = "waiting" /\ running' = None
    /\ UNCHANGED <<contextVars, callbacks, handleVars, connection, step, statementVars, lockVars,
                   sqlite, historyVars>>

-----------------------------------------------------------------------------
(* The other tasks of the database thread, and its end.                    *)

PerformOpen(d) ==
    /\ thread = "waiting" /\ ~killed
    /\ tasks # <<>> /\ Head(tasks) = Open(d)
    /\ \/ opened' = opened \cup {d} /\ UNCHANGED failures
       \/ Fail /\ UNCHANGED opened
    /\ tasks' = Tail(tasks)
    /\ doing' = "openReturns"
    /\ UNCHANGED <<handle, doomed, registered, killed, callbacks, deleted, stopped, queueVars,
                   connection, step, statementVars, lockVars, sqlite, threadVars, committed>>

\* Database::close; sqlite3_close rolls back what is open.
PerformClose(d) ==
    /\ thread = "waiting" /\ ~killed
    /\ tasks # <<>> /\ Head(tasks) = Close(d)
    /\ opened' = opened \ {d}
    /\ connection' = [connection EXCEPT ![d] = None]
    /\ UnscheduleDatabaseTasks({d})
    /\ doing' = "closeReturns"
    /\ UNCHANGED <<handle, doomed, registered, killed, callbacks, deleted, stopped, queueVars, step,
                   statementVars, lockVars, sqlite, threadVars, historyVars>>

\* Mutant: only the active writer is notified.
ShutdownOfWriter ==
    /\ thread = "waiting" /\ killed
    /\ connection' = [d \in Databases |->
                        IF connection[d] = writer THEN None ELSE connection[d]]
    /\ sqlite' = [t \in Transactions |-> IF t = writer THEN "none" ELSE sqlite[t]]
    /\ pending' = <<>> /\ readers' = {} /\ writer' = None
    /\ thread' = "closing"
    /\ UNCHANGED <<contextVars, callbacks, handleVars, queueVars, step, statementVars, lockAcquired,
                   tasks, running, historyVars>>

\* SQLTransactionCoordinator::shutdown.
Shutdown ==
    /\ thread = "waiting" /\ killed
    /\ connection' = [d \in Databases |->
                        IF connection[d] \in {t \in Active : sqlite[t] = "inProgress"}
                        THEN None ELSE connection[d]]
    /\ sqlite' = [t \in Transactions |-> IF t \in Active THEN "none" ELSE sqlite[t]]
    /\ pending' = <<>> /\ readers' = {} /\ writer' = None
    /\ thread' = "closing"
    /\ UNCHANGED <<contextVars, callbacks, handleVars, queueVars, step, statementVars, lockAcquired,
                   tasks, running, historyVars>>

\* The thread closes the databases that are open, and ends.
CloseDatabases ==
    /\ thread = "closing"
    /\ opened' = {}
    /\ connection' = [d \in Databases |-> IF d \in opened THEN None ELSE connection[d]]
    /\ UnscheduleDatabaseTasks(opened)
    /\ thread' = "ended"
    /\ UNCHANGED <<contextVars, callbacks, deleted, stopped, queueVars, step, statementVars,
                   lockVars, sqlite, running, historyVars>>

-----------------------------------------------------------------------------
ContextThread ==
    \/ \E d \in Databases : OpenDatabase(d) \/ MarkAsDeleted(d) \/ Stop(d)
    \/ \E t \in Transactions : Transaction(t) \/ PerformPendingCallback(t)
    \/ OpenReturns \/ Submit \/ DeleteDatabaseFile \/ ScheduleClose \/ CloseReturns
    \/ Unschedule \/ RequestTermination

DatabaseThread ==
    \/ \E t \in Transactions : PerformNextStep(t)
    \/ \E d \in Databases : PerformOpen(d) \/ PerformClose(d)
    \/ ScheduleNext \/ Shutdown \/ CloseDatabases

Next == ContextThread \/ DatabaseThread

\* What the context's thread has begun it goes on with, and its event loop runs;
\* whether the page opens, deletes and starts anything is up to it.
ContextGoesOn ==
    \/ OpenReturns \/ Submit \/ ScheduleClose \/ CloseReturns \/ Unschedule
    \/ \E d \in Databases : MarkAsDeleted(d)
    \/ doing = "stopping" /\ (RequestTermination \/ \E d \in Databases : Stop(d))

Spec ==
    /\ Init /\ [][Next]_vars
    /\ WF_vars(ContextGoesOn)
    /\ WF_vars(\E t \in Transactions : PerformPendingCallback(t))
    /\ WF_vars(DatabaseThread)

-----------------------------------------------------------------------------
(* Properties.                                                             *)

\* The transaction whose turn it is finds no other open on the file that it
\* would conflict with, through whichever handle (SQLTransactionCoordinator);
\* only when databases are stopped is the turn passed on before SQLite is done.
Conflict(t, u) == t # u /\ {t, u} \cap Writers # {}

TurnFindsFileFree ==
    \A t \in Active : \A d \in Databases \ stopped :
        connection[d] # None => ~Conflict(t, connection[d])

\* A transaction is in one queue at a time, once, and in that of the thread its
\* next step belongs to (the assertions of performNextStep, SQLTransaction.cpp:180,
\* and performPendingCallback, :200).
OneStepAtATime ==
    LET steps == {i \in DOMAIN tasks : tasks[i].kind = "step"} IN
    /\ \A i \in steps : step[tasks[i].of] \in ThreadSteps
    /\ \A i, j \in steps : tasks[i] = tasks[j] => i = j
    /\ \A i \in DOMAIN callbacks : step[callbacks[i]] \in ContextSteps
    /\ \A i, j \in DOMAIN callbacks : callbacks[i] = callbacks[j] => i = j

\* The page is told of success only if the transaction is in the file, whole,
\* and of an error only if it is not.
AnswersAreTrue ==
    \A t \in Transactions :
        /\ step[t] = "deliverSuccessCallback" => t \in committed
        /\ step[t] \in {"deliverTransactionErrorCallback", "cleanupAfterTransactionErrorCallback"}
             => t \notin committed
        /\ t \in committed => statements[t] = 0 /\ current[t] = "none"

\* A step of t is queued on either thread, or t waits for the lock that another
\* has, or it has just ended and the thread is about to schedule the next.
Proceeds(t) ==
    \/ \E i \in 1..Len(tasks) : tasks[i] = Step(t)
    \/ \E i \in 1..Len(callbacks) : callbacks[i] = t
    \/ Active # {} /\ \E i \in 1..Len(pending) : pending[i] = t
    \/ running = t

\* A transaction that waits in m_transactionQueue is about to be submitted
\* (Database::transaction appends without the mutex), or another of its handle
\* still proceeds, at whose end it is scheduled.  Not so for a handle that is
\* stopped or deleted: what was in progress there may have been unscheduled, with
\* m_transactionInProgress left set for ever (Database.cpp:384 and :449).
NothingStranded ==
    \A d \in Databases \ (stopped \cup deleted) :
        transactionQueue[d] # <<>> =>
            \/ doing = "submitting" /\ handle = d
            \/ \E t \in Transactions : DatabaseOf[t] = d /\ Proceeds(t)

\* When the database thread has ended every transaction is rolled back and every
\* database closed (DatabaseThread.cpp:107, and the assertion of ~SQLTransaction).
EndLeavesNothingOpen ==
    thread = "ended" =>
        /\ \A d \in Databases : connection[d] = None
        /\ \A t \in Transactions : sqlite[t] # "inProgress"

\* Every transaction that is started comes to its end, unless the databases are
\* stopped, its own is deleted, or one of a deleted database has the lock, which
\* the unscheduled step of that one would have released (Database.cpp:449).
EveryTransactionEnds ==
    \A t \in Transactions :
        step[t] = "acquireLock" ~>
            \/ step[t] = "none"
            \/ stopped # {} \/ killed
            \/ DatabaseOf[t] \in deleted
            \/ \E u \in Active : DatabaseOf[u] \in deleted

\* The context's thread, which waits for the database thread to open and close
\* databases, does not wait for ever (waitForTaskCompletion).
ContextReturns == doing # "nothing" ~> doing = "nothing"

(***************************************************************************)
(* What the page relies on, with threads, coordinator and handles gone.    *)
(***************************************************************************)
PhaseOf(s) ==
    CASE s = "uncreated" -> "uncreated"
      [] s = "acquireLock" -> "waiting"
      [] s \in {"deliverSuccessCallback", "cleanupAfterSuccessCallback"} -> "succeeded"
      [] s \in {"deliverTransactionErrorCallback", "cleanupAfterTransactionErrorCallback"} -> "failed"
      [] s = "none" -> "over"
      [] OTHER -> "active"

File == INSTANCE SerialTransactions
        WITH phase <- [t \in Transactions |-> PhaseOf(step[t])],
             unfinished <- {t \in Transactions : statements[t] # 0 \/ current[t] # "none"},
             open <- {connection[d] : d \in Databases} \ {None}

Serial == File!Spec

=============================================================================
