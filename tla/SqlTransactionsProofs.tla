------------------------ MODULE SqlTransactionsProofs ------------------------
(***************************************************************************)
(* Proofs about SqlTransactions, for any handles and transactions and any  *)
(* number of statements and failures: its invariants, and that the page is *)
(* served the way SerialTransactions says.                                 *)
(***************************************************************************)
EXTENDS SqlTransactions, QueueFacts, TLAPS, FiniteSetTheorems, SequenceTheorems

\* What unscheduleDatabaseTasks leaves is the queue of the tasks of other databases.
LEMMA UnscheduleIn ==
    ASSUME TypeOK, NEW D, UnscheduleDatabaseTasks(D)
    PROVE  /\ tasks' \in Seq(Tasks)
           /\ \A x \in In(tasks') : x \in In(tasks) /\ TaskDatabase(x) \notin D
           /\ \A x \in In(tasks) : TaskDatabase(x) \notin D => x \in In(tasks')
           /\ Once(tasks) => Once(tasks')
<1> DEFINE kept == {i \in 1..Len(tasks) : TaskDatabase(tasks[i]) \notin D}
           n == Cardinality(kept)
<1>1. tasks \in Seq(Tasks) /\ Len(tasks) \in Nat /\ IsFiniteSet(1..Len(tasks))
  BY FS_Interval DEF TypeOK
<1>2. kept \subseteq 1..Len(tasks)
  OBVIOUS
<1>3. n \in Nat
  BY <1>1, <1>2, FS_Subset, FS_CardinalityType
<1>4. PICK f \in [1..n -> kept] :
         /\ \A i, j \in DOMAIN f : i < j => f[i] < f[j]
         /\ tasks' = [i \in 1..n |-> tasks[f[i]]]
  BY DEF UnscheduleDatabaseTasks
<1> HIDE DEF n
<1>5. \A i \in 1..n : /\ f[i] \in 1..Len(tasks)
                      /\ tasks[f[i]] \in Tasks
                      /\ TaskDatabase(tasks[f[i]]) \notin D
  BY <1>1, <1>4
<1>6. tasks' \in Seq(Tasks) /\ Len(tasks') = n /\ \A i \in 1..n : tasks'[i] = tasks[f[i]]
  BY <1>3, <1>4, <1>5
<1>7. \A x \in In(tasks') : x \in In(tasks) /\ TaskDatabase(x) \notin D
  BY <1>5, <1>6 DEF In
<1>8. ASSUME Once(tasks)
      PROVE  Once(tasks')
  <2> SUFFICES ASSUME NEW i \in 1..n, NEW j \in 1..n, tasks'[i] = tasks'[j]
               PROVE  i = j
    BY <1>6 DEF Once
  <2>1. f[i] = f[j]
    BY <1>5, <1>6, <1>8 DEF Once
  <2> QED
    BY <1>3, <1>4, <1>5, <2>1
<1>9. ASSUME NEW x \in In(tasks), TaskDatabase(x) \notin D
      PROVE  x \in In(tasks')
  <2>1. PICK k \in kept : tasks[k] = x
    BY <1>9 DEF In
  <2>2. f \in Injection(1..n, kept)
    <3>1. \A i, j \in 1..n : f[i] = f[j] => i = j
      BY <1>3, <1>4, <1>5
    <3> QED
      BY <1>4, <3>1 DEF Injection, IsInjective
  <2>3. IsFiniteSet(kept)
    BY <1>1, <1>2, FS_Subset
  <2>4. Cardinality(1..n) = n
    BY <1>3, FS_Interval
  <2>5. Cardinality(1..n) = Cardinality(kept)
    BY <2>4 DEF n
  <2> HIDE DEF kept
  <2>6. f \in Surjection(1..n, kept)
    BY <2>2, <2>3, <2>5, FS_Injection
  <2>7. PICK i \in 1..n : f[i] = k
    BY <2>1, <2>6 DEF Surjection
  <2> QED
    BY <1>6, <2>1, <2>7 DEF In
<1> QED
  BY <1>6, <1>7, <1>8, <1>9

\* The tasks of the first n of p, the last of them first.
LEMMA GrantedIn ==
    ASSUME NEW p \in Seq(Transactions), NEW n \in 0..Len(p)
    PROVE  LET g == [i \in 1..n |-> Step(p[n + 1 - i])] IN
           /\ g \in Seq(Tasks)
           /\ In(g) = {Step(p[i]) : i \in 1..n}
           /\ Once(p) => Once(g)
<1> DEFINE g == [i \in 1..n |-> Step(p[n + 1 - i])]
<1>1. Len(p) \in Nat /\ \A i \in 1..Len(p) : p[i] \in Transactions
  BY ElementOfSeq, LenProperties
<1>2. \A i \in 1..n : n + 1 - i \in 1..n /\ n + 1 - i \in 1..Len(p) /\ n + 1 - (n + 1 - i) = i
  BY <1>1
<1>3. \A i \in 1..n : Step(p[n + 1 - i]) \in Tasks
  BY <1>1, <1>2 DEF Step, Tasks
<1>4. g \in Seq(Tasks) /\ Len(g) = n /\ \A i \in 1..n : g[i] = Step(p[n + 1 - i])
  BY <1>1, <1>3
<1> HIDE DEF g
<1>5. In(g) = {Step(p[i]) : i \in 1..n}
  <2>1. ASSUME NEW i \in 1..n PROVE Step(p[i]) \in In(g)
    <3>1. g[n + 1 - i] = Step(p[n + 1 - (n + 1 - i)])
      BY <1>2, <1>4
    <3> QED
      BY <1>2, <1>4, <3>1 DEF In
  <2>2. ASSUME NEW i \in 1..n PROVE g[i] \in {Step(p[j]) : j \in 1..n}
    BY <1>2, <1>4
  <2> QED
    BY <1>4, <2>1, <2>2 DEF In
<1>6. ASSUME Once(p)
      PROVE  Once(g)
  <2> SUFFICES ASSUME NEW i \in 1..n, NEW j \in 1..n, g[i] = g[j]
               PROVE  i = j
    BY <1>4 DEF Once
  <2>1. p[n + 1 - i] = p[n + 1 - j]
    BY <1>4 DEF Step
  <2>2. n + 1 - i = n + 1 - j
    BY <1>2, <1>6, <2>1 DEF Once
  <2> QED
    BY <1>1, <2>2
<1> QED
  BY <1>4, <1>5, <1>6 DEF g

-----------------------------------------------------------------------------
(* Type correctness. *)

Steps == ThreadSteps \cup ContextSteps \cup {"uncreated", "none"}

\* The types of what a step of a transaction moves, and of what it changes.
QueuesOK ==
    /\ callbacks \in Seq(Transactions) /\ pending \in Seq(Transactions)
    /\ tasks \in Seq(Tasks)
    /\ step \in [Transactions -> Steps]
    /\ lockAcquired \subseteq Transactions /\ readers \subseteq Transactions
    /\ writer \in Transactions \cup {None}

DataOK ==
    /\ connection \in [Databases -> Transactions \cup {None}]
    /\ sqlite \in [Transactions -> {"none", "inProgress", "ended"}]
    /\ statements \in [Transactions -> Nat]
    /\ current \in [Transactions -> {"none", "done", "failed", "raised", "handled"}]
    /\ committed \subseteq Transactions
    /\ failures \in 0..MaxFailures

LEMMA TypeParts == TypeOK => QueuesOK /\ DataOK
  BY DEF TypeOK, QueuesOK, DataOK, Steps

LEMMA ScheduleCallbackType ==
    ASSUME TypeOK, NEW t \in Transactions, tasks # <<>>, NEW s \in ContextSteps,
           ScheduleCallback(t, s)
    PROVE  QueuesOK'
<1>1. Tail(tasks) \in Seq(Tasks)
  BY HeadTailIn DEF TypeOK
<1>2. Append(callbacks, t) \in Seq(Transactions)
  BY AppendIn DEF TypeOK
<1> QED
  BY <1>1, <1>2 DEF ScheduleCallback, TypeOK, QueuesOK, Steps, lockVars

LEMMA ProcessPendingType ==
    ASSUME TypeOK, NEW t \in Transactions, tasks # <<>>, NEW s \in Steps,
           NEW p \in Seq(Transactions), NEW rs \in SUBSET Transactions,
           NEW w \in Transactions \cup {None},
           ProcessPendingTransactions(t, s, p, rs, w), callbacks' = callbacks
    PROVE  QueuesOK'
<1> DEFINE granted(n) == {p[i] : i \in 1..n}
<1>1. Len(p) \in Nat /\ \A i \in 1..Len(p) : p[i] \in Transactions
  BY ElementOfSeq, LenProperties
<1>2. PICK n \in 0..Len(p) :
        /\ Turn(n, p, rs, w)
        /\ pending' = SubSeq(p, n + 1, Len(p))
        /\ readers' = rs \cup (granted(n) \cap ReadOnly)
        /\ writer' = IF granted(n) \cap Writers = {} THEN w ELSE p[1]
        /\ lockAcquired' = lockAcquired \cup granted(n)
        /\ step' = [u \in Transactions |->
                      IF u \in granted(n) THEN "openTransactionAndPreflight"
                      ELSE IF u = t THEN s ELSE step[u]]
        /\ tasks' = [i \in 1..n |-> Step(p[n + 1 - i])] \o Tail(tasks)
  BY DEF ProcessPendingTransactions
<1>3. granted(n) \subseteq Transactions
  BY <1>1
<1>4. writer' \in Transactions \cup {None}
  BY <1>1, <1>2
<1>5. pending' \in Seq(Transactions)
  BY <1>2, SplitIn
<1>6. tasks' \in Seq(Tasks)
  <2>1. Tail(tasks) \in Seq(Tasks)
    BY HeadTailIn DEF TypeOK
  <2>2. [i \in 1..n |-> Step(p[n + 1 - i])] \in Seq(Tasks)
    BY GrantedIn
  <2> QED
    BY <1>2, <2>1, <2>2, ConcatIn
<1>7. step' \in [Transactions -> Steps]
  BY <1>2 DEF TypeOK, Steps, ThreadSteps
<1>8. lockAcquired' \subseteq Transactions /\ readers' \subseteq Transactions
  BY <1>2, <1>3 DEF TypeOK
<1> QED
  BY <1>4, <1>5, <1>6, <1>7, <1>8 DEF TypeOK, QueuesOK

LEMMA AcquireLockType ==
    ASSUME TypeOK, NEW t \in Transactions, tasks # <<>>, AcquireLock(t), callbacks' = callbacks
    PROVE  QueuesOK'
<1>1. Append(pending, t) \in Seq(Transactions)
  BY AppendIn DEF TypeOK
<1>2. /\ "acquireLock" \in Steps /\ readers \in SUBSET Transactions
      /\ writer \in Transactions \cup {None}
  BY DEF TypeOK, Steps, ThreadSteps
<1> QED
  BY <1>1, <1>2, ProcessPendingType DEF AcquireLock

LEMMA ReleaseLockType ==
    ASSUME TypeOK, NEW t \in Transactions, tasks # <<>>, ReleaseLock(t), callbacks' = callbacks
    PROVE  QueuesOK'
<1>1. /\ "none" \in Steps /\ readers \in SUBSET Transactions
      /\ readers \ {t} \in SUBSET Transactions
      /\ writer \in Transactions \cup {None} /\ None \in Transactions \cup {None}
      /\ pending \in Seq(Transactions)
  BY DEF TypeOK, Steps
<1>2. CASE t \in ReadOnly
  BY <1>1, <1>2, ProcessPendingType DEF ReleaseLock
<1>3. CASE t \notin ReadOnly
  BY <1>1, <1>3, ProcessPendingType DEF ReleaseLock
<1> QED
  BY <1>2, <1>3

LEMMA RolledBackType ==
    ASSUME TypeOK, NEW t \in Transactions
    PROVE  RolledBack(t) \in [Databases -> Transactions \cup {None}]
  BY HandleAssumption DEF TypeOK, RolledBack

LEMMA CleanupAfterErrorType ==
    ASSUME TypeOK, NEW t \in Transactions, tasks # <<>>, CleanupAfterError(t),
           UNCHANGED <<current, committed>>, failures' \in 0..MaxFailures
    PROVE  QueuesOK' /\ DataOK'
<1>1. QueuesOK'
  BY ReleaseLockType DEF CleanupAfterError
<1>2. DataOK'
  BY RolledBackType DEF CleanupAfterError, TypeOK, DataOK
<1> QED
  BY <1>1, <1>2

LEMMA HandleTransactionErrorType ==
    ASSUME TypeOK, NEW t \in Transactions, tasks # <<>>, NEW left \in Nat,
           NEW conn \in [Databases -> Transactions \cup {None}],
           HandleTransactionError(t, left, conn)
    PROVE  /\ QueuesOK'
           /\ connection' \in [Databases -> Transactions \cup {None}]
           /\ sqlite' \in [Transactions -> {"none", "inProgress", "ended"}]
           /\ statements' \in [Transactions -> Nat]
<1>1. CASE CleanupAfterError(t)
  <2>1. QueuesOK'
    BY <1>1, ReleaseLockType DEF CleanupAfterError
  <2> QED
    BY <1>1, <2>1, RolledBackType DEF CleanupAfterError, TypeOK
<1>2. CASE ~CleanupAfterError(t)
  <2>1. /\ ScheduleCallback(t, "deliverTransactionErrorCallback")
        /\ statements' = [statements EXCEPT ![t] = left]
        /\ connection' = conn /\ sqlite' = sqlite
    BY <1>2 DEF HandleTransactionError
  <2>2. "deliverTransactionErrorCallback" \in ContextSteps
    BY DEF ContextSteps
  <2>3. QueuesOK'
    BY <2>1, <2>2, ScheduleCallbackType
  <2> QED
    BY <2>1, <2>3 DEF TypeOK
<1> QED
  BY <1>1, <1>2

LEMMA OpenTransactionType ==
    ASSUME TypeOK, NEW t \in Transactions, tasks # <<>>, OpenTransactionAndPreflight(t)
    PROVE  QueuesOK' /\ DataOK'
<1>0. failures' \in 0..MaxFailures
  BY BoundAssumption DEF OpenTransactionAndPreflight, TypeOK, Fail
<1>1. CASE HandleTransactionError(t, statements[t], connection)
  <2>1. statements[t] \in Nat /\ connection \in [Databases -> Transactions \cup {None}]
    BY DEF TypeOK
  <2>2. /\ QueuesOK'
        /\ connection' \in [Databases -> Transactions \cup {None}]
        /\ sqlite' \in [Transactions -> {"none", "inProgress", "ended"}]
        /\ statements' \in [Transactions -> Nat]
    BY <1>1, <2>1, HandleTransactionErrorType
  <2> QED
    BY <1>0, <2>2 DEF OpenTransactionAndPreflight, TypeOK, DataOK
<1>2. CASE ~HandleTransactionError(t, statements[t], connection)
  <2>1. /\ connection' = [connection EXCEPT ![DatabaseOf[t]] = t]
        /\ sqlite' = [sqlite EXCEPT ![t] = "inProgress"]
        /\ ScheduleCallback(t, "deliverTransactionCallback")
        /\ UNCHANGED <<statements, current, committed>>
    BY <1>2 DEF OpenTransactionAndPreflight
  <2>2. QueuesOK'
    BY <2>1, ScheduleCallbackType DEF ContextSteps
  <2> QED
    BY <1>0, <2>1, <2>2, HandleAssumption DEF TypeOK, DataOK
<1> QED
  BY <1>1, <1>2

LEMMA HandleStatementErrorType ==
    ASSUME TypeOK, NEW t \in Transactions, tasks # <<>>, NEW left \in Nat,
           NEW state \in {"none", "done", "failed", "raised", "handled"},
           NEW conn \in [Databases -> Transactions \cup {None}],
           HandleCurrentStatementError(t, state, left, conn),
           UNCHANGED <<committed, failures>>
    PROVE  QueuesOK' /\ DataOK'
<1>0. current' \in [Transactions -> {"none", "done", "failed", "raised", "handled"}]
  BY DEF HandleCurrentStatementError, TypeOK
<1>1. CASE HandleTransactionError(t, left, conn)
  <2>1. /\ QueuesOK'
        /\ connection' \in [Databases -> Transactions \cup {None}]
        /\ sqlite' \in [Transactions -> {"none", "inProgress", "ended"}]
        /\ statements' \in [Transactions -> Nat]
    BY <1>1, HandleTransactionErrorType
  <2> QED
    BY <1>0, <2>1 DEF TypeOK, DataOK
<1>2. CASE ~HandleTransactionError(t, left, conn)
  <2>1. /\ ScheduleCallback(t, "deliverStatementCallback")
        /\ statements' = [statements EXCEPT ![t] = left]
        /\ connection' = conn /\ sqlite' = sqlite
    BY <1>2 DEF HandleCurrentStatementError
  <2>2. QueuesOK'
    BY <2>1, ScheduleCallbackType DEF ContextSteps
  <2> QED
    BY <1>0, <2>1, <2>2 DEF TypeOK, DataOK
<1> QED
  BY <1>1, <1>2

LEMMA PostflightAndCommitType ==
    ASSUME TypeOK, NEW t \in Transactions, tasks # <<>>, PostflightAndCommit(t)
    PROVE  QueuesOK' /\ DataOK'
<1>a. failures' \in 0..MaxFailures
  <2>1. failures \in 0..MaxFailures /\ MaxFailures \in Nat
    BY BoundAssumption DEF TypeOK
  <2>2. failures' = failures \/ (failures < MaxFailures /\ failures' = failures + 1)
    BY DEF PostflightAndCommit, Fail
  <2> QED
    BY <2>1, <2>2
<1>b. current' \in [Transactions -> {"none", "done", "failed", "raised", "handled"}]
  BY DEF PostflightAndCommit, TypeOK
<1>c. committed' \subseteq Transactions
  BY DEF PostflightAndCommit, TypeOK
<1>0. /\ failures' \in 0..MaxFailures
      /\ current' \in [Transactions -> {"none", "done", "failed", "raised", "handled"}]
      /\ committed' \subseteq Transactions
  BY <1>a, <1>b, <1>c
<1>1. CASE HandleTransactionError(t, 0, connection)
  <2>1. 0 \in Nat /\ connection \in [Databases -> Transactions \cup {None}]
    BY DEF TypeOK
  <2>2. /\ QueuesOK'
        /\ connection' \in [Databases -> Transactions \cup {None}]
        /\ sqlite' \in [Transactions -> {"none", "inProgress", "ended"}]
        /\ statements' \in [Transactions -> Nat]
    BY <1>1, <2>1, HandleTransactionErrorType
  <2> QED
    BY <1>0, <2>2 DEF DataOK
<1>2. CASE ~HandleTransactionError(t, 0, connection)
  <2>1. /\ connection' = RolledBack(t)
        /\ statements' = [statements EXCEPT ![t] = 0]
        /\ \/ /\ ScheduleCallback(t, "deliverSuccessCallback")
              /\ sqlite' = [sqlite EXCEPT ![t] = "ended"]
           \/ CleanupAfterSuccess(t)
    BY <1>2 DEF PostflightAndCommit
  <2>2. QueuesOK'
    BY <2>1, ScheduleCallbackType, ReleaseLockType DEF ContextSteps, CleanupAfterSuccess
  <2>3. sqlite' \in [Transactions -> {"none", "inProgress", "ended"}]
    BY <2>1 DEF CleanupAfterSuccess, TypeOK
  <2> QED
    BY <1>0, <2>1, <2>2, <2>3, RolledBackType DEF TypeOK, DataOK
<1> QED
  BY <1>1, <1>2

LEMMA RunStatementsType ==
    ASSUME TypeOK, NEW t \in Transactions, tasks # <<>>, RunStatements(t)
    PROVE  QueuesOK' /\ DataOK'
<1> DEFINE todo == statements[t] + (IF Retries(t) THEN 1 ELSE 0)
           Connections == [Databases -> Transactions \cup {None}]
<1>0. /\ statements[t] \in Nat /\ todo \in Nat /\ connection \in Connections
      /\ RolledBack(t) \in Connections
      /\ current[t] \in {"none", "done", "failed", "raised", "handled"}
  BY RolledBackType DEF TypeOK
<1>1. CASE /\ HandleCurrentStatementError(t, current[t], statements[t], connection)
           /\ UNCHANGED <<committed, failures>>
  BY <1>0, <1>1, HandleStatementErrorType
<1>2. CASE PostflightAndCommit(t)
  BY <1>2, PostflightAndCommitType
<1>3. ASSUME NEW left \in 0..(todo - 1), StatementNeedsCallback(t, left), committed' = committed
      PROVE  QueuesOK' /\ DataOK'
  <2>0. left \in Nat
    BY <1>0
  <2>1. CASE /\ \E conn \in {connection, RolledBack(t)} :
                  HandleCurrentStatementError(t, "done", left, conn)
             /\ UNCHANGED failures
    BY <1>0, <1>3, <2>0, <2>1, HandleStatementErrorType
  <2>2. ASSUME NEW state \in {"done", "failed"},
               NEW s \in {"deliverStatementCallback", "deliverQuotaIncreaseCallback"},
               current' = [current EXCEPT ![t] = state],
               ScheduleCallback(t, s),
               statements' = [statements EXCEPT ![t] = left],
               connection' \in {connection, RolledBack(t)},
               sqlite' = sqlite,
               Fail \/ failures' = failures
        PROVE  QueuesOK' /\ DataOK'
    <3>1. QueuesOK'
      BY <2>2, ScheduleCallbackType DEF ContextSteps
    <3>2. failures' \in 0..MaxFailures
      BY <2>2, BoundAssumption DEF Fail, TypeOK
    <3> QED
      BY <1>0, <1>3, <2>0, <2>2, <3>1, <3>2 DEF TypeOK, DataOK
  <2> QED
    BY <1>3, <2>1, <2>2 DEF StatementNeedsCallback
<1> QED
  BY <1>1, <1>2, <1>3 DEF RunStatements

LEMMA PerformNextStepType ==
    ASSUME TypeOK, NEW t \in Transactions, PerformNextStep(t)
    PROVE  QueuesOK' /\ DataOK'
<1>0. tasks # <<>>
  BY DEF PerformNextStep
<1>1. CASE HandleClosedDatabase(t)
  <2>1. statements' \in [Transactions -> Nat]
        /\ sqlite' \in [Transactions -> {"none", "inProgress", "ended"}]
    BY <1>1 DEF HandleClosedDatabase, TypeOK
  <2>2. CASE t \in lockAcquired
    BY <1>0, <1>1, <2>1, <2>2, ReleaseLockType DEF HandleClosedDatabase, TypeOK, DataOK
  <2>3. CASE t \notin lockAcquired
    <3>1. Tail(tasks) \in Seq(Tasks)
      BY <1>0, HeadTailIn DEF TypeOK
    <3>2. /\ tasks' = Tail(tasks) /\ step' = [step EXCEPT ![t] = "none"]
          /\ UNCHANGED <<callbacks, pending, readers, writer, lockAcquired>>
      BY <1>1, <2>3 DEF HandleClosedDatabase, lockVars
    <3>4. step' \in [Transactions -> Steps]
      BY <3>2 DEF TypeOK, Steps
    <3>5. QueuesOK'
      BY <3>1, <3>2, <3>4 DEF TypeOK, QueuesOK
    <3>3. DataOK'
      BY <1>1, <2>1, <2>3 DEF HandleClosedDatabase, lockVars, TypeOK, DataOK
    <3> QED
      BY <3>3, <3>5
  <2> QED
    BY <2>2, <2>3
<1>2. CASE AcquireLock(t) /\ UNCHANGED <<callbacks, connection, sqlite, statements, current,
                                         committed, failures>>
  BY <1>0, <1>2, AcquireLockType DEF TypeOK, DataOK
<1>3. CASE OpenTransactionAndPreflight(t)
  BY <1>0, <1>3, OpenTransactionType
<1>4. CASE RunStatements(t)
  BY <1>0, <1>4, RunStatementsType
<1>5. CASE CleanupAfterSuccess(t) /\ UNCHANGED <<connection, statements, current, committed,
                                                 failures>>
  BY <1>0, <1>5, ReleaseLockType DEF CleanupAfterSuccess, TypeOK, DataOK
<1>6. CASE CleanupAfterError(t) /\ UNCHANGED <<current, committed, failures>>
  <2>1. failures' \in 0..MaxFailures
    BY <1>6 DEF TypeOK
  <2> QED
    BY <1>0, <1>6, <2>1, CleanupAfterErrorType
<1> QED
  BY <1>1, <1>2, <1>3, <1>4, <1>5, <1>6 DEF PerformNextStep

LEMMA ScheduleTransactionType ==
    ASSUME TypeOK, NEW d \in Databases, ScheduleTransaction(d, tasks)
    PROVE  /\ transactionQueue' \in [Databases -> Seq(Transactions)]
           /\ inProgress' \in [Databases -> BOOLEAN]
           /\ tasks' \in Seq(Tasks)
<1>1. CASE d \notin stopped /\ transactionQueue[d] # <<>>
  <2>1. /\ Head(transactionQueue[d]) \in Transactions
        /\ Tail(transactionQueue[d]) \in Seq(Transactions)
    BY <1>1, HeadTailIn DEF TypeOK
  <2>2. Step(Head(transactionQueue[d])) \in Tasks
    BY <2>1 DEF Step, Tasks
  <2>3. Append(tasks, Step(Head(transactionQueue[d]))) \in Seq(Tasks)
    BY <2>2, AppendIn DEF TypeOK
  <2>4. /\ transactionQueue' = [transactionQueue EXCEPT ![d] = Tail(@)]
        /\ inProgress' = [inProgress EXCEPT ![d] = TRUE]
        /\ tasks' = Append(tasks, Step(Head(transactionQueue[d])))
    BY <1>1, Zenon DEF ScheduleTransaction
  <2>5. transactionQueue' \in [Databases -> Seq(Transactions)]
    BY <2>1, <2>4 DEF TypeOK
  <2>6. inProgress' \in [Databases -> BOOLEAN]
    BY <2>4 DEF TypeOK
  <2> QED
    BY <2>3, <2>4, <2>5, <2>6
<1>2. CASE ~(d \notin stopped /\ transactionQueue[d] # <<>>)
  BY <1>2 DEF ScheduleTransaction, TypeOK
<1> QED
  BY <1>1, <1>2

\* What a callback does to its transaction.
LEMMA PendingCallbackEffect ==
    ASSUME TypeOK, NEW t \in Transactions, PerformPendingCallback(t)
    PROVE  /\ callbacks # <<>> /\ Head(callbacks) = t
           /\ callbacks' = Tail(callbacks)
           /\ \/ /\ DatabaseOf[t] \notin stopped
                 /\ \E s \in ThreadSteps : ScheduleStep(t, s)
              \/ DatabaseOf[t] \in stopped /\ CancelCallback(t)
           /\ statements' \in [Transactions -> Nat]
           /\ asked' \in 0..MaxStatements
           /\ current' \in [Transactions -> {"none", "done", "failed", "raised", "handled"}]
<1> DEFINE States == {"none", "done", "failed", "raised", "handled"}
<1>0. /\ asked \in 0..MaxStatements /\ MaxStatements \in Nat
      /\ statements \in [Transactions -> Nat] /\ current \in [Transactions -> States]
  BY BoundAssumption DEF TypeOK
<1>1. ASSUME ExecuteSQL(t)
      PROVE  statements' \in [Transactions -> Nat] /\ asked' \in 0..MaxStatements
  <2>1. PICK n \in 0..(MaxStatements - asked) :
           statements' = [statements EXCEPT ![t] = @ + n] /\ asked' = asked + n
    BY <1>1 DEF ExecuteSQL
  <2>2. n \in Nat /\ asked + n \in 0..MaxStatements
    BY <1>0
  <2> QED
    BY <1>0, <2>1, <2>2
<1>2. CASE DatabaseOf[t] \in stopped /\ CancelCallback(t)
  BY <1>0, <1>2 DEF CancelCallback, PerformPendingCallback
<1>3. CASE DatabaseOf[t] \notin stopped
  <2>1. CASE DeliverTransactionCallback(t)
    BY <1>0, <1>1, <1>3, <2>1
    DEF DeliverTransactionCallback, HandleErrorInCallback, ThreadSteps, PerformPendingCallback
  <2>2. CASE DeliverStatementCallback(t)
    <3>1. current' \in [Transactions -> States]
      BY <1>0, <2>2 DEF DeliverStatementCallback
    <3> QED
      BY <1>1, <1>3, <2>2, <3>1
      DEF DeliverStatementCallback, HandleErrorInCallback, ThreadSteps, PerformPendingCallback
  <2>3. CASE DeliverQuotaIncreaseCallback(t)
    <3>1. current' \in [Transactions -> States]
      BY <1>0, <2>3 DEF DeliverQuotaIncreaseCallback
    <3> QED
      BY <1>0, <1>3, <2>3, <3>1 DEF DeliverQuotaIncreaseCallback, ThreadSteps,
         PerformPendingCallback
  <2>4. CASE DeliverSuccessCallback(t)
    BY <1>0, <1>3, <2>4 DEF DeliverSuccessCallback, ThreadSteps, PerformPendingCallback,
       statementVars
  <2>5. CASE DeliverTransactionErrorCallback(t)
    BY <1>0, <1>3, <2>5 DEF DeliverTransactionErrorCallback, HandleErrorInCallback, ThreadSteps,
       PerformPendingCallback, statementVars
  <2> QED
    BY <1>3, <2>1, <2>2, <2>3, <2>4, <2>5 DEF PerformPendingCallback
<1> QED
  BY <1>2, <1>3 DEF PerformPendingCallback

LEMMA StepTask == \A t \in Transactions : Step(t) \in Tasks /\ TaskDatabase(Step(t)) = DatabaseOf[t]
  BY DEF Step, Tasks, TaskDatabase

LEMMA SyncTask ==
    \A d \in Databases : /\ Open(d) \in Tasks /\ TaskDatabase(Open(d)) = d
                         /\ Close(d) \in Tasks /\ TaskDatabase(Close(d)) = d
  BY DEF Open, Close, Tasks, TaskDatabase

LEMMA PendingCallbackType ==
    ASSUME TypeOK, NEW t \in Transactions, PerformPendingCallback(t)
    PROVE  TypeOK'
<1>0. Tail(callbacks) \in Seq(Transactions)
  BY PendingCallbackEffect, HeadTailIn DEF TypeOK
<1>1. Append(tasks, Step(t)) \in Seq(Tasks)
  BY StepTask, AppendIn DEF TypeOK
<1>2. tasks' \in Seq(Tasks) /\ step' \in [Transactions -> ThreadSteps \cup ContextSteps \cup
                                                         {"uncreated", "none"}]
  BY <1>1, PendingCallbackEffect DEF ScheduleStep, CancelCallback, TypeOK
<1>3. UNCHANGED <<contextVars, handleVars, queueVars, connection, lockVars, sqlite, threadVars,
                   committed, failures>>
  BY Zenon DEF PerformPendingCallback
<1>4. /\ callbacks' \in Seq(Transactions) /\ statements' \in [Transactions -> Nat]
      /\ asked' \in 0..MaxStatements
      /\ current' \in [Transactions -> {"none", "done", "failed", "raised", "handled"}]
  BY <1>0, PendingCallbackEffect
<1>5. UNCHANGED <<doing, handle, doomed, registered, killed, opened, deleted, stopped,
                   transactionQueue, inProgress, connection, pending, readers, writer,
                   lockAcquired, sqlite, thread, running, committed, failures>>
  BY <1>3 DEF contextVars, handleVars, queueVars, lockVars, threadVars
<1> QED
  BY <1>2, <1>4, <1>5, SMTT(30) DEF TypeOK

\* The database and the transaction that a thread is about to need.
HandleKnown ==
    /\ doing \in {"submitting", "marked", "unscheduled"} => handle # None
    /\ thread = "next" => running # None

LEMMA HandleStep == TypeOK /\ HandleKnown /\ [Next]_vars => HandleKnown'
<1> SUFFICES ASSUME TypeOK, HandleKnown, [Next]_vars
             PROVE  HandleKnown'
  OBVIOUS
<1> USE NoneAssumption DEF HandleKnown, contextVars, threadVars
<1>1. ASSUME NEW d \in Databases, OpenDatabase(d) \/ MarkAsDeleted(d) \/ Stop(d)
      PROVE  HandleKnown'
  BY <1>1 DEF OpenDatabase, MarkAsDeleted, Stop
<1>2. ASSUME NEW t \in Transactions, Transaction(t) \/ PerformPendingCallback(t)
      PROVE  HandleKnown'
  BY <1>2, HandleAssumption DEF Transaction, PerformPendingCallback
<1>3. CASE OpenReturns \/ Submit \/ DeleteDatabaseFile \/ ScheduleClose \/ CloseReturns
           \/ Unschedule \/ RequestTermination
  BY <1>3 DEF OpenReturns, Submit, DeleteDatabaseFile, ScheduleClose, CloseReturns, Unschedule,
     RequestTermination
<1>4. ASSUME NEW t \in Transactions, PerformNextStep(t) PROVE HandleKnown'
  BY <1>4 DEF PerformNextStep
<1>5. ASSUME NEW d \in Databases, PerformOpen(d) \/ PerformClose(d) PROVE HandleKnown'
  BY <1>5 DEF PerformOpen, PerformClose
<1>6. CASE ScheduleNext \/ Shutdown \/ CloseDatabases
  BY <1>6 DEF ScheduleNext, Shutdown, CloseDatabases
<1>7. CASE UNCHANGED vars
  BY <1>7 DEF vars
<1> QED
  BY <1>1, <1>2, <1>3, <1>4, <1>5, <1>6, <1>7 DEF Next, ContextThread, DatabaseThread

LEMMA TypeStep == TypeOK /\ HandleKnown /\ [Next]_vars => TypeOK'
<1> SUFFICES ASSUME TypeOK, HandleKnown, [Next]_vars
             PROVE  TypeOK'
  OBVIOUS
<1> USE DEF contextVars, handleVars, queueVars, statementVars, lockVars, threadVars, historyVars
<1>1. ASSUME NEW d \in Databases, OpenDatabase(d) PROVE TypeOK'
  <2>1. <<Open(d)>> \o tasks \in Seq(Tasks)
    BY SyncTask, PrependIn DEF TypeOK
  <2> QED
    BY <1>1, <2>1 DEF OpenDatabase, TypeOK
<1>2. ASSUME NEW d \in Databases, MarkAsDeleted(d) PROVE TypeOK'
  BY <1>2 DEF MarkAsDeleted, TypeOK
<1>3. ASSUME NEW d \in Databases, Stop(d) PROVE TypeOK'
  BY <1>3 DEF Stop, TypeOK
<1>4. ASSUME NEW t \in Transactions, Transaction(t) PROVE TypeOK'
  <2>1. DatabaseOf[t] \in Databases
    BY HandleAssumption
  <2>2. Append(transactionQueue[DatabaseOf[t]], t) \in Seq(Transactions)
    BY <2>1, AppendIn DEF TypeOK
  <2> QED
    BY <1>4, <2>1, <2>2 DEF Transaction, TypeOK, ThreadSteps
<1>5. ASSUME NEW t \in Transactions, PerformPendingCallback(t) PROVE TypeOK'
  BY <1>5, PendingCallbackType
<1>6. CASE OpenReturns
  BY <1>6 DEF OpenReturns, TypeOK
<1>7. CASE Submit
  <2>1. handle \in Databases
    BY <1>7 DEF Submit, HandleKnown, TypeOK
  <2>2. /\ transactionQueue' \in [Databases -> Seq(Transactions)]
        /\ inProgress' \in [Databases -> BOOLEAN]
        /\ tasks' \in Seq(Tasks)
    BY <1>7, <2>1, ScheduleTransactionType DEF Submit, TypeOK
  <2> QED
    BY <1>7, <2>2 DEF Submit, TypeOK
<1>8. CASE DeleteDatabaseFile
  BY <1>8 DEF DeleteDatabaseFile, TypeOK
<1>9. CASE ScheduleClose
  <2>1. handle \in Databases
    BY <1>9 DEF ScheduleClose, HandleKnown, TypeOK
  <2>2. <<Close(handle)>> \o tasks \in Seq(Tasks)
    BY <2>1, SyncTask, PrependIn DEF TypeOK
  <2> QED
    BY <1>9, <2>2 DEF ScheduleClose, TypeOK
<1>10. CASE CloseReturns
  BY <1>10 DEF CloseReturns, TypeOK
<1>11. CASE Unschedule
  <2>1. tasks' \in Seq(Tasks)
    BY <1>11, UnscheduleIn DEF Unschedule
  <2> QED
    BY <1>11, <2>1 DEF Unschedule, TypeOK
<1>12. CASE RequestTermination
  BY <1>12 DEF RequestTermination, TypeOK
<1>13. ASSUME NEW t \in Transactions, PerformNextStep(t) PROVE TypeOK'
  <2>1. QueuesOK' /\ DataOK'
    BY <1>13, PerformNextStepType
  <2> QED
    BY <1>13, <2>1 DEF PerformNextStep, TypeOK, QueuesOK, DataOK, Steps
<1>14. ASSUME NEW d \in Databases, PerformOpen(d) PROVE TypeOK'
  <2>1. Tail(tasks) \in Seq(Tasks)
    BY <1>14, HeadTailIn DEF PerformOpen, TypeOK
  <2>2. failures' \in 0..MaxFailures
    BY <1>14, BoundAssumption DEF PerformOpen, Fail, TypeOK
  <2> QED
    BY <1>14, <2>1, <2>2 DEF PerformOpen, TypeOK
<1>15. ASSUME NEW d \in Databases, PerformClose(d) PROVE TypeOK'
  <2>1. tasks' \in Seq(Tasks)
    BY <1>15, UnscheduleIn DEF PerformClose
  <2> QED
    BY <1>15, <2>1 DEF PerformClose, TypeOK
<1>16. CASE ScheduleNext
  <2>1. DatabaseOf[running] \in Databases
    BY <1>16, HandleAssumption DEF ScheduleNext, HandleKnown, TypeOK
  <2> QED
    BY <1>16, <2>1, ScheduleTransactionType DEF ScheduleNext, TypeOK
<1>17. CASE Shutdown
  BY <1>17 DEF Shutdown, TypeOK
<1>18. CASE CloseDatabases
  <2>1. tasks' \in Seq(Tasks)
    BY <1>18, UnscheduleIn DEF CloseDatabases
  <2> QED
    BY <1>18, <2>1 DEF CloseDatabases, TypeOK
<1>19. CASE UNCHANGED vars
  BY <1>19 DEF vars, TypeOK
<1> QED
  BY <1>1, <1>2, <1>3, <1>4, <1>5, <1>6, <1>7, <1>8, <1>9, <1>10, <1>11, <1>12, <1>13, <1>14,
     <1>15, <1>16, <1>17, <1>18, <1>19
  DEF Next, ContextThread, DatabaseThread

\* Every variable of the databases, the transactions, the coordinator and the
\* two threads has its type.
THEOREM TypeCorrect == Spec => []TypeOK
<1>1. ASSUME Init PROVE TypeOK
  <2>1. <<>> \in Seq(Transactions) /\ <<>> \in Seq(Tasks)
    OBVIOUS
  <2>2. transactionQueue \in [Databases -> Seq(Transactions)]
    BY <1>1, <2>1 DEF Init
  <2>3. 0 \in 0..MaxStatements /\ 0 \in 0..MaxFailures
    BY BoundAssumption
  <2> QED
    BY <1>1, <2>1, <2>2, <2>3 DEF Init, TypeOK
<1>2. Init => HandleKnown
  BY DEF Init, HandleKnown
<1> QED
  BY <1>1, <1>2, TypeStep, HandleStep, PTL DEF Spec

LEMMA HandlesKnown == Spec => []HandleKnown
<1>1. Init => HandleKnown
  BY DEF Init, HandleKnown
<1> QED
  BY <1>1, HandleStep, TypeCorrect, PTL DEF Spec

-----------------------------------------------------------------------------
(* What a task of a transaction does to the queues and to the coordinator.  *)

\* The transaction is over for SQLite, and is or is not in the file.
Rollback(t) ==
    /\ connection' = RolledBack(t)
    /\ committed' = committed

Commit(t) ==
    /\ connection' = RolledBack(t)
    /\ committed' = committed \cup {t}
    /\ statements' = [statements EXCEPT ![t] = 0]
    /\ current' = [current EXCEPT ![t] = "none"]

Releases(t) == ReleaseLock(t) /\ callbacks' = callbacks /\ sqlite'[t] # "inProgress"

\* Every way a task of t can end.
LEMMA NextStepCases ==
    ASSUME TypeOK, NEW t \in Transactions, PerformNextStep(t)
    PROVE  \/ DatabaseOf[t] \in stopped /\ HandleClosedDatabase(t)
           \/ /\ step[t] = "acquireLock" /\ AcquireLock(t)
              /\ UNCHANGED <<callbacks, connection, sqlite, statements, current, committed>>
           \/ /\ step[t] = "openTransactionAndPreflight" /\ DatabaseOf[t] \notin deleted
              /\ connection[DatabaseOf[t]] = None
              /\ connection' = [connection EXCEPT ![DatabaseOf[t]] = t]
              /\ sqlite' = [sqlite EXCEPT ![t] = "inProgress"]
              /\ ScheduleCallback(t, "deliverTransactionCallback")
              /\ UNCHANGED <<statements, current, committed>>
           \/ /\ step[t] \in {"openTransactionAndPreflight", "runStatements"}
              /\ \E s \in ContextSteps \ {"deliverSuccessCallback"} : ScheduleCallback(t, s)
              /\ connection' \in {connection, RolledBack(t)}
              /\ UNCHANGED <<sqlite, committed>>
           \/ /\ step[t] = "runStatements" /\ connection[DatabaseOf[t]] = t /\ Commit(t)
              /\ \/ ScheduleCallback(t, "deliverSuccessCallback") /\ sqlite'[t] # "inProgress"
                 \/ Releases(t)
           \/ /\ step[t] = "cleanupAfterSuccessCallback" /\ Releases(t)
              /\ UNCHANGED <<connection, statements, current, committed>>
           \/ /\ step[t] \in ThreadSteps \ {"acquireLock", "cleanupAfterSuccessCallback"}
              /\ Releases(t) /\ Rollback(t)
<1> DEFINE Error ==
             /\ \E s \in ContextSteps \ {"deliverSuccessCallback"} : ScheduleCallback(t, s)
             /\ connection' \in {connection, RolledBack(t)}
             /\ UNCHANGED <<sqlite, committed>>
           Over == Releases(t) /\ Rollback(t)
<1>0. ASSUME NEW left, NEW conn \in {connection, RolledBack(t)},
             HandleTransactionError(t, left, conn), committed' = committed
      PROVE  Error \/ Over
  <2>1. CASE CleanupAfterError(t)
    BY <1>0, <2>1 DEF CleanupAfterError, Releases, Rollback, TypeOK
  <2>2. CASE ~CleanupAfterError(t)
    BY <1>0, <2>2 DEF HandleTransactionError, ContextSteps
  <2> QED
    BY <2>1, <2>2
<1>1. ASSUME NEW state, NEW left, NEW conn \in {connection, RolledBack(t)},
             HandleCurrentStatementError(t, state, left, conn), committed' = committed
      PROVE  Error \/ Over
  BY <1>0, <1>1 DEF HandleCurrentStatementError, ContextSteps
<1>2. CASE step[t] = "openTransactionAndPreflight" /\ OpenTransactionAndPreflight(t)
  <2>1. CASE HandleTransactionError(t, statements[t], connection)
    <3>1. Error \/ Over
      BY <1>0, <1>2, <2>1 DEF OpenTransactionAndPreflight
    <3> HIDE DEF Over
    <3> QED
      BY <1>2, <3>1 DEF ThreadSteps, Over
  <2>2. CASE ~HandleTransactionError(t, statements[t], connection)
    BY <1>2, <2>2 DEF OpenTransactionAndPreflight, CanBegin
  <2> QED
    BY <2>1, <2>2
<1>3. CASE step[t] = "runStatements" /\ RunStatements(t)
  <2>1. CASE PostflightAndCommit(t)
    <3>1. CASE HandleTransactionError(t, 0, connection) /\ UNCHANGED committed
      BY <1>0, <1>3, <3>1 DEF ThreadSteps
    <3>2. CASE ~(HandleTransactionError(t, 0, connection) /\ UNCHANGED committed)
      BY <1>3, <2>1, <3>2
      DEF PostflightAndCommit, Commit, CleanupAfterSuccess, Releases, TypeOK
    <3> QED
      BY <3>1, <3>2
  <2>2. ASSUME NEW left, StatementNeedsCallback(t, left), committed' = committed
        PROVE  Error \/ Over
    <3>1. CASE \E conn \in {connection, RolledBack(t)} :
                  HandleCurrentStatementError(t, "done", left, conn)
      BY <1>1, <2>2, <3>1
    <3>2. CASE ~\E conn \in {connection, RolledBack(t)} :
                  HandleCurrentStatementError(t, "done", left, conn)
      BY <2>2, <3>2 DEF StatementNeedsCallback, ContextSteps
    <3> QED
      BY <3>1, <3>2
  <2>3. CASE ~PostflightAndCommit(t)
    <3>1. Error \/ Over
      BY <1>1, <1>3, <2>2, <2>3 DEF RunStatements
    <3> QED
      BY <1>3, <3>1 DEF ThreadSteps
  <2> QED
    BY <2>1, <2>3
<1>4. CASE /\ step[t] = "cleanupAfterSuccessCallback" /\ CleanupAfterSuccess(t)
           /\ UNCHANGED <<connection, statements, current, committed, failures>>
  BY <1>4 DEF CleanupAfterSuccess, Releases, TypeOK
<1>5. CASE /\ step[t] = "cleanupAfterTransactionErrorCallback" /\ CleanupAfterError(t)
           /\ UNCHANGED <<current, committed, failures>>
  BY <1>5 DEF CleanupAfterError, Releases, Rollback, ThreadSteps, TypeOK
<1>6. CASE /\ step[t] = "acquireLock" /\ AcquireLock(t)
           /\ UNCHANGED <<callbacks, connection, sqlite, statements, current, committed,
                          failures>>
  BY <1>6
<1>7. CASE DatabaseOf[t] \in stopped /\ HandleClosedDatabase(t)
  BY <1>7
<1> QED
  BY <1>2, <1>3, <1>4, <1>5, <1>6, <1>7 DEF PerformNextStep

\* The ways it ends for the queues: with a callback that is due, with turns of
\* the coordinator, or without more (t was stopped before it had the lock).
LEMMA NextStepKinds ==
    ASSUME TypeOK, NEW t \in Transactions, PerformNextStep(t)
    PROVE  \/ /\ step[t] \in ThreadSteps \ {"acquireLock"}
              /\ \E s \in ContextSteps : ScheduleCallback(t, s)
           \/ step[t] = "acquireLock" /\ AcquireLock(t) /\ callbacks' = callbacks
           \/ /\ t \in lockAcquired \/ step[t] \in ThreadSteps \ {"acquireLock"}
              /\ ReleaseLock(t) /\ callbacks' = callbacks
           \/ /\ t \notin lockAcquired /\ DatabaseOf[t] \in stopped
              /\ step' = [step EXCEPT ![t] = "none"] /\ tasks' = Tail(tasks)
              /\ UNCHANGED <<lockVars, callbacks>>
<1>1. CASE DatabaseOf[t] \in stopped /\ HandleClosedDatabase(t)
  BY <1>1 DEF HandleClosedDatabase
<1>2. CASE ~(DatabaseOf[t] \in stopped /\ HandleClosedDatabase(t))
  BY <1>2, NextStepCases DEF Releases, ThreadSteps, ContextSteps
<1> QED
  BY <1>1, <1>2

ActiveOf(rs, w) == rs \cup (IF w = None THEN {} ELSE {w})
TurnsAreExclusive(rs, w) ==
    /\ rs \subseteq ReadOnly
    /\ w \in Writers \cup {None}
    /\ w # None => rs = {}

\* The turns given to G: each of them is taken from the pending transactions p
\* and has its step among the tasks, and the turns stay exclusive.
TurnsGiven(G, t, s, p, rs, w) ==
    /\ lockAcquired' = lockAcquired \cup G
    /\ step' = [u \in Transactions |->
                  IF u \in G THEN "openTransactionAndPreflight"
                  ELSE IF u = t THEN s ELSE step[u]]
    /\ In(tasks') = {Step(u) : u \in G} \cup In(Tail(tasks))
    /\ Once(p) =>
         /\ Once(pending') /\ In(pending') = In(p) \ G
         /\ Once(tasks) /\ (\A u \in In(p) : Step(u) \notin In(Tail(tasks))) => Once(tasks')
    /\ TurnsAreExclusive(rs, w) =>
         /\ TurnsAreExclusive(readers', writer')
         /\ ActiveOf(readers', writer') = ActiveOf(rs, w) \cup G

LEMMA TurnsEffect ==
    ASSUME TypeOK, NEW t \in Transactions, tasks # <<>>, NEW s \in Steps,
           NEW p \in Seq(Transactions), NEW rs \in SUBSET Transactions,
           NEW w \in Transactions \cup {None},
           ProcessPendingTransactions(t, s, p, rs, w)
    PROVE  \E G \in SUBSET In(p) : TurnsGiven(G, t, s, p, rs, w)
<1>1. Len(p) \in Nat /\ \A i \in 1..Len(p) : p[i] \in Transactions
  BY ElementOfSeq, LenProperties
<1>2. PICK n \in 0..Len(p) :
        LET granted == {p[i] : i \in 1..n} IN
        /\ Turn(n, p, rs, w)
        /\ pending' = SubSeq(p, n + 1, Len(p))
        /\ readers' = rs \cup (granted \cap ReadOnly)
        /\ writer' = IF granted \cap Writers = {} THEN w ELSE p[1]
        /\ lockAcquired' = lockAcquired \cup granted
        /\ step' = [u \in Transactions |->
                      IF u \in granted THEN "openTransactionAndPreflight"
                      ELSE IF u = t THEN s ELSE step[u]]
        /\ tasks' = [i \in 1..n |-> Step(p[n + 1 - i])] \o Tail(tasks)
  BY DEF ProcessPendingTransactions
<1> DEFINE G == {p[i] : i \in 1..n}
           g == [i \in 1..n |-> Step(p[n + 1 - i])]
<1>3. /\ g \in Seq(Tasks) /\ In(g) = {Step(p[i]) : i \in 1..n}
      /\ Once(p) => Once(g)
  BY GrantedIn
<1>4. {Step(p[i]) : i \in 1..n} = {Step(u) : u \in G}
  OBVIOUS
<1>5. Tail(tasks) \in Seq(Tasks) /\ (Once(tasks) => Once(Tail(tasks)))
  BY HeadTailIn DEF TypeOK
<1>6. G \subseteq In(p)
  BY <1>1 DEF In
<1>7. In(tasks') = {Step(u) : u \in G} \cup In(Tail(tasks))
  <2>1. tasks' = g \o Tail(tasks)
    BY <1>2
  <2> DEFINE tail == Tail(tasks)
  <2>0. g \in Seq(Tasks) /\ tail \in Seq(Tasks)
    BY <1>3, <1>5
  <2> HIDE DEF g, tail
  <2>2. In(g \o tail) = In(g) \cup In(tail)
    BY <2>0, ConcatIn
  <2> USE DEF tail
  <2> QED
    BY <1>3, <1>4, <2>1, <2>2
<1>8. /\ In(pending') \cup G = In(p)
      /\ Once(p) => Once(pending') /\ In(pending') \cap G = {}
  BY <1>2, SplitIn
<1>9. ASSUME Once(p), Once(tasks), \A u \in In(p) : Step(u) \notin In(Tail(tasks))
      PROVE  Once(tasks')
  <2>1. In(g) \cap In(Tail(tasks)) = {}
    BY <1>3, <1>4, <1>6, <1>9
  <2> QED
    BY <1>2, <1>3, <1>5, <1>9, <2>1, ConcatIn
<1>10. ASSUME TurnsAreExclusive(rs, w)
       PROVE  /\ TurnsAreExclusive(readers', writer')
              /\ ActiveOf(readers', writer') = ActiveOf(rs, w) \cup G
  <2>1. CASE n = 0
    <3>1. G = {} /\ readers' = rs /\ writer' = w
      BY <1>2, <2>1
    <3> QED
      BY <1>10, <3>1
  <2>2. CASE n # 0 /\ w = None /\ \A i \in 1..n : p[i] \in ReadOnly
    <3>1. G \subseteq ReadOnly /\ G \cap Writers = {}
      BY <2>2 DEF Writers
    <3>2. readers' = rs \cup G /\ writer' = None
      BY <1>2, <2>2, <3>1
    <3> QED
      BY <1>10, <2>2, <3>1, <3>2 DEF TurnsAreExclusive, ActiveOf
  <2>3. CASE n = 1 /\ w = None /\ rs = {} /\ p # <<>> /\ Head(p) \in Writers
    <3>1. Head(p) = p[1] /\ G = {p[1]} /\ p[1] \in Writers
      BY <2>3
    <3>2. readers' = {} /\ writer' = p[1] /\ p[1] # None
      BY <1>2, <2>3, <3>1, NoneAssumption DEF Writers
    <3> QED
      BY <2>3, <3>1, <3>2 DEF TurnsAreExclusive, ActiveOf
  <2> QED
    BY <1>1, <1>2, <2>1, <2>2, <2>3 DEF Turn
<1> USE <1>6
<1> WITNESS G \in SUBSET In(p)
<1> QED
  BY <1>2, <1>6, <1>7, <1>8, <1>9, <1>10 DEF TurnsGiven

-----------------------------------------------------------------------------
(* Where a transaction is.                                                 *)

\* The tasks of the context, which waits for each.
SyncInv ==
    /\ \A d \in Databases :
        /\ Open(d) \in In(tasks) => doing = "opening" /\ handle = d
        /\ Close(d) \in In(tasks) => doing = "closing" /\ handle = d
    /\ doing \in {"marked", "unscheduled", "closing"} => handle \in deleted

\* Each transaction that has a step to come is in one place, and none twice.
PlaceInv ==
    /\ Once(tasks) /\ Once(callbacks) /\ Once(pending)
    /\ \A d \in Databases : Once(transactionQueue[d])
    /\ \A t \in Transactions :
        /\ Step(t) \in In(tasks) => step[t] \in ThreadSteps
        /\ t \in In(callbacks) => step[t] \in ContextSteps
        /\ t \in In(pending) => step[t] = "acquireLock" /\ Step(t) \notin In(tasks)
        /\ \A d \in Databases :
            t \in In(transactionQueue[d]) =>
                /\ DatabaseOf[t] = d /\ step[t] = "acquireLock"
                /\ Step(t) \notin In(tasks) /\ t \notin In(pending)


LEMMA KindsDiffer ==
    \A d, e \in Databases :
        /\ \A t \in Transactions : Step(t) # Open(d) /\ Step(t) # Close(d)
        /\ Open(d) # Close(e)
        /\ (Open(d) = Open(e) => d = e) /\ (Close(d) = Close(e) => d = e)
  BY DEF Step, Open, Close

LEMMA StepsDiffer == \A t, u : Step(t) = Step(u) => t = u
  BY DEF Step

LEMMA StepsOfThreads ==
    /\ ThreadSteps \cap ContextSteps = {}
    /\ "acquireLock" \in ThreadSteps /\ "openTransactionAndPreflight" \in ThreadSteps
    /\ "uncreated" \notin ThreadSteps \cup ContextSteps
    /\ "none" \notin ThreadSteps \cup ContextSteps
  BY DEF ThreadSteps, ContextSteps

\* A task of a transaction adds none of the context.
LEMMA NextStepTasks ==
    ASSUME TypeOK, NEW t \in Transactions, PerformNextStep(t)
    PROVE  \A x \in In(tasks') : x \in In(tasks) \/ \E u \in Transactions : x = Step(u)
<1>0. tasks # <<>> /\ tasks \in Seq(Tasks)
  BY DEF PerformNextStep, TypeOK
<1>1. In(Tail(tasks)) \subseteq In(tasks)
  BY <1>0, HeadTailIn
<1>2. CASE tasks' = Tail(tasks)
  BY <1>1, <1>2
<1>3. ASSUME NEW s \in Steps, NEW p \in Seq(Transactions), NEW rs \in SUBSET Transactions,
             NEW w \in Transactions \cup {None}, ProcessPendingTransactions(t, s, p, rs, w)
      PROVE  \A x \in In(tasks') : x \in In(tasks) \/ \E u \in Transactions : x = Step(u)
  <2>1. PICK G \in SUBSET In(p) : TurnsGiven(G, t, s, p, rs, w)
    BY <1>0, <1>3, TurnsEffect
  <2>2. In(p) \subseteq Transactions
    BY ElementOfSeq DEF In
  <2> QED
    BY <1>1, <2>1, <2>2 DEF TurnsGiven
<1>4. /\ "acquireLock" \in Steps /\ "none" \in Steps /\ pending \in Seq(Transactions)
      /\ Append(pending, t) \in Seq(Transactions)
      /\ readers \in SUBSET Transactions /\ readers \ {t} \in SUBSET Transactions
      /\ writer \in Transactions \cup {None} /\ None \in Transactions \cup {None}
  BY AppendIn DEF Steps, ThreadSteps, TypeOK
<1>5. CASE AcquireLock(t)
  BY <1>3, <1>4, <1>5 DEF AcquireLock
<1>6. CASE ReleaseLock(t)
  BY <1>3, <1>4, <1>6 DEF ReleaseLock
<1> QED
  BY <1>2, <1>5, <1>6, NextStepKinds DEF ScheduleCallback

LEMMA ScheduleTransactionTasks ==
    ASSUME TypeOK, NEW d \in Databases, ScheduleTransaction(d, tasks)
    PROVE  \A x \in In(tasks') : x \in In(tasks) \/ \E u \in Transactions : x = Step(u)
<1>1. CASE d \notin stopped /\ transactionQueue[d] # <<>>
  <2>1. Head(transactionQueue[d]) \in Transactions
    BY <1>1, HeadTailIn DEF TypeOK
  <2>2. In(Append(tasks, Step(Head(transactionQueue[d])))) =
          In(tasks) \cup {Step(Head(transactionQueue[d]))}
    BY <2>1, StepTask, AppendIn DEF TypeOK
  <2> QED
    BY <1>1, <2>1, <2>2 DEF ScheduleTransaction
<1>2. CASE ~(d \notin stopped /\ transactionQueue[d] # <<>>)
  BY <1>2 DEF ScheduleTransaction
<1> QED
  BY <1>1, <1>2

LEMMA SyncStep == TypeOK /\ HandleKnown /\ PlaceInv /\ SyncInv /\ [Next]_vars => SyncInv'
<1> SUFFICES ASSUME TypeOK, HandleKnown, PlaceInv, SyncInv, [Next]_vars
             PROVE  SyncInv'
  OBVIOUS
<1> USE DEF contextVars, handleVars
<1>0. tasks \in Seq(Tasks) /\ Once(tasks)
  BY DEF TypeOK, PlaceInv
<1>1. ASSUME doing' = doing, handle' = handle, deleted' = deleted,
             \A x \in In(tasks') : x \in In(tasks) \/ \E u \in Transactions : x = Step(u)
      PROVE  SyncInv'
  BY <1>1, KindsDiffer DEF SyncInv
<1>2. ASSUME doing \notin {"opening", "closing"}, In(tasks') \subseteq In(tasks),
             doing' \notin {"marked", "unscheduled", "closing"}
      PROVE  SyncInv'
  BY <1>2 DEF SyncInv
<1>3. ASSUME NEW d \in Databases, OpenDatabase(d) PROVE SyncInv'
  <2>1. In(tasks') = In(tasks) \cup {Open(d)}
    BY <1>0, <1>3, SyncTask, PrependIn DEF OpenDatabase
  <2> QED
    BY <1>3, <2>1, KindsDiffer DEF OpenDatabase, SyncInv
<1>4. ASSUME NEW d \in Databases, MarkAsDeleted(d) PROVE SyncInv'
  BY <1>4 DEF MarkAsDeleted, SyncInv
<1>5. ASSUME NEW d \in Databases, Stop(d) PROVE SyncInv'
  BY <1>2, <1>5 DEF Stop
<1>6. ASSUME NEW t \in Transactions, Transaction(t) PROVE SyncInv'
  BY <1>2, <1>6 DEF Transaction
<1>7. ASSUME NEW t \in Transactions, PerformPendingCallback(t) PROVE SyncInv'
  <2>1. In(Append(tasks, Step(t))) = In(tasks) \cup {Step(t)}
    BY <1>0, StepTask, AppendIn
  <2>2. \A x \in In(tasks') : x \in In(tasks) \/ \E u \in Transactions : x = Step(u)
    BY <1>7, <2>1, PendingCallbackEffect DEF ScheduleStep, CancelCallback
  <2> QED
    BY <1>1, <1>7, <2>2 DEF PerformPendingCallback
<1>8. CASE OpenReturns \/ DeleteDatabaseFile \/ CloseReturns \/ RequestTermination
  BY <1>2, <1>8 DEF OpenReturns, DeleteDatabaseFile, CloseReturns, RequestTermination
<1>9. CASE Submit
  <2>1. handle \in Databases
    BY <1>9 DEF Submit, HandleKnown, TypeOK
  <2>2. \A x \in In(tasks') : x \in In(tasks) \/ \E u \in Transactions : x = Step(u)
    BY <1>9, <2>1, ScheduleTransactionTasks DEF Submit
  <2> QED
    BY <1>9, <2>2, KindsDiffer DEF Submit, SyncInv
<1>10. CASE ScheduleClose
  <2>1. handle \in Databases
    BY <1>10 DEF ScheduleClose, HandleKnown, TypeOK
  <2>2. In(tasks') = In(tasks) \cup {Close(handle)}
    BY <1>0, <1>10, <2>1, SyncTask, PrependIn DEF ScheduleClose
  <2> QED
    BY <1>10, <2>1, <2>2, KindsDiffer DEF ScheduleClose, SyncInv
<1>11. CASE Unschedule
  <2>1. In(tasks') \subseteq In(tasks)
    BY <1>11, UnscheduleIn DEF Unschedule
  <2> QED
    BY <1>11, <2>1 DEF Unschedule, SyncInv
<1>12. ASSUME NEW t \in Transactions, PerformNextStep(t) PROVE SyncInv'
  <2>1. \A x \in In(tasks') : x \in In(tasks) \/ \E u \in Transactions : x = Step(u)
    BY <1>12, NextStepTasks
  <2> QED
    BY <1>1, <1>12, <2>1 DEF PerformNextStep
<1>13. ASSUME NEW d \in Databases, PerformOpen(d) PROVE SyncInv'
  <2>1. Head(tasks) = Open(d) /\ tasks # <<>> /\ tasks' = Tail(tasks) /\ doing' = "openReturns"
    BY <1>13 DEF PerformOpen
  <2>2. Open(d) \in In(tasks) /\ In(tasks') = In(tasks) \ {Open(d)}
    BY <1>0, <2>1, HeadTailIn
  <2> QED
    BY <2>1, <2>2 DEF SyncInv
<1>14. ASSUME NEW d \in Databases, PerformClose(d) PROVE SyncInv'
  <2>1. Head(tasks) = Close(d) /\ tasks # <<>> /\ doing' = "closeReturns"
    BY <1>14 DEF PerformClose
  <2>2. Close(d) \in In(tasks)
    BY <1>0, <2>1, HeadTailIn
  <2>3. \A x \in In(tasks') : x \in In(tasks) /\ TaskDatabase(x) # d
    BY <1>14, UnscheduleIn DEF PerformClose
  <2> QED
    BY <2>1, <2>2, <2>3, SyncTask DEF SyncInv
<1>15. CASE ScheduleNext
  <2>1. DatabaseOf[running] \in Databases
    BY <1>15, HandleAssumption DEF ScheduleNext, HandleKnown, TypeOK
  <2>2. \A x \in In(tasks') : x \in In(tasks) \/ \E u \in Transactions : x = Step(u)
    BY <1>15, <2>1, ScheduleTransactionTasks DEF ScheduleNext
  <2> QED
    BY <1>1, <1>15, <2>2 DEF ScheduleNext
<1>16. CASE Shutdown
  BY <1>1, <1>16 DEF Shutdown
<1>17. CASE CloseDatabases
  <2>1. In(tasks') \subseteq In(tasks)
    BY <1>17, UnscheduleIn DEF CloseDatabases
  <2> QED
    BY <1>1, <1>17, <2>1 DEF CloseDatabases
<1>18. CASE UNCHANGED vars
  BY <1>18 DEF vars, SyncInv
<1> QED
  BY <1>3, <1>4, <1>5, <1>6, <1>7, <1>8, <1>9, <1>10, <1>11, <1>12, <1>13, <1>14, <1>15, <1>16,
     <1>17, <1>18
  DEF Next, ContextThread, DatabaseThread

\* Nothing of the transactions moves but tasks that go.
LEMMA PlaceQuiet ==
    ASSUME PlaceInv, UNCHANGED <<callbacks, pending, transactionQueue, step>>, Once(tasks'),
           \A u \in Transactions : Step(u) \in In(tasks') => Step(u) \in In(tasks)
    PROVE  PlaceInv'
  BY DEF PlaceInv

LEMMA PlaceSubmit ==
    ASSUME TypeOK, PlaceInv, NEW d \in Databases, ScheduleTransaction(d, tasks),
           UNCHANGED <<callbacks, pending, step>>
    PROVE  PlaceInv'
<1>1. CASE d \notin stopped /\ transactionQueue[d] # <<>>
  <2> DEFINE t == Head(transactionQueue[d])
  <2>1. /\ t \in Transactions /\ t \in In(transactionQueue[d])
        /\ Once(Tail(transactionQueue[d]))
        /\ In(Tail(transactionQueue[d])) = In(transactionQueue[d]) \ {t}
    BY <1>1, HeadTailIn DEF TypeOK, PlaceInv
  <2>2. DatabaseOf[t] = d /\ step[t] = "acquireLock" /\ Step(t) \notin In(tasks)
        /\ t \notin In(pending)
    BY <2>1 DEF PlaceInv
  <2> HIDE DEF t
  <2>3. /\ In(Append(tasks, Step(t))) = In(tasks) \cup {Step(t)}
        /\ Once(Append(tasks, Step(t)))
    BY <2>1, <2>2, StepTask, AppendIn DEF TypeOK, PlaceInv
  <2>4. /\ transactionQueue' = [transactionQueue EXCEPT ![d] = Tail(@)]
        /\ tasks' = Append(tasks, Step(t))
    BY <1>1 DEF ScheduleTransaction, t
  <2>5. \A e \in Databases :
          /\ Once(transactionQueue'[e])
          /\ In(transactionQueue'[e]) = In(transactionQueue[e]) \ {t}
    <3> SUFFICES ASSUME NEW e \in Databases
                 PROVE  /\ Once(transactionQueue'[e])
                        /\ In(transactionQueue'[e]) = In(transactionQueue[e]) \ {t}
      OBVIOUS
    <3>1. CASE e = d
      BY <2>1, <2>4, <3>1 DEF TypeOK
    <3>2. CASE e # d
      <4>1. transactionQueue'[e] = transactionQueue[e]
        BY <2>4, <3>2 DEF TypeOK
      <4>2. t \notin In(transactionQueue[e])
        BY <2>1, <2>2, <3>2 DEF PlaceInv
      <4> QED
        BY <4>1, <4>2 DEF PlaceInv
    <3> QED
      BY <3>1, <3>2
  <2> QED
    BY <2>1, <2>2, <2>3, <2>4, <2>5, StepsDiffer, StepsOfThreads DEF PlaceInv
<1>2. CASE ~(d \notin stopped /\ transactionQueue[d] # <<>>)
  BY <1>2, PlaceQuiet DEF ScheduleTransaction, PlaceInv
<1> QED
  BY <1>1, <1>2

LEMMA PlaceCreate ==
    ASSUME TypeOK, PlaceInv, NEW t \in Transactions, Transaction(t)
    PROVE  PlaceInv'
<1> DEFINE d == DatabaseOf[t]
<1>1. d \in Databases /\ step[t] = "uncreated"
  BY HandleAssumption DEF Transaction
<1>2. /\ Step(t) \notin In(tasks) /\ t \notin In(callbacks) /\ t \notin In(pending)
      /\ \A e \in Databases : t \notin In(transactionQueue[e])
  BY <1>1, StepsOfThreads DEF PlaceInv
<1>3. /\ Once(Append(transactionQueue[d], t))
      /\ In(Append(transactionQueue[d], t)) = In(transactionQueue[d]) \cup {t}
  BY <1>1, <1>2, AppendIn DEF TypeOK, PlaceInv
<1>4. /\ transactionQueue' = [transactionQueue EXCEPT ![d] = Append(@, t)]
      /\ step' = [step EXCEPT ![t] = "acquireLock"]
      /\ UNCHANGED <<tasks, callbacks, pending>>
  BY DEF Transaction, lockVars
<1>5. \A e \in Databases :
        /\ Once(transactionQueue'[e])
        /\ In(transactionQueue'[e]) = In(transactionQueue[e]) \cup (IF e = d THEN {t} ELSE {})
  BY <1>1, <1>3, <1>4 DEF TypeOK, PlaceInv
<1>6. \A u \in Transactions : step'[u] = IF u = t THEN "acquireLock" ELSE step[u]
  BY <1>4 DEF TypeOK
<1> SUFFICES ASSUME NEW u \in Transactions
             PROVE  /\ Step(u) \in In(tasks) => step'[u] \in ThreadSteps
                    /\ u \in In(callbacks) => step'[u] \in ContextSteps
                    /\ u \in In(pending) => step'[u] = "acquireLock" /\ Step(u) \notin In(tasks)
                    /\ \A e \in Databases :
                         u \in In(transactionQueue'[e]) =>
                             /\ DatabaseOf[u] = e /\ step'[u] = "acquireLock"
                             /\ Step(u) \notin In(tasks) /\ u \notin In(pending)
  BY <1>4, <1>5 DEF PlaceInv
<1>7. CASE u = t
  BY <1>2, <1>5, <1>6, <1>7 DEF PlaceInv
<1>8. CASE u # t
  BY <1>5, <1>6, <1>8 DEF PlaceInv
<1> QED
  BY <1>7, <1>8

LEMMA PlaceCallback ==
    ASSUME TypeOK, PlaceInv, NEW t \in Transactions, PerformPendingCallback(t)
    PROVE  PlaceInv'
<1>0. /\ callbacks \in Seq(Transactions) /\ callbacks # <<>> /\ Head(callbacks) = t
      /\ callbacks' = Tail(callbacks)
      /\ UNCHANGED <<pending, transactionQueue>>
  BY PendingCallbackEffect DEF TypeOK, PerformPendingCallback, lockVars, queueVars
<1>1. t \in In(callbacks) /\ Once(callbacks') /\ In(callbacks') = In(callbacks) \ {t}
  BY <1>0, HeadTailIn DEF PlaceInv
<1>2. /\ step[t] \in ContextSteps /\ Step(t) \notin In(tasks) /\ t \notin In(pending)
      /\ \A d \in Databases : t \notin In(transactionQueue[d])
  BY <1>1, StepsOfThreads DEF PlaceInv
<1>3. ASSUME NEW s \in ThreadSteps, ScheduleStep(t, s)
      PROVE  PlaceInv'
  <2>1. In(tasks') = In(tasks) \cup {Step(t)} /\ Once(tasks')
    BY <1>2, <1>3, StepTask, AppendIn DEF ScheduleStep, TypeOK, PlaceInv
  <2>2. \A u \in Transactions : step'[u] = IF u = t THEN s ELSE step[u]
    BY <1>3 DEF ScheduleStep, TypeOK
  <2> QED
    BY <1>0, <1>1, <1>2, <2>1, <2>2, StepsDiffer DEF PlaceInv
<1>4. CASE CancelCallback(t)
  <2>1. \A u \in Transactions : step'[u] = IF u = t THEN "none" ELSE step[u]
    BY <1>4 DEF CancelCallback, TypeOK
  <2>2. tasks' = tasks
    BY <1>4 DEF CancelCallback
  <2> QED
    BY <1>0, <1>1, <1>2, <2>1, <2>2 DEF PlaceInv
<1> QED
  BY <1>3, <1>4, PendingCallbackEffect

\* Turns of the transactions p, in a task of t.
LEMMA PlaceTurns ==
    ASSUME TypeOK, PlaceInv, NEW t \in Transactions, tasks # <<>>, Head(tasks) = Step(t),
           NEW s \in {"none", "acquireLock"}, NEW p \in Seq(Transactions), Once(p),
           IF s = "none" THEN In(p) = In(pending)
                         ELSE step[t] = "acquireLock" /\ In(p) = In(pending) \cup {t},
           NEW rs \in SUBSET Transactions, NEW w \in Transactions \cup {None},
           ProcessPendingTransactions(t, s, p, rs, w),
           UNCHANGED <<callbacks, transactionQueue>>
    PROVE  PlaceInv'
<1>0. s \in Steps
  BY DEF Steps, ThreadSteps
<1>1. /\ Step(t) \in In(tasks) /\ Once(tasks) /\ Once(Tail(tasks))
      /\ In(Tail(tasks)) = In(tasks) \ {Step(t)}
  BY HeadTailIn DEF TypeOK, PlaceInv
<1>2. /\ step[t] \in ThreadSteps /\ t \notin In(callbacks) /\ t \notin In(pending)
      /\ \A d \in Databases : t \notin In(transactionQueue[d])
  BY <1>1, StepsOfThreads DEF PlaceInv
<1>3. \A u \in In(p) : u \in Transactions /\ Step(u) \notin In(Tail(tasks))
  <2>1. In(p) \subseteq Transactions
    BY ElementOfSeq DEF In
  <2> QED
    BY <1>1, <2>1, StepsDiffer DEF PlaceInv
<1>4. PICK G \in SUBSET In(p) :
        /\ step' = [u \in Transactions |->
                      IF u \in G THEN "openTransactionAndPreflight"
                      ELSE IF u = t THEN s ELSE step[u]]
        /\ In(tasks') = {Step(u) : u \in G} \cup In(Tail(tasks))
        /\ Once(pending') /\ In(pending') = In(p) \ G
        /\ Once(tasks')
  <2>1. PICK G \in SUBSET In(p) : TurnsGiven(G, t, s, p, rs, w)
    BY <1>0, TurnsEffect
  <2>2. \A u \in In(p) : Step(u) \notin In(Tail(tasks))
    BY <1>3
  <2> QED
    BY <1>1, <2>1, <2>2 DEF TurnsGiven
<1>5. \A u \in Transactions :
        Step(u) \in In(tasks') <=> u \in G \/ (u # t /\ Step(u) \in In(tasks))
  BY <1>1, <1>4, StepsDiffer
<1>6. \A u \in Transactions :
        step'[u] = IF u \in G THEN "openTransactionAndPreflight"
                   ELSE IF u = t THEN s ELSE step[u]
  BY <1>4
<1>7. \A u \in Transactions : u \in G => u = t \/ u \in In(pending)
  OBVIOUS
<1> SUFFICES ASSUME NEW u \in Transactions
             PROVE  /\ Step(u) \in In(tasks') => step'[u] \in ThreadSteps
                    /\ u \in In(callbacks) => step'[u] \in ContextSteps
                    /\ u \in In(pending') => step'[u] = "acquireLock" /\ Step(u) \notin In(tasks')
                    /\ \A d \in Databases :
                         u \in In(transactionQueue[d]) =>
                             /\ DatabaseOf[u] = d /\ step'[u] = "acquireLock"
                             /\ Step(u) \notin In(tasks') /\ u \notin In(pending')
  BY <1>4 DEF PlaceInv
<1>8. Step(u) \in In(tasks') => step'[u] \in ThreadSteps
  BY <1>5, <1>6, StepsOfThreads DEF PlaceInv
<1>9. u \in In(callbacks) => step'[u] \in ContextSteps
  BY <1>2, <1>6, <1>7, StepsOfThreads DEF PlaceInv
<1>10. u \in In(pending') => step'[u] = "acquireLock" /\ Step(u) \notin In(tasks')
  BY <1>2, <1>4, <1>5, <1>6 DEF PlaceInv
<1>11. ASSUME NEW d \in Databases, u \in In(transactionQueue[d])
       PROVE  /\ DatabaseOf[u] = d /\ step'[u] = "acquireLock"
              /\ Step(u) \notin In(tasks') /\ u \notin In(pending')
  <2>1. u # t /\ u \notin G /\ u \notin In(p)
    BY <1>2, <1>7, <1>11 DEF PlaceInv
  <2> QED
    BY <1>4, <1>5, <1>6, <1>11, <2>1 DEF PlaceInv
<1> QED
  BY <1>8, <1>9, <1>10, <1>11

LEMMA PlaceNextStep ==
    ASSUME TypeOK, PlaceInv, NEW t \in Transactions, PerformNextStep(t)
    PROVE  PlaceInv'
<1>0. /\ tasks # <<>> /\ Head(tasks) = Step(t) /\ tasks \in Seq(Tasks)
      /\ UNCHANGED transactionQueue
  BY DEF PerformNextStep, queueVars, TypeOK
<1>1. /\ Step(t) \in In(tasks) /\ Once(Tail(tasks))
      /\ In(Tail(tasks)) = In(tasks) \ {Step(t)}
  BY <1>0, HeadTailIn DEF PlaceInv
<1>2. /\ step[t] \in ThreadSteps /\ t \notin In(callbacks) /\ t \notin In(pending)
      /\ \A d \in Databases : t \notin In(transactionQueue[d])
  BY <1>1, StepsOfThreads DEF PlaceInv
<1>3. ASSUME NEW s \in ContextSteps, ScheduleCallback(t, s)
      PROVE  PlaceInv'
  <2>1. In(callbacks') = In(callbacks) \cup {t} /\ Once(callbacks')
    BY <1>2, <1>3, AppendIn DEF ScheduleCallback, TypeOK, PlaceInv
  <2>2. \A u \in Transactions : step'[u] = IF u = t THEN s ELSE step[u]
    BY <1>3 DEF ScheduleCallback, TypeOK
  <2>3. tasks' = Tail(tasks) /\ pending' = pending
    BY <1>3 DEF ScheduleCallback, lockVars
  <2> QED
    BY <1>0, <1>1, <1>2, <2>1, <2>2, <2>3, StepsDiffer DEF PlaceInv
<1>4. CASE step[t] = "acquireLock" /\ AcquireLock(t) /\ callbacks' = callbacks
  <2>1. /\ Append(pending, t) \in Seq(Transactions) /\ Once(Append(pending, t))
        /\ In(Append(pending, t)) = In(pending) \cup {t}
    BY <1>2, AppendIn DEF TypeOK, PlaceInv
  <2>2. readers \in SUBSET Transactions /\ writer \in Transactions \cup {None}
    BY DEF TypeOK
  <2> QED
    BY <1>0, <1>4, <2>1, <2>2, PlaceTurns DEF AcquireLock
<1>5. CASE ReleaseLock(t) /\ callbacks' = callbacks
  <2>1. /\ pending \in Seq(Transactions) /\ Once(pending)
        /\ readers \in SUBSET Transactions /\ readers \ {t} \in SUBSET Transactions
        /\ writer \in Transactions \cup {None} /\ None \in Transactions \cup {None}
    BY DEF TypeOK, PlaceInv
  <2>2. CASE t \in ReadOnly
    BY <1>0, <1>5, <2>1, <2>2, PlaceTurns DEF ReleaseLock
  <2>3. CASE t \notin ReadOnly
    BY <1>0, <1>5, <2>1, <2>3, PlaceTurns DEF ReleaseLock
  <2> QED
    BY <2>2, <2>3
<1>6. CASE /\ step' = [step EXCEPT ![t] = "none"] /\ tasks' = Tail(tasks)
           /\ UNCHANGED <<lockVars, callbacks>>
  <2>1. \A u \in Transactions : step'[u] = IF u = t THEN "none" ELSE step[u]
    BY <1>6 DEF TypeOK
  <2> QED
    BY <1>0, <1>1, <1>2, <1>6, <2>1, StepsDiffer DEF PlaceInv, lockVars
<1> QED
  BY <1>3, <1>4, <1>5, <1>6, NextStepKinds

LEMMA PlaceStep == TypeOK /\ HandleKnown /\ SyncInv /\ PlaceInv /\ [Next]_vars => PlaceInv'
<1> SUFFICES ASSUME TypeOK, HandleKnown, SyncInv, PlaceInv, [Next]_vars
             PROVE  PlaceInv'
  OBVIOUS
<1> USE DEF lockVars, queueVars
<1>0. tasks \in Seq(Tasks) /\ Once(tasks)
  BY DEF TypeOK, PlaceInv
<1>1. ASSUME NEW d \in Databases, OpenDatabase(d) PROVE PlaceInv'
  <2>1. Open(d) \notin In(tasks)
    BY <1>1 DEF OpenDatabase, SyncInv
  <2>2. In(tasks') = In(tasks) \cup {Open(d)} /\ Once(tasks')
    BY <1>0, <1>1, <2>1, SyncTask, PrependIn DEF OpenDatabase
  <2> QED
    BY <1>1, <2>2, PlaceQuiet, KindsDiffer DEF OpenDatabase
<1>2. ASSUME NEW d \in Databases, MarkAsDeleted(d) \/ Stop(d) PROVE PlaceInv'
  BY <1>0, <1>2, PlaceQuiet DEF MarkAsDeleted, Stop
<1>3. ASSUME NEW t \in Transactions, Transaction(t) PROVE PlaceInv'
  BY <1>3, PlaceCreate
<1>4. ASSUME NEW t \in Transactions, PerformPendingCallback(t) PROVE PlaceInv'
  BY <1>4, PlaceCallback
<1>5. CASE OpenReturns \/ DeleteDatabaseFile \/ CloseReturns \/ RequestTermination
  BY <1>0, <1>5, PlaceQuiet DEF OpenReturns, DeleteDatabaseFile, CloseReturns, RequestTermination
<1>6. CASE Submit
  <2>1. handle \in Databases
    BY <1>6 DEF Submit, HandleKnown, TypeOK
  <2>2. CASE inProgress[handle]
    BY <1>0, <1>6, <2>2, PlaceQuiet DEF Submit
  <2>3. CASE ~inProgress[handle]
    BY <1>6, <2>1, <2>3, PlaceSubmit DEF Submit
  <2> QED
    BY <2>2, <2>3
<1>7. CASE ScheduleClose
  <2>1. handle \in Databases
    BY <1>7 DEF ScheduleClose, HandleKnown, TypeOK
  <2>2. Close(handle) \notin In(tasks)
    BY <1>7, <2>1 DEF ScheduleClose, SyncInv
  <2>3. In(tasks') = In(tasks) \cup {Close(handle)} /\ Once(tasks')
    BY <1>0, <1>7, <2>1, <2>2, SyncTask, PrependIn DEF ScheduleClose
  <2> QED
    BY <1>7, <2>1, <2>3, PlaceQuiet, KindsDiffer DEF ScheduleClose
<1>8. CASE Unschedule
  <2>1. In(tasks') \subseteq In(tasks) /\ Once(tasks')
    BY <1>0, <1>8, UnscheduleIn DEF Unschedule
  <2> QED
    BY <1>8, <2>1, PlaceQuiet DEF Unschedule
<1>9. ASSUME NEW t \in Transactions, PerformNextStep(t) PROVE PlaceInv'
  BY <1>9, PlaceNextStep
<1>10. ASSUME NEW d \in Databases, PerformOpen(d) PROVE PlaceInv'
  <2>1. In(tasks') \subseteq In(tasks) /\ Once(tasks')
    BY <1>0, <1>10, HeadTailIn DEF PerformOpen
  <2> QED
    BY <1>10, <2>1, PlaceQuiet DEF PerformOpen
<1>11. ASSUME NEW d \in Databases, PerformClose(d) PROVE PlaceInv'
  <2>1. In(tasks') \subseteq In(tasks) /\ Once(tasks')
    BY <1>0, <1>11, UnscheduleIn DEF PerformClose
  <2> QED
    BY <1>11, <2>1, PlaceQuiet DEF PerformClose
<1>12. CASE ScheduleNext
  <2>1. DatabaseOf[running] \in Databases
    BY <1>12, HandleAssumption DEF ScheduleNext, HandleKnown, TypeOK
  <2> QED
    BY <1>12, <2>1, PlaceSubmit DEF ScheduleNext
<1>13. CASE Shutdown
  <2>1. In(pending') = {} /\ Once(pending')
    BY <1>13, EmptyIn DEF Shutdown
  <2> QED
    BY <1>13, <2>1 DEF Shutdown, PlaceInv
<1>14. CASE CloseDatabases
  <2>1. In(tasks') \subseteq In(tasks) /\ Once(tasks')
    BY <1>0, <1>14, UnscheduleIn DEF CloseDatabases
  <2> QED
    BY <1>14, <2>1, PlaceQuiet DEF CloseDatabases
<1>15. CASE UNCHANGED vars
  BY <1>0, <1>15, PlaceQuiet DEF vars
<1> QED
  BY <1>1, <1>2, <1>3, <1>4, <1>5, <1>6, <1>7, <1>8, <1>9, <1>10, <1>11, <1>12, <1>13, <1>14,
     <1>15
  DEF Next, ContextThread, DatabaseThread

LEMMA PlaceInvariant == Spec => [](PlaceInv /\ SyncInv)
<1>1. ASSUME Init PROVE PlaceInv /\ SyncInv
  <2>1. /\ tasks = <<>> /\ callbacks = <<>> /\ pending = <<>>
        /\ \A d \in Databases : transactionQueue[d] = <<>>
        /\ doing = "nothing"
    BY <1>1 DEF Init
  <2> QED
    BY <2>1, EmptyIn DEF PlaceInv, SyncInv
<1> QED
  BY <1>1, TypeCorrect, HandlesKnown, PlaceStep, SyncStep, PTL DEF Spec

\* A transaction has one step under way, with the thread that takes it.
THEOREM StepsAreAlone == Spec => []OneStepAtATime
<1>1. TypeOK /\ PlaceInv => OneStepAtATime
  <2> SUFFICES ASSUME TypeOK, PlaceInv
               PROVE  OneStepAtATime
    OBVIOUS
  <2>1. /\ DOMAIN tasks = 1..Len(tasks) /\ DOMAIN callbacks = 1..Len(callbacks)
        /\ \A i \in 1..Len(tasks) : tasks[i] \in Tasks
        /\ \A i \in 1..Len(callbacks) : callbacks[i] \in Transactions
    BY ElementOfSeq, LenProperties DEF TypeOK
  <2>2. ASSUME NEW i \in DOMAIN tasks, tasks[i].kind = "step"
        PROVE  step[tasks[i].of] \in ThreadSteps
    <3>1. tasks[i].of \in Transactions /\ tasks[i] = Step(tasks[i].of)
      BY <2>1, <2>2 DEF Tasks, Step
    <3>2. Step(tasks[i].of) \in In(tasks)
      BY <2>1, <3>1 DEF In
    <3> QED
      BY <3>1, <3>2 DEF PlaceInv
  <2>3. \A i \in DOMAIN callbacks : step[callbacks[i]] \in ContextSteps
    BY <2>1 DEF PlaceInv, In
  <2>4. /\ \A i, j \in DOMAIN tasks : tasks[i] = tasks[j] => i = j
        /\ \A i, j \in DOMAIN callbacks : callbacks[i] = callbacks[j] => i = j
    BY <2>1 DEF PlaceInv, Once
  <2> QED
    BY <2>2, <2>3, <2>4 DEF OneStepAtATime
<1> QED
  BY <1>1, TypeCorrect, PlaceInvariant, PTL

\* A transaction that waits has one in progress, by the flag, or is being submitted.
FlagInv ==
    \A d \in Databases \ stopped :
        transactionQueue[d] # <<>> => inProgress[d] \/ (doing = "submitting" /\ handle = d)

LEMMA FlagStep ==
    TypeOK /\ HandleKnown /\ PlaceInv /\ SyncInv /\ FlagInv /\ [Next]_vars
      => FlagInv'
<1> SUFFICES ASSUME TypeOK, HandleKnown, PlaceInv, SyncInv, FlagInv, [Next]_vars
             PROVE  FlagInv'
  OBVIOUS
<1> USE DEF contextVars, handleVars, queueVars
<1>0. \A s : \A d \in Databases : ScheduleTransaction(d, s) =>
        /\ transactionQueue'[d] # <<>> => inProgress'[d] \/ d \in stopped
        /\ \A e \in Databases \ {d} :
              transactionQueue'[e] = transactionQueue[e] /\ inProgress'[e] = inProgress[e]
  BY DEF ScheduleTransaction, TypeOK
<1>1. ASSUME NEW d \in Databases, OpenDatabase(d) \/ MarkAsDeleted(d) PROVE FlagInv'
  BY <1>1 DEF OpenDatabase, MarkAsDeleted, FlagInv
<1>2. ASSUME NEW d \in Databases, Stop(d) PROVE FlagInv'
  BY <1>2 DEF Stop, FlagInv, TypeOK
<1>3. ASSUME NEW t \in Transactions, Transaction(t) PROVE FlagInv'
  BY <1>3 DEF Transaction, FlagInv, TypeOK
<1>4. ASSUME NEW t \in Transactions, PerformPendingCallback(t) PROVE FlagInv'
  BY <1>4 DEF PerformPendingCallback, FlagInv
<1>5. CASE OpenReturns \/ DeleteDatabaseFile \/ ScheduleClose \/ CloseReturns \/ Unschedule
           \/ RequestTermination
  BY <1>5 DEF OpenReturns, DeleteDatabaseFile, ScheduleClose, CloseReturns, Unschedule,
     RequestTermination, FlagInv
<1>6. CASE Submit
  <2>1. handle \in Databases
    BY <1>6 DEF Submit, HandleKnown, TypeOK
  <2>2. CASE inProgress[handle]
    BY <1>6, <2>1, <2>2 DEF Submit, FlagInv
  <2>3. CASE ~inProgress[handle]
    BY <1>0, <1>6, <2>1, <2>3 DEF Submit, FlagInv
  <2> QED
    BY <2>2, <2>3
<1>7. ASSUME NEW t \in Transactions, PerformNextStep(t) PROVE FlagInv'
  BY <1>7 DEF PerformNextStep, FlagInv
<1>8. ASSUME NEW d \in Databases, PerformOpen(d) \/ PerformClose(d) PROVE FlagInv'
  <2>1. Open(d) \in In(tasks) \/ Close(d) \in In(tasks)
    BY <1>8, HeadTailIn DEF PerformOpen, PerformClose, TypeOK
  <2>2. doing # "submitting"
    BY <2>1 DEF SyncInv
  <2> QED
    BY <1>8, <2>2 DEF PerformOpen, PerformClose, FlagInv
<1>9. CASE ScheduleNext
  <2>1. DatabaseOf[running] \in Databases
    BY <1>9, HandleAssumption DEF ScheduleNext, HandleKnown, TypeOK
  <2> QED
    BY <1>0, <1>9, <2>1 DEF ScheduleNext, FlagInv
<1>10. CASE Shutdown \/ CloseDatabases
  BY <1>10 DEF Shutdown, CloseDatabases, FlagInv
<1>11. CASE UNCHANGED vars
  BY <1>11 DEF vars, FlagInv
<1> QED
  BY <1>1, <1>2, <1>3, <1>4, <1>5, <1>6, <1>7, <1>8, <1>9, <1>10, <1>11
  DEF Next, ContextThread, DatabaseThread

\* Transactions are started on handles that are open or deleted; and what opening,
\* closing and stopping are about is known.
OwnerInv ==
    /\ \A t \in Transactions : step[t] # "uncreated" => DatabaseOf[t] \in registered \cup deleted
    /\ doing \in {"opening", "openReturns"} =>
         \A t \in Transactions : DatabaseOf[t] = handle => step[t] = "uncreated"
    /\ doing = "closeReturns" => handle \in deleted
    /\ doing = "unscheduling" => handle \in stopped
    /\ killed => registered \subseteq stopped /\ doing = "nothing"
    /\ thread \in {"closing", "ended"} => killed

\* Who waits for the lock waits for somebody; between tasks nothing is running.
WaitersInv ==
    /\ pending # <<>> => Active # {}
    /\ thread # "next" => running = None

\* The flag is not set for nothing: what it stands for proceeds.
ChainInv ==
    \A d \in Databases \ (stopped \cup deleted) :
        inProgress[d] =>
            \/ thread \in {"closing", "ended"}
            \/ \E t \in Transactions : DatabaseOf[t] = d /\ Proceeds(t)

LEMMA ProceedsIn ==
    \A t : /\ Proceeds(t) <=> \/ Step(t) \in In(tasks) \/ t \in In(callbacks)
                              \/ Active # {} /\ t \in In(pending)
                              \/ running = t
           /\ Proceeds(t)' <=> \/ Step(t) \in In(tasks') \/ t \in In(callbacks')
                               \/ Active' # {} /\ t \in In(pending')
                               \/ running' = t
  BY DEF Proceeds, In, Step

\* After the turns are given, who still waits for the lock waits for somebody.
LEMMA TurnsLeave ==
    ASSUME NEW t \in Transactions, NEW s, NEW p \in Seq(Transactions),
           NEW rs \in SUBSET Transactions, NEW w \in Transactions \cup {None},
           ProcessPendingTransactions(t, s, p, rs, w)
    PROVE  pending' # <<>> => Active' # {}
<1>1. PICK n \in 0..Len(p) :
        LET granted == {p[i] : i \in 1..n} IN
        /\ Turn(n, p, rs, w)
        /\ pending' = SubSeq(p, n + 1, Len(p))
        /\ readers' = rs \cup (granted \cap ReadOnly)
        /\ writer' = IF granted \cap Writers = {} THEN w ELSE p[1]
  BY DEF ProcessPendingTransactions
<1> DEFINE granted == {p[i] : i \in 1..n}
<1>2. Active' = readers' \cup (IF writer' = None THEN {} ELSE {writer'})
  BY DEF Active
<1>3. Len(p) \in Nat /\ \A i \in 1..Len(p) : p[i] \in Transactions
  BY ElementOfSeq, LenProperties
<1>4. CASE n = 0
  <2>1. granted = {} /\ readers' = rs /\ writer' = w
    BY <1>1, <1>4
  <2>2. pending' = p
    BY <1>1, <1>4
  <2> QED
    BY <1>1, <1>2, <1>4, <2>1, <2>2 DEF Turn
<1>5. CASE n # 0 /\ \A i \in 1..n : p[i] \in ReadOnly
  <2>1. p[1] \in granted \cap ReadOnly
    BY <1>3, <1>5
  <2> QED
    BY <1>1, <1>2, <2>1
<1>6. CASE n = 1 /\ p # <<>> /\ Head(p) \in Writers
  <2>1. Head(p) = p[1] /\ p[1] \in granted \cap Writers /\ p[1] # None
    BY <1>3, <1>6, NoneAssumption DEF Writers
  <2> QED
    BY <1>1, <1>2, <2>1
<1> QED
  BY <1>1, <1>3, <1>4, <1>5, <1>6 DEF Turn

\* A task of t leaves every transaction where it proceeds; nobody is created by it.
LEMMA TurnsProceed ==
    ASSUME TypeOK, PlaceInv, WaitersInv, NEW t \in Transactions, thread = "waiting",
           tasks # <<>>, Head(tasks) = Step(t),
           NEW s \in {"none", "acquireLock"}, NEW p \in Seq(Transactions), Once(p),
           IF s = "none" THEN In(p) = In(pending) ELSE In(p) = In(pending) \cup {t},
           NEW rs \in SUBSET Transactions, NEW w \in Transactions \cup {None},
           ProcessPendingTransactions(t, s, p, rs, w), callbacks' = callbacks,
           step'[t] = "none" => running' = t
    PROVE  /\ \A u \in Transactions : Proceeds(u) => Proceeds(u)'
           /\ \A u \in Transactions : step'[u] # "uncreated" => step[u] # "uncreated"
<1>0. s \in Steps
  BY DEF Steps, ThreadSteps
<1>1. Step(t) \in In(tasks) /\ In(Tail(tasks)) = In(tasks) \ {Step(t)}
  BY HeadTailIn DEF TypeOK, PlaceInv
<1>2. step[t] \in ThreadSteps /\ t \notin In(pending)
  BY <1>1 DEF PlaceInv
<1>3. PICK G \in SUBSET In(p) :
        /\ step' = [u \in Transactions |->
                      IF u \in G THEN "openTransactionAndPreflight"
                      ELSE IF u = t THEN s ELSE step[u]]
        /\ In(tasks') = {Step(u) : u \in G} \cup In(Tail(tasks))
        /\ In(pending') = In(p) \ G
  <2>1. PICK G \in SUBSET In(p) : TurnsGiven(G, t, s, p, rs, w)
    BY <1>0, TurnsEffect
  <2> QED
    BY <2>1 DEF TurnsGiven
<1>4. pending' # <<>> => Active' # {}
  BY TurnsLeave
<1>5. \A u \in Transactions : step[u] = "uncreated" => u \notin In(p) /\ u # t
  BY <1>2, StepsOfThreads DEF PlaceInv
<1>6. ASSUME NEW u \in Transactions, step'[u] # "uncreated" PROVE step[u] # "uncreated"
  BY <1>3, <1>5, <1>6
<1>7. ASSUME NEW u \in Transactions, u \in In(p) PROVE Proceeds(u)'
  <2>1. CASE u \in G
    BY <1>3, <2>1, ProceedsIn
  <2>2. CASE u \notin G
    <3>1. u \in In(pending')
      BY <1>3, <1>7, <2>2
    <3>2. pending' # <<>>
      BY <3>1, EmptyIn
    <3> QED
      BY <1>4, <3>1, <3>2, ProceedsIn
  <2> QED
    BY <2>1, <2>2
<1>8. CASE s = "none"
  <2>1. step'[t] = "none"
    BY <1>2, <1>3, <1>8
  <2>2. Proceeds(t)'
    BY <2>1, ProceedsIn
  <2> SUFFICES ASSUME NEW u \in Transactions \ {t}, Proceeds(u)
               PROVE  Proceeds(u)'
    BY <1>6, <2>2
  <2>3. running # u
    BY NoneAssumption DEF WaitersInv
  <2>4. CASE u \in In(pending)
    BY <1>7, <1>8, <2>4
  <2>5. CASE u \notin In(pending)
    BY <1>1, <1>3, <2>3, <2>5, StepsDiffer, ProceedsIn
  <2> QED
    BY <2>4, <2>5
<1>9. CASE s = "acquireLock"
  <2> SUFFICES ASSUME NEW u \in Transactions, Proceeds(u)
               PROVE  Proceeds(u)'
    BY <1>6
  <2>1. running # u
    BY NoneAssumption DEF WaitersInv
  <2>2. CASE u \in In(p)
    BY <1>7, <2>2
  <2>3. CASE u \notin In(p)
    <3>1. u # t /\ u \notin In(pending)
      BY <1>9, <2>3
    <3> QED
      BY <1>1, <1>3, <2>1, <3>1, StepsDiffer, ProceedsIn
  <2> QED
    BY <2>2, <2>3
<1> QED
  BY <1>8, <1>9

LEMMA NextStepProceeds ==
    ASSUME TypeOK, PlaceInv, WaitersInv, NEW t \in Transactions, PerformNextStep(t)
    PROVE  /\ \A u \in Transactions : Proceeds(u) => Proceeds(u)'
           /\ \A u \in Transactions : step'[u] # "uncreated" => step[u] # "uncreated"
           /\ pending' # <<>> => Active' # {}
<1>0. /\ tasks # <<>> /\ Head(tasks) = Step(t) /\ tasks \in Seq(Tasks) /\ thread = "waiting"
      /\ step'[t] = "none" => running' = t
  BY DEF PerformNextStep, TypeOK
<1>1. Step(t) \in In(tasks) /\ In(Tail(tasks)) = In(tasks) \ {Step(t)}
  BY <1>0, HeadTailIn DEF PlaceInv
<1>2. step[t] \in ThreadSteps /\ t \notin In(callbacks) /\ t \notin In(pending)
  BY <1>1, StepsOfThreads DEF PlaceInv
<1>3. \A u \in Transactions : running # u
  BY <1>0, NoneAssumption DEF WaitersInv
<1>4. ASSUME NEW s \in ContextSteps, ScheduleCallback(t, s)
      PROVE  /\ \A u \in Transactions : Proceeds(u) => Proceeds(u)'
             /\ \A u \in Transactions : step'[u] # "uncreated" => step[u] # "uncreated"
             /\ pending' # <<>> => Active' # {}
  <2>1. In(callbacks') = In(callbacks) \cup {t}
    BY <1>4, AppendIn DEF ScheduleCallback, TypeOK
  <2>2. \A u \in Transactions : step'[u] = IF u = t THEN s ELSE step[u]
    BY <1>4 DEF ScheduleCallback, TypeOK
  <2>3. tasks' = Tail(tasks) /\ pending' = pending /\ Active' = Active
    BY <1>4 DEF ScheduleCallback, lockVars, Active
  <2>4. ASSUME NEW u \in Transactions, Proceeds(u) PROVE Proceeds(u)'
    <3>1. CASE u = t
      BY <2>1, <3>1, ProceedsIn
    <3>2. CASE u # t
      BY <1>1, <1>3, <2>1, <2>3, <2>4, <3>2, StepsDiffer, ProceedsIn
    <3> QED
      BY <3>1, <3>2
  <2>5. \A u \in Transactions : step'[u] # "uncreated" => step[u] # "uncreated"
    BY <1>2, <2>2, StepsOfThreads
  <2> QED
    BY <2>3, <2>4, <2>5 DEF WaitersInv
<1>5. CASE step[t] = "acquireLock" /\ AcquireLock(t) /\ callbacks' = callbacks
  <2>1. /\ Append(pending, t) \in Seq(Transactions) /\ Once(Append(pending, t))
        /\ In(Append(pending, t)) = In(pending) \cup {t}
    BY <1>2, AppendIn DEF TypeOK, PlaceInv
  <2>2. readers \in SUBSET Transactions /\ writer \in Transactions \cup {None}
    BY DEF TypeOK
  <2>3. ProcessPendingTransactions(t, "acquireLock", Append(pending, t), readers, writer)
    BY <1>5 DEF AcquireLock
  <2>4. pending' # <<>> => Active' # {}
    BY <2>1, <2>2, <2>3, TurnsLeave
  <2> QED
    BY <1>0, <1>5, <2>1, <2>2, <2>3, <2>4, TurnsProceed
<1>6. CASE ReleaseLock(t) /\ callbacks' = callbacks
  <2>1. /\ pending \in Seq(Transactions) /\ Once(pending)
        /\ readers \in SUBSET Transactions /\ readers \ {t} \in SUBSET Transactions
        /\ writer \in Transactions \cup {None} /\ None \in Transactions \cup {None}
    BY DEF TypeOK, PlaceInv
  <2>2. PICK rs \in SUBSET Transactions, w \in Transactions \cup {None} :
          ProcessPendingTransactions(t, "none", pending, rs, w)
    BY <1>6, <2>1 DEF ReleaseLock
  <2>3. pending' # <<>> => Active' # {}
    BY <2>1, <2>2, TurnsLeave
  <2> QED
    BY <1>0, <1>6, <2>1, <2>2, <2>3, TurnsProceed
<1>7. CASE /\ step' = [step EXCEPT ![t] = "none"] /\ tasks' = Tail(tasks)
           /\ UNCHANGED <<lockVars, callbacks>>
  <2>1. \A u \in Transactions : step'[u] = IF u = t THEN "none" ELSE step[u]
    BY <1>7 DEF TypeOK
  <2>2. pending' = pending /\ Active' = Active
    BY <1>7 DEF lockVars, Active
  <2>3. running' = t
    BY <1>0, <2>1
  <2>4. ASSUME NEW u \in Transactions, Proceeds(u) PROVE Proceeds(u)'
    BY <1>1, <1>3, <1>7, <2>2, <2>3, <2>4, StepsDiffer, ProceedsIn
  <2>5. \A u \in Transactions : step'[u] # "uncreated" => step[u] # "uncreated"
    BY <1>2, <2>1, StepsOfThreads
  <2> QED
    BY <2>2, <2>4, <2>5 DEF WaitersInv
<1> QED
  BY <1>4, <1>5, <1>6, <1>7, NextStepKinds

LEMMA WaitersStep == TypeOK /\ HandleKnown /\ PlaceInv /\ WaitersInv /\ [Next]_vars => WaitersInv'
<1> SUFFICES ASSUME TypeOK, HandleKnown, PlaceInv, WaitersInv, [Next]_vars
             PROVE  WaitersInv'
  OBVIOUS
<1> USE DEF lockVars, threadVars
<1>1. ASSUME UNCHANGED <<pending, readers, writer, thread, running>> PROVE WaitersInv'
  BY <1>1 DEF WaitersInv, Active
<1>2. CASE ContextThread
  BY <1>1, <1>2 DEF ContextThread, OpenDatabase, MarkAsDeleted, Stop, Transaction,
     PerformPendingCallback, OpenReturns, Submit, DeleteDatabaseFile, ScheduleClose, CloseReturns,
     Unschedule, RequestTermination
<1>3. ASSUME NEW t \in Transactions, PerformNextStep(t) PROVE WaitersInv'
  <2>1. pending' # <<>> => Active' # {}
    BY <1>3, NextStepProceeds
  <2>2. thread' = "next" \/ UNCHANGED <<thread, running>>
    BY <1>3 DEF PerformNextStep
  <2> QED
    BY <2>1, <2>2 DEF WaitersInv
<1>4. ASSUME NEW d \in Databases, PerformOpen(d) \/ PerformClose(d) PROVE WaitersInv'
  BY <1>1, <1>4 DEF PerformOpen, PerformClose
<1>5. CASE ScheduleNext
  BY <1>5 DEF ScheduleNext, WaitersInv, Active
<1>6. CASE Shutdown \/ CloseDatabases
  BY <1>6 DEF Shutdown, CloseDatabases, WaitersInv, Active
<1>7. CASE UNCHANGED vars
  BY <1>1, <1>7 DEF vars
<1> QED
  BY <1>2, <1>3, <1>4, <1>5, <1>6, <1>7 DEF Next, DatabaseThread

LEMMA OwnerStep ==
    TypeOK /\ PlaceInv /\ SyncInv /\ WaitersInv /\ OwnerInv /\ [Next]_vars => OwnerInv'
<1> SUFFICES ASSUME TypeOK, PlaceInv, SyncInv, WaitersInv, OwnerInv, [Next]_vars
             PROVE  OwnerInv'
  OBVIOUS
<1> USE DEF contextVars, handleVars, threadVars
<1>1. ASSUME UNCHANGED <<doing, handle, registered, deleted, stopped, killed>>,
             thread' \in {"closing", "ended"} => killed,
             \A u \in Transactions : step'[u] # "uncreated" => step[u] # "uncreated"
      PROVE  OwnerInv'
  BY <1>1 DEF OwnerInv
<1>2. ASSUME NEW d \in Databases, OpenDatabase(d) PROVE OwnerInv'
  BY <1>2 DEF OpenDatabase, OwnerInv
<1>3. ASSUME NEW d \in Databases, MarkAsDeleted(d) PROVE OwnerInv'
  BY <1>3 DEF MarkAsDeleted, OwnerInv
<1>4. ASSUME NEW d \in Databases, Stop(d) PROVE OwnerInv'
  BY <1>4 DEF Stop, OwnerInv
<1>5. ASSUME NEW t \in Transactions, Transaction(t) PROVE OwnerInv'
  <2>1. \A u \in Transactions : step'[u] = IF u = t THEN "acquireLock" ELSE step[u]
    BY <1>5 DEF Transaction, TypeOK
  <2> QED
    BY <1>5, <2>1 DEF Transaction, OwnerInv
<1>6. ASSUME NEW t \in Transactions, PerformPendingCallback(t) PROVE OwnerInv'
  <2>1. t \in In(callbacks)
    BY <1>6, PendingCallbackEffect, HeadTailIn, ZenonT(40) DEF TypeOK
  <2>2. step[t] # "uncreated"
    BY <2>1, StepsOfThreads DEF PlaceInv
  <2>3. \A u \in Transactions \ {t} : step'[u] = step[u]
    <3>1. \E s : step' = [step EXCEPT ![t] = s]
      BY <1>6, PendingCallbackEffect DEF ScheduleStep, CancelCallback
    <3> QED
      BY <3>1 DEF TypeOK
  <2>4. \A u \in Transactions : step'[u] # "uncreated" => step[u] # "uncreated"
    BY <2>2, <2>3
  <2> QED
    BY <1>1, <1>6, <2>4 DEF PerformPendingCallback, OwnerInv
<1>7. CASE OpenReturns \/ DeleteDatabaseFile \/ ScheduleClose \/ CloseReturns
  BY <1>7 DEF OpenReturns, DeleteDatabaseFile, ScheduleClose, CloseReturns, OwnerInv
<1>8. CASE Submit \/ Unschedule \/ RequestTermination
  BY <1>8 DEF Submit, Unschedule, RequestTermination, OwnerInv
<1>9. ASSUME NEW t \in Transactions, PerformNextStep(t) PROVE OwnerInv'
  <2>1. \A u \in Transactions : step'[u] # "uncreated" => step[u] # "uncreated"
    BY <1>9, NextStepProceeds
  <2>2. thread' \notin {"closing", "ended"}
    BY <1>9 DEF PerformNextStep
  <2> QED
    BY <1>1, <1>9, <2>1, <2>2 DEF PerformNextStep
<1>10. ASSUME NEW d \in Databases, PerformOpen(d) PROVE OwnerInv'
  <2>1. Open(d) \in In(tasks)
    BY <1>10, HeadTailIn DEF PerformOpen, TypeOK
  <2> QED
    BY <1>10, <2>1 DEF PerformOpen, SyncInv, OwnerInv
<1>11. ASSUME NEW d \in Databases, PerformClose(d) PROVE OwnerInv'
  <2>1. Close(d) \in In(tasks)
    BY <1>11, HeadTailIn DEF PerformClose, TypeOK
  <2> QED
    BY <1>11, <2>1 DEF PerformClose, SyncInv, OwnerInv
<1>12. CASE ScheduleNext \/ Shutdown \/ CloseDatabases
  BY <1>1, <1>12 DEF ScheduleNext, Shutdown, CloseDatabases, OwnerInv
<1>13. CASE UNCHANGED vars
  BY <1>1, <1>13 DEF vars, OwnerInv
<1> QED
  BY <1>2, <1>3, <1>4, <1>5, <1>6, <1>7, <1>8, <1>9, <1>10, <1>11, <1>12, <1>13
  DEF Next, ContextThread, DatabaseThread

LEMMA ChainKept ==
    ASSUME ChainInv, stopped \subseteq stopped', deleted \subseteq deleted',
           \A d \in Databases : inProgress'[d] => inProgress[d],
           thread \in {"closing", "ended"} => thread' \in {"closing", "ended"},
           \A t \in Transactions :
               Proceeds(t) /\ DatabaseOf[t] \notin stopped' \cup deleted' => Proceeds(t)'
    PROVE  ChainInv'
  BY DEF ChainInv

\* The next transaction of d is scheduled, or none is in progress.
LEMMA ChainSchedule ==
    ASSUME TypeOK, PlaceInv, ChainInv, NEW d \in Databases, ScheduleTransaction(d, tasks),
           UNCHANGED <<callbacks, lockVars, stopped, deleted>>, running' \in {running, None},
           running \in Transactions => running' = running \/ DatabaseOf[running] = d,
           thread \notin {"closing", "ended"}
    PROVE  ChainInv'
<1>1. \A e \in Databases \ {d} : inProgress'[e] = inProgress[e]
  BY DEF ScheduleTransaction, TypeOK
<1>2. In(tasks) \subseteq In(tasks')
  <2>1. CASE d \notin stopped /\ transactionQueue[d] # <<>>
    <3>1. Head(transactionQueue[d]) \in Transactions
      BY <2>1, HeadTailIn DEF TypeOK
    <3>2. tasks' = Append(tasks, Step(Head(transactionQueue[d])))
      BY <2>1 DEF ScheduleTransaction
    <3>3. tasks \in Seq(Tasks) /\ Step(Head(transactionQueue[d])) \in Tasks
      BY <3>1, StepTask DEF TypeOK
    <3> QED
      BY <3>2, <3>3, AppendIn
  <2>2. CASE ~(d \notin stopped /\ transactionQueue[d] # <<>>)
    BY <2>2 DEF ScheduleTransaction
  <2> QED
    BY <2>1, <2>2
<1>3. pending' = pending /\ Active' = Active
  BY DEF lockVars, Active
<1>4. \A t \in Transactions : Proceeds(t) /\ DatabaseOf[t] # d => Proceeds(t)'
  BY <1>2, <1>3, ProceedsIn
<1> SUFFICES ASSUME NEW e \in Databases \ (stopped \cup deleted), inProgress'[e]
             PROVE  \E t \in Transactions : DatabaseOf[t] = e /\ Proceeds(t)'
  BY DEF ChainInv
<1>5. CASE e # d
  BY <1>1, <1>4, <1>5 DEF ChainInv
<1>6. CASE e = d
  <2>1. transactionQueue[d] # <<>> /\ tasks' = Append(tasks, Step(Head(transactionQueue[d])))
    BY <1>6 DEF ScheduleTransaction, TypeOK
  <2> DEFINE t == Head(transactionQueue[d])
  <2>2. t \in Transactions /\ t \in In(transactionQueue[d])
    BY <2>1, HeadTailIn DEF TypeOK
  <2>3. DatabaseOf[t] = d
    BY <2>2 DEF PlaceInv
  <2>4. Step(t) \in In(tasks')
    BY <2>1, <2>2, StepTask, AppendIn DEF TypeOK
  <2> HIDE DEF t
  <2> QED
    BY <1>6, <2>2, <2>3, <2>4, ProceedsIn
<1> QED
  BY <1>5, <1>6

LEMMA ChainStep ==
    TypeOK /\ HandleKnown /\ PlaceInv /\ SyncInv /\ WaitersInv /\ OwnerInv /\ ChainInv /\ [Next]_vars
      => ChainInv'
<1> SUFFICES ASSUME TypeOK, HandleKnown, PlaceInv, SyncInv, WaitersInv, OwnerInv, ChainInv,
                    [Next]_vars
             PROVE  ChainInv'
  OBVIOUS
<1> USE DEF contextVars, handleVars, queueVars, threadVars
<1>0. tasks \in Seq(Tasks)
  BY DEF TypeOK
<1>1. ASSUME UNCHANGED <<callbacks, lockVars, running, thread>>,
             stopped \subseteq stopped', deleted \subseteq deleted',
             \A d \in Databases : inProgress'[d] => inProgress[d],
             \A t \in Transactions :
                 Step(t) \in In(tasks) /\ DatabaseOf[t] \notin stopped' \cup deleted'
                   => Step(t) \in In(tasks')
      PROVE  ChainInv'
  <2>1. pending' = pending /\ Active' = Active
    BY <1>1 DEF lockVars, Active
  <2>2. \A t \in Transactions :
           Proceeds(t) /\ DatabaseOf[t] \notin stopped' \cup deleted' => Proceeds(t)'
    BY <1>1, <2>1, ProceedsIn
  <2> QED
    BY <1>1, <2>2, ChainKept
<1>2. ASSUME NEW d \in Databases, OpenDatabase(d) PROVE ChainInv'
  <2>1. In(tasks') = In(tasks) \cup {Open(d)}
    BY <1>0, <1>2, SyncTask, PrependIn DEF OpenDatabase
  <2> QED
    BY <1>1, <1>2, <2>1 DEF OpenDatabase
<1>3. ASSUME NEW d \in Databases, MarkAsDeleted(d) PROVE ChainInv'
  BY <1>1, <1>3 DEF MarkAsDeleted
<1>4. ASSUME NEW d \in Databases, Stop(d) PROVE ChainInv'
  <2>1. \A e \in Databases : inProgress'[e] => inProgress[e]
    BY <1>4 DEF Stop, TypeOK
  <2> QED
    BY <1>1, <1>4, <2>1 DEF Stop
<1>5. ASSUME NEW t \in Transactions, Transaction(t) PROVE ChainInv'
  BY <1>1, <1>5 DEF Transaction
<1>6. ASSUME NEW t \in Transactions, PerformPendingCallback(t) PROVE ChainInv'
  <2>1. /\ callbacks # <<>> /\ Head(callbacks) = t /\ callbacks' = Tail(callbacks)
        /\ callbacks \in Seq(Transactions)
    BY <1>6, PendingCallbackEffect DEF TypeOK
  <2>2. In(callbacks') = In(callbacks) \ {t}
    BY <2>1, HeadTailIn DEF PlaceInv
  <2>3. /\ In(tasks) \subseteq In(tasks')
        /\ DatabaseOf[t] \notin stopped => Step(t) \in In(tasks')
    <3>1. In(Append(tasks, Step(t))) = In(tasks) \cup {Step(t)}
      BY <1>0, StepTask, AppendIn
    <3>2. \/ DatabaseOf[t] \in stopped /\ tasks' = tasks
          \/ tasks' = Append(tasks, Step(t))
      BY <1>6, PendingCallbackEffect DEF ScheduleStep, CancelCallback
    <3> QED
      BY <3>1, <3>2
  <2>4. pending' = pending /\ Active' = Active
    BY <1>6 DEF PerformPendingCallback, lockVars, Active
  <2>5. /\ UNCHANGED <<running, thread, stopped, deleted, inProgress>>
    BY <1>6 DEF PerformPendingCallback
  <2>6. \A u \in Transactions :
           Proceeds(u) /\ DatabaseOf[u] \notin stopped' \cup deleted' => Proceeds(u)'
    BY <2>2, <2>3, <2>4, <2>5, ProceedsIn
  <2> QED
    BY <2>5, <2>6, ChainKept
<1>7. CASE OpenReturns \/ DeleteDatabaseFile \/ CloseReturns \/ RequestTermination
  BY <1>1, <1>7 DEF OpenReturns, DeleteDatabaseFile, CloseReturns, RequestTermination
<1>8. CASE ScheduleClose
  <2>1. handle \in Databases
    BY <1>8 DEF ScheduleClose, HandleKnown, TypeOK
  <2>2. In(tasks') = In(tasks) \cup {Close(handle)}
    BY <1>0, <1>8, <2>1, SyncTask, PrependIn DEF ScheduleClose
  <2> QED
    BY <1>1, <1>8, <2>2 DEF ScheduleClose
<1>9. CASE Unschedule
  <2>1. handle \in stopped \cup deleted
    BY <1>9 DEF Unschedule, SyncInv, OwnerInv
  <2>2. \A t \in Transactions : Step(t) \in In(tasks) /\ DatabaseOf[t] # handle
          => Step(t) \in In(tasks')
    BY <1>9, StepTask, UnscheduleIn DEF Unschedule
  <2> QED
    BY <1>1, <1>9, <2>1, <2>2 DEF Unschedule
<1>10. CASE Submit
  <2>1. handle \in Databases
    BY <1>10 DEF Submit, HandleKnown, TypeOK
  <2>2. CASE inProgress[handle]
    BY <1>1, <1>10, <2>2 DEF Submit
  <2>3. CASE ~inProgress[handle]
    <3>1. thread \notin {"closing", "ended"}
      BY <1>10 DEF Submit, OwnerInv
    <3> QED
      BY <1>10, <2>1, <2>3, <3>1, ChainSchedule DEF Submit
  <2> QED
    BY <2>2, <2>3
<1>11. ASSUME NEW t \in Transactions, PerformNextStep(t) PROVE ChainInv'
  <2>1. \A u \in Transactions : Proceeds(u) => Proceeds(u)'
    BY <1>11, NextStepProceeds
  <2>2. UNCHANGED <<stopped, deleted, inProgress>> /\ thread = "waiting"
    BY <1>11 DEF PerformNextStep
  <2> QED
    BY <2>1, <2>2, ChainKept
<1>12. ASSUME NEW d \in Databases, PerformOpen(d) PROVE ChainInv'
  <2>1. In(tasks') = In(tasks) \ {Open(d)}
    BY <1>0, <1>12, HeadTailIn DEF PerformOpen, PlaceInv
  <2> QED
    BY <1>1, <1>12, <2>1, KindsDiffer DEF PerformOpen
<1>13. ASSUME NEW d \in Databases, PerformClose(d) PROVE ChainInv'
  <2>1. Close(d) \in In(tasks)
    BY <1>0, <1>13, HeadTailIn DEF PerformClose
  <2>2. d \in deleted
    BY <2>1 DEF SyncInv
  <2>3. \A t \in Transactions : Step(t) \in In(tasks) /\ DatabaseOf[t] # d
          => Step(t) \in In(tasks')
    BY <1>13, StepTask, UnscheduleIn DEF PerformClose
  <2> QED
    BY <1>1, <1>13, <2>2, <2>3 DEF PerformClose
<1>14. CASE ScheduleNext
  <2>1. running \in Transactions /\ DatabaseOf[running] \in Databases
    BY <1>14, HandleAssumption DEF ScheduleNext, HandleKnown, TypeOK
  <2> QED
    BY <1>14, <2>1, ChainSchedule DEF ScheduleNext
<1>15. CASE Shutdown \/ CloseDatabases
  BY <1>15 DEF Shutdown, CloseDatabases, ChainInv
<1>16. CASE UNCHANGED vars
  BY <1>1, <1>16 DEF vars
<1> QED
  BY <1>2, <1>3, <1>4, <1>5, <1>6, <1>7, <1>8, <1>9, <1>10, <1>11, <1>12, <1>13, <1>14, <1>15,
     <1>16
  DEF Next, ContextThread, DatabaseThread

\* While a handle is neither stopped nor deleted, a transaction that waits in its
\* queue is about to be submitted, or another of the handle proceeds: one of its
\* steps is queued, it waits for the lock somebody has, or its end is being handled.
THEOREM NothingIsStranded == Spec => []NothingStranded
<1>1. Init => FlagInv /\ WaitersInv /\ OwnerInv /\ ChainInv
  BY DEF Init, FlagInv, WaitersInv, OwnerInv, ChainInv
<1>2. TypeOK /\ PlaceInv /\ FlagInv /\ OwnerInv /\ ChainInv => NothingStranded
  <2> SUFFICES ASSUME TypeOK, PlaceInv, FlagInv, OwnerInv, ChainInv,
                      NEW d \in Databases \ (stopped \cup deleted),
                      transactionQueue[d] # <<>>,
                      ~(doing = "submitting" /\ handle = d)
               PROVE  \E t \in Transactions : DatabaseOf[t] = d /\ Proceeds(t)
    BY DEF NothingStranded
  <2>1. inProgress[d]
    BY DEF FlagInv
  <2> DEFINE t == Head(transactionQueue[d])
  <2>2. t \in Transactions /\ t \in In(transactionQueue[d])
    BY HeadTailIn DEF TypeOK
  <2>3. DatabaseOf[t] = d /\ step[t] # "uncreated"
    BY <2>2 DEF PlaceInv
  <2> HIDE DEF t
  <2>4. d \in registered
    BY <2>2, <2>3 DEF OwnerInv
  <2>5. thread \notin {"closing", "ended"}
    BY <2>4 DEF OwnerInv
  <2> QED
    BY <2>1, <2>5 DEF ChainInv
<1> QED
  BY <1>1, <1>2, FlagStep, WaitersStep, OwnerStep, ChainStep, TypeCorrect, HandlesKnown,
     PlaceInvariant, PTL DEF Spec

-----------------------------------------------------------------------------
(* Turns. *)

\* Who has the lock, and that what SQLite has open on the file is theirs.
LockInv ==
    /\ readers \subseteq ReadOnly
    /\ writer \in Writers \cup {None}
    /\ writer # None => readers = {}
    /\ thread \in {"closing", "ended"} => readers = {} /\ writer = None
    /\ \A t \in Transactions :
        /\ t \in lockAcquired => step[t] \notin {"uncreated", "acquireLock"}
        /\ thread \in {"waiting", "next"} /\ step[t] \notin {"uncreated", "none", "acquireLock"}
             => t \in Active

ConnectionInv ==
    \A d \in Databases :
        connection[d] # None =>
            /\ DatabaseOf[connection[d]] = d
            /\ d \in stopped \/ thread \in {"closing", "ended"} \/
                 /\ connection[d] \in Active
                 /\ step[connection[d]] \notin {"deliverSuccessCallback",
                                                "cleanupAfterSuccessCallback"}

\* In the task of another, a transaction may get its turn, and no more.
GoesOn(u) ==
    \/ step'[u] = step[u]
    \/ step[u] = "acquireLock" /\ step'[u] = "openTransactionAndPreflight"

\* Who has the lock after a task of t: only t can lose it, and only with its end.
LEMMA LockNextStep ==
    ASSUME TypeOK, PlaceInv, LockInv, NEW t \in Transactions, PerformNextStep(t)
    PROVE  /\ LockInv'
           /\ Active \ {t} \subseteq Active'
           /\ \A u \in Transactions \ {t} : GoesOn(u)
           /\ ~ReleaseLock(t) => Active \subseteq Active'
<1>0. /\ thread = "waiting" /\ thread' \in {"waiting", "next"}
      /\ tasks # <<>> /\ Head(tasks) = Step(t) /\ tasks \in Seq(Tasks)
      /\ step \in [Transactions -> Steps]
  BY DEF PerformNextStep, TypeOK, threadVars, Steps
<1>1. step[t] \in ThreadSteps /\ t \notin In(pending)
  BY <1>0, HeadTailIn DEF PlaceInv
<1>2. /\ \A u \in In(pending) : step[u] = "acquireLock" /\ u \in Transactions
      /\ TurnsAreExclusive(readers, writer)
      /\ Active = ActiveOf(readers, writer) /\ Active' = ActiveOf(readers', writer')
  BY ElementOfSeq DEF PlaceInv, TypeOK, LockInv, TurnsAreExclusive, Active, ActiveOf, In
<1>3. ASSUME NEW G \in SUBSET (In(pending) \cup {t}), NEW s \in {"none", "acquireLock"},
             t \in G \/ s = "acquireLock" => step[t] = "acquireLock",
             lockAcquired' = lockAcquired \cup G,
             step' = [u \in Transactions |->
                        IF u \in G THEN "openTransactionAndPreflight"
                        ELSE IF u = t THEN s ELSE step[u]],
             TurnsAreExclusive(readers', writer'),
             Active \ {t} \subseteq Active', G \subseteq Active'
      PROVE  /\ LockInv'
             /\ \A u \in Transactions \ {t} : GoesOn(u)
  <2>1. ASSUME NEW u \in Transactions
        PROVE  /\ u \in lockAcquired' => step'[u] \notin {"uncreated", "acquireLock"}
               /\ step'[u] \notin {"uncreated", "none", "acquireLock"} => u \in Active'
    BY <1>0, <1>2, <1>3 DEF LockInv
  <2>2. \A u \in Transactions \ {t} : GoesOn(u)
    BY <1>2, <1>3 DEF GoesOn
  <2> QED
    BY <1>0, <1>3, <2>1, <2>2 DEF LockInv, TurnsAreExclusive
<1>4. ASSUME step[t] \in ThreadSteps \ {"acquireLock"},
             NEW s \in ContextSteps, ScheduleCallback(t, s)
      PROVE  /\ LockInv' /\ Active' = Active
             /\ \A u \in Transactions \ {t} : step'[u] = step[u]
  <2>1. UNCHANGED <<readers, writer, lockAcquired>>
    BY <1>4 DEF ScheduleCallback, lockVars
  <2>2. Active' = Active
    BY <2>1 DEF Active
  <2>3. t \in Active
    BY <1>0, <1>4, StepsOfThreads DEF LockInv
  <2>4. \A u \in Transactions : step'[u] = IF u = t THEN s ELSE step[u]
    BY <1>0, <1>4 DEF ScheduleCallback
  <2> QED
    BY <1>0, <2>1, <2>2, <2>3, <2>4, StepsOfThreads DEF LockInv
<1>5. ASSUME step[t] = "acquireLock", AcquireLock(t)
      PROVE  /\ LockInv' /\ Active \subseteq Active'
             /\ \A u \in Transactions \ {t} : GoesOn(u)
  <2>1. /\ Append(pending, t) \in Seq(Transactions)
        /\ In(Append(pending, t)) = In(pending) \cup {t}
        /\ "acquireLock" \in Steps
        /\ readers \in SUBSET Transactions /\ writer \in Transactions \cup {None}
    BY AppendIn DEF TypeOK, Steps, ThreadSteps
  <2>2. PICK G \in SUBSET In(Append(pending, t)) :
          TurnsGiven(G, t, "acquireLock", Append(pending, t), readers, writer)
    BY <1>0, <1>5, <2>1, TurnsEffect DEF AcquireLock
  <2>3. Active' = Active \cup G /\ TurnsAreExclusive(readers', writer')
    BY <1>2, <2>2 DEF TurnsGiven
  <2> QED
    BY <1>3, <1>5, <2>1, <2>2, <2>3 DEF TurnsGiven
<1>6. ASSUME t \in lockAcquired \/ step[t] \in ThreadSteps \ {"acquireLock"}, ReleaseLock(t)
      PROVE  /\ LockInv' /\ Active \ {t} \subseteq Active'
             /\ \A u \in Transactions \ {t} : GoesOn(u)
  <2>1. t \in Active
    BY <1>0, <1>1, <1>6, StepsOfThreads DEF LockInv
  <2>2. ASSUME NEW rs \in SUBSET Transactions, NEW w \in Transactions \cup {None},
               TurnsAreExclusive(rs, w), Active \ {t} \subseteq ActiveOf(rs, w),
               ProcessPendingTransactions(t, "none", pending, rs, w)
        PROVE  /\ LockInv' /\ Active \ {t} \subseteq Active'
               /\ \A u \in Transactions \ {t} : GoesOn(u)
    <3>1. pending \in Seq(Transactions) /\ "none" \in Steps
      BY DEF TypeOK, Steps
    <3>2. PICK G \in SUBSET In(pending) : TurnsGiven(G, t, "none", pending, rs, w)
      BY <1>0, <2>2, <3>1, TurnsEffect
    <3>3. Active' = ActiveOf(rs, w) \cup G /\ TurnsAreExclusive(readers', writer')
      BY <1>2, <2>2, <3>2 DEF TurnsGiven
    <3>4. G \in SUBSET (In(pending) \cup {t}) /\ t \notin G
      BY <1>1
    <3> QED
      BY <1>3, <2>2, <3>2, <3>3, <3>4 DEF TurnsGiven
  <2>3. CASE t \in ReadOnly
    <3>1. /\ readers \ {t} \in SUBSET Transactions /\ writer \in Transactions \cup {None}
          /\ TurnsAreExclusive(readers \ {t}, writer)
          /\ Active \ {t} \subseteq ActiveOf(readers \ {t}, writer)
      BY <1>2 DEF TypeOK, TurnsAreExclusive, ActiveOf
    <3> QED
      BY <1>6, <2>2, <2>3, <3>1 DEF ReleaseLock
  <2>4. CASE t \notin ReadOnly
    <3>1. t = writer
      BY <1>2, <2>1, <2>4 DEF TurnsAreExclusive, ActiveOf
    <3>2. /\ readers \in SUBSET Transactions /\ None \in Transactions \cup {None}
          /\ TurnsAreExclusive(readers, None)
          /\ Active \ {t} \subseteq ActiveOf(readers, None)
      BY <1>2, <3>1 DEF TypeOK, TurnsAreExclusive, ActiveOf
    <3> QED
      BY <1>6, <2>2, <2>4, <3>2 DEF ReleaseLock
  <2> QED
    BY <2>3, <2>4
<1>7. ASSUME t \notin lockAcquired, step' = [step EXCEPT ![t] = "none"], UNCHANGED lockVars
      PROVE  /\ LockInv' /\ Active' = Active
             /\ \A u \in Transactions \ {t} : step'[u] = step[u]
  <2>1. UNCHANGED <<readers, writer, lockAcquired>>
    BY <1>7 DEF lockVars
  <2>2. Active' = Active
    BY <2>1 DEF Active
  <2>3. \A u \in Transactions : step'[u] = IF u = t THEN "none" ELSE step[u]
    BY <1>0, <1>7
  <2> QED
    BY <1>0, <2>1, <2>2, <2>3 DEF LockInv
<1> QED
  BY <1>4, <1>5, <1>6, <1>7, NextStepKinds DEF GoesOn

LEMMA LockStep == TypeOK /\ PlaceInv /\ LockInv /\ [Next]_vars => LockInv'
<1> SUFFICES ASSUME TypeOK, PlaceInv, LockInv, [Next]_vars
             PROVE  LockInv'
  OBVIOUS
<1> USE DEF lockVars, threadVars
<1>1. ASSUME UNCHANGED <<step, lockVars, thread>>
      PROVE  LockInv'
  <2>1. Active' = Active
    BY <1>1 DEF Active
  <2> QED
    BY <1>1, <2>1 DEF LockInv
<1>2. ASSUME NEW d \in Databases, OpenDatabase(d) \/ MarkAsDeleted(d) \/ Stop(d)
      PROVE  LockInv'
  BY <1>1, <1>2 DEF OpenDatabase, MarkAsDeleted, Stop
<1>3. ASSUME NEW t \in Transactions, Transaction(t) PROVE LockInv'
  <2>1. \A u \in Transactions : step'[u] = IF u = t THEN "acquireLock" ELSE step[u]
    BY <1>3 DEF Transaction, TypeOK
  <2>2. Active' = Active /\ UNCHANGED <<readers, writer, lockAcquired, thread>>
    BY <1>3 DEF Transaction, Active
  <2>3. t \notin lockAcquired
    BY <1>3 DEF Transaction, LockInv
  <2> QED
    BY <2>1, <2>2, <2>3 DEF LockInv
<1>4. ASSUME NEW t \in Transactions, PerformPendingCallback(t) PROVE LockInv'
  <2>0. callbacks \in Seq(Transactions) /\ callbacks # <<>> /\ Head(callbacks) = t
    BY <1>4 DEF PerformPendingCallback, TypeOK
  <2>1. t \in In(callbacks) /\ step[t] \in ContextSteps
    <3>1. t \in In(callbacks)
      BY <2>0, HeadTailIn
    <3> QED
      BY <3>1 DEF PlaceInv
  <2>2. PICK s \in (ThreadSteps \ {"acquireLock"}) \cup {"none"} :
          step' = [step EXCEPT ![t] = s]
    BY <1>4 DEF PerformPendingCallback, CancelCallback, DeliverTransactionCallback,
       DeliverStatementCallback, DeliverQuotaIncreaseCallback, DeliverSuccessCallback,
       DeliverTransactionErrorCallback, HandleErrorInCallback, ScheduleStep, ThreadSteps
  <2>3. \A u \in Transactions : step'[u] = IF u = t THEN s ELSE step[u]
    BY <2>2 DEF TypeOK
  <2>4. Active' = Active /\ UNCHANGED <<readers, writer, lockAcquired, thread>>
    BY <1>4 DEF PerformPendingCallback, Active
  <2> QED
    BY <2>1, <2>3, <2>4, StepsOfThreads DEF LockInv
<1>5. CASE OpenReturns \/ Submit \/ DeleteDatabaseFile \/ ScheduleClose \/ CloseReturns
           \/ Unschedule \/ RequestTermination
  BY <1>1, <1>5 DEF OpenReturns, Submit, DeleteDatabaseFile, ScheduleClose, CloseReturns,
     Unschedule, RequestTermination
<1>6. ASSUME NEW t \in Transactions, PerformNextStep(t) PROVE LockInv'
  BY <1>6, LockNextStep
<1>7. ASSUME NEW d \in Databases, PerformOpen(d) \/ PerformClose(d) PROVE LockInv'
  BY <1>1, <1>7 DEF PerformOpen, PerformClose
<1>8. CASE ScheduleNext
  <2>1. Active' = Active /\ thread = "next"
    BY <1>8 DEF ScheduleNext, Active
  <2> QED
    BY <1>8, <2>1 DEF ScheduleNext, LockInv
<1>9. CASE Shutdown
  BY <1>9 DEF Shutdown, LockInv
<1>10. CASE CloseDatabases
  BY <1>10 DEF CloseDatabases, LockInv
<1>11. CASE UNCHANGED vars
  BY <1>1, <1>11 DEF vars
<1> QED
  BY <1>2, <1>3, <1>4, <1>5, <1>6, <1>7, <1>8, <1>9, <1>10, <1>11
  DEF Next, ContextThread, DatabaseThread

LEMMA LockInvariant == Spec => []LockInv
<1>1. Init => LockInv
  BY DEF Init, LockInv
<1> QED
  BY <1>1, LockStep, TypeCorrect, PlaceInvariant, PTL DEF Spec

\* What a callback of the context does to its transaction, for the data.
LEMMA PendingCallbackSteps ==
    ASSUME TypeOK, PlaceInv, NEW t \in Transactions, PerformPendingCallback(t)
    PROVE  /\ step[t] \in ContextSteps
           /\ \A u \in Transactions \ {t} : step'[u] = step[u] /\ statements'[u] = statements[u]
                                              /\ current'[u] = current[u]
           /\ step'[t] \in (ThreadSteps \ {"acquireLock"}) \cup {"none"}
           /\ step[t] # "deliverSuccessCallback" /\ DatabaseOf[t] \notin stopped
                => step'[t] # "cleanupAfterSuccessCallback"
           /\ step[t] = "deliverSuccessCallback"
                => /\ step'[t] \in {"cleanupAfterSuccessCallback", "none"}
                   /\ statements'[t] \in {statements[t], 0} /\ current'[t] = current[t]
<1>0. callbacks \in Seq(Transactions) /\ callbacks # <<>> /\ Head(callbacks) = t
  BY DEF PerformPendingCallback, TypeOK
<1>1. t \in In(callbacks)
  BY <1>0, HeadTailIn
<1>2. step[t] \in ContextSteps
  BY <1>1 DEF PlaceInv
<1>3. \A u \in Transactions \ {t} : step'[u] = step[u] /\ statements'[u] = statements[u]
                                     /\ current'[u] = current[u]
  BY DEF PerformPendingCallback, CancelCallback, DeliverTransactionCallback,
     DeliverStatementCallback, DeliverQuotaIncreaseCallback, DeliverSuccessCallback,
     DeliverTransactionErrorCallback, HandleErrorInCallback, ScheduleStep, ExecuteSQL,
     statementVars, TypeOK
<1>4. /\ step'[t] \in (ThreadSteps \ {"acquireLock"}) \cup {"none"}
      /\ step[t] # "deliverSuccessCallback" /\ DatabaseOf[t] \notin stopped
           => step'[t] # "cleanupAfterSuccessCallback"
      /\ step[t] = "deliverSuccessCallback"
           => step'[t] \in {"cleanupAfterSuccessCallback", "none"}
  BY DEF PerformPendingCallback, CancelCallback, DeliverTransactionCallback,
     DeliverStatementCallback, DeliverQuotaIncreaseCallback, DeliverSuccessCallback,
     DeliverTransactionErrorCallback, HandleErrorInCallback, ScheduleStep, ThreadSteps, TypeOK
<1>5. step[t] = "deliverSuccessCallback"
        => statements'[t] \in {statements[t], 0} /\ current'[t] = current[t]
  BY DEF PerformPendingCallback, CancelCallback, DeliverSuccessCallback, statementVars, TypeOK
<1> QED
  BY <1>2, <1>3, <1>4, <1>5

LEMMA ConnectionNextStep ==
    ASSUME TypeOK, PlaceInv, LockInv, ConnectionInv, NEW t \in Transactions, PerformNextStep(t)
    PROVE  ConnectionInv'
<1>0. /\ thread = "waiting" /\ stopped' = stopped
      /\ connection \in [Databases -> Transactions \cup {None}]
      /\ step \in [Transactions -> Steps]
      /\ connection' \in [Databases -> Transactions \cup {None}]
  BY PerformNextStepType DEF PerformNextStep, handleVars, TypeOK, Steps, DataOK
<1>1. /\ LockInv' /\ Active \ {t} \subseteq Active'
      /\ \A u \in Transactions \ {t} : GoesOn(u)
      /\ ~ReleaseLock(t) => Active \subseteq Active'
  BY LockNextStep
<1>2. ASSUME NEW d \in Databases, connection'[d] # None, connection'[d] # t,
             connection'[d] = connection[d]
      PROVE  /\ DatabaseOf[connection'[d]] = d
             /\ d \in stopped \/
                  /\ connection'[d] \in Active'
                  /\ step'[connection'[d]] \notin {"deliverSuccessCallback",
                                                   "cleanupAfterSuccessCallback"}
  BY <1>0, <1>1, <1>2 DEF ConnectionInv, GoesOn
<1>3. \A d \in Databases :
        /\ RolledBack(t)[d] \in {connection[d], None} /\ RolledBack(t)[d] # t
        /\ connection[d] = t => d = DatabaseOf[t]
  <2>1. t # None /\ DatabaseOf[t] \in Databases
    BY NoneAssumption, HandleAssumption
  <2> QED
    BY <1>0, <2>1 DEF RolledBack, ConnectionInv
<1>4. SUFFICES ASSUME NEW d \in Databases, connection'[d] # None
               PROVE  /\ DatabaseOf[connection'[d]] = d
                      /\ d \in stopped \/
                           /\ connection'[d] \in Active'
                           /\ step'[connection'[d]] \notin {"deliverSuccessCallback",
                                                            "cleanupAfterSuccessCallback"}
  BY <1>0 DEF ConnectionInv
<1>5. CASE connection' = RolledBack(t)
  BY <1>2, <1>3, <1>4, <1>5
<1>6. CASE connection' = connection /\ connection[d] # t
  BY <1>2, <1>4, <1>6
<1>7. ASSUME connection' = connection, connection[d] = t, d \notin stopped
      PROVE  /\ step[t] \notin {"deliverSuccessCallback", "cleanupAfterSuccessCallback"}
             /\ t \in Active /\ d = DatabaseOf[t]
  BY <1>0, <1>3, <1>4, <1>7 DEF ConnectionInv
<1>8. CASE connection' = connection /\ connection[d] = t /\ d \in stopped
  BY <1>3, <1>8
<1>9. CASE connection' = connection /\ connection[d] = t /\ d \notin stopped
  <2>1. step[t] # "cleanupAfterSuccessCallback" /\ t \in Active /\ d = DatabaseOf[t]
    BY <1>7, <1>9
  <2>2. CASE step[t] = "acquireLock" /\ AcquireLock(t)
    <3>1. Append(pending, t) \in Seq(Transactions) /\ "acquireLock" \in Steps
          /\ readers \in SUBSET Transactions /\ writer \in Transactions \cup {None}
          /\ tasks # <<>>
      BY AppendIn DEF TypeOK, Steps, ThreadSteps, PerformNextStep
    <3>2. PICK G \in SUBSET In(Append(pending, t)) :
            TurnsGiven(G, t, "acquireLock", Append(pending, t), readers, writer)
      BY <2>2, <3>1, TurnsEffect DEF AcquireLock
    <3>3. TurnsAreExclusive(readers, writer)
      BY DEF LockInv, TurnsAreExclusive
    <3>4. t \in Active'
      BY <2>1, <3>2, <3>3 DEF TurnsGiven, ActiveOf, Active
    <3>5. step'[t] \in {"openTransactionAndPreflight", "acquireLock"}
      BY <3>2 DEF TurnsGiven
    <3> QED
      BY <1>9, <2>1, <3>4, <3>5
  <2>3. CASE \E s \in ContextSteps \ {"deliverSuccessCallback"} : ScheduleCallback(t, s)
    <3>1. Active' = Active
      BY <2>3 DEF ScheduleCallback, lockVars, Active
    <3>2. step'[t] \in ContextSteps \ {"deliverSuccessCallback"}
      BY <1>0, <2>3 DEF ScheduleCallback
    <3> QED
      BY <1>9, <2>1, <3>1, <3>2 DEF ContextSteps
  <2>4. CASE Commit(t) \/ Rollback(t)
    BY <1>3, <1>9, <2>4 DEF Commit, Rollback
  <2>5. CASE DatabaseOf[t] \in stopped
    BY <1>9, <2>1, <2>5
  <2> QED
    BY <2>1, <2>2, <2>3, <2>4, <2>5, NextStepCases DEF ContextSteps
<1>10. CASE /\ step[t] = "openTransactionAndPreflight"
            /\ connection' = [connection EXCEPT ![DatabaseOf[t]] = t]
            /\ ScheduleCallback(t, "deliverTransactionCallback")
  <2>1. Active' = Active /\ step'[t] = "deliverTransactionCallback"
    BY <1>0, <1>10 DEF ScheduleCallback, lockVars, Active
  <2>2. t \in Active
    BY <1>0, <1>10 DEF LockInv
  <2>3. CASE d = DatabaseOf[t]
    BY <1>0, <1>10, <2>1, <2>2, <2>3
  <2>4. CASE d # DatabaseOf[t]
    <3>1. connection'[d] = connection[d] /\ connection[d] # t
      BY <1>0, <1>3, <1>10, <2>4
    <3> QED
      BY <1>2, <1>4, <3>1
  <2> QED
    BY <2>3, <2>4
<1> QED
  BY <1>5, <1>6, <1>8, <1>9, <1>10, NextStepCases DEF HandleClosedDatabase, Commit, Rollback

LEMMA ConnectionStep ==
    TypeOK /\ PlaceInv /\ LockInv /\ ConnectionInv /\ [Next]_vars => ConnectionInv'
<1> SUFFICES ASSUME TypeOK, PlaceInv, LockInv, ConnectionInv, [Next]_vars
             PROVE  ConnectionInv'
  OBVIOUS
<1> USE DEF lockVars, threadVars, handleVars
<1>1. ASSUME UNCHANGED <<step, lockVars, thread, connection>>, stopped \subseteq stopped'
      PROVE  ConnectionInv'
  <2>1. Active' = Active
    BY <1>1 DEF Active
  <2> QED
    BY <1>1, <2>1 DEF ConnectionInv
<1>2. ASSUME NEW d \in Databases, OpenDatabase(d) \/ MarkAsDeleted(d) \/ Stop(d)
      PROVE  ConnectionInv'
  BY <1>1, <1>2 DEF OpenDatabase, MarkAsDeleted, Stop
<1>3. ASSUME NEW t \in Transactions, Transaction(t) PROVE ConnectionInv'
  <2>1. \A u \in Transactions : step'[u] = IF u = t THEN "acquireLock" ELSE step[u]
    BY <1>3 DEF Transaction, TypeOK
  <2>2. Active' = Active /\ UNCHANGED <<connection, thread, stopped>>
    BY <1>3 DEF Transaction, Active
  <2>3. connection \in [Databases -> Transactions \cup {None}]
    BY DEF TypeOK
  <2> QED
    BY <2>1, <2>2, <2>3 DEF ConnectionInv
<1>4. ASSUME NEW t \in Transactions, PerformPendingCallback(t) PROVE ConnectionInv'
  <2>1. Active' = Active /\ UNCHANGED <<connection, thread, stopped>>
    BY <1>4 DEF PerformPendingCallback, Active
  <2>2. /\ step'[t] \in (ThreadSteps \ {"acquireLock"}) \cup {"none"}
        /\ step[t] # "deliverSuccessCallback" /\ DatabaseOf[t] \notin stopped
              => step'[t] # "cleanupAfterSuccessCallback"
        /\ \A u \in Transactions \ {t} : step'[u] = step[u]
    BY <1>4, PendingCallbackSteps
  <2>3. connection \in [Databases -> Transactions \cup {None}]
    BY DEF TypeOK
  <2> SUFFICES ASSUME NEW d \in Databases, connection'[d] # None
               PROVE  /\ DatabaseOf[connection'[d]] = d
                      /\ d \in stopped \/ thread \in {"closing", "ended"} \/
                           /\ connection'[d] \in Active'
                           /\ step'[connection'[d]] \notin {"deliverSuccessCallback",
                                                            "cleanupAfterSuccessCallback"}
    BY <2>1 DEF ConnectionInv
  <2>4. CASE connection[d] = t
    BY <2>1, <2>2, <2>4 DEF ConnectionInv, ThreadSteps
  <2>5. CASE connection[d] # t
    BY <2>1, <2>2, <2>3, <2>5 DEF ConnectionInv
  <2> QED
    BY <2>4, <2>5
<1>5. CASE OpenReturns \/ Submit \/ DeleteDatabaseFile \/ ScheduleClose \/ CloseReturns
           \/ Unschedule \/ RequestTermination
  BY <1>1, <1>5 DEF OpenReturns, Submit, DeleteDatabaseFile, ScheduleClose, CloseReturns,
     Unschedule, RequestTermination
<1>6. ASSUME NEW t \in Transactions, PerformNextStep(t) PROVE ConnectionInv'
  BY <1>6, ConnectionNextStep
<1>7. ASSUME NEW d \in Databases, PerformOpen(d) PROVE ConnectionInv'
  BY <1>1, <1>7 DEF PerformOpen
<1>8. ASSUME NEW d \in Databases, PerformClose(d) PROVE ConnectionInv'
  <2>1. Active' = Active
    BY <1>8 DEF PerformClose, Active
  <2> QED
    BY <1>8, <2>1 DEF PerformClose, ConnectionInv, TypeOK
<1>9. CASE ScheduleNext
  <2>1. Active' = Active
    BY <1>9 DEF ScheduleNext, Active
  <2> QED
    BY <1>9, <2>1 DEF ScheduleNext, ConnectionInv
<1>10. CASE Shutdown
  BY <1>10 DEF Shutdown, ConnectionInv
<1>11. CASE CloseDatabases
  BY <1>11 DEF CloseDatabases, ConnectionInv
<1>12. CASE UNCHANGED vars
  BY <1>1, <1>12 DEF vars
<1> QED
  BY <1>2, <1>3, <1>4, <1>5, <1>6, <1>7, <1>8, <1>9, <1>10, <1>11, <1>12
  DEF Next, ContextThread, DatabaseThread

\* The transaction whose turn it is finds no other open that it conflicts with.
THEOREM TurnsFindFileFree == Spec => []TurnFindsFileFree
<1>1. Init => ConnectionInv
  BY DEF Init, ConnectionInv
<1>2. LockInv /\ ConnectionInv => TurnFindsFileFree
  BY NoneAssumption DEF LockInv, ConnectionInv, TurnFindsFileFree, Conflict, Active, Writers
<1> QED
  BY <1>1, <1>2, ConnectionStep, LockInvariant, TypeCorrect, PlaceInvariant, PTL DEF Spec

-----------------------------------------------------------------------------
(* Answers. *)

CommittedInv ==
    \A t \in Transactions :
        /\ step[t] = "deliverSuccessCallback" => t \in committed
        /\ t \in committed => /\ step[t] \in {"deliverSuccessCallback",
                                              "cleanupAfterSuccessCallback", "none"}
                              /\ statements[t] = 0 /\ current[t] = "none"

\* A task of t changes the statements and the state of SQLite of no other.
LEMMA NextStepOthers ==
    ASSUME TypeOK, NEW t \in Transactions, PerformNextStep(t)
    PROVE  \A u \in Transactions \ {t} :
             /\ statements'[u] = statements[u] /\ current'[u] = current[u]
             /\ sqlite'[u] = sqlite[u]
<1> DEFINE Others == \A u \in Transactions \ {t} :
                       /\ statements'[u] = statements[u] /\ current'[u] = current[u]
                       /\ sqlite'[u] = sqlite[u]
<1>0. /\ statements \in [Transactions -> Nat]
      /\ current \in [Transactions -> {"none", "done", "failed", "raised", "handled"}]
      /\ sqlite \in [Transactions -> {"none", "inProgress", "ended"}]
  BY DEF TypeOK
<1>1. ASSUME NEW left, NEW conn, HandleTransactionError(t, left, conn)
      PROVE  \A u \in Transactions \ {t} :
               statements'[u] = statements[u] /\ sqlite'[u] = sqlite[u]
  BY <1>0, <1>1 DEF HandleTransactionError, CleanupAfterError
<1>2. ASSUME NEW state, NEW left, NEW conn, HandleCurrentStatementError(t, state, left, conn)
      PROVE  Others
  BY <1>0, <1>1, <1>2 DEF HandleCurrentStatementError
<1>3. CASE HandleClosedDatabase(t)
  BY <1>0, <1>3 DEF HandleClosedDatabase
<1>4. CASE OpenTransactionAndPreflight(t)
  BY <1>0, <1>1, <1>4 DEF OpenTransactionAndPreflight
<1>5. CASE RunStatements(t)
  <2>1. ASSUME PostflightAndCommit(t)
        PROVE  Others
    BY <1>0, <1>1, <2>1 DEF PostflightAndCommit, CleanupAfterSuccess
  <2>2. ASSUME NEW left, StatementNeedsCallback(t, left)
        PROVE  Others
    BY <1>0, <1>2, <2>2 DEF StatementNeedsCallback
  <2> HIDE DEF Others
  <2> QED
    BY <1>2, <1>5, <2>1, <2>2 DEF RunStatements, Others
<1>6. CASE UNCHANGED <<sqlite, statements, current>>
  BY <1>6
<1>7. CASE CleanupAfterSuccess(t) /\ UNCHANGED <<statements, current>>
  BY <1>0, <1>7 DEF CleanupAfterSuccess
<1>8. CASE CleanupAfterError(t) /\ UNCHANGED current
  BY <1>0, <1>8 DEF CleanupAfterError
<1> QED
  BY <1>3, <1>4, <1>5, <1>6, <1>7, <1>8 DEF PerformNextStep

\* A release leaves t without a step: t is not pending.
LEMMA ReleasedStep ==
    ASSUME TypeOK, PlaceInv, NEW t \in Transactions, PerformNextStep(t), ReleaseLock(t)
    PROVE  step'[t] = "none"
<1>1. tasks # <<>> /\ Head(tasks) = Step(t) /\ tasks \in Seq(Tasks)
  BY DEF PerformNextStep, TypeOK
<1>2. t \notin In(pending)
  BY <1>1, HeadTailIn DEF PlaceInv
<1>3. ASSUME NEW rs \in SUBSET Transactions, NEW w \in Transactions \cup {None},
             ProcessPendingTransactions(t, "none", pending, rs, w)
      PROVE  step'[t] = "none"
  <2>1. pending \in Seq(Transactions) /\ "none" \in Steps
    BY DEF TypeOK, Steps
  <2>2. PICK G \in SUBSET In(pending) : TurnsGiven(G, t, "none", pending, rs, w)
    BY <1>1, <1>3, <2>1, TurnsEffect
  <2> QED
    BY <1>2, <2>2 DEF TurnsGiven
<1>4. /\ readers \in SUBSET Transactions /\ readers \ {t} \in SUBSET Transactions
      /\ writer \in Transactions \cup {None} /\ None \in Transactions \cup {None}
  BY DEF TypeOK
<1> QED
  BY <1>3, <1>4 DEF ReleaseLock

LEMMA CommittedNextStep ==
    ASSUME TypeOK, PlaceInv, LockInv, CommittedInv, NEW t \in Transactions, PerformNextStep(t)
    PROVE  CommittedInv'
<1>0. /\ step \in [Transactions -> Steps] /\ statements \in [Transactions -> Nat]
      /\ current \in [Transactions -> {"none", "done", "failed", "raised", "handled"}]
      /\ tasks # <<>> /\ Head(tasks) = Step(t) /\ tasks \in Seq(Tasks)
  BY DEF TypeOK, Steps, PerformNextStep
<1>1. step[t] \in ThreadSteps
  BY <1>0, HeadTailIn DEF PlaceInv
<1>2. \A u \in Transactions \ {t} : /\ GoesOn(u)
                                    /\ statements'[u] = statements[u] /\ current'[u] = current[u]
  BY LockNextStep, NextStepOthers
<1>3. ASSUME committed' \in {committed, committed \cup {t}},
             step'[t] = "deliverSuccessCallback" => t \in committed',
             t \in committed' => /\ step'[t] \in {"deliverSuccessCallback",
                                                  "cleanupAfterSuccessCallback", "none"}
                                 /\ statements'[t] = 0 /\ current'[t] = "none"
      PROVE  CommittedInv'
  BY <1>2, <1>3 DEF CommittedInv, GoesOn
<1>4. t \in committed => step[t] = "cleanupAfterSuccessCallback" /\ statements[t] = 0
                         /\ current[t] = "none"
  BY <1>1, StepsOfThreads DEF CommittedInv, ContextSteps
<1>5. CASE DatabaseOf[t] \in stopped /\ HandleClosedDatabase(t)
  <2>1. statements'[t] = 0 /\ UNCHANGED <<current, committed>>
    BY <1>0, <1>5 DEF HandleClosedDatabase
  <2>2. step'[t] = "none"
    BY <1>0, <1>5, ReleasedStep DEF HandleClosedDatabase
  <2> QED
    BY <1>3, <1>4, <2>1, <2>2
<1>6. CASE /\ step[t] = "acquireLock" /\ AcquireLock(t)
           /\ UNCHANGED <<callbacks, connection, sqlite, statements, current, committed>>
  <2>1. Append(pending, t) \in Seq(Transactions) /\ "acquireLock" \in Steps
        /\ readers \in SUBSET Transactions /\ writer \in Transactions \cup {None}
    BY AppendIn DEF TypeOK, Steps, ThreadSteps
  <2>2. PICK G \in SUBSET In(Append(pending, t)) :
          TurnsGiven(G, t, "acquireLock", Append(pending, t), readers, writer)
    BY <1>0, <1>6, <2>1, TurnsEffect DEF AcquireLock
  <2>3. step'[t] \in {"openTransactionAndPreflight", "acquireLock"}
    BY <2>2 DEF TurnsGiven
  <2> QED
    BY <1>3, <1>4, <1>6, <2>3
<1>7. CASE /\ step[t] \in {"openTransactionAndPreflight", "runStatements"}
           /\ \E s \in ContextSteps \ {"deliverSuccessCallback"} : ScheduleCallback(t, s)
           /\ committed' = committed
  <2>1. step'[t] # "deliverSuccessCallback"
    BY <1>0, <1>7 DEF ScheduleCallback
  <2> QED
    BY <1>3, <1>4, <1>7, <2>1
<1>8. CASE /\ step[t] = "runStatements" /\ Commit(t)
           /\ ScheduleCallback(t, "deliverSuccessCallback") \/ Releases(t)
  <2>1. step'[t] \in {"deliverSuccessCallback", "none"}
    BY <1>0, <1>8, ReleasedStep DEF ScheduleCallback, Releases
  <2>2. committed' = committed \cup {t} /\ statements'[t] = 0 /\ current'[t] = "none"
    BY <1>0, <1>8 DEF Commit
  <2> QED
    BY <1>3, <2>1, <2>2
<1>9. CASE /\ step[t] = "cleanupAfterSuccessCallback" /\ Releases(t)
           /\ UNCHANGED <<connection, statements, current, committed>>
  <2>1. step'[t] = "none"
    BY <1>9, ReleasedStep DEF Releases
  <2> QED
    BY <1>3, <1>4, <1>9, <2>1
<1>10. CASE /\ step[t] \in ThreadSteps \ {"acquireLock", "cleanupAfterSuccessCallback"}
            /\ Releases(t) /\ Rollback(t)
  <2>1. step'[t] = "none"
    BY <1>10, ReleasedStep DEF Releases
  <2> QED
    BY <1>3, <1>4, <1>10, <2>1 DEF Rollback
<1> QED
  BY <1>5, <1>6, <1>7, <1>8, <1>9, <1>10, NextStepCases DEF ContextSteps

LEMMA CommittedStep ==
    TypeOK /\ PlaceInv /\ LockInv /\ CommittedInv /\ [Next]_vars => CommittedInv'
<1> SUFFICES ASSUME TypeOK, PlaceInv, LockInv, CommittedInv, [Next]_vars
             PROVE  CommittedInv'
  OBVIOUS
<1> USE DEF statementVars, historyVars
<1>1. ASSUME UNCHANGED <<step, statements, current, committed>>
      PROVE  CommittedInv'
  BY <1>1 DEF CommittedInv
<1>2. ASSUME NEW d \in Databases,
             OpenDatabase(d) \/ MarkAsDeleted(d) \/ Stop(d) \/ PerformOpen(d) \/ PerformClose(d)
      PROVE  CommittedInv'
  BY <1>1, <1>2 DEF OpenDatabase, MarkAsDeleted, Stop, PerformOpen, PerformClose
<1>3. ASSUME NEW t \in Transactions, Transaction(t) PROVE CommittedInv'
  <2>1. \A u \in Transactions : step'[u] = IF u = t THEN "acquireLock" ELSE step[u]
    BY <1>3 DEF Transaction, TypeOK
  <2>2. step[t] = "uncreated" /\ UNCHANGED <<statements, current, committed>>
    BY <1>3 DEF Transaction
  <2> QED
    BY <2>1, <2>2 DEF CommittedInv
<1>4. ASSUME NEW t \in Transactions, PerformPendingCallback(t) PROVE CommittedInv'
  <2>1. committed' = committed
    BY <1>4 DEF PerformPendingCallback
  <2>2. /\ step[t] \in ContextSteps
        /\ \A u \in Transactions \ {t} : step'[u] = step[u] /\ statements'[u] = statements[u]
                                           /\ current'[u] = current[u]
        /\ step'[t] \in (ThreadSteps \ {"acquireLock"}) \cup {"none"}
        /\ step[t] = "deliverSuccessCallback"
             => /\ step'[t] \in {"cleanupAfterSuccessCallback", "none"}
                /\ statements'[t] \in {statements[t], 0} /\ current'[t] = current[t]
    BY <1>4, PendingCallbackSteps
  <2>3. t \in committed => step[t] = "deliverSuccessCallback"
    BY <2>2, StepsOfThreads DEF CommittedInv, ThreadSteps
  <2> QED
    BY <2>1, <2>2, <2>3, StepsOfThreads DEF CommittedInv, ContextSteps
<1>5. CASE OpenReturns \/ Submit \/ DeleteDatabaseFile \/ ScheduleClose \/ CloseReturns
           \/ Unschedule \/ RequestTermination
  BY <1>1, <1>5 DEF OpenReturns, Submit, DeleteDatabaseFile, ScheduleClose, CloseReturns,
     Unschedule, RequestTermination
<1>6. ASSUME NEW t \in Transactions, PerformNextStep(t) PROVE CommittedInv'
  BY <1>6, CommittedNextStep
<1>7. CASE ScheduleNext \/ Shutdown \/ CloseDatabases
  BY <1>1, <1>7 DEF ScheduleNext, Shutdown, CloseDatabases
<1>8. CASE UNCHANGED vars
  BY <1>1, <1>8 DEF vars
<1> QED
  BY <1>2, <1>3, <1>4, <1>5, <1>6, <1>7, <1>8 DEF Next, ContextThread, DatabaseThread

LEMMA CommittedInvariant == Spec => []CommittedInv
<1>1. Init => CommittedInv
  BY DEF Init, CommittedInv
<1> QED
  BY <1>1, CommittedStep, LockInvariant, TypeCorrect, PlaceInvariant, PTL DEF Spec

\* The page is told of success if the transaction is in the file, whole, and of
\* an error if it is not.
THEOREM AnswersAreRight == Spec => []AnswersAreTrue
<1>1. CommittedInv => AnswersAreTrue
  BY DEF CommittedInv, AnswersAreTrue
<1> QED
  BY <1>1, CommittedInvariant, PTL

-----------------------------------------------------------------------------
(* The end. *)

OpenInv ==
    /\ \A d \in Databases : connection[d] # None => d \in opened
    /\ \A t \in Transactions : sqlite[t] = "inProgress" => t \in Active
    /\ thread = "ended" => opened = {}
    /\ thread # "ended" =>
        /\ \A t \in Transactions : step[t] # "uncreated" => DatabaseOf[t] \in opened \cup deleted
        /\ \A d \in registered :
              d \in opened \cup deleted \/ (doing \in {"opening", "openReturns"} /\ handle = d)

LEMMA OpenNextStep ==
    ASSUME TypeOK, PlaceInv, LockInv, OpenInv, NEW t \in Transactions, PerformNextStep(t)
    PROVE  OpenInv'
<1>0. /\ tasks # <<>> /\ Head(tasks) = Step(t) /\ tasks \in Seq(Tasks)
      /\ step \in [Transactions -> Steps] /\ thread = "waiting"
      /\ sqlite \in [Transactions -> {"none", "inProgress", "ended"}]
      /\ connection \in [Databases -> Transactions \cup {None}]
      /\ UNCHANGED <<opened, deleted, registered, doing, handle>>
      /\ thread' \in {"waiting", "next"}
  BY DEF PerformNextStep, TypeOK, Steps, handleVars, contextVars, threadVars
<1>1. step[t] \in ThreadSteps /\ step[t] # "uncreated"
  BY <1>0, HeadTailIn, StepsOfThreads DEF PlaceInv
<1>2. /\ Active \ {t} \subseteq Active'
      /\ ~ReleaseLock(t) => Active \subseteq Active'
      /\ \A u \in Transactions \ {t} : GoesOn(u) /\ sqlite'[u] = sqlite[u]
  BY LockNextStep, NextStepOthers
<1>3. \A d \in Databases : RolledBack(t)[d] # None => d \in opened
  BY <1>0, HandleAssumption DEF RolledBack, OpenInv
<1>4. \A d \in Databases : connection'[d] # None => d \in opened
  <2>1. CASE connection' \in {connection, RolledBack(t)}
    BY <1>3, <2>1 DEF OpenInv
  <2>2. CASE /\ DatabaseOf[t] \notin deleted
             /\ connection' = [connection EXCEPT ![DatabaseOf[t]] = t]
    BY <1>0, <1>1, <2>2 DEF OpenInv
  <2> QED
    BY <2>1, <2>2, NextStepCases DEF HandleClosedDatabase, Commit, Rollback
<1>5. sqlite'[t] = "inProgress" => t \in Active'
  <2>1. ASSUME sqlite'[t] = "inProgress"
        PROVE  t \in Active /\ ~ReleaseLock(t)
    <3>1. CASE /\ step[t] = "openTransactionAndPreflight"
               /\ ScheduleCallback(t, "deliverTransactionCallback")
      <4>1. t \in Active
        BY <1>0, <3>1 DEF LockInv
      <4>2. step'[t] # "none"
        BY <1>0, <3>1 DEF ScheduleCallback
      <4> QED
        BY <4>1, <4>2, ReleasedStep
    <3>2. CASE /\ sqlite' = sqlite
               /\ \/ \E s \in ContextSteps : ScheduleCallback(t, s)
                  \/ step[t] = "acquireLock" /\ AcquireLock(t)
      <4>1. t \in Active
        BY <2>1, <3>2 DEF OpenInv
      <4>2. CASE \E s \in ContextSteps : ScheduleCallback(t, s)
        <5>1. step'[t] # "none"
          BY <1>0, <4>2, StepsOfThreads DEF ScheduleCallback
        <5> QED
          BY <4>1, <5>1, ReleasedStep
      <4>3. CASE step[t] = "acquireLock" /\ AcquireLock(t)
        <5>1. Append(pending, t) \in Seq(Transactions) /\ "acquireLock" \in Steps
              /\ readers \in SUBSET Transactions /\ writer \in Transactions \cup {None}
          BY AppendIn DEF TypeOK, Steps, ThreadSteps
        <5>2. PICK G \in SUBSET In(Append(pending, t)) :
                TurnsGiven(G, t, "acquireLock", Append(pending, t), readers, writer)
          BY <1>0, <4>3, <5>1, TurnsEffect DEF AcquireLock
        <5>3. step'[t] # "none"
          BY <5>2 DEF TurnsGiven
        <5> QED
          BY <4>1, <5>3, ReleasedStep
      <4> QED
        BY <3>2, <4>2, <4>3
    <3>3. CASE HandleClosedDatabase(t)
      BY <1>0, <2>1, <3>3 DEF HandleClosedDatabase
    <3> QED
      BY <2>1, <3>1, <3>2, <3>3, NextStepCases DEF Releases
  <2> QED
    BY <1>2, <2>1
<1> QED
  BY <1>0, <1>1, <1>2, <1>4, <1>5 DEF OpenInv, GoesOn

LEMMA OpenStep ==
    TypeOK /\ PlaceInv /\ SyncInv /\ LockInv /\ OpenInv /\ [Next]_vars => OpenInv'
<1> SUFFICES ASSUME TypeOK, PlaceInv, SyncInv, LockInv, OpenInv, [Next]_vars
             PROVE  OpenInv'
  OBVIOUS
<1> USE DEF contextVars, handleVars, lockVars, threadVars
<1>1. ASSUME UNCHANGED <<lockVars, sqlite, connection, step, opened, thread>>,
             deleted \subseteq deleted',
             \A d \in registered' :
                d \in opened \cup deleted' \/ (doing' \in {"opening", "openReturns"} /\ handle' = d)
                  \/ thread = "ended"
      PROVE  OpenInv'
  <2>1. Active' = Active
    BY <1>1 DEF Active
  <2> QED
    BY <1>1, <2>1 DEF OpenInv
<1>2. ASSUME NEW d \in Databases, OpenDatabase(d) \/ MarkAsDeleted(d) \/ Stop(d)
      PROVE  OpenInv'
  BY <1>1, <1>2 DEF OpenDatabase, MarkAsDeleted, Stop, OpenInv
<1>3. ASSUME NEW t \in Transactions, Transaction(t) PROVE OpenInv'
  <2>1. \A u \in Transactions : step'[u] = IF u = t THEN "acquireLock" ELSE step[u]
    BY <1>3 DEF Transaction, TypeOK
  <2>2. Active' = Active
    BY <1>3 DEF Transaction, Active
  <2> QED
    BY <1>3, <2>1, <2>2 DEF Transaction, OpenInv
<1>4. ASSUME NEW t \in Transactions, PerformPendingCallback(t) PROVE OpenInv'
  <2>1. \A u \in Transactions : step'[u] # "uncreated" => step[u] # "uncreated"
    BY <1>4, PendingCallbackSteps, StepsOfThreads
  <2>2. Active' = Active
    BY <1>4 DEF PerformPendingCallback, Active
  <2> QED
    BY <1>4, <2>1, <2>2 DEF PerformPendingCallback, OpenInv
<1>5. CASE OpenReturns \/ Submit \/ DeleteDatabaseFile \/ ScheduleClose \/ CloseReturns
           \/ Unschedule \/ RequestTermination
  BY <1>1, <1>5 DEF OpenReturns, Submit, DeleteDatabaseFile, ScheduleClose, CloseReturns,
     Unschedule, RequestTermination, OpenInv
<1>6. ASSUME NEW t \in Transactions, PerformNextStep(t) PROVE OpenInv'
  BY <1>6, OpenNextStep
<1>7. ASSUME NEW d \in Databases, PerformOpen(d) PROVE OpenInv'
  <2>1. Open(d) \in In(tasks)
    BY <1>7, HeadTailIn DEF PerformOpen, TypeOK
  <2>2. doing = "opening" /\ handle = d
    BY <2>1 DEF SyncInv
  <2>3. Active' = Active
    BY <1>7 DEF PerformOpen, Active
  <2> QED
    BY <1>7, <2>2, <2>3 DEF PerformOpen, OpenInv
<1>8. ASSUME NEW d \in Databases, PerformClose(d) PROVE OpenInv'
  <2>1. Close(d) \in In(tasks)
    BY <1>8, HeadTailIn DEF PerformClose, TypeOK
  <2>2. doing = "closing" /\ d \in deleted
    BY <2>1 DEF SyncInv
  <2>3. Active' = Active
    BY <1>8 DEF PerformClose, Active
  <2> QED
    BY <1>8, <2>2, <2>3 DEF PerformClose, OpenInv, TypeOK
<1>9. CASE ScheduleNext
  <2>1. Active' = Active
    BY <1>9 DEF ScheduleNext, Active
  <2> QED
    BY <1>9, <2>1 DEF ScheduleNext, OpenInv
<1>10. CASE Shutdown
  BY <1>10 DEF Shutdown, OpenInv, TypeOK
<1>11. CASE CloseDatabases
  <2>1. Active' = Active
    BY <1>11 DEF CloseDatabases, Active
  <2> QED
    BY <1>11, <2>1 DEF CloseDatabases, OpenInv, TypeOK
<1>12. CASE UNCHANGED vars
  BY <1>1, <1>12 DEF vars, OpenInv
<1> QED
  BY <1>2, <1>3, <1>4, <1>5, <1>6, <1>7, <1>8, <1>9, <1>10, <1>11, <1>12
  DEF Next, ContextThread, DatabaseThread

\* When the database thread has ended, SQLite has no transaction and no database
\* of the context open.
THEOREM EndIsClean == Spec => []EndLeavesNothingOpen
<1>1. Init => OpenInv
  BY DEF Init, OpenInv
<1>2. LockInv /\ OpenInv => EndLeavesNothingOpen
  BY DEF LockInv, OpenInv, EndLeavesNothingOpen, Active
<1> QED
  BY <1>1, <1>2, OpenStep, LockInvariant, TypeCorrect, PlaceInvariant, PTL DEF Spec

-----------------------------------------------------------------------------
(* The transactions are serial. *)

\* A transaction that SQLite has open is no longer waiting.
BegunInv ==
    \A d \in Databases :
        connection[d] # None =>
            DatabaseOf[connection[d]] = d
            /\ step[connection[d]] \notin {"uncreated", "acquireLock"}

\* No transaction goes back to waiting.
LEMMA NotWaitingStays ==
    ASSUME TypeOK, PlaceInv, LockInv, [Next]_vars
    PROVE  \A u \in Transactions :
              step[u] \notin {"uncreated", "acquireLock"}
                => step'[u] \notin {"uncreated", "acquireLock"}
<1> DEFINE Stays == \A u \in Transactions :
                      step[u] \notin {"uncreated", "acquireLock"}
                        => step'[u] \notin {"uncreated", "acquireLock"}
<1>1. ASSUME step' = step PROVE Stays
  BY <1>1
<1>2. ASSUME NEW d \in Databases,
             OpenDatabase(d) \/ MarkAsDeleted(d) \/ Stop(d) \/ PerformOpen(d) \/ PerformClose(d)
      PROVE  Stays
  BY <1>1, <1>2 DEF OpenDatabase, MarkAsDeleted, Stop, PerformOpen, PerformClose
<1>3. ASSUME NEW t \in Transactions, Transaction(t) PROVE Stays
  BY <1>3 DEF Transaction, TypeOK
<1>4. ASSUME NEW t \in Transactions, PerformPendingCallback(t) PROVE Stays
  <2>1. /\ \A u \in Transactions \ {t} : step'[u] = step[u]
        /\ step'[t] \in (ThreadSteps \ {"acquireLock"}) \cup {"none"}
    BY <1>4, PendingCallbackSteps
  <2> QED
    BY <2>1 DEF ThreadSteps
<1>5. CASE OpenReturns \/ Submit \/ DeleteDatabaseFile \/ ScheduleClose \/ CloseReturns
           \/ Unschedule \/ RequestTermination
  BY <1>1, <1>5 DEF OpenReturns, Submit, DeleteDatabaseFile, ScheduleClose, CloseReturns,
     Unschedule, RequestTermination
<1>6. ASSUME NEW t \in Transactions, PerformNextStep(t) PROVE Stays
  <2>1. \A u \in Transactions \ {t} : GoesOn(u)
    BY <1>6, LockNextStep
  <2>2. step[t] # "acquireLock" => step'[t] \notin {"uncreated", "acquireLock"}
    <3>1. CASE step[t] # "acquireLock" /\ \E s \in ContextSteps : ScheduleCallback(t, s)
      BY <3>1 DEF ScheduleCallback, ContextSteps, TypeOK
    <3>2. CASE ReleaseLock(t)
      BY <1>6, <3>2, ReleasedStep
    <3>3. CASE step' = [step EXCEPT ![t] = "none"]
      BY <3>3 DEF TypeOK
    <3> QED
      BY <1>6, <3>1, <3>2, <3>3, NextStepKinds
  <2> QED
    BY <2>1, <2>2 DEF GoesOn
<1>7. CASE ScheduleNext \/ Shutdown \/ CloseDatabases
  BY <1>1, <1>7 DEF ScheduleNext, Shutdown, CloseDatabases
<1>8. CASE UNCHANGED vars
  BY <1>1, <1>8 DEF vars
<1> QED
  BY <1>2, <1>3, <1>4, <1>5, <1>6, <1>7, <1>8 DEF Next, ContextThread, DatabaseThread

\* SQLite begins only a transaction that has its turn, and on its own handle.
LEMMA ConnectionsBegun ==
    ASSUME TypeOK, PlaceInv, [Next]_vars
    PROVE  \A d \in Databases :
              connection'[d] \in {connection[d], None}
              \/ /\ d = DatabaseOf[connection'[d]]
                 /\ step'[connection'[d]] = "deliverTransactionCallback"
<1> DEFINE Kept == \A d \in Databases : connection'[d] \in {connection[d], None}
           Begun == \A d \in Databases :
              connection'[d] \in {connection[d], None}
              \/ /\ d = DatabaseOf[connection'[d]]
                 /\ step'[connection'[d]] = "deliverTransactionCallback"
<1>0. connection \in [Databases -> Transactions \cup {None}]
  BY DEF TypeOK
<1>1. ASSUME connection' = connection PROVE Begun
  BY <1>1
<1>2. ASSUME NEW d \in Databases,
             OpenDatabase(d) \/ MarkAsDeleted(d) \/ Stop(d) \/ PerformOpen(d)
      PROVE  Begun
  BY <1>1, <1>2 DEF OpenDatabase, MarkAsDeleted, Stop, PerformOpen
<1>3. ASSUME NEW d \in Databases, PerformClose(d) PROVE Begun
  BY <1>0, <1>3 DEF PerformClose
<1>4. ASSUME NEW t \in Transactions, Transaction(t) \/ PerformPendingCallback(t) PROVE Begun
  BY <1>1, <1>4 DEF Transaction, PerformPendingCallback
<1>5. CASE OpenReturns \/ Submit \/ DeleteDatabaseFile \/ ScheduleClose \/ CloseReturns
           \/ Unschedule \/ RequestTermination \/ ScheduleNext
  BY <1>1, <1>5 DEF OpenReturns, Submit, DeleteDatabaseFile, ScheduleClose, CloseReturns,
     Unschedule, RequestTermination, ScheduleNext
<1>6. ASSUME NEW t \in Transactions, PerformNextStep(t) PROVE Begun
  <2>1. CASE /\ connection' = [connection EXCEPT ![DatabaseOf[t]] = t]
             /\ ScheduleCallback(t, "deliverTransactionCallback")
    BY <1>0, <2>1 DEF ScheduleCallback, TypeOK
  <2>2. CASE connection' \in {connection, RolledBack(t)}
    BY <1>0, <2>2 DEF RolledBack
  <2> QED
    BY <1>6, <2>1, <2>2, NextStepCases DEF HandleClosedDatabase, Commit, Rollback
<1>7. CASE Shutdown \/ CloseDatabases
  BY <1>0, <1>7 DEF Shutdown, CloseDatabases
<1>8. CASE UNCHANGED vars
  BY <1>1, <1>8 DEF vars
<1> QED
  BY <1>2, <1>3, <1>4, <1>5, <1>6, <1>7, <1>8 DEF Next, ContextThread, DatabaseThread

LEMMA BegunInvariant == Spec => []BegunInv
<1>1. Init => BegunInv
  BY DEF Init, BegunInv
<1>2. TypeOK /\ TypeOK' /\ PlaceInv /\ LockInv /\ BegunInv /\ [Next]_vars => BegunInv'
  <2> SUFFICES ASSUME TypeOK, TypeOK', PlaceInv, LockInv, BegunInv, [Next]_vars,
                      NEW d \in Databases, connection'[d] # None
               PROVE  /\ DatabaseOf[connection'[d]] = d
                      /\ step'[connection'[d]] \notin {"uncreated", "acquireLock"}
    BY DEF BegunInv
  <2>1. connection'[d] \in Transactions
    BY DEF TypeOK
  <2> QED
    BY <2>1, NotWaitingStays, ConnectionsBegun DEF BegunInv
<1> QED
  BY <1>1, <1>2, TypeCorrect, PlaceInvariant, LockInvariant, PTL DEF Spec

\* The names of the phases.
LEMMA PhasesOfSteps ==
    /\ PhaseOf("uncreated") = "uncreated" /\ PhaseOf("acquireLock") = "waiting"
    /\ PhaseOf("none") = "over"
    /\ \A s \in {"deliverSuccessCallback", "cleanupAfterSuccessCallback"} :
          PhaseOf(s) = "succeeded"
    /\ \A s \in {"deliverTransactionErrorCallback", "cleanupAfterTransactionErrorCallback"} :
          PhaseOf(s) = "failed"
    /\ \A s \in {"openTransactionAndPreflight", "runStatements", "deliverTransactionCallback",
                 "deliverStatementCallback", "deliverQuotaIncreaseCallback"} :
          PhaseOf(s) = "active"
  BY DEF PhaseOf

\* Who is running has the lock, while the database thread goes on.
LEMMA RunningActive ==
    ASSUME TypeOK, LockInv, thread \in {"waiting", "next"},
           NEW u \in Transactions, PhaseOf(step[u]) \in File!Running
    PROVE  u \in Active
<1>1. step[u] \notin {"uncreated", "none", "acquireLock"}
  BY PhasesOfSteps DEF File!Running
<1> QED
  BY <1>1 DEF LockInv

LEMMA ActiveAgree ==
    ASSUME LockInv, NEW t \in Active, NEW u \in Active
    PROVE  ~File!Conflict(t, u)
  BY DEF LockInv, Active, File!Conflict

\* While t has the lock, what SQLite has open is either no conflict or given up.
LEMMA IsolatedStep ==
    ASSUME TypeOK, LockInv, BegunInv, thread \in {"waiting", "next"},
           NEW t \in Transactions, t \in Active
    PROVE  File!Isolated(t)
<1> SUFFICES ASSUME NEW d \in Databases, connection[d] # None,
                    File!Conflict(t, connection[d])
             PROVE  PhaseOf(step[connection[d]]) = "over" /\ connection[d] \in Transactions
  BY DEF File!Isolated
<1>1. connection[d] \in Transactions
  BY DEF TypeOK
<1>2. connection[d] \notin Active
  BY ActiveAgree
<1>3. step[connection[d]] = "none"
  BY <1>1, <1>2 DEF LockInv, BegunInv
<1> QED
  BY <1>1, <1>3, PhasesOfSteps

\* A step of t gives the turn to those of G and takes t to step s.
LEMMA GoStep ==
    ASSUME TypeOK, TypeOK', LockInv', thread' \in {"waiting", "next"},
           NEW t \in Transactions, NEW s, NEW G \in SUBSET Transactions,
           \A u \in G : step[u] = "acquireLock",
           step' = [u \in Transactions |->
                      IF u \in G THEN "openTransactionAndPreflight"
                      ELSE IF u = t THEN s ELSE step[u]]
    PROVE  File!Go(t, PhaseOf(s), G)
<1> DEFINE before == [u \in Transactions |-> PhaseOf(step[u])]
           after == [u \in Transactions |-> PhaseOf(step'[u])]
<1>1. \A u \in G : before[u] = "waiting"
  BY PhasesOfSteps
<1>2. after = [u \in Transactions |->
                 IF u \in G THEN "active" ELSE IF u = t THEN PhaseOf(s) ELSE before[u]]
  BY PhasesOfSteps
<1>3. ASSUME NEW u \in G, NEW v \in Transactions, File!Conflict(u, v)
      PROVE  after[v] \notin File!Running
  <2>1. \A x \in Transactions : after[x] \in File!Running => x \in Active'
    <3> SUFFICES ASSUME NEW x \in Transactions, PhaseOf(step'[x]) \in File!Running
                 PROVE  x \in Active'
      OBVIOUS
    <3>1. step'[x] \notin {"uncreated", "none", "acquireLock"}
      BY PhasesOfSteps DEF File!Running
    <3> QED
      BY <3>1 DEF LockInv
  <2>2. u \in Active'
    BY <2>1, <1>2 DEF File!Running
  <2> QED
    BY <1>3, <2>1, <2>2 DEF LockInv, Active, File!Conflict
<1> QED
  BY <1>1, <1>2, <1>3 DEF File!Go

\* What the file has open after a rollback of t.
LEMMA OpenAfterRollback ==
    ASSUME TypeOK, BegunInv, NEW t \in Transactions, connection' = RolledBack(t)
    PROVE  ({connection[d] : d \in Databases} \ {None})' =
             ({connection[d] : d \in Databases} \ {None}) \ {t}
<1>1. \A d \in Databases : connection'[d] = IF connection[d] = t THEN None ELSE connection[d]
  <2>1. \A d \in Databases : connection[d] = t => d = DatabaseOf[t]
    BY NoneAssumption DEF BegunInv
  <2>2. connection' = [connection EXCEPT ![DatabaseOf[t]] = IF @ = t THEN None ELSE @]
    BY DEF RolledBack
  <2> QED
    BY <2>1, <2>2 DEF TypeOK
<1>2. \A x : x \in {connection'[d] : d \in Databases} \ {None} <=>
             x \in ({connection[d] : d \in Databases} \ {None}) \ {t}
  BY <1>1
<1> QED
  BY <1>2

\* The abstract variables.
Opened == {connection[d] : d \in Databases} \ {None}
Unfinished == {t \in Transactions : statements[t] # 0 \/ current[t] # "none"}
PhaseNow == [t \in Transactions |-> PhaseOf(step[t])]

\* A task of a transaction is a step of the abstract one.
LEMMA SerialNextStep ==
    ASSUME TypeOK, TypeOK', PlaceInv, LockInv, LockInv', CommittedInv, CommittedInv', BegunInv,
           NEW t \in Transactions, PerformNextStep(t)
    PROVE  File!Next
<1>0. /\ step \in [Transactions -> Steps] /\ step[t] \in Steps
      /\ tasks # <<>> /\ Head(tasks) = Step(t) /\ tasks \in Seq(Tasks)
      /\ thread = "waiting" /\ thread' \in {"waiting", "next"}
  BY DEF TypeOK, Steps, PerformNextStep, threadVars
<1>1. step[t] \in ThreadSteps
  BY <1>0, HeadTailIn DEF PlaceInv
<1>2. File!Work(t)
  BY NextStepOthers DEF File!Work
<1>3. ASSUME NEW s \in ContextSteps, ScheduleCallback(t, s)
      PROVE  File!Go(t, PhaseOf(s), {})
  <2>1. step' = [u \in Transactions |-> IF u \in {} THEN "openTransactionAndPreflight"
                                        ELSE IF u = t THEN s ELSE step[u]]
    BY <1>0, <1>3 DEF ScheduleCallback
  <2> QED
    BY <1>0, <2>1, GoStep
<1>4. ASSUME NEW s \in {"none", "acquireLock"}, NEW p \in Seq(Transactions),
             NEW rs \in SUBSET Transactions, NEW w \in Transactions \cup {None},
             ProcessPendingTransactions(t, s, p, rs, w),
             \A u \in In(p) : step[u] = "acquireLock"
      PROVE  \E G \in SUBSET Transactions : File!Go(t, PhaseOf(s), G)
  <2>1. s \in Steps
    BY DEF Steps, ThreadSteps
  <2>2. PICK G \in SUBSET In(p) : TurnsGiven(G, t, s, p, rs, w)
    BY <1>0, <1>4, <2>1, TurnsEffect
  <2>3. In(p) \subseteq Transactions
    BY ElementOfSeq DEF In
  <2>4. File!Go(t, PhaseOf(s), G)
    BY <1>0, <1>4, <2>2, <2>3, GoStep DEF TurnsGiven
  <2> QED
    BY <2>3, <2>4
<1>5. \A u \in In(pending) : step[u] = "acquireLock" /\ u \in Transactions
  BY ElementOfSeq DEF PlaceInv, TypeOK, In
<1>6. ASSUME ReleaseLock(t)
      PROVE  \E G \in SUBSET Transactions : File!Go(t, "over", G)
  BY <1>4, <1>5, <1>6, PhasesOfSteps DEF ReleaseLock, TypeOK
<1>7. ASSUME step[t] = "acquireLock", AcquireLock(t)
      PROVE  \E G \in SUBSET Transactions : File!Go(t, "waiting", G)
  <2>1. Append(pending, t) \in Seq(Transactions)
        /\ In(Append(pending, t)) = In(pending) \cup {t}
    BY AppendIn DEF TypeOK
  <2>2. \A u \in In(Append(pending, t)) : step[u] = "acquireLock"
    BY <1>5, <1>7, <2>1
  <2>3. readers \in SUBSET Transactions /\ writer \in Transactions \cup {None}
    BY DEF TypeOK
  <2>4. ProcessPendingTransactions(t, "acquireLock", Append(pending, t), readers, writer)
    BY <1>7 DEF AcquireLock
  <2>5. \E G \in SUBSET Transactions : File!Go(t, PhaseOf("acquireLock"), G)
    BY <1>4, <2>1, <2>2, <2>3, <2>4
  <2> QED
    BY <2>5, PhasesOfSteps
<1>8. step[t] # "acquireLock" => File!Isolated(t)
  <2>1. step[t] # "acquireLock" => t \in Active
    BY <1>0, <1>1, StepsOfThreads DEF LockInv
  <2> QED
    BY <1>0, <2>1, IsolatedStep
<1>9. PhaseNow[t] = PhaseOf(step[t])
  BY DEF PhaseNow
<1>10. /\ PhaseNow[t] = "waiting" <=> step[t] = "acquireLock"
       /\ PhaseNow[t] \in File!Running \cup {"waiting"}
       /\ step[t] \in {"openTransactionAndPreflight", "runStatements"} => PhaseNow[t] = "active"
  BY <1>1, PhasesOfSteps DEF PhaseNow, ThreadSteps, File!Running
<1>11. connection' = RolledBack(t) => Opened' = Opened \ {t}
  BY OpenAfterRollback DEF Opened
<1>12. t \in committed => t \notin Unfinished'
  <2>1. committed \subseteq committed'
    BY NextStepCases DEF HandleClosedDatabase, Commit, Rollback
  <2> QED
    BY <2>1 DEF CommittedInv, Unfinished
<1>13. ASSUME Opened' \in {Opened, Opened \ {t}}, committed' = committed,
              \E G \in SUBSET Transactions : File!Go(t, "over", G)
       PROVE  File!End(t)
  BY <1>2, <1>10, <1>12, <1>13 DEF File!End, PhaseNow, Opened, Unfinished
<1>a. CASE DatabaseOf[t] \in stopped /\ HandleClosedDatabase(t)
  <2>1. CASE t \in lockAcquired
    BY <1>6, <1>13, <1>a, <2>1 DEF HandleClosedDatabase, Opened, File!Next
  <2>2. CASE t \notin lockAcquired
    <3>1. step' = [u \in Transactions |-> IF u \in {} THEN "openTransactionAndPreflight"
                                          ELSE IF u = t THEN "none" ELSE step[u]]
      BY <1>0, <1>a, <2>2 DEF HandleClosedDatabase
    <3>2. File!Go(t, "over", {})
      BY <1>0, <3>1, GoStep, PhasesOfSteps
    <3> QED
      BY <1>13, <1>a, <3>2 DEF HandleClosedDatabase, Opened, File!Next
  <2> QED
    BY <2>1, <2>2
<1>b. CASE /\ step[t] = "acquireLock" /\ AcquireLock(t)
           /\ UNCHANGED <<callbacks, connection, sqlite, statements, current, committed>>
  <2>1. File!Admit(t)
    BY <1>7, <1>10, <1>b DEF File!Admit, PhaseNow
  <2> QED
    BY <2>1 DEF File!Next
<1>c. CASE /\ step[t] = "openTransactionAndPreflight" /\ connection[DatabaseOf[t]] = None
           /\ connection' = [connection EXCEPT ![DatabaseOf[t]] = t]
           /\ ScheduleCallback(t, "deliverTransactionCallback")
           /\ UNCHANGED <<statements, current, committed>>
  <2>1. Opened' = Opened \cup {t} /\ t \notin Opened
    <3>1. \A d \in Databases : connection'[d] = IF d = DatabaseOf[t] THEN t ELSE connection[d]
      BY <1>c DEF TypeOK
    <3>2. \A d \in Databases : connection[d] # t
      BY <1>c, NoneAssumption DEF BegunInv
    <3>3. DatabaseOf[t] \in Databases /\ t # None
      BY HandleAssumption, NoneAssumption
    <3>4. \A x : x \in Opened' <=> x \in Opened \cup {t}
      BY <1>c, <3>1, <3>3 DEF Opened
    <3> QED
      BY <3>2, <3>4 DEF Opened
  <2>2. PhaseNow' = PhaseNow
    BY <1>0, <1>c, PhasesOfSteps DEF PhaseNow, ScheduleCallback
  <2>3. File!Begin(t)
    BY <1>8, <1>10, <1>c, <2>1, <2>2 DEF File!Begin, PhaseNow, Opened
  <2> QED
    BY <2>3 DEF File!Next
<1>d. CASE /\ step[t] \in {"openTransactionAndPreflight", "runStatements"}
           /\ \E s \in ContextSteps \ {"deliverSuccessCallback"} : ScheduleCallback(t, s)
           /\ connection' \in {connection, RolledBack(t)}
           /\ committed' = committed
  <2>1. Opened' \in {Opened, Opened \ {t}}
    BY <1>11, <1>d DEF Opened
  <2>2. PICK s \in ContextSteps \ {"deliverSuccessCallback"} : ScheduleCallback(t, s)
    BY <1>d
  <2>3. CASE s = "deliverTransactionErrorCallback"
    <3>1. File!Go(t, "failed", {})
      BY <1>3, <2>2, <2>3, PhasesOfSteps
    <3>2. t \notin committed
      BY <1>d DEF CommittedInv
    <3>3. File!Fail(t)
      BY <1>2, <1>10, <1>d, <2>1, <3>1, <3>2 DEF File!Fail, PhaseNow, Opened
    <3> QED
      BY <3>3 DEF File!Next
  <2>4. CASE s # "deliverTransactionErrorCallback"
    <3>1. PhaseNow' = PhaseNow
      BY <1>0, <1>d, <2>2, <2>4, PhasesOfSteps DEF PhaseNow, ScheduleCallback, ContextSteps
    <3>2. File!Run(t)
      BY <1>2, <1>10, <1>d, <2>1, <3>1 DEF File!Run, PhaseNow, Opened
    <3> QED
      BY <3>2 DEF File!Next
  <2> QED
    BY <2>3, <2>4
<1>e. CASE /\ step[t] = "runStatements" /\ connection[DatabaseOf[t]] = t /\ Commit(t)
           /\ ScheduleCallback(t, "deliverSuccessCallback") \/ Releases(t)
  <2>1. Opened' = Opened \ {t} /\ committed' = committed \cup {t}
    BY <1>11, <1>e DEF Commit
  <2>2. t \in Opened
    BY <1>e, HandleAssumption, NoneAssumption DEF Opened
  <2>3. t \notin Unfinished'
    BY <1>e DEF Commit, Unfinished, TypeOK
  <2>4. File!Go(t, "succeeded", {}) \/ \E G \in SUBSET Transactions : File!Go(t, "over", G)
    BY <1>3, <1>6, <1>e, PhasesOfSteps DEF Releases, ContextSteps
  <2>5. File!Commit(t)
    BY <1>2, <1>8, <1>10, <1>e, <2>1, <2>2, <2>3, <2>4
    DEF File!Commit, PhaseNow, Opened, Unfinished
  <2> QED
    BY <2>5 DEF File!Next
<1>f. CASE /\ Releases(t) /\ UNCHANGED <<connection, committed>>
  <2>1. Opened' = Opened
    BY <1>f DEF Opened
  <2> QED
    BY <1>6, <1>13, <1>f, <2>1 DEF Releases, File!Next
<1>g. CASE Releases(t) /\ Rollback(t)
  BY <1>6, <1>11, <1>13, <1>g DEF Releases, Rollback, File!Next
<1> QED
  BY <1>a, <1>b, <1>c, <1>d, <1>e, <1>f, <1>g, NextStepCases

\* A callback of the page is a step of the abstract one, or none.
LEMMA SerialCallback ==
    ASSUME TypeOK, TypeOK', PlaceInv, LockInv, CommittedInv, CommittedInv',
           NEW t \in Transactions, PerformPendingCallback(t)
    PROVE  File!Next \/ UNCHANGED <<PhaseNow, Unfinished, Opened, committed>>
<1>0. /\ step \in [Transactions -> Steps] /\ committed' = committed /\ Opened' = Opened
      /\ thread' = thread
  BY DEF TypeOK, Steps, PerformPendingCallback, Opened, threadVars
<1>1. /\ step[t] \in ContextSteps
      /\ \A u \in Transactions \ {t} : step'[u] = step[u] /\ statements'[u] = statements[u]
                                         /\ current'[u] = current[u]
  BY PendingCallbackSteps
<1>2. File!Work(t)
  BY <1>1 DEF File!Work
<1>3. ASSUME NEW s, step'[t] = s
      PROVE  File!Go(t, PhaseOf(s), {})
  BY <1>0, <1>1, <1>3, ZenonT(40) DEF File!Go, TypeOK
<1>4. t \in committed => t \notin Unfinished'
  BY <1>0 DEF CommittedInv, Unfinished
<1>5. PhaseOf(step'[t]) = PhaseOf(step[t]) => PhaseNow' = PhaseNow
  BY <1>0, <1>1 DEF PhaseNow
<1>6. CASE CancelCallback(t)
  <2>1. step'[t] = "none" /\ PhaseOf(step[t]) \in File!Running
    BY <1>0, <1>1, <1>6, PhasesOfSteps DEF CancelCallback, ContextSteps, File!Running
  <2>2. File!Go(t, "over", {})
    BY <1>3, <2>1, PhasesOfSteps
  <2>3. File!End(t)
    BY <1>0, <1>2, <1>4, <2>1, <2>2 DEF File!End, Opened, Unfinished
  <2> QED
    BY <2>3 DEF File!Next
<1>7. CASE DeliverTransactionErrorCallback(t) /\ step[t] = "deliverTransactionErrorCallback"
  <2>1. step'[t] = "cleanupAfterTransactionErrorCallback"
    BY <1>0, <1>7 DEF DeliverTransactionErrorCallback, HandleErrorInCallback, ScheduleStep
  <2>2. PhaseNow' = PhaseNow
    BY <1>5, <1>7, <2>1, PhasesOfSteps
  <2> QED
    BY <1>0, <1>7, <2>2 DEF DeliverTransactionErrorCallback, statementVars, Unfinished
<1>8. CASE DeliverSuccessCallback(t) /\ step[t] = "deliverSuccessCallback"
  <2>1. step'[t] = "cleanupAfterSuccessCallback"
    BY <1>0, <1>8 DEF DeliverSuccessCallback, ScheduleStep
  <2>2. PhaseNow' = PhaseNow
    BY <1>5, <1>8, <2>1, PhasesOfSteps
  <2> QED
    BY <1>0, <1>8, <2>2 DEF DeliverSuccessCallback, statementVars, Unfinished
<1>9. CASE step[t] \in {"deliverTransactionCallback", "deliverStatementCallback",
                        "deliverQuotaIncreaseCallback"} /\ ~CancelCallback(t)
  <2>1. step'[t] \in {"runStatements", "cleanupAfterTransactionErrorCallback"}
    BY <1>0, <1>9 DEF PerformPendingCallback, DeliverTransactionCallback, DeliverStatementCallback,
       DeliverQuotaIncreaseCallback, HandleErrorInCallback, ScheduleStep
  <2>2. PhaseOf(step[t]) = "active" /\ t \notin committed
    BY <1>9, PhasesOfSteps DEF CommittedInv
  <2>3. CASE step'[t] = "runStatements"
    <3>1. PhaseNow' = PhaseNow
      BY <1>5, <2>2, <2>3, PhasesOfSteps
    <3>2. File!Run(t)
      BY <1>0, <1>2, <2>2, <3>1 DEF File!Run, PhaseNow, Opened
    <3> QED
      BY <3>2 DEF File!Next
  <2>4. CASE step'[t] = "cleanupAfterTransactionErrorCallback"
    <3>1. File!Go(t, "failed", {})
      BY <1>3, <2>4, PhasesOfSteps
    <3>2. File!Fail(t)
      BY <1>0, <1>2, <2>2, <3>1 DEF File!Fail, Opened
    <3> QED
      BY <3>2 DEF File!Next
  <2> QED
    BY <2>1, <2>3, <2>4
<1> QED
  BY <1>6, <1>7, <1>8, <1>9 DEF PerformPendingCallback

\* Every step is one of the abstract specification, or changes nothing it sees.
LEMMA SerialStep ==
    ASSUME TypeOK, TypeOK', PlaceInv, LockInv, LockInv', CommittedInv, CommittedInv', BegunInv,
           [Next]_vars
    PROVE  [File!Next]_(File!vars)
<1> DEFINE Quiet == UNCHANGED <<PhaseNow, Unfinished, Opened, committed>>
<1>0. Quiet => UNCHANGED File!vars
  BY DEF File!vars, PhaseNow, Unfinished, Opened
<1>1. ASSUME UNCHANGED <<step, statements, current, connection, committed>> PROVE Quiet
  BY <1>1 DEF PhaseNow, Unfinished, Opened
<1>2. ASSUME UNCHANGED <<step, statements, current, committed>>,
             \A d \in Databases : connection'[d] \in {connection[d], None}
      PROVE  File!Next
  <2>1. File!RollBack
    BY <1>2 DEF File!RollBack
  <2> QED
    BY <2>1 DEF File!Next
<1> HIDE DEF Quiet
<1> USE DEF statementVars, historyVars
<1>3. ASSUME NEW d \in Databases, OpenDatabase(d) \/ MarkAsDeleted(d) \/ Stop(d) \/ PerformOpen(d)
      PROVE  Quiet
  BY <1>1, <1>3 DEF OpenDatabase, MarkAsDeleted, Stop, PerformOpen
<1>4. ASSUME NEW d \in Databases, PerformClose(d) PROVE File!Next
  BY <1>2, <1>4 DEF PerformClose, TypeOK
<1>5. CASE Shutdown \/ CloseDatabases
  BY <1>2, <1>5 DEF Shutdown, CloseDatabases
<1>6. ASSUME NEW t \in Transactions, Transaction(t) PROVE File!Next
  <2>1. \A u \in Transactions : step'[u] = IF u = t THEN "acquireLock" ELSE step[u]
    BY <1>6 DEF Transaction, TypeOK
  <2>2. step[t] = "uncreated" /\ UNCHANGED <<statements, current, connection, committed>>
    BY <1>6 DEF Transaction
  <2>3. File!Create(t)
    BY <2>1, <2>2, PhasesOfSteps DEF File!Create, File!Go
  <2> QED
    BY <2>3 DEF File!Next
<1>7. ASSUME NEW t \in Transactions, PerformPendingCallback(t)
      PROVE  File!Next \/ Quiet
  BY <1>7, SerialCallback DEF Quiet
<1>8. ASSUME NEW t \in Transactions, PerformNextStep(t) PROVE File!Next
  BY <1>8, SerialNextStep
<1>9. CASE OpenReturns \/ Submit \/ DeleteDatabaseFile \/ ScheduleClose \/ CloseReturns
           \/ Unschedule \/ RequestTermination \/ ScheduleNext
  BY <1>0, <1>1, <1>9 DEF OpenReturns, Submit, DeleteDatabaseFile, ScheduleClose, CloseReturns,
     Unschedule, RequestTermination, ScheduleNext
<1>10. CASE UNCHANGED vars
  BY <1>0, <1>1, <1>10 DEF vars
<1> QED
  BY <1>0, <1>3, <1>4, <1>5, <1>6, <1>7, <1>8, <1>9, <1>10
  DEF Next, ContextThread, DatabaseThread

\* The transactions of a file, whatever the threads, the handles, the deletion
\* and the stops do, run one after the other where they conflict, each is in the
\* file as a whole or not at all, and what the page is told of it is so.
THEOREM TransactionsAreSerial == Spec => Serial
<1>1. Init => File!Init
  <2> SUFFICES ASSUME Init PROVE File!Init
    OBVIOUS
  <2>1. \A t \in Transactions : PhaseOf(step[t]) = "uncreated"
    BY PhasesOfSteps DEF Init
  <2>2. {connection[d] : d \in Databases} \ {None} = {}
    BY DEF Init
  <2> QED
    BY <2>1, <2>2 DEF Init, File!Init
<1>2. TypeOK /\ TypeOK' /\ PlaceInv /\ LockInv /\ LockInv' /\ CommittedInv /\ CommittedInv'
        /\ BegunInv /\ [Next]_vars => [File!Next]_(File!vars)
  BY SerialStep
<1> QED
  BY <1>1, <1>2, TypeCorrect, PlaceInvariant, LockInvariant, CommittedInvariant, BegunInvariant,
     PTL DEF Spec, Serial, File!Spec

=============================================================================
