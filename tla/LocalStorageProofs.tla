------------------------- MODULE LocalStorageProofs -------------------------
(***************************************************************************)
(* Proofs about LocalStorage, for every set of keys and values, every size *)
(* of a batch and every number of changes and failures: type correctness,  *)
(* the balance of sudden termination, that neither termination nor close   *)
(* loses what a partial sync did not drop, and that the area is written    *)
(* behind as WriteBehind says.                                             *)
(***************************************************************************)
EXTENDS LocalStorage, SequenceTheorems, TLAPS

\* The type in three parts, without disabled: it is a number because it is
\* balanced.
MapType ==
    /\ memory \in Items /\ db \in Items
    /\ changed \in Changes /\ pending \in Changes /\ items \in Changes

FlagType ==
    /\ area \in BOOLEAN /\ timer \in BOOLEAN /\ cleared \in BOOLEAN
    /\ clearing \in BOOLEAN /\ syncScheduled \in BOOLEAN
    /\ syncInProgress \in BOOLEAN /\ importComplete \in BOOLEAN
    /\ clearItems \in BOOLEAN /\ opened \in BOOLEAN

TaskKinds == {"import", "sync", "terminate"}

ControlType ==
    /\ main \in {"open", "closing", "closed"}
    /\ queue \in Seq(TaskKinds)
    /\ thread \in {"waiting", "imported", "syncing", "synced", "ended"}
    /\ changes \in 0..MaxChanges /\ failures \in 0..MaxFailures
    /\ overtaken \subseteq Keys

TypeBut == MapType /\ FlagType /\ ControlType

\* The storage thread's queue: the import is its first task, there is one sync
\* task at most, and terminate is the last.
TaskInv ==
    /\ \A i \in 1..Len(queue) : queue[i] = "import" => i = 1
    /\ \A i \in 1..Len(queue) : queue[i] = "terminate" => i = Len(queue) /\ main = "closing"
    /\ \A i, j \in 1..Len(queue) : queue[i] = "sync" /\ queue[j] = "sync" => i = j
    /\ thread = "ended" => queue = <<>> /\ main # "open"
    /\ main = "closed" => thread = "ended"

\* Until the import is complete nothing else has happened.
ImportInv ==
    /\ \A i \in 1..Len(queue) : queue[i] = "import" => ~importComplete /\ thread = "waiting"
    /\ thread = "imported" => ~importComplete
    /\ ~importComplete => /\ area = TRUE /\ main = "open"
                          /\ timer = FALSE /\ syncScheduled = FALSE
                          /\ thread \in {"waiting", "imported"}

\* What is to be written is announced by a flag or by the thread.
AnnouncedInv ==
    /\ ~timer => changed = NoChanges /\ cleared = FALSE
    /\ ~syncScheduled => pending = NoChanges /\ clearing = FALSE
    /\ thread # "syncing" => items = NoChanges /\ clearItems = FALSE
    /\ main # "open" => timer = FALSE

\* What a map of changes makes of a value, and what all three stages make of
\* the database.
Applied(value, clear, change) ==
    IF change # Absent THEN change ELSE IF clear THEN Null ELSE value

Written(k) == Applied(db[k], clearItems, items[k])
Prepared(k) == Applied(Written(k), clearing, pending[k])
Final(k) == Applied(Prepared(k), cleared, changed[k])

\* The database, once all that is under way is written, agrees with memory.
CarriedInv ==
    failures = 0 /\ Imported =>
        /\ opened = TRUE
        /\ \A k \in Keys : k \notin overtaken => Final(k) = memory[k]

Inv == TypeBut /\ SuddenTerminationBalanced /\ TaskInv /\ ImportInv /\ AnnouncedInv /\ CarriedInv

LEMMA AppendFacts ==
    ASSUME NEW q \in Seq(TaskKinds), NEW x \in TaskKinds
    PROVE  /\ Append(q, x) \in Seq(TaskKinds) /\ Len(Append(q, x)) = Len(q) + 1
           /\ \A i \in 1..Len(q) : Append(q, x)[i] = q[i]
           /\ Append(q, x)[Len(q) + 1] = x
  OBVIOUS

LEMMA TailFacts ==
    ASSUME NEW q \in Seq(TaskKinds), q # <<>>
    PROVE  /\ Tail(q) \in Seq(TaskKinds) /\ Len(Tail(q)) = Len(q) - 1 /\ Len(q) \in Nat \ {0}
           /\ \A i \in 1..(Len(q) - 1) : Tail(q)[i] = q[i + 1]
           /\ Head(q) = q[1] /\ 1 \in 1..Len(q)
  OBVIOUS

LEMMA Indices ==
    /\ 1..1 = {1} /\ 1..2 = {1, 2}
    /\ \A n \in Nat : \A i \in 1..n : n <= 1 => n = 1
  OBVIOUS

LEMMA NoChangesType == NoChanges \in Changes
  BY DEF NoChanges, Changes

LEMMA InvType == Inv => TypeOK
  BY DEF Inv, TypeBut, MapType, FlagType, ControlType, TypeOK, TaskKinds, SuddenTerminationBalanced, One

LEMMA InvInit == Init => Inv
  <1> SUFFICES ASSUME Init PROVE Inv
    OBVIOUS
  <1>1. MapType
    BY NoChangesType DEF Init, MapType, Items
  <1>2. FlagType
    BY DEF Init, FlagType
  <1>3. ControlType
    <2>1. queue \in Seq(TaskKinds)
      BY DEF Init, TaskKinds
    <2>2. 0 \in 0..MaxChanges /\ 0 \in 0..MaxFailures
      BY BoundAssumption
    <2> QED BY <2>1, <2>2 DEF Init, ControlType
  <1>4. Len(queue) = 1 /\ queue[1] = "import" /\ 1..Len(queue) = {1}
    BY DEF Init
  <1>5. SuddenTerminationBalanced
    BY <1>4 DEF Init, SuddenTerminationBalanced, One
  <1>6. TaskInv /\ ImportInv /\ AnnouncedInv /\ CarriedInv
    BY <1>4 DEF Init, TaskInv, ImportInv, AnnouncedInv, CarriedInv, Imported
  <1> QED BY <1>1, <1>2, <1>3, <1>5, <1>6 DEF Inv, TypeBut

-----------------------------------------------------------------------------
(* The main thread.                                                        *)

LEMMA SetItemStep ==
    ASSUME Inv, NEW k \in Keys, NEW v \in Values \cup {Null}, SetItem(k, v)
    PROVE  Inv'
  <1> USE DEF Inv, TypeBut
  <1>1. /\ main = "open" /\ importComplete /\ area' = FALSE
        /\ memory' = [memory EXCEPT ![k] = v] /\ changed' = [changed EXCEPT ![k] = v]
        /\ timer' = TRUE /\ disabled' = IF timer THEN disabled ELSE disabled + 1
        /\ overtaken' = overtaken \ {k}
        /\ changes < MaxChanges /\ changes' = changes + 1
        /\ UNCHANGED <<cleared, main, shared, importComplete, queue, threadVars>>
    BY DEF SetItem, PageChanges, BlockUntilImportComplete, ScheduleItemForSync, StartTimer
  <1>2. MapType' /\ FlagType'
    BY <1>1 DEF MapType, FlagType, Items, Changes, shared, threadVars
  <1>3. ControlType'
    BY <1>1, BoundAssumption DEF ControlType, threadVars
  <1>4. SuddenTerminationBalanced'
    BY <1>1 DEF FlagType, SuddenTerminationBalanced, One, shared, threadVars
  <1>5. TaskInv' /\ ImportInv' /\ AnnouncedInv'
    BY <1>1 DEF TaskInv, ImportInv, AnnouncedInv, shared, threadVars
  <1>6. CarriedInv'
    <2>1. \A x \in Keys : Prepared(x)' = Prepared(x)
      BY <1>1 DEF Prepared, Written, Applied, shared, threadVars
    <2>2. Final(k)' = v /\ memory'[k] = v
      BY <1>1, ItemAssumption DEF MapType, Items, Changes, Final, Applied
    <2>3. \A x \in Keys : x # k => Final(x)' = Final(x) /\ memory'[x] = memory[x]
      BY <1>1, <2>1 DEF MapType, Items, Changes, Final, Applied
    <2> QED BY <1>1, <2>2, <2>3 DEF CarriedInv, Imported, shared, threadVars
  <1> QED BY <1>2, <1>3, <1>4, <1>5, <1>6

LEMMA ClearStep ==
    ASSUME Inv, Clear
    PROVE  Inv'
  <1> USE DEF Inv, TypeBut
  <1>1. /\ main = "open" /\ importComplete /\ area' = FALSE
        /\ memory' = [k \in Keys |-> Null] /\ changed' = NoChanges /\ cleared' = TRUE
        /\ timer' = TRUE /\ disabled' = IF timer THEN disabled ELSE disabled + 1
        /\ overtaken' = {}
        /\ changes < MaxChanges /\ changes' = changes + 1
        /\ UNCHANGED <<main, shared, importComplete, queue, threadVars>>
    BY DEF Clear, PageChanges, BlockUntilImportComplete, StartTimer
  <1>2. MapType' /\ FlagType'
    BY <1>1, NoChangesType DEF MapType, FlagType, Items, shared, threadVars
  <1>3. ControlType'
    BY <1>1, BoundAssumption DEF ControlType, threadVars
  <1>4. SuddenTerminationBalanced'
    BY <1>1 DEF FlagType, SuddenTerminationBalanced, One, shared, threadVars
  <1>5. TaskInv' /\ ImportInv' /\ AnnouncedInv'
    BY <1>1 DEF TaskInv, ImportInv, AnnouncedInv, shared, threadVars
  <1>6. CarriedInv'
    <2>1. \A x \in Keys : Final(x)' = Null /\ memory'[x] = Null
      BY <1>1 DEF Final, Applied, NoChanges
    <2> QED BY <1>1, <2>1 DEF CarriedInv, Imported, shared, threadVars
  <1> QED BY <1>2, <1>3, <1>4, <1>5, <1>6

LEMMA AccessStep ==
    ASSUME Inv, Access
    PROVE  Inv'
  <1>1. /\ importComplete /\ area' = FALSE
        /\ UNCHANGED <<memory, main, requests, shared, importComplete, disabled, queue, threadVars,
                       changes, overtaken>>
    BY DEF Access, BlockUntilImportComplete
  <1>2. TypeBut'
    <2>1. MapType' /\ ControlType'
      BY <1>1 DEF Inv, TypeBut, MapType, ControlType, requests, shared, threadVars
    <2>2. FlagType'
      BY <1>1 DEF Inv, TypeBut, FlagType, requests, shared, threadVars
    <2> QED BY <2>1, <2>2 DEF TypeBut
  <1>3. SuddenTerminationBalanced' /\ TaskInv' /\ ImportInv' /\ AnnouncedInv'
    BY <1>1 DEF Inv, SuddenTerminationBalanced, TaskInv, ImportInv, AnnouncedInv, requests, shared, threadVars
  <1>4. CarriedInv'
    BY <1>1 DEF Inv, CarriedInv, Imported, Final, Prepared, Written, Applied, requests, shared, threadVars
  <1> QED BY <1>2, <1>3, <1>4 DEF Inv

LEMMA JoinedStep ==
    ASSUME Inv, Joined
    PROVE  Inv'
  <1>1. /\ main = "closing" /\ thread = "ended" /\ main' = "closed"
        /\ UNCHANGED <<memory, area, requests, shared, importComplete, disabled, queue, threadVars,
                       changes, overtaken>>
    BY DEF Joined
  <1>2. TypeBut'
    BY <1>1 DEF Inv, TypeBut, MapType, FlagType, ControlType, requests, shared, threadVars
  <1>3. SuddenTerminationBalanced' /\ TaskInv' /\ ImportInv' /\ AnnouncedInv'
    BY <1>1 DEF Inv, SuddenTerminationBalanced, TaskInv, ImportInv, AnnouncedInv, requests, shared, threadVars
  <1>4. CarriedInv'
    BY <1>1 DEF Inv, CarriedInv, Imported, Final, Prepared, Written, Applied, requests, shared, threadVars
  <1> QED BY <1>2, <1>3, <1>4 DEF Inv

\* What a sync that the main thread prepares does to the three stages: no key
\* changes its final value but those it drops.
LEMMA SyncCarries ==
    ASSUME MapType, FlagType, overtaken \subseteq Keys, NEW b \in SUBSET Entries(changed), NEW d, Sync(b, d),
           UNCHANGED <<memory, db, items, clearItems>>
    PROVE  /\ MapType'
           /\ overtaken' \subseteq Keys
           /\ \A k \in Keys : k \notin overtaken' => k \notin overtaken /\ Final(k)' = Final(k)
           /\ ~Partial(b) => changed' = NoChanges
  <1>1. b \subseteq Keys /\ \A k \in b : changed[k] # Absent
    BY DEF Entries
  <1>2. /\ pending' = [k \in Keys |-> IF k \in b THEN changed[k] ELSE IF cleared THEN Absent ELSE pending[k]]
        /\ clearing' = (clearing \/ cleared) /\ cleared' = FALSE
        /\ changed' = IF Partial(b)
                      THEN [k \in Keys |-> IF pending'[k] # Absent THEN Absent ELSE changed[k]]
                      ELSE NoChanges
        /\ overtaken' = overtaken \cup {k \in Entries(changed) : changed'[k] = Absent /\ pending'[k] # changed[k]}
    BY DEF Sync, Merge
  <1>3. pending' \in Changes /\ changed' \in Changes
    BY <1>1, <1>2, NoChangesType DEF MapType, Changes
  <1>4. MapType'
    BY <1>3 DEF MapType
  <1>5. ASSUME NEW k \in Keys, k \notin overtaken'
        PROVE  k \notin overtaken /\ Final(k)' = Final(k)
    <2>1. Written(k)' = Written(k)
      BY DEF Written, Applied
    <2>2. pending'[k] = IF k \in b THEN changed[k] ELSE IF cleared THEN Absent ELSE pending[k]
      BY <1>2
    <2>3. CASE changed[k] = Absent
      <3>1. k \notin b
        BY <1>1, <2>3
      <3>2. changed'[k] = Absent
        BY <1>2, <2>3 DEF NoChanges
      <3> QED BY <1>2, <1>5, <2>1, <2>2, <2>3, <3>1, <3>2 DEF Final, Prepared, Applied, FlagType
    <2>4. CASE changed[k] # Absent
      <3>1. k \in Entries(changed)
        BY <2>4 DEF Entries
      <3>2. CASE changed'[k] = Absent
        BY <1>2, <1>5, <2>4, <3>1, <3>2 DEF Final, Prepared, Applied
      <3>3. CASE changed'[k] # Absent
        BY <1>2, <1>5, <2>4, <3>3 DEF Final, Applied, NoChanges
      <3> QED BY <3>2, <3>3
    <2> QED BY <2>3, <2>4
  <1>6. overtaken' \subseteq Keys
    BY <1>2 DEF Entries
  <1>7. ~Partial(b) => changed' = NoChanges
    BY <1>2
  <1> QED BY <1>4, <1>5, <1>6, <1>7

LEMMA ScheduledFacts ==
    ASSUME Inv, main = "open", importComplete
    PROVE  /\ Scheduled \in Seq(TaskKinds)
           /\ Len(Scheduled) = 1 /\ Scheduled[1] = "sync"
  <1> USE DEF Inv, TypeBut, ControlType
  <1>1. \A i \in 1..Len(queue) : queue[i] = "sync"
    <2> SUFFICES ASSUME NEW i \in 1..Len(queue) PROVE queue[i] = "sync"
      OBVIOUS
    <2>1. queue[i] \in TaskKinds
      OBVIOUS
    <2> QED BY <2>1 DEF TaskInv, ImportInv, TaskKinds
  <1>2. Len(queue) \in Nat /\ Len(queue) <= 1
    <2>1. Len(queue) \in Nat
      OBVIOUS
    <2>2. ~(Len(queue) >= 2)
      <3> SUFFICES ASSUME Len(queue) >= 2 PROVE FALSE
        OBVIOUS
      <3>1. 1 \in 1..Len(queue) /\ 2 \in 1..Len(queue)
        BY <2>1
      <3> QED BY <1>1, <3>1 DEF TaskInv
    <2> QED BY <2>1, <2>2
  <1>3. CASE syncScheduled
    <2>1. Len(queue) = 1
      <3>1. PICK i \in 1..Len(queue) : queue[i] = "sync"
        BY <1>3 DEF SuddenTerminationBalanced
      <3> QED BY <1>2, <3>1, Indices
    <2>2. 1 \in 1..Len(queue)
      BY <2>1
    <2> QED BY <1>1, <1>3, <2>1, <2>2 DEF Scheduled
  <1>4. CASE ~syncScheduled
    <2>1. Len(queue) = 0
      BY <1>1, <1>2, <1>4 DEF SuddenTerminationBalanced
    <2>2. /\ Scheduled = Append(queue, "sync") /\ Scheduled \in Seq(TaskKinds)
          /\ Len(Scheduled) = 1 /\ Scheduled[1] = "sync"
      BY <1>4, <2>1, AppendFacts DEF Scheduled, TaskKinds
    <2> QED BY <2>2
  <1> QED BY <1>3, <1>4 DEF FlagType

LEMMA TimerStep ==
    ASSUME Inv, SyncTimerFired
    PROVE  Inv'
  <1> USE DEF Inv, TypeBut
  <1>1. PICK b \in Batch : Sync(b, disabled)
    BY DEF SyncTimerFired
  <1>2. /\ main = "open" /\ timer /\ queue' = Scheduled
        /\ UNCHANGED <<memory, main, area, syncInProgress, importComplete, threadVars, changes>>
    BY DEF SyncTimerFired
  <1>3. importComplete
    BY <1>2 DEF ImportInv
  <1>4. b \in SUBSET Entries(changed)
    BY DEF Batch
  <1>5. /\ timer' = Partial(b) /\ syncScheduled' = TRUE /\ cleared' = FALSE
        /\ clearing' = (clearing \/ cleared)
        /\ disabled' = disabled + (IF syncScheduled THEN 0 ELSE 1) - (IF Partial(b) THEN 0 ELSE 1)
    BY <1>1 DEF Sync
  <1>6. /\ MapType' /\ overtaken' \subseteq Keys
        /\ \A k \in Keys : k \notin overtaken' => k \notin overtaken /\ Final(k)' = Final(k)
        /\ ~Partial(b) => changed' = NoChanges
    BY <1>1, <1>2, <1>4, SyncCarries DEF ControlType, threadVars
  <1>7. Partial(b) \in BOOLEAN
    BY DEF Partial
  <1>8. FlagType'
    BY <1>2, <1>5, <1>7 DEF FlagType, threadVars
  <1>9. /\ queue' \in Seq(TaskKinds) /\ Len(queue') = 1 /\ 1..Len(queue') = {1}
        /\ queue'[1] = "sync"
    BY <1>2, <1>3, ScheduledFacts, Indices
  <1>10. ControlType'
    BY <1>2, <1>6, <1>9 DEF ControlType, threadVars
  <1>11. SuddenTerminationBalanced'
    BY <1>2, <1>5, <1>7, <1>9 DEF FlagType, SuddenTerminationBalanced, One, threadVars
  <1>12. TaskInv' /\ ImportInv' /\ AnnouncedInv'
    BY <1>2, <1>3, <1>5, <1>6, <1>9 DEF TaskInv, ImportInv, AnnouncedInv, threadVars
  <1>13. CarriedInv'
    BY <1>2, <1>3, <1>6 DEF CarriedInv, Imported, threadVars
  <1> QED BY <1>6, <1>8, <1>10, <1>11, <1>12, <1>13

LEMMA CloseStep ==
    ASSUME Inv, Close
    PROVE  Inv'
  <1> USE DEF Inv, TypeBut
  <1> DEFINE d == IF timer THEN disabled ELSE disabled + 1
             b == Entries(changed)
  <1>1. /\ main = "open" /\ importComplete /\ area' = FALSE /\ main' = "closing"
        /\ Sync(b, d) /\ queue' = Append(Scheduled, "terminate")
        /\ UNCHANGED <<memory, syncInProgress, importComplete, threadVars, changes>>
    BY DEF Close, BlockUntilImportComplete
  <1>2. /\ timer' = FALSE /\ syncScheduled' = TRUE /\ cleared' = FALSE
        /\ clearing' = (clearing \/ cleared)
        /\ disabled' = d + (IF syncScheduled THEN 0 ELSE 1) - 1
    BY <1>1 DEF Sync, Partial
  <1>3. /\ MapType' /\ overtaken' \subseteq Keys
        /\ \A k \in Keys : k \notin overtaken' => k \notin overtaken /\ Final(k)' = Final(k)
        /\ changed' = NoChanges
    BY <1>1, SyncCarries DEF ControlType, Partial, threadVars
  <1>4. FlagType'
    BY <1>1, <1>2 DEF FlagType, threadVars
  <1>5. /\ queue' \in Seq(TaskKinds) /\ Len(queue') = 2 /\ 1..Len(queue') = {1, 2}
        /\ queue'[1] = "sync" /\ queue'[2] = "terminate"
    <2>1. "terminate" \in TaskKinds
      BY DEF TaskKinds
    <2>2. Scheduled \in Seq(TaskKinds) /\ Len(Scheduled) = 1 /\ Scheduled[1] = "sync"
      BY <1>1, ScheduledFacts
    <2>3. 1 \in 1..Len(Scheduled) /\ Len(Scheduled) + 1 = 2
      BY <2>2
    <2>4. /\ queue' \in Seq(TaskKinds) /\ Len(queue') = Len(Scheduled) + 1
          /\ \A i \in 1..Len(Scheduled) : queue'[i] = Scheduled[i]
          /\ queue'[Len(Scheduled) + 1] = "terminate"
      BY <1>1, <2>1, <2>2, AppendFacts
    <2> QED BY <2>2, <2>3, <2>4, Indices
  <1>6. ControlType'
    BY <1>1, <1>3, <1>5 DEF ControlType, threadVars
  <1>7. SuddenTerminationBalanced'
    BY <1>1, <1>2, <1>5 DEF FlagType, SuddenTerminationBalanced, One, threadVars
  <1>8. TaskInv' /\ ImportInv' /\ AnnouncedInv'
    BY <1>1, <1>2, <1>3, <1>5 DEF TaskInv, ImportInv, AnnouncedInv, threadVars
  <1>9. CarriedInv'
    BY <1>1, <1>3 DEF CarriedInv, Imported, threadVars
  <1> QED BY <1>3, <1>4, <1>6, <1>7, <1>8, <1>9

-----------------------------------------------------------------------------
(* The storage thread.                                                     *)

LEMMA TakenFacts ==
    ASSUME Inv, NEW task, TakeTask(task)
    PROVE  /\ queue' \in Seq(TaskKinds)
           /\ 1 \in 1..Len(queue) /\ queue[1] = task
           /\ \A i \in 1..Len(queue') : queue'[i] # "import"
           /\ \A i \in 1..Len(queue') : queue'[i] = "terminate" => i = Len(queue') /\ main = "closing"
           /\ \A i, j \in 1..Len(queue') : queue'[i] = "sync" /\ queue'[j] = "sync" => i = j
           /\ task = "sync" => \A i \in 1..Len(queue') : queue'[i] # "sync"
           /\ task # "sync" =>
                 (\E i \in 1..Len(queue') : queue'[i] = "sync") <=> (\E i \in 1..Len(queue) : queue[i] = "sync")
           /\ task = "terminate" => queue' = <<>>
  <1>1. queue \in Seq(TaskKinds) /\ queue # <<>> /\ Head(queue) = task /\ queue' = Tail(queue)
    BY DEF Inv, TypeBut, ControlType, TakeTask
  <1>2. /\ queue' \in Seq(TaskKinds) /\ Len(queue') = Len(queue) - 1 /\ Len(queue) \in Nat \ {0}
        /\ \A i \in 1..(Len(queue) - 1) : queue'[i] = queue[i + 1]
        /\ queue[1] = task /\ 1 \in 1..Len(queue)
    BY <1>1, TailFacts
  <1>3. \A i \in 1..Len(queue') : i + 1 \in 1..Len(queue) /\ i + 1 # 1 /\ queue'[i] = queue[i + 1]
    BY <1>2
  <1>4. \A i \in 1..Len(queue) : i = 1 \/ (i - 1 \in 1..Len(queue') /\ queue'[i - 1] = queue[i])
    BY <1>2
  <1>5. \A i \in 1..Len(queue') : queue'[i] # "import"
    BY <1>3 DEF Inv, TaskInv
  <1>6. \A i \in 1..Len(queue') : queue'[i] = "terminate" => i = Len(queue') /\ main = "closing"
    BY <1>2, <1>3 DEF Inv, TaskInv
  <1>7. \A i, j \in 1..Len(queue') : queue'[i] = "sync" /\ queue'[j] = "sync" => i = j
    <2> SUFFICES ASSUME NEW i \in 1..Len(queue'), NEW j \in 1..Len(queue'),
                        queue'[i] = "sync", queue'[j] = "sync"
                 PROVE  i = j
      OBVIOUS
    <2>1. i + 1 = j + 1
      BY <1>3 DEF Inv, TaskInv
    <2> QED BY <2>1
  <1>8. task = "sync" => \A i \in 1..Len(queue') : queue'[i] # "sync"
    BY <1>2, <1>3 DEF Inv, TaskInv
  <1>9. task # "sync" =>
           (\E i \in 1..Len(queue') : queue'[i] = "sync") <=> (\E i \in 1..Len(queue) : queue[i] = "sync")
    <2>1. ASSUME NEW i \in 1..Len(queue'), queue'[i] = "sync"
          PROVE  \E j \in 1..Len(queue) : queue[j] = "sync"
      BY <1>3, <2>1
    <2>2. ASSUME task # "sync", NEW i \in 1..Len(queue), queue[i] = "sync"
          PROVE  \E j \in 1..Len(queue') : queue'[j] = "sync"
      BY <1>2, <1>4, <2>2
    <2> QED BY <2>1, <2>2, Zenon
  <1>10. task = "terminate" => queue' = <<>>
    <2> SUFFICES ASSUME task = "terminate" PROVE queue' = <<>>
      OBVIOUS
    <2>1. 1 = Len(queue)
      BY <1>2 DEF Inv, TaskInv
    <2>2. Len(queue') = Len(queue) - 1 /\ queue' \in Seq(TaskKinds)
      BY <1>2
    <2>3. Len(queue') = 0
      BY <2>1, <2>2
    <2> QED BY <2>2, <2>3
  <1> QED BY <1>2, <1>5, <1>6, <1>7, <1>8, <1>9, <1>10

\* The database is put into the area while nothing else has happened.
LEMMA PerformImportStep ==
    ASSUME Inv, PerformImport
    PROVE  Inv'
  <1> USE DEF Inv, TypeBut
  <1>1. /\ thread = "waiting" /\ thread' = "imported" /\ TakeTask("import")
        /\ \/ memory' = db /\ opened' = TRUE /\ UNCHANGED failures
           \/ failures < MaxFailures /\ failures' = failures + 1 /\ opened' \in BOOLEAN /\ UNCHANGED memory
        /\ UNCHANGED <<main, area, requests, shared, importComplete, disabled, items, clearItems, db,
                       changes, overtaken>>
    BY DEF PerformImport, DatabaseFails, TakeTask
  <1>2. /\ importComplete = FALSE /\ area = TRUE /\ main = "open" /\ timer = FALSE /\ syncScheduled = FALSE
        /\ changed = NoChanges /\ cleared = FALSE /\ pending = NoChanges /\ clearing = FALSE
        /\ items = NoChanges /\ clearItems = FALSE
    BY <1>1, TakenFacts DEF ImportInv, AnnouncedInv, FlagType
  <1>3. MapType' /\ FlagType'
    BY <1>1 DEF MapType, FlagType, requests, shared
  <1>4. ControlType'
    BY <1>1, TakenFacts, BoundAssumption DEF ControlType
  <1>5. SuddenTerminationBalanced'
    BY <1>1, <1>2, TakenFacts DEF SuddenTerminationBalanced, One, requests, shared
  <1>6. TaskInv' /\ ImportInv' /\ AnnouncedInv'
    BY <1>1, <1>2, TakenFacts DEF TaskInv, ImportInv, AnnouncedInv, requests, shared
  <1>7. CarriedInv'
    <2>1. CASE memory' = db /\ opened' = TRUE
      <3>1. \A k \in Keys : Final(k)' = memory'[k]
        BY <1>1, <1>2, <2>1 DEF Final, Prepared, Written, Applied, NoChanges, requests, shared
      <3> QED BY <2>1, <3>1 DEF CarriedInv
    <2>2. CASE failures' = failures + 1
      BY <2>2 DEF CarriedInv, ControlType
    <2> QED BY <1>1, <2>1, <2>2
  <1> QED BY <1>3, <1>4, <1>5, <1>6, <1>7

LEMMA MarkImportedStep ==
    ASSUME Inv, MarkImported
    PROVE  Inv'
  <1> USE DEF Inv, TypeBut
  <1>1. /\ thread = "imported" /\ importComplete' = TRUE /\ thread' = "waiting"
        /\ UNCHANGED <<memory, main, area, requests, shared, disabled, queue, items, clearItems, db,
                       opened, failures, changes, overtaken>>
    BY DEF MarkImported
  <1>2. MapType' /\ FlagType' /\ ControlType'
    BY <1>1 DEF MapType, FlagType, ControlType, requests, shared
  <1>3. SuddenTerminationBalanced' /\ TaskInv' /\ ImportInv' /\ AnnouncedInv'
    BY <1>1 DEF SuddenTerminationBalanced, One, TaskInv, ImportInv, AnnouncedInv, requests, shared
  <1>4. CarriedInv'
    BY <1>1 DEF CarriedInv, Imported, Final, Prepared, Written, Applied, requests, shared
  <1> QED BY <1>2, <1>3, <1>4

\* What was pending becomes what the storage thread writes.
LEMMA StartSyncStep ==
    ASSUME Inv, StartSync
    PROVE  Inv'
  <1> USE DEF Inv, TypeBut
  <1>1. /\ thread = "waiting" /\ thread' = "syncing" /\ TakeTask("sync")
        /\ items' = pending /\ pending' = NoChanges /\ clearItems' = clearing /\ clearing' = FALSE
        /\ syncScheduled' = FALSE /\ syncInProgress' = TRUE
        /\ UNCHANGED <<memory, main, area, requests, importComplete, disabled, db, opened, failures,
                       changes, overtaken>>
    BY DEF StartSync, TakeTask
  <1>2. syncScheduled = TRUE /\ items = NoChanges /\ clearItems = FALSE /\ importComplete
    BY <1>1, TakenFacts DEF SuddenTerminationBalanced, ImportInv, AnnouncedInv, FlagType
  <1>3. MapType' /\ FlagType'
    BY <1>1, NoChangesType DEF MapType, FlagType, requests
  <1>4. ControlType'
    BY <1>1, TakenFacts DEF ControlType
  <1>5. SuddenTerminationBalanced'
    BY <1>1, <1>2, TakenFacts DEF SuddenTerminationBalanced, One, requests
  <1>6. TaskInv' /\ ImportInv' /\ AnnouncedInv'
    BY <1>1, <1>2, TakenFacts DEF TaskInv, ImportInv, AnnouncedInv, requests
  <1>7. CarriedInv'
    <2>1. \A k \in Keys : Prepared(k)' = Prepared(k)
      BY <1>1, <1>2 DEF Prepared, Written, Applied, NoChanges
    <2>2. \A k \in Keys : Final(k)' = Final(k)
      BY <1>1, <2>1 DEF Final, Applied, requests
    <2> QED BY <1>1, <1>2, <2>2 DEF CarriedInv, Imported
  <1> QED BY <1>3, <1>4, <1>5, <1>6, <1>7

LEMMA ClearTableStep ==
    ASSUME Inv, ClearTable
    PROVE  Inv'
  <1> USE DEF Inv, TypeBut
  <1>1. /\ thread = "syncing" /\ clearItems /\ clearItems' = FALSE
        /\ db' = [k \in Keys |-> Null]
        /\ UNCHANGED <<memory, main, area, requests, shared, importComplete, disabled, queue, thread,
                       items, opened, failures, changes, overtaken>>
    BY DEF ClearTable
  <1>2. MapType' /\ FlagType' /\ ControlType'
    <2>1. MapType' /\ ControlType'
      BY <1>1 DEF MapType, ControlType, Items, requests, shared
    <2>2. FlagType'
      BY <1>1 DEF FlagType, requests, shared
    <2> QED BY <2>1, <2>2
  <1>3. SuddenTerminationBalanced' /\ TaskInv' /\ ImportInv' /\ AnnouncedInv'
    BY <1>1 DEF SuddenTerminationBalanced, TaskInv, ImportInv, AnnouncedInv, requests, shared
  <1>4. CarriedInv'
    <2>1. \A k \in Keys : Written(k)' = Written(k)
      BY <1>1 DEF Written, Applied
    <2>2. \A k \in Keys : Final(k)' = Final(k)
      BY <1>1, <2>1 DEF Final, Prepared, Applied, requests, shared
    <2> QED BY <1>1, <2>2 DEF CarriedInv, Imported
  <1> QED BY <1>2, <1>3, <1>4

LEMMA WriteItemStep ==
    ASSUME Inv, NEW k \in Keys, WriteItem(k)
    PROVE  Inv'
  <1> USE DEF Inv, TypeBut
  <1>1. /\ thread = "syncing" /\ ~clearItems /\ items[k] # Absent
        /\ db' = [db EXCEPT ![k] = items[k]] /\ items' = [items EXCEPT ![k] = Absent]
        /\ UNCHANGED <<memory, main, area, requests, shared, importComplete, disabled, queue, thread,
                       clearItems, opened, failures, changes, overtaken>>
    BY DEF WriteItem
  <1>2. MapType' /\ FlagType' /\ ControlType'
    BY <1>1 DEF MapType, FlagType, ControlType, Items, Changes, requests, shared
  <1>3. SuddenTerminationBalanced' /\ TaskInv' /\ ImportInv' /\ AnnouncedInv'
    BY <1>1 DEF SuddenTerminationBalanced, TaskInv, ImportInv, AnnouncedInv, requests, shared
  <1>4. CarriedInv'
    <2>1. \A x \in Keys : Written(x)' = Written(x)
      BY <1>1 DEF Written, Applied, MapType, Items, Changes
    <2>2. \A x \in Keys : Final(x)' = Final(x)
      BY <1>1, <2>1 DEF Final, Prepared, Applied, requests, shared
    <2> QED BY <1>1, <2>2 DEF CarriedInv, Imported
  <1> QED BY <1>2, <1>3, <1>4

LEMMA AbandonSyncStep ==
    ASSUME Inv, AbandonSync
    PROVE  Inv'
  <1> USE DEF Inv, TypeBut
  <1>1. /\ thread = "syncing" /\ items' = NoChanges /\ clearItems' = FALSE
        /\ IF opened THEN failures < MaxFailures /\ failures' = failures + 1 ELSE UNCHANGED failures
        /\ UNCHANGED <<memory, main, area, requests, shared, importComplete, disabled, queue, thread,
                       db, opened, changes, overtaken>>
    BY DEF AbandonSync, DatabaseFails
  <1>2. MapType' /\ FlagType'
    BY <1>1, NoChangesType DEF MapType, FlagType, requests, shared
  <1>3. ControlType'
    BY <1>1, BoundAssumption DEF ControlType
  <1>4. SuddenTerminationBalanced' /\ TaskInv' /\ ImportInv' /\ AnnouncedInv'
    BY <1>1 DEF SuddenTerminationBalanced, TaskInv, ImportInv, AnnouncedInv, requests, shared
  <1>5. CarriedInv'
    <2>1. failures' = 0 /\ Imported' => failures = 0 /\ Imported /\ ~opened
      BY <1>1 DEF ControlType, Imported
    <2> QED BY <2>1 DEF CarriedInv
  <1> QED BY <1>2, <1>3, <1>4, <1>5

LEMMA SyncEndsStep ==
    ASSUME Inv, SyncDone \/ EnableTermination \/ Terminate
    PROVE  Inv'
  <1> USE DEF Inv, TypeBut
  <1>1. CASE SyncDone
    <2>1. /\ thread = "syncing" /\ clearItems = FALSE /\ items = NoChanges /\ thread' = "synced"
          /\ syncInProgress' = FALSE
          /\ UNCHANGED <<memory, main, area, requests, pending, clearing, syncScheduled, importComplete,
                         disabled, queue, items, clearItems, db, opened, failures, changes, overtaken>>
      BY <1>1 DEF SyncDone, FlagType
    <2>2. MapType' /\ FlagType' /\ ControlType'
      BY <2>1 DEF MapType, FlagType, ControlType, requests
    <2>3. SuddenTerminationBalanced' /\ TaskInv' /\ ImportInv' /\ AnnouncedInv'
      BY <2>1 DEF SuddenTerminationBalanced, One, TaskInv, ImportInv, AnnouncedInv, requests
    <2>4. CarriedInv'
      BY <2>1 DEF CarriedInv, Imported, Final, Prepared, Written, Applied, requests
    <2> QED BY <2>2, <2>3, <2>4
  <1>2. CASE EnableTermination
    <2>1. /\ thread = "synced" /\ disabled' = disabled - 1 /\ thread' = "waiting"
          /\ UNCHANGED <<memory, main, area, requests, shared, importComplete, queue, items, clearItems,
                         db, opened, failures, changes, overtaken>>
      BY <1>2 DEF EnableTermination
    <2>2. MapType' /\ FlagType' /\ ControlType'
      BY <2>1 DEF MapType, FlagType, ControlType, requests, shared
    <2>3. SuddenTerminationBalanced' /\ TaskInv' /\ ImportInv' /\ AnnouncedInv'
      BY <2>1 DEF SuddenTerminationBalanced, One, TaskInv, ImportInv, AnnouncedInv, requests, shared, FlagType
    <2>4. CarriedInv'
      BY <2>1 DEF CarriedInv, Imported, Final, Prepared, Written, Applied, requests, shared
    <2> QED BY <2>2, <2>3, <2>4
  <1>3. CASE Terminate
    <2>1. /\ thread = "waiting" /\ TakeTask("terminate") /\ thread' = "ended"
          /\ UNCHANGED <<memory, main, area, requests, shared, importComplete, disabled, items,
                         clearItems, db, opened, failures, changes, overtaken>>
      BY <1>3 DEF Terminate, TakeTask
    <2>2. main = "closing" /\ importComplete
      <3>1. 1 \in 1..Len(queue) /\ queue[1] = "terminate"
        BY <2>1, TakenFacts
      <3> QED BY <3>1 DEF TaskInv, ImportInv
    <2>3. MapType' /\ FlagType' /\ ControlType'
      BY <2>1, TakenFacts DEF MapType, FlagType, ControlType, requests, shared
    <2>4. SuddenTerminationBalanced' /\ TaskInv' /\ ImportInv' /\ AnnouncedInv'
      BY <2>1, <2>2, TakenFacts
      DEF SuddenTerminationBalanced, One, TaskInv, ImportInv, AnnouncedInv, requests, shared
    <2>5. CarriedInv'
      BY <2>1 DEF CarriedInv, Imported, Final, Prepared, Written, Applied, requests, shared
    <2> QED BY <2>3, <2>4, <2>5
  <1> QED BY <1>1, <1>2, <1>3

-----------------------------------------------------------------------------
LEMMA InvNext == Inv /\ [Next]_vars => Inv'
  <1> SUFFICES ASSUME Inv, [Next]_vars PROVE Inv'
    OBVIOUS
  <1>1. CASE \E k \in Keys, v \in Values \cup {Null} : SetItem(k, v)
    BY <1>1, SetItemStep
  <1>2. CASE Clear \/ Access \/ SyncTimerFired \/ Close \/ Joined
    BY <1>2, ClearStep, AccessStep, TimerStep, CloseStep, JoinedStep
  <1>3. CASE StorageThread
    BY <1>3, PerformImportStep, MarkImportedStep, StartSyncStep, ClearTableStep, WriteItemStep,
       AbandonSyncStep, SyncEndsStep
    DEF StorageThread
  <1>4. CASE UNCHANGED vars
    <2>1. TypeBut'
      BY <1>4 DEF Inv, TypeBut, MapType, FlagType, ControlType, vars, requests, shared, threadVars
    <2>2. SuddenTerminationBalanced' /\ TaskInv' /\ ImportInv' /\ AnnouncedInv'
      BY <1>4 DEF Inv, SuddenTerminationBalanced, TaskInv, ImportInv, AnnouncedInv, vars, requests,
                  shared, threadVars
    <2>3. CarriedInv'
      BY <1>4 DEF Inv, CarriedInv, Imported, Final, Prepared, Written, Applied, vars, requests,
                  shared, threadVars
    <2> QED BY <2>1, <2>2, <2>3 DEF Inv
  <1> QED BY <1>1, <1>2, <1>3, <1>4 DEF Next

LEMMA Invariance == Spec => []Inv
  BY InvInit, InvNext, PTL DEF Spec

\* The variables keep their types, whatever the page, the timer, the storage
\* thread and the database do.
THEOREM TypeCorrect == Spec => []TypeOK
  BY Invariance, InvType, PTL

\* Every disableSuddenTermination is balanced by one enableSuddenTermination,
\* on either thread and on every path of syncTimerFired and performSync.
THEOREM TerminationIsBalanced == Spec => []SuddenTerminationBalanced
  <1>1. Inv => SuddenTerminationBalanced
    BY DEF Inv
  <1> QED BY <1>1, Invariance, PTL

\* With nothing under way the three stages are empty, and memory is what the
\* database holds.
LEMMA NothingUnderWay ==
    ASSUME Inv, disabled = 0
    PROVE  importComplete /\ failures = 0 => Saved
  <1>1. timer = FALSE /\ syncScheduled = FALSE /\ thread \notin {"syncing", "synced"}
    BY DEF Inv, TypeBut, FlagType, SuddenTerminationBalanced, One
  <1>2. /\ changed = NoChanges /\ cleared = FALSE /\ pending = NoChanges /\ clearing = FALSE
        /\ items = NoChanges /\ clearItems = FALSE
    BY <1>1 DEF Inv, AnnouncedInv
  <1>3. \A k \in Keys : Final(k) = db[k]
    BY <1>2 DEF Final, Prepared, Written, Applied, NoChanges
  <1> QED BY <1>3 DEF Inv, CarriedInv, Imported, Saved

\* Whenever sudden termination is not disabled the database holds what the
\* page wrote, but for what a partial sync dropped or a failure lost.
THEOREM SafeToTerminate == Spec => []TerminationLosesNothing
  <1>1. Inv => TerminationLosesNothing
    BY NothingUnderWay DEF TerminationLosesNothing
  <1> QED BY <1>1, Invariance, PTL

\* Once close has returned the storage thread has written everything.
THEOREM SafeToClose == Spec => []CloseLosesNothing
  <1>1. ASSUME Inv, main = "closed"
        PROVE  disabled = 0 /\ queue = <<>> /\ importComplete
    <2>1. thread = "ended" /\ queue = <<>> /\ timer = FALSE /\ importComplete
      BY <1>1 DEF Inv, TaskInv, ImportInv, AnnouncedInv
    <2>2. \A i \in 1..Len(queue) : FALSE
      BY <2>1
    <2>3. syncScheduled = FALSE
      BY <1>1, <2>2 DEF Inv, TypeBut, FlagType, SuddenTerminationBalanced
    <2> QED BY <1>1, <2>1, <2>3 DEF Inv, SuddenTerminationBalanced, One
  <1>2. Inv => CloseLosesNothing
    BY <1>1, NothingUnderWay DEF CloseLosesNothing
  <1> QED BY <1>2, Invariance, PTL

\* The import fills the area before the main thread has let go of it.
THEOREM ImportIsFirst == Spec => ImportedBeforeUse
  <1>1. Inv /\ [Next]_vars => [thread' = "imported" => area]_vars
    <2> SUFFICES ASSUME Inv, Next, thread' = "imported" PROVE area
      OBVIOUS
    <2>1. thread = "imported" \/ TakeTask("import")
      BY DEF Next, SetItem, Clear, PageChanges, Access, SyncTimerFired, Close, Joined, threadVars,
             StorageThread, PerformImport, MarkImported, StartSync, ClearTable, WriteItem, AbandonSync,
             SyncDone, EnableTermination, Terminate
    <2>2. importComplete = FALSE
      BY <2>1, TakenFacts DEF Inv, ImportInv, TypeBut, FlagType
    <2> QED BY <2>2 DEF Inv, ImportInv
  <1> QED BY <1>1, Invariance, PTL DEF Spec, ImportedBeforeUse

-----------------------------------------------------------------------------
(* The area that is written behind.                                        *)

LEMMA PartOfItself ==
    ASSUME NEW S, NEW s \in Seq(S)
    PROVE  Area!IsPart(s, s)
  <1>1. [i \in 1..Len(s) |-> i] \in [1..Len(s) -> 1..Len(s)]
    OBVIOUS
  <1> QED BY <1>1 DEF Area!IsPart

LEMMA NothingIsPart ==
    ASSUME NEW t
    PROVE  Area!IsPart(<<>>, t)
  <1>1. 1..Len(<<>>) = {}
    OBVIOUS
  <1>2. [i \in {} |-> i] \in [{} -> 1..Len(t)]
    OBVIOUS
  <1> QED BY <1>1, <1>2 DEF Area!IsPart

LEMMA PartsJoined ==
    ASSUME NEW S, NEW s \in Seq(S), NEW t \in Seq(S), NEW u \in Seq(S), NEW v \in Seq(S),
           Area!IsPart(s, t), Area!IsPart(u, v)
    PROVE  Area!IsPart(s \o u, t \o v)
  <1>1. PICK f \in [1..Len(s) -> 1..Len(t)] :
          /\ \A i, j \in 1..Len(s) : i < j => f[i] < f[j]
          /\ \A i \in 1..Len(s) : s[i] = t[f[i]]
    BY DEF Area!IsPart
  <1>2. PICK g \in [1..Len(u) -> 1..Len(v)] :
          /\ \A i, j \in 1..Len(u) : i < j => g[i] < g[j]
          /\ \A i \in 1..Len(u) : u[i] = v[g[i]]
    BY DEF Area!IsPart
  <1> DEFINE h == [i \in 1..Len(s \o u) |->
                     IF i <= Len(s) THEN f[i] ELSE Len(t) + g[i - Len(s)]]
  <1>3. /\ Len(s) \in Nat /\ Len(t) \in Nat /\ Len(u) \in Nat /\ Len(v) \in Nat
        /\ Len(s \o u) = Len(s) + Len(u) /\ Len(t \o v) = Len(t) + Len(v)
    OBVIOUS
  <1>4. ASSUME NEW i \in 1..Len(s \o u)
        PROVE  h[i] \in 1..Len(t \o v) /\ (s \o u)[i] = (t \o v)[h[i]]
    <2>1. CASE i <= Len(s)
      <3>1. i \in 1..Len(s)
        BY <1>3, <2>1
      <3>2. h[i] = f[i]
        BY <2>1
      <3>3. f[i] \in 1..Len(t)
        BY <3>1
      <3> HIDE DEF h
      <3> QED BY <1>1, <1>3, <3>1, <3>2, <3>3
    <2>2. CASE ~(i <= Len(s))
      <3>1. i - Len(s) \in 1..Len(u) /\ h[i] = Len(t) + g[i - Len(s)]
        BY <1>3, <2>2
      <3>2. g[i - Len(s)] \in 1..Len(v)
        BY <3>1
      <3>3. u[i - Len(s)] = v[g[i - Len(s)]]
        BY <1>2, <3>1
      <3>4. (s \o u)[i] = u[i - Len(s)]
        BY <1>3, <2>2
      <3> HIDE DEF h
      <3>5. h[i] \in 1..Len(t \o v) /\ ~(h[i] <= Len(t)) /\ h[i] - Len(t) = g[i - Len(s)]
        BY <1>3, <3>1, <3>2
      <3>6. (t \o v)[h[i]] = v[h[i] - Len(t)]
        BY <1>3, <3>5
      <3> QED BY <3>3, <3>4, <3>5, <3>6
    <2> QED BY <2>1, <2>2
  <1>5. ASSUME NEW i \in 1..Len(s \o u), NEW j \in 1..Len(s \o u), i < j
        PROVE  h[i] < h[j]
    <2>1. CASE j <= Len(s)
      <3>1. i \in 1..Len(s) /\ j \in 1..Len(s) /\ h[i] = f[i] /\ h[j] = f[j]
        BY <1>3, <1>5, <2>1
      <3> QED BY <1>1, <1>5, <3>1
    <2>2. CASE ~(j <= Len(s)) /\ i <= Len(s)
      <3>1. /\ i \in 1..Len(s) /\ j - Len(s) \in 1..Len(u)
            /\ h[i] = f[i] /\ h[j] = Len(t) + g[j - Len(s)]
        BY <1>3, <2>2
      <3>2. f[i] \in 1..Len(t) /\ g[j - Len(s)] \in 1..Len(v)
        BY <3>1
      <3> QED BY <1>3, <3>1, <3>2
    <2>3. CASE ~(i <= Len(s))
      <3>1. /\ i - Len(s) \in 1..Len(u) /\ j - Len(s) \in 1..Len(u) /\ i - Len(s) < j - Len(s)
            /\ h[i] = Len(t) + g[i - Len(s)] /\ h[j] = Len(t) + g[j - Len(s)]
        BY <1>3, <1>5, <2>3
      <3>2. /\ g[i - Len(s)] \in 1..Len(v) /\ g[j - Len(s)] \in 1..Len(v)
            /\ g[i - Len(s)] < g[j - Len(s)]
        BY <1>2, <3>1
      <3> QED BY <1>3, <3>1, <3>2
    <2> QED BY <1>5, <2>1, <2>2, <2>3
  <1>6. h \in [1..Len(s \o u) -> 1..Len(t \o v)]
    BY <1>4
  <1> HIDE DEF h
  <1> QED BY <1>4, <1>5, <1>6 DEF Area!IsPart

Given == Values \cup {Null}

LEMMA StageType ==
    ASSUME NEW c, NEW x \in Given \cup {Absent}
    PROVE  Stage(c, x) \in Seq(Given)
  <1>1. <<Null>> \in Seq(Given) /\ <<>> \in Seq(Given) /\ (x # Absent => <<x>> \in Seq(Given))
    BY DEF Given
  <1> QED BY <1>1 DEF Stage

\* The last of the values s, or x when there is none.
LastOf(x, s) == IF s = <<>> THEN x ELSE s[Len(s)]

LEMMA LastOfJoined ==
    ASSUME NEW S, NEW x, NEW s \in Seq(S), NEW t \in Seq(S)
    PROVE  LastOf(x, s \o t) = LastOf(LastOf(x, s), t)
  BY DEF LastOf

LEMMA LastOfStage ==
    ASSUME NEW x, NEW c \in BOOLEAN, NEW y
    PROVE  LastOf(x, Stage(c, y)) = Applied(x, c, y)
  BY DEF LastOf, Stage, Applied

\* The two stages that are under way before what the page changed last.
Ahead(k) == Stage(clearItems, items[k]) \o Stage(clearing, pending[k])

LEMMA LateType ==
    ASSUME MapType, NEW k \in Keys
    PROVE  /\ Stage(clearItems, items[k]) \in Seq(Given) /\ Stage(clearing, pending[k]) \in Seq(Given)
           /\ Stage(cleared, changed[k]) \in Seq(Given) /\ Ahead(k) \in Seq(Given)
           /\ Late[k] = Ahead(k) \o Stage(cleared, changed[k]) /\ Late[k] \in Seq(Given)
  <1>1. items[k] \in Given \cup {Absent} /\ pending[k] \in Given \cup {Absent} /\ changed[k] \in Given \cup {Absent}
    BY DEF MapType, Changes, Given
  <1>2. /\ Stage(clearItems, items[k]) \in Seq(Given) /\ Stage(clearing, pending[k]) \in Seq(Given)
        /\ Stage(cleared, changed[k]) \in Seq(Given)
    BY <1>1, StageType
  <1>3. Late[k] = Ahead(k) \o Stage(cleared, changed[k])
    BY DEF Late, Ahead
  <1> QED BY <1>2, <1>3, ConcatProperties DEF Ahead

\* What the area will have on the disk is what the three stages make of it.
LEMMA FinalIsLast ==
    MapType /\ cleared \in BOOLEAN /\ clearing \in BOOLEAN /\ clearItems \in BOOLEAN
      => \A k \in Keys : Area!Final(k) = Final(k)
  <1> SUFFICES ASSUME MapType, cleared \in BOOLEAN, clearing \in BOOLEAN, clearItems \in BOOLEAN,
                      NEW k \in Keys
               PROVE  Area!Final(k) = Final(k)
    OBVIOUS
  <1>1. Area!Final(k) = LastOf(db[k], Late[k])
    BY DEF Area!Final, LastOf
  <1>2. LastOf(db[k], Late[k]) = LastOf(LastOf(db[k], Ahead(k)), Stage(cleared, changed[k]))
    <2>1. /\ Ahead(k) \in Seq(Given) /\ Stage(cleared, changed[k]) \in Seq(Given)
          /\ Late[k] = Ahead(k) \o Stage(cleared, changed[k])
      BY LateType
    <2>2. LastOf(db[k], Ahead(k) \o Stage(cleared, changed[k]))
            = LastOf(LastOf(db[k], Ahead(k)), Stage(cleared, changed[k]))
      BY ONLY <2>1, LastOfJoined
    <2> QED BY <2>1, <2>2
  <1>3. LastOf(db[k], Ahead(k)) = LastOf(LastOf(db[k], Stage(clearItems, items[k])), Stage(clearing, pending[k]))
    BY LateType, LastOfJoined DEF Ahead
  <1> QED BY <1>1, <1>2, <1>3, LastOfStage DEF Final, Prepared, Written

LEMMA SettledUnlessForbidden == Inv => Area!Settled \/ disabled > 0
  <1> SUFFICES ASSUME Inv, ~(disabled > 0) PROVE Area!Settled
    OBVIOUS
  <1>1. timer = FALSE /\ syncScheduled = FALSE /\ thread \notin {"syncing", "synced"}
    BY DEF Inv, TypeBut, FlagType, SuddenTerminationBalanced, One
  <1>2. /\ changed = NoChanges /\ cleared = FALSE /\ pending = NoChanges /\ clearing = FALSE
        /\ items = NoChanges /\ clearItems = FALSE
    BY <1>1 DEF Inv, AnnouncedInv
  <1>3. <<>> \o <<>> \o <<>> = <<>>
    OBVIOUS
  <1>4. \A k \in Keys : Stage(FALSE, NoChanges[k]) = <<>>
    BY DEF Stage, NoChanges
  <1> QED BY <1>2, <1>3, <1>4 DEF Area!Settled, Late

\* What was changed is replaced in its stage by v, and a clear may precede it.
LEMMA ChangedLast ==
    ASSUME NEW s \in Seq(Given), NEW c \in BOOLEAN, NEW x \in Given \cup {Absent}, NEW v \in Given
    PROVE  /\ Area!IsPart(s \o Stage(c, v), Append(s \o Stage(c, x), v))
           /\ v = Null => Area!IsPart(s \o Stage(TRUE, Absent), Append(s \o Stage(c, x), v))
  <1> DEFINE clear == IF c THEN <<Null>> ELSE <<>>
             old == IF x = Absent THEN <<>> ELSE <<x>>
  <1>0. v # Absent
    BY ItemAssumption DEF Given
  <1>1. clear \in Seq(Given) /\ old \in Seq(Given) /\ <<v>> \in Seq(Given) /\ Stage(c, x) \in Seq(Given)
    <2>1. <<Null>> \in Seq(Given) /\ <<>> \in Seq(Given)
      BY DEF Given
    <2>2. x # Absent => <<x>> \in Seq(Given)
      OBVIOUS
    <2>3. clear \in Seq(Given) /\ old \in Seq(Given)
      BY <2>1, <2>2
    <2>4. Stage(c, x) \in Seq(Given)
      BY StageType
    <2> QED BY <2>3, <2>4
  <1>2. Stage(c, v) = clear \o <<v>> /\ Stage(c, x) = clear \o old /\ Stage(TRUE, Absent) = <<Null>>
    BY <1>0 DEF Stage
  <1>3. Append(s \o Stage(c, x), v) = s \o (clear \o (old \o <<v>>))
    <2>1. Append(s \o Stage(c, x), v) = (s \o Stage(c, x)) \o <<v>>
      BY <1>1, ConcatProperties, AppendIsConcat
    <2>2. (s \o Stage(c, x)) \o <<v>> = s \o (Stage(c, x) \o <<v>>)
      BY <1>1, ConcatAssociative
    <2>3. Stage(c, x) \o <<v>> = clear \o (old \o <<v>>)
      BY <1>1, <1>2, ConcatAssociative
    <2> QED BY <2>1, <2>2, <2>3
  <1> HIDE DEF clear, old
  <1>4. /\ old \o <<v>> \in Seq(Given) /\ clear \o <<v>> \in Seq(Given)
        /\ clear \o (old \o <<v>>) \in Seq(Given)
    BY <1>1, ConcatProperties
  <1>5. Area!IsPart(<<v>>, old \o <<v>>)
    <2>1. Area!IsPart(<<>> \o <<v>>, old \o <<v>>)
      BY <1>1, NothingIsPart, PartOfItself, PartsJoined, EmptySeq
    <2> QED BY <1>1, <2>1, ConcatEmptySeq
  <1>6. Area!IsPart(s \o (clear \o <<v>>), s \o (clear \o (old \o <<v>>)))
    BY <1>1, <1>4, <1>5, PartOfItself, PartsJoined
  <1>7. Area!IsPart(s \o <<v>>, s \o (clear \o (old \o <<v>>)))
    <2>1. Area!IsPart(<<>> \o <<v>>, clear \o (old \o <<v>>))
      BY <1>1, <1>4, <1>5, NothingIsPart, PartsJoined, EmptySeq
    <2>2. Area!IsPart(<<v>>, clear \o (old \o <<v>>))
      BY <1>1, <2>1, ConcatEmptySeq
    <2> QED BY <1>1, <1>4, <2>2, PartOfItself, PartsJoined
  <1> QED BY <1>2, <1>3, <1>6, <1>7

\* Nothing on its way is touched, and neither is what it is for.
LEMMA AreaStutters ==
    ASSUME UNCHANGED <<memory, db, changed, cleared, pending, clearing, items, clearItems,
                       overtaken, failures, disabled>>,
           Imported' = Imported, (main = "closed")' = (main = "closed")
    PROVE  UNCHANGED Area!vars
  <1>1. Late' = Late /\ Lost' = Lost
    BY DEF Late, Lost
  <1> QED BY <1>1 DEF Area!vars

LEMMA ChangeIsChange ==
    ASSUME Inv,
           \/ \E k \in Keys, v \in Values \cup {Null} : SetItem(k, v)
           \/ Clear
    PROVE  \E K \in SUBSET Keys, v \in Values \cup {Null} : Area!Change(K, v)
  <1> USE DEF Inv, TypeBut
  <1>1. /\ PageChanges /\ db' = db /\ main' = main /\ importComplete /\ importComplete' = importComplete
        /\ thread' = thread /\ failures' = failures
        /\ UNCHANGED <<pending, clearing, items, clearItems>>
    BY DEF SetItem, Clear, PageChanges, BlockUntilImportComplete, shared, threadVars
  <1>2. \A k \in Keys : /\ Ahead(k) \in Seq(Given) /\ Ahead(k)' = Ahead(k)
                        /\ Late[k] = Ahead(k) \o Stage(cleared, changed[k])
                        /\ changed[k] \in Given \cup {Absent}
    BY <1>1, LateType DEF Ahead, MapType, Changes, Given
  <1>3. \A k \in Keys : Late'[k] = Ahead(k) \o Stage(cleared', changed'[k])
    BY <1>2 DEF Late, Ahead
  <1>4. \A K : overtaken' = overtaken \ K => Lost' \in {Lost, Lost \ K}
    BY <1>1 DEF Lost
  <1>5. Imported /\ Imported'
    BY <1>1 DEF Imported
  <1>6. ASSUME NEW k \in Keys, NEW v \in Values \cup {Null}, SetItem(k, v)
        PROVE  Area!Change({k}, v)
    <2>1. /\ memory' = [memory EXCEPT ![k] = v] /\ changed' = [changed EXCEPT ![k] = v]
          /\ cleared' = cleared /\ overtaken' = overtaken \ {k}
      BY <1>6 DEF SetItem, ScheduleItemForSync
    <2>2. memory' = [x \in Keys |-> IF x \in {k} THEN v ELSE memory[x]]
      BY <2>1 DEF MapType, Items
    <2>3. /\ changed'[k] = v
          /\ \A x \in Keys \ {k} : changed'[x] = changed[x]
      BY <2>1 DEF MapType, Changes
    <2>4. \A x \in Keys \ {k} : Late'[x] = Late[x]
      BY <1>2, <1>3, <2>1, <2>3
    <2>5. Late'[k] = Ahead(k) \o Stage(cleared, v)
      BY <1>3, <2>1, <2>3
    <2>6. Area!IsPart(Late'[k], Append(Late[k], v))
      BY <1>2, <2>5, ChangedLast DEF FlagType, Given
    <2>7. (IF Late'[k] = <<>> THEN db'[k] ELSE Late'[k][Len(Late'[k])]) = v
      <3>1. v # Absent
        BY ItemAssumption
      <3>2. Stage(cleared, v) \in Seq(Given) /\ cleared \in BOOLEAN
        BY StageType DEF FlagType, Given
      <3>3. LastOf(db[k], Ahead(k) \o Stage(cleared, v)) = LastOf(LastOf(db[k], Ahead(k)), Stage(cleared, v))
        BY <1>2, <3>2, LastOfJoined
      <3>4. LastOf(db[k], Late'[k]) = v
        BY <2>5, <3>1, <3>2, <3>3, LastOfStage DEF Applied
      <3> QED BY <1>1, <3>4 DEF LastOf
    <2> QED BY <1>1, <1>4, <1>5, <2>1, <2>2, <2>4, <2>6, <2>7 DEF Area!Change, Area!Final
  <1>7. ASSUME Clear
        PROVE  Area!Change(Keys, Null)
    <2>1. /\ memory' = [k \in Keys |-> Null] /\ changed' = NoChanges /\ cleared' = TRUE
          /\ overtaken' = {}
      BY <1>7 DEF Clear
    <2>2. memory' = [x \in Keys |-> IF x \in Keys THEN Null ELSE memory[x]]
      BY <2>1
    <2>3. overtaken' = overtaken \ Keys
      BY <2>1 DEF ControlType
    <2>4. ASSUME NEW k \in Keys
          PROVE  Late'[k] = Ahead(k) \o Stage(TRUE, Absent)
      BY <1>3, <2>1 DEF NoChanges
    <2>5. \A k \in Keys : Area!IsPart(Late'[k], Append(Late[k], Null))
      BY <1>2, <2>4, ChangedLast DEF FlagType, Given
    <2>6. ASSUME NEW k \in Keys
          PROVE  (IF Late'[k] = <<>> THEN db'[k] ELSE Late'[k][Len(Late'[k])]) = Null
      <3> DEFINE t == Stage(TRUE, Absent)
      <3>1. t \in Seq(Given) /\ LastOf(LastOf(db[k], Ahead(k)), t) = Null
        BY StageType, LastOfStage DEF Applied
      <3> HIDE DEF t
      <3>2. LastOf(db[k], Ahead(k) \o t) = LastOf(LastOf(db[k], Ahead(k)), t)
        BY <1>2, <3>1, LastOfJoined
      <3>3. LastOf(db[k], Late'[k]) = Null
        BY <2>4, <3>1, <3>2 DEF t
      <3> QED BY <1>1, <3>3 DEF LastOf
    <2> QED BY <1>1, <1>4, <1>5, <2>2, <2>3, <2>5, <2>6 DEF Area!Change, Area!Final
  <1> QED BY <1>6, <1>7

\* What a sync that the main thread prepares takes out of a key's way: what is
\* pending where the batch or a clear replaces it, what is changed where an
\* older change is pending.
LEMMA SyncParts ==
    ASSUME Inv, NEW b \in SUBSET Entries(changed), NEW d, Sync(b, d),
           UNCHANGED <<memory, db, items, clearItems, failures, importComplete, thread>>,
           (main = "closed")' = (main = "closed")
    PROVE  Area!PassOver
  <1> USE DEF Inv, TypeBut
  <1>1. /\ pending' = [k \in Keys |-> IF k \in b THEN changed[k] ELSE IF cleared THEN Absent ELSE pending[k]]
        /\ clearing' = (clearing \/ cleared) /\ cleared' = FALSE
        /\ changed' = IF Partial(b)
                      THEN [k \in Keys |-> IF pending'[k] # Absent THEN Absent ELSE changed[k]]
                      ELSE NoChanges
        /\ overtaken' = overtaken \cup {k \in Entries(changed) : changed'[k] = Absent /\ pending'[k] # changed[k]}
    BY DEF Sync, Merge
  <1>2. /\ MapType' /\ overtaken' \subseteq Keys
        /\ \A k \in Keys : k \notin overtaken' => Final(k)' = Final(k)
    BY SyncCarries DEF ControlType
  <1>3. (cleared \in BOOLEAN /\ clearing \in BOOLEAN /\ clearItems \in BOOLEAN)'
    BY <1>1 DEF FlagType
  <1>4. Lost \subseteq Lost' /\ (\A k \in Keys : k \notin Lost' => k \notin overtaken')
    BY <1>1 DEF Lost, ControlType
  <1>5. \A k \in Keys : k \in Lost' \/ Area!Final(k)' = Area!Final(k)
    <2>1. (\A k \in Keys : Area!Final(k) = Final(k))'
      BY <1>2, <1>3, FinalIsLast, PTL
    <2> QED BY <1>2, <1>4, <2>1, FinalIsLast DEF FlagType
  <1>6. ASSUME NEW k \in Keys
        PROVE  Area!IsPart(Late'[k], Late[k])
    <2> DEFINE W == Stage(clearItems, items[k])
               X == Stage(clearing, pending[k])
               Y == Stage(cleared, changed[k])
    <2>1. /\ W \in Seq(Given) /\ X \in Seq(Given) /\ Y \in Seq(Given)
          /\ W \o X \in Seq(Given) /\ Late[k] = (W \o X) \o Y
      BY LateType DEF Ahead
    <2>2. Late'[k] = (W \o Stage(clearing', pending'[k])) \o Stage(FALSE, changed'[k])
      BY <1>1 DEF Late
    <2>3. /\ pending'[k] = IF k \in b THEN changed[k] ELSE IF cleared THEN Absent ELSE pending[k]
          /\ changed[k] \in Given \cup {Absent} /\ pending[k] \in Given \cup {Absent}
          /\ (k \in b => changed[k] \in Given /\ changed[k] # Absent)
      BY <1>1 DEF MapType, Changes, Given, Entries
    <2>4. changed'[k] = IF pending'[k] # Absent THEN Absent ELSE changed[k]
      BY <1>1 DEF Partial, NoChanges, Entries
    <2>5. Stage(FALSE, Absent) = <<>> /\ <<>> \in Seq(Given)
      BY DEF Stage
    <2>6. Area!IsPart(W, W) /\ Area!IsPart(W \o X, W \o X) /\ Area!IsPart(Y, Y) /\ Area!IsPart(<<>>, X) /\ Area!IsPart(<<>>, Y)
      BY <2>1, PartOfItself, NothingIsPart
    <2>7. Area!IsPart(W \o Y, Late[k])
      <3>1. Area!IsPart(W \o <<>>, W \o X)
        BY ONLY <2>1, <2>5, <2>6, PartsJoined
      <3>2. Area!IsPart(W, W \o X)
        BY <2>1, <3>1, ConcatEmptySeq
      <3> QED BY <2>1, <2>6, <3>2, PartsJoined
    <2>8. CASE cleared = TRUE
      <3>1. clearing' = TRUE
        BY <1>1, <2>8
      <3>2. CASE k \in b
        <4>1. Late'[k] = (W \o Y) \o <<>>
          BY <2>2, <2>3, <2>4, <2>5, <2>8, <3>1, <3>2
        <4>2. Late'[k] = W \o Y
          BY <2>1, <4>1, ConcatProperties, ConcatEmptySeq
        <4> QED BY <2>7, <4>2
      <3>3. CASE k \notin b
        <4>1. Late'[k] = (W \o Stage(TRUE, Absent)) \o Stage(FALSE, changed[k])
          BY <2>2, <2>3, <2>4, <2>8, <3>1, <3>3
        <4>2. Stage(TRUE, Absent) \in Seq(Given) /\ Stage(FALSE, changed[k]) \in Seq(Given)
          BY <2>3, StageType
        <4>3. Stage(TRUE, Absent) \o Stage(FALSE, changed[k]) = Y
          BY <2>8 DEF Stage
        <4>4. Late'[k] = W \o (Stage(TRUE, Absent) \o Stage(FALSE, changed[k]))
          <5> DEFINE t == Stage(TRUE, Absent)
                     u == Stage(FALSE, changed[k])
          <5>1. t \in Seq(Given) /\ u \in Seq(Given) /\ Late'[k] = (W \o t) \o u
            BY <4>1, <4>2
          <5> HIDE DEF W, t, u
          <5>2. W \in Seq(Given)
            BY <2>1
          <5>3. (W \o t) \o u = W \o (t \o u)
            BY ONLY <5>1, <5>2, ConcatAssociative, SMTT(30)
          <5> QED BY <5>1, <5>3 DEF t, u
        <4>5. Late'[k] = W \o Y
          BY <4>3, <4>4
        <4> QED BY <2>7, <4>5
      <3> QED BY <3>2, <3>3
    <2>9. CASE cleared = FALSE
      <3>1. clearing' = clearing
        BY <1>1, <2>9 DEF FlagType
      <3>2. CASE k \in b
        <4>1. Late'[k] = (W \o Stage(clearing, changed[k])) \o <<>>
          BY <2>2, <2>3, <2>4, <2>5, <3>1, <3>2
        <4>2. Stage(clearing, changed[k]) \in Seq(Given)
          BY <2>3, StageType
        <4>3. Late'[k] = W \o Stage(clearing, changed[k])
          BY <2>1, <4>1, <4>2, ConcatProperties, ConcatEmptySeq
        <4>4. Y = <<changed[k]>>
          BY <2>3, <2>9, <3>2 DEF Stage
        <4>5. Late[k] = Append(W \o X, changed[k])
          BY <2>1, <2>3, <3>2, <4>4, AppendIsConcat
        <4>6. Area!IsPart(W \o Stage(clearing, changed[k]), Append(W \o X, changed[k]))
          BY <2>1, <2>3, <3>2, ChangedLast DEF FlagType
        <4> QED BY <4>3, <4>5, <4>6
      <3>3. CASE k \notin b
        <4>1. Late'[k] = (W \o X) \o Stage(FALSE, changed'[k])
          BY <2>2, <2>3, <2>9, <3>1, <3>3
        <4>2. Stage(FALSE, changed'[k]) \in {<<>>, Y}
          BY <2>4, <2>5, <2>9
        <4>3. Area!IsPart(Stage(FALSE, changed'[k]), Y) /\ Stage(FALSE, changed'[k]) \in Seq(Given)
          BY <2>1, <2>5, <2>6, <4>2
        <4> QED BY <2>1, <2>6, <4>1, <4>3, PartsJoined
      <3> QED BY <3>2, <3>3
    <2> QED BY <2>8, <2>9 DEF FlagType
  <1> QED BY <1>4, <1>5, <1>6 DEF Area!PassOver, Imported

LEMMA HeadTailJoined ==
    ASSUME NEW S, NEW s \in Seq(S), NEW t \in Seq(S), s # <<>>
    PROVE  s \o t # <<>> /\ Head(s \o t) = Head(s) /\ Tail(s \o t) = Tail(s) \o t
  OBVIOUS

\* A stage that loses its first value is the stage without the clear, or, when
\* there is none, the empty one.
LEMMA StageTakes ==
    ASSUME NEW x \in Given \cup {Absent}
    PROVE  /\ Stage(TRUE, x) # <<>> /\ Head(Stage(TRUE, x)) = Null
           /\ Tail(Stage(TRUE, x)) = Stage(FALSE, x)
           /\ x # Absent => /\ Stage(FALSE, x) # <<>> /\ Head(Stage(FALSE, x)) = x
                            /\ Tail(Stage(FALSE, x)) = Stage(FALSE, Absent)
  <1>1. CASE x = Absent
    BY <1>1 DEF Stage
  <1>2. CASE x # Absent
    <2>1. /\ Stage(TRUE, x) = <<Null>> \o <<x>> /\ Stage(FALSE, x) = <<>> \o <<x>>
          /\ Stage(FALSE, Absent) = <<>> \o <<>>
      BY <1>2 DEF Stage
    <2>2. <<x>> \in Seq(Given) /\ <<Null>> \in Seq(Given) /\ <<>> \in Seq(Given)
      BY <1>2 DEF Given
    <2>3. <<>> \o <<x>> = <<x>> /\ <<>> \o <<>> = <<>>
      BY <2>2, ConcatEmptySeq
    <2>4. /\ Tail(<<Null>>) = <<>> /\ Head(<<Null>>) = Null /\ Tail(<<x>>) = <<>> /\ Head(<<x>>) = x
          /\ <<x>> # <<>> /\ <<Null>> # <<>>
      OBVIOUS
    <2>5. /\ <<Null>> \o <<x>> # <<>> /\ Head(<<Null>> \o <<x>>) = Null
          /\ Tail(<<Null>> \o <<x>>) = <<>> \o <<x>>
      <3> DEFINE s == <<Null>>
                 t == <<x>>
      <3>1. /\ s \in Seq(Given) /\ t \in Seq(Given)
            /\ s # <<>> /\ Head(s) = Null /\ Tail(s) = <<>>
        BY <2>2, <2>4
      <3> HIDE DEF s, t
      <3>2. s \o t # <<>> /\ Head(s \o t) = Null /\ Tail(s \o t) = <<>> \o t
        BY ONLY <3>1, HeadTailJoined
      <3> QED BY ONLY <3>2 DEF s, t
    <2>6. Stage(FALSE, x) = <<x>> /\ Stage(FALSE, Absent) = <<>>
      BY <2>1, <2>3
    <2> QED BY <2>1, <2>4, <2>5, <2>6
  <1> QED BY <1>1, <1>2

\* What writing takes from the front of what is late, when only the storage
\* thread's own stage changes.
LEMMA WritesFirst ==
    ASSUME Inv, NEW k \in Keys, UNCHANGED <<cleared, changed, clearing, pending>>,
           Stage(clearItems, items[k]) # <<>>,
           Stage(clearItems', items'[k]) = Tail(Stage(clearItems, items[k]))
    PROVE  /\ Late[k] # <<>> /\ Head(Late[k]) = Head(Stage(clearItems, items[k]))
           /\ Late'[k] = Tail(Late[k])
  <1> DEFINE s == Stage(clearItems, items[k])
             t == Stage(clearing, pending[k])
             u == Stage(cleared, changed[k])
  <1>1. /\ s \in Seq(Given) /\ t \in Seq(Given) /\ u \in Seq(Given) /\ s \o t \in Seq(Given)
        /\ Late[k] = (s \o t) \o u
    BY LateType DEF Ahead, Inv, TypeBut
  <1>2. Late'[k] = (Tail(s) \o t) \o u
    BY DEF Late
  <1>3. s # <<>>
    OBVIOUS
  <1> HIDE DEF s, t, u
  <1>4. s \o t # <<>> /\ Head(s \o t) = Head(s) /\ Tail(s \o t) = Tail(s) \o t
    BY ONLY <1>1, <1>3, HeadTailJoined
  <1>5. /\ (s \o t) \o u # <<>> /\ Head((s \o t) \o u) = Head(s \o t)
        /\ Tail((s \o t) \o u) = Tail(s \o t) \o u
    BY ONLY <1>1, <1>4, HeadTailJoined
  <1> QED BY <1>1, <1>2, <1>4, <1>5 DEF s

LEMMA ThreadWrites ==
    ASSUME Inv, ClearTable \/ \E k \in Keys : WriteItem(k)
    PROVE  \E K \in SUBSET Keys : Area!Write(K)
  <1> USE DEF Inv, TypeBut
  <1>1. /\ UNCHANGED <<memory, main, changed, cleared, pending, clearing, importComplete, thread, failures,
                       overtaken>>
        /\ thread = "syncing" /\ Imported /\ Imported'
    BY DEF ClearTable, WriteItem, requests, shared, ImportInv, Imported
  <1>2. Lost' = Lost
    BY <1>1 DEF Lost
  <1>3. \A k \in Keys : items[k] \in Given \cup {Absent}
    BY DEF MapType, Changes, Given
  <1>4. ASSUME NEW k \in Keys
        PROVE  items'[k] = items[k] /\ clearItems' = clearItems => Late'[k] = Late[k]
    BY <1>1 DEF Late
  <1>5. Late' = [k \in Keys |-> Late'[k]]
    BY DEF Late
  <1>6. CASE ClearTable
    <2>1. clearItems = TRUE /\ clearItems' = FALSE /\ items' = items /\ db' = [k \in Keys |-> Null]
      BY <1>6 DEF ClearTable, FlagType
    <2>2. \A k \in Keys : /\ Late[k] # <<>> /\ Head(Late[k]) = Null
                          /\ Late'[k] = Tail(Late[k])
      BY <1>1, <1>3, <2>1, StageTakes, WritesFirst
    <2>3. db' = [k \in Keys |-> IF k \in Keys THEN Head(Late[k]) ELSE db[k]]
      BY <2>1, <2>2
    <2>4. Late' = [k \in Keys |-> IF k \in Keys THEN Tail(Late[k]) ELSE Late[k]]
      BY <1>5, <2>2
    <2>5. Area!Write(Keys)
      BY <1>1, <1>2, <2>2, <2>3, <2>4 DEF Area!Write
    <2> QED BY <2>5
  <1>7. ASSUME NEW k \in Keys, WriteItem(k)
        PROVE  Area!Write({k})
    <2>1. /\ clearItems = FALSE /\ clearItems' = clearItems /\ items[k] # Absent
          /\ db' = [db EXCEPT ![k] = items[k]] /\ items' = [items EXCEPT ![k] = Absent]
      BY <1>7 DEF WriteItem, FlagType
    <2>2. items'[k] = Absent /\ (\A x \in Keys \ {k} : items'[x] = items[x])
      BY <2>1 DEF MapType, Changes
    <2>3. /\ Late[k] # <<>> /\ Head(Late[k]) = items[k]
          /\ Late'[k] = Tail(Late[k])
      BY <1>1, <1>3, <2>1, <2>2, StageTakes, WritesFirst
    <2>4. db' = [x \in Keys |-> IF x \in {k} THEN Head(Late[x]) ELSE db[x]]
      BY <2>1, <2>3 DEF MapType, Items
    <2>5. Late' = [x \in Keys |-> IF x \in {k} THEN Tail(Late[x]) ELSE Late[x]]
      BY <1>4, <1>5, <2>1, <2>2, <2>3
    <2> QED BY <1>1, <1>2, <2>3, <2>4, <2>5 DEF Area!Write
  <1> QED BY <1>6, <1>7

LEMMA ThreadAbandons ==
    ASSUME Inv, AbandonSync
    PROVE  Area!PassOver
  <1> USE DEF Inv, TypeBut
  <1>1. /\ thread = "syncing" /\ items' = NoChanges /\ clearItems' = FALSE
        /\ IF opened THEN failures' = failures + 1 ELSE failures' = failures
        /\ UNCHANGED <<memory, main, changed, cleared, pending, clearing, importComplete, thread, db, overtaken>>
    BY DEF AbandonSync, DatabaseFails, requests, shared
  <1>2. Imported /\ Imported'
    BY <1>1 DEF ImportInv, Imported
  <1>3. failures' > 0
    BY <1>1, <1>2 DEF CarriedInv, ControlType
  <1>4. Lost' = Keys /\ Lost \subseteq Keys
    BY <1>3 DEF Lost, ControlType
  <1>5. ASSUME NEW k \in Keys
        PROVE  Area!IsPart(Late'[k], Late[k])
    <2> DEFINE s == Stage(clearItems, items[k])
               t == Stage(clearing, pending[k])
               u == Stage(cleared, changed[k])
    <2>1. /\ s \in Seq(Given) /\ t \in Seq(Given) /\ u \in Seq(Given) /\ s \o t \in Seq(Given)
          /\ Late[k] = (s \o t) \o u
      BY LateType DEF Ahead
    <2>2. Stage(FALSE, NoChanges[k]) = <<>>
      BY DEF Stage, NoChanges
    <2>3. Late'[k] = (<<>> \o t) \o u
      BY <1>1, <2>2 DEF Late
    <2>4. <<>> \in Seq(Given)
      OBVIOUS
    <2> HIDE DEF s, t, u
    <2>5. Area!IsPart(<<>> \o t, s \o t)
      BY <2>1, <2>4, NothingIsPart, PartOfItself, PartsJoined
    <2>6. <<>> \o t \in Seq(Given)
      BY <2>1, <2>4, ConcatProperties
    <2> QED BY <2>1, <2>3, <2>5, <2>6, PartOfItself, PartsJoined
  <1> QED BY <1>1, <1>2, <1>4, <1>5 DEF Area!PassOver

LEMMA ThreadImports ==
    ASSUME Inv, PerformImport
    PROVE  Area!Load
  <1> USE DEF Inv, TypeBut
  <1>1. /\ thread = "waiting" /\ thread' = "imported" /\ TakeTask("import")
        /\ \/ memory' = db /\ failures' = failures
           \/ failures' = failures + 1 /\ memory' = memory
        /\ UNCHANGED <<main, changed, cleared, pending, clearing, items, clearItems, db, overtaken>>
    BY DEF PerformImport, DatabaseFails, TakeTask, requests, shared
  <1>2. importComplete = FALSE
    BY <1>1, TakenFacts DEF ImportInv, FlagType
  <1>3. ~Imported /\ Imported'
    BY <1>1, <1>2 DEF Imported
  <1>4. Late' = Late
    BY <1>1 DEF Late
  <1>5. failures' = failures => Lost' = Lost
    BY <1>1 DEF Lost
  <1>6. failures' = failures + 1 => Lost' = Keys
    BY DEF Lost, ControlType
  <1>7. /\ ~Imported /\ Imported' = TRUE
        /\ db' = db /\ (main = "closed")' = (main = "closed")
    BY <1>1, <1>3 DEF Imported
  <1> QED BY <1>1, <1>4, <1>5, <1>6, <1>7 DEF Area!Load

\* Every step is one of the area that is written behind, or changes nothing it
\* has.
LEMMA AreaStep ==
    Inv /\ Inv' /\ (Area!Settled \/ disabled > 0)' /\ [Next]_vars => [Area!Next]_(Area!vars)
  <1> SUFFICES ASSUME Inv, Inv', (Area!Settled \/ disabled > 0)', [Next]_vars
               PROVE  [Area!Next]_(Area!vars)
    OBVIOUS
  <1> USE DEF Inv, TypeBut
  <1>1. (disabled > 0)' \in BOOLEAN /\ (Area!Settled' \/ (disabled > 0)')
    OBVIOUS
  <1>2. ~(main = "closed") /\ (Area!Load \/ Area!PassOver \/ Area!Tell \/ Area!Close) => Area!Next
    BY <1>1 DEF Area!Next
  <1>3. ~(main = "closed") /\ (\E K \in SUBSET Keys : Area!Write(K)) => Area!Next
    BY <1>1 DEF Area!Next
  <1>4. ~(main = "closed") /\ (\E K \in SUBSET Keys, v \in Values \cup {Null} : Area!Change(K, v))
          => Area!Next
    BY <1>1 DEF Area!Next
  <1>5. main = "closed" => thread = "ended" /\ queue = <<>>
    BY DEF TaskInv
  <1>6. CASE Clear \/ \E k \in Keys, v \in Values \cup {Null} : SetItem(k, v)
    <2>1. main = "open"
      BY <1>6 DEF Clear, SetItem, PageChanges
    <2> QED BY <1>4, <1>6, <2>1, ChangeIsChange
  <1>7. CASE Access
    <2>1. UNCHANGED Area!vars
      BY <1>7, AreaStutters DEF Access, requests, shared, threadVars, Imported
    <2> QED BY <2>1
  <1>8. CASE SyncTimerFired
    <2>1. PICK b \in Batch : Sync(b, disabled)
      BY <1>8 DEF SyncTimerFired
    <2>2. b \in SUBSET Entries(changed)
      BY DEF Batch
    <2>3. main = "open" /\ UNCHANGED <<memory, db, items, clearItems, failures, main, importComplete, thread>>
      BY <1>8 DEF SyncTimerFired, threadVars
    <2> QED BY <1>2, <2>1, <2>2, <2>3, SyncParts
  <1>9. CASE Close
    <2>1. /\ Sync(Entries(changed), IF timer THEN disabled ELSE disabled + 1)
          /\ main = "open" /\ main' = "closing"
          /\ UNCHANGED <<memory, db, items, clearItems, failures, importComplete, thread>>
      BY <1>9 DEF Close, threadVars
    <2>2. (main = "closed")' = (main = "closed") /\ Entries(changed) \in SUBSET Entries(changed)
      BY <2>1
    <2>3. Area!PassOver
      BY <2>1, <2>2, SyncParts
    <2> QED BY <1>2, <2>1, <2>3
  <1>10. CASE Joined
    <2>1. /\ main = "closing" /\ thread = "ended" /\ main' = "closed"
          /\ UNCHANGED <<memory, db, changed, cleared, pending, clearing, items, clearItems, overtaken,
                         failures, disabled, importComplete, thread>>
      BY <1>10 DEF Joined, requests, shared, threadVars
    <2>2. Late' = Late /\ Lost' = Lost /\ Imported' = Imported
      BY <2>1 DEF Late, Lost, Imported
    <2>3. disabled = 0
      <3>1. queue = <<>> /\ timer = FALSE
        BY <2>1 DEF TaskInv, AnnouncedInv
      <3>2. \A i \in 1..Len(queue) : FALSE
        BY <3>1
      <3>3. syncScheduled = FALSE
        BY <3>2 DEF FlagType, SuddenTerminationBalanced
      <3> QED BY <2>1, <3>1, <3>3 DEF SuddenTerminationBalanced, One
    <2>4. Area!Settled
      BY <2>3, SettledUnlessForbidden
    <2>5. Area!Close
      BY <2>1, <2>2, <2>3, <2>4 DEF Area!Close
    <2> QED BY <1>2, <2>1, <2>5
  <1>11. CASE PerformImport
    <2>1. main # "closed"
      BY <1>5, <1>11 DEF PerformImport, TakeTask
    <2> QED BY <1>2, <1>11, <2>1, ThreadImports
  <1>12. CASE MarkImported
    <2>1. UNCHANGED Area!vars
      BY <1>12, AreaStutters DEF MarkImported, requests, shared, Imported
    <2> QED BY <2>1
  <1>13. CASE StartSync
    <2>1. /\ thread = "waiting" /\ thread' = "syncing" /\ TakeTask("sync")
          /\ items' = pending /\ pending' = NoChanges /\ clearItems' = clearing /\ clearing' = FALSE
          /\ UNCHANGED <<memory, main, changed, cleared, importComplete, disabled, db, failures, overtaken>>
      BY <1>13 DEF StartSync, TakeTask, requests
    <2>2. items = NoChanges /\ clearItems = FALSE
      BY <2>1 DEF AnnouncedInv
    <2>3. ASSUME NEW k \in Keys PROVE Late'[k] = Late[k]
      <3> DEFINE t == Stage(clearing, pending[k])
                 u == Stage(cleared, changed[k])
      <3>1. t \in Seq(Given) /\ u \in Seq(Given)
        BY LateType
      <3>2. Stage(FALSE, NoChanges[k]) = <<>>
        BY DEF Stage, NoChanges
      <3>3. Late[k] = (<<>> \o t) \o u /\ Late'[k] = (t \o <<>>) \o u
        BY <2>1, <2>2, <3>2 DEF Late
      <3> HIDE DEF t, u
      <3> QED BY <3>1, <3>3, ConcatEmptySeq
    <2>4. Late' = Late
      BY <2>3 DEF Late
    <2>5. Lost' = Lost /\ Imported' = Imported
      BY <2>1 DEF Lost, Imported
    <2>6. UNCHANGED Area!vars
      BY <2>1, <2>4, <2>5 DEF Area!vars
    <2> QED BY <2>6
  <1>14. CASE ClearTable \/ \E k \in Keys : WriteItem(k)
    <2>1. main # "closed"
      BY <1>5, <1>14 DEF ClearTable, WriteItem
    <2> QED BY <1>3, <1>14, <2>1, ThreadWrites
  <1>15. CASE AbandonSync
    <2>1. main # "closed"
      BY <1>5, <1>15 DEF AbandonSync
    <2> QED BY <1>2, <1>15, <2>1, ThreadAbandons
  <1>16. CASE SyncDone \/ Terminate
    <2>1. UNCHANGED Area!vars
      BY <1>16, AreaStutters DEF SyncDone, Terminate, TakeTask, requests, shared, Imported
    <2> QED BY <2>1
  <1>17. CASE EnableTermination
    <2>1. /\ thread = "synced" /\ thread' = "waiting"
          /\ UNCHANGED <<memory, main, db, changed, cleared, pending, clearing, items, clearItems, overtaken,
                         failures, importComplete>>
      BY <1>17 DEF EnableTermination, requests, shared
    <2>2. Late' = Late /\ Lost' = Lost /\ Imported' = Imported
      BY <2>1 DEF Late, Lost, Imported
    <2>3. Area!Tell /\ main # "closed"
      BY <1>5, <2>1, <2>2 DEF Area!Tell
    <2> QED BY <1>2, <2>3
  <1>18. CASE UNCHANGED vars
    <2>1. UNCHANGED Area!vars
      BY <1>18, AreaStutters DEF vars, requests, shared, threadVars, Imported
    <2> QED BY <2>1
  <1> QED BY <1>6, <1>7, <1>8, <1>9, <1>10, <1>11, <1>12, <1>13, <1>14, <1>15, <1>16, <1>17, <1>18
          DEF Next, StorageThread

\* Whatever batches, clears and failures there are, the database follows the
\* page's changes of every key in their order, and nothing is on its way while
\* the process may be terminated or once close has returned.
THEOREM AreaIsWrittenBehind == Spec => ImplementsWriteBehind
  <1>1. Init => Area!Init
    <2> SUFFICES ASSUME Init PROVE Area!Init
      OBVIOUS
    <2>1. Late = [k \in Keys |-> <<>>]
      <3>1. \A k \in Keys : Stage(FALSE, NoChanges[k]) = <<>>
        BY DEF Stage, NoChanges
      <3>2. <<>> \o <<>> \o <<>> = <<>>
        OBVIOUS
      <3> QED BY <3>1, <3>2 DEF Init, Late
    <2>2. Lost = {} /\ Imported = FALSE /\ (disabled > 0) = FALSE /\ (main = "closed") = FALSE
      BY DEF Init, Lost, Imported
    <2> QED BY <2>1, <2>2 DEF Init, Area!Init, Items
  <1> QED BY <1>1, AreaStep, SettledUnlessForbidden, Invariance, PTL DEF Spec, ImplementsWriteBehind, Area!Spec

=============================================================================
