-------------------------- MODULE WindowsCondition --------------------------
(***************************************************************************)
(* The condition variable WTF builds from two semaphores and a mutex where *)
(* the system has none (PlatformCondition, JavaScriptCore/wtf/             *)
(* ThreadingWin.cpp), used as MessageQueue uses it: consumers loop until   *)
(* there is a message or the queue is killed, and whoever posts or kills   *)
(* signals with the mutex held.                                            *)
(*                                                                         *)
(* m_blockLock is the gate: a waiter passes it on its way in, a signal     *)
(* closes it, and the last waiter the signal is for opens it again, so     *)
(* that a thread that comes later cannot take the wakeup.  A step here is  *)
(* what a thread does up to the next place where it can be made to wait,   *)
(* or between two accesses to the counters.                                *)
(***************************************************************************)
EXTENDS Integers, FiniteSets

CONSTANTS
    Consumers,    \* threads that wait
    Posters,      \* threads that signal
    NoOne,        \* owner of a mutex that is free
    MaxPosts,     \* bound: how many messages are posted
    GoneLimit     \* INT_MAX / 2 in the code; small here so that it is reached

ASSUME LimitAssumption == MaxPosts \in Nat /\ GoneLimit \in Nat \ {0}
ASSUME ThreadAssumption == IsFiniteSet(Consumers) /\ NoOne \notin Consumers \cup Posters

Threads == Consumers \cup Posters

VARIABLES
    pc,                \* where each thread is
    timed,             \* whether its wait has a deadline
    timedOut,          \* local of timedWait
    signalsLeft,       \* local of timedWait
    signalsToIssue,    \* local of signal
    unblockAll,        \* argument of signal
    owner,             \* owner of the critical section of the Mutex
    waitersGone,       \* m_waitersGone
    waitersBlocked,    \* m_waitersBlocked
    waitersToUnblock,  \* m_waitersToUnblock
    blockLock,         \* count of the semaphore m_blockLock: 1 is open
    blockQueue,        \* count of the semaphore m_blockQueue
    unblockLock,       \* owner of the mutex m_unblockLock
    messages,          \* the queue the mutex guards: how many are in it,
    posts,             \*   how many were ever posted,
    killed             \*   and whether it was killed

locals == <<timed, timedOut, signalsLeft, signalsToIssue, unblockAll>>
counters == <<waitersGone, waitersBlocked, waitersToUnblock>>
monitor == <<messages, posts, killed>>
vars == <<pc, locals, owner, counters, blockLock, blockQueue,
          unblockLock, monitor>>

TypeOK ==
    /\ pc \in [Threads -> {"idle", "test", "enter", "leave", "main", "unblock",
                           "normalize", "open", "relock",
                           "signal", "close", "release", "unlock"}]
    /\ timed \in [Threads -> BOOLEAN] /\ timedOut \in [Threads -> BOOLEAN]
    /\ signalsLeft \in [Threads -> Nat] /\ signalsToIssue \in [Threads -> Nat]
    /\ unblockAll \in [Threads -> BOOLEAN]
    /\ owner \in Threads \cup {NoOne} /\ unblockLock \in Threads \cup {NoOne}
    /\ waitersGone \in 0..GoneLimit
    /\ waitersBlocked \in 0..(Cardinality(Consumers) + GoneLimit)
    /\ waitersToUnblock \in 0..Cardinality(Consumers)
    /\ blockLock \in {0, 1} /\ blockQueue \in Nat
    /\ messages \in Nat /\ posts \in 0..MaxPosts /\ killed \in BOOLEAN

Init ==
    /\ pc = [t \in Threads |-> "idle"]
    /\ timed = [t \in Threads |-> FALSE]
    /\ timedOut = [t \in Threads |-> FALSE]
    /\ signalsLeft = [t \in Threads |-> 0]
    /\ signalsToIssue = [t \in Threads |-> 0]
    /\ unblockAll = [t \in Threads |-> FALSE]
    /\ owner = NoOne /\ unblockLock = NoOne
    /\ waitersGone = 0 /\ waitersBlocked = 0 /\ waitersToUnblock = 0
    /\ blockLock = 1 /\ blockQueue = 0
    /\ messages = 0 /\ posts = 0 /\ killed = FALSE

Goto(t, from, to) == pc[t] = from /\ pc' = [pc EXCEPT ![t] = to]

-----------------------------------------------------------------------------
(***************************************************************************)
(* Mutex.  No thread here enters the critical section twice, and only      *)
(* tryLock, which nothing here calls, reads m_recursionCount.              *)
(***************************************************************************)
Lock(t) ==
    /\ owner = NoOne
    /\ owner' = t

Unlock == owner' = NoOne

-----------------------------------------------------------------------------
(***************************************************************************)
(* The monitor: MessageQueue's waitForMessageFilteredWithTimeout, append   *)
(* and kill.                                                               *)
(***************************************************************************)
Consume(c, t) ==
    /\ Goto(c, "idle", "test")
    /\ Lock(c)
    /\ timed' = [timed EXCEPT ![c] = t]
    /\ timedOut' = [timedOut EXCEPT ![c] = FALSE]
    /\ UNCHANGED <<signalsLeft, signalsToIssue, unblockAll, counters, blockLock,
                   blockQueue, unblockLock, monitor>>

\* The condition of the loop, with the mutex held.
Test(c) ==
    /\ pc[c] = "test"
    /\ \/ /\ ~killed /\ ~timedOut[c] /\ messages = 0
          /\ pc' = [pc EXCEPT ![c] = "enter"]
          /\ UNCHANGED <<messages, owner>>
       \/ /\ killed \/ timedOut[c] \/ messages > 0
          /\ messages' = IF killed \/ timedOut[c] THEN messages ELSE messages - 1
          /\ Unlock
          /\ pc' = [pc EXCEPT ![c] = "idle"]
    /\ UNCHANGED <<locals, counters, blockLock, blockQueue, unblockLock, posts, killed>>

Post(p) ==
    /\ posts < MaxPosts
    /\ Goto(p, "idle", "signal")
    /\ Lock(p)
    /\ messages' = messages + 1
    /\ posts' = posts + 1
    /\ unblockAll' = [unblockAll EXCEPT ![p] = FALSE]
    /\ UNCHANGED <<timed, timedOut, signalsLeft, signalsToIssue, counters, blockLock,
                   blockQueue, unblockLock, killed>>

Kill(p) ==
    /\ Goto(p, "idle", "signal")
    /\ ~killed
    /\ Lock(p)
    /\ killed' = TRUE
    /\ unblockAll' = [unblockAll EXCEPT ![p] = TRUE]
    /\ UNCHANGED <<timed, timedOut, signalsLeft, signalsToIssue, counters, blockLock,
                   blockQueue, unblockLock, messages, posts>>

Leave(t) ==
    /\ Goto(t, "unlock", "idle")
    /\ Unlock
    /\ UNCHANGED <<locals, counters, blockLock, blockQueue, unblockLock, monitor>>

-----------------------------------------------------------------------------
(***************************************************************************)
(* PlatformCondition::timedWait.                                           *)
(***************************************************************************)
\* Through the gate, which is open when m_blockLock can be had.
EnterWait(c) ==
    /\ Goto(c, "enter", "leave")
    /\ blockLock = 1
    /\ waitersBlocked' = waitersBlocked + 1
    /\ UNCHANGED <<locals, owner, waitersGone, waitersToUnblock, blockLock,
                   blockQueue, unblockLock, monitor>>

LeaveSection(c) ==
    /\ Goto(c, "leave", "main")
    /\ owner' = NoOne
    /\ UNCHANGED <<locals, counters, blockLock, blockQueue, unblockLock,
                   monitor>>

\* The main wait: a unit of m_blockQueue, or WAIT_TIMEOUT.
MainWait(c) ==
    /\ Goto(c, "main", "unblock")
    /\ \/ /\ blockQueue > 0
          /\ blockQueue' = blockQueue - 1
          /\ UNCHANGED timedOut
       \/ /\ blockQueue = 0 /\ timed[c]
          /\ timedOut' = [timedOut EXCEPT ![c] = TRUE]
          /\ UNCHANGED blockQueue
    /\ UNCHANGED <<timed, signalsLeft, signalsToIssue, unblockAll, owner,
                   counters, blockLock, unblockLock, monitor>>

\* Mutant: signalsLeft is read after the decrement.
UnblockReadsLate(c) ==
    /\ Goto(c, "unblock", "open")
    /\ unblockLock = NoOne
    /\ waitersToUnblock' = IF waitersToUnblock > 0 THEN waitersToUnblock - 1 ELSE 0
    /\ waitersGone' = IF waitersToUnblock > 0 THEN waitersGone ELSE (waitersGone + 1) % GoneLimit
    /\ signalsLeft' = [signalsLeft EXCEPT ![c] = waitersToUnblock']
    /\ UNCHANGED <<timed, timedOut, signalsToIssue, unblockAll, owner,
                   waitersBlocked, blockLock, blockQueue, unblockLock, monitor>>

\* With m_unblockLock: take back a signal, or count as gone.
Unblock(c) ==
    /\ pc[c] = "unblock"
    /\ unblockLock = NoOne
    /\ signalsLeft' = [signalsLeft EXCEPT ![c] = waitersToUnblock]
    /\ \/ /\ waitersToUnblock > 0
          /\ waitersToUnblock' = waitersToUnblock - 1
          /\ pc' = [pc EXCEPT ![c] = "open"]
          /\ UNCHANGED <<waitersGone, unblockLock>>
       \/ /\ waitersToUnblock = 0
          /\ waitersGone' = waitersGone + 1
          /\ IF waitersGone' = GoneLimit
             THEN pc' = [pc EXCEPT ![c] = "normalize"] /\ unblockLock' = c
             ELSE pc' = [pc EXCEPT ![c] = "open"] /\ UNCHANGED unblockLock
          /\ UNCHANGED waitersToUnblock
    /\ UNCHANGED <<timed, timedOut, signalsToIssue, unblockAll, owner,
                   waitersBlocked, blockLock, blockQueue, monitor>>

Normalize(c) ==
    /\ Goto(c, "normalize", "open")
    /\ blockLock = 1
    /\ waitersBlocked' = waitersBlocked - waitersGone
    /\ waitersGone' = 0
    /\ unblockLock' = NoOne
    /\ UNCHANGED <<locals, owner, waitersToUnblock, blockLock, blockQueue,
                   monitor>>

\* Mutant: every waiter that took back a signal opens the gate.
OpenGateEarly(c) ==
    /\ Goto(c, "open", "relock")
    /\ blockLock' = IF signalsLeft[c] >= 1 THEN blockLock + 1 ELSE blockLock
    /\ UNCHANGED <<locals, owner, counters, blockQueue, unblockLock, monitor>>

\* The last waiter of the signal opens the gate.
OpenGate(c) ==
    /\ Goto(c, "open", "relock")
    /\ blockLock' = IF signalsLeft[c] = 1 THEN blockLock + 1 ELSE blockLock
    /\ UNCHANGED <<locals, owner, counters, blockQueue, unblockLock, monitor>>

EnterSection(c) ==
    /\ Goto(c, "relock", "test")
    /\ owner = NoOne
    /\ owner' = c
    /\ UNCHANGED <<locals, counters, blockLock, blockQueue, unblockLock,
                   monitor>>

-----------------------------------------------------------------------------
(***************************************************************************)
(* PlatformCondition::signal, called with the mutex of the queue held.     *)
(***************************************************************************)
\* What a signal is for: n waiters are unblocked.
Issue(p, n) ==
    /\ signalsToIssue' = [signalsToIssue EXCEPT ![p] = n]
    /\ waitersToUnblock' = waitersToUnblock + n

\* Mutant: while the gate is closed a signal does nothing.
SignalOnlyIfOpen(p) ==
    /\ pc[p] = "signal"
    /\ unblockLock = NoOne
    /\ \/ /\ waitersToUnblock = 0 /\ waitersBlocked > waitersGone
          /\ pc' = [pc EXCEPT ![p] = "close"]
          /\ unblockLock' = p
       \/ /\ waitersToUnblock > 0 \/ waitersBlocked <= waitersGone
          /\ pc' = [pc EXCEPT ![p] = "unlock"]
          /\ UNCHANGED unblockLock
    /\ UNCHANGED <<locals, counters, owner, blockLock, blockQueue, monitor>>

SignalStart(p) ==
    /\ pc[p] = "signal"
    /\ unblockLock = NoOne
    /\ \/ \* the gate is already closed
          /\ waitersToUnblock > 0 /\ waitersBlocked > 0
          /\ LET n == IF unblockAll[p] THEN waitersBlocked ELSE 1
             IN  Issue(p, n) /\ waitersBlocked' = waitersBlocked - n
          /\ pc' = [pc EXCEPT ![p] = "release"]
          /\ UNCHANGED unblockLock
       \/ \* close the gate, holding m_unblockLock
          /\ waitersToUnblock = 0 /\ waitersBlocked > waitersGone
          /\ pc' = [pc EXCEPT ![p] = "close"]
          /\ unblockLock' = p
          /\ UNCHANGED <<signalsToIssue, waitersToUnblock, waitersBlocked>>
       \/ \* nobody to wake
          /\ IF waitersToUnblock > 0 THEN waitersBlocked = 0 ELSE waitersBlocked <= waitersGone
          /\ pc' = [pc EXCEPT ![p] = "unlock"]
          /\ UNCHANGED <<unblockLock, signalsToIssue, waitersToUnblock, waitersBlocked>>
    /\ UNCHANGED <<timed, timedOut, signalsLeft, unblockAll, owner,
                   waitersGone, blockLock, blockQueue, monitor>>

CloseGate(p) ==
    /\ Goto(p, "close", "release")
    /\ blockLock = 1
    /\ blockLock' = 0
    /\ LET left == waitersBlocked - waitersGone
           n == IF unblockAll[p] THEN left ELSE 1
       IN  Issue(p, n) /\ waitersBlocked' = left - n
    /\ waitersGone' = 0
    /\ unblockLock' = NoOne
    /\ UNCHANGED <<timed, timedOut, signalsLeft, unblockAll, owner,
                   blockQueue, monitor>>

ReleaseWaiters(p) ==
    /\ Goto(p, "release", "unlock")
    /\ blockQueue' = blockQueue + signalsToIssue[p]
    /\ UNCHANGED <<locals, owner, counters, blockLock, unblockLock, monitor>>

-----------------------------------------------------------------------------
WaitStep(c) ==
    \/ Test(c) \/ EnterWait(c) \/ LeaveSection(c) \/ MainWait(c) \/ Unblock(c)
    \/ Normalize(c) \/ OpenGate(c) \/ EnterSection(c)

SignalStep(p) ==
    \/ SignalStart(p) \/ CloseGate(p) \/ ReleaseWaiters(p) \/ Leave(p)

Next ==
    \/ \E c \in Consumers, t \in BOOLEAN : Consume(c, t)
    \/ \E c \in Consumers : WaitStep(c)
    \/ \E p \in Posters : Post(p) \/ Kill(p) \/ SignalStep(p)

(***************************************************************************)
(* Threads are scheduled, and neither the critical section nor the kernel  *)
(* objects starve a thread: a step that is possible again and again is     *)
(* taken.                                                                  *)
(***************************************************************************)
Fairness ==
    /\ \A c \in Consumers : SF_vars(WaitStep(c))
    /\ \A p \in Posters : SF_vars(SignalStep(p))

Spec == Init /\ [][Next]_vars /\ Fairness

-----------------------------------------------------------------------------
(***************************************************************************)
(* Properties.                                                             *)
(***************************************************************************)
Asleep == {c \in Consumers : pc[c] = "main"}

\* No lost wakeup on Windows: while a consumer sleeps on m_blockQueue although
\* there is a message (or the queue was killed), a unit of the semaphore is there
\* for it, or a signal is on its way, or another consumer is up and will look.
NoSleeperForgotten ==
    Asleep # {} /\ (killed \/ messages > 0) =>
        \/ blockQueue > 0
        \/ \E p \in Posters : pc[p] \in {"signal", "close", "release"}
        \/ ~killed /\ \E c \in Consumers : pc[c] \in {"unblock", "normalize", "open", "relock", "test"}
                                         /\ ~timedOut[c]

\* The gate is closed exactly while there are waiters still to unblock, or the
\* last of them is about to open it: the release of m_blockLock never exceeds
\* the semaphore's maximum (the assertion after each ReleaseSemaphore).
GateClosedWhileUnblocking ==
    blockLock = 0 <=>
        \/ waitersToUnblock > 0
        \/ \E c \in Consumers : pc[c] = "open" /\ signalsLeft[c] = 1

\* Every consumer that waits returns once the queue is killed.
KilledConsumersReturn ==
    \A c \in Consumers : killed ~> pc[c] = "idle"

(***************************************************************************)
(* What the condition variable promises, with its semaphores, the gate and *)
(* the counters gone.                                                      *)
(***************************************************************************)
\* The waiters that have not accounted for their wakeup or timeout, and those of
\* them that have taken a unit of the semaphore.
Waiting == {c \in Consumers : pc[c] \in {"leave", "main", "unblock"}}
Took == {c \in Consumers : pc[c] = "unblock" /\ ~timedOut[c]}

\* The units the signal under way will release.
Units == IF owner \in Threads /\ pc[owner] = "release" THEN signalsToIssue[owner] ELSE 0

Limited == {c \in Waiting : timed[c]}
Expired == {c \in Waiting : timedOut[c]}
Signals == [p \in Posters |->
    IF pc[p] \notin {"signal", "close"} THEN "none" ELSE IF unblockAll[p] THEN "all" ELSE "one"]
Spare == blockQueue + Units + Cardinality(Took) - waitersToUnblock

Condition == INSTANCE ConditionVariable
             WITH waiting <- Waiting, limited <- Limited, expired <- Expired,
                  signal <- Signals, owed <- waitersToUnblock, spare <- Spare

\* Whatever timeouts, signals and new waiters meet at the gate, a signal is for a
\* thread that waits when it is sent, and nobody is woken without one but in the
\* place of a thread that timed out.
ImplementsCondition == Condition!Spec

=============================================================================
