----------------------- MODULE WindowsConditionProofs -----------------------
(***************************************************************************)
(* Proofs about WindowsCondition, for any number of threads, messages and  *)
(* any limit at which m_waitersGone is normalised: the counters stay in    *)
(* their ranges, the gate is closed while there are waiters to unblock, no *)
(* sleeper is forgotten, and it is the condition variable of               *)
(* ConditionVariable.                                                      *)
(***************************************************************************)
EXTENDS WindowsCondition, TLAPS, FiniteSetTheorems

\* Where the critical section is held, and where m_unblockLock is.
Inside == {"test", "enter", "leave", "signal", "close", "release", "unlock"}
Normalizing == {"normalize", "close"}
Signalling == {"signal", "close", "release"}

\* The consumers that are up and will test the condition.
Looking == {"unblock", "normalize", "open", "relock", "test"}
Up == {c \in Consumers : pc[c] \in Looking /\ ~timedOut[c]}

\* Whether the signal under way has yet to decide how many it is for.
Deciding == owner \in Threads /\ pc[owner] \in {"signal", "close"}
Due == IF Deciding THEN 1 ELSE 0

LockInv ==
    /\ \A t \in Threads : pc[t] \in Inside => owner = t
    /\ owner # NoOne => pc[owner] \in Inside
    /\ \A t \in Threads : pc[t] \in Normalizing <=> unblockLock = t
    /\ \A t \in Threads : pc[t] \in Signalling => t \in Posters

\* Every waiter is blocked or has a signal, but for those that are counted gone.
CountInv ==
    /\ waitersBlocked + waitersToUnblock = Cardinality(Waiting) + waitersGone
    /\ waitersGone <= waitersBlocked
    /\ waitersToUnblock > 0 => waitersGone = 0
    /\ waitersGone < GoneLimit \/ \E t \in Threads : pc[t] = "normalize"
    /\ \A t \in Threads :
          pc[t] = "close" => waitersToUnblock = 0 /\ waitersGone < waitersBlocked

\* A waiter that is to be unblocked has its unit, unless a timeout took its turn.
UnitInv == waitersToUnblock <= blockQueue + Units + Cardinality(Took)

\* While a consumer waits that no signal is for, there is a unit or a consumer
\* that is up for every message; once killed, the signal is for everyone.
MessageInv ==
    /\ \A t \in Threads : pc[t] \in {"enter", "leave"} => messages = 0 /\ ~killed
    /\ \A t \in Threads : pc[t] \in {"enter", "leave", "main"} => ~timedOut[t]
    /\ ~killed /\ waitersGone < waitersBlocked =>
          messages <= blockQueue + Units + Cardinality(Up) + Due
    /\ killed => waitersBlocked = waitersGone \/ (Deciding /\ unblockAll[owner])

Last(c) == pc[c] = "open" /\ signalsLeft[c] = 1

GateInv ==
    /\ GateClosedWhileUnblocking
    /\ \A c \in Consumers : Last(c) => waitersToUnblock = 0
    /\ \A c, d \in Consumers : Last(c) /\ Last(d) => c = d
    /\ \A c \in Consumers : pc[c] = "normalize" => signalsLeft[c] = 0

\* TypeOK without the bounds of the counters that follow from CountInv.
Locations == {"idle", "test", "enter", "leave", "main", "unblock", "normalize", "open",
              "relock", "signal", "close", "release", "unlock"}
LocalShape ==
    /\ timed \in [Threads -> BOOLEAN] /\ timedOut \in [Threads -> BOOLEAN]
    /\ signalsLeft \in [Threads -> Nat] /\ signalsToIssue \in [Threads -> Nat]
    /\ unblockAll \in [Threads -> BOOLEAN]
LockShape == owner \in Threads \cup {NoOne} /\ unblockLock \in Threads \cup {NoOne}
CountShape ==
    /\ waitersGone \in 0..GoneLimit
    /\ waitersBlocked \in Nat /\ waitersToUnblock \in Nat
    /\ blockLock \in {0, 1} /\ blockQueue \in Nat
    /\ messages \in Nat /\ posts \in 0..MaxPosts /\ killed \in BOOLEAN
Shape == pc \in [Threads -> Locations] /\ LocalShape /\ LockShape /\ CountShape

Inv == Shape /\ LockInv /\ CountInv /\ UnitInv /\ MessageInv /\ GateInv

-----------------------------------------------------------------------------
(* Sets of consumers, and what a step of one thread does to them.          *)

Ind(b) == IF b THEN 1 ELSE 0

LEMMA CardMove ==
    ASSUME NEW A, NEW B, NEW c, IsFiniteSet(A), A \ {c} = B \ {c}
    PROVE  /\ IsFiniteSet(B)
           /\ Cardinality(A) \in Nat /\ Cardinality(B) \in Nat
           /\ Cardinality(B) = Cardinality(A) + Ind(c \in B) - Ind(c \in A)
<1>1. CASE (c \in A) <=> (c \in B)
  <2>1. A = B
    BY <1>1
  <2> QED
    BY <1>1, <2>1, FS_CardinalityType DEF Ind
<1>2. CASE c \in A /\ c \notin B
  <2>1. B = A \ {c}
    BY <1>2
  <2>2. /\ IsFiniteSet(B) /\ Cardinality(B) = Cardinality(A) - 1
        /\ Cardinality(A) \in Nat /\ Cardinality(B) \in Nat
    BY <1>2, <2>1, FS_RemoveElement, FS_CardinalityType
  <2> QED
    BY <1>2, <2>2 DEF Ind
<1>3. CASE c \notin A /\ c \in B
  <2>1. B = A \cup {c}
    BY <1>3
  <2> QED
    BY <1>3, <2>1, FS_AddElement, FS_CardinalityType DEF Ind
<1> QED
  BY <1>1, <1>2, <1>3

LEMMA SetsFinite ==
    /\ IsFiniteSet(Waiting) /\ IsFiniteSet(Took) /\ IsFiniteSet(Up)
    /\ Cardinality(Waiting) \in Nat /\ Cardinality(Took) \in Nat /\ Cardinality(Up) \in Nat
    /\ Cardinality(Consumers) \in Nat /\ Cardinality(Waiting) <= Cardinality(Consumers)
<1>1. Waiting \subseteq Consumers /\ Took \subseteq Consumers /\ Up \subseteq Consumers
  BY DEF Waiting, Took, Up
<1> QED
  BY <1>1, ThreadAssumption, FS_Subset, FS_CardinalityType

\* What t counts for in the three sets.
CountsWaiting(p) == Ind(p \in {"leave", "main", "unblock"})
CountsTook(p, out) == Ind(p = "unblock" /\ ~out)
CountsUp(p, out) == Ind(p \in Looking /\ ~out)

LEMMA Counts ==
    ASSUME NEW t \in Consumers,
           \A u \in Threads \ {t} : pc'[u] = pc[u] /\ timedOut'[u] = timedOut[u]
    PROVE  /\ Cardinality(Waiting)' = Cardinality(Waiting)
                   + CountsWaiting(pc'[t]) - CountsWaiting(pc[t])
           /\ Cardinality(Took)' = Cardinality(Took)
                   + CountsTook(pc'[t], timedOut'[t]) - CountsTook(pc[t], timedOut[t])
           /\ Cardinality(Up)' = Cardinality(Up)
                   + CountsUp(pc'[t], timedOut'[t]) - CountsUp(pc[t], timedOut[t])
           /\ Cardinality(Waiting)' \in Nat /\ Cardinality(Took)' \in Nat
           /\ Cardinality(Up)' \in Nat
<1> DEFINE W == Waiting'
           T == Took'
           U == Up'
<1>1. /\ t \in Waiting <=> pc[t] \in {"leave", "main", "unblock"}
      /\ t \in W <=> pc'[t] \in {"leave", "main", "unblock"}
      /\ Waiting \ {t} = W \ {t}
  BY DEF Waiting, Threads
<1>2. /\ t \in Took <=> pc[t] = "unblock" /\ ~timedOut[t]
      /\ t \in T <=> pc'[t] = "unblock" /\ ~timedOut'[t]
      /\ Took \ {t} = T \ {t}
  BY DEF Took, Threads
<1>3. /\ t \in Up <=> pc[t] \in Looking /\ ~timedOut[t]
      /\ t \in U <=> pc'[t] \in Looking /\ ~timedOut'[t]
      /\ Up \ {t} = U \ {t}
  BY DEF Up, Threads
<1> HIDE DEF W, T, U
<1>4. /\ Cardinality(W) \in Nat
      /\ Cardinality(W) = Cardinality(Waiting) + Ind(t \in W) - Ind(t \in Waiting)
  BY <1>1, SetsFinite, CardMove
<1>5. Cardinality(T) \in Nat /\ Cardinality(T) = Cardinality(Took) + Ind(t \in T) - Ind(t \in Took)
  BY <1>2, SetsFinite, CardMove
<1>6. Cardinality(U) \in Nat /\ Cardinality(U) = Cardinality(Up) + Ind(t \in U) - Ind(t \in Up)
  BY <1>3, SetsFinite, CardMove
<1> QED
  BY <1>1, <1>2, <1>3, <1>4, <1>5, <1>6 DEF Ind, CountsWaiting, CountsTook, CountsUp, W, T, U

\* A step that is no step of a signal.
LEMMA SameSignal ==
    ASSUME Shape, NEW t \in Threads,
           \A u \in Threads \ {t} : pc'[u] = pc[u],
           owner' = owner \/ {owner, owner'} = {t, NoOne},
           pc[t] \notin {"signal", "close", "release"},
           pc'[t] \notin {"signal", "close", "release"},
           UNCHANGED <<signalsToIssue, unblockAll>>
    PROVE  /\ Units' = Units /\ Due' = Due
           /\ (Deciding /\ unblockAll[owner])' = (Deciding /\ unblockAll[owner])
<1>1. CASE owner = t \/ owner = NoOne
  <2>1. owner' = t \/ owner' = NoOne
    BY <1>1
  <2>2. ~Deciding /\ ~Deciding' /\ Units = 0 /\ Units' = 0
    BY <1>1, <2>1, ThreadAssumption DEF Deciding, Units, Threads
  <2> QED
    BY <2>2 DEF Due
<1>2. CASE owner \in Threads \ {t}
  <2>1. owner' = owner /\ pc'[owner] = pc[owner]
    BY <1>2, ThreadAssumption DEF Threads
  <2> QED
    BY <2>1 DEF Deciding, Units, Due
<1> QED
  BY <1>1, <1>2 DEF Shape, LockShape

LEMMA UnitsType == Shape => Units \in Nat /\ Due \in {0, 1}
  BY DEF Shape, LocalShape, Units, Due

-----------------------------------------------------------------------------
(* The steps of a consumer.                                                *)

LEMMA Moved ==
    ASSUME Shape, NEW t \in Threads, NEW q, pc' = [pc EXCEPT ![t] = q]
    PROVE  pc'[t] = q /\ \A u \in Threads \ {t} : pc'[u] = pc[u]
  BY DEF Shape

LEMMA ConsumeStep ==
    ASSUME Inv, NEW c \in Consumers, NEW b \in BOOLEAN, Consume(c, b)
    PROVE  Inv'
<1> USE SetsFinite, UnitsType
<1>0. c \in Threads /\ Shape /\ LockInv /\ CountInv /\ UnitInv /\ MessageInv /\ GateInv
  BY DEF Inv, Threads
<1>1. /\ pc[c] = "idle" /\ pc'[c] = "test"
      /\ \A u \in Threads \ {c} : pc'[u] = pc[u]
  BY <1>0, Moved DEF Consume, Goto
<1>2. Shape'
  <2>1. pc' \in [Threads -> Locations]
    BY <1>0 DEF Consume, Goto, Shape, Locations
  <2>2. LocalShape'
    BY <1>0 DEF Consume, Shape, LocalShape, CountShape, locals
  <2>3. LockShape'
    BY <1>0 DEF Consume, Shape, LockShape, Lock, Unlock
  <2>4. CountShape'
    BY <1>0, <1>1, LimitAssumption DEF Consume, Shape, CountShape, CountInv, counters, monitor
  <2> QED
    BY <2>1, <2>2, <2>3, <2>4 DEF Shape
<1>3. LockInv'
  <2>1. \A v \in Threads : pc'[v] \in Inside => owner' = v
    BY <1>0, <1>1, ThreadAssumption DEF Consume, LockInv, Inside, Lock, Unlock, Threads
  <2>2. owner' # NoOne => pc'[owner'] \in Inside
    BY <1>0, <1>1, ThreadAssumption DEF Consume, Shape, LockShape, LockInv, Inside, Lock, Unlock
  <2>3. \A v \in Threads : pc'[v] \in Normalizing <=> unblockLock' = v
    BY <1>0, <1>1, ThreadAssumption DEF Consume, LockInv, Normalizing, Threads
  <2>4. \A v \in Threads : pc'[v] \in Signalling => v \in Posters
    BY <1>0, <1>1 DEF LockInv, Signalling
  <2> QED
    BY <2>1, <2>2, <2>3, <2>4 DEF LockInv
<1>4. /\ \A v \in Threads \ {c} : timedOut'[v] = timedOut[v]
      /\ ~timedOut'[c]
  BY <1>0 DEF Consume, Shape, LocalShape, locals
<1>5. /\ Cardinality(Waiting)' = Cardinality(Waiting)
      /\ Cardinality(Took)' = Cardinality(Took)
      /\ Cardinality(Up)' = Cardinality(Up) + 1
      /\ Cardinality(Waiting)' \in Nat /\ Cardinality(Took)' \in Nat
      /\ Cardinality(Up)' \in Nat
  <2>1. /\ Cardinality(Waiting)' = Cardinality(Waiting)
                  + CountsWaiting(pc'[c]) - CountsWaiting(pc[c])
        /\ Cardinality(Took)' = Cardinality(Took)
                  + CountsTook(pc'[c], timedOut'[c]) - CountsTook(pc[c], timedOut[c])
        /\ Cardinality(Up)' = Cardinality(Up)
                  + CountsUp(pc'[c], timedOut'[c]) - CountsUp(pc[c], timedOut[c])
        /\ Cardinality(Waiting)' \in Nat /\ Cardinality(Took)' \in Nat
        /\ Cardinality(Up)' \in Nat
    BY <1>1, <1>4, Counts
  <2> QED
    BY <1>1, <1>4, <2>1 DEF CountsWaiting, CountsTook, CountsUp, Ind, Looking
<1>6. /\ Units' = Units /\ Due' = Due
      /\ (Deciding /\ unblockAll[owner])' = (Deciding /\ unblockAll[owner])
  BY <1>0, <1>1, SameSignal, ThreadAssumption DEF Consume, locals, LockInv, Inside, Lock, Unlock
<1>7. CountInv'
  BY <1>0, <1>1, <1>5, LimitAssumption DEF Consume, CountInv, Shape, CountShape, counters,
     LockInv, Normalizing, Threads
<1>8. UnitInv'
  BY <1>0, <1>1, <1>4, <1>5, <1>6 DEF Consume, Ind, UnitInv, Shape, CountShape, counters
<1>9. MessageInv'
  BY <1>0, <1>1, <1>4, <1>5, <1>6 DEF Consume, MessageInv, Shape, CountShape, counters,
     monitor, CountInv, LockInv, Inside
<1>10. GateInv'
  BY <1>0, <1>1 DEF Consume, GateInv, GateClosedWhileUnblocking, Last, Shape, LocalShape,
     CountShape, counters, locals, Threads
<1> QED
  BY <1>2, <1>3, <1>7, <1>8, <1>9, <1>10 DEF Inv

LEMMA TestFalseStep ==
    ASSUME Inv, NEW c \in Consumers, Test(c), pc'[c] = "enter"
    PROVE  Inv'
<1> USE SetsFinite, UnitsType
<1>0. c \in Threads /\ Shape /\ LockInv /\ CountInv /\ UnitInv /\ MessageInv /\ GateInv
  BY DEF Inv, Threads
<1>1. /\ pc[c] = "test" /\ pc'[c] = "enter"
      /\ \A u \in Threads \ {c} : pc'[u] = pc[u]
  BY <1>0, Moved DEF Test, Goto
<1>2. Shape'
  <2>1. pc' \in [Threads -> Locations]
    BY <1>0 DEF Test, Goto, Shape, Locations
  <2>2. LocalShape'
    BY <1>0 DEF Test, Shape, LocalShape, CountShape, locals
  <2>3. LockShape'
    BY <1>0 DEF Test, Shape, LockShape, Lock, Unlock
  <2>4. CountShape'
    BY <1>0, <1>1, LimitAssumption DEF Test, Shape, CountShape, CountInv, counters, monitor
  <2> QED
    BY <2>1, <2>2, <2>3, <2>4 DEF Shape
<1>3. LockInv'
  <2>1. \A v \in Threads : pc'[v] \in Inside => owner' = v
    BY <1>0, <1>1 DEF Test, Shape, LockInv, Inside, Unlock
  <2>2. owner' # NoOne => pc'[owner'] \in Inside
    BY <1>0, <1>1, ThreadAssumption DEF Test, Shape, LockShape, LockInv, Inside, Lock, Unlock
  <2>3. \A v \in Threads : pc'[v] \in Normalizing <=> unblockLock' = v
    BY <1>0, <1>1, ThreadAssumption DEF Test, LockInv, Normalizing, Threads
  <2>4. \A v \in Threads : pc'[v] \in Signalling => v \in Posters
    BY <1>0, <1>1 DEF LockInv, Signalling
  <2> QED
    BY <2>1, <2>2, <2>3, <2>4 DEF LockInv
<1>4. /\ \A v \in Threads \ {c} : timedOut'[v] = timedOut[v]
      /\ ~timedOut[c] /\ ~timedOut'[c]
  BY <1>0 DEF Test, Shape, LocalShape, locals
<1>5. /\ Cardinality(Waiting)' = Cardinality(Waiting)
      /\ Cardinality(Took)' = Cardinality(Took)
      /\ Cardinality(Up)' = Cardinality(Up) - 1
      /\ Cardinality(Waiting)' \in Nat /\ Cardinality(Took)' \in Nat
      /\ Cardinality(Up)' \in Nat
  <2>1. /\ Cardinality(Waiting)' = Cardinality(Waiting)
                  + CountsWaiting(pc'[c]) - CountsWaiting(pc[c])
        /\ Cardinality(Took)' = Cardinality(Took)
                  + CountsTook(pc'[c], timedOut'[c]) - CountsTook(pc[c], timedOut[c])
        /\ Cardinality(Up)' = Cardinality(Up)
                  + CountsUp(pc'[c], timedOut'[c]) - CountsUp(pc[c], timedOut[c])
        /\ Cardinality(Waiting)' \in Nat /\ Cardinality(Took)' \in Nat
        /\ Cardinality(Up)' \in Nat
    BY <1>1, <1>4, Counts
  <2> QED
    BY <1>1, <1>4, <2>1 DEF CountsWaiting, CountsTook, CountsUp, Ind, Looking
<1>6. /\ Units' = Units /\ Due' = Due
      /\ (Deciding /\ unblockAll[owner])' = (Deciding /\ unblockAll[owner])
  BY <1>0, <1>1, SameSignal, ThreadAssumption DEF Test, locals, LockInv, Inside, Lock, Unlock
<1>7. CountInv'
  BY <1>0, <1>1, <1>5, LimitAssumption DEF Test, CountInv, Shape, CountShape, counters,
     LockInv, Normalizing, Threads
<1>8. UnitInv'
  BY <1>0, <1>1, <1>4, <1>5, <1>6 DEF Test, Ind, UnitInv, Shape, CountShape, counters
<1>9. MessageInv'
  BY <1>0, <1>1, <1>4, <1>5, <1>6 DEF Test, MessageInv, Shape, CountShape, counters,
     monitor, CountInv, LockInv, Inside
<1>10. GateInv'
  BY <1>0, <1>1 DEF Test, GateInv, GateClosedWhileUnblocking, Last, Shape, LocalShape,
     CountShape, counters, locals, Threads
<1> QED
  BY <1>2, <1>3, <1>7, <1>8, <1>9, <1>10 DEF Inv

LEMMA EnterWaitStep ==
    ASSUME Inv, NEW c \in Consumers, EnterWait(c)
    PROVE  Inv'
<1> USE SetsFinite, UnitsType
<1>0. c \in Threads /\ Shape /\ LockInv /\ CountInv /\ UnitInv /\ MessageInv /\ GateInv
  BY DEF Inv, Threads
<1>1. /\ pc[c] = "enter" /\ pc'[c] = "leave"
      /\ \A u \in Threads \ {c} : pc'[u] = pc[u]
  BY <1>0, Moved DEF EnterWait, Goto
<1>2. Shape'
  <2>1. pc' \in [Threads -> Locations]
    BY <1>0 DEF EnterWait, Goto, Shape, Locations
  <2>2. LocalShape'
    BY <1>0 DEF EnterWait, Shape, LocalShape, CountShape, locals
  <2>3. LockShape'
    BY <1>0 DEF EnterWait, Shape, LockShape, Lock, Unlock
  <2>4. CountShape'
    BY <1>0, <1>1, LimitAssumption DEF EnterWait, Shape, CountShape, CountInv, counters, monitor
  <2> QED
    BY <2>1, <2>2, <2>3, <2>4 DEF Shape
<1>3. LockInv'
  <2>1. \A v \in Threads : pc'[v] \in Inside => owner' = v
    BY <1>0, <1>1, ThreadAssumption DEF EnterWait, LockInv, Inside, Lock, Unlock, Threads
  <2>2. owner' # NoOne => pc'[owner'] \in Inside
    BY <1>0, <1>1, ThreadAssumption DEF EnterWait, Shape, LockShape, LockInv, Inside, Lock, Unlock
  <2>3. \A v \in Threads : pc'[v] \in Normalizing <=> unblockLock' = v
    BY <1>0, <1>1, ThreadAssumption DEF EnterWait, LockInv, Normalizing, Threads
  <2>4. \A v \in Threads : pc'[v] \in Signalling => v \in Posters
    BY <1>0, <1>1 DEF LockInv, Signalling
  <2> QED
    BY <2>1, <2>2, <2>3, <2>4 DEF LockInv
<1>4. /\ \A v \in Threads \ {c} : timedOut'[v] = timedOut[v]
      /\ timedOut'[c] = timedOut[c]
  BY <1>0 DEF EnterWait, Shape, LocalShape, locals
<1>5. /\ Cardinality(Waiting)' = Cardinality(Waiting) + 1
      /\ Cardinality(Took)' = Cardinality(Took)
      /\ Cardinality(Up)' = Cardinality(Up)
      /\ Cardinality(Waiting)' \in Nat /\ Cardinality(Took)' \in Nat
      /\ Cardinality(Up)' \in Nat
  <2>1. /\ Cardinality(Waiting)' = Cardinality(Waiting)
                  + CountsWaiting(pc'[c]) - CountsWaiting(pc[c])
        /\ Cardinality(Took)' = Cardinality(Took)
                  + CountsTook(pc'[c], timedOut'[c]) - CountsTook(pc[c], timedOut[c])
        /\ Cardinality(Up)' = Cardinality(Up)
                  + CountsUp(pc'[c], timedOut'[c]) - CountsUp(pc[c], timedOut[c])
        /\ Cardinality(Waiting)' \in Nat /\ Cardinality(Took)' \in Nat
        /\ Cardinality(Up)' \in Nat
    BY <1>1, <1>4, Counts
  <2> QED
    BY <1>1, <1>4, <2>1 DEF CountsWaiting, CountsTook, CountsUp, Ind, Looking
<1>6. /\ Units' = Units /\ Due' = Due
      /\ (Deciding /\ unblockAll[owner])' = (Deciding /\ unblockAll[owner])
  BY <1>0, <1>1, SameSignal, ThreadAssumption DEF EnterWait, locals, LockInv, Inside, Lock, Unlock
<1>7. CountInv'
  BY <1>0, <1>1, <1>5, LimitAssumption DEF EnterWait, CountInv, Shape, CountShape,
     counters, LockInv, Normalizing, Threads
<1>8. UnitInv'
  BY <1>0, <1>1, <1>4, <1>5, <1>6 DEF EnterWait, Ind, UnitInv, Shape, CountShape, counters
<1>9. MessageInv'
  BY <1>0, <1>1, <1>4, <1>5, <1>6 DEF EnterWait, MessageInv, Shape, CountShape, counters,
     monitor, CountInv, LockInv, Inside
<1>10. GateInv'
  BY <1>0, <1>1 DEF EnterWait, GateInv, GateClosedWhileUnblocking, Last, Shape,
     LocalShape, CountShape, counters, locals, Threads
<1> QED
  BY <1>2, <1>3, <1>7, <1>8, <1>9, <1>10 DEF Inv

LEMMA LeaveSectionStep ==
    ASSUME Inv, NEW c \in Consumers, LeaveSection(c)
    PROVE  Inv'
<1> USE SetsFinite, UnitsType
<1>0. c \in Threads /\ Shape /\ LockInv /\ CountInv /\ UnitInv /\ MessageInv /\ GateInv
  BY DEF Inv, Threads
<1>1. /\ pc[c] = "leave" /\ pc'[c] = "main"
      /\ \A u \in Threads \ {c} : pc'[u] = pc[u]
  BY <1>0, Moved DEF LeaveSection, Goto
<1>2. Shape'
  <2>1. pc' \in [Threads -> Locations]
    BY <1>0 DEF LeaveSection, Goto, Shape, Locations
  <2>2. LocalShape'
    BY <1>0 DEF LeaveSection, Shape, LocalShape, CountShape, locals
  <2>3. LockShape'
    BY <1>0 DEF LeaveSection, Shape, LockShape, Lock, Unlock
  <2>4. CountShape'
    BY <1>0, <1>1, LimitAssumption DEF LeaveSection, Shape, CountShape, CountInv, counters, monitor
  <2> QED
    BY <2>1, <2>2, <2>3, <2>4 DEF Shape
<1>3. LockInv'
  <2>1. \A v \in Threads : pc'[v] \in Inside => owner' = v
    BY <1>0, <1>1, ThreadAssumption DEF LeaveSection, LockInv, Inside, Lock, Unlock, Threads
  <2>2. owner' # NoOne => pc'[owner'] \in Inside
    BY <1>0, <1>1, ThreadAssumption DEF LeaveSection, Shape, LockShape, LockInv, Inside,
       Lock, Unlock
  <2>3. \A v \in Threads : pc'[v] \in Normalizing <=> unblockLock' = v
    BY <1>0, <1>1, ThreadAssumption DEF LeaveSection, LockInv, Normalizing, Threads
  <2>4. \A v \in Threads : pc'[v] \in Signalling => v \in Posters
    BY <1>0, <1>1 DEF LockInv, Signalling
  <2> QED
    BY <2>1, <2>2, <2>3, <2>4 DEF LockInv
<1>4. /\ \A v \in Threads \ {c} : timedOut'[v] = timedOut[v]
      /\ timedOut'[c] = timedOut[c]
  BY <1>0 DEF LeaveSection, Shape, LocalShape, locals
<1>5. /\ Cardinality(Waiting)' = Cardinality(Waiting)
      /\ Cardinality(Took)' = Cardinality(Took)
      /\ Cardinality(Up)' = Cardinality(Up)
      /\ Cardinality(Waiting)' \in Nat /\ Cardinality(Took)' \in Nat
      /\ Cardinality(Up)' \in Nat
  <2>1. /\ Cardinality(Waiting)' = Cardinality(Waiting)
                  + CountsWaiting(pc'[c]) - CountsWaiting(pc[c])
        /\ Cardinality(Took)' = Cardinality(Took)
                  + CountsTook(pc'[c], timedOut'[c]) - CountsTook(pc[c], timedOut[c])
        /\ Cardinality(Up)' = Cardinality(Up)
                  + CountsUp(pc'[c], timedOut'[c]) - CountsUp(pc[c], timedOut[c])
        /\ Cardinality(Waiting)' \in Nat /\ Cardinality(Took)' \in Nat
        /\ Cardinality(Up)' \in Nat
    BY <1>1, <1>4, Counts
  <2> QED
    BY <1>1, <1>4, <2>1 DEF CountsWaiting, CountsTook, CountsUp, Ind, Looking
<1>6. /\ Units' = Units /\ Due' = Due
      /\ (Deciding /\ unblockAll[owner])' = (Deciding /\ unblockAll[owner])
  BY <1>0, <1>1, SameSignal, ThreadAssumption DEF LeaveSection, locals, LockInv, Inside,
     Lock, Unlock
<1>7. CountInv'
  BY <1>0, <1>1, <1>5, LimitAssumption DEF LeaveSection, CountInv, Shape, CountShape,
     counters, LockInv, Normalizing, Threads
<1>8. UnitInv'
  BY <1>0, <1>1, <1>4, <1>5, <1>6 DEF LeaveSection, Ind, UnitInv, Shape, CountShape, counters
<1>9. MessageInv'
  BY <1>0, <1>1, <1>4, <1>5, <1>6 DEF LeaveSection, MessageInv, Shape, CountShape,
     counters, monitor, CountInv, LockInv, Inside
<1>10. GateInv'
  BY <1>0, <1>1 DEF LeaveSection, GateInv, GateClosedWhileUnblocking, Last, Shape,
     LocalShape, CountShape, counters, locals, Threads
<1> QED
  BY <1>2, <1>3, <1>7, <1>8, <1>9, <1>10 DEF Inv

LEMMA OpenGateStep ==
    ASSUME Inv, NEW c \in Consumers, OpenGate(c)
    PROVE  Inv'
<1> USE SetsFinite, UnitsType
<1>0. c \in Threads /\ Shape /\ LockInv /\ CountInv /\ UnitInv /\ MessageInv /\ GateInv
  BY DEF Inv, Threads
<1>1. /\ pc[c] = "open" /\ pc'[c] = "relock"
      /\ \A u \in Threads \ {c} : pc'[u] = pc[u]
  BY <1>0, Moved DEF OpenGate, Goto
<1>2. Shape'
  <2>1. pc' \in [Threads -> Locations]
    BY <1>0 DEF OpenGate, Goto, Shape, Locations
  <2>2. LocalShape'
    BY <1>0 DEF OpenGate, Shape, LocalShape, CountShape, locals
  <2>3. LockShape'
    BY <1>0 DEF OpenGate, Shape, LockShape, Lock, Unlock
  <2>4. CountShape'
    BY <1>0, <1>1, LimitAssumption DEF OpenGate, Shape, CountShape, CountInv, counters,
       monitor, GateInv, GateClosedWhileUnblocking, Last
  <2> QED
    BY <2>1, <2>2, <2>3, <2>4 DEF Shape
<1>3. LockInv'
  <2>1. \A v \in Threads : pc'[v] \in Inside => owner' = v
    BY <1>0, <1>1, ThreadAssumption DEF OpenGate, LockInv, Inside, Lock, Unlock, Threads
  <2>2. owner' # NoOne => pc'[owner'] \in Inside
    BY <1>0, <1>1, ThreadAssumption DEF OpenGate, Shape, LockShape, LockInv, Inside, Lock, Unlock
  <2>3. \A v \in Threads : pc'[v] \in Normalizing <=> unblockLock' = v
    BY <1>0, <1>1, ThreadAssumption DEF OpenGate, LockInv, Normalizing, Threads
  <2>4. \A v \in Threads : pc'[v] \in Signalling => v \in Posters
    BY <1>0, <1>1 DEF LockInv, Signalling
  <2> QED
    BY <2>1, <2>2, <2>3, <2>4 DEF LockInv
<1>4. /\ \A v \in Threads \ {c} : timedOut'[v] = timedOut[v]
      /\ timedOut'[c] = timedOut[c]
  BY <1>0 DEF OpenGate, Shape, LocalShape, locals
<1>5. /\ Cardinality(Waiting)' = Cardinality(Waiting)
      /\ Cardinality(Took)' = Cardinality(Took)
      /\ Cardinality(Up)' = Cardinality(Up)
      /\ Cardinality(Waiting)' \in Nat /\ Cardinality(Took)' \in Nat
      /\ Cardinality(Up)' \in Nat
  <2>1. /\ Cardinality(Waiting)' = Cardinality(Waiting)
                  + CountsWaiting(pc'[c]) - CountsWaiting(pc[c])
        /\ Cardinality(Took)' = Cardinality(Took)
                  + CountsTook(pc'[c], timedOut'[c]) - CountsTook(pc[c], timedOut[c])
        /\ Cardinality(Up)' = Cardinality(Up)
                  + CountsUp(pc'[c], timedOut'[c]) - CountsUp(pc[c], timedOut[c])
        /\ Cardinality(Waiting)' \in Nat /\ Cardinality(Took)' \in Nat
        /\ Cardinality(Up)' \in Nat
    BY <1>1, <1>4, Counts
  <2> QED
    BY <1>1, <1>4, <2>1 DEF CountsWaiting, CountsTook, CountsUp, Ind, Looking
<1>6. /\ Units' = Units /\ Due' = Due
      /\ (Deciding /\ unblockAll[owner])' = (Deciding /\ unblockAll[owner])
  BY <1>0, <1>1, SameSignal, ThreadAssumption DEF OpenGate, locals, LockInv, Inside, Lock, Unlock
<1>7. CountInv'
  BY <1>0, <1>1, <1>5, LimitAssumption DEF OpenGate, CountInv, Shape, CountShape,
     counters, LockInv, Normalizing, Threads
<1>8. UnitInv'
  BY <1>0, <1>1, <1>4, <1>5, <1>6 DEF OpenGate, Ind, UnitInv, Shape, CountShape, counters
<1>9. MessageInv'
  BY <1>0, <1>1, <1>4, <1>5, <1>6 DEF OpenGate, MessageInv, Shape, CountShape, counters,
     monitor, CountInv, LockInv, Inside
<1>10. GateInv'
  BY <1>0, <1>1 DEF OpenGate, GateInv, GateClosedWhileUnblocking, Last, Shape, LocalShape,
     CountShape, counters, locals, Threads
<1> QED
  BY <1>2, <1>3, <1>7, <1>8, <1>9, <1>10 DEF Inv

LEMMA NormalizeStep ==
    ASSUME Inv, NEW c \in Consumers, Normalize(c)
    PROVE  Inv'
<1> USE SetsFinite, UnitsType
<1>0. c \in Threads /\ Shape /\ LockInv /\ CountInv /\ UnitInv /\ MessageInv /\ GateInv
  BY DEF Inv, Threads
<1>1. /\ pc[c] = "normalize" /\ pc'[c] = "open"
      /\ \A u \in Threads \ {c} : pc'[u] = pc[u]
  BY <1>0, Moved DEF Normalize, Goto
<1>2. Shape'
  <2>1. pc' \in [Threads -> Locations]
    BY <1>0 DEF Normalize, Goto, Shape, Locations
  <2>2. LocalShape'
    BY <1>0 DEF Normalize, Shape, LocalShape, CountShape, locals
  <2>3. LockShape'
    BY <1>0 DEF Normalize, Shape, LockShape, Lock, Unlock
  <2>4. CountShape'
    BY <1>0, <1>1, LimitAssumption DEF Normalize, Shape, CountShape, CountInv, counters, monitor
  <2> QED
    BY <2>1, <2>2, <2>3, <2>4 DEF Shape
<1>3. LockInv'
  <2>1. \A v \in Threads : pc'[v] \in Inside => owner' = v
    BY <1>0, <1>1, ThreadAssumption DEF Normalize, LockInv, Inside, Lock, Unlock, Threads
  <2>2. owner' # NoOne => pc'[owner'] \in Inside
    BY <1>0, <1>1, ThreadAssumption DEF Normalize, Shape, LockShape, LockInv, Inside, Lock, Unlock
  <2>3. \A v \in Threads : pc'[v] \in Normalizing <=> unblockLock' = v
    BY <1>0, <1>1, ThreadAssumption DEF Normalize, LockInv, Normalizing, Threads
  <2>4. \A v \in Threads : pc'[v] \in Signalling => v \in Posters
    BY <1>0, <1>1 DEF LockInv, Signalling
  <2> QED
    BY <2>1, <2>2, <2>3, <2>4 DEF LockInv
<1>4. /\ \A v \in Threads \ {c} : timedOut'[v] = timedOut[v]
      /\ timedOut'[c] = timedOut[c]
  BY <1>0 DEF Normalize, Shape, LocalShape, locals
<1>5. /\ Cardinality(Waiting)' = Cardinality(Waiting)
      /\ Cardinality(Took)' = Cardinality(Took)
      /\ Cardinality(Up)' = Cardinality(Up)
      /\ Cardinality(Waiting)' \in Nat /\ Cardinality(Took)' \in Nat
      /\ Cardinality(Up)' \in Nat
  <2>1. /\ Cardinality(Waiting)' = Cardinality(Waiting)
                  + CountsWaiting(pc'[c]) - CountsWaiting(pc[c])
        /\ Cardinality(Took)' = Cardinality(Took)
                  + CountsTook(pc'[c], timedOut'[c]) - CountsTook(pc[c], timedOut[c])
        /\ Cardinality(Up)' = Cardinality(Up)
                  + CountsUp(pc'[c], timedOut'[c]) - CountsUp(pc[c], timedOut[c])
        /\ Cardinality(Waiting)' \in Nat /\ Cardinality(Took)' \in Nat
        /\ Cardinality(Up)' \in Nat
    BY <1>1, <1>4, Counts
  <2> QED
    BY <1>1, <1>4, <2>1 DEF CountsWaiting, CountsTook, CountsUp, Ind, Looking
<1>6. /\ Units' = Units /\ Due' = Due
      /\ (Deciding /\ unblockAll[owner])' = (Deciding /\ unblockAll[owner])
  BY <1>0, <1>1, SameSignal, ThreadAssumption DEF Normalize, locals, LockInv, Inside, Lock, Unlock
<1>7. CountInv'
  BY <1>0, <1>1, <1>5, LimitAssumption DEF Normalize, CountInv, Shape, CountShape,
     counters, LockInv, Normalizing, Threads
<1>8. UnitInv'
  BY <1>0, <1>1, <1>4, <1>5, <1>6 DEF Normalize, Ind, UnitInv, Shape, CountShape, counters
<1>9. MessageInv'
  BY <1>0, <1>1, <1>4, <1>5, <1>6 DEF Normalize, MessageInv, Shape, CountShape, counters,
     monitor, CountInv, LockInv, Inside
<1>10. GateInv'
  BY <1>0, <1>1 DEF Normalize, GateInv, GateClosedWhileUnblocking, Last, Shape,
     LocalShape, CountShape, counters, locals, Threads
<1> QED
  BY <1>2, <1>3, <1>7, <1>8, <1>9, <1>10 DEF Inv

LEMMA EnterSectionStep ==
    ASSUME Inv, NEW c \in Consumers, EnterSection(c)
    PROVE  Inv'
<1> USE SetsFinite, UnitsType
<1>0. c \in Threads /\ Shape /\ LockInv /\ CountInv /\ UnitInv /\ MessageInv /\ GateInv
  BY DEF Inv, Threads
<1>1. /\ pc[c] = "relock" /\ pc'[c] = "test"
      /\ \A u \in Threads \ {c} : pc'[u] = pc[u]
  BY <1>0, Moved DEF EnterSection, Goto
<1>2. Shape'
  <2>1. pc' \in [Threads -> Locations]
    BY <1>0 DEF EnterSection, Goto, Shape, Locations
  <2>2. LocalShape'
    BY <1>0 DEF EnterSection, Shape, LocalShape, CountShape, locals
  <2>3. LockShape'
    BY <1>0 DEF EnterSection, Shape, LockShape, Lock, Unlock
  <2>4. CountShape'
    BY <1>0, <1>1, LimitAssumption DEF EnterSection, Shape, CountShape, CountInv, counters, monitor
  <2> QED
    BY <2>1, <2>2, <2>3, <2>4 DEF Shape
<1>3. LockInv'
  <2>1. \A v \in Threads : pc'[v] \in Inside => owner' = v
    BY <1>0, <1>1, ThreadAssumption DEF EnterSection, LockInv, Inside, Lock, Unlock, Threads
  <2>2. owner' # NoOne => pc'[owner'] \in Inside
    BY <1>0, <1>1, ThreadAssumption DEF EnterSection, Shape, LockShape, LockInv, Inside,
       Lock, Unlock
  <2>3. \A v \in Threads : pc'[v] \in Normalizing <=> unblockLock' = v
    BY <1>0, <1>1, ThreadAssumption DEF EnterSection, LockInv, Normalizing, Threads
  <2>4. \A v \in Threads : pc'[v] \in Signalling => v \in Posters
    BY <1>0, <1>1 DEF LockInv, Signalling
  <2> QED
    BY <2>1, <2>2, <2>3, <2>4 DEF LockInv
<1>4. /\ \A v \in Threads \ {c} : timedOut'[v] = timedOut[v]
      /\ timedOut'[c] = timedOut[c]
  BY <1>0 DEF EnterSection, Shape, LocalShape, locals
<1>5. /\ Cardinality(Waiting)' = Cardinality(Waiting)
      /\ Cardinality(Took)' = Cardinality(Took)
      /\ Cardinality(Up)' = Cardinality(Up)
      /\ Cardinality(Waiting)' \in Nat /\ Cardinality(Took)' \in Nat
      /\ Cardinality(Up)' \in Nat
  <2>1. /\ Cardinality(Waiting)' = Cardinality(Waiting)
                  + CountsWaiting(pc'[c]) - CountsWaiting(pc[c])
        /\ Cardinality(Took)' = Cardinality(Took)
                  + CountsTook(pc'[c], timedOut'[c]) - CountsTook(pc[c], timedOut[c])
        /\ Cardinality(Up)' = Cardinality(Up)
                  + CountsUp(pc'[c], timedOut'[c]) - CountsUp(pc[c], timedOut[c])
        /\ Cardinality(Waiting)' \in Nat /\ Cardinality(Took)' \in Nat
        /\ Cardinality(Up)' \in Nat
    BY <1>1, <1>4, Counts
  <2> QED
    BY <1>1, <1>4, <2>1 DEF CountsWaiting, CountsTook, CountsUp, Ind, Looking
<1>6. /\ Units' = Units /\ Due' = Due
      /\ (Deciding /\ unblockAll[owner])' = (Deciding /\ unblockAll[owner])
  BY <1>0, <1>1, SameSignal, ThreadAssumption DEF EnterSection, locals, LockInv, Inside,
     Lock, Unlock
<1>7. CountInv'
  BY <1>0, <1>1, <1>5, LimitAssumption DEF EnterSection, CountInv, Shape, CountShape,
     counters, LockInv, Normalizing, Threads
<1>8. UnitInv'
  BY <1>0, <1>1, <1>4, <1>5, <1>6 DEF EnterSection, Ind, UnitInv, Shape, CountShape, counters
<1>9. MessageInv'
  BY <1>0, <1>1, <1>4, <1>5, <1>6 DEF EnterSection, MessageInv, Shape, CountShape,
     counters, monitor, CountInv, LockInv, Inside
<1>10. GateInv'
  BY <1>0, <1>1 DEF EnterSection, GateInv, GateClosedWhileUnblocking, Last, Shape,
     LocalShape, CountShape, counters, locals, Threads
<1> QED
  BY <1>2, <1>3, <1>7, <1>8, <1>9, <1>10 DEF Inv

LEMMA TestTimedOutStep ==
    ASSUME Inv, NEW c \in Consumers, Test(c), pc'[c] = "idle", timedOut[c]
    PROVE  Inv'
<1> USE SetsFinite, UnitsType
<1>0. c \in Threads /\ Shape /\ LockInv /\ CountInv /\ UnitInv /\ MessageInv /\ GateInv
  BY DEF Inv, Threads
<1>1. /\ pc[c] = "test" /\ pc'[c] = "idle"
      /\ \A u \in Threads \ {c} : pc'[u] = pc[u]
  BY <1>0, Moved DEF Test, Goto
<1>2. Shape'
  <2>1. pc' \in [Threads -> Locations]
    BY <1>0 DEF Test, Goto, Shape, Locations
  <2>2. LocalShape'
    BY <1>0 DEF Test, Shape, LocalShape, CountShape, locals
  <2>3. LockShape'
    BY <1>0 DEF Test, Shape, LockShape, Lock, Unlock
  <2>4. CountShape'
    BY <1>0, <1>1, LimitAssumption DEF Test, Shape, CountShape, CountInv, counters, monitor
  <2> QED
    BY <2>1, <2>2, <2>3, <2>4 DEF Shape
<1>3. LockInv'
  <2>1. \A v \in Threads : pc'[v] \in Inside => owner' = v
    BY <1>0, <1>1, ThreadAssumption DEF Test, LockInv, Inside, Lock, Unlock, Threads
  <2>2. owner' # NoOne => pc'[owner'] \in Inside
    BY <1>0, <1>1, ThreadAssumption DEF Test, Shape, LockShape, LockInv, Inside, Lock, Unlock
  <2>3. \A v \in Threads : pc'[v] \in Normalizing <=> unblockLock' = v
    BY <1>0, <1>1, ThreadAssumption DEF Test, LockInv, Normalizing, Threads
  <2>4. \A v \in Threads : pc'[v] \in Signalling => v \in Posters
    BY <1>0, <1>1 DEF LockInv, Signalling
  <2> QED
    BY <2>1, <2>2, <2>3, <2>4 DEF LockInv
<1>4. /\ \A v \in Threads \ {c} : timedOut'[v] = timedOut[v]
      /\ timedOut[c] /\ timedOut'[c]
  BY <1>0 DEF Test, Shape, LocalShape, locals
<1>5. /\ Cardinality(Waiting)' = Cardinality(Waiting)
      /\ Cardinality(Took)' = Cardinality(Took)
      /\ Cardinality(Up)' = Cardinality(Up)
      /\ Cardinality(Waiting)' \in Nat /\ Cardinality(Took)' \in Nat
      /\ Cardinality(Up)' \in Nat
  <2>1. /\ Cardinality(Waiting)' = Cardinality(Waiting)
                  + CountsWaiting(pc'[c]) - CountsWaiting(pc[c])
        /\ Cardinality(Took)' = Cardinality(Took)
                  + CountsTook(pc'[c], timedOut'[c]) - CountsTook(pc[c], timedOut[c])
        /\ Cardinality(Up)' = Cardinality(Up)
                  + CountsUp(pc'[c], timedOut'[c]) - CountsUp(pc[c], timedOut[c])
        /\ Cardinality(Waiting)' \in Nat /\ Cardinality(Took)' \in Nat
        /\ Cardinality(Up)' \in Nat
    BY <1>1, <1>4, Counts
  <2> QED
    BY <1>1, <1>4, <2>1 DEF CountsWaiting, CountsTook, CountsUp, Ind, Looking
<1>6. /\ Units' = Units /\ Due' = Due
      /\ (Deciding /\ unblockAll[owner])' = (Deciding /\ unblockAll[owner])
  BY <1>0, <1>1, SameSignal, ThreadAssumption DEF Test, locals, LockInv, Inside, Lock, Unlock
<1>7. CountInv'
  BY <1>0, <1>1, <1>5, LimitAssumption DEF Test, CountInv, Shape, CountShape, counters,
     LockInv, Normalizing, Threads
<1>8. UnitInv'
  BY <1>0, <1>1, <1>4, <1>5, <1>6 DEF Test, Ind, UnitInv, Shape, CountShape, counters
<1>9. MessageInv'
  BY <1>0, <1>1, <1>4, <1>5, <1>6 DEF Test, MessageInv, Shape, CountShape, counters,
     monitor, CountInv, LockInv, Inside
<1>10. GateInv'
  BY <1>0, <1>1 DEF Test, GateInv, GateClosedWhileUnblocking, Last, Shape, LocalShape,
     CountShape, counters, locals, Threads
<1> QED
  BY <1>2, <1>3, <1>7, <1>8, <1>9, <1>10 DEF Inv

LEMMA TestTakesStep ==
    ASSUME Inv, NEW c \in Consumers, Test(c), pc'[c] = "idle", ~timedOut[c]
    PROVE  Inv'
<1> USE SetsFinite, UnitsType
<1>0. c \in Threads /\ Shape /\ LockInv /\ CountInv /\ UnitInv /\ MessageInv /\ GateInv
  BY DEF Inv, Threads
<1>1. /\ pc[c] = "test" /\ pc'[c] = "idle"
      /\ \A u \in Threads \ {c} : pc'[u] = pc[u]
  BY <1>0, Moved DEF Test, Goto
<1>2. Shape'
  <2>1. pc' \in [Threads -> Locations]
    BY <1>0 DEF Test, Goto, Shape, Locations
  <2>2. LocalShape'
    BY <1>0 DEF Test, Shape, LocalShape, CountShape, locals
  <2>3. LockShape'
    BY <1>0 DEF Test, Shape, LockShape, Lock, Unlock
  <2>4. CountShape'
    BY <1>0, <1>1, LimitAssumption DEF Test, Shape, CountShape, CountInv, counters, monitor
  <2> QED
    BY <2>1, <2>2, <2>3, <2>4 DEF Shape
<1>3. LockInv'
  <2>1. \A v \in Threads : pc'[v] \in Inside => owner' = v
    BY <1>0, <1>1, ThreadAssumption DEF Test, LockInv, Inside, Lock, Unlock, Threads
  <2>2. owner' # NoOne => pc'[owner'] \in Inside
    BY <1>0, <1>1, ThreadAssumption DEF Test, Shape, LockShape, LockInv, Inside, Lock, Unlock
  <2>3. \A v \in Threads : pc'[v] \in Normalizing <=> unblockLock' = v
    BY <1>0, <1>1, ThreadAssumption DEF Test, LockInv, Normalizing, Threads
  <2>4. \A v \in Threads : pc'[v] \in Signalling => v \in Posters
    BY <1>0, <1>1 DEF LockInv, Signalling
  <2> QED
    BY <2>1, <2>2, <2>3, <2>4 DEF LockInv
<1>4. /\ \A v \in Threads \ {c} : timedOut'[v] = timedOut[v]
      /\ ~timedOut[c] /\ ~timedOut'[c]
  BY <1>0 DEF Test, Shape, LocalShape, locals
<1>5. /\ Cardinality(Waiting)' = Cardinality(Waiting)
      /\ Cardinality(Took)' = Cardinality(Took)
      /\ Cardinality(Up)' = Cardinality(Up) - 1
      /\ Cardinality(Waiting)' \in Nat /\ Cardinality(Took)' \in Nat
      /\ Cardinality(Up)' \in Nat
  <2>1. /\ Cardinality(Waiting)' = Cardinality(Waiting)
                  + CountsWaiting(pc'[c]) - CountsWaiting(pc[c])
        /\ Cardinality(Took)' = Cardinality(Took)
                  + CountsTook(pc'[c], timedOut'[c]) - CountsTook(pc[c], timedOut[c])
        /\ Cardinality(Up)' = Cardinality(Up)
                  + CountsUp(pc'[c], timedOut'[c]) - CountsUp(pc[c], timedOut[c])
        /\ Cardinality(Waiting)' \in Nat /\ Cardinality(Took)' \in Nat
        /\ Cardinality(Up)' \in Nat
    BY <1>1, <1>4, Counts
  <2> QED
    BY <1>1, <1>4, <2>1 DEF CountsWaiting, CountsTook, CountsUp, Ind, Looking
<1>6. /\ Units' = Units /\ Due' = Due
      /\ (Deciding /\ unblockAll[owner])' = (Deciding /\ unblockAll[owner])
  BY <1>0, <1>1, SameSignal, ThreadAssumption DEF Test, locals, LockInv, Inside, Lock, Unlock
<1>7. CountInv'
  BY <1>0, <1>1, <1>5, LimitAssumption DEF Test, CountInv, Shape, CountShape, counters,
     LockInv, Normalizing, Threads
<1>8. UnitInv'
  BY <1>0, <1>1, <1>4, <1>5, <1>6 DEF Test, Ind, UnitInv, Shape, CountShape, counters
<1>9. MessageInv'
  BY <1>0, <1>1, <1>4, <1>5, <1>6 DEF Test, MessageInv, Shape, CountShape, counters,
     monitor, CountInv, LockInv, Inside
<1>10. GateInv'
  BY <1>0, <1>1 DEF Test, GateInv, GateClosedWhileUnblocking, Last, Shape, LocalShape,
     CountShape, counters, locals, Threads
<1> QED
  BY <1>2, <1>3, <1>7, <1>8, <1>9, <1>10 DEF Inv

LEMMA MainWaitTakesStep ==
    ASSUME Inv, NEW c \in Consumers, MainWait(c), blockQueue > 0
    PROVE  Inv'
<1> USE SetsFinite, UnitsType
<1>0. c \in Threads /\ Shape /\ LockInv /\ CountInv /\ UnitInv /\ MessageInv /\ GateInv
  BY DEF Inv, Threads
<1>1. /\ pc[c] = "main" /\ pc'[c] = "unblock"
      /\ \A u \in Threads \ {c} : pc'[u] = pc[u]
  BY <1>0, Moved DEF MainWait, Goto
<1>2. Shape'
  <2>1. pc' \in [Threads -> Locations]
    BY <1>0 DEF MainWait, Goto, Shape, Locations
  <2>2. LocalShape'
    BY <1>0 DEF MainWait, Shape, LocalShape, CountShape, locals
  <2>3. LockShape'
    BY <1>0 DEF MainWait, Shape, LockShape, Lock, Unlock
  <2>4. CountShape'
    BY <1>0, <1>1, LimitAssumption DEF MainWait, Shape, CountShape, CountInv, counters, monitor
  <2> QED
    BY <2>1, <2>2, <2>3, <2>4 DEF Shape
<1>3. LockInv'
  <2>1. \A v \in Threads : pc'[v] \in Inside => owner' = v
    BY <1>0, <1>1, ThreadAssumption DEF MainWait, LockInv, Inside, Lock, Unlock, Threads
  <2>2. owner' # NoOne => pc'[owner'] \in Inside
    BY <1>0, <1>1, ThreadAssumption DEF MainWait, Shape, LockShape, LockInv, Inside, Lock, Unlock
  <2>3. \A v \in Threads : pc'[v] \in Normalizing <=> unblockLock' = v
    BY <1>0, <1>1, ThreadAssumption DEF MainWait, LockInv, Normalizing, Threads
  <2>4. \A v \in Threads : pc'[v] \in Signalling => v \in Posters
    BY <1>0, <1>1 DEF LockInv, Signalling
  <2> QED
    BY <2>1, <2>2, <2>3, <2>4 DEF LockInv
<1>4. /\ \A v \in Threads \ {c} : timedOut'[v] = timedOut[v]
      /\ ~timedOut[c] /\ ~timedOut'[c]
  BY <1>0, <1>1 DEF MainWait, Shape, LocalShape, MessageInv
<1>5. /\ Cardinality(Waiting)' = Cardinality(Waiting)
      /\ Cardinality(Took)' = Cardinality(Took) + 1
      /\ Cardinality(Up)' = Cardinality(Up) + 1
      /\ Cardinality(Waiting)' \in Nat /\ Cardinality(Took)' \in Nat
      /\ Cardinality(Up)' \in Nat
  <2>1. /\ Cardinality(Waiting)' = Cardinality(Waiting)
                  + CountsWaiting(pc'[c]) - CountsWaiting(pc[c])
        /\ Cardinality(Took)' = Cardinality(Took)
                  + CountsTook(pc'[c], timedOut'[c]) - CountsTook(pc[c], timedOut[c])
        /\ Cardinality(Up)' = Cardinality(Up)
                  + CountsUp(pc'[c], timedOut'[c]) - CountsUp(pc[c], timedOut[c])
        /\ Cardinality(Waiting)' \in Nat /\ Cardinality(Took)' \in Nat
        /\ Cardinality(Up)' \in Nat
    BY <1>1, <1>4, Counts
  <2> QED
    BY <1>1, <1>4, <2>1 DEF CountsWaiting, CountsTook, CountsUp, Ind, Looking
<1>6. /\ Units' = Units /\ Due' = Due
      /\ (Deciding /\ unblockAll[owner])' = (Deciding /\ unblockAll[owner])
  BY <1>0, <1>1, SameSignal, ThreadAssumption DEF MainWait, locals, LockInv, Inside, Lock, Unlock
<1>7. CountInv'
  BY <1>0, <1>1, <1>5, LimitAssumption DEF MainWait, CountInv, Shape, CountShape,
     counters, LockInv, Normalizing, Threads
<1>8. UnitInv'
  BY <1>0, <1>1, <1>4, <1>5, <1>6 DEF MainWait, Ind, UnitInv, Shape, CountShape, counters
<1>9. MessageInv'
  BY <1>0, <1>1, <1>4, <1>5, <1>6 DEF MainWait, MessageInv, Shape, CountShape, counters,
     monitor, CountInv, LockInv, Inside
<1>10. GateInv'
  BY <1>0, <1>1 DEF MainWait, GateInv, GateClosedWhileUnblocking, Last, Shape, LocalShape,
     CountShape, counters, locals, Threads
<1> QED
  BY <1>2, <1>3, <1>7, <1>8, <1>9, <1>10 DEF Inv

LEMMA MainWaitTimesOutStep ==
    ASSUME Inv, NEW c \in Consumers, MainWait(c), blockQueue = 0
    PROVE  Inv'
<1> USE SetsFinite, UnitsType
<1>0. c \in Threads /\ Shape /\ LockInv /\ CountInv /\ UnitInv /\ MessageInv /\ GateInv
  BY DEF Inv, Threads
<1>1. /\ pc[c] = "main" /\ pc'[c] = "unblock"
      /\ \A u \in Threads \ {c} : pc'[u] = pc[u]
  BY <1>0, Moved DEF MainWait, Goto
<1>2. Shape'
  <2>1. pc' \in [Threads -> Locations]
    BY <1>0 DEF MainWait, Goto, Shape, Locations
  <2>2. LocalShape'
    BY <1>0 DEF MainWait, Shape, LocalShape, CountShape, locals
  <2>3. LockShape'
    BY <1>0 DEF MainWait, Shape, LockShape, Lock, Unlock
  <2>4. CountShape'
    BY <1>0, <1>1, LimitAssumption DEF MainWait, Shape, CountShape, CountInv, counters, monitor
  <2> QED
    BY <2>1, <2>2, <2>3, <2>4 DEF Shape
<1>3. LockInv'
  <2>1. \A v \in Threads : pc'[v] \in Inside => owner' = v
    BY <1>0, <1>1, ThreadAssumption DEF MainWait, LockInv, Inside, Lock, Unlock, Threads
  <2>2. owner' # NoOne => pc'[owner'] \in Inside
    BY <1>0, <1>1, ThreadAssumption DEF MainWait, Shape, LockShape, LockInv, Inside, Lock, Unlock
  <2>3. \A v \in Threads : pc'[v] \in Normalizing <=> unblockLock' = v
    BY <1>0, <1>1, ThreadAssumption DEF MainWait, LockInv, Normalizing, Threads
  <2>4. \A v \in Threads : pc'[v] \in Signalling => v \in Posters
    BY <1>0, <1>1 DEF LockInv, Signalling
  <2> QED
    BY <2>1, <2>2, <2>3, <2>4 DEF LockInv
<1>4. /\ \A v \in Threads \ {c} : timedOut'[v] = timedOut[v]
      /\ timedOut'[c]
  BY <1>0 DEF MainWait, Shape, LocalShape, locals
<1>5. /\ Cardinality(Waiting)' = Cardinality(Waiting)
      /\ Cardinality(Took)' = Cardinality(Took)
      /\ Cardinality(Up)' = Cardinality(Up)
      /\ Cardinality(Waiting)' \in Nat /\ Cardinality(Took)' \in Nat
      /\ Cardinality(Up)' \in Nat
  <2>1. /\ Cardinality(Waiting)' = Cardinality(Waiting)
                  + CountsWaiting(pc'[c]) - CountsWaiting(pc[c])
        /\ Cardinality(Took)' = Cardinality(Took)
                  + CountsTook(pc'[c], timedOut'[c]) - CountsTook(pc[c], timedOut[c])
        /\ Cardinality(Up)' = Cardinality(Up)
                  + CountsUp(pc'[c], timedOut'[c]) - CountsUp(pc[c], timedOut[c])
        /\ Cardinality(Waiting)' \in Nat /\ Cardinality(Took)' \in Nat
        /\ Cardinality(Up)' \in Nat
    BY <1>1, <1>4, Counts
  <2> QED
    BY <1>1, <1>4, <2>1 DEF CountsWaiting, CountsTook, CountsUp, Ind, Looking
<1>6. /\ Units' = Units /\ Due' = Due
      /\ (Deciding /\ unblockAll[owner])' = (Deciding /\ unblockAll[owner])
  BY <1>0, <1>1, SameSignal, ThreadAssumption DEF MainWait, locals, LockInv, Inside, Lock, Unlock
<1>7. CountInv'
  BY <1>0, <1>1, <1>5, LimitAssumption DEF MainWait, CountInv, Shape, CountShape,
     counters, LockInv, Normalizing, Threads
<1>8. UnitInv'
  BY <1>0, <1>1, <1>4, <1>5, <1>6 DEF MainWait, Ind, UnitInv, Shape, CountShape, counters
<1>9. MessageInv'
  BY <1>0, <1>1, <1>4, <1>5, <1>6 DEF MainWait, MessageInv, Shape, CountShape, counters,
     monitor, CountInv, LockInv, Inside
<1>10. GateInv'
  BY <1>0, <1>1 DEF MainWait, GateInv, GateClosedWhileUnblocking, Last, Shape, LocalShape,
     CountShape, counters, locals, Threads
<1> QED
  BY <1>2, <1>3, <1>7, <1>8, <1>9, <1>10 DEF Inv

\* Nobody has reached the limit while m_unblockLock is free.
LEMMA BelowLimit ==
    ASSUME Inv, unblockLock = NoOne
    PROVE  waitersGone < GoneLimit
  BY ThreadAssumption DEF Inv, LockInv, CountInv, Normalizing, Threads

LEMMA UnblockTakesStep ==
    ASSUME Inv, NEW c \in Consumers, Unblock(c), waitersToUnblock > 0
    PROVE  Inv'
<1> USE SetsFinite, UnitsType
<1>0. c \in Threads /\ Shape /\ LockInv /\ CountInv /\ UnitInv /\ MessageInv /\ GateInv
  BY DEF Inv, Threads
<1>1. /\ pc[c] = "unblock" /\ pc'[c] = "open"
      /\ \A u \in Threads \ {c} : pc'[u] = pc[u]
  BY <1>0, Moved DEF Unblock, Goto
<1>2. Shape'
  <2>1. pc' \in [Threads -> Locations]
    BY <1>0 DEF Unblock, Goto, Shape, Locations
  <2>2. LocalShape'
    BY <1>0 DEF Unblock, Shape, LocalShape, CountShape, locals
  <2>3. LockShape'
    BY <1>0 DEF Unblock, Shape, LockShape, Lock, Unlock
  <2>4. CountShape'
    BY <1>0, <1>1, LimitAssumption DEF Unblock, Shape, CountShape, CountInv, counters, monitor
  <2> QED
    BY <2>1, <2>2, <2>3, <2>4 DEF Shape
<1>3. LockInv'
  <2>1. \A v \in Threads : pc'[v] \in Inside => owner' = v
    BY <1>0, <1>1, ThreadAssumption DEF Unblock, LockInv, Inside, Lock, Unlock, Threads
  <2>2. owner' # NoOne => pc'[owner'] \in Inside
    BY <1>0, <1>1, ThreadAssumption DEF Unblock, Shape, LockShape, LockInv, Inside, Lock, Unlock
  <2>3. \A v \in Threads : pc'[v] \in Normalizing <=> unblockLock' = v
    BY <1>0, <1>1, ThreadAssumption DEF Unblock, LockInv, Normalizing, Threads
  <2>4. \A v \in Threads : pc'[v] \in Signalling => v \in Posters
    BY <1>0, <1>1 DEF LockInv, Signalling
  <2> QED
    BY <2>1, <2>2, <2>3, <2>4 DEF LockInv
<1>4. /\ \A v \in Threads \ {c} : timedOut'[v] = timedOut[v]
      /\ timedOut'[c] = timedOut[c]
  BY <1>0 DEF Unblock, Shape, LocalShape, locals
<1>5. /\ Cardinality(Waiting)' = Cardinality(Waiting) - 1
      /\ Cardinality(Took)' = Cardinality(Took) - Ind(~timedOut[c])
      /\ Cardinality(Up)' = Cardinality(Up)
      /\ Cardinality(Waiting)' \in Nat /\ Cardinality(Took)' \in Nat
      /\ Cardinality(Up)' \in Nat
  <2>1. /\ Cardinality(Waiting)' = Cardinality(Waiting)
                  + CountsWaiting(pc'[c]) - CountsWaiting(pc[c])
        /\ Cardinality(Took)' = Cardinality(Took)
                  + CountsTook(pc'[c], timedOut'[c]) - CountsTook(pc[c], timedOut[c])
        /\ Cardinality(Up)' = Cardinality(Up)
                  + CountsUp(pc'[c], timedOut'[c]) - CountsUp(pc[c], timedOut[c])
        /\ Cardinality(Waiting)' \in Nat /\ Cardinality(Took)' \in Nat
        /\ Cardinality(Up)' \in Nat
    BY <1>1, <1>4, Counts
  <2> QED
    BY <1>1, <1>4, <2>1 DEF CountsWaiting, CountsTook, CountsUp, Ind, Looking
<1>6. /\ Units' = Units /\ Due' = Due
      /\ (Deciding /\ unblockAll[owner])' = (Deciding /\ unblockAll[owner])
  BY <1>0, <1>1, SameSignal, ThreadAssumption DEF Unblock, locals, LockInv, Inside, Lock, Unlock
<1>7. CountInv'
  BY <1>0, <1>1, <1>5, LimitAssumption DEF Unblock, CountInv, Shape, CountShape, counters,
     LockInv, Normalizing, Threads
<1>8. UnitInv'
  BY <1>0, <1>1, <1>4, <1>5, <1>6 DEF Unblock, Ind, UnitInv, Shape, CountShape, counters
<1>9. MessageInv'
  BY <1>0, <1>1, <1>4, <1>5, <1>6 DEF Unblock, MessageInv, Shape, CountShape, counters,
     monitor, CountInv, LockInv, Inside
<1>10. GateInv'
  BY <1>0, <1>1 DEF Unblock, GateInv, GateClosedWhileUnblocking, Last, Shape, LocalShape,
     CountShape, counters, locals, Threads
<1> QED
  BY <1>2, <1>3, <1>7, <1>8, <1>9, <1>10 DEF Inv

LEMMA UnblockGoneStep ==
    ASSUME Inv, NEW c \in Consumers, Unblock(c), waitersToUnblock = 0, waitersGone + 1 # GoneLimit
    PROVE  Inv'
<1> USE SetsFinite, UnitsType
<1>0. c \in Threads /\ Shape /\ LockInv /\ CountInv /\ UnitInv /\ MessageInv /\ GateInv
  BY DEF Inv, Threads
<1>1. /\ pc[c] = "unblock" /\ pc'[c] = "open"
      /\ \A u \in Threads \ {c} : pc'[u] = pc[u]
  BY <1>0, Moved DEF Unblock, Goto
<1>2. Shape'
  <2>1. pc' \in [Threads -> Locations]
    BY <1>0 DEF Unblock, Goto, Shape, Locations
  <2>2. LocalShape'
    BY <1>0 DEF Unblock, Shape, LocalShape, CountShape, locals
  <2>3. LockShape'
    BY <1>0 DEF Unblock, Shape, LockShape, Lock, Unlock
  <2>4. CountShape'
    BY <1>0, <1>1, LimitAssumption, BelowLimit DEF Unblock, Shape, CountShape, CountInv,
       counters, monitor
  <2> QED
    BY <2>1, <2>2, <2>3, <2>4 DEF Shape
<1>3. LockInv'
  <2>1. \A v \in Threads : pc'[v] \in Inside => owner' = v
    BY <1>0, <1>1, ThreadAssumption DEF Unblock, LockInv, Inside, Lock, Unlock, Threads
  <2>2. owner' # NoOne => pc'[owner'] \in Inside
    BY <1>0, <1>1, ThreadAssumption DEF Unblock, Shape, LockShape, LockInv, Inside, Lock, Unlock
  <2>3. \A v \in Threads : pc'[v] \in Normalizing <=> unblockLock' = v
    BY <1>0, <1>1, ThreadAssumption DEF Unblock, LockInv, Normalizing, Threads
  <2>4. \A v \in Threads : pc'[v] \in Signalling => v \in Posters
    BY <1>0, <1>1 DEF LockInv, Signalling
  <2> QED
    BY <2>1, <2>2, <2>3, <2>4 DEF LockInv
<1>4. /\ \A v \in Threads \ {c} : timedOut'[v] = timedOut[v]
      /\ timedOut'[c] = timedOut[c]
  BY <1>0 DEF Unblock, Shape, LocalShape, locals
<1>5. /\ Cardinality(Waiting)' = Cardinality(Waiting) - 1
      /\ Cardinality(Took)' = Cardinality(Took) - Ind(~timedOut[c])
      /\ Cardinality(Up)' = Cardinality(Up)
      /\ Cardinality(Waiting)' \in Nat /\ Cardinality(Took)' \in Nat
      /\ Cardinality(Up)' \in Nat
  <2>1. /\ Cardinality(Waiting)' = Cardinality(Waiting)
                  + CountsWaiting(pc'[c]) - CountsWaiting(pc[c])
        /\ Cardinality(Took)' = Cardinality(Took)
                  + CountsTook(pc'[c], timedOut'[c]) - CountsTook(pc[c], timedOut[c])
        /\ Cardinality(Up)' = Cardinality(Up)
                  + CountsUp(pc'[c], timedOut'[c]) - CountsUp(pc[c], timedOut[c])
        /\ Cardinality(Waiting)' \in Nat /\ Cardinality(Took)' \in Nat
        /\ Cardinality(Up)' \in Nat
    BY <1>1, <1>4, Counts
  <2> QED
    BY <1>1, <1>4, <2>1 DEF CountsWaiting, CountsTook, CountsUp, Ind, Looking
<1>6. /\ Units' = Units /\ Due' = Due
      /\ (Deciding /\ unblockAll[owner])' = (Deciding /\ unblockAll[owner])
  BY <1>0, <1>1, SameSignal, ThreadAssumption DEF Unblock, locals, LockInv, Inside, Lock, Unlock
<1>7. CountInv'
  <2>1. /\ waitersBlocked' = waitersBlocked /\ waitersToUnblock' = 0
        /\ waitersGone' = waitersGone + 1 /\ Cardinality(Waiting)' = Cardinality(Waiting) - 1
    BY <1>0, <1>1, <1>5 DEF Unblock, Shape, CountShape
  <2>2. Cardinality(Waiting) \in Nat /\ Cardinality(Waiting)' \in Nat
    BY <1>5
  <2>3. /\ waitersBlocked' + waitersToUnblock' = Cardinality(Waiting)' + waitersGone'
        /\ waitersGone' <= waitersBlocked'
    BY <1>0, <2>1, <2>2 DEF CountInv, Shape, CountShape
  <2>4. waitersGone' < GoneLimit \/ \E v \in Threads : pc'[v] = "normalize"
    BY <1>0, <1>1, <2>1, BelowLimit, LimitAssumption DEF Unblock, Shape, CountShape
  <2>5. \A v \in Threads : pc'[v] # "close"
    BY <1>0, <1>1, ThreadAssumption DEF Unblock, LockInv, Normalizing, Threads
  <2> QED
    BY <1>2, <2>1, <2>3, <2>4, <2>5 DEF CountInv
<1>8. UnitInv'
  BY <1>0, <1>1, <1>4, <1>5, <1>6 DEF Unblock, Ind, UnitInv, Shape, CountShape, counters
<1>9. MessageInv'
  BY <1>0, <1>1, <1>4, <1>5, <1>6 DEF Unblock, MessageInv, Shape, CountShape, counters,
     monitor, CountInv, LockInv, Inside
<1>10. GateInv'
  BY <1>0, <1>1 DEF Unblock, GateInv, GateClosedWhileUnblocking, Last, Shape, LocalShape,
     CountShape, counters, locals, Threads
<1> QED
  BY <1>2, <1>3, <1>7, <1>8, <1>9, <1>10 DEF Inv

LEMMA UnblockNormalizesStep ==
    ASSUME Inv, NEW c \in Consumers, Unblock(c), waitersToUnblock = 0, waitersGone + 1 = GoneLimit
    PROVE  Inv'
<1> USE SetsFinite, UnitsType
<1>0. c \in Threads /\ Shape /\ LockInv /\ CountInv /\ UnitInv /\ MessageInv /\ GateInv
  BY DEF Inv, Threads
<1>1. /\ pc[c] = "unblock" /\ pc'[c] = "normalize"
      /\ \A u \in Threads \ {c} : pc'[u] = pc[u]
  BY <1>0, Moved DEF Unblock, Goto
<1>2. Shape'
  <2>1. pc' \in [Threads -> Locations]
    BY <1>0 DEF Unblock, Goto, Shape, Locations
  <2>2. LocalShape'
    BY <1>0 DEF Unblock, Shape, LocalShape, CountShape, locals
  <2>3. LockShape'
    BY <1>0 DEF Unblock, Shape, LockShape, Lock, Unlock
  <2>4. CountShape'
    BY <1>0, <1>1, LimitAssumption, BelowLimit DEF Unblock, Shape, CountShape, CountInv,
       counters, monitor
  <2> QED
    BY <2>1, <2>2, <2>3, <2>4 DEF Shape
<1>3. LockInv'
  <2>1. \A v \in Threads : pc'[v] \in Inside => owner' = v
    BY <1>0, <1>1, ThreadAssumption DEF Unblock, LockInv, Inside, Lock, Unlock, Threads
  <2>2. owner' # NoOne => pc'[owner'] \in Inside
    BY <1>0, <1>1, ThreadAssumption DEF Unblock, Shape, LockShape, LockInv, Inside, Lock, Unlock
  <2>3. \A v \in Threads : pc'[v] \in Normalizing <=> unblockLock' = v
    BY <1>0, <1>1, ThreadAssumption DEF Unblock, LockInv, Normalizing, Threads
  <2>4. \A v \in Threads : pc'[v] \in Signalling => v \in Posters
    BY <1>0, <1>1 DEF LockInv, Signalling
  <2> QED
    BY <2>1, <2>2, <2>3, <2>4 DEF LockInv
<1>4. /\ \A v \in Threads \ {c} : timedOut'[v] = timedOut[v]
      /\ timedOut'[c] = timedOut[c]
  BY <1>0 DEF Unblock, Shape, LocalShape, locals
<1>5. /\ Cardinality(Waiting)' = Cardinality(Waiting) - 1
      /\ Cardinality(Took)' = Cardinality(Took) - Ind(~timedOut[c])
      /\ Cardinality(Up)' = Cardinality(Up)
      /\ Cardinality(Waiting)' \in Nat /\ Cardinality(Took)' \in Nat
      /\ Cardinality(Up)' \in Nat
  <2>1. /\ Cardinality(Waiting)' = Cardinality(Waiting)
                  + CountsWaiting(pc'[c]) - CountsWaiting(pc[c])
        /\ Cardinality(Took)' = Cardinality(Took)
                  + CountsTook(pc'[c], timedOut'[c]) - CountsTook(pc[c], timedOut[c])
        /\ Cardinality(Up)' = Cardinality(Up)
                  + CountsUp(pc'[c], timedOut'[c]) - CountsUp(pc[c], timedOut[c])
        /\ Cardinality(Waiting)' \in Nat /\ Cardinality(Took)' \in Nat
        /\ Cardinality(Up)' \in Nat
    BY <1>1, <1>4, Counts
  <2> QED
    BY <1>1, <1>4, <2>1 DEF CountsWaiting, CountsTook, CountsUp, Ind, Looking
<1>6. /\ Units' = Units /\ Due' = Due
      /\ (Deciding /\ unblockAll[owner])' = (Deciding /\ unblockAll[owner])
  BY <1>0, <1>1, SameSignal, ThreadAssumption DEF Unblock, locals, LockInv, Inside, Lock, Unlock
<1>7. CountInv'
  <2>1. /\ waitersBlocked' = waitersBlocked /\ waitersToUnblock' = 0
        /\ waitersGone' = waitersGone + 1 /\ Cardinality(Waiting)' = Cardinality(Waiting) - 1
    BY <1>0, <1>1, <1>5 DEF Unblock, Shape, CountShape
  <2>2. Cardinality(Waiting) \in Nat /\ Cardinality(Waiting)' \in Nat
    BY <1>5
  <2>3. /\ waitersBlocked' + waitersToUnblock' = Cardinality(Waiting)' + waitersGone'
        /\ waitersGone' <= waitersBlocked'
    BY <1>0, <2>1, <2>2 DEF CountInv, Shape, CountShape
  <2>4. waitersGone' < GoneLimit \/ \E v \in Threads : pc'[v] = "normalize"
    BY <1>0, <1>1, <2>1, BelowLimit, LimitAssumption DEF Unblock, Shape, CountShape
  <2>5. \A v \in Threads : pc'[v] # "close"
    BY <1>0, <1>1, ThreadAssumption DEF Unblock, LockInv, Normalizing, Threads
  <2> QED
    BY <1>2, <2>1, <2>3, <2>4, <2>5 DEF CountInv
<1>8. UnitInv'
  BY <1>0, <1>1, <1>4, <1>5, <1>6 DEF Unblock, Ind, UnitInv, Shape, CountShape, counters
<1>9. MessageInv'
  BY <1>0, <1>1, <1>4, <1>5, <1>6 DEF Unblock, MessageInv, Shape, CountShape, counters,
     monitor, CountInv, LockInv, Inside
<1>10. GateInv'
  BY <1>0, <1>1 DEF Unblock, GateInv, GateClosedWhileUnblocking, Last, Shape, LocalShape,
     CountShape, counters, locals, Threads
<1> QED
  BY <1>2, <1>3, <1>7, <1>8, <1>9, <1>10 DEF Inv

LEMMA WaitSteps ==
    ASSUME Inv, NEW c \in Consumers, WaitStep(c)
    PROVE  Inv'
<1>1. CASE Test(c)
  <2>1. pc'[c] \in {"enter", "idle"}
    BY <1>1 DEF Test, Inv, Shape, Threads
  <2> QED
    BY <1>1, <2>1, TestFalseStep, TestTimedOutStep, TestTakesStep
<1>2. CASE MainWait(c)
  <2>1. blockQueue > 0 \/ blockQueue = 0
    BY <1>2 DEF MainWait
  <2> QED
    BY <1>2, <2>1, MainWaitTakesStep, MainWaitTimesOutStep
<1>3. CASE Unblock(c)
  <2>1. waitersToUnblock > 0 \/ waitersToUnblock = 0
    BY <1>3 DEF Unblock
  <2> QED
    BY <1>3, <2>1, UnblockTakesStep, UnblockGoneStep, UnblockNormalizesStep
<1> QED
  BY <1>1, <1>2, <1>3, EnterWaitStep, LeaveSectionStep, NormalizeStep, OpenGateStep,
     EnterSectionStep DEF WaitStep

-----------------------------------------------------------------------------
(* The steps of a poster.                                                  *)

\* The three branches of signal.
SignalClosed(p) ==
    /\ Goto(p, "signal", "release")
    /\ unblockLock = NoOne
    /\ waitersToUnblock > 0 /\ waitersBlocked > 0
    /\ LET n == IF unblockAll[p] THEN waitersBlocked ELSE 1
       IN  Issue(p, n) /\ waitersBlocked' = waitersBlocked - n
    /\ UNCHANGED <<unblockLock, timed, timedOut, signalsLeft, unblockAll, owner,
                   waitersGone, blockLock, blockQueue, monitor>>

SignalOpen(p) ==
    /\ Goto(p, "signal", "close")
    /\ unblockLock = NoOne /\ unblockLock' = p
    /\ waitersToUnblock = 0 /\ waitersBlocked > waitersGone
    /\ UNCHANGED <<locals, owner, counters, blockLock, blockQueue, monitor>>

SignalNobody(p) ==
    /\ Goto(p, "signal", "unlock")
    /\ unblockLock = NoOne
    /\ IF waitersToUnblock > 0 THEN waitersBlocked = 0 ELSE waitersBlocked <= waitersGone
    /\ UNCHANGED <<unblockLock, locals, owner, counters, blockLock, blockQueue, monitor>>

LEMMA SignalCases ==
    ASSUME NEW p \in Posters, SignalStart(p)
    PROVE  SignalClosed(p) \/ SignalOpen(p) \/ SignalNobody(p)
  BY DEF SignalStart, SignalClosed, SignalOpen, SignalNobody, Goto, locals, counters

LEMMA PostStep ==
    ASSUME Inv, NEW p \in Posters, Post(p)
    PROVE  Inv'
<1> USE SetsFinite, UnitsType
<1>0. p \in Threads /\ Shape /\ LockInv /\ CountInv /\ UnitInv /\ MessageInv /\ GateInv
  BY DEF Inv, Threads
<1>1. /\ pc[p] = "idle" /\ pc'[p] = "signal"
      /\ \A u \in Threads \ {p} : pc'[u] = pc[u]
  BY <1>0, Moved DEF Post, Goto
<1>2. Shape'
  <2>1. pc' \in [Threads -> Locations]
    BY <1>0 DEF Post, Goto, Shape, Locations
  <2>2. LocalShape'
    BY <1>0 DEF Post, Issue, Shape, LocalShape, CountShape, CountInv, locals
  <2>3. LockShape'
    BY <1>0 DEF Post, Shape, LockShape, Lock, Unlock
  <2>4. CountShape'
    BY <1>0, <1>1, LimitAssumption DEF Post, Issue, Shape, LocalShape, CountShape,
       CountInv, counters, monitor
  <2> QED
    BY <2>1, <2>2, <2>3, <2>4 DEF Shape
<1>3. LockInv'
  <2>1. \A v \in Threads : pc'[v] \in Inside => owner' = v
    BY <1>0, <1>1, ThreadAssumption DEF Post, LockInv, Inside, Lock, Unlock, Threads
  <2>2. owner' # NoOne => pc'[owner'] \in Inside
    BY <1>0, <1>1, ThreadAssumption DEF Post, Shape, LockShape, LockInv, Inside, Lock, Unlock
  <2>3. \A v \in Threads : pc'[v] \in Normalizing <=> unblockLock' = v
    BY <1>0, <1>1, ThreadAssumption DEF Post, LockInv, Normalizing, Threads
  <2>4. \A v \in Threads : pc'[v] \in Signalling => v \in Posters
    BY <1>0, <1>1 DEF LockInv, Signalling
  <2> QED
    BY <2>1, <2>2, <2>3, <2>4 DEF LockInv
<1>4. Waiting' = Waiting /\ Took' = Took /\ Up' = Up /\ timedOut' = timedOut
  <2>1. timedOut' = timedOut
    BY DEF Post, locals
  <2> QED
    BY <1>1, <2>1 DEF Waiting, Took, Up, Looking, Threads
<1>5. /\ Units = 0 /\ Due = 0 /\ Units' = 0 /\ Due' = 1
      /\ Deciding' /\ owner' = p /\ ~Deciding
  BY <1>0, <1>1, ThreadAssumption
  DEF Post, Issue, Units, Due, Deciding, Shape, LocalShape, LockInv, Inside,
      Lock, Unlock, Threads, locals
<1>6. CountInv'
  BY <1>0, <1>1, <1>4, <1>5, LimitAssumption DEF Post, Issue, CountInv, Shape, CountShape,
     counters, Threads
<1>7. UnitInv'
  BY <1>0, <1>1, <1>4, <1>5 DEF Post, Issue, UnitInv, Shape, LocalShape, CountShape,
     CountInv, counters
<1>8. MessageInv'
  <2>1. \A t \in Threads : pc'[t] \in {"enter", "leave"} => messages' = 0 /\ ~killed'
    BY <1>0, <1>1, ThreadAssumption DEF Post, MessageInv, LockInv, Inside, Lock, Threads, monitor
  <2>2. \A t \in Threads : pc'[t] \in {"enter", "leave", "main"} => ~timedOut'[t]
    BY <1>0, <1>1, <1>4 DEF MessageInv
  <2>3. ~killed' /\ waitersGone' < waitersBlocked' =>
           messages' <= blockQueue' + Units' + Cardinality(Up)' + Due'
    BY <1>0, <1>1, <1>4, <1>5 DEF Post, Issue, MessageInv, Shape, LocalShape,
       CountShape, counters, monitor, CountInv
  <2>4. killed' => waitersBlocked' = waitersGone' \/ (Deciding /\ unblockAll[owner])'
    BY <1>0, <1>1, <1>5 DEF Post, Issue, MessageInv, Shape, CountShape, counters, monitor, CountInv
  <2> QED
    BY <2>1, <2>2, <2>3, <2>4 DEF MessageInv
<1>9. GateInv'
  BY <1>0, <1>1 DEF Post, Issue, GateInv, GateClosedWhileUnblocking, Last, Shape,
     LocalShape, CountShape, CountInv, counters, locals, Threads
<1> QED
  BY <1>2, <1>3, <1>6, <1>7, <1>8, <1>9 DEF Inv

LEMMA KillStep ==
    ASSUME Inv, NEW p \in Posters, Kill(p)
    PROVE  Inv'
<1> USE SetsFinite, UnitsType
<1>0. p \in Threads /\ Shape /\ LockInv /\ CountInv /\ UnitInv /\ MessageInv /\ GateInv
  BY DEF Inv, Threads
<1>1. /\ pc[p] = "idle" /\ pc'[p] = "signal"
      /\ \A u \in Threads \ {p} : pc'[u] = pc[u]
  BY <1>0, Moved DEF Kill, Goto
<1>2. Shape'
  <2>1. pc' \in [Threads -> Locations]
    BY <1>0 DEF Kill, Goto, Shape, Locations
  <2>2. LocalShape'
    BY <1>0 DEF Kill, Issue, Shape, LocalShape, CountShape, CountInv, locals
  <2>3. LockShape'
    BY <1>0 DEF Kill, Shape, LockShape, Lock, Unlock
  <2>4. CountShape'
    BY <1>0, <1>1, LimitAssumption DEF Kill, Issue, Shape, LocalShape, CountShape,
       CountInv, counters, monitor
  <2> QED
    BY <2>1, <2>2, <2>3, <2>4 DEF Shape
<1>3. LockInv'
  <2>1. \A v \in Threads : pc'[v] \in Inside => owner' = v
    BY <1>0, <1>1, ThreadAssumption DEF Kill, LockInv, Inside, Lock, Unlock, Threads
  <2>2. owner' # NoOne => pc'[owner'] \in Inside
    BY <1>0, <1>1, ThreadAssumption DEF Kill, Shape, LockShape, LockInv, Inside, Lock, Unlock
  <2>3. \A v \in Threads : pc'[v] \in Normalizing <=> unblockLock' = v
    BY <1>0, <1>1, ThreadAssumption DEF Kill, LockInv, Normalizing, Threads
  <2>4. \A v \in Threads : pc'[v] \in Signalling => v \in Posters
    BY <1>0, <1>1 DEF LockInv, Signalling
  <2> QED
    BY <2>1, <2>2, <2>3, <2>4 DEF LockInv
<1>4. Waiting' = Waiting /\ Took' = Took /\ Up' = Up /\ timedOut' = timedOut
  <2>1. timedOut' = timedOut
    BY DEF Kill, locals
  <2> QED
    BY <1>1, <2>1 DEF Waiting, Took, Up, Looking, Threads
<1>5. /\ Units = 0 /\ Due = 0 /\ Units' = 0 /\ Due' = 1
      /\ Deciding' /\ owner' = p /\ unblockAll'[p]
  BY <1>0, <1>1, ThreadAssumption
  DEF Kill, Issue, Units, Due, Deciding, Shape, LocalShape, LockInv, Inside,
      Lock, Unlock, Threads, locals
<1>6. CountInv'
  BY <1>0, <1>1, <1>4, <1>5, LimitAssumption DEF Kill, Issue, CountInv, Shape, CountShape,
     counters, Threads
<1>7. UnitInv'
  BY <1>0, <1>1, <1>4, <1>5 DEF Kill, Issue, UnitInv, Shape, LocalShape, CountShape,
     CountInv, counters
<1>8. MessageInv'
  <2>1. \A t \in Threads : pc'[t] \in {"enter", "leave"} => messages' = 0 /\ ~killed'
    BY <1>0, <1>1, ThreadAssumption DEF Kill, MessageInv, LockInv, Inside, Lock, Threads, monitor
  <2>2. \A t \in Threads : pc'[t] \in {"enter", "leave", "main"} => ~timedOut'[t]
    BY <1>0, <1>1, <1>4 DEF MessageInv
  <2>3. ~killed' /\ waitersGone' < waitersBlocked' =>
           messages' <= blockQueue' + Units' + Cardinality(Up)' + Due'
    BY <1>0, <1>1, <1>4, <1>5 DEF Kill, Issue, MessageInv, Shape, LocalShape,
       CountShape, counters, monitor, CountInv
  <2>4. killed' => waitersBlocked' = waitersGone' \/ (Deciding /\ unblockAll[owner])'
    BY <1>0, <1>1, <1>5 DEF Kill, Issue, MessageInv, Shape, CountShape, counters, monitor, CountInv
  <2> QED
    BY <2>1, <2>2, <2>3, <2>4 DEF MessageInv
<1>9. GateInv'
  BY <1>0, <1>1 DEF Kill, Issue, GateInv, GateClosedWhileUnblocking, Last, Shape,
     LocalShape, CountShape, CountInv, counters, locals, Threads
<1> QED
  BY <1>2, <1>3, <1>6, <1>7, <1>8, <1>9 DEF Inv

LEMMA LeaveStep ==
    ASSUME Inv, NEW p \in Posters, Leave(p)
    PROVE  Inv'
<1> USE SetsFinite, UnitsType
<1>0. p \in Threads /\ Shape /\ LockInv /\ CountInv /\ UnitInv /\ MessageInv /\ GateInv
  BY DEF Inv, Threads
<1>1. /\ pc[p] = "unlock" /\ pc'[p] = "idle"
      /\ \A u \in Threads \ {p} : pc'[u] = pc[u]
  BY <1>0, Moved DEF Leave, Goto
<1>2. Shape'
  <2>1. pc' \in [Threads -> Locations]
    BY <1>0 DEF Leave, Goto, Shape, Locations
  <2>2. LocalShape'
    BY <1>0 DEF Leave, Issue, Shape, LocalShape, CountShape, CountInv, locals
  <2>3. LockShape'
    BY <1>0 DEF Leave, Shape, LockShape, Lock, Unlock
  <2>4. CountShape'
    BY <1>0, <1>1, LimitAssumption DEF Leave, Issue, Shape, LocalShape, CountShape,
       CountInv, counters, monitor
  <2> QED
    BY <2>1, <2>2, <2>3, <2>4 DEF Shape
<1>3. LockInv'
  <2>1. \A v \in Threads : pc'[v] \in Inside => owner' = v
    BY <1>0, <1>1, ThreadAssumption DEF Leave, LockInv, Inside, Lock, Unlock, Threads
  <2>2. owner' # NoOne => pc'[owner'] \in Inside
    BY <1>0, <1>1, ThreadAssumption DEF Leave, Shape, LockShape, LockInv, Inside, Lock, Unlock
  <2>3. \A v \in Threads : pc'[v] \in Normalizing <=> unblockLock' = v
    BY <1>0, <1>1, ThreadAssumption DEF Leave, LockInv, Normalizing, Threads
  <2>4. \A v \in Threads : pc'[v] \in Signalling => v \in Posters
    BY <1>0, <1>1 DEF LockInv, Signalling
  <2> QED
    BY <2>1, <2>2, <2>3, <2>4 DEF LockInv
<1>4. Waiting' = Waiting /\ Took' = Took /\ Up' = Up /\ timedOut' = timedOut
  <2>1. timedOut' = timedOut
    BY DEF Leave, locals
  <2> QED
    BY <1>1, <2>1 DEF Waiting, Took, Up, Looking, Threads
<1>5. /\ Units = 0 /\ Due = 0 /\ Units' = 0 /\ Due' = 0
      /\ ~Deciding
  BY <1>0, <1>1, ThreadAssumption
  DEF Leave, Issue, Units, Due, Deciding, Shape, LocalShape, LockInv, Inside,
      Lock, Unlock, Threads, locals
<1>6. CountInv'
  BY <1>0, <1>1, <1>4, <1>5, LimitAssumption DEF Leave, Issue, CountInv, Shape,
     CountShape, counters, Threads
<1>7. UnitInv'
  BY <1>0, <1>1, <1>4, <1>5 DEF Leave, Issue, UnitInv, Shape, LocalShape, CountShape,
     CountInv, counters
<1>8. MessageInv'
  <2>1. \A t \in Threads : pc'[t] \in {"enter", "leave"} => messages' = 0 /\ ~killed'
    BY <1>0, <1>1, ThreadAssumption DEF Leave, MessageInv, LockInv, Inside, Lock, Threads, monitor
  <2>2. \A t \in Threads : pc'[t] \in {"enter", "leave", "main"} => ~timedOut'[t]
    BY <1>0, <1>1, <1>4 DEF MessageInv
  <2>3. ~killed' /\ waitersGone' < waitersBlocked' =>
           messages' <= blockQueue' + Units' + Cardinality(Up)' + Due'
    BY <1>0, <1>1, <1>4, <1>5 DEF Leave, Issue, MessageInv, Shape, LocalShape,
       CountShape, counters, monitor, CountInv
  <2>4. killed' => waitersBlocked' = waitersGone' \/ (Deciding /\ unblockAll[owner])'
    BY <1>0, <1>1, <1>5 DEF Leave, Issue, MessageInv, Shape, CountShape, counters, monitor, CountInv
  <2> QED
    BY <2>1, <2>2, <2>3, <2>4 DEF MessageInv
<1>9. GateInv'
  BY <1>0, <1>1 DEF Leave, Issue, GateInv, GateClosedWhileUnblocking, Last, Shape,
     LocalShape, CountShape, CountInv, counters, locals, Threads
<1> QED
  BY <1>2, <1>3, <1>6, <1>7, <1>8, <1>9 DEF Inv

LEMMA SignalClosedStep ==
    ASSUME Inv, NEW p \in Posters, SignalClosed(p)
    PROVE  Inv'
<1> USE SetsFinite, UnitsType
<1>0. p \in Threads /\ Shape /\ LockInv /\ CountInv /\ UnitInv /\ MessageInv /\ GateInv
  BY DEF Inv, Threads
<1>1. /\ pc[p] = "signal" /\ pc'[p] = "release"
      /\ \A u \in Threads \ {p} : pc'[u] = pc[u]
  BY <1>0, Moved DEF SignalClosed, Goto
<1>2. Shape'
  <2>1. pc' \in [Threads -> Locations]
    BY <1>0 DEF SignalClosed, Goto, Shape, Locations
  <2>2. LocalShape'
    BY <1>0 DEF SignalClosed, Issue, Shape, LocalShape, CountShape, CountInv, locals
  <2>3. LockShape'
    BY <1>0 DEF SignalClosed, Shape, LockShape, Lock, Unlock
  <2>4. CountShape'
    BY <1>0, <1>1, LimitAssumption DEF SignalClosed, Issue, Shape, LocalShape,
       CountShape, CountInv, counters, monitor
  <2> QED
    BY <2>1, <2>2, <2>3, <2>4 DEF Shape
<1>3. LockInv'
  <2>1. \A v \in Threads : pc'[v] \in Inside => owner' = v
    BY <1>0, <1>1, ThreadAssumption DEF SignalClosed, LockInv, Inside, Lock, Unlock, Threads
  <2>2. owner' # NoOne => pc'[owner'] \in Inside
    BY <1>0, <1>1, ThreadAssumption DEF SignalClosed, Shape, LockShape, LockInv, Inside,
       Lock, Unlock
  <2>3. \A v \in Threads : pc'[v] \in Normalizing <=> unblockLock' = v
    BY <1>0, <1>1, ThreadAssumption DEF SignalClosed, LockInv, Normalizing, Threads
  <2>4. \A v \in Threads : pc'[v] \in Signalling => v \in Posters
    BY <1>0, <1>1 DEF LockInv, Signalling
  <2> QED
    BY <2>1, <2>2, <2>3, <2>4 DEF LockInv
<1>4. Waiting' = Waiting /\ Took' = Took /\ Up' = Up /\ timedOut' = timedOut
  <2>1. timedOut' = timedOut
    BY DEF SignalClosed, locals
  <2> QED
    BY <1>1, <2>1 DEF Waiting, Took, Up, Looking, Threads
<1>5. /\ Units = 0 /\ Due = 1 /\ Units' = signalsToIssue'[p] /\ Due' = 0
      /\ owner = p
  BY <1>0, <1>1, ThreadAssumption
  DEF SignalClosed, Issue, Units, Due, Deciding, Shape, LocalShape, LockInv, Inside,
      Lock, Unlock, Threads, locals
<1>6. CountInv'
  BY <1>0, <1>1, <1>4, <1>5, LimitAssumption DEF SignalClosed, Issue, CountInv, Shape,
     CountShape, counters, Threads
<1>7. UnitInv'
  BY <1>0, <1>1, <1>4, <1>5 DEF SignalClosed, Issue, UnitInv, Shape, LocalShape,
     CountShape, CountInv, counters
<1>8. MessageInv'
  <2>1. \A t \in Threads : pc'[t] \in {"enter", "leave"} => messages' = 0 /\ ~killed'
    BY <1>0, <1>1, ThreadAssumption DEF SignalClosed, MessageInv, LockInv, Inside, Lock,
       Threads, monitor
  <2>2. \A t \in Threads : pc'[t] \in {"enter", "leave", "main"} => ~timedOut'[t]
    BY <1>0, <1>1, <1>4 DEF MessageInv
  <2>3. ~killed' /\ waitersGone' < waitersBlocked' =>
           messages' <= blockQueue' + Units' + Cardinality(Up)' + Due'
    BY <1>0, <1>1, <1>4, <1>5 DEF SignalClosed, Issue, MessageInv, Shape, LocalShape,
       CountShape, counters, monitor, CountInv
  <2>4. killed' => waitersBlocked' = waitersGone' \/ (Deciding /\ unblockAll[owner])'
    BY <1>0, <1>1, <1>5 DEF SignalClosed, Issue, MessageInv, Shape, CountShape,
       counters, monitor, CountInv
  <2> QED
    BY <2>1, <2>2, <2>3, <2>4 DEF MessageInv
<1>9. GateInv'
  BY <1>0, <1>1 DEF SignalClosed, Issue, GateInv, GateClosedWhileUnblocking, Last, Shape,
     LocalShape, CountShape, CountInv, counters, locals, Threads
<1> QED
  BY <1>2, <1>3, <1>6, <1>7, <1>8, <1>9 DEF Inv

LEMMA SignalOpenStep ==
    ASSUME Inv, NEW p \in Posters, SignalOpen(p)
    PROVE  Inv'
<1> USE SetsFinite, UnitsType
<1>0. p \in Threads /\ Shape /\ LockInv /\ CountInv /\ UnitInv /\ MessageInv /\ GateInv
  BY DEF Inv, Threads
<1>1. /\ pc[p] = "signal" /\ pc'[p] = "close"
      /\ \A u \in Threads \ {p} : pc'[u] = pc[u]
  BY <1>0, Moved DEF SignalOpen, Goto
<1>2. Shape'
  <2>1. pc' \in [Threads -> Locations]
    BY <1>0 DEF SignalOpen, Goto, Shape, Locations
  <2>2. LocalShape'
    BY <1>0 DEF SignalOpen, Issue, Shape, LocalShape, CountShape, CountInv, locals
  <2>3. LockShape'
    BY <1>0 DEF SignalOpen, Shape, LockShape, Lock, Unlock
  <2>4. CountShape'
    BY <1>0, <1>1, LimitAssumption DEF SignalOpen, Issue, Shape, LocalShape, CountShape,
       CountInv, counters, monitor
  <2> QED
    BY <2>1, <2>2, <2>3, <2>4 DEF Shape
<1>3. LockInv'
  <2>1. \A v \in Threads : pc'[v] \in Inside => owner' = v
    BY <1>0, <1>1, ThreadAssumption DEF SignalOpen, LockInv, Inside, Lock, Unlock, Threads
  <2>2. owner' # NoOne => pc'[owner'] \in Inside
    BY <1>0, <1>1, ThreadAssumption DEF SignalOpen, Shape, LockShape, LockInv, Inside, Lock, Unlock
  <2>3. \A v \in Threads : pc'[v] \in Normalizing <=> unblockLock' = v
    BY <1>0, <1>1, ThreadAssumption DEF SignalOpen, LockInv, Normalizing, Threads
  <2>4. \A v \in Threads : pc'[v] \in Signalling => v \in Posters
    BY <1>0, <1>1 DEF LockInv, Signalling
  <2> QED
    BY <2>1, <2>2, <2>3, <2>4 DEF LockInv
<1>4. Waiting' = Waiting /\ Took' = Took /\ Up' = Up /\ timedOut' = timedOut
  <2>1. timedOut' = timedOut
    BY DEF SignalOpen, locals
  <2> QED
    BY <1>1, <2>1 DEF Waiting, Took, Up, Looking, Threads
<1>5. /\ Units = 0 /\ Due = 1 /\ Units' = 0 /\ Due' = 1
      /\ Deciding' /\ owner' = p /\ owner = p /\ unblockAll' = unblockAll
  BY <1>0, <1>1, ThreadAssumption
  DEF SignalOpen, Issue, Units, Due, Deciding, Shape, LocalShape, LockInv, Inside,
      Lock, Unlock, Threads, locals
<1>6. CountInv'
  BY <1>0, <1>1, <1>4, <1>5, LimitAssumption DEF SignalOpen, Issue, CountInv, Shape,
     CountShape, counters, Threads
<1>7. UnitInv'
  BY <1>0, <1>1, <1>4, <1>5 DEF SignalOpen, Issue, UnitInv, Shape, LocalShape, CountShape,
     CountInv, counters
<1>8. MessageInv'
  <2>1. \A t \in Threads : pc'[t] \in {"enter", "leave"} => messages' = 0 /\ ~killed'
    BY <1>0, <1>1, ThreadAssumption DEF SignalOpen, MessageInv, LockInv, Inside, Lock,
       Threads, monitor
  <2>2. \A t \in Threads : pc'[t] \in {"enter", "leave", "main"} => ~timedOut'[t]
    BY <1>0, <1>1, <1>4 DEF MessageInv
  <2>3. ~killed' /\ waitersGone' < waitersBlocked' =>
           messages' <= blockQueue' + Units' + Cardinality(Up)' + Due'
    BY <1>0, <1>1, <1>4, <1>5 DEF SignalOpen, Issue, MessageInv, Shape, LocalShape,
       CountShape, counters, monitor, CountInv
  <2>4. killed' => waitersBlocked' = waitersGone' \/ (Deciding /\ unblockAll[owner])'
    BY <1>0, <1>1, <1>5 DEF SignalOpen, Issue, MessageInv, Shape, CountShape, counters,
       monitor, CountInv
  <2> QED
    BY <2>1, <2>2, <2>3, <2>4 DEF MessageInv
<1>9. GateInv'
  BY <1>0, <1>1 DEF SignalOpen, Issue, GateInv, GateClosedWhileUnblocking, Last, Shape,
     LocalShape, CountShape, CountInv, counters, locals, Threads
<1> QED
  BY <1>2, <1>3, <1>6, <1>7, <1>8, <1>9 DEF Inv

LEMMA SignalNobodyStep ==
    ASSUME Inv, NEW p \in Posters, SignalNobody(p)
    PROVE  Inv'
<1> USE SetsFinite, UnitsType
<1>0. p \in Threads /\ Shape /\ LockInv /\ CountInv /\ UnitInv /\ MessageInv /\ GateInv
  BY DEF Inv, Threads
<1>1. /\ pc[p] = "signal" /\ pc'[p] = "unlock"
      /\ \A u \in Threads \ {p} : pc'[u] = pc[u]
  BY <1>0, Moved DEF SignalNobody, Goto
<1>2. Shape'
  <2>1. pc' \in [Threads -> Locations]
    BY <1>0 DEF SignalNobody, Goto, Shape, Locations
  <2>2. LocalShape'
    BY <1>0 DEF SignalNobody, Issue, Shape, LocalShape, CountShape, CountInv, locals
  <2>3. LockShape'
    BY <1>0 DEF SignalNobody, Shape, LockShape, Lock, Unlock
  <2>4. CountShape'
    BY <1>0, <1>1, LimitAssumption DEF SignalNobody, Issue, Shape, LocalShape,
       CountShape, CountInv, counters, monitor
  <2> QED
    BY <2>1, <2>2, <2>3, <2>4 DEF Shape
<1>3. LockInv'
  <2>1. \A v \in Threads : pc'[v] \in Inside => owner' = v
    BY <1>0, <1>1, ThreadAssumption DEF SignalNobody, LockInv, Inside, Lock, Unlock, Threads
  <2>2. owner' # NoOne => pc'[owner'] \in Inside
    BY <1>0, <1>1, ThreadAssumption DEF SignalNobody, Shape, LockShape, LockInv, Inside,
       Lock, Unlock
  <2>3. \A v \in Threads : pc'[v] \in Normalizing <=> unblockLock' = v
    BY <1>0, <1>1, ThreadAssumption DEF SignalNobody, LockInv, Normalizing, Threads
  <2>4. \A v \in Threads : pc'[v] \in Signalling => v \in Posters
    BY <1>0, <1>1 DEF LockInv, Signalling
  <2> QED
    BY <2>1, <2>2, <2>3, <2>4 DEF LockInv
<1>4. Waiting' = Waiting /\ Took' = Took /\ Up' = Up /\ timedOut' = timedOut
  <2>1. timedOut' = timedOut
    BY DEF SignalNobody, locals
  <2> QED
    BY <1>1, <2>1 DEF Waiting, Took, Up, Looking, Threads
<1>5. /\ Units = 0 /\ Due = 1 /\ Units' = 0 /\ Due' = 0
  BY <1>0, <1>1, ThreadAssumption
  DEF SignalNobody, Issue, Units, Due, Deciding, Shape, LocalShape, LockInv, Inside,
      Lock, Unlock, Threads, locals
<1>6. CountInv'
  BY <1>0, <1>1, <1>4, <1>5, LimitAssumption DEF SignalNobody, Issue, CountInv, Shape,
     CountShape, counters, Threads
<1>7. UnitInv'
  BY <1>0, <1>1, <1>4, <1>5 DEF SignalNobody, Issue, UnitInv, Shape, LocalShape,
     CountShape, CountInv, counters
<1>8. MessageInv'
  <2>1. \A t \in Threads : pc'[t] \in {"enter", "leave"} => messages' = 0 /\ ~killed'
    BY <1>0, <1>1, ThreadAssumption DEF SignalNobody, MessageInv, LockInv, Inside, Lock,
       Threads, monitor
  <2>2. \A t \in Threads : pc'[t] \in {"enter", "leave", "main"} => ~timedOut'[t]
    BY <1>0, <1>1, <1>4 DEF MessageInv
  <2>3. ~killed' /\ waitersGone' < waitersBlocked' =>
           messages' <= blockQueue' + Units' + Cardinality(Up)' + Due'
    BY <1>0, <1>1, <1>4, <1>5 DEF SignalNobody, Issue, MessageInv, Shape, LocalShape,
       CountShape, counters, monitor, CountInv
  <2>4. killed' => waitersBlocked' = waitersGone' \/ (Deciding /\ unblockAll[owner])'
    BY <1>0, <1>1, <1>5 DEF SignalNobody, Issue, MessageInv, Shape, CountShape,
       counters, monitor, CountInv
  <2> QED
    BY <2>1, <2>2, <2>3, <2>4 DEF MessageInv
<1>9. GateInv'
  BY <1>0, <1>1 DEF SignalNobody, Issue, GateInv, GateClosedWhileUnblocking, Last, Shape,
     LocalShape, CountShape, CountInv, counters, locals, Threads
<1> QED
  BY <1>2, <1>3, <1>6, <1>7, <1>8, <1>9 DEF Inv

LEMMA CloseGateStep ==
    ASSUME Inv, NEW p \in Posters, CloseGate(p)
    PROVE  Inv'
<1> USE SetsFinite, UnitsType
<1>0. p \in Threads /\ Shape /\ LockInv /\ CountInv /\ UnitInv /\ MessageInv /\ GateInv
  BY DEF Inv, Threads
<1>1. /\ pc[p] = "close" /\ pc'[p] = "release"
      /\ \A u \in Threads \ {p} : pc'[u] = pc[u]
  BY <1>0, Moved DEF CloseGate, Goto
<1>2. Shape'
  <2>1. pc' \in [Threads -> Locations]
    BY <1>0 DEF CloseGate, Goto, Shape, Locations
  <2>2. LocalShape'
    BY <1>0 DEF CloseGate, Issue, Shape, LocalShape, CountShape, CountInv, locals
  <2>3. LockShape'
    BY <1>0 DEF CloseGate, Shape, LockShape, Lock, Unlock
  <2>4. CountShape'
    BY <1>0, <1>1, LimitAssumption DEF CloseGate, Issue, Shape, LocalShape, CountShape,
       CountInv, counters, monitor
  <2> QED
    BY <2>1, <2>2, <2>3, <2>4 DEF Shape
<1>3. LockInv'
  <2>1. \A v \in Threads : pc'[v] \in Inside => owner' = v
    BY <1>0, <1>1, ThreadAssumption DEF CloseGate, LockInv, Inside, Lock, Unlock, Threads
  <2>2. owner' # NoOne => pc'[owner'] \in Inside
    BY <1>0, <1>1, ThreadAssumption DEF CloseGate, Shape, LockShape, LockInv, Inside, Lock, Unlock
  <2>3. \A v \in Threads : pc'[v] \in Normalizing <=> unblockLock' = v
    BY <1>0, <1>1, ThreadAssumption DEF CloseGate, LockInv, Normalizing, Threads
  <2>4. \A v \in Threads : pc'[v] \in Signalling => v \in Posters
    BY <1>0, <1>1 DEF LockInv, Signalling
  <2> QED
    BY <2>1, <2>2, <2>3, <2>4 DEF LockInv
<1>4. Waiting' = Waiting /\ Took' = Took /\ Up' = Up /\ timedOut' = timedOut
  <2>1. timedOut' = timedOut
    BY DEF CloseGate, locals
  <2> QED
    BY <1>1, <2>1 DEF Waiting, Took, Up, Looking, Threads
<1>5. /\ Units = 0 /\ Due = 1 /\ Units' = signalsToIssue'[p] /\ Due' = 0
      /\ owner = p
  BY <1>0, <1>1, ThreadAssumption
  DEF CloseGate, Issue, Units, Due, Deciding, Shape, LocalShape, LockInv, Inside,
      Lock, Unlock, Threads, locals
<1>6. CountInv'
  <2>1. /\ waitersToUnblock = 0 /\ waitersGone < waitersBlocked
        /\ waitersBlocked = Cardinality(Waiting) + waitersGone
    BY <1>0, <1>1 DEF CountInv, Shape, CountShape
  <2>2. PICK k \in 1..(waitersBlocked - waitersGone) :
          /\ waitersToUnblock' = waitersToUnblock + k
          /\ waitersBlocked' = waitersBlocked - waitersGone - k
          /\ waitersGone' = 0
    BY <1>0, <2>1 DEF CloseGate, Issue, Shape, CountShape
  <2>3. \A v \in Threads : pc'[v] # "close"
    BY <1>0, <1>1, ThreadAssumption DEF LockInv, Normalizing, Threads
  <2>4. Cardinality(Waiting') = Cardinality(Waiting)
    BY <1>4
  <2> QED
    BY <1>0, <2>1, <2>2, <2>3, <2>4, LimitAssumption DEF CountInv, Shape, CountShape
<1>7. UnitInv'
  BY <1>0, <1>1, <1>4, <1>5 DEF CloseGate, Issue, UnitInv, Shape, LocalShape, CountShape,
     CountInv, counters
<1>8. MessageInv'
  <2>1. \A t \in Threads : pc'[t] \in {"enter", "leave"} => messages' = 0 /\ ~killed'
    BY <1>0, <1>1, ThreadAssumption DEF CloseGate, MessageInv, LockInv, Inside, Lock,
       Threads, monitor
  <2>2. \A t \in Threads : pc'[t] \in {"enter", "leave", "main"} => ~timedOut'[t]
    BY <1>0, <1>1, <1>4 DEF MessageInv
  <2>3. ~killed' /\ waitersGone' < waitersBlocked' =>
           messages' <= blockQueue' + Units' + Cardinality(Up)' + Due'
    BY <1>0, <1>1, <1>4, <1>5 DEF CloseGate, Issue, MessageInv, Shape, LocalShape,
       CountShape, counters, monitor, CountInv
  <2>4. killed' => waitersBlocked' = waitersGone' \/ (Deciding /\ unblockAll[owner])'
    BY <1>0, <1>1, <1>5 DEF CloseGate, Issue, MessageInv, Shape, CountShape, counters,
       monitor, CountInv
  <2> QED
    BY <2>1, <2>2, <2>3, <2>4 DEF MessageInv
<1>9. GateInv'
  BY <1>0, <1>1 DEF CloseGate, Issue, GateInv, GateClosedWhileUnblocking, Last, Shape,
     LocalShape, CountShape, CountInv, counters, locals, Threads
<1> QED
  BY <1>2, <1>3, <1>6, <1>7, <1>8, <1>9 DEF Inv

LEMMA ReleaseWaitersStep ==
    ASSUME Inv, NEW p \in Posters, ReleaseWaiters(p)
    PROVE  Inv'
<1> USE SetsFinite, UnitsType
<1>0. p \in Threads /\ Shape /\ LockInv /\ CountInv /\ UnitInv /\ MessageInv /\ GateInv
  BY DEF Inv, Threads
<1>1. /\ pc[p] = "release" /\ pc'[p] = "unlock"
      /\ \A u \in Threads \ {p} : pc'[u] = pc[u]
  BY <1>0, Moved DEF ReleaseWaiters, Goto
<1>2. Shape'
  <2>1. pc' \in [Threads -> Locations]
    BY <1>0 DEF ReleaseWaiters, Goto, Shape, Locations
  <2>2. LocalShape'
    BY <1>0 DEF ReleaseWaiters, Issue, Shape, LocalShape, CountShape, CountInv, locals
  <2>3. LockShape'
    BY <1>0 DEF ReleaseWaiters, Shape, LockShape, Lock, Unlock
  <2>4. CountShape'
    BY <1>0, <1>1, LimitAssumption DEF ReleaseWaiters, Issue, Shape, LocalShape,
       CountShape, CountInv, counters, monitor
  <2> QED
    BY <2>1, <2>2, <2>3, <2>4 DEF Shape
<1>3. LockInv'
  <2>1. \A v \in Threads : pc'[v] \in Inside => owner' = v
    BY <1>0, <1>1, ThreadAssumption DEF ReleaseWaiters, LockInv, Inside, Lock, Unlock, Threads
  <2>2. owner' # NoOne => pc'[owner'] \in Inside
    BY <1>0, <1>1, ThreadAssumption DEF ReleaseWaiters, Shape, LockShape, LockInv,
       Inside, Lock, Unlock
  <2>3. \A v \in Threads : pc'[v] \in Normalizing <=> unblockLock' = v
    BY <1>0, <1>1, ThreadAssumption DEF ReleaseWaiters, LockInv, Normalizing, Threads
  <2>4. \A v \in Threads : pc'[v] \in Signalling => v \in Posters
    BY <1>0, <1>1 DEF LockInv, Signalling
  <2> QED
    BY <2>1, <2>2, <2>3, <2>4 DEF LockInv
<1>4. Waiting' = Waiting /\ Took' = Took /\ Up' = Up /\ timedOut' = timedOut
  <2>1. timedOut' = timedOut
    BY DEF ReleaseWaiters, locals
  <2> QED
    BY <1>1, <2>1 DEF Waiting, Took, Up, Looking, Threads
<1>5. /\ Units = signalsToIssue[p] /\ Due = 0 /\ Units' = 0 /\ Due' = 0
      /\ ~Deciding
  BY <1>0, <1>1, ThreadAssumption
  DEF ReleaseWaiters, Issue, Units, Due, Deciding, Shape, LocalShape, LockInv, Inside,
      Lock, Unlock, Threads, locals
<1>6. CountInv'
  BY <1>0, <1>1, <1>4, <1>5, LimitAssumption DEF ReleaseWaiters, Issue, CountInv, Shape,
     CountShape, counters, Threads
<1>7. UnitInv'
  BY <1>0, <1>1, <1>4, <1>5 DEF ReleaseWaiters, Issue, UnitInv, Shape, LocalShape,
     CountShape, CountInv, counters
<1>8. MessageInv'
  <2>1. \A t \in Threads : pc'[t] \in {"enter", "leave"} => messages' = 0 /\ ~killed'
    BY <1>0, <1>1, ThreadAssumption DEF ReleaseWaiters, MessageInv, LockInv, Inside,
       Lock, Threads, monitor
  <2>2. \A t \in Threads : pc'[t] \in {"enter", "leave", "main"} => ~timedOut'[t]
    BY <1>0, <1>1, <1>4 DEF MessageInv
  <2>3. ~killed' /\ waitersGone' < waitersBlocked' =>
           messages' <= blockQueue' + Units' + Cardinality(Up)' + Due'
    BY <1>0, <1>1, <1>4, <1>5 DEF ReleaseWaiters, Issue, MessageInv, Shape, LocalShape,
       CountShape, counters, monitor, CountInv
  <2>4. killed' => waitersBlocked' = waitersGone' \/ (Deciding /\ unblockAll[owner])'
    BY <1>0, <1>1, <1>5 DEF ReleaseWaiters, Issue, MessageInv, Shape, CountShape,
       counters, monitor, CountInv
  <2> QED
    BY <2>1, <2>2, <2>3, <2>4 DEF MessageInv
<1>9. GateInv'
  BY <1>0, <1>1 DEF ReleaseWaiters, Issue, GateInv, GateClosedWhileUnblocking, Last,
     Shape, LocalShape, CountShape, CountInv, counters, locals, Threads
<1> QED
  BY <1>2, <1>3, <1>6, <1>7, <1>8, <1>9 DEF Inv

LEMMA SignalSteps ==
    ASSUME Inv, NEW p \in Posters, Post(p) \/ Kill(p) \/ SignalStep(p)
    PROVE  Inv'
<1>1. CASE SignalStart(p)
  BY <1>1, SignalCases, SignalClosedStep, SignalOpenStep, SignalNobodyStep
<1> QED
  BY <1>1, PostStep, KillStep, LeaveStep, CloseGateStep, ReleaseWaitersStep DEF SignalStep

-----------------------------------------------------------------------------
(* The theorems.                                                           *)

LEMMA InvInit == Init => Inv
<1> SUFFICES ASSUME Init PROVE Inv
  OBVIOUS
<1>1. Waiting = {} /\ Took = {} /\ Up = {}
  BY DEF Init, Waiting, Took, Up, Looking, Threads
<1>2. Cardinality(Waiting) = 0 /\ Cardinality(Took) = 0 /\ Cardinality(Up) = 0
  BY <1>1, FS_EmptySet
<1>3. \A t \in Threads : pc[t] = "idle" /\ ~timedOut[t]
  BY DEF Init
<1>4. Shape
  <2>1. LocalShape /\ LockShape
    BY DEF Init, LocalShape, LockShape
  <2>2. CountShape
    <3>1. 0 \in 0..GoneLimit /\ 0 \in 0..MaxPosts
      BY LimitAssumption
    <3> QED
      BY <3>1 DEF Init, CountShape
  <2>3. pc \in [Threads -> Locations]
    BY DEF Init, Locations
  <2> QED
    BY <2>1, <2>2, <2>3 DEF Shape
<1>5. LockInv
  BY <1>3, ThreadAssumption DEF Init, LockInv, Inside, Normalizing, Signalling, Threads
<1>6. CountInv
  BY <1>2, <1>3, LimitAssumption DEF Init, CountInv
<1>7. UnitInv /\ MessageInv
  <2>1. Units = 0 /\ Due = 0
    BY ThreadAssumption DEF Init, Units, Due, Deciding, Threads
  <2> QED
    BY <1>2, <1>3, <2>1 DEF Init, UnitInv, MessageInv
<1>8. GateInv
  BY <1>3 DEF Init, GateInv, GateClosedWhileUnblocking, Last, Threads
<1> QED
  BY <1>4, <1>5, <1>6, <1>7, <1>8 DEF Inv

LEMMA InvNext == Inv /\ [Next]_vars => Inv'
<1> SUFFICES ASSUME Inv, [Next]_vars PROVE Inv'
  OBVIOUS
<1>1. ASSUME UNCHANGED vars PROVE Inv'
  BY <1>1 DEF vars, locals, counters, monitor, Inv, Shape, LocalShape, LockShape, CountShape,
     LockInv, CountInv, UnitInv, MessageInv, GateInv, GateClosedWhileUnblocking, Last,
     Waiting, Took, Up, Units, Due, Deciding
<1> QED
  BY <1>1, ConsumeStep, WaitSteps, SignalSteps DEF Next

THEOREM Invariant == Spec => []Inv
  BY InvInit, InvNext, PTL DEF Spec

\* The counters of the condition variable stay in their ranges, m_waitersBlocked
\* and m_waitersGone among them, and the gate's semaphore at its maximum of 1.
THEOREM TypeCorrect == Spec => []TypeOK
<1>1. Inv => TypeOK
  <2> SUFFICES ASSUME Inv PROVE TypeOK
    OBVIOUS
  <2>1. waitersBlocked <= Cardinality(Consumers) + GoneLimit
        /\ waitersToUnblock <= Cardinality(Consumers)
    BY SetsFinite, LimitAssumption DEF Inv, Shape, CountShape, CountInv
  <2> QED
    BY <2>1, SetsFinite, LimitAssumption
    DEF Inv, Shape, Locations, LocalShape, LockShape, CountShape, TypeOK
<1> QED
  BY <1>1, Invariant, PTL

\* No lost wakeup: while a consumer sleeps although there is something for it,
\* a unit of the semaphore, a signal or another consumer is on its way.
THEOREM NoLostWakeup == Spec => []NoSleeperForgotten
<1>1. Inv => NoSleeperForgotten
  <2> SUFFICES ASSUME Inv, Asleep # {}, killed \/ messages > 0, blockQueue = 0,
                      \A p \in Posters : pc[p] \notin {"signal", "close", "release"}
               PROVE  ~killed /\ Up # {}
    BY DEF NoSleeperForgotten, Inv, Shape, CountShape, Up, Looking
  <2>1. Units = 0 /\ Due = 0 /\ ~Deciding
    BY DEF Inv, LockInv, Signalling, Units, Due, Deciding
  <2>2. Cardinality(Took) < Cardinality(Waiting)
    <3>1. PICK a \in Consumers : pc[a] = "main"
      BY DEF Asleep
    <3>2. a \in Waiting /\ Took \subseteq Waiting \ {a}
      BY <3>1 DEF Waiting, Took
    <3>3. /\ IsFiniteSet(Waiting \ {a})
          /\ Cardinality(Waiting \ {a}) = Cardinality(Waiting) - 1
      BY <3>2, SetsFinite, FS_RemoveElement
    <3>4. Cardinality(Took) <= Cardinality(Waiting \ {a})
      BY <3>2, <3>3, FS_Subset
    <3> QED
      BY <3>3, <3>4, SetsFinite
  <2>3. waitersGone < waitersBlocked
    BY <2>1, <2>2, SetsFinite DEF Inv, Shape, CountShape, CountInv, UnitInv
  <2>4. ~killed /\ messages <= Cardinality(Up)
    BY <2>1, <2>3, SetsFinite DEF Inv, Shape, CountShape, MessageInv
  <2> QED
    BY <2>4, SetsFinite, FS_EmptySet DEF Inv, Shape, CountShape
<1> QED
  BY <1>1, Invariant, PTL

\* The gate is closed exactly while a signal has waiters left.
THEOREM GateIsRight == Spec => []GateClosedWhileUnblocking
  BY Invariant, PTL DEF Inv, GateInv

-----------------------------------------------------------------------------
(* The condition variable keeps its promise.                               *)

\* A step of a thread that neither waits nor signals.
LEMMA AwayStutters ==
    ASSUME Inv, NEW t \in Threads,
           \A u \in Threads \ {t} :
              pc'[u] = pc[u] /\ timed'[u] = timed[u] /\ timedOut'[u] = timedOut[u],
           pc[t] \notin {"leave", "main", "unblock", "signal", "close", "release"},
           pc'[t] \notin {"leave", "main", "unblock", "signal", "close", "release"},
           owner' = owner \/ {owner, owner'} = {t, NoOne},
           UNCHANGED <<signalsToIssue, unblockAll, blockQueue, waitersToUnblock>>
    PROVE  UNCHANGED Condition!vars
<1>1. UNCHANGED <<Waiting, Limited, Expired, Took>>
  BY DEF Waiting, Limited, Expired, Took, Threads
<1>2. UNCHANGED Signals
  BY DEF Signals, Threads
<1>3. UNCHANGED Units
  BY SameSignal DEF Inv
<1> QED
  BY <1>1, <1>2, <1>3 DEF Condition!vars, Spare

LEMMA WaitersStep ==
    ASSUME Inv, NEW c \in Consumers, WaitStep(c)
    PROVE  [Condition!Next]_(Condition!vars)
<1> USE SetsFinite, UnitsType
<1>0. c \in Threads /\ Shape /\ LockInv /\ CountInv /\ UnitInv /\ MessageInv /\ GateInv
  BY DEF Inv, Threads
<1>1. ASSUME Test(c) \/ Normalize(c) \/ OpenGate(c) \/ EnterSection(c)
      PROVE  UNCHANGED Condition!vars
  <2>1. /\ pc[c] \notin {"leave", "main", "unblock", "signal", "close", "release"}
        /\ pc'[c] \notin {"leave", "main", "unblock", "signal", "close", "release"}
        /\ \A u \in Threads \ {c} : pc'[u] = pc[u]
    BY <1>0, <1>1 DEF Test, Normalize, OpenGate, EnterSection, Goto, Shape
  <2>2. owner' = owner \/ {owner, owner'} = {c, NoOne}
    BY <1>0, <1>1 DEF Test, Normalize, OpenGate, EnterSection, Unlock, LockInv, Inside
  <2>3. UNCHANGED <<timed, timedOut, signalsToIssue, unblockAll, blockQueue, waitersToUnblock>>
    BY <1>1 DEF Test, Normalize, OpenGate, EnterSection, locals, counters
  <2> QED
    BY <1>0, <2>1, <2>2, <2>3, AwayStutters
<1>2. CASE EnterWait(c)
  <2>1. /\ pc[c] = "enter" /\ pc'[c] = "leave" /\ blockLock = 1
        /\ \A u \in Threads \ {c} : pc'[u] = pc[u]
        /\ UNCHANGED <<locals, owner, waitersToUnblock, blockQueue>>
    BY <1>0, <1>2, Moved DEF EnterWait, Goto
  <2>2. owner = c /\ ~timedOut[c] /\ waitersToUnblock = 0
    BY <1>0, <2>1 DEF LockInv, Inside, MessageInv, GateInv, GateClosedWhileUnblocking, Shape, CountShape
  <2>3. \A p \in Posters : Signals[p] = "none"
    BY <1>0, <2>1, <2>2 DEF Signals, LockInv, Inside, Threads
  <2>4. UNCHANGED <<Signals, Units, Took>>
    BY <1>0, <2>1, <2>2 DEF Signals, Units, Took, Threads, locals
  <2>5. c \notin Waiting /\ Waiting' = Waiting \cup {c}
    BY <2>1 DEF Waiting, Threads
  <2>6. Limited' \in {Limited, Limited \cup {c}} /\ Expired' = Expired
    BY <2>1, <2>2, <2>5 DEF Limited, Expired, locals
  <2>7. Spare' = Spare
    BY <2>1, <2>4 DEF Spare
  <2>8. Condition!Enter(c)
    BY <2>1, <2>2, <2>3, <2>4, <2>5, <2>6, <2>7 DEF Condition!Enter, Condition!Quiet
  <2> QED
    BY <2>8 DEF Condition!Next
<1>3. CASE LeaveSection(c)
  <2>1. /\ pc[c] = "leave" /\ pc'[c] = "main" /\ owner' = NoOne
        /\ \A u \in Threads \ {c} : pc'[u] = pc[u]
        /\ UNCHANGED <<locals, waitersToUnblock, blockQueue>>
    BY <1>0, <1>3, Moved DEF LeaveSection, Goto, counters
  <2>2. owner = c
    BY <1>0, <2>1 DEF LockInv, Inside
  <2>3. UNCHANGED <<Waiting, Limited, Expired, Took, Signals>>
    BY <2>1 DEF Waiting, Limited, Expired, Took, Signals, Threads, locals
  <2>4. Units' = Units
    BY <1>0, <2>1, <2>2, SameSignal DEF locals
  <2> QED
    BY <2>1, <2>3, <2>4 DEF Condition!vars, Spare
<1>4. CASE MainWait(c)
  <2>1. /\ pc[c] = "main" /\ pc'[c] = "unblock"
        /\ \A u \in Threads \ {c} : pc'[u] = pc[u]
        /\ UNCHANGED <<timed, signalsToIssue, unblockAll, owner, waitersToUnblock>>
    BY <1>0, <1>4, Moved DEF MainWait, Goto, counters
  <2>2. Waiting' = Waiting /\ c \in Waiting /\ Limited' = Limited /\ Signals' = Signals
    BY <2>1 DEF Waiting, Limited, Signals, Threads
  <2>3. Units' = Units
    BY <1>0, <2>1, SameSignal
  <2>4. ~timedOut[c]
    BY <1>0, <2>1 DEF MessageInv
  <2>5. CASE blockQueue > 0 /\ blockQueue' = blockQueue - 1 /\ timedOut' = timedOut
    <3>1. Expired' = Expired
      BY <2>2, <2>5 DEF Expired
    <3>2. Cardinality(Took)' = Cardinality(Took) + 1 /\ Cardinality(Took)' \in Nat
      BY <2>1, <2>4, <2>5, Counts DEF CountsTook, Ind
    <3>3. Spare' = Spare
      BY <1>0, <2>1, <2>3, <2>5, <3>2 DEF Spare, Shape, CountShape
    <3> QED
      BY <2>1, <2>2, <3>1, <3>3 DEF Condition!vars
  <2>6. CASE timed[c] /\ timedOut' = [timedOut EXCEPT ![c] = TRUE] /\ blockQueue' = blockQueue
    <3>1. timedOut'[c] /\ \A u \in Threads \ {c} : timedOut'[u] = timedOut[u]
      BY <1>0, <2>6 DEF Shape, LocalShape
    <3>2. c \in Limited /\ Expired' = Expired \cup {c}
      BY <2>2, <2>6, <3>1 DEF Limited, Expired, Waiting, Threads
    <3>3. Took' = Took
      BY <2>1, <3>1 DEF Took, Threads
    <3>4. Spare' = Spare
      BY <2>1, <2>3, <2>6, <3>3 DEF Spare
    <3>5. Condition!Expire(c)
      BY <2>1, <2>2, <3>2, <3>4 DEF Condition!Expire
    <3> QED
      BY <3>5 DEF Condition!Next
  <2> QED
    BY <1>4, <2>5, <2>6 DEF MainWait
<1>5. CASE Unblock(c)
  <2>1. /\ pc[c] = "unblock" /\ pc'[c] \in {"open", "normalize"}
        /\ \A u \in Threads \ {c} : pc'[u] = pc[u]
        /\ UNCHANGED <<timed, timedOut, signalsToIssue, unblockAll, owner, blockQueue>>
    BY <1>0, <1>5 DEF Unblock, Shape
  <2>2. /\ c \in Waiting /\ Waiting' = Waiting \ {c} /\ Limited' = Limited \ {c}
        /\ Expired' = Expired \ {c} /\ (c \in Expired <=> timedOut[c]) /\ Signals' = Signals
    BY <2>1 DEF Waiting, Limited, Expired, Signals, Threads
  <2>3. Condition!Leave(c)
    BY <2>2 DEF Condition!Leave
  <2>4. Units' = Units
    BY <1>0, <2>1, SameSignal
  <2>5. /\ Cardinality(Took)' = Cardinality(Took) - Ind(~timedOut[c])
        /\ Cardinality(Took)' \in Nat
    BY <2>1, Counts DEF CountsTook, Ind
  <2>6. CASE waitersToUnblock > 0
    <3>1. waitersToUnblock' = waitersToUnblock - 1
      BY <1>5, <2>6 DEF Unblock
    <3>2. Spare' = IF c \in Expired THEN Spare + 1 ELSE Spare
      BY <1>0, <2>1, <2>2, <2>4, <2>5, <3>1 DEF Spare, Ind, Shape, CountShape
    <3>3. Condition!Wake(c)
      BY <2>3, <2>6, <3>1, <3>2 DEF Condition!Wake
    <3> QED
      BY <3>3 DEF Condition!Next
  <2>7. CASE waitersToUnblock = 0
    <3>1. waitersToUnblock' = waitersToUnblock
      BY <1>5, <2>7 DEF Unblock
    <3>2. /\ Spare \in Int /\ Spare' = IF c \in Expired THEN Spare ELSE Spare - 1
          /\ Spare' >= 0
      BY <1>0, <2>1, <2>2, <2>4, <2>5, <2>7, <3>1 DEF Spare, Ind, Shape, CountShape
    <3>3. Condition!GiveUp(c)
      <4>1. c \notin Expired => Spare > 0 /\ Spare' = Spare - 1
        BY <3>2
      <4> QED
        BY <2>3, <2>7, <3>1, <3>2, <4>1 DEF Condition!GiveUp
    <3> QED
      BY <3>3 DEF Condition!Next
  <2> QED
    BY <1>0, <2>6, <2>7 DEF Shape, CountShape
<1> QED
  BY <1>1, <1>2, <1>3, <1>4, <1>5 DEF WaitStep

LEMMA SameCardinality == Condition!Cardinality(Waiting) = Cardinality(Waiting)
  BY DEF Condition!Cardinality, Cardinality

LEMMA PostersStep ==
    ASSUME Inv, NEW p \in Posters, Post(p) \/ Kill(p) \/ SignalStep(p)
    PROVE  [Condition!Next]_(Condition!vars)
<1> USE SetsFinite, UnitsType
<1>0. p \in Threads /\ Shape /\ LockInv /\ CountInv
  BY DEF Inv, Threads
<1>1. ASSUME pc[p] \notin {"leave", "main", "unblock"}, pc'[p] \notin {"leave", "main", "unblock"},
             \A u \in Threads \ {p} : pc'[u] = pc[u], UNCHANGED <<timed, timedOut>>
      PROVE  UNCHANGED <<Waiting, Limited, Expired, Took>>
  BY <1>1 DEF Waiting, Limited, Expired, Took, Threads
\* What a decision of the signal needs.
<1>2. ASSUME pc[p] \in {"signal", "close"}, pc'[p] \in {"release", "unlock"},
             \A u \in Threads \ {p} : pc'[u] = pc[u],
             UNCHANGED <<timed, timedOut, unblockAll, owner, blockQueue>>,
             waitersToUnblock' = IF ~unblockAll[p] /\ waitersToUnblock < Cardinality(Waiting)
                                 THEN waitersToUnblock + 1 ELSE Cardinality(Waiting),
             Units' = waitersToUnblock' - waitersToUnblock
      PROVE  Condition!Next
  <2>1. UNCHANGED <<Waiting, Limited, Expired, Took>>
    BY <1>1, <1>2
  <2>2. /\ Signals[p] = IF unblockAll[p] THEN "all" ELSE "one"
        /\ Signals' = [Signals EXCEPT ![p] = "none"]
    BY <1>2 DEF Signals, Threads
  <2>3. owner = p /\ Units = 0
    BY <1>0, <1>2 DEF LockInv, Inside, Units
  <2>4. Spare' = Spare
    BY <1>0, <1>2, <2>1, <2>3 DEF Spare, Shape, CountShape
  <2>5. Condition!Signal(p)
    <3>1. Signals[p] # "none" /\ (Signals[p] = "one" <=> ~unblockAll[p])
      BY <2>2
    <3>2. waitersToUnblock' = IF Signals[p] = "one" /\ waitersToUnblock < Cardinality(Waiting)
                              THEN waitersToUnblock + 1 ELSE Cardinality(Waiting)
      BY <1>2, <3>1
    <3> QED
      BY <2>1, <2>2, <2>4, <3>1, <3>2, SameCardinality DEF Condition!Signal
  <2> QED
    BY <2>5 DEF Condition!Next
<1>3. ASSUME NEW k \in {"one", "all"}, Goto(p, "idle", "signal"), Lock(p),
             unblockAll' = [unblockAll EXCEPT ![p] = (k = "all")],
             UNCHANGED <<timed, timedOut, signalsToIssue, blockQueue, waitersToUnblock>>
      PROVE  Condition!Next
  <2>1. /\ pc[p] = "idle" /\ pc'[p] = "signal" /\ \A u \in Threads \ {p} : pc'[u] = pc[u]
        /\ owner = NoOne /\ owner' = p /\ unblockAll'[p] = (k = "all")
        /\ \A u \in Threads \ {p} : unblockAll'[u] = unblockAll[u]
    BY <1>0, <1>3, Moved DEF Goto, Lock, Shape, LocalShape
  <2>2. UNCHANGED <<Waiting, Limited, Expired, Took>>
    BY <1>1, <1>3, <2>1
  <2>3. Units = 0 /\ Units' = 0
    BY <1>0, <2>1, ThreadAssumption DEF Units, Threads
  <2>4. \A q \in Posters : Signals[q] = "none"
    BY <1>0, <2>1, ThreadAssumption DEF Signals, LockInv, Inside, Threads
  <2>5. Signals' = [Signals EXCEPT ![p] = k]
    BY <2>1 DEF Signals, Threads
  <2>6. Spare' = Spare
    BY <1>3, <2>2, <2>3 DEF Spare
  <2>7. Condition!Begin(p, k)
    BY <1>3, <2>2, <2>4, <2>5, <2>6 DEF Condition!Begin, Condition!Quiet
  <2> QED
    BY <2>7 DEF Condition!Next
<1>4. CASE Post(p)
  BY <1>3, <1>4 DEF Post, counters
<1>5. CASE Kill(p)
  BY <1>3, <1>5 DEF Kill, counters
<1>6. CASE SignalClosed(p)
  <2>1. /\ pc[p] = "signal" /\ pc'[p] = "release" /\ \A u \in Threads \ {p} : pc'[u] = pc[u]
        /\ waitersToUnblock > 0 /\ waitersBlocked > 0
        /\ UNCHANGED <<timed, timedOut, unblockAll, owner, blockQueue>>
    BY <1>0, <1>6, Moved DEF SignalClosed, Goto
  <2> DEFINE n == IF unblockAll[p] THEN waitersBlocked ELSE 1
  <2>2. /\ signalsToIssue' = [signalsToIssue EXCEPT ![p] = n]
        /\ waitersToUnblock' = waitersToUnblock + n
    BY <1>6 DEF SignalClosed, Issue
  <2>3. waitersToUnblock + waitersBlocked = Cardinality(Waiting)
    BY <1>0, <2>1 DEF CountInv, Shape, CountShape
  <2>4. Units' = n
    BY <1>0, <2>1, <2>2 DEF Units, LockInv, Inside, Shape, LocalShape
  <2>5. waitersBlocked \in Nat /\ waitersToUnblock \in Nat /\ Cardinality(Waiting) \in Nat
    BY <1>0 DEF Shape, CountShape
  <2>6. waitersToUnblock' = IF ~unblockAll[p] /\ waitersToUnblock < Cardinality(Waiting)
                            THEN waitersToUnblock + 1 ELSE Cardinality(Waiting)
    BY <2>1, <2>2, <2>3, <2>5
  <2>7. Units' = waitersToUnblock' - waitersToUnblock
    BY <2>2, <2>4, <2>5
  <2> HIDE DEF n
  <2> QED
    BY <1>2, <2>1, <2>6, <2>7
<1>7. CASE SignalOpen(p)
  <2>1. /\ pc[p] = "signal" /\ pc'[p] = "close" /\ \A u \in Threads \ {p} : pc'[u] = pc[u]
        /\ UNCHANGED <<locals, owner, blockQueue, waitersToUnblock>>
    BY <1>0, <1>7, Moved DEF SignalOpen, Goto, counters
  <2>2. UNCHANGED <<Waiting, Limited, Expired, Took>>
    BY <1>1, <2>1 DEF locals
  <2>3. Signals' = Signals /\ Units' = Units
    BY <1>0, <2>1 DEF Signals, Units, Threads, locals, LockInv, Inside
  <2> QED
    BY <2>1, <2>2, <2>3 DEF Condition!vars, Spare
<1>8. CASE SignalNobody(p)
  <2>1. /\ pc[p] = "signal" /\ pc'[p] = "unlock" /\ \A u \in Threads \ {p} : pc'[u] = pc[u]
        /\ IF waitersToUnblock > 0 THEN waitersBlocked = 0 ELSE waitersBlocked <= waitersGone
        /\ UNCHANGED <<locals, owner, blockQueue, waitersToUnblock>>
    BY <1>0, <1>8, Moved DEF SignalNobody, Goto, counters
  <2>2. waitersToUnblock = Cardinality(Waiting)
    BY <1>0, <2>1 DEF CountInv, Shape, CountShape
  <2>3. Units' = 0
    BY <1>0, <2>1 DEF Units, LockInv, Inside
  <2> QED
    BY <1>2, <2>1, <2>2, <2>3 DEF locals
<1>9. CASE CloseGate(p)
  <2> DEFINE left == waitersBlocked - waitersGone
             n == IF unblockAll[p] THEN left ELSE 1
  <2>1. /\ pc[p] = "close" /\ pc'[p] = "release" /\ \A u \in Threads \ {p} : pc'[u] = pc[u]
        /\ UNCHANGED <<timed, timedOut, unblockAll, owner, blockQueue>>
        /\ signalsToIssue' = [signalsToIssue EXCEPT ![p] = n]
        /\ waitersToUnblock' = waitersToUnblock + n
    BY <1>0, <1>9, Moved DEF CloseGate, Goto, Issue
  <2>2. waitersToUnblock = 0 /\ left = Cardinality(Waiting) /\ left > 0
    BY <1>0, <2>1 DEF CountInv, Shape, CountShape
  <2>3. Units' = n
    BY <1>0, <2>1 DEF Units, LockInv, Inside, Shape, LocalShape
  <2> HIDE DEF left
  <2>4. waitersToUnblock' = IF ~unblockAll[p] /\ waitersToUnblock < Cardinality(Waiting)
                            THEN waitersToUnblock + 1 ELSE Cardinality(Waiting)
    BY <2>1, <2>2
  <2>5. Units' = waitersToUnblock' - waitersToUnblock
    BY <2>1, <2>2, <2>3
  <2> HIDE DEF n
  <2> QED
    BY <1>2, <2>1, <2>4, <2>5
<1>10. CASE ReleaseWaiters(p)
  <2>1. /\ pc[p] = "release" /\ pc'[p] = "unlock" /\ \A u \in Threads \ {p} : pc'[u] = pc[u]
        /\ blockQueue' = blockQueue + signalsToIssue[p]
        /\ UNCHANGED <<locals, owner, waitersToUnblock>>
    BY <1>0, <1>10, Moved DEF ReleaseWaiters, Goto, counters
  <2>2. UNCHANGED <<Waiting, Limited, Expired, Took>>
    BY <1>1, <2>1 DEF locals
  <2>3. Units = signalsToIssue[p] /\ Units' = 0
    BY <1>0, <2>1 DEF Units, LockInv, Inside
  <2>4. Signals' = Signals
    BY <2>1 DEF Signals, Threads, locals
  <2>5. Spare' = Spare
    BY <1>0, <2>1, <2>2, <2>3 DEF Spare, Shape, CountShape, LocalShape
  <2> QED
    BY <2>1, <2>2, <2>4, <2>5 DEF Condition!vars
<1>11. CASE Leave(p)
  <2>1. /\ pc[p] = "unlock" /\ pc'[p] = "idle" /\ \A u \in Threads \ {p} : pc'[u] = pc[u]
        /\ owner' = NoOne
        /\ UNCHANGED <<locals, blockQueue, waitersToUnblock>>
    BY <1>0, <1>11, Moved DEF Leave, Goto, Unlock, counters
  <2>2. owner = p
    BY <1>0, <2>1 DEF LockInv, Inside
  <2> QED
    BY <1>0, <2>1, <2>2, AwayStutters DEF locals
<1> QED
  BY <1>4, <1>5, <1>6, <1>7, <1>8, <1>9, <1>10, <1>11, SignalCases DEF SignalStep

\* The semaphores, the gate and the three counters of PlatformCondition make a
\* condition variable: no signal is lost on a waiter, none goes to a thread that
\* comes later, and what wakes without one replaces a waiter that timed out.
THEOREM ConditionIsKept == Spec => ImplementsCondition
<1>1. Init => Condition!Init
  <2> SUFFICES ASSUME Init PROVE Condition!Init
    OBVIOUS
  <2>1. Waiting = {} /\ Took = {} /\ Limited = {} /\ Expired = {}
    BY DEF Init, Waiting, Took, Limited, Expired, Threads
  <2>2. Signals = [p \in Posters |-> "none"]
    BY DEF Init, Signals, Threads
  <2>3. Spare = 0
    BY <2>1, FS_EmptySet, ThreadAssumption DEF Init, Spare, Units, Threads
  <2> QED
    BY <2>1, <2>2, <2>3 DEF Init, Condition!Init
<1>2. Inv /\ [Next]_vars => [Condition!Next]_(Condition!vars)
  <2> SUFFICES ASSUME Inv, [Next]_vars PROVE [Condition!Next]_(Condition!vars)
    OBVIOUS
  <2>1. ASSUME NEW c \in Consumers, NEW t \in BOOLEAN, Consume(c, t)
        PROVE  UNCHANGED Condition!vars
    <3>1. /\ c \in Threads /\ pc[c] = "idle" /\ pc'[c] = "test" /\ owner = NoOne /\ owner' = c
          /\ \A u \in Threads \ {c} : pc'[u] = pc[u]
      BY <2>1, Moved DEF Consume, Goto, Lock, Threads, Inv
    <3>2. /\ \A u \in Threads \ {c} : timed'[u] = timed[u] /\ timedOut'[u] = timedOut[u]
          /\ UNCHANGED <<signalsToIssue, unblockAll, blockQueue, waitersToUnblock>>
      BY <2>1 DEF Consume, Inv, Shape, LocalShape, counters
    <3> QED
      BY <3>1, <3>2, AwayStutters
  <2>2. CASE UNCHANGED vars
    BY <2>2 DEF vars, locals, counters, Condition!vars, Waiting, Limited, Expired, Signals, Spare,
       Took, Units
  <2> QED
    BY <2>1, <2>2, WaitersStep, PostersStep DEF Next
<1> QED
  BY <1>1, <1>2, Invariant, PTL DEF Spec, ImplementsCondition, Condition!Spec

=============================================================================
