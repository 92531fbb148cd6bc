------------------------- MODULE MessageQueueProofs -------------------------
(***************************************************************************)
(* Proofs about MessageQueue, for any messages, consumers and predicates.  *)
(***************************************************************************)
EXTENDS MessageQueue, FiniteSetTheorems, SequenceTheorems, TLAPS

-----------------------------------------------------------------------------
(* Lemmas about the operators the queue is built from. *)

\* Taking one message out of the queue leaves a queue, one message shorter,
\* of the other messages: each is at its old position or the one before it.
LEMMA WithoutLemma ==
    ASSUME queue \in Seq(Messages), NEW i \in 1..Len(queue)
    PROVE  /\ Without(i) \in Seq(Messages)
           /\ Len(Without(i)) = Len(queue) - 1
           /\ \A j \in 1..(Len(queue) - 1) :
                 Without(i)[j] = IF j < i THEN queue[j] ELSE queue[j + 1]
<1> DEFINE n == Len(queue) - 1
           e(j) == IF j < i THEN queue[j] ELSE queue[j + 1]
<1>1. n \in Nat /\ Len(queue) \in Nat
  OBVIOUS
<1>2. \A j \in 1..n : j \in 1..Len(queue) /\ j + 1 \in 1..Len(queue)
  BY <1>1
<1>3. \A j \in 1..n : e(j) \in Messages
  BY <1>2
<1>4. Without(i) = [j \in 1..n |-> e(j)]
  BY DEF Without
<1>5. [j \in 1..n |-> e(j)] \in Seq(Messages) /\ Len([j \in 1..n |-> e(j)]) = n
  BY <1>1, <1>3
<1>6. \A j \in 1..n : Without(i)[j] = e(j)
  BY <1>4
<1> QED
  BY <1>4, <1>5, <1>6

\* Every queued message other than queue[i] is still there without position i,
\* and nothing else is.
LEMMA WithoutElements ==
    ASSUME queue \in Seq(Messages), NEW i \in 1..Len(queue)
    PROVE  /\ \A j \in 1..Len(queue) : j # i =>
                 \E k \in 1..Len(Without(i)) : Without(i)[k] = queue[j]
           /\ \A k \in 1..Len(Without(i)) :
                 \E j \in 1..Len(queue) : j # i /\ Without(i)[k] = queue[j]
<1>1. Len(queue) \in Nat /\ Len(Without(i)) = Len(queue) - 1
  BY WithoutLemma
<1>2. ASSUME NEW j \in 1..Len(queue), j # i
      PROVE  \E k \in 1..Len(Without(i)) : Without(i)[k] = queue[j]
  <2>1. CASE j < i
    <3>1. j \in 1..Len(Without(i)) /\ Without(i)[j] = queue[j]
      BY <1>1, <2>1, WithoutLemma
    <3> QED
      BY <3>1
  <2>2. CASE j > i
    <3>1. j - 1 \in 1..Len(Without(i)) /\ ~(j - 1 < i)
      BY <1>1, <2>2
    <3>2. Without(i)[j - 1] = queue[(j - 1) + 1]
      BY <1>1, <3>1, WithoutLemma
    <3>3. (j - 1) + 1 = j
      OBVIOUS
    <3> QED
      BY <3>1, <3>2, <3>3
  <2> QED
    BY <1>2, <2>1, <2>2
<1>3. ASSUME NEW k \in 1..Len(Without(i))
      PROVE  \E j \in 1..Len(queue) : j # i /\ Without(i)[k] = queue[j]
  <2>0. k \in 1..(Len(queue) - 1) /\ k \in 1..Len(queue) /\ k + 1 \in 1..Len(queue)
    BY <1>1
  <2>1. CASE k < i
    BY <2>0, <2>1, WithoutLemma
  <2>2. CASE ~(k < i)
    <3>1. Without(i)[k] = queue[k + 1] /\ k + 1 # i
      BY <2>0, <2>2, WithoutLemma
    <3> QED
      BY <2>0, <3>1
  <2> QED
    BY <2>1, <2>2
<1> QED
  BY <1>2, <1>3

\* What removeIf leaves is a queue: f maps its positions one to one, and in
\* order, to the positions of the messages that were not selected.
LEMMA RemoveIfLemma ==
    ASSUME queue \in Seq(Messages), NEW D, RemoveIf(D)
    PROVE  /\ queue' \in Seq(Messages)
           /\ \E f \in [1..Len(queue') -> Kept(D)] :
                 /\ \A i, j \in 1..Len(queue') : i < j => f[i] < f[j]
                 /\ \A i \in 1..Len(queue') : queue'[i] = queue[f[i]]
                 /\ \A i, j \in 1..Len(queue') : f[i] = f[j] => i = j
                 /\ \A k \in Kept(D) : \E i \in 1..Len(queue') : f[i] = k
<1> DEFINE n == Cardinality(Kept(D))
<1>1. Len(queue) \in Nat /\ IsFiniteSet(1..Len(queue))
  BY FS_Interval
<1>2. Kept(D) \subseteq 1..Len(queue)
  BY DEF Kept
<1>3. n \in Nat /\ IsFiniteSet(Kept(D))
  BY <1>1, <1>2, FS_Subset, FS_CardinalityType
<1>4. PICK f \in [1..n -> Kept(D)] :
         /\ \A i, j \in DOMAIN f : i < j => f[i] < f[j]
         /\ queue' = [i \in 1..n |-> queue[f[i]]]
  BY DEF RemoveIf
<1> HIDE DEF n
<1>5. \A i \in 1..n : queue[f[i]] \in Messages
  BY <1>2
<1>6. queue' \in Seq(Messages) /\ Len(queue') = n
  BY <1>3, <1>4, <1>5
<1>7. \A i \in 1..n : queue'[i] = queue[f[i]]
  BY <1>4
<1>8. \A i, j \in 1..n : f[i] = f[j] => i = j
  BY <1>2, <1>3, <1>4
<1>9. \A k \in Kept(D) : \E i \in 1..n : f[i] = k
  <2>1. f \in Injection(1..n, Kept(D))
    BY <1>8 DEF Injection, IsInjective
  <2>2. Cardinality(1..n) = Cardinality(Kept(D))
    BY <1>3, FS_Interval DEF n
  <2>3. f \in Surjection(1..n, Kept(D))
    BY <1>3, <2>1, <2>2, FS_Injection
  <2> QED
    BY <2>3 DEF Surjection
<1>10. \A i, j \in 1..n : i < j => f[i] < f[j]
  BY <1>4
<1>11. /\ f \in [1..Len(queue') -> Kept(D)]
       /\ \A i, j \in 1..Len(queue') : i < j => f[i] < f[j]
       /\ \A i \in 1..Len(queue') : queue'[i] = queue[f[i]]
       /\ \A i, j \in 1..Len(queue') : f[i] = f[j] => i = j
       /\ \A k \in Kept(D) : \E i \in 1..Len(queue') : f[i] = k
  BY <1>6, <1>7, <1>8, <1>9, <1>10
<1> QED
  BY <1>6, <1>11, Zenon

-----------------------------------------------------------------------------
(* Type correctness. *)

\* The three ways the loop of waitForMessageFilteredWithTimeout ends, and the
\* one in which it goes on.
LEMMA EvaluateType ==
    ASSUME TypeOK, NEW c \in Consumers, NEW F, NEW t, NEW out, Evaluate(c, F, t, out)
    PROVE  /\ queue' \in Seq(Messages)
           /\ phase' \in [Consumers -> {"idle", "blocked", "woken"}]
           /\ result' \in [Consumers -> Results]
           /\ received' \in [Consumers -> SUBSET Messages]
<1>1. CASE ~killed /\ ~out /\ \E i \in Matches(F) : TakeAt(c, i) /\ phase' = [phase EXCEPT ![c] = "idle"]
  <2>1. PICK i \in Matches(F) : TakeAt(c, i) /\ phase' = [phase EXCEPT ![c] = "idle"]
    BY <1>1
  <2>2. i \in 1..Len(queue) /\ queue[i] \in Messages
    BY DEF Matches, TypeOK
  <2>3. queue' \in Seq(Messages)
    BY <2>1, <2>2, WithoutLemma DEF TypeOK, TakeAt
  <2> QED
    BY <2>1, <2>2, <2>3 DEF TypeOK, TakeAt, Results
<1>2. CASE queue' = queue /\ received' = received
  BY <1>2 DEF Evaluate, Return, TakeAt, TypeOK, Results
<1> QED
  BY <1>1, <1>2 DEF Evaluate, Return

LEMMA TypeStep == TypeOK /\ [Next]_vars => TypeOK'
<1> SUFFICES ASSUME TypeOK, [Next]_vars
             PROVE  TypeOK'
  OBVIOUS
<1>1. ASSUME NEW m \in Messages, Append_(m)
      PROVE  TypeOK'
  BY <1>1 DEF TypeOK, Append_, Signal, Blocked
<1>2. ASSUME NEW m \in Messages, Prepend(m)
      PROVE  TypeOK'
  BY <1>2 DEF TypeOK, Prepend, Signal, Blocked
<1>3. ASSUME Kill
      PROVE  TypeOK'
  BY <1>3 DEF TypeOK, Kill, Broadcast
<1>4. ASSUME RemoveIf(Doomed)
      PROVE  TypeOK'
  <2>1. queue' \in Seq(Messages)
    BY <1>4, RemoveIfLemma DEF TypeOK
  <2>2. discarded' \subseteq Messages
    BY <1>4, DoomedAssumption DEF TypeOK, RemoveIf
  <2> QED
    BY <1>4, <2>1, <2>2 DEF TypeOK, RemoveIf, waitVars
<1>5. ASSUME NEW c \in Consumers, NEW F \in Predicates, NEW t \in BOOLEAN, WaitForMessage(c, F, t)
      PROVE  TypeOK'
  <2>1. Evaluate(c, F, t, FALSE)
    BY <1>5 DEF WaitForMessage
  <2> QED
    BY <1>5, <2>1, EvaluateType, PredicatesAssumption DEF TypeOK, WaitForMessage
<1>6. ASSUME NEW c \in Consumers, Reacquire(c)
      PROVE  TypeOK'
  <2>1. Evaluate(c, filter[c], timed[c], timedOut[c])
    BY <1>6 DEF Reacquire
  <2> QED
    BY <1>6, <2>1, EvaluateType DEF TypeOK, Reacquire
<1>7. ASSUME NEW c \in Consumers, TryGetMessage(c)
      PROVE  TypeOK'
  <2>1. 1 \in 1..Len(queue) /\ queue[1] \in Messages
    BY <1>7 DEF TypeOK, TryGetMessage
  <2>2. queue' \in Seq(Messages)
    BY <1>7, <2>1, WithoutLemma DEF TypeOK, TryGetMessage, TakeAt
  <2> QED
    BY <1>7, <2>1, <2>2 DEF TypeOK, TryGetMessage, TakeAt, waitVars, Results
<1>8. ASSUME NEW c \in Consumers, SpuriousWakeup(c) \/ DeadlinePasses(c)
      PROVE  TypeOK'
  BY <1>8 DEF TypeOK, SpuriousWakeup, DeadlinePasses
<1>9. CASE UNCHANGED vars
  BY <1>9 DEF TypeOK, vars, waitVars
<1> QED
  BY <1>1, <1>2, <1>3, <1>4, <1>5, <1>6, <1>7, <1>8, <1>9 DEF Next

\* The queue's state and every consumer's call keep their types.
THEOREM TypeCorrect == Spec => []TypeOK
<1>1. Init => TypeOK
  <2>1. Init => queue \in Seq(Messages) /\ posted \subseteq Messages /\ discarded \subseteq Messages
    BY DEF Init
  <2>2. Init => filter \in [Consumers -> SUBSET Messages] /\ received \in [Consumers -> SUBSET Messages]
    BY Zenon DEF Init
  <2>3. Init => /\ phase \in [Consumers -> {"idle", "blocked", "woken"}]
                /\ result \in [Consumers -> Results]
                /\ killed \in BOOLEAN
                /\ timed \in [Consumers -> BOOLEAN]
                /\ timedOut \in [Consumers -> BOOLEAN]
    BY DEF Init, Results
  <2> QED
    BY <2>1, <2>2, <2>3, Zenon DEF TypeOK
<1> QED
  BY <1>1, TypeStep, PTL DEF Spec

-----------------------------------------------------------------------------
(* Wakeups. *)

\* One thread waits on the queue: the worker thread on its run loop, the
\* database thread and the local storage thread on their task queues.
SingleConsumer == \A c, d \in Consumers : c = d

\* The inductive form of NoLostWakeup for one consumer: whoever is blocked has
\* nothing to be woken for.
BlockedForAReason ==
    \A c \in Consumers : phase[c] = "blocked" => ~killed /\ Matches(filter[c]) = {}

LEMMA BlockedStep ==
    ASSUME SingleConsumer
    PROVE  TypeOK /\ BlockedForAReason /\ [Next]_vars => BlockedForAReason'
<1> SUFFICES ASSUME TypeOK, BlockedForAReason, [Next]_vars,
                    NEW d \in Consumers, phase'[d] = "blocked"
             PROVE  ~killed' /\ Matches(filter[d])' = {}
  BY DEF BlockedForAReason
<1>1. ASSUME NEW m \in Messages, Append_(m) \/ Prepend(m)
      PROVE  FALSE
  <2>1. Signal
    BY <1>1 DEF Append_, Prepend
  <2> QED
    BY <2>1, SingleConsumer DEF Signal, Blocked, SingleConsumer, TypeOK
<1>2. ASSUME Kill
      PROVE  FALSE
  BY <1>2 DEF Kill, Broadcast, TypeOK
<1>3. ASSUME RemoveIf(Doomed)
      PROVE  ~killed' /\ Matches(filter[d])' = {}
  <2>1. ~killed /\ Matches(filter[d]) = {} /\ filter' = filter /\ killed' = killed
    BY <1>3 DEF RemoveIf, waitVars, BlockedForAReason
  <2>2. PICK f \in [1..Len(queue') -> Kept(Doomed)] : \A i \in 1..Len(queue') : queue'[i] = queue[f[i]]
    BY <1>3, RemoveIfLemma DEF TypeOK
  <2>3. ASSUME NEW i \in 1..Len(queue') PROVE queue'[i] \notin filter[d]
    <3>1. f[i] \in 1..Len(queue)
      BY DEF Kept
    <3> QED
      BY <2>1, <2>2, <3>1 DEF Matches
  <2> QED
    BY <2>1, <2>3 DEF Matches
<1>4. ASSUME NEW c \in Consumers, NEW F, NEW t, NEW out, Evaluate(c, F, t, out),
             filter'[c] = F, killed' = killed
      PROVE  ~killed' /\ Matches(filter[d])' = {}
  <2>1. d = c
    BY SingleConsumer DEF SingleConsumer
  <2>2. ~killed /\ Matches(F) = {} /\ queue' = queue
    BY <1>4, <2>1 DEF Evaluate, TypeOK
  <2> QED
    BY <1>4, <2>1, <2>2 DEF Matches
<1>5. ASSUME NEW c \in Consumers, NEW F \in Predicates, NEW t \in BOOLEAN, WaitForMessage(c, F, t)
      PROVE  ~killed' /\ Matches(filter[d])' = {}
  <2>1. Evaluate(c, F, t, FALSE) /\ filter'[c] = F /\ killed' = killed
    BY <1>5 DEF WaitForMessage, TypeOK
  <2> QED
    BY <2>1, <1>4
<1>6. ASSUME NEW c \in Consumers, Reacquire(c)
      PROVE  ~killed' /\ Matches(filter[d])' = {}
  <2>1. Evaluate(c, filter[c], timed[c], timedOut[c]) /\ filter'[c] = filter[c] /\ killed' = killed
    BY <1>6 DEF Reacquire
  <2> QED
    BY <2>1, <1>4
<1>7. ASSUME NEW c \in Consumers, TryGetMessage(c)
      PROVE  FALSE
  BY <1>7, SingleConsumer DEF TryGetMessage, waitVars, SingleConsumer, TypeOK
<1>8. ASSUME NEW c \in Consumers, SpuriousWakeup(c) \/ DeadlinePasses(c)
      PROVE  FALSE
  BY <1>8, SingleConsumer DEF SpuriousWakeup, DeadlinePasses, SingleConsumer, TypeOK
<1>9. CASE UNCHANGED vars
  BY <1>9 DEF vars, waitVars, BlockedForAReason, Matches
<1> QED
  BY <1>1, <1>2, <1>3, <1>5, <1>6, <1>7, <1>8, <1>9 DEF Next

\* A thread that is the only one to wait on its queue is never blocked while the
\* queue holds a message its filter accepts, or after the queue was killed.
THEOREM WakeupsAreNotLost ==
    ASSUME SingleConsumer
    PROVE  Spec => []NoLostWakeup
<1>1. Init => BlockedForAReason
  BY DEF Init, BlockedForAReason
<1>2. BlockedForAReason => NoLostWakeup
  BY DEF BlockedForAReason, NoLostWakeup, Blocked
<1>3. TypeOK /\ BlockedForAReason /\ [Next]_vars => BlockedForAReason'
  BY SingleConsumer, BlockedStep
<1> QED
  BY <1>1, <1>2, <1>3, TypeCorrect, PTL DEF Spec

-----------------------------------------------------------------------------
(* Ownership of messages. *)

\* Handing the message at position i to c moves it from the queue to c.
LEMMA TakeOwnership ==
    ASSUME TypeOK, ExactlyOnce, NEW c \in Consumers, NEW i \in 1..Len(queue),
           TakeAt(c, i), posted' = posted, discarded' = discarded
    PROVE  ExactlyOnce'
<1> DEFINE m == queue[i]
<1>1. m \in InQueue /\ m \notin Taken /\ m \notin discarded
  BY DEF ExactlyOnce, InQueue
<1>2. queue \in Seq(Messages) /\ queue' = Without(i) /\ Len(queue) \in Nat
  BY DEF TakeAt, TypeOK
<1>3. InQueue' = InQueue \ {m}
  <2>1. ASSUME NEW k \in 1..Len(queue') PROVE queue'[k] \in InQueue /\ queue'[k] # m
    <3>1. PICK j \in 1..Len(queue) : j # i /\ queue'[k] = queue[j]
      BY <1>2, WithoutElements
    <3> QED
      BY <3>1 DEF InQueue, ExactlyOnce
  <2>2. ASSUME NEW x \in InQueue, x # m PROVE x \in InQueue'
    <3>1. PICK j \in 1..Len(queue) : x = queue[j] /\ j # i
      BY <2>2 DEF InQueue
    <3>2. \E k \in 1..Len(queue') : queue'[k] = queue[j]
      BY <1>2, <3>1, WithoutElements
    <3> QED
      BY <3>1, <3>2 DEF InQueue
  <2> QED
    BY <2>1, <2>2 DEF InQueue
<1>4. received'[c] = received[c] \cup {m} /\ \A d \in Consumers : d # c => received'[d] = received[d]
  BY DEF TakeAt, TypeOK
<1>5. Taken' = Taken \cup {m}
  BY <1>4, Zenon DEF Taken
<1>6. \A a, b \in Consumers : a # b => received'[a] \cap received'[b] = {}
  <2>1. \A a \in Consumers : m \notin received[a]
    BY <1>1 DEF Taken
  <2> QED
    BY <1>4, <2>1 DEF ExactlyOnce
<1>7. \A j, k \in 1..Len(queue') : queue'[j] = queue'[k] => j = k
  <2> SUFFICES ASSUME NEW j \in 1..Len(queue'), NEW k \in 1..Len(queue'), queue'[j] = queue'[k]
               PROVE  j = k
    OBVIOUS
  <2>1. Len(queue') = Len(queue) - 1
    BY <1>2, WithoutLemma
  <2>2. /\ queue'[j] = IF j < i THEN queue[j] ELSE queue[j + 1]
        /\ queue'[k] = IF k < i THEN queue[k] ELSE queue[k + 1]
    BY <1>2, <2>1, WithoutLemma
  <2>3. /\ j \in 1..Len(queue) /\ j + 1 \in 1..Len(queue)
        /\ k \in 1..Len(queue) /\ k + 1 \in 1..Len(queue)
    BY <1>2, <2>1
  <2>4. \A a, b \in 1..Len(queue) : queue[a] = queue[b] => a = b
    BY DEF ExactlyOnce
  <2>5. CASE j < i /\ k < i
    BY <2>2, <2>3, <2>4, <2>5
  <2>6. CASE j < i /\ ~(k < i)
    <3>1. j = k + 1
      BY <2>2, <2>3, <2>4, <2>6
    <3> QED
      BY <1>2, <2>3, <2>6, <3>1
  <2>7. CASE ~(j < i) /\ k < i
    <3>1. j + 1 = k
      BY <2>2, <2>3, <2>4, <2>7
    <3> QED
      BY <1>2, <2>3, <2>7, <3>1
  <2>8. CASE ~(j < i) /\ ~(k < i)
    <3>1. j + 1 = k + 1
      BY <2>2, <2>3, <2>4, <2>8
    <3> QED
      BY <1>2, <2>1, <3>1
  <2> QED
    BY <2>5, <2>6, <2>7, <2>8
<1> QED
  BY <1>1, <1>3, <1>5, <1>6, <1>7 DEF ExactlyOnce

LEMMA EvaluateOwnership ==
    ASSUME TypeOK, ExactlyOnce, NEW c \in Consumers, NEW F, NEW t, NEW out,
           Evaluate(c, F, t, out), posted' = posted, discarded' = discarded
    PROVE  ExactlyOnce'
<1>1. CASE \E i \in Matches(F) : TakeAt(c, i)
  BY <1>1, TakeOwnership DEF Matches
<1>2. CASE queue' = queue /\ received' = received
  <2>1. InQueue' = InQueue
    BY <1>2, Zenon DEF InQueue
  <2>2. Taken' = Taken
    BY <1>2, Zenon DEF Taken
  <2> QED
    BY <1>2, <2>1, <2>2, Zenon DEF ExactlyOnce
<1> QED
  BY <1>1, <1>2 DEF Evaluate, Return

LEMMA ExactlyOnceStep == TypeOK /\ ExactlyOnce /\ [Next]_vars => ExactlyOnce'
<1> SUFFICES ASSUME TypeOK, ExactlyOnce, [Next]_vars
             PROVE  ExactlyOnce'
  OBVIOUS
<1>0. queue \in Seq(Messages) /\ Len(queue) \in Nat
  BY DEF TypeOK
<1>1. ASSUME NEW m \in Messages, Append_(m)
      PROVE  ExactlyOnce'
  <2>1. m \notin InQueue /\ m \notin Taken /\ m \notin discarded
    BY <1>1 DEF Append_, ExactlyOnce
  <2>2. /\ Len(queue') = Len(queue) + 1
        /\ queue'[Len(queue) + 1] = m
        /\ \A i \in 1..Len(queue) : queue'[i] = queue[i]
    BY <1>0, <1>1 DEF Append_
  <2>3. InQueue' = InQueue \cup {m}
    BY <1>0, <2>2 DEF InQueue
  <2>4. Taken' = Taken
    BY <1>1 DEF Append_, Taken
  <2>5. \A i, j \in 1..Len(queue') : queue'[i] = queue'[j] => i = j
    BY <1>0, <2>1, <2>2 DEF InQueue, ExactlyOnce
  <2> QED
    BY <1>1, <2>1, <2>3, <2>4, <2>5 DEF ExactlyOnce, Append_
<1>2. ASSUME NEW m \in Messages, Prepend(m)
      PROVE  ExactlyOnce'
  <2>1. m \notin InQueue /\ m \notin Taken /\ m \notin discarded
    BY <1>2 DEF Prepend, ExactlyOnce
  <2>2. /\ Len(queue') = Len(queue) + 1
        /\ queue'[1] = m
        /\ \A i \in 2..Len(queue') : queue'[i] = queue[i - 1]
    BY <1>0, <1>2 DEF Prepend
  <2>3. InQueue' = InQueue \cup {m}
    <3>1. ASSUME NEW i \in 1..Len(queue) PROVE queue[i] \in InQueue'
      <4>1. i + 1 \in 2..Len(queue') /\ (i + 1) - 1 = i
        BY <1>0, <2>2
      <4>2. queue'[i + 1] = queue[i]
        BY <2>2, <4>1
      <4> QED
        BY <4>1, <4>2 DEF InQueue
    <3>2. ASSUME NEW i \in 1..Len(queue') PROVE queue'[i] \in InQueue \cup {m}
      BY <1>0, <2>2 DEF InQueue
    <3>3. m \in InQueue'
      BY <1>0, <2>2 DEF InQueue
    <3> QED
      BY <3>1, <3>2, <3>3 DEF InQueue
  <2>4. Taken' = Taken
    BY <1>2 DEF Prepend, Taken
  <2>5. \A i, j \in 1..Len(queue') : queue'[i] = queue'[j] => i = j
    <3>1. \A i \in 2..Len(queue') : i - 1 \in 1..Len(queue)
      BY <1>0, <2>2
    <3>2. \A i \in 2..Len(queue') : queue'[i] # m
      BY <2>1, <2>2, <3>1 DEF InQueue
    <3>3. \A i, j \in 2..Len(queue') : queue'[i] = queue'[j] => i = j
      BY <2>2, <3>1 DEF ExactlyOnce
    <3>4. \A i \in 1..Len(queue') : i = 1 \/ i \in 2..Len(queue')
      BY <1>0, <2>2
    <3> QED
      BY <2>2, <3>2, <3>3, <3>4
  <2> QED
    BY <1>2, <2>1, <2>3, <2>4, <2>5 DEF ExactlyOnce, Prepend
<1>3. ASSUME RemoveIf(Doomed)
      PROVE  ExactlyOnce'
  <2>1. PICK f \in [1..Len(queue') -> Kept(Doomed)] :
           /\ \A i, j \in 1..Len(queue') : i < j => f[i] < f[j]
           /\ \A i \in 1..Len(queue') : queue'[i] = queue[f[i]]
           /\ \A i, j \in 1..Len(queue') : f[i] = f[j] => i = j
           /\ \A k \in Kept(Doomed) : \E i \in 1..Len(queue') : f[i] = k
    BY <1>0, <1>3, RemoveIfLemma
  <2>5. InQueue' = InQueue \ Doomed
    <3>1. ASSUME NEW i \in 1..Len(queue') PROVE queue'[i] \in InQueue \ Doomed
      <4>1. f[i] \in 1..Len(queue) /\ queue[f[i]] \notin Doomed
        BY DEF Kept
      <4> QED
        BY <2>1, <4>1 DEF InQueue
    <3>2. ASSUME NEW x \in InQueue \ Doomed PROVE x \in InQueue'
      <4>1. PICK k \in 1..Len(queue) : x = queue[k]
        BY DEF InQueue
      <4>2. k \in Kept(Doomed)
        BY <4>1 DEF Kept
      <4>3. PICK i \in 1..Len(queue') : f[i] = k
        BY <2>1, <4>2
      <4> QED
        BY <2>1, <4>1, <4>3 DEF InQueue
    <3> QED
      BY <3>1, <3>2 DEF InQueue
  <2>6. discarded' = discarded \cup (InQueue \cap Doomed)
    BY <1>3 DEF RemoveIf, InQueue
  <2>7. \A i, j \in 1..Len(queue') : queue'[i] = queue'[j] => i = j
    BY <2>1 DEF Kept, ExactlyOnce
  <2>8. Taken' = Taken /\ posted' = posted /\ received' = received
    BY <1>3 DEF RemoveIf, Taken
  <2> QED
    BY <2>5, <2>6, <2>7, <2>8 DEF ExactlyOnce
<1>4. ASSUME NEW c \in Consumers, NEW F \in Predicates, NEW t \in BOOLEAN, WaitForMessage(c, F, t)
      PROVE  ExactlyOnce'
  BY <1>4, EvaluateOwnership DEF WaitForMessage
<1>5. ASSUME NEW c \in Consumers, Reacquire(c)
      PROVE  ExactlyOnce'
  BY <1>5, EvaluateOwnership DEF Reacquire
<1>6. ASSUME NEW c \in Consumers, TryGetMessage(c)
      PROVE  ExactlyOnce'
  <2>1. 1 \in 1..Len(queue)
    BY <1>0, <1>6 DEF TryGetMessage
  <2> QED
    BY <1>6, <2>1, TakeOwnership DEF TryGetMessage
<1>7. CASE UNCHANGED <<queue, posted, received, discarded>>
  BY <1>7 DEF ExactlyOnce, InQueue, Taken
<1> QED
  BY <1>1, <1>2, <1>3, <1>4, <1>5, <1>6, <1>7
     DEF Next, Kill, SpuriousWakeup, DeadlinePasses, vars

\* No message is lost, delivered twice, or deleted after it was delivered.
THEOREM OwnershipIsExclusive == Spec => []ExactlyOnce
<1>1. Init => ExactlyOnce
  BY DEF Init, ExactlyOnce, InQueue, Taken
<1> QED
  BY <1>1, ExactlyOnceStep, TypeCorrect, PTL DEF Spec

-----------------------------------------------------------------------------
(* Termination and timeouts. *)

\* Once the queue is killed no message leaves it any more.
THEOREM KillStopsDelivery == Spec => NothingAfterKill
<1>1. [Next]_vars => [killed => received' = received]_vars
  BY DEF Next, vars, waitVars, Append_, Prepend, Kill, RemoveIf, WaitForMessage, Reacquire,
         Evaluate, Return, TryGetMessage, SpuriousWakeup, DeadlinePasses
<1> QED
  BY <1>1, PTL DEF Spec, NothingAfterKill

\* The inductive form of InfiniteWaitNeverTimesOut: timedOut belongs to one wait.
TimedOutOnlyIfTimed == \A c \in Consumers : phase[c] # "idle" /\ timedOut[c] => timed[c]

LEMMA TimedOutInvariant == Spec => []TimedOutOnlyIfTimed
<1>1. Init => TimedOutOnlyIfTimed
  BY DEF Init, TimedOutOnlyIfTimed
<1>2. TypeOK /\ TimedOutOnlyIfTimed /\ [Next]_vars => TimedOutOnlyIfTimed'
  <2> SUFFICES ASSUME TypeOK, TimedOutOnlyIfTimed, [Next]_vars
               PROVE  TimedOutOnlyIfTimed'
    OBVIOUS
  <2>1. CASE \E c \in Consumers, F \in Predicates, t \in BOOLEAN : WaitForMessage(c, F, t)
    BY <2>1 DEF WaitForMessage, Evaluate, TypeOK, TimedOutOnlyIfTimed
  <2>2. CASE \E c \in Consumers : Reacquire(c)
    BY <2>2 DEF Reacquire, Evaluate, TypeOK, TimedOutOnlyIfTimed
  <2>3. CASE (\E m \in Messages : Append_(m) \/ Prepend(m)) \/ Kill
    BY <2>3 DEF Append_, Prepend, Kill, Signal, Broadcast, Blocked, TypeOK, TimedOutOnlyIfTimed
  <2>4. CASE \E c \in Consumers : SpuriousWakeup(c) \/ DeadlinePasses(c)
    BY <2>4 DEF SpuriousWakeup, DeadlinePasses, TypeOK, TimedOutOnlyIfTimed
  <2>5. CASE UNCHANGED <<phase, timed, timedOut>>
    BY <2>5 DEF TimedOutOnlyIfTimed
  <2> QED
    BY <2>1, <2>2, <2>3, <2>4, <2>5 DEF Next, RemoveIf, TryGetMessage, waitVars, vars
<1> QED
  BY <1>1, <1>2, TypeCorrect, PTL DEF Spec

\* waitForMessage, which waits without a deadline, never sees Timeout.
THEOREM NoTimeoutWithoutDeadline == Spec => []InfiniteWaitNeverTimesOut
<1>1. TimedOutOnlyIfTimed => InfiniteWaitNeverTimesOut
  BY DEF TimedOutOnlyIfTimed, InfiniteWaitNeverTimesOut
<1> QED
  BY <1>1, TimedOutInvariant, PTL

-----------------------------------------------------------------------------
(* The queue implements the mailbox, as far as safety goes. *)

\* Taking out position i is cutting the queue there.
LEMMA WithoutIsCut ==
    ASSUME queue \in Seq(Messages), NEW i \in 1..Len(queue)
    PROVE  Without(i) = SubSeq(queue, 1, i - 1) \o SubSeq(queue, i + 1, Len(queue))
<1> DEFINE head == SubSeq(queue, 1, i - 1)
           tail == SubSeq(queue, i + 1, Len(queue))
           cut == head \o tail
<1>1. Len(queue) \in Nat /\ i \in Nat /\ i - 1 \in Nat /\ i <= Len(queue)
  OBVIOUS
<1>a. /\ head \in Seq(Messages) /\ Len(head) = i - 1
      /\ \A j \in 1..(i - 1) : head[j] = queue[j]
  <2>1. \A j \in 1..(i - 1) : queue[j] \in Messages
    BY <1>1
  <2>2. /\ head \in Seq(Messages)
        /\ Len(head) = IF 1 <= i - 1 THEN (i - 1) - 1 + 1 ELSE 0
        /\ \A j \in 1..((i - 1) - 1 + 1) : head[j] = queue[1 + j - 1]
    BY <1>1, <2>1, SubSeqProperties
  <2> HIDE DEF head
  <2> QED
    BY <1>1, <2>2
<1>b. /\ tail \in Seq(Messages) /\ Len(tail) = Len(queue) - i
      /\ \A j \in 1..(Len(queue) - i) : tail[j] = queue[i + j]
  <2>1. \A j \in (i + 1)..Len(queue) : queue[j] \in Messages
    BY <1>1
  <2>2. /\ tail \in Seq(Messages)
        /\ Len(tail) = IF i + 1 <= Len(queue) THEN Len(queue) - (i + 1) + 1 ELSE 0
        /\ \A j \in 1..(Len(queue) - (i + 1) + 1) : tail[j] = queue[(i + 1) + j - 1]
    BY <1>1, <2>1, SubSeqProperties
  <2> HIDE DEF tail
  <2> QED
    BY <1>1, <2>2
<1> HIDE DEF head, tail
<1>c. /\ cut \in Seq(Messages) /\ Len(cut) = Len(head) + Len(tail)
      /\ \A j \in 1..(Len(head) + Len(tail)) :
            cut[j] = IF j <= Len(head) THEN head[j] ELSE tail[j - Len(head)]
  BY <1>a, <1>b, ConcatProperties
<1>2. cut \in Seq(Messages) /\ Len(cut) = Len(queue) - 1
  BY <1>1, <1>a, <1>b, <1>c
<1>3. \A j \in 1..(Len(queue) - 1) : cut[j] = IF j < i THEN queue[j] ELSE queue[j + 1]
  <2> SUFFICES ASSUME NEW j \in 1..(Len(queue) - 1)
               PROVE  cut[j] = IF j < i THEN queue[j] ELSE queue[j + 1]
    OBVIOUS
  <2>1. cut[j] = IF j <= i - 1 THEN head[j] ELSE tail[j - (i - 1)]
    BY <1>1, <1>a, <1>b, <1>c
  <2>2. CASE j < i
    BY <1>1, <1>a, <2>1, <2>2
  <2>3. CASE ~(j < i)
    <3>1. j - (i - 1) \in 1..(Len(queue) - i) /\ i + (j - (i - 1)) = j + 1
      BY <1>1, <2>3
    <3>2. tail[j - (i - 1)] = queue[j + 1]
      BY <1>b, <3>1
    <3> QED
      BY <1>1, <2>1, <2>3, <3>2
  <2> QED
    BY <2>2, <2>3
<1>4. Without(i) \in Seq(Messages) /\ Len(Without(i)) = Len(queue) - 1
  BY WithoutLemma
<1>5. \A j \in 1..(Len(queue) - 1) : cut[j] = Without(i)[j]
  BY <1>3, WithoutLemma
<1> HIDE DEF cut
<1>6. cut = Without(i)
  BY <1>2, <1>4, <1>5, SeqEqual
<1> QED
  BY <1>6 DEF cut, head, tail

\* What the consumer is given is the mailbox's delivery.
LEMMA TakeDelivers ==
    ASSUME TypeOK, NEW c \in Consumers, NEW F, ~killed,
           NEW i \in Matches(F), \A j \in Matches(F) : i <= j, TakeAt(c, i)
    PROVE  Promise!Deliver(c, F)
<1>1. queue \in Seq(Messages) /\ i \in 1..Len(queue) /\ queue[i] \in F /\ Len(queue) \in Nat
  BY DEF TypeOK, Matches
<1>2. \A j \in 1..(i - 1) : queue[j] \notin F
  <2> SUFFICES ASSUME NEW j \in 1..(i - 1), queue[j] \in F
               PROVE  FALSE
    OBVIOUS
  <2>1. j \in 1..Len(queue) /\ ~(i <= j)
    BY <1>1
  <2> QED
    BY <2>1 DEF Matches
<1>3. queue' = SubSeq(queue, 1, i - 1) \o SubSeq(queue, i + 1, Len(queue))
  BY <1>1, WithoutIsCut DEF TakeAt
<1> QED
  BY <1>1, <1>2, <1>3 DEF TakeAt, Promise!Deliver

\* The state of the mailbox: the queue without the wait set of its condition.
Answering == [c \in Consumers |-> phase[c] # "idle"]

LEMMA RefinementStep == TypeOK /\ TimedOutOnlyIfTimed /\ [Next]_vars => [Promise!Next]_(Promise!vars)
<1> SUFFICES ASSUME TypeOK, TimedOutOnlyIfTimed, [Next]_vars
             PROVE  Promise!Next \/ UNCHANGED Promise!vars
  OBVIOUS
<1>1. ASSUME NEW m \in Messages, Append_(m) \/ Prepend(m)
      PROVE  Promise!Next
  <2>1. Answering' = Answering
    BY <1>1 DEF Append_, Prepend, Signal, Blocked, Answering, TypeOK
  <2>2. Promise!Post(m)
    BY <1>1, <2>1 DEF Append_, Prepend, Promise!Post, Answering
  <2> QED
    BY <2>2 DEF Promise!Next
<1>2. ASSUME Kill
      PROVE  Promise!Next
  <2>1. Answering' = Answering
    BY <1>2 DEF Kill, Broadcast, Answering, TypeOK
  <2> QED
    BY <1>2, <2>1 DEF Kill, Promise!Kill, Promise!Next, Answering
<1>3. ASSUME RemoveIf(Doomed)
      PROVE  Promise!Next
  <2>1. PICK f \in [1..Len(queue') -> Kept(Doomed)] :
           /\ \A i, j \in 1..Len(queue') : i < j => f[i] < f[j]
           /\ \A i \in 1..Len(queue') : queue'[i] = queue[f[i]]
           /\ \A k \in Kept(Doomed) : \E i \in 1..Len(queue') : f[i] = k
    BY <1>3, RemoveIfLemma DEF TypeOK
  <2>2. f \in [1..Len(queue') -> 1..Len(queue)]
    BY DEF Kept
  <2>3. \A k \in 1..Len(queue) : queue[k] \notin Doomed <=> \E i \in 1..Len(queue') : f[i] = k
    <3>1. \A i \in 1..Len(queue') : f[i] \in Kept(Doomed)
      OBVIOUS
    <3> QED
      BY <2>1, <3>1 DEF Kept
  <2>4. discarded' = discarded \cup ({queue[i] : i \in 1..Len(queue)} \cap Doomed)
    BY <1>3 DEF RemoveIf
  <2>5. Promise!Discard(Doomed)
    BY <1>3, <2>1, <2>2, <2>3, <2>4 DEF RemoveIf, waitVars, Promise!Discard
  <2> QED
    BY <2>5 DEF Promise!Next
<1>4. ASSUME NEW c \in Consumers, NEW F \in Predicates, NEW t \in BOOLEAN, WaitForMessage(c, F, t)
      PROVE  Promise!Next
  <2> USE <1>4 DEF WaitForMessage, TypeOK
  <2>1. ~Answering[c]
    BY DEF Answering
  <2>2. CASE phase' = [phase EXCEPT ![c] = "idle"] /\ (Promise!Deliver(c, F) \/ Promise!Terminated(c) \/ Promise!Timeout(c, t))
    <3>1. Answering' = Answering
      BY <2>2 DEF Answering
    <3>2. Promise!Poll(c, F, t)
      BY <2>1, <2>2, <3>1 DEF Promise!Poll, Answering
    <3> QED
      BY <3>2 DEF Promise!Next
  <2>3. CASE ~killed /\ Matches(F) = {} /\ UNCHANGED <<queue, received, result>> /\ phase' = [phase EXCEPT ![c] = "blocked"]
    <3>1. Answering' = [Answering EXCEPT ![c] = TRUE]
      BY <2>3 DEF Answering
    <3>2. Promise!Wait(c, F, t)
      BY <2>1, <2>3, <3>1 DEF Promise!Wait, Answering, Matches
    <3> QED
      BY <3>2 DEF Promise!Next
  <2>4. \A i \in Matches(F) : ~killed /\ (\A j \in Matches(F) : i <= j) /\ TakeAt(c, i) => Promise!Deliver(c, F)
    BY TakeDelivers
  <2> QED
    BY <2>2, <2>3, <2>4 DEF Evaluate, Return, Promise!Terminated, Promise!Timeout
<1>5. ASSUME NEW c \in Consumers, Reacquire(c)
      PROVE  Promise!Next \/ UNCHANGED Promise!vars
  <2> USE <1>5 DEF Reacquire, TypeOK
  <2> DEFINE F == filter[c]
  <2>1. Answering[c]
    BY DEF Answering
  <2>2. CASE phase' = [phase EXCEPT ![c] = "idle"] /\ (Promise!Deliver(c, F) \/ Promise!Terminated(c) \/ Promise!Timeout(c, timed[c]))
    <3>1. Answering' = [Answering EXCEPT ![c] = FALSE]
      BY <2>2 DEF Answering
    <3>2. Promise!Answer(c) \/ Promise!Expire(c)
      BY <2>1, <2>2, <3>1 DEF Promise!Answer, Promise!Expire, Promise!Finish, Answering
    <3> QED
      BY <3>2 DEF Promise!Next
  <2>3. CASE UNCHANGED <<queue, received, result>> /\ phase' = [phase EXCEPT ![c] = "blocked"]
    <3>1. Answering' = Answering
      BY <2>3 DEF Answering
    <3> QED
      BY <2>3, <3>1 DEF Promise!vars, Answering
  <2>4. \A i \in Matches(F) : ~killed /\ (\A j \in Matches(F) : i <= j) /\ TakeAt(c, i) => Promise!Deliver(c, F)
    BY TakeDelivers
  <2>5. timedOut[c] => timed[c]
    BY DEF TimedOutOnlyIfTimed
  <2> QED
    BY <2>2, <2>3, <2>4, <2>5 DEF Evaluate, Return, Promise!Terminated, Promise!Timeout
<1>6. ASSUME NEW c \in Consumers, TryGetMessage(c)
      PROVE  Promise!Next
  <2>1. Matches(Messages) = 1..Len(queue) /\ 1 \in Matches(Messages) /\ \A j \in Matches(Messages) : 1 <= j
    BY <1>6 DEF TryGetMessage, Matches, TypeOK
  <2>2. Promise!Deliver(c, Messages)
    BY <1>6, <2>1, TakeDelivers DEF TryGetMessage
  <2>3. Promise!TryGet(c)
    BY <1>6, <2>2 DEF TryGetMessage, waitVars, Promise!TryGet, TypeOK
  <2> QED
    BY <2>3 DEF Promise!Next
<1>7. ASSUME NEW c \in Consumers, SpuriousWakeup(c) \/ DeadlinePasses(c)
      PROVE  UNCHANGED Promise!vars
  <2>1. Answering' = Answering
    BY <1>7 DEF SpuriousWakeup, DeadlinePasses, Answering, TypeOK
  <2> QED
    BY <1>7, <2>1 DEF SpuriousWakeup, DeadlinePasses, Promise!vars, Answering
<1>8. CASE UNCHANGED vars
  BY <1>8 DEF vars, waitVars, Promise!vars
<1> QED
  BY <1>1, <1>2, <1>3, <1>4, <1>5, <1>6, <1>7, <1>8 DEF Next

\* Every behaviour of the queue is one of the mailbox: the wait set, the signals
\* and the spurious wakeups of m_condition never show in what a consumer gets.
THEOREM QueueIsAMailbox == Spec => MailboxSafety
<1>1. Init => Promise!Init
  BY DEF Init, Promise!Init
<1> QED
  BY <1>1, RefinementStep, TypeCorrect, TimedOutInvariant, PTL DEF Spec, MailboxSafety

=============================================================================
