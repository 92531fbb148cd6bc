---------------------------- MODULE WorkerProofs ----------------------------
(***************************************************************************)
(* Proofs about Worker: its types, the accounting of confirmations, that   *)
(* the proxy outlives every use of it, that its late picture of the worker *)
(* errs on the safe side, that messages are handled in order, and that the *)
(* page and the worker keep the session of WorkerSession.                  *)
(***************************************************************************)
EXTENDS Worker, QueueFacts, FiniteSetTheorems, TLAPS

Positions == {"none", "created", "failed", "begin", "evaluated", "loop", "ended"} \cup Scripts

\* TypeOK without the bound on the unconfirmed messages, which needs the
\* accounting below.
ParentType ==
    /\ script \in {"loading", "loaded", "failed"}
    /\ object \in BOOLEAN /\ proxy \in BOOLEAN /\ thread \in BOOLEAN
    /\ hadActivity \in BOOLEAN /\ asked \in BOOLEAN
    /\ early \in Seq(1..MaxMessages)
    /\ sent \in 0..MaxMessages /\ delivered \subseteq 1..MaxPosts
ThreadType ==
    /\ pc \in Positions
    /\ nested \in SyncLoads \cup {NoLoad}
    /\ importing \in BOOLEAN
    /\ killed \in BOOLEAN /\ closing \in BOOLEAN /\ timer \in BOOLEAN
    /\ forbidden \in {"no", "finish", "terminate"}
    /\ handled \in 0..MaxMessages /\ posted \in 0..MaxPosts
LoadType ==
    /\ client \in [Loads -> {"none", "waiting", "done"}]
    /\ bridge \in [Loads -> {"none", "requested", "loading", "finished", "deleted"}]
QueueType == mainTasks \in Seq(MainTask) /\ tasks \in Seq(WorkerTask)

\* The life of the thread, as its parent can know it.
LifeInv ==
    /\ script = "loaded" <=> pc # "none"
    /\ ~object => script # "loading"
    /\ thread => pc # "none"
    /\ pc \notin {"none", "ended"} => thread
    /\ ~proxy => ~object /\ ~thread
    /\ nested # NoLoad => pc \in Scripts

\* No load is under way before the context exists and after it was told to
\* stop its active objects; nothing the context then does starts another.
Waiting == {l \in Loads : client[l] = "waiting"}
StopInv ==
    /\ pc \in {"none", "created", "failed"} => \A l \in Loads : client[l] = "none"
    /\ pc = "ended" => killed
    /\ killed => Waiting = {}
    /\ killed /\ pc \in Scripts \cup {"begin", "evaluated", "loop"} =>
          forbidden = "terminate" /\ pc \notin Scripts
    /\ Plain("shutdownStart") \in In(tasks) => forbidden = "terminate"
    /\ Plain("shutdownFinish") \in In(tasks) =>
          forbidden = "terminate" /\ ~timer /\ Waiting = {} /\ pc \in {"loop", "ended"}

\* The order of the parent's tasks: nothing follows the notice that the
\* context is gone, and a bridge is not created again, nor after its end.
Misplaced(x, y) ==
    \/ x.kind = "destroyed"
    \/ /\ y.kind = "createLoader" /\ x.kind \in {"createLoader", "destroyLoader"}
       /\ x.load = y.load
Ordered(s) == \A i, j \in 1..Len(s) : i < j => ~Misplaced(s[i], s[j])

\* The parent's tasks and the loads they are about.
TaskInv ==
    /\ Ordered(mainTasks)
    /\ Plain("destroyed") \in In(mainTasks) <=> pc = "ended" /\ thread
    /\ ~thread => mainTasks = <<>>
LoadInv ==
    /\ \A l \in Loads : OfLoad("createLoader", l) \in In(mainTasks) => bridge[l] = "requested"
    /\ \A l \in Loads : OfLoad("destroyLoader", l) \in In(mainTasks) => client[l] = "done"
    /\ \A l \in Loads : bridge[l] = "none" <=> client[l] = "none"
    /\ \A l \in Loads : bridge[l] \notin {"none", "deleted"} =>
          client[l] = "waiting" \/ nested = l \/ OfLoad("destroyLoader", l) \in In(mainTasks)

Inv == ParentType /\ ThreadType /\ LoadType /\ QueueType /\ LifeInv /\ StopInv /\ TaskInv /\ LoadInv

\* Every message the proxy has counted is in the worker's queue, being
\* handled, or confirmed on the way back, unless a closing context skipped it.
MessageTasks == {t \in WorkerTask : t.kind = "message"}
Confirmations == {t \in MainTask : t.kind = "activity" /\ t.confirming}
Count(s, T) == Cardinality({i \in 1..Len(s) : s[i] \in T})
Owed == Count(tasks, MessageTasks) + Count(mainTasks, Confirmations)
           + (IF pc = "handling" THEN 1 ELSE 0)
CountInv ==
    /\ unconfirmed \in Nat /\ unconfirmed <= sent /\ Len(early) <= sent
    /\ pc = "none" => tasks = <<>>
    /\ thread /\ ~asked => unconfirmed >= Owed /\ (~closing => unconfirmed = Owed)

-----------------------------------------------------------------------------
(* Tasks and queues.                                                       *)

LEMMA BoundsFacts == MaxMessages \in Nat /\ MaxPosts \in Nat
  BY BoundsAssumption

LEMMA LoadsFacts ==
    /\ IsFiniteSet(Loads) /\ NoLoad \notin Loads
    /\ SyncLoads \subseteq Loads /\ NoLoad \notin SyncLoads
  BY LoadsAssumption

\* What a task of the parent is, by its kind.
LEMMA MainTaskFacts ==
    ASSUME NEW t \in MainTask
    PROVE  /\ t.kind \in {"message", "exception", "activity", "createLoader", "destroyLoader",
                          "closed", "destroyed"}
           /\ t.kind \in {"message", "exception"} => t.n \in 1..MaxPosts
           /\ t.kind = "activity" => t.confirming \in BOOLEAN /\ t.active \in BOOLEAN
           /\ t.kind \in {"createLoader", "destroyLoader"} =>
                 t.load \in Loads /\ t = OfLoad(t.kind, t.load)
           /\ t.kind = "destroyed" => t = Plain("destroyed")
<1>1. CASE t \in [kind : {"message", "exception"}, n : 1..MaxPosts]
  BY <1>1
<1>2. CASE t \in [kind : {"activity"}, confirming : BOOLEAN, active : BOOLEAN]
  BY <1>2
<1>3. CASE t \in [kind : {"createLoader", "destroyLoader"}, load : Loads]
  BY <1>3 DEF OfLoad
<1>4. CASE t \in [kind : {"closed", "destroyed"}]
  BY <1>4 DEF Plain
<1> QED
  BY <1>1, <1>2, <1>3, <1>4 DEF MainTask

LEMMA MainTaskTypes ==
    /\ \A n \in 1..MaxPosts : Message(n) \in MainTask /\ Exception(n) \in MainTask
    /\ \A c, a \in BOOLEAN : Activity(c, a) \in MainTask
    /\ \A l \in Loads : OfLoad("createLoader", l) \in MainTask /\ OfLoad("destroyLoader", l) \in MainTask
    /\ Plain("closed") \in MainTask /\ Plain("destroyed") \in MainTask
<1>1. \A n \in 1..MaxPosts : Message(n) \in MainTask /\ Exception(n) \in MainTask
  BY DEF MainTask, Message, Exception
<1>2. \A c, a \in BOOLEAN : Activity(c, a) \in MainTask
  BY DEF MainTask, Activity
<1>3. \A l \in Loads : OfLoad("createLoader", l) \in MainTask /\ OfLoad("destroyLoader", l) \in MainTask
  BY DEF MainTask, OfLoad
<1>4. Plain("closed") \in MainTask /\ Plain("destroyed") \in MainTask
  BY DEF MainTask, Plain
<1> QED
  BY <1>1, <1>2, <1>3, <1>4

\* What a task of the worker is, by its kind.
LEMMA WorkerTaskFacts ==
    ASSUME NEW t \in WorkerTask
    PROVE  /\ t.kind \in {"message", "loaded", "close", "shutdownStart", "shutdownFinish"}
           /\ t.kind = "message" => t.n \in 1..MaxMessages
           /\ t.kind = "loaded" => t.load \in Loads
           /\ t.kind \in {"close", "shutdownStart", "shutdownFinish"} => t = Plain(t.kind)
<1>1. CASE t \in [kind : {"message"}, n : 1..MaxMessages]
  BY <1>1
<1>2. CASE t \in [kind : {"loaded"}, load : Loads]
  BY <1>2
<1>3. CASE t \in [kind : {"close", "shutdownStart", "shutdownFinish"}]
  BY <1>3 DEF Plain
<1> QED
  BY <1>1, <1>2, <1>3 DEF WorkerTask

LEMMA WorkerTaskTypes ==
    /\ \A n \in 1..MaxMessages : Message(n) \in WorkerTask
    /\ \A l \in Loads : OfLoad("loaded", l) \in WorkerTask
    /\ \A k \in {"close", "shutdownStart", "shutdownFinish"} : Plain(k) \in WorkerTask
<1>1. \A n \in 1..MaxMessages : Message(n) \in WorkerTask
  BY DEF WorkerTask, Message
<1>2. \A l \in Loads : OfLoad("loaded", l) \in WorkerTask
  BY DEF WorkerTask, OfLoad
<1>3. \A k \in {"close", "shutdownStart", "shutdownFinish"} : Plain(k) \in WorkerTask
  BY DEF WorkerTask, Plain
<1> QED
  BY <1>1, <1>2, <1>3

\* A sequence is its first element and the others.
LEMMA HeadTailSplit ==
    ASSUME NEW S, NEW s \in Seq(S), s # <<>>
    PROVE  /\ Head(s) \in S /\ Tail(s) \in Seq(S)
           /\ In(s) = {Head(s)} \cup In(Tail(s))
           /\ Ordered(s) => /\ Ordered(Tail(s))
                            /\ \A y \in In(Tail(s)) : ~Misplaced(Head(s), y)
<1> DEFINE r == Tail(s)
<1>1. /\ r \in Seq(S) /\ Len(r) = Len(s) - 1 /\ Len(s) \in Nat \ {0}
      /\ \A i \in 1..Len(r) : r[i] = s[i + 1]
      /\ Head(s) = s[1] /\ s[1] \in S
  BY HeadTailProperties, ElementOfSeq, LenProperties, EmptySeq
<1> HIDE DEF r
<1>2. \A i \in 1..Len(r) : i + 1 \in 1..Len(s) /\ 1 < i + 1
  BY <1>1
<1>3. ASSUME NEW i \in 1..Len(s) PROVE i = 1 \/ (i - 1 \in 1..Len(r) /\ r[i - 1] = s[i])
  <2>1. CASE i # 1
    <3>1. i - 1 \in 1..Len(r) /\ (i - 1) + 1 = i
      BY <1>1, <2>1
    <3> QED
      BY <1>1, <3>1
  <2> QED
    BY <2>1
<1>4. In(s) \subseteq {Head(s)} \cup In(r)
  <2> SUFFICES ASSUME NEW i \in 1..Len(s) PROVE s[i] = Head(s) \/ s[i] \in In(r)
    BY DEF In
  <2>1. i = 1 \/ (i - 1 \in 1..Len(r) /\ r[i - 1] = s[i])
    BY <1>3
  <2> QED
    BY <1>1, <2>1 DEF In
<1>5. {Head(s)} \cup In(r) \subseteq In(s)
  <2>1. 1 \in 1..Len(s)
    BY <1>1
  <2> QED
    BY <1>1, <1>2, <2>1 DEF In
<1>6. ASSUME Ordered(s) PROVE Ordered(r)
  <2> SUFFICES ASSUME NEW i \in 1..Len(r), NEW j \in 1..Len(r), i < j
               PROVE  ~Misplaced(r[i], r[j])
    BY DEF Ordered
  <2>1. i + 1 < j + 1
    BY <1>1
  <2> QED
    BY <1>1, <1>2, <1>6, <2>1 DEF Ordered
<1>7. ASSUME Ordered(s), NEW y \in In(r) PROVE ~Misplaced(Head(s), y)
  <2>1. PICK i \in 1..Len(r) : y = r[i]
    BY DEF In
  <2>2. 1 \in 1..Len(s)
    BY <1>1
  <2> QED
    BY <1>1, <1>2, <1>7, <2>1, <2>2 DEF Ordered
<1> QED
  BY <1>1, <1>4, <1>5, <1>6, <1>7 DEF r

LEMMA OrderedConcat ==
    ASSUME NEW S, NEW s \in Seq(S), NEW t \in Seq(S), Ordered(s), Ordered(t),
           \A x \in In(s), y \in In(t) : ~Misplaced(x, y)
    PROVE  Ordered(s \o t)
<1> DEFINE r == s \o t
<1>1. /\ Len(r) = Len(s) + Len(t) /\ Len(s) \in Nat /\ Len(t) \in Nat
      /\ \A i \in 1..Len(s) : r[i] = s[i]
      /\ \A i \in (Len(s) + 1)..Len(r) : r[i] = t[i - Len(s)] /\ i - Len(s) \in 1..Len(t)
  BY ConcatProperties
<1> HIDE DEF r
<1> SUFFICES ASSUME NEW i \in 1..Len(r), NEW j \in 1..Len(r), i < j
             PROVE  ~Misplaced(r[i], r[j])
  BY DEF Ordered, r
<1>2. CASE j \in 1..Len(s)
  <2>1. i \in 1..Len(s)
    BY <1>1, <1>2
  <2> QED
    BY <1>1, <1>2, <2>1 DEF Ordered
<1>3. CASE i \in 1..Len(s) /\ j \in (Len(s) + 1)..Len(r)
  BY <1>1, <1>3 DEF In
<1>4. CASE i \in (Len(s) + 1)..Len(r) /\ j \in (Len(s) + 1)..Len(r)
  <2>1. i - Len(s) < j - Len(s)
    BY <1>1, <1>4
  <2> QED
    BY <1>1, <1>4, <2>1 DEF Ordered
<1> QED
  BY <1>1, <1>2, <1>3, <1>4

LEMMA OrderedAppend ==
    ASSUME NEW S, NEW s \in Seq(S), NEW e \in S, Ordered(s), \A x \in In(s) : ~Misplaced(x, e)
    PROVE  Ordered(Append(s, e))
<1>1. <<e>> \in Seq(S) /\ In(<<e>>) = {e} /\ Ordered(<<e>>)
  BY DEF In, Ordered
<1>2. Append(s, e) = s \o <<e>>
  BY AppendIsConcat
<1> QED
  BY <1>1, <1>2, OrderedConcat

-----------------------------------------------------------------------------
(* What the actions do to the two queues.                                  *)

\* Tasks the parent takes no loader and no notice of the end from.
Quiet == {t \in MainTask : t.kind \in {"message", "exception", "activity", "closed"}}
QuietPush == \E t \in Seq(Quiet) : mainTasks' = mainTasks \o t

LEMMA SingletonSeq ==
    ASSUME NEW S, NEW e \in S
    PROVE  <<e>> \in Seq(S) /\ In(<<e>>) = {e}
  BY DEF In

LEMMA QuietTasks ==
    /\ \A n \in 1..MaxPosts : Message(n) \in Quiet /\ Exception(n) \in Quiet
    /\ \A c, a \in BOOLEAN : Activity(c, a) \in Quiet
    /\ Plain("closed") \in Quiet
  BY MainTaskTypes DEF Quiet, Message, Exception, Activity, Plain

LEMMA QuietAppend ==
    ASSUME QueueType, NEW t \in Quiet, mainTasks' = Append(mainTasks, t)
    PROVE  QuietPush
<1>1. <<t>> \in Seq(Quiet)
  OBVIOUS
<1>2. t \in MainTask
  BY DEF Quiet
<1>3. mainTasks' = mainTasks \o <<t>>
  BY <1>2, AppendIsConcat DEF QueueType
<1> QED
  BY <1>1, <1>3 DEF QuietPush

LEMMA QuietNothing ==
    ASSUME QueueType, mainTasks' = mainTasks
    PROVE  QuietPush
<1>1. mainTasks' = mainTasks \o <<>>
  BY ConcatEmptySeq DEF QueueType
<1>2. <<>> \in Seq(Quiet)
  OBVIOUS
<1> QED
  BY <1>1, <1>2 DEF QuietPush

\* Quiet tasks change nothing that the invariants say of the parent's queue.
LEMMA QuietEffect ==
    ASSUME QueueType, Ordered(mainTasks), Plain("destroyed") \notin In(mainTasks), QuietPush
    PROVE  /\ mainTasks' \in Seq(MainTask) /\ Ordered(mainTasks')
           /\ Plain("destroyed") \notin In(mainTasks')
           /\ \A k \in {"createLoader", "destroyLoader"} : \A l \in Loads :
                 OfLoad(k, l) \in In(mainTasks') <=> OfLoad(k, l) \in In(mainTasks)
<1>1. PICK t \in Seq(Quiet) : mainTasks' = mainTasks \o t
  BY DEF QuietPush
<1>2. mainTasks \in Seq(MainTask) /\ t \in Seq(MainTask) /\ In(t) \subseteq Quiet
  <2>1. \A i \in 1..Len(t) : t[i] \in Quiet
    BY ElementOfSeq
  <2>2. t \in Seq(MainTask)
    BY SeqMonotonic DEF Quiet
  <2> QED
    BY <2>1, <2>2 DEF In, QueueType
<1>3. /\ mainTasks' \in Seq(MainTask) /\ In(mainTasks') = In(mainTasks) \cup In(t)
  BY <1>1, <1>2, ConcatIn
<1>4. \A x \in Quiet : /\ x.kind \notin {"createLoader", "destroyLoader", "destroyed"}
                       /\ x \in MainTask
  BY DEF Quiet
<1>5. Ordered(t)
  <2>1. \A i \in 1..Len(t) : t[i] \in Quiet
    BY <1>2 DEF In
  <2> QED
    BY <1>4, <2>1 DEF Ordered, Misplaced
<1>6. \A x \in In(mainTasks) : x.kind # "destroyed"
  <2>1. \A x \in In(mainTasks) : x \in MainTask
    BY <1>2, ElementOfSeq DEF In
  <2> QED
    BY <2>1, MainTaskFacts
<1>7. Ordered(mainTasks')
  <2>1. \A x \in In(mainTasks), y \in In(t) : ~Misplaced(x, y)
    BY <1>2, <1>4, <1>6 DEF Misplaced
  <2> QED
    BY <1>1, <1>2, <1>5, <2>1, OrderedConcat
<1>8. Plain("destroyed") \notin Quiet
  BY <1>4 DEF Plain
<1>9. \A k \in {"createLoader", "destroyLoader"} : \A l \in Loads : OfLoad(k, l) \notin Quiet
  BY <1>4 DEF OfLoad
<1> QED
  BY <1>2, <1>3, <1>7, <1>8, <1>9

\* WorkerThread::stop.
LEMMA StopEffect ==
    ASSUME QueueType, Stop
    PROVE  /\ tasks' \in Seq(WorkerTask)
           /\ ContextExists => /\ forbidden' = "terminate" /\ killed' = killed
                               /\ In(tasks') = In(tasks) \cup {Plain("shutdownStart")}
           /\ ~ContextExists => killed' = TRUE /\ UNCHANGED <<forbidden, tasks>>
<1>1. Plain("shutdownStart") \in WorkerTask
  BY WorkerTaskTypes
<1>2. /\ Append(tasks, Plain("shutdownStart")) \in Seq(WorkerTask)
      /\ In(Append(tasks, Plain("shutdownStart"))) = In(tasks) \cup {Plain("shutdownStart")}
  BY <1>1, AppendIn DEF QueueType
<1> QED
  BY <1>2 DEF Stop, QueueType

\* What terminateWorkerContext does, twice or without a thread nothing.
LEMMA TerminateEffect ==
    ASSUME QueueType, TerminateWorkerContext
    PROVE  /\ asked' = TRUE
           /\ \/ thread /\ ~asked /\ Stop
              \/ ~(thread /\ ~asked) /\ UNCHANGED <<forbidden, tasks, killed>>
           /\ tasks' \in Seq(WorkerTask)
  BY StopEffect DEF TerminateWorkerContext, QueueType

LEMMA EarlyPostsType ==
    ASSUME ParentType
    PROVE  /\ EarlyPosts \in Seq(MessageTasks) /\ EarlyPosts \in Seq(WorkerTask)
           /\ Len(EarlyPosts) = Len(early)
<1>1. Len(early) \in Nat /\ \A i \in 1..Len(early) : early[i] \in 1..MaxMessages
  BY ElementOfSeq, LenProperties DEF ParentType
<1>2. \A i \in 1..Len(early) : Message(early[i]) \in MessageTasks
  BY <1>1, WorkerTaskTypes DEF MessageTasks, Message
<1>3. EarlyPosts \in Seq(MessageTasks) /\ Len(EarlyPosts) = Len(early)
  BY <1>1, <1>2, SMT DEF EarlyPosts
<1>4. MessageTasks \subseteq WorkerTask
  BY DEF MessageTasks
<1> QED
  BY <1>3, <1>4, SeqMonotonic

\* The task a nested loop takes leaves the others.
LEMMA NestedEffect ==
    ASSUME QueueType, NestedTask
    PROVE  /\ tasks' \in Seq(WorkerTask) /\ In(tasks') \subseteq In(tasks)
<1>1. PICK i \in 1..Len(tasks) : tasks' = RemoveAt(tasks, i)
  BY DEF NestedTask
<1>2. tasks' = SubSeq(tasks, 1, i - 1) \o SubSeq(tasks, i + 1, Len(tasks))
  BY <1>1 DEF RemoveAt
<1>3. tasks \in Seq(In(tasks)) /\ In(tasks) \subseteq WorkerTask
  <2>1. \A k \in 1..Len(tasks) : tasks[k] \in WorkerTask
    BY ElementOfSeq DEF QueueType
  <2>2. Len(tasks) \in Nat /\ tasks = [k \in 1..Len(tasks) |-> tasks[k]]
    BY LenProperties, Zenon DEF QueueType
  <2> QED
    BY <2>1, <2>2, SMT DEF In, QueueType
<1>4. tasks' \in Seq(In(tasks))
  BY <1>2, <1>3, RemoveIn
<1>5. tasks' \in Seq(WorkerTask)
  BY <1>3, <1>4, SeqMonotonic
<1>6. \A k \in 1..Len(tasks') : tasks'[k] \in In(tasks)
  BY <1>4, ElementOfSeq
<1> QED
  BY <1>5, <1>6 DEF In

\* SetToSeq lists the loads that ShutdownStart cancels.
LEMMA CancelledLoads ==
    ASSUME NEW C \in SUBSET Loads
    PROVE  LET t == [i \in 1..Cardinality(C) |-> OfLoad("destroyLoader", SetToSeq(C)[i])]
           IN  t \in Seq(MainTask) /\ In(t) = {OfLoad("destroyLoader", l) : l \in C}
<1> DEFINE n == Cardinality(C)
           f == SetToSeq(C)
           t == [i \in 1..n |-> OfLoad("destroyLoader", f[i])]
<1>1. IsFiniteSet(C) /\ n \in Nat /\ ExistsBijection(1..n, C)
  BY LoadsFacts, FS_Subset, FS_CardinalityType
<1>2. PICK g : g \in Bijection(1..n, C)
  BY <1>1 DEF ExistsBijection
<1>3. g \in [1..n -> C] /\ IsInjective(g)
  BY <1>2 DEF Bijection, Injection
<1>4. f \in [1..n -> C] /\ IsInjective(f)
  BY <1>3, Zenon DEF SetToSeq
<1>5. f \in Surjection(1..n, C)
  <2>1. f \in Injection(1..n, C)
    BY <1>4 DEF Injection
  <2>2. Cardinality(1..n) = n
    BY <1>1, FS_Interval
  <2> HIDE DEF f, n
  <2> QED
    BY <1>1, <2>1, <2>2, FS_Injection DEF n
<1>6. \A l \in C : \E i \in 1..n : f[i] = l
  BY <1>5 DEF Surjection
<1> HIDE DEF f, n
<1>7. \A i \in 1..n : f[i] \in Loads /\ t[i] = OfLoad("destroyLoader", f[i]) /\ t[i] \in MainTask
  BY <1>4, MainTaskTypes
<1>8. t \in Seq(MainTask) /\ Len(t) = n
  BY <1>1, <1>7
<1>9. In(t) \subseteq {OfLoad("destroyLoader", l) : l \in C}
  <2> SUFFICES ASSUME NEW i \in 1..n PROVE t[i] \in {OfLoad("destroyLoader", l) : l \in C}
    BY <1>8 DEF In
  <2> QED
    BY <1>4, <1>7
<1>10. {OfLoad("destroyLoader", l) : l \in C} \subseteq In(t)
  <2> SUFFICES ASSUME NEW l \in C PROVE OfLoad("destroyLoader", l) \in In(t)
    OBVIOUS
  <2>1. PICK i \in 1..n : f[i] = l
    BY <1>6
  <2>2. t[i] = OfLoad("destroyLoader", l) /\ i \in 1..Len(t)
    BY <1>7, <1>8, <2>1
  <2> QED
    BY <2>2, Zenon DEF In
<1> QED
  BY <1>8, <1>9, <1>10 DEF f, n

\* The steps whose thread may add quiet tasks and nothing else to the parent's
\* queue.
QuietActions ==
    \/ EnterLoop \/ PostToObject \/ ImportReturns \/ HandleMessage \/ NotifyClosed
    \/ \E throws \in BOOLEAN : ScriptReturns(throws)

LEMMA ScriptReturnsEffect ==
    ASSUME Inv, NEW throws \in BOOLEAN, ScriptReturns(throws)
    PROVE  QuietPush /\ posted' \in 0..MaxPosts
<1> DEFINE x == IF throws THEN <<Exception(posted')>> ELSE <<>>
           c == IF pc = "handling" THEN <<Activity(TRUE, ContextActive)>> ELSE <<>>
<1>1. posted' \in 0..MaxPosts /\ (throws => posted' \in 1..MaxPosts)
  BY BoundsFacts DEF ScriptReturns, Inv, ThreadType
<1>2. x \in Seq(Quiet)
  <2>1. throws => Exception(posted') \in Quiet
    BY <1>1, QuietTasks
  <2> QED
    BY <2>1
<1>3. c \in Seq(Quiet)
  <2>1. Activity(TRUE, ContextActive) \in Quiet
    BY QuietTasks DEF ContextActive, Inv, ThreadType
  <2>2. CASE pc = "handling"
    <3>1. <<Activity(TRUE, ContextActive)>> \in Seq(Quiet)
      BY <2>1, SingletonSeq
    <3> QED
      BY <2>2, <3>1, Zenon
  <2>3. CASE pc # "handling"
    <3>1. <<>> \in Seq(Quiet)
      OBVIOUS
    <3> QED
      BY <2>3, <3>1, Zenon
  <2> QED
    BY <2>2, <2>3
<1>4. mainTasks' = (mainTasks \o x) \o c
  BY DEF ScriptReturns
<1>5. mainTasks \in Seq(MainTask) /\ x \in Seq(MainTask) /\ c \in Seq(MainTask)
  <2>1. Quiet \subseteq MainTask
    BY DEF Quiet
  <2> QED
    BY <1>2, <1>3, <2>1, SeqMonotonic DEF Inv, QueueType
<1> HIDE DEF x, c
<1>6. x \o c \in Seq(Quiet)
  BY <1>2, <1>3, ConcatProperties
<1>7. (mainTasks \o x) \o c = mainTasks \o (x \o c)
  BY <1>5, ConcatAssociative
<1>8. mainTasks' = mainTasks \o (x \o c)
  BY <1>4, <1>7, Zenon
<1> QED
  BY <1>1, <1>6, <1>8 DEF QuietPush

LEMMA QuietActionsPush ==
    ASSUME Inv, QuietActions
    PROVE  /\ QuietPush
           /\ pc \notin {"none", "ended"} /\ pc' \notin {"none", "ended"}
           /\ UNCHANGED <<script, object, proxy, thread, asked, client, bridge, killed, timer, nested>>
<1>0. ContextActive \in BOOLEAN /\ QueueType
  BY DEF ContextActive, Inv, ThreadType
<1>1. CASE EnterLoop
  <2>1. mainTasks' = Append(mainTasks, Activity(FALSE, ContextActive))
    BY <1>1 DEF EnterLoop
  <2>2. QuietPush
    BY <1>0, <2>1, QuietTasks, QuietAppend
  <2> QED
    BY <1>1, <2>2 DEF EnterLoop, parentVars
<1>2. CASE PostToObject
  <2>1. mainTasks' = Append(mainTasks, Message(posted')) /\ posted' \in 1..MaxPosts
    BY <1>2, BoundsFacts DEF PostToObject, Inv, ThreadType
  <2>2. QuietPush
    BY <1>0, <2>1, QuietTasks, QuietAppend
  <2> QED
    BY <1>2, <2>2 DEF PostToObject, InScript, Scripts, parentVars
<1>3. CASE ImportReturns
  <2>1. mainTasks' = Append(mainTasks, Activity(FALSE, ContextActive))
    BY <1>3 DEF ImportReturns
  <2>2. QuietPush
    BY <1>0, <2>1, QuietTasks, QuietAppend
  <2> QED
    BY <1>3, <2>2 DEF ImportReturns, InScript, Scripts, parentVars
<1>4. CASE HandleMessage
  <2>1. mainTasks' = mainTasks \/ mainTasks' = Append(mainTasks, Activity(TRUE, ContextActive))
    BY <1>4 DEF HandleMessage
  <2>2. QuietPush
    BY <1>0, <2>1, QuietTasks, QuietAppend, QuietNothing
  <2>3. pc = "loop" /\ pc' \in {"loop", "handling"}
    BY <1>4 DEF HandleMessage, PerformTask, TakeTask
  <2> QED
    BY <1>4, <2>2, <2>3 DEF HandleMessage, parentVars
<1>5. CASE NotifyClosed
  <2>1. mainTasks' = Append(mainTasks, Plain("closed"))
    BY <1>5 DEF NotifyClosed
  <2>2. QuietPush
    BY <1>0, <2>1, QuietTasks, QuietAppend
  <2>3. pc = "loop" /\ pc' = pc
    BY <1>5 DEF NotifyClosed, PerformTask, TakeTask, threadVars
  <2> QED
    BY <1>5, <2>2, <2>3 DEF NotifyClosed, parentVars, threadVars
<1>6. ASSUME NEW throws \in BOOLEAN, ScriptReturns(throws)
      PROVE  /\ QuietPush
             /\ pc \notin {"none", "ended"} /\ pc' \notin {"none", "ended"}
             /\ UNCHANGED <<script, object, proxy, thread, asked, client, bridge, killed, timer, nested>>
  <2>1. pc \in Scripts /\ pc' \in {"evaluated", "loop"}
    BY <1>6 DEF ScriptReturns, InScript
  <2> QED
    BY <1>6, <2>1, ScriptReturnsEffect DEF ScriptReturns, parentVars, Scripts
<1> QED
  BY <1>1, <1>2, <1>3, <1>4, <1>5, <1>6 DEF QuietActions

-----------------------------------------------------------------------------
(* Types.                                                                  *)

\* The worker's queue stays one of its tasks.
LEMMA WorkerQueueType ==
    ASSUME Inv, [Next]_vars
    PROVE  tasks' \in Seq(WorkerTask)
<1>0. tasks \in Seq(WorkerTask) /\ sent \in 0..MaxMessages /\ QueueType /\ ParentType
  BY DEF Inv, QueueType, ParentType
<1>1. CASE PostMessage
  <2>1. thread => tasks' = Append(tasks, Message(sent')) /\ sent' \in 1..MaxMessages
    BY <1>0, <1>1, BoundsFacts DEF PostMessage
  <2>2. ~thread => tasks' = tasks
    BY <1>1 DEF PostMessage
  <2> QED
    BY <1>0, <2>1, <2>2, WorkerTaskTypes, AppendIn
<1>2. CASE Terminate \/ CollectObject \/ ContextClosed
  BY <1>0, <1>2, TerminateEffect DEF Terminate, CollectObject, ContextClosed
<1>3. CASE StartWorkerContext
  <2>1. CASE asked
    BY <1>0, <1>3, <2>1, StopEffect DEF StartWorkerContext
  <2>2. CASE ~asked
    <3>1. tasks' = tasks \o EarlyPosts
      BY <1>3, <2>2 DEF StartWorkerContext, PostEarlyTasks, PostEarly
    <3> QED
      BY <1>0, <3>1, EarlyPostsType, ConcatIn
  <2> QED
    BY <2>1, <2>2
<1>4. ASSUME NEW l \in Loads, LoadFinishes(l)
      PROVE  tasks' \in Seq(WorkerTask)
  BY <1>0, <1>4, WorkerTaskTypes, AppendIn DEF LoadFinishes
<1>5. CASE Close
  <2>1. Plain("close") \in WorkerTask
    BY WorkerTaskTypes
  <2> QED
    BY <1>0, <1>5, <2>1, AppendIn DEF Close
<1>6. CASE SkipTask \/ HandleMessage \/ HandleLoaded \/ NotifyClosed \/ ShutdownFinish
  <2>1. TakeTask
    BY <1>6 DEF SkipTask, HandleMessage, HandleLoaded, NotifyClosed, ShutdownFinish, PerformTask
  <2> QED
    BY <1>0, <2>1, HeadTailSplit DEF TakeTask
<1>7. CASE ShutdownStart
  <2>1. Tail(tasks) \in Seq(WorkerTask) /\ Plain("shutdownFinish") \in WorkerTask
    BY <1>0, <1>7, HeadTailSplit, WorkerTaskTypes DEF ShutdownStart
  <2> QED
    BY <1>7, <2>1, AppendIn DEF ShutdownStart
<1>8. CASE NestedTask
  BY <1>0, <1>8, NestedEffect
<1>9. CASE \/ ScriptFails \/ DeliverMessage \/ DeliverException \/ ReportActivity \/ ContextDestroyed
           \/ CreateLoader \/ DestroyLoader
  BY <1>0, <1>9 DEF ScriptFails, DeliverMessage, DeliverException, ReportActivity, ContextDestroyed,
                    CreateLoader, DestroyLoader
<1>10. CASE \/ ThreadStarts \/ Evaluate \/ EnterLoop \/ LoopEnds \/ SyncLoadReturns \/ TimerFires
            \/ PostToObject \/ SetTimer \/ ScriptEnds \/ \E l \in Loads : StartLoad(l)
  BY <1>0, <1>10 DEF ThreadStarts, Evaluate, EnterLoop, LoopEnds, SyncLoadReturns, TimerFires,
                     PostToObject, SetTimer, ScriptEnds, ImportReturns, ScriptReturns, StartLoad
<1>11. CASE UNCHANGED vars
  BY <1>0, <1>11 DEF vars
<1> QED
  BY <1>1, <1>2, <1>3, <1>4, <1>5, <1>6, <1>7, <1>8, <1>9, <1>10, <1>11
  DEF Next, MainThreadTask, RunLoop

\* The first of the parent's tasks, and what is left.
LEMMA TakeMainTaskEffect ==
    ASSUME QueueType, NEW kind, TakeMainTask(kind)
    PROVE  /\ Head(mainTasks) \in MainTask /\ Head(mainTasks).kind = kind
           /\ mainTasks' \in Seq(MainTask)
           /\ In(mainTasks) = {Head(mainTasks)} \cup In(mainTasks')
           /\ Ordered(mainTasks) => /\ Ordered(mainTasks')
                                    /\ \A y \in In(mainTasks') : ~Misplaced(Head(mainTasks), y)
           /\ mainTasks # <<>>
  BY HeadTailSplit DEF QueueType, TakeMainTask

\* The first of the worker's tasks, and what is left.
LEMMA TakeTaskEffect ==
    ASSUME QueueType, TakeTask
    PROVE  /\ Head(tasks) \in WorkerTask /\ tasks' \in Seq(WorkerTask)
           /\ In(tasks) = {Head(tasks)} \cup In(tasks')
           /\ pc = "loop" /\ ~killed
  BY HeadTailSplit DEF QueueType, TakeTask

LEMMA ShutdownStartEffect ==
    ASSUME QueueType, Ordered(mainTasks), Plain("destroyed") \notin In(mainTasks), ShutdownStart
    PROVE  /\ mainTasks' \in Seq(MainTask) /\ Ordered(mainTasks')
           /\ In(mainTasks') = In(mainTasks) \cup {OfLoad("destroyLoader", l) : l \in Waiting}
           /\ Plain("destroyed") \notin In(mainTasks')
           /\ client' = [l \in Loads |-> IF l \in Waiting THEN "done" ELSE client[l]]
           /\ Head(tasks) = Plain("shutdownStart") /\ Head(tasks) \in In(tasks)
           /\ tasks' \in Seq(WorkerTask)
           /\ In(tasks') \subseteq In(tasks) \cup {Plain("shutdownFinish")}
<1> DEFINE t == [i \in 1..Cardinality(Waiting) |-> OfLoad("destroyLoader", SetToSeq(Waiting)[i])]
<1>1. t \in Seq(MainTask) /\ In(t) = {OfLoad("destroyLoader", l) : l \in Waiting}
  <2>1. Waiting \in SUBSET Loads
    BY DEF Waiting
  <2> QED
    BY <2>1, CancelledLoads
<1>2. /\ mainTasks' = mainTasks \o t
      /\ client' = [l \in Loads |-> IF l \in Waiting THEN "done" ELSE client[l]]
  BY DEF ShutdownStart, Waiting
<1> HIDE DEF t
<1>3. mainTasks' \in Seq(MainTask) /\ In(mainTasks') = In(mainTasks) \cup In(t)
  BY <1>1, <1>2, ConcatIn DEF QueueType
<1>4. \A x \in In(t) : x.kind = "destroyLoader"
  BY <1>1 DEF OfLoad
<1>5. Ordered(t)
  <2>1. \A i \in 1..Len(t) : t[i].kind = "destroyLoader"
    BY <1>4 DEF In
  <2> QED
    BY <2>1 DEF Ordered, Misplaced
<1>6. \A x \in In(mainTasks) : x.kind # "destroyed"
  <2>1. \A x \in In(mainTasks) : x \in MainTask
    BY ElementOfSeq DEF In, QueueType
  <2> QED
    BY <2>1, MainTaskFacts
<1>7. Ordered(mainTasks')
  <2>1. \A x \in In(mainTasks), y \in In(t) : ~Misplaced(x, y)
    BY <1>4, <1>6 DEF Misplaced
  <2> QED
    BY <1>1, <1>2, <1>5, <2>1, OrderedConcat DEF QueueType
<1>8. Plain("destroyed") \notin In(t)
  BY <1>4 DEF Plain
<1>9. /\ tasks # <<>> /\ Head(tasks).kind = "shutdownStart"
      /\ tasks' = Append(Tail(tasks), Plain("shutdownFinish"))
  BY DEF ShutdownStart
<1>10. /\ Head(tasks) \in WorkerTask /\ Tail(tasks) \in Seq(WorkerTask)
       /\ In(tasks) = {Head(tasks)} \cup In(Tail(tasks))
  BY <1>9, HeadTailSplit DEF QueueType
<1>11. Head(tasks) = Plain("shutdownStart")
  BY <1>9, <1>10, WorkerTaskFacts
<1>12. /\ tasks' \in Seq(WorkerTask)
       /\ In(tasks') = In(Tail(tasks)) \cup {Plain("shutdownFinish")}
  <2> DEFINE r == Tail(tasks)
             e == Plain("shutdownFinish")
  <2>1. e \in WorkerTask /\ r \in Seq(WorkerTask) /\ tasks' = Append(r, e)
    BY <1>9, <1>10, WorkerTaskTypes
  <2> HIDE DEF r, e
  <2>2. tasks' \in Seq(WorkerTask) /\ In(tasks') = In(r) \cup {e}
    BY <2>1, AppendIn
  <2> QED
    BY <2>2 DEF r, e
<1> QED
  BY <1>1, <1>2, <1>3, <1>7, <1>8, <1>10, <1>11, <1>12

\* The parent's queue stays one of its tasks, in order, with the notice of the
\* context's end last.
LEMMA TaskStep ==
    ASSUME Inv, [Next]_vars
    PROVE  mainTasks' \in Seq(MainTask) /\ TaskInv'
<1>0. /\ QueueType /\ TaskInv /\ LifeInv /\ Ordered(mainTasks)
      /\ mainTasks \in Seq(MainTask)
      /\ \A x \in In(mainTasks) : x \in MainTask
  <2>1. \A x \in In(mainTasks) : x \in MainTask
    BY ElementOfSeq DEF In, Inv, QueueType
  <2> QED
    BY <2>1 DEF Inv, QueueType, TaskInv
<1>e. \A x \in In(mainTasks) : x.kind = "destroyed" => x = Plain("destroyed")
  BY <1>0, MainTaskFacts
<1>1. ASSUME mainTasks' = mainTasks, pc' = "ended" <=> pc = "ended", thread' = thread
      PROVE  mainTasks' \in Seq(MainTask) /\ TaskInv'
  BY <1>0, <1>1 DEF TaskInv, In, Ordered
<1>2. CASE QuietActions
  <2>1. /\ QuietPush /\ pc \notin {"none", "ended"} /\ pc' \notin {"none", "ended"}
        /\ thread' = thread
    BY <1>2, QuietActionsPush
  <2>2. thread /\ Plain("destroyed") \notin In(mainTasks)
    BY <1>0, <2>1 DEF LifeInv, TaskInv
  <2>3. mainTasks' \in Seq(MainTask) /\ Ordered(mainTasks') /\ Plain("destroyed") \notin In(mainTasks')
    BY <1>0, <2>1, <2>2, QuietEffect
  <2> QED
    BY <2>1, <2>2, <2>3 DEF TaskInv, Ordered, In
<1>3. CASE \/ PostMessage \/ Terminate \/ ScriptFails \/ CollectObject
           \/ \E l \in Loads : LoadFinishes(l)
  <2>1. mainTasks' = mainTasks /\ pc' = pc /\ thread' = thread
    BY <1>3 DEF PostMessage, Terminate, ScriptFails, CollectObject, LoadFinishes, threadVars, parentVars
  <2> QED
    BY <1>1, <2>1
<1>4. CASE StartWorkerContext
  <2>1. mainTasks' = mainTasks /\ pc' \in {"created", "failed"} /\ thread' = TRUE /\ pc = "none"
    BY <1>0, <1>4 DEF StartWorkerContext, LifeInv
  <2>2. Plain("destroyed") \notin In(mainTasks)
    BY <1>0, <2>1 DEF TaskInv
  <2> QED
    BY <1>0, <2>1, <2>2 DEF TaskInv, In, Ordered
<1>5. ASSUME NEW kind \in {"message", "exception", "activity", "closed", "createLoader", "destroyLoader"},
             TakeMainTask(kind), pc' = pc, thread' = thread
      PROVE  mainTasks' \in Seq(MainTask) /\ TaskInv'
  <2>1. /\ mainTasks' \in Seq(MainTask) /\ Ordered(mainTasks')
        /\ In(mainTasks) = {Head(mainTasks)} \cup In(mainTasks') /\ Head(mainTasks).kind = kind
        /\ mainTasks # <<>>
    BY <1>0, <1>5, TakeMainTaskEffect
  <2>2. Head(mainTasks) # Plain("destroyed")
    BY <2>1 DEF Plain
  <2>3. thread
    BY <1>0, <2>1 DEF TaskInv
  <2>4. Plain("destroyed") \in In(mainTasks') <=> pc' = "ended" /\ thread'
    BY <1>0, <1>5, <2>1, <2>2, Zenon DEF TaskInv
  <2> QED
    BY <1>5, <2>1, <2>3, <2>4 DEF TaskInv, In, Ordered
<1>6. CASE DeliverMessage \/ DeliverException \/ ReportActivity \/ ContextClosed \/ CreateLoader \/ DestroyLoader
  <2>1. pc' = pc /\ thread' = thread
    BY <1>6 DEF DeliverMessage, DeliverException, ReportActivity, ContextClosed, CreateLoader,
                DestroyLoader, threadVars, parentVars
  <2>2. \E kind \in {"message", "exception", "activity", "closed", "createLoader", "destroyLoader"} :
           TakeMainTask(kind)
    BY <1>6 DEF DeliverMessage, DeliverException, ReportActivity, ContextClosed, CreateLoader, DestroyLoader
  <2> QED
    BY <1>5, <2>1, <2>2
<1>7. CASE ContextDestroyed
  <2>1. TakeMainTask("destroyed") /\ thread' = FALSE
    BY <1>7 DEF ContextDestroyed
  <2>2. /\ mainTasks' \in Seq(MainTask) /\ Ordered(mainTasks')
        /\ \A y \in In(mainTasks') : ~Misplaced(Head(mainTasks), y)
        /\ Head(mainTasks).kind = "destroyed"
    BY <1>0, <2>1, TakeMainTaskEffect
  <2>3. In(mainTasks') = {}
    BY <2>2 DEF Misplaced
  <2>4. mainTasks' = <<>>
    <3>1. Len(mainTasks') \in Nat
      BY <2>2, LenProperties
    <3>2. Len(mainTasks') = 0
      <4>1. Len(mainTasks') > 0 => mainTasks'[1] \in In(mainTasks')
        BY <3>1 DEF In
      <4> QED
        BY <2>3, <3>1, <4>1
    <3> QED
      BY <2>2, <3>2, EmptySeq
  <2> QED
    BY <2>1, <2>2, <2>3, <2>4 DEF TaskInv, In, Ordered
<1>8. ASSUME NEW t \in MainTask, mainTasks' = Append(mainTasks, t), t.kind # "destroyed",
             \A x \in In(mainTasks) : ~Misplaced(x, t),
             pc \notin {"none", "ended"}, pc' \notin {"none", "ended"}, thread' = thread
      PROVE  mainTasks' \in Seq(MainTask) /\ TaskInv'
  <2>1. mainTasks' \in Seq(MainTask) /\ In(mainTasks') = In(mainTasks) \cup {t} /\ Ordered(mainTasks')
    BY <1>0, <1>8, AppendIn, OrderedAppend
  <2>2. thread /\ Plain("destroyed") \notin In(mainTasks)
    BY <1>0, <1>8 DEF LifeInv, TaskInv
  <2>3. t # Plain("destroyed")
    BY <1>8 DEF Plain
  <2> QED
    BY <1>8, <2>1, <2>2, <2>3 DEF TaskInv, In, Ordered
<1>9. pc \notin {"none", "ended"} => \A x \in In(mainTasks) : x.kind # "destroyed"
  BY <1>0, <1>e DEF TaskInv
<1>10. ASSUME NEW l \in Loads, StartLoad(l)
       PROVE  mainTasks' \in Seq(MainTask) /\ TaskInv'
  <2>1. /\ mainTasks' = Append(mainTasks, OfLoad("createLoader", l)) /\ client[l] = "none"
        /\ pc \notin {"none", "ended"} /\ pc' = pc /\ thread' = thread
    BY <1>10 DEF StartLoad, InScript, Scripts, parentVars
  <2>2. ASSUME NEW x \in In(mainTasks) PROVE ~Misplaced(x, OfLoad("createLoader", l))
    <3>1. x.kind # "destroyed"
      BY <1>9, <2>1
    <3>2. x # OfLoad("createLoader", l) /\ x # OfLoad("destroyLoader", l)
      BY <2>1 DEF Inv, LoadInv
    <3>3. x.kind \in {"createLoader", "destroyLoader"} => x = OfLoad(x.kind, x.load)
      BY <1>0, MainTaskFacts
    <3> QED
      BY <3>1, <3>2, <3>3 DEF Misplaced, OfLoad
  <2>3. OfLoad("createLoader", l) \in MainTask /\ OfLoad("createLoader", l).kind # "destroyed"
    BY MainTaskTypes DEF OfLoad
  <2> QED
    BY <1>8, <2>1, <2>2, <2>3
<1>11. ASSUME NEW l \in Loads, mainTasks' = Append(mainTasks, OfLoad("destroyLoader", l)),
              pc \notin {"none", "ended"}, pc' \notin {"none", "ended"}, thread' = thread
       PROVE  mainTasks' \in Seq(MainTask) /\ TaskInv'
  <2>1. OfLoad("destroyLoader", l) \in MainTask /\ OfLoad("destroyLoader", l).kind = "destroyLoader"
    BY MainTaskTypes DEF OfLoad
  <2>2. \A x \in In(mainTasks) : ~Misplaced(x, OfLoad("destroyLoader", l))
    BY <1>9, <1>11, <2>1 DEF Misplaced
  <2> QED
    BY <1>8, <1>11, <2>1, <2>2
<1>12. CASE HandleLoaded
  <2>1. /\ pc = "loop" /\ pc' \in {"loop", "firing"} /\ thread' = thread
        /\ Head(tasks).kind = "loaded" /\ TakeTask
    BY <1>12 DEF HandleLoaded, PerformTask, TakeTask, parentVars
  <2>2. Head(tasks).load \in Loads
    BY <1>0, <2>1, TakeTaskEffect, WorkerTaskFacts
  <2>3. mainTasks' = mainTasks \/ mainTasks' = Append(mainTasks, OfLoad("destroyLoader", Head(tasks).load))
    BY <1>12 DEF HandleLoaded
  <2> QED
    BY <1>1, <1>11, <2>1, <2>2, <2>3
<1>13. CASE SyncLoadReturns
  <2>1. /\ mainTasks' = Append(mainTasks, OfLoad("destroyLoader", nested)) /\ nested # NoLoad
        /\ pc' = pc /\ thread' = thread
    BY <1>13 DEF SyncLoadReturns, parentVars
  <2>2. pc \notin {"none", "ended"} /\ nested \in Loads
    BY <1>0, <2>1, LoadsFacts DEF LifeInv, Inv, ThreadType, Scripts
  <2> QED
    BY <1>11, <2>1, <2>2
<1>14. CASE ShutdownStart
  <2>1. pc = "loop" /\ pc' = pc /\ thread' = thread
    BY <1>14 DEF ShutdownStart, parentVars
  <2>2. thread /\ Plain("destroyed") \notin In(mainTasks)
    BY <1>0, <2>1 DEF LifeInv, TaskInv
  <2>3. mainTasks' \in Seq(MainTask) /\ Ordered(mainTasks') /\ Plain("destroyed") \notin In(mainTasks')
    BY <1>0, <1>14, <2>2, ShutdownStartEffect
  <2> QED
    BY <2>1, <2>2, <2>3 DEF TaskInv, Ordered, In
<1>15. CASE LoopEnds
  <2>1. pc = "loop" /\ pc' = "ended" /\ thread' = thread /\ mainTasks' = Append(mainTasks, Plain("destroyed"))
    BY <1>15 DEF LoopEnds, parentVars
  <2>2. thread
    BY <1>0, <2>1 DEF LifeInv
  <2>3. \A x \in In(mainTasks) : ~Misplaced(x, Plain("destroyed"))
    BY <1>9, <2>1 DEF Misplaced, Plain
  <2>4. mainTasks' \in Seq(MainTask) /\ In(mainTasks') = In(mainTasks) \cup {Plain("destroyed")} /\ Ordered(mainTasks')
    BY <1>0, <2>1, <2>3, MainTaskTypes, AppendIn, OrderedAppend
  <2> QED
    BY <2>1, <2>2, <2>4 DEF TaskInv, In, Ordered
<1>16. CASE \/ ThreadStarts \/ Evaluate \/ SkipTask \/ ShutdownFinish \/ NestedTask \/ TimerFires
            \/ SetTimer \/ Close
  <2>1. mainTasks' = mainTasks /\ thread' = thread /\ (pc' = "ended" <=> pc = "ended")
    BY <1>16 DEF ThreadStarts, Evaluate, SkipTask, ShutdownFinish, NestedTask, TimerFires, SetTimer, Close,
                 parentVars, threadVars
  <2> QED
    BY <1>1, <2>1
<1>17. CASE UNCHANGED vars
  BY <1>1, <1>17 DEF vars, parentVars, threadVars
<1> QED
  BY <1>2, <1>3, <1>4, <1>6, <1>7, <1>10, <1>12, <1>13, <1>14, <1>15, <1>16, <1>17
  DEF Next, MainThreadTask, RunLoop, ScriptEnds, QuietActions

\* The rest of the types: no step leaves them.
LEMMA ScalarStep ==
    ASSUME Inv, [Next]_vars
    PROVE  ParentType' /\ ThreadType' /\ LoadType'
<1> DEFINE Goal == ParentType' /\ ThreadType' /\ LoadType'
<1>0. ParentType /\ ThreadType /\ LoadType /\ QueueType
  BY DEF Inv
<1>1. ASSUME UNCHANGED <<script, object, proxy, thread, hadActivity, asked, early, sent, delivered>>
      PROVE  ParentType'
  BY <1>0, <1>1 DEF ParentType
<1>2. ASSUME UNCHANGED <<pc, nested, importing, killed, closing, timer, forbidden, handled, posted>>
      PROVE  ThreadType'
  BY <1>0, <1>2 DEF ThreadType
<1>3. ASSUME UNCHANGED <<client, bridge>>
      PROVE  LoadType'
  BY <1>0, <1>3 DEF LoadType
<1>4. ASSUME TerminateWorkerContext
      PROVE  asked' \in BOOLEAN /\ killed' \in BOOLEAN /\ forbidden' \in {"no", "finish", "terminate"}
  BY <1>0, <1>4 DEF TerminateWorkerContext, Stop, ThreadType
<1>5. CASE PostMessage
  <2>1. sent' \in 0..MaxMessages /\ sent' \in 1..MaxMessages
    BY <1>0, <1>5, BoundsFacts DEF PostMessage, ParentType
  <2>2. early' \in Seq(1..MaxMessages)
    <3>1. Append(early, sent') \in Seq(1..MaxMessages)
      BY <1>0, <2>1, AppendIn DEF ParentType
    <3> QED
      BY <1>0, <1>5, <3>1 DEF PostMessage, ParentType
  <2>3. ParentType'
    BY <1>0, <1>5, <2>1, <2>2 DEF PostMessage, ParentType
  <2> QED
    BY <1>2, <1>3, <1>5, <2>3 DEF PostMessage, threadVars
<1>6. CASE Terminate
  <2>1. ParentType' /\ ThreadType'
    BY <1>0, <1>4, <1>6 DEF Terminate, ParentType, ThreadType, threadVars
  <2> QED
    BY <1>3, <1>6, <2>1 DEF Terminate, threadVars
<1>7. CASE ScriptFails
  <2>1. ParentType'
    BY <1>0, <1>7 DEF ScriptFails, ParentType
  <2> QED
    BY <1>2, <1>3, <1>7, <2>1 DEF ScriptFails, threadVars
<1>8. CASE StartWorkerContext
  <2>0. <<>> \in Seq(1..MaxMessages)
    OBVIOUS
  <2>1. /\ hadActivity' \in BOOLEAN /\ early' \in Seq(1..MaxMessages)
        /\ killed' \in BOOLEAN /\ forbidden' \in {"no", "finish", "terminate"}
    BY <1>0, <1>8, <2>0 DEF StartWorkerContext, Stop, PostEarlyTasks, PostEarly, ParentType, ThreadType
  <2>2. ParentType'
    BY <1>0, <1>8, <2>1 DEF StartWorkerContext, ParentType
  <2>3. ThreadType'
    BY <1>0, <1>8, <2>1 DEF StartWorkerContext, ThreadType, Positions
  <2> QED
    BY <1>3, <1>8, <2>2, <2>3 DEF StartWorkerContext
<1>9. CASE CollectObject
  <2>1. ParentType' /\ ThreadType'
    BY <1>0, <1>4, <1>9 DEF CollectObject, ParentType, ThreadType, threadVars
  <2> QED
    BY <1>3, <1>9, <2>1 DEF CollectObject, threadVars
<1>10. CASE DeliverMessage \/ DeliverException
  <2>1. \E kind \in {"message", "exception"} : TakeMainTask(kind)
    BY <1>10 DEF DeliverMessage, DeliverException
  <2>2. Head(mainTasks).n \in 1..MaxPosts
    BY <1>0, <2>1, TakeMainTaskEffect, MainTaskFacts
  <2>3. ParentType'
    BY <1>0, <1>10, <2>2 DEF DeliverMessage, DeliverException, ParentType
  <2> QED
    BY <1>2, <1>3, <1>10, <2>3 DEF DeliverMessage, DeliverException, threadVars
<1>11. CASE ReportActivity
  <2>1. Head(mainTasks).active \in BOOLEAN
    BY <1>0, <1>11, TakeMainTaskEffect, MainTaskFacts DEF ReportActivity
  <2>2. ParentType'
    BY <1>0, <1>11, <2>1 DEF ReportActivity, ParentType
  <2> QED
    BY <1>2, <1>3, <1>11, <2>2 DEF ReportActivity, threadVars
<1>12. CASE ContextClosed
  <2>1. ParentType' /\ ThreadType'
    BY <1>0, <1>4, <1>12 DEF ContextClosed, ParentType, ThreadType, threadVars
  <2> QED
    BY <1>3, <1>12, <2>1 DEF ContextClosed, threadVars
<1>13. CASE ContextDestroyed
  <2>1. ParentType'
    BY <1>0, <1>13 DEF ContextDestroyed, ParentType
  <2> QED
    BY <1>2, <1>3, <1>13, <2>1 DEF ContextDestroyed, threadVars
<1>14. CASE CreateLoader \/ DestroyLoader \/ \E l \in Loads : LoadFinishes(l)
  <2>1. LoadType'
    BY <1>0, <1>14 DEF CreateLoader, DestroyLoader, LoadFinishes, LoadType, threadVars
  <2> QED
    BY <1>1, <1>2, <1>14, <2>1 DEF CreateLoader, DestroyLoader, LoadFinishes, parentVars, threadVars
<1>15. CASE ThreadStarts \/ Evaluate \/ EnterLoop \/ TimerFires \/ LoopEnds \/ ShutdownFinish
  <2>1. ThreadType'
    BY <1>0, <1>15 DEF ThreadStarts, Evaluate, EnterLoop, TimerFires, LoopEnds, ShutdownFinish, PerformTask,
                       ThreadType, Positions, Scripts, threadVars
  <2> QED
    BY <1>1, <1>3, <1>15, <2>1 DEF ThreadStarts, Evaluate, EnterLoop, TimerFires, LoopEnds, ShutdownFinish,
                                   parentVars, threadVars
<1>16. CASE PostToObject
  <2>1. posted' \in 0..MaxPosts
    BY <1>0, <1>16, BoundsFacts DEF PostToObject, ThreadType
  <2>2. ThreadType'
    BY <1>0, <1>16, <2>1 DEF PostToObject, ThreadType
  <2> QED
    BY <1>1, <1>3, <1>16, <2>2 DEF PostToObject, parentVars
<1>17. CASE SetTimer \/ Close \/ ImportReturns
  <2>1. ThreadType'
    BY <1>0, <1>17 DEF SetTimer, Close, ImportReturns, ThreadType
  <2> QED
    BY <1>1, <1>3, <1>17, <2>1 DEF SetTimer, Close, ImportReturns, parentVars
<1>18. ASSUME NEW throws \in BOOLEAN, ScriptReturns(throws)
       PROVE  Goal
  <2>1. posted' \in 0..MaxPosts
    BY <1>18, ScriptReturnsEffect
  <2>2. ThreadType'
    BY <1>0, <1>18, <2>1 DEF ScriptReturns, ThreadType, Positions
  <2> QED
    BY <1>1, <1>3, <1>18, <2>2 DEF ScriptReturns, parentVars
<1>19. ASSUME NEW l \in Loads, StartLoad(l)
       PROVE  Goal
  <2>1. ThreadType'
    BY <1>0, <1>19 DEF StartLoad, ThreadType
  <2>2. LoadType'
    BY <1>0, <1>19 DEF StartLoad, LoadType
  <2> QED
    BY <1>1, <1>19, <2>1, <2>2 DEF StartLoad, parentVars
<1>20. CASE SkipTask \/ NotifyClosed
  BY <1>1, <1>2, <1>3, <1>20 DEF SkipTask, NotifyClosed, parentVars, threadVars
<1>21. CASE HandleMessage
  <2>1. handled' \in 0..MaxMessages
    <3>1. TakeTask /\ Head(tasks).kind = "message" /\ handled' = Head(tasks).n
      BY <1>21 DEF HandleMessage, PerformTask
    <3>2. Head(tasks).n \in 1..MaxMessages
      BY <1>0, <3>1, TakeTaskEffect, WorkerTaskFacts
    <3> QED
      BY <3>1, <3>2, BoundsFacts
  <2>2. ThreadType'
    BY <1>0, <1>21, <2>1 DEF HandleMessage, ThreadType, Positions, Scripts
  <2> QED
    BY <1>1, <1>3, <1>21, <2>2 DEF HandleMessage, parentVars
<1>22. CASE HandleLoaded
  <2>1. ThreadType'
    BY <1>0, <1>22 DEF HandleLoaded, ThreadType, Positions, Scripts
  <2>2. LoadType'
    BY <1>0, <1>22 DEF HandleLoaded, LoadType
  <2> QED
    BY <1>1, <1>22, <2>1, <2>2 DEF HandleLoaded, parentVars
<1>23. CASE ShutdownStart
  <2>1. ThreadType'
    BY <1>0, <1>23 DEF ShutdownStart, ThreadType
  <2>2. client' = [l \in Loads |-> IF l \in Waiting THEN "done" ELSE client[l]] /\ bridge' = bridge
    BY <1>23 DEF ShutdownStart, Waiting
  <2>3. LoadType'
    BY <1>0, <2>2 DEF LoadType
  <2> QED
    BY <1>1, <1>23, <2>1, <2>3 DEF ShutdownStart, parentVars
<1>24. CASE NestedTask
  <2>1. LoadType'
    BY <1>0, <1>24 DEF NestedTask, LoadType
  <2> QED
    BY <1>1, <1>2, <1>24, <2>1 DEF NestedTask, parentVars
<1>25. CASE SyncLoadReturns
  <2>1. ThreadType'
    BY <1>0, <1>25 DEF SyncLoadReturns, ThreadType
  <2> QED
    BY <1>1, <1>3, <1>25, <2>1 DEF SyncLoadReturns, parentVars
<1>26. CASE UNCHANGED vars
  BY <1>1, <1>2, <1>3, <1>26 DEF vars, parentVars, threadVars
<1> QED
  BY <1>5, <1>6, <1>7, <1>8, <1>9, <1>10, <1>11, <1>12, <1>13, <1>14, <1>15, <1>16, <1>17, <1>18,
     <1>19, <1>20, <1>21, <1>22, <1>23, <1>24, <1>25, <1>26
  DEF Next, MainThreadTask, RunLoop, ScriptEnds

-----------------------------------------------------------------------------
(* The proxy outlives every use of it.                                     *)

LEMMA LifeStep ==
    ASSUME Inv, [Next]_vars
    PROVE  LifeInv'
<1>0. LifeInv /\ TaskInv /\ QueueType /\ LoadsAssumption
  BY LoadsAssumption DEF Inv
<1>1. ASSUME UNCHANGED <<script, object, proxy, thread, pc, nested>> PROVE LifeInv'
  BY <1>0, <1>1 DEF LifeInv, Scripts
<1>2. CASE \/ PostMessage \/ Terminate \/ DeliverMessage \/ DeliverException \/ ReportActivity
           \/ ContextClosed \/ CreateLoader \/ DestroyLoader \/ \E l \in Loads : LoadFinishes(l)
  <2>1. UNCHANGED <<script, object, proxy, thread, pc, nested>>
    BY <1>2 DEF PostMessage, Terminate, DeliverMessage, DeliverException, ReportActivity, ContextClosed,
                CreateLoader, DestroyLoader, LoadFinishes, parentVars, threadVars
  <2> QED
    BY <1>1, <2>1
<1>3. CASE \/ SetTimer \/ Close \/ ImportReturns \/ SkipTask \/ NotifyClosed \/ ShutdownStart
           \/ ShutdownFinish \/ NestedTask \/ PostToObject
  <2>1. UNCHANGED <<script, object, proxy, thread, pc, nested>>
    BY <1>3 DEF SetTimer, Close, ImportReturns, SkipTask, NotifyClosed, ShutdownStart, ShutdownFinish,
                NestedTask, PostToObject, parentVars, threadVars
  <2> QED
    BY <1>1, <2>1
<1>4. CASE \/ ThreadStarts \/ Evaluate \/ EnterLoop \/ HandleMessage \/ HandleLoaded \/ TimerFires
           \/ \E throws \in BOOLEAN : ScriptReturns(throws)
  <2>1. UNCHANGED <<script, object, proxy, thread, nested>>
    BY <1>4 DEF ThreadStarts, Evaluate, EnterLoop, HandleMessage, HandleLoaded, TimerFires, ScriptReturns,
                parentVars
  <2>2. pc \notin {"none", "ended"} /\ pc' \notin {"none", "ended"} /\ (nested # NoLoad => pc' \in Scripts)
    BY <1>0, <1>4 DEF ThreadStarts, Evaluate, EnterLoop, HandleMessage, HandleLoaded, TimerFires,
                      ScriptReturns, InScript, PerformTask, TakeTask, LifeInv, Scripts
  <2> QED
    BY <1>0, <2>1, <2>2 DEF LifeInv, Scripts
<1>5. CASE SyncLoadReturns \/ LoopEnds \/ \E l \in Loads : StartLoad(l)
  BY <1>0, <1>5 DEF SyncLoadReturns, LoopEnds, StartLoad, InScript, LifeInv, Scripts, parentVars
<1>6. CASE ScriptFails \/ StartWorkerContext \/ CollectObject
  BY <1>0, <1>6 DEF ScriptFails, StartWorkerContext, CollectObject, LifeInv, Scripts, threadVars
<1>7. CASE ContextDestroyed
  <2>1. Head(mainTasks) = Plain("destroyed") /\ Head(mainTasks) \in In(mainTasks)
    BY <1>0, <1>7, TakeMainTaskEffect, MainTaskFacts DEF ContextDestroyed
  <2>2. pc = "ended"
    BY <1>0, <2>1 DEF TaskInv
  <2> QED
    BY <1>0, <1>7, <2>2 DEF ContextDestroyed, LifeInv, Scripts, threadVars
<1>8. CASE UNCHANGED vars
  BY <1>1, <1>8 DEF vars, parentVars, threadVars
<1> QED
  BY <1>2, <1>3, <1>4, <1>5, <1>6, <1>7, <1>8 DEF Next, MainThreadTask, RunLoop, ScriptEnds

Shutdown == {Plain("shutdownStart"), Plain("shutdownFinish")}

LEMMA StopStep ==
    ASSUME Inv, [Next]_vars
    PROVE  StopInv'
<1>0. /\ StopInv /\ LifeInv /\ QueueType /\ LoadType /\ TaskInv /\ ParentType /\ ThreadType
      /\ Ordered(mainTasks)
  BY DEF Inv, TaskInv
<1>1. ASSUME UNCHANGED <<pc, client, killed, forbidden, timer>>, In(tasks') \cap Shutdown \subseteq In(tasks)
      PROVE  StopInv'
  BY <1>0, <1>1 DEF StopInv, Waiting, In, Shutdown, Scripts
<1>2. ASSUME Stop, UNCHANGED <<client, timer>>,
             pc' = pc \/ (pc = "none" /\ pc' \in {"created", "failed"})
      PROVE  StopInv'
  <2>1. CASE ContextExists
    <3>1. /\ pc' = pc /\ forbidden' = "terminate" /\ killed' = killed
          /\ In(tasks') = In(tasks) \cup {Plain("shutdownStart")}
      BY <1>0, <1>2, <2>1, StopEffect DEF ContextExists, Scripts
    <3>2. Plain("shutdownStart") # Plain("shutdownFinish")
      BY DEF Plain
    <3> QED
      BY <1>0, <1>2, <3>1, <3>2 DEF StopInv, Waiting, In, Scripts
  <2>2. CASE ~ContextExists
    <3>1. pc \in {"none", "created", "failed", "ended"} /\ pc' \in {"none", "created", "failed", "ended"}
      BY <1>0, <1>2, <2>2 DEF ContextExists, ThreadType, Positions
    <3>2. killed' = TRUE /\ UNCHANGED <<forbidden, tasks>>
      BY <1>0, <1>2, <2>2, StopEffect
    <3>3. Waiting = {}
      BY <1>0, <3>1 DEF StopInv, Waiting
    <3> QED
      BY <1>0, <1>2, <3>1, <3>2, <3>3 DEF StopInv, Waiting, In, Scripts
  <2> QED
    BY <2>1, <2>2
<1>3. ASSUME TerminateWorkerContext, UNCHANGED <<pc, client, timer>>
      PROVE  StopInv'
  <2>1. CASE Stop
    BY <1>2, <1>3, <2>1
  <2>2. CASE UNCHANGED <<forbidden, tasks, killed>>
    BY <1>1, <1>3, <2>2
  <2> QED
    BY <1>0, <1>3, <2>1, <2>2, TerminateEffect
<1>4. CASE Terminate \/ CollectObject \/ ContextClosed
  <2>1. TerminateWorkerContext /\ UNCHANGED <<pc, client, timer>>
    BY <1>4 DEF Terminate, CollectObject, ContextClosed, threadVars
  <2> QED
    BY <1>3, <2>1
<1>5. CASE StartWorkerContext
  <2>1. pc = "none" /\ pc' \in {"created", "failed"} /\ UNCHANGED <<client, timer>>
    BY <1>0, <1>5 DEF StartWorkerContext, LifeInv
  <2>2. CASE asked
    <3>1. Stop
      BY <1>5, <2>2 DEF StartWorkerContext
    <3> QED
      BY <1>2, <2>1, <3>1
  <2>3. CASE ~asked
    <3>1. tasks' = tasks \o EarlyPosts /\ UNCHANGED <<killed, forbidden>>
      BY <1>5, <2>3 DEF StartWorkerContext, PostEarlyTasks, PostEarly
    <3>2. In(tasks') = In(tasks) \cup In(EarlyPosts)
      BY <1>0, <3>1, EarlyPostsType, ConcatIn DEF QueueType
    <3>3. In(EarlyPosts) \cap Shutdown = {}
      <4>1. \A i \in 1..Len(EarlyPosts) : EarlyPosts[i] \in MessageTasks
        BY <1>0, EarlyPostsType, ElementOfSeq
      <4> QED
        BY <4>1 DEF In, MessageTasks, Shutdown, Plain
    <3> QED
      BY <1>0, <2>1, <3>1, <3>2, <3>3 DEF StopInv, Waiting, Shutdown, Scripts, In
  <2> QED
    BY <2>2, <2>3
<1>6. ASSUME NEW t \in WorkerTask, tasks' \in {tasks, Append(tasks, t)}, t \notin Shutdown
      PROVE  In(tasks') \cap Shutdown \subseteq In(tasks)
  <2>1. In(Append(tasks, t)) = In(tasks) \cup {t}
    BY <1>0, AppendIn DEF QueueType
  <2>2. CASE tasks' = tasks
    BY <2>2 DEF In
  <2>3. CASE tasks' = Append(tasks, t)
    BY <1>6, <2>1, <2>3
  <2> QED
    BY <1>6, <2>2, <2>3
<1>7. CASE PostMessage
  <2>1. CASE thread
    <3>1. tasks' = Append(tasks, Message(sent')) /\ sent' \in 1..MaxMessages
      BY <1>0, <1>7, <2>1, BoundsFacts DEF PostMessage, ParentType
    <3>2. Message(sent') \in WorkerTask /\ Message(sent') \notin Shutdown
      BY <3>1, WorkerTaskTypes DEF Message, Shutdown, Plain
    <3> QED
      BY <1>1, <1>6, <1>7, <3>1, <3>2 DEF PostMessage, threadVars
  <2>2. CASE ~thread
    BY <1>1, <1>7, <2>2 DEF PostMessage, threadVars
  <2> QED
    BY <2>1, <2>2
<1>8. ASSUME NEW l \in Loads, LoadFinishes(l)
      PROVE  StopInv'
  <2>1. tasks' \in {tasks, Append(tasks, OfLoad("loaded", l))}
    BY <1>8 DEF LoadFinishes
  <2>2. OfLoad("loaded", l) \in WorkerTask /\ OfLoad("loaded", l) \notin Shutdown
    BY WorkerTaskTypes DEF OfLoad, Shutdown, Plain
  <2> QED
    BY <1>1, <1>6, <1>8, <2>1, <2>2 DEF LoadFinishes, threadVars
<1>9. CASE \/ ScriptFails \/ DeliverMessage \/ DeliverException \/ ReportActivity \/ ContextDestroyed
           \/ CreateLoader \/ DestroyLoader
  <2>1. UNCHANGED <<pc, client, killed, forbidden, timer, tasks>>
    BY <1>9 DEF ScriptFails, DeliverMessage, DeliverException, ReportActivity, ContextDestroyed, CreateLoader,
                DestroyLoader, threadVars
  <2> QED
    BY <1>1, <2>1
<1>10. CASE PostToObject \/ ImportReturns \/ SyncLoadReturns
  <2>1. UNCHANGED <<pc, client, killed, forbidden, timer, tasks>>
    BY <1>10 DEF PostToObject, ImportReturns, SyncLoadReturns
  <2> QED
    BY <1>1, <2>1
<1>11. CASE SkipTask \/ NotifyClosed
  <2>1. TakeTask /\ UNCHANGED <<pc, client, killed, forbidden, timer>>
    BY <1>11 DEF SkipTask, NotifyClosed, PerformTask, threadVars
  <2>2. In(tasks') \subseteq In(tasks)
    BY <1>0, <2>1, TakeTaskEffect
  <2> QED
    BY <1>1, <2>1, <2>2
<1>12. CASE ThreadStarts
  BY <1>0, <1>12 DEF ThreadStarts, StopInv, Waiting, Scripts, In
<1>13. CASE Evaluate \/ EnterLoop
  <2>1. /\ UNCHANGED <<client, killed, forbidden, timer, tasks>>
        /\ pc \in {"begin", "evaluated"} /\ pc' \in {"evaluating", "evaluated", "loop"}
        /\ pc' = "evaluating" => forbidden = "no"
    BY <1>13 DEF Evaluate, EnterLoop
  <2>2. Plain("shutdownFinish") \notin In(tasks) /\ (killed => forbidden = "terminate")
    BY <1>0, <2>1 DEF StopInv
  <2>3. Waiting' = Waiting /\ In(tasks') = In(tasks)
    BY <2>1 DEF Waiting, In
  <2> QED
    BY <1>0, <2>1, <2>2, <2>3 DEF StopInv, Scripts
<1>14. ASSUME TakeTask, UNCHANGED <<killed, forbidden, timer>>, Waiting' \subseteq Waiting,
              pc' = pc \/ (forbidden = "no" /\ pc' \in Scripts)
       PROVE  StopInv'
  <2>1. pc = "loop" /\ ~killed /\ In(tasks') \subseteq In(tasks)
    BY <1>0, <1>14, TakeTaskEffect
  <2>2. /\ pc' \notin {"none", "created", "failed", "ended"} /\ ~killed'
    BY <1>14, <2>1 DEF Scripts
  <2>3. Plain("shutdownFinish") \in In(tasks') =>
           forbidden' = "terminate" /\ ~timer' /\ Waiting' = {} /\ pc' = "loop"
    BY <1>0, <1>14, <2>1 DEF StopInv
  <2>4. Plain("shutdownStart") \in In(tasks') => forbidden' = "terminate"
    BY <1>0, <1>14, <2>1 DEF StopInv
  <2> QED
    BY <2>2, <2>3, <2>4 DEF StopInv, In
<1>15. CASE HandleMessage
  <2>1. TakeTask /\ UNCHANGED <<killed, forbidden, timer, client>> /\ (pc' = pc \/ (forbidden = "no" /\ pc' \in Scripts))
    BY <1>15 DEF HandleMessage, PerformTask, Scripts
  <2> QED
    BY <1>14, <2>1 DEF Waiting
<1>16. CASE HandleLoaded
  <2>1. TakeTask /\ UNCHANGED <<killed, forbidden, timer>> /\ (pc' = pc \/ (forbidden = "no" /\ pc' \in Scripts))
    BY <1>16 DEF HandleLoaded, PerformTask, Scripts
  <2>2. Waiting' \subseteq Waiting
    BY <1>0, <1>16 DEF HandleLoaded, Waiting, LoadType
  <2> QED
    BY <1>14, <2>1, <2>2
<1>17. CASE TimerFires
  <2>1. In(tasks) = {} /\ tasks' = tasks
    BY <1>17, EmptyIn DEF TimerFires
  <2> QED
    BY <1>17, <2>1 DEF TimerFires, StopInv, Scripts, In
<1>18. pc \in Scripts => /\ ~killed /\ Plain("shutdownFinish") \notin In(tasks)
                         /\ pc \notin {"none", "created", "failed", "loop", "ended"}
  BY <1>0 DEF StopInv, Scripts
<1>19. CASE SetTimer \/ (\E throws \in BOOLEAN : ScriptReturns(throws)) \/ (\E l \in Loads : StartLoad(l))
  <2>1. /\ pc \in Scripts /\ tasks' = tasks /\ UNCHANGED <<killed, forbidden>>
        /\ pc' \in Scripts \cup {"evaluated", "loop"}
    BY <1>19 DEF SetTimer, ScriptReturns, StartLoad, InScript
  <2> QED
    BY <1>0, <1>18, <2>1 DEF StopInv, Scripts, In
<1>20. CASE Close
  <2>1. Plain("close") \in WorkerTask /\ Plain("close") \notin Shutdown
    BY WorkerTaskTypes DEF Plain, Shutdown
  <2>2. /\ In(tasks') \cap Shutdown \subseteq In(tasks) /\ pc \in Scripts /\ pc' = pc
        /\ killed' = killed /\ (forbidden = "terminate" => forbidden' = "terminate")
    BY <1>6, <1>20, <2>1 DEF Close, InScript
  <2> QED
    BY <1>0, <1>18, <2>2 DEF StopInv, Scripts, In, Shutdown
<1>21. CASE ShutdownStart
  <2>1. pc = "loop" /\ thread /\ Plain("destroyed") \notin In(mainTasks)
    BY <1>0, <1>21 DEF ShutdownStart, LifeInv, TaskInv
  <2>2. /\ client' = [l \in Loads |-> IF l \in Waiting THEN "done" ELSE client[l]]
        /\ Plain("shutdownStart") \in In(tasks)
        /\ In(tasks') \subseteq In(tasks) \cup {Plain("shutdownFinish")}
    BY <1>0, <1>21, <2>1, ShutdownStartEffect
  <2>3. Waiting' = {}
    BY <2>2 DEF Waiting
  <2>4. forbidden' = "terminate" /\ pc' = pc /\ timer' = FALSE /\ killed' = killed /\ ~killed
    BY <1>0, <1>21, <2>2 DEF ShutdownStart, StopInv
  <2> QED
    BY <2>1, <2>3, <2>4 DEF StopInv, In
<1>22. CASE ShutdownFinish
  <2>1. /\ TakeTask /\ Head(tasks).kind = "shutdownFinish" /\ killed' = TRUE
        /\ UNCHANGED <<pc, client, forbidden, timer>>
    BY <1>22 DEF ShutdownFinish, PerformTask, threadVars
  <2>2. /\ Plain("shutdownFinish") \in In(tasks) /\ In(tasks') \subseteq In(tasks) /\ pc = "loop"
    BY <1>0, <2>1, TakeTaskEffect, WorkerTaskFacts
  <2>3. forbidden = "terminate" /\ ~timer /\ Waiting = {}
    BY <1>0, <2>2 DEF StopInv
  <2> QED
    BY <2>1, <2>2, <2>3 DEF StopInv, Waiting, Scripts, In
<1>23. CASE LoopEnds
  BY <1>0, <1>23 DEF LoopEnds, StopInv, Waiting, Scripts, In
<1>24. CASE NestedTask
  <2>1. In(tasks') \subseteq In(tasks) /\ pc \in Scripts /\ UNCHANGED <<pc, killed, forbidden, timer>>
    BY <1>0, <1>24, NestedEffect DEF NestedTask, LifeInv
  <2> QED
    BY <1>0, <1>18, <2>1 DEF StopInv, In
<1>25. CASE UNCHANGED vars
  BY <1>1, <1>25 DEF vars, threadVars
<1> QED
  BY <1>4, <1>5, <1>7, <1>8, <1>9, <1>10, <1>11, <1>12, <1>13, <1>15, <1>16, <1>17, <1>19, <1>20,
     <1>21, <1>22, <1>23, <1>24, <1>25
  DEF Next, MainThreadTask, RunLoop, ScriptEnds

Loader == {"createLoader", "destroyLoader"}

LEMMA LoadStep ==
    ASSUME Inv, [Next]_vars
    PROVE  LoadInv'
<1>0. /\ LoadInv /\ StopInv /\ LifeInv /\ QueueType /\ LoadType /\ TaskInv /\ ThreadType
      /\ Ordered(mainTasks) /\ mainTasks \in Seq(MainTask)
  BY DEF Inv, TaskInv, QueueType
<1>1. ASSUME UNCHANGED <<client, bridge, nested>>,
             \A k \in Loader : \A l \in Loads : OfLoad(k, l) \in In(mainTasks') <=> OfLoad(k, l) \in In(mainTasks)
      PROVE  LoadInv'
  BY <1>0, <1>1, SMTT(20) DEF LoadInv, In, Loader
<1>2. CASE QuietActions
  <2>1. /\ QuietPush /\ pc \notin {"none", "ended"} /\ UNCHANGED <<client, bridge, nested>>
    BY <1>2, QuietActionsPush
  <2>2. Plain("destroyed") \notin In(mainTasks)
    BY <1>0, <2>1 DEF TaskInv
  <2> QED
    BY <1>0, <1>1, <2>1, <2>2, QuietEffect DEF Loader
<1>3. CASE \/ PostMessage \/ Terminate \/ ScriptFails \/ StartWorkerContext \/ CollectObject \/ ThreadStarts
           \/ Evaluate \/ SkipTask \/ ShutdownFinish \/ TimerFires \/ SetTimer \/ Close
  <2>1. UNCHANGED <<client, bridge, nested, mainTasks>>
    BY <1>3 DEF PostMessage, Terminate, ScriptFails, StartWorkerContext, CollectObject, ThreadStarts,
                Evaluate, SkipTask, ShutdownFinish, TimerFires, SetTimer, Close, threadVars
  <2> QED
    BY <1>1, <2>1
<1>4. CASE DeliverMessage \/ DeliverException \/ ReportActivity \/ ContextClosed \/ ContextDestroyed
  <2>1. \E kind \in {"message", "exception", "activity", "closed", "destroyed"} : TakeMainTask(kind)
    BY <1>4 DEF DeliverMessage, DeliverException, ReportActivity, ContextClosed, ContextDestroyed
  <2>2. In(mainTasks) = {Head(mainTasks)} \cup In(mainTasks') /\ Head(mainTasks).kind \notin Loader
    BY <1>0, <2>1, TakeMainTaskEffect DEF Loader
  <2>3. \A k \in Loader : \A l \in Loads : Head(mainTasks) # OfLoad(k, l)
    BY <2>2 DEF OfLoad
  <2>4. UNCHANGED <<client, bridge, nested>>
    BY <1>4 DEF DeliverMessage, DeliverException, ReportActivity, ContextClosed, ContextDestroyed, threadVars
  <2> QED
    BY <1>1, <2>2, <2>3, <2>4
<1>5. ASSUME NEW kind \in Loader, TakeMainTask(kind)
      PROVE  LET l == Head(mainTasks).load IN
             /\ l \in Loads /\ OfLoad(kind, l) \in In(mainTasks)
             /\ OfLoad("createLoader", l) \notin In(mainTasks')
             /\ In(mainTasks') \subseteq In(mainTasks)
             /\ \A k \in Loader : \A m \in Loads \ {l} :
                   OfLoad(k, m) \in In(mainTasks) => OfLoad(k, m) \in In(mainTasks')
  <2> DEFINE l == Head(mainTasks).load
  <2>1. /\ Head(mainTasks) \in MainTask /\ Head(mainTasks).kind = kind
        /\ In(mainTasks) = {Head(mainTasks)} \cup In(mainTasks')
        /\ \A y \in In(mainTasks') : ~Misplaced(Head(mainTasks), y)
    BY <1>0, <1>5, TakeMainTaskEffect
  <2>2. l \in Loads /\ Head(mainTasks) = OfLoad(kind, l)
    BY <2>1, MainTaskFacts DEF Loader
  <2>3. Misplaced(Head(mainTasks), OfLoad("createLoader", l))
    BY <2>1 DEF Misplaced, OfLoad, Loader
  <2>4. \A k \in Loader : \A m \in Loads \ {l} : OfLoad(k, m) # OfLoad(kind, l)
    BY DEF OfLoad
  <2> QED
    BY <2>1, <2>2, <2>3, <2>4
<1>6. CASE CreateLoader
  <2> DEFINE l == Head(mainTasks).load
  <2>1. /\ l \in Loads /\ OfLoad("createLoader", l) \in In(mainTasks)
        /\ OfLoad("createLoader", l) \notin In(mainTasks')
        /\ In(mainTasks') \subseteq In(mainTasks)
        /\ \A k \in Loader : \A m \in Loads \ {l} :
              OfLoad(k, m) \in In(mainTasks) => OfLoad(k, m) \in In(mainTasks')
        /\ Head(mainTasks) = OfLoad("createLoader", l)
        /\ In(mainTasks) = {Head(mainTasks)} \cup In(mainTasks')
    BY <1>0, <1>5, <1>6, TakeMainTaskEffect, MainTaskFacts DEF CreateLoader, Loader
  <2>2. bridge' = [bridge EXCEPT ![l] = "loading"] /\ UNCHANGED <<client, nested>>
    BY <1>6 DEF CreateLoader, threadVars
  <2>3. bridge[l] = "requested" /\ client[l] # "none"
    BY <1>0, <2>1 DEF LoadInv
  <2>4. OfLoad("destroyLoader", l) \in In(mainTasks) => OfLoad("destroyLoader", l) \in In(mainTasks')
    BY <2>1 DEF OfLoad
  <2> HIDE DEF l
  <2>5. /\ bridge'[l] = "loading" /\ \A m \in Loads \ {l} : bridge'[m] = bridge[m]
    BY <1>0, <2>1, <2>2 DEF LoadType
  <2>6. ASSUME NEW m \in Loads
        PROVE  /\ OfLoad("createLoader", m) \in In(mainTasks') => bridge'[m] = "requested"
               /\ OfLoad("destroyLoader", m) \in In(mainTasks') => client'[m] = "done"
               /\ bridge'[m] = "none" <=> client'[m] = "none"
               /\ bridge'[m] \notin {"none", "deleted"} =>
                     client'[m] = "waiting" \/ nested' = m \/ OfLoad("destroyLoader", m) \in In(mainTasks')
    <3>1. CASE m = l
      BY <1>0, <2>1, <2>2, <2>3, <2>4, <2>5, <3>1 DEF LoadInv
    <3>2. CASE m # l
      BY <1>0, <2>1, <2>2, <2>5, <3>2 DEF LoadInv, Loader
    <3> QED
      BY <3>1, <3>2
  <2> QED
    BY <2>6 DEF LoadInv, In
<1>7. CASE DestroyLoader
  <2> DEFINE l == Head(mainTasks).load
  <2>1. /\ l \in Loads /\ OfLoad("destroyLoader", l) \in In(mainTasks)
        /\ OfLoad("createLoader", l) \notin In(mainTasks')
        /\ In(mainTasks') \subseteq In(mainTasks)
        /\ \A k \in Loader : \A m \in Loads \ {l} :
              OfLoad(k, m) \in In(mainTasks) => OfLoad(k, m) \in In(mainTasks')
    BY <1>5, <1>7 DEF DestroyLoader, Loader
  <2>2. bridge' = [bridge EXCEPT ![l] = "deleted"] /\ UNCHANGED <<client, nested>>
    BY <1>7 DEF DestroyLoader, threadVars
  <2>3. client[l] = "done"
    BY <1>0, <2>1 DEF LoadInv
  <2> HIDE DEF l
  <2>5. /\ bridge'[l] = "deleted" /\ \A m \in Loads \ {l} : bridge'[m] = bridge[m]
    BY <1>0, <2>1, <2>2 DEF LoadType
  <2>6. ASSUME NEW m \in Loads
        PROVE  /\ OfLoad("createLoader", m) \in In(mainTasks') => bridge'[m] = "requested"
               /\ OfLoad("destroyLoader", m) \in In(mainTasks') => client'[m] = "done"
               /\ bridge'[m] = "none" <=> client'[m] = "none"
               /\ bridge'[m] \notin {"none", "deleted"} =>
                     client'[m] = "waiting" \/ nested' = m \/ OfLoad("destroyLoader", m) \in In(mainTasks')
    <3>1. CASE m = l
      BY <1>0, <2>1, <2>2, <2>3, <2>5, <3>1 DEF LoadInv
    <3>2. CASE m # l
      BY <1>0, <2>1, <2>2, <2>5, <3>2 DEF LoadInv, Loader
    <3> QED
      BY <3>1, <3>2
  <2> QED
    BY <2>6 DEF LoadInv, In
<1>8. ASSUME NEW l \in Loads, LoadFinishes(l)
      PROVE  LoadInv'
  <2>1. bridge[l] = "loading" /\ bridge' = [bridge EXCEPT ![l] = "finished"] /\ UNCHANGED <<mainTasks, client, nested>>
    BY <1>8 DEF LoadFinishes, threadVars
  <2>2. bridge'[l] = "finished" /\ \A m \in Loads \ {l} : bridge'[m] = bridge[m]
    BY <1>0, <2>1 DEF LoadType
  <2> QED
    BY <1>0, <2>1, <2>2 DEF LoadInv, In
<1>9. ASSUME NEW l \in Loads, StartLoad(l)
      PROVE  LoadInv'
  <2> DEFINE c == OfLoad("createLoader", l)
  <2>1. /\ client[l] = "none" /\ mainTasks' = Append(mainTasks, c)
        /\ client' = [client EXCEPT ![l] = "waiting"] /\ bridge' = [bridge EXCEPT ![l] = "requested"]
        /\ nested = NoLoad
    BY <1>9 DEF StartLoad, InScript
  <2>2. In(mainTasks') = In(mainTasks) \cup {c}
    BY <1>0, <2>1, MainTaskTypes, AppendIn
  <2>3. /\ client'[l] = "waiting" /\ bridge'[l] = "requested"
        /\ \A m \in Loads \ {l} : client'[m] = client[m] /\ bridge'[m] = bridge[m]
    BY <1>0, <2>1 DEF LoadType
  <2>4. /\ \A m \in Loads : OfLoad("destroyLoader", m) # c
        /\ \A m \in Loads \ {l} : OfLoad("createLoader", m) # c
        /\ OfLoad("destroyLoader", l) \notin In(mainTasks)
    BY <1>0, <2>1 DEF OfLoad, LoadInv
  <2> HIDE DEF c
  <2>6. ASSUME NEW m \in Loads
        PROVE  /\ OfLoad("createLoader", m) \in In(mainTasks') => bridge'[m] = "requested"
               /\ OfLoad("destroyLoader", m) \in In(mainTasks') => client'[m] = "done"
               /\ bridge'[m] = "none" <=> client'[m] = "none"
               /\ bridge'[m] \notin {"none", "deleted"} =>
                     client'[m] = "waiting" \/ nested' = m \/ OfLoad("destroyLoader", m) \in In(mainTasks')
    <3>1. CASE m = l
      BY <2>2, <2>3, <2>4, <3>1
    <3>2. CASE m # l
      BY <1>0, <2>1, <2>2, <2>3, <2>4, <3>2, LoadsFacts DEF LoadInv
    <3> QED
      BY <3>1, <3>2
  <2> QED
    BY <2>6 DEF LoadInv, In
<1>10. ASSUME NEW l \in Loads, bridge' = bridge, bridge[l] # "none",
              client' = [client EXCEPT ![l] = "done"],
              mainTasks' = Append(mainTasks, OfLoad("destroyLoader", l)),
              nested' = nested \/ (nested = l /\ nested' = NoLoad)
       PROVE  LoadInv'
  <2> DEFINE d == OfLoad("destroyLoader", l)
  <2>1. In(mainTasks') = In(mainTasks) \cup {d}
    BY <1>0, <1>10, MainTaskTypes, AppendIn
  <2>2. client'[l] = "done" /\ \A m \in Loads \ {l} : client'[m] = client[m]
    BY <1>0, <1>10 DEF LoadType
  <2>3. /\ \A m \in Loads : OfLoad("createLoader", m) # d
        /\ \A m \in Loads \ {l} : OfLoad("destroyLoader", m) # d
        /\ d = OfLoad("destroyLoader", l)
    BY DEF OfLoad
  <2> HIDE DEF d
  <2>4. ASSUME NEW m \in Loads
        PROVE  /\ OfLoad("createLoader", m) \in In(mainTasks') => bridge'[m] = "requested"
               /\ OfLoad("destroyLoader", m) \in In(mainTasks') => client'[m] = "done"
               /\ bridge'[m] = "none" <=> client'[m] = "none"
               /\ bridge'[m] \notin {"none", "deleted"} =>
                     client'[m] = "waiting" \/ nested' = m \/ OfLoad("destroyLoader", m) \in In(mainTasks')
    <3>1. CASE m = l
      BY <1>0, <1>10, <2>1, <2>2, <2>3, <3>1 DEF LoadInv
    <3>2. CASE m # l
      BY <1>0, <1>10, <2>1, <2>2, <2>3, <3>2 DEF LoadInv
    <3> QED
      BY <3>1, <3>2
  <2> QED
    BY <2>4 DEF LoadInv, In
<1>11. CASE HandleLoaded
  <2> DEFINE l == Head(tasks).load
  <2>1. l \in Loads
    <3>1. TakeTask /\ Head(tasks).kind = "loaded"
      BY <1>11 DEF HandleLoaded, PerformTask
    <3> QED
      BY <1>0, <3>1, TakeTaskEffect, WorkerTaskFacts
  <2>2. CASE client[l] = "waiting"
    <3>1. /\ bridge' = bridge /\ nested' = nested
          /\ client' = [client EXCEPT ![l] = "done"]
          /\ mainTasks' = Append(mainTasks, OfLoad("destroyLoader", l))
      BY <1>11, <2>2 DEF HandleLoaded
    <3>2. bridge[l] # "none"
      BY <1>0, <2>1, <2>2 DEF LoadInv
    <3> HIDE DEF l
    <3> QED
      BY <1>10, <2>1, <3>1, <3>2
  <2>3. CASE client[l] # "waiting"
    BY <1>1, <1>11, <2>3 DEF HandleLoaded
  <2> QED
    BY <2>2, <2>3
<1>12. CASE SyncLoadReturns
  <2>1. /\ nested \in Loads /\ client[nested] = "done" /\ nested' = NoLoad /\ UNCHANGED <<client, bridge>>
        /\ mainTasks' = Append(mainTasks, OfLoad("destroyLoader", nested))
    BY <1>0, <1>12, LoadsFacts DEF SyncLoadReturns, ThreadType
  <2>2. client' = [client EXCEPT ![nested] = "done"] /\ bridge[nested] # "none"
    BY <1>0, <2>1 DEF LoadType, LoadInv
  <2> QED
    BY <1>10, <2>1, <2>2
<1>13. CASE NestedTask
  <2>1. /\ nested \in Loads /\ client[nested] = "waiting" /\ UNCHANGED <<mainTasks, bridge, nested>>
        /\ client' = client \/ client' = [client EXCEPT ![nested] = "done"]
    BY <1>0, <1>13, LoadsFacts DEF NestedTask, ThreadType
  <2>2. CASE client' = client
    BY <1>1, <2>1, <2>2
  <2>3. CASE client' = [client EXCEPT ![nested] = "done"]
    <3>1. client'[nested] = "done" /\ \A m \in Loads \ {nested} : client'[m] = client[m]
      BY <1>0, <2>1, <2>3 DEF LoadType
    <3> QED
      BY <1>0, <2>1, <3>1 DEF LoadInv, In
  <2> QED
    BY <2>1, <2>2, <2>3
<1>14. CASE ShutdownStart
  <2>1. pc = "loop" /\ UNCHANGED <<bridge, nested>>
    BY <1>14 DEF ShutdownStart
  <2>2. Plain("destroyed") \notin In(mainTasks)
    BY <1>0, <2>1 DEF TaskInv
  <2>3. /\ In(mainTasks') = In(mainTasks) \cup {OfLoad("destroyLoader", l) : l \in Waiting}
        /\ client' = [l \in Loads |-> IF l \in Waiting THEN "done" ELSE client[l]]
    BY <1>0, <1>14, <2>2, ShutdownStartEffect
  <2>4. ASSUME NEW m \in Loads
        PROVE  /\ OfLoad("createLoader", m) \in In(mainTasks') => OfLoad("createLoader", m) \in In(mainTasks)
               /\ OfLoad("destroyLoader", m) \in In(mainTasks') <=>
                     OfLoad("destroyLoader", m) \in In(mainTasks) \/ m \in Waiting
    BY <2>3 DEF OfLoad
  <2>5. ASSUME NEW m \in Loads
        PROVE  /\ client'[m] = IF m \in Waiting THEN "done" ELSE client[m]
               /\ m \in Waiting <=> client[m] = "waiting"
    BY <2>3 DEF Waiting
  <2>6. ASSUME NEW m \in Loads
        PROVE  /\ OfLoad("createLoader", m) \in In(mainTasks') => bridge'[m] = "requested"
               /\ OfLoad("destroyLoader", m) \in In(mainTasks') => client'[m] = "done"
               /\ bridge'[m] = "none" <=> client'[m] = "none"
               /\ bridge'[m] \notin {"none", "deleted"} =>
                     client'[m] = "waiting" \/ nested' = m \/ OfLoad("destroyLoader", m) \in In(mainTasks')
    BY <1>0, <2>1, <2>4, <2>5 DEF LoadInv
  <2> QED
    BY <2>6 DEF LoadInv, In
<1>15. CASE LoopEnds
  <2>1. mainTasks' = Append(mainTasks, Plain("destroyed")) /\ UNCHANGED <<client, bridge, nested>>
    BY <1>15 DEF LoopEnds
  <2>2. In(mainTasks') = In(mainTasks) \cup {Plain("destroyed")}
    BY <1>0, <2>1, MainTaskTypes, AppendIn
  <2>3. \A k \in Loader : \A l \in Loads : OfLoad(k, l) # Plain("destroyed")
    BY DEF OfLoad, Plain, Loader
  <2> QED
    BY <1>1, <2>1, <2>2, <2>3
<1>16. CASE UNCHANGED vars
  BY <1>1, <1>16 DEF vars, threadVars
<1> QED
  BY <1>2, <1>3, <1>4, <1>6, <1>7, <1>8, <1>9, <1>11, <1>12, <1>13, <1>14, <1>15, <1>16
  DEF Next, MainThreadTask, RunLoop, ScriptEnds, QuietActions

-----------------------------------------------------------------------------
LEMMA InitInv == Init => Inv
<1> SUFFICES ASSUME Init PROVE Inv
  OBVIOUS
<1>1. ParentType /\ ThreadType /\ LoadType
  <2>1. <<>> \in Seq(1..MaxMessages) /\ 0 \in 0..MaxMessages /\ 0 \in 0..MaxPosts
    BY BoundsFacts
  <2>2. ParentType
    BY <2>1 DEF Init, ParentType
  <2>3. ThreadType
    BY <2>1 DEF Init, ThreadType, Positions
  <2>4. LoadType
    BY DEF Init, LoadType
  <2> QED
    BY <2>2, <2>3, <2>4
<1>2. QueueType /\ TaskInv /\ In(tasks) = {} /\ In(mainTasks) = {}
  BY EmptyIn DEF Init, QueueType, TaskInv, Ordered
<1>3. LifeInv /\ StopInv /\ LoadInv
  BY <1>2 DEF Init, LifeInv, StopInv, LoadInv, Waiting, Scripts
<1> QED
  BY <1>1, <1>2, <1>3 DEF Inv

LEMMA InvStep == Inv /\ [Next]_vars => Inv'
<1> SUFFICES ASSUME Inv, [Next]_vars PROVE Inv'
  OBVIOUS
<1>1. QueueType'
  BY TaskStep, WorkerQueueType DEF QueueType
<1> QED
  BY <1>1, ScalarStep, LifeStep, StopStep, TaskStep, LoadStep DEF Inv

LEMMA InvHolds == Spec => []Inv
<1>1. Init => Inv
  BY InitInv
<1>2. Inv /\ [Next]_vars => Inv'
  BY InvStep
<1> QED
  BY <1>1, <1>2, PTL DEF Spec

LEMMA InvOutlives == Inv => ProxyOutlivesUse
<1> SUFFICES ASSUME Inv PROVE ProxyOutlivesUse
  OBVIOUS
<1>0. LifeInv /\ StopInv /\ TaskInv /\ LoadInv /\ LoadType /\ ThreadType /\ Len(mainTasks) \in Nat
  BY LenProperties DEF Inv, QueueType
<1>1. ASSUME NEW i \in 1..Len(mainTasks), mainTasks[i].kind = "destroyed"
      PROVE  i = Len(mainTasks)
  <2>1. Len(mainTasks) \in 1..Len(mainTasks)
    BY <1>0
  <2>2. ~(i < Len(mainTasks))
    BY <1>0, <1>1, <2>1 DEF TaskInv, Ordered, Misplaced
  <2> QED
    BY <1>0, <2>2
<1>2. ASSUME ~proxy
      PROVE  /\ ~object /\ mainTasks = <<>>
             /\ pc \in {"none", "ended"}
             /\ \A l \in Loads : bridge[l] \in {"none", "deleted"}
  <2>1. ~object /\ ~thread /\ mainTasks = <<>> /\ In(mainTasks) = {} /\ pc \in {"none", "ended"}
    BY <1>0, <1>2, EmptyIn DEF LifeInv, TaskInv, ThreadType
  <2>2. nested = NoLoad
    BY <1>0, <2>1 DEF LifeInv, Scripts
  <2>3. ASSUME NEW l \in Loads PROVE bridge[l] \in {"none", "deleted"}
    <3>1. client[l] # "waiting"
      BY <1>0, <2>1 DEF StopInv, Waiting
    <3> QED
      BY <1>0, <2>1, <2>2, <3>1, LoadsFacts DEF LoadInv
  <2> QED
    BY <2>1, <2>3
<1> QED
  BY <1>1, <1>2 DEF ProxyOutlivesUse

\* The proxy is deleted only when neither queue, no loader bridge and no thread
\* can use it again (WorkerMessagingProxy.cpp:334).
THEOREM NothingUsesADeadProxy == Spec => []ProxyOutlivesUse
  BY InvHolds, InvOutlives, PTL

-----------------------------------------------------------------------------
(* Counting the elements of a sequence that are in a set.                  *)

LEMMA CountType ==
    ASSUME NEW S, NEW s \in Seq(S), NEW T
    PROVE  /\ Count(s, T) \in Nat
           /\ IsFiniteSet({i \in 1..Len(s) : s[i] \in T})
           /\ (\A i \in 1..Len(s) : s[i] \notin T) => Count(s, T) = 0
           /\ Count(s, T) = 0 => \A i \in 1..Len(s) : s[i] \notin T
<1> DEFINE A == {i \in 1..Len(s) : s[i] \in T}
<1>1. IsFiniteSet(1..Len(s))
  BY LenProperties, FS_Interval
<1>2. A \in SUBSET (1..Len(s))
  OBVIOUS
<1>3. IsFiniteSet(A) /\ Cardinality(A) \in Nat
  BY <1>1, <1>2, FS_Subset, FS_CardinalityType
<1>4. (\A i \in 1..Len(s) : s[i] \notin T) <=> A = {}
  OBVIOUS
<1>5. Cardinality(A) = 0 <=> A = {}
  BY <1>3, FS_EmptySet
<1> QED
  BY <1>3, <1>4, <1>5 DEF Count

LEMMA CountAppend ==
    ASSUME NEW S, NEW s \in Seq(S), NEW e \in S, NEW T
    PROVE  Count(Append(s, e), T) = Count(s, T) + (IF e \in T THEN 1 ELSE 0)
<1> DEFINE r == Append(s, e)
           A == {i \in 1..Len(s) : s[i] \in T}
           B == {i \in 1..Len(r) : r[i] \in T}
<1>1. /\ Len(s) \in Nat /\ Len(r) = Len(s) + 1 /\ r[Len(s) + 1] = e
      /\ \A i \in 1..Len(s) : r[i] = s[i]
  BY AppendProperties, LenProperties
<1>2. IsFiniteSet(A) /\ Cardinality(A) \in Nat
  BY CountType DEF Count
<1> HIDE DEF r
<1>3. Len(s) + 1 \notin A
  BY <1>1
<1>4. CASE e \in T
  <2>1. B = A \cup {Len(s) + 1}
    BY <1>1, <1>4
  <2>2. Cardinality(B) = Cardinality(A) + 1
    BY <1>2, <1>3, <2>1, FS_AddElement
  <2> QED
    BY <1>4, <2>2 DEF Count, r
<1>5. CASE e \notin T
  <2>1. B = A
    BY <1>1, <1>5
  <2> HIDE DEF A, B
  <2>2. Cardinality(B) = Cardinality(A) + 0
    BY <1>2, <2>1
  <2>3. Cardinality(B) = Cardinality(A) + (IF e \in T THEN 1 ELSE 0)
    BY <1>5, <2>2
  <2> QED
    BY <2>3, Zenon DEF Count, r, A, B
<1> QED
  BY <1>4, <1>5

\* Shifting a set of positions, from some position on, does not change its size.
LEMMA SameSize ==
    ASSUME NEW A, NEW B, NEW f \in [A -> B], IsFiniteSet(A),
           \A x, y \in A : f[x] = f[y] => x = y, \A z \in B : \E x \in A : f[x] = z
    PROVE  Cardinality(B) = Cardinality(A)
<1>1. f \in Bijection(A, B)
  BY DEF Bijection, Injection, Surjection, IsInjective
<1>2. ExistsBijection(A, B)
  BY <1>1 DEF ExistsBijection
<1> QED
  BY <1>2, FS_Bijection

LEMMA CountTail ==
    ASSUME NEW S, NEW s \in Seq(S), s # <<>>, NEW T
    PROVE  Count(s, T) = Count(Tail(s), T) + (IF Head(s) \in T THEN 1 ELSE 0)
<1> DEFINE r == Tail(s)
           A == {i \in 1..Len(r) : r[i] \in T}
           B == {i \in 1..Len(s) : s[i] \in T}
           C == B \ {1}
           f == [i \in A |-> i + 1]
<1>1. /\ r \in Seq(S) /\ Len(r) = Len(s) - 1 /\ Len(s) \in Nat \ {0} /\ Head(s) = s[1]
      /\ \A i \in 1..Len(r) : r[i] = s[i + 1]
  BY HeadTailProperties, LenProperties, EmptySeq
<1>2. IsFiniteSet(A) /\ IsFiniteSet(B) /\ Cardinality(B) \in Nat
  BY <1>1, CountType DEF Count
<1> HIDE DEF r
<1>3. f \in [A -> C]
  BY <1>1
<1>4. \A x, y \in A : f[x] = f[y] => x = y
  BY <1>1
<1>5. ASSUME NEW z \in C PROVE \E x \in A : f[x] = z
  <2>1. z - 1 \in A /\ (z - 1) + 1 = z
    BY <1>1, <1>5
  <2> QED
    BY <2>1
<1>6. Cardinality(C) = Cardinality(A)
  <2> HIDE DEF f, A, C
  <2> QED
    BY <1>2, <1>3, <1>4, <1>5, SameSize
<1>7. Cardinality(C) = IF 1 \in B THEN Cardinality(B) - 1 ELSE Cardinality(B)
  BY <1>2, FS_RemoveElement
<1>8. 1 \in B <=> Head(s) \in T
  BY <1>1
<1> HIDE DEF A, B, C
<1>9. Cardinality(B) = Cardinality(A) + (IF Head(s) \in T THEN 1 ELSE 0)
  BY <1>2, <1>6, <1>7, <1>8
<1> QED
  BY <1>9 DEF A, B, r, Count

LEMMA ConcatFacts ==
    ASSUME NEW S, NEW s \in Seq(S), NEW t \in Seq(S)
    PROVE  /\ Len(s \o t) = Len(s) + Len(t) /\ Len(s) \in Nat /\ Len(t) \in Nat
           /\ \A i \in 1..Len(s) : (s \o t)[i] = s[i]
           /\ \A i \in (Len(s) + 1)..Len(s \o t) : /\ (s \o t)[i] = t[i - Len(s)]
                                                 /\ i - Len(s) \in 1..Len(t)
  BY ConcatProperties

LEMMA RemoveFacts ==
    ASSUME NEW S, NEW s \in Seq(S), NEW k \in 1..Len(s)
    PROVE  LET r == RemoveAt(s, k) IN
           /\ Len(s) \in Nat /\ Len(r) = Len(s) - 1
           /\ \A i \in 1..(k - 1) : r[i] = s[i]
           /\ \A i \in k..(Len(s) - 1) : r[i] = s[i + 1]
<1> DEFINE r == RemoveAt(s, k)
           p == SubSeq(s, 1, k - 1)
           q == SubSeq(s, k + 1, Len(s))
<1>1. Len(s) \in Nat /\ \A i \in 1..Len(s) : s[i] \in S
  BY LenProperties, ElementOfSeq
<1>2. p \in Seq(S) /\ Len(p) = k - 1 /\ \A i \in 1..(k - 1) : p[i] = s[i]
  <2>1. \A i \in 1..(k - 1) : s[i] \in S
    BY <1>1
  <2> QED
    BY <1>1, <2>1, SubSeqProperties
<1>3. q \in Seq(S) /\ Len(q) = Len(s) - k /\ \A i \in 1..(Len(s) - k) : q[i] = s[k + i]
  BY <1>1, SubSeqProperties
<1>4. r = p \o q
  BY DEF RemoveAt
<1> HIDE DEF p, q, r
<1>5. /\ Len(r) = Len(s) - 1
      /\ \A i \in 1..(k - 1) : r[i] = s[i]
      /\ \A i \in k..(Len(s) - 1) : r[i] = s[i + 1]
  <2>1. /\ Len(r) = Len(p) + Len(q)
        /\ \A i \in 1..Len(p) : r[i] = p[i]
        /\ \A i \in (Len(p) + 1)..Len(r) : r[i] = q[i - Len(p)]
    <3>1. p \in Seq(S) /\ q \in Seq(S)
      BY <1>2, <1>3
    <3> QED
      BY <1>4, <3>1, ConcatFacts
  <2>2. Len(r) = Len(s) - 1
    BY <1>1, <1>2, <1>3, <2>1
  <2>3. ASSUME NEW i \in 1..(k - 1) PROVE r[i] = s[i]
    BY <1>1, <1>2, <2>1
  <2>4. ASSUME NEW i \in k..(Len(s) - 1) PROVE r[i] = s[i + 1]
    <3>1. /\ i \in (Len(p) + 1)..Len(r) /\ i - Len(p) \in 1..(Len(s) - k)
          /\ k + (i - Len(p)) = i + 1
      BY <1>1, <1>2, <2>2
    <3>2. r[i] = q[i - Len(p)] /\ q[i - Len(p)] = s[k + (i - Len(p))]
      BY <1>3, <2>1, <3>1
    <3> QED
      BY <3>1, <3>2
  <2> QED
    BY <2>2, <2>3, <2>4
<1> QED
  BY <1>1, <1>5 DEF r

LEMMA CountRemove ==
    ASSUME NEW S, NEW s \in Seq(S), NEW k \in 1..Len(s), NEW T, s[k] \notin T
    PROVE  Count(RemoveAt(s, k), T) = Count(s, T)
<1> DEFINE r == RemoveAt(s, k)
           A == {i \in 1..Len(s) : s[i] \in T}
           B == {i \in 1..Len(r) : r[i] \in T}
           f == [i \in A |-> IF i < k THEN i ELSE i - 1]
<1>1. Len(s) \in Nat /\ \A i \in 1..Len(s) : s[i] \in S
  BY LenProperties, ElementOfSeq
<1>5. /\ Len(r) = Len(s) - 1
      /\ \A i \in 1..(k - 1) : r[i] = s[i]
      /\ \A i \in k..(Len(s) - 1) : r[i] = s[i + 1]
  BY RemoveFacts
<1> HIDE DEF r
<1>6. IsFiniteSet(A)
  BY CountType
<1>7. f \in [A -> B]
  <2> SUFFICES ASSUME NEW i \in A PROVE (IF i < k THEN i ELSE i - 1) \in B
    OBVIOUS
  <2>1. CASE i < k
    BY <1>1, <1>5, <2>1
  <2>2. CASE ~(i < k)
    <3>1. i # k /\ i - 1 \in k..(Len(s) - 1) /\ (i - 1) + 1 = i
      BY <1>1, <2>2
    <3>2. r[i - 1] = s[i] /\ i - 1 \in 1..Len(r)
      BY <1>1, <1>5, <3>1
    <3> QED
      BY <2>2, <3>2
  <2> QED
    BY <2>1, <2>2
<1>8. ASSUME NEW x \in A, NEW y \in A, f[x] = f[y] PROVE x = y
  <2>1. x # k /\ y # k
    OBVIOUS
  <2> QED
    BY <1>1, <1>8, <2>1
<1>9. ASSUME NEW z \in B PROVE \E x \in A : f[x] = z
  <2>1. CASE z < k
    <3>1. z \in A /\ f[z] = z
      BY <1>1, <1>5, <2>1
    <3> QED
      BY <3>1
  <2>2. CASE ~(z < k)
    <3>1. z \in k..(Len(s) - 1) /\ z + 1 \in 1..Len(s) /\ ~(z + 1 < k) /\ (z + 1) - 1 = z
      BY <1>1, <1>5, <2>2
    <3>2. z + 1 \in A
      BY <1>5, <3>1
    <3>3. f[z + 1] = z
      BY <3>1, <3>2
    <3> QED
      BY <3>2, <3>3
  <2> QED
    BY <2>1, <2>2
<1> HIDE DEF f, A, B
<1>10. Cardinality(B) = Cardinality(A)
  BY <1>6, <1>7, <1>8, <1>9, SameSize
<1> QED
  BY <1>10 DEF A, B, r, Count

LEMMA CountConcatNone ==
    ASSUME NEW S, NEW s \in Seq(S), NEW t \in Seq(S), NEW T, In(t) \cap T = {}
    PROVE  Count(s \o t, T) = Count(s, T)
<1> DEFINE r == s \o t
<1>1. /\ Len(r) = Len(s) + Len(t) /\ Len(s) \in Nat /\ Len(t) \in Nat
      /\ \A i \in 1..Len(s) : r[i] = s[i]
      /\ \A i \in (Len(s) + 1)..Len(r) : r[i] = t[i - Len(s)] /\ i - Len(s) \in 1..Len(t)
  BY ConcatFacts
<1> HIDE DEF r
<1>2. \A i \in (Len(s) + 1)..Len(r) : r[i] \notin T
  BY <1>1 DEF In
<1>3. {i \in 1..Len(r) : r[i] \in T} = {i \in 1..Len(s) : s[i] \in T}
  <2>1. \A i \in 1..Len(r) : i \in 1..Len(s) \/ i \in (Len(s) + 1)..Len(r)
    BY <1>1
  <2>2. \A i \in 1..Len(s) : i \in 1..Len(r)
    BY <1>1
  <2> QED
    BY <1>1, <1>2, <2>1, <2>2
<1> QED
  BY <1>3 DEF Count, r

-----------------------------------------------------------------------------
(* Every counted message is confirmed once.                                *)

Queued == Count(tasks, MessageTasks)
Confirming == Count(mainTasks, Confirmations)
Handling == IF pc = "handling" THEN 1 ELSE 0

LEMMA OwedType ==
    ASSUME QueueType
    PROVE  /\ Queued \in Nat /\ Confirming \in Nat /\ Handling \in {0, 1} /\ Owed \in Nat
           /\ Owed = Queued + Confirming + Handling
<1>1. Queued \in Nat /\ Confirming \in Nat
  BY CountType DEF Queued, Confirming, QueueType
<1> QED
  BY <1>1 DEF Owed, Queued, Confirming, Handling

LEMMA ConfirmationKinds ==
    /\ \A t \in MainTask : t \in Confirmations <=> t.kind = "activity" /\ t.confirming
    /\ \A a \in BOOLEAN : Activity(TRUE, a) \in Confirmations /\ Activity(FALSE, a) \notin Confirmations
    /\ \A t \in WorkerTask : t \in MessageTasks <=> t.kind = "message"
<1>1. \A a \in BOOLEAN : Activity(TRUE, a) \in MainTask
  BY MainTaskTypes
<1> QED
  BY <1>1 DEF Confirmations, MessageTasks, Activity

\* What the steps do to the three counts.
LEMMA AppendMain ==
    ASSUME QueueType, NEW t \in MainTask, mainTasks' = Append(mainTasks, t)
    PROVE  Confirming' = Confirming + (IF t \in Confirmations THEN 1 ELSE 0)
<1>1. Count(mainTasks', Confirmations) = Count(mainTasks, Confirmations) + (IF t \in Confirmations THEN 1 ELSE 0)
  BY CountAppend DEF QueueType
<1> QED
  BY <1>1 DEF Confirming, Count

LEMMA TakeMain ==
    ASSUME QueueType, NEW kind, TakeMainTask(kind)
    PROVE  Confirming = Confirming' + (IF Head(mainTasks) \in Confirmations THEN 1 ELSE 0)
<1>1. mainTasks' = Tail(mainTasks) /\ mainTasks # <<>>
  BY DEF TakeMainTask
<1>2. Count(mainTasks, Confirmations)
         = Count(Tail(mainTasks), Confirmations) + (IF Head(mainTasks) \in Confirmations THEN 1 ELSE 0)
  BY <1>1, CountTail DEF QueueType
<1> QED
  BY <1>1, <1>2 DEF Confirming, Count

LEMMA AppendTask ==
    ASSUME QueueType, NEW t \in WorkerTask, tasks' = Append(tasks, t)
    PROVE  Queued' = Queued + (IF t.kind = "message" THEN 1 ELSE 0)
<1>1. Count(tasks', MessageTasks) = Count(tasks, MessageTasks) + (IF t \in MessageTasks THEN 1 ELSE 0)
  BY CountAppend DEF QueueType
<1> QED
  BY <1>1, ConfirmationKinds DEF Queued, Count

LEMMA TakeTaskCount ==
    ASSUME QueueType, TakeTask
    PROVE  Queued = Queued' + (IF Head(tasks).kind = "message" THEN 1 ELSE 0)
<1>1. tasks' = Tail(tasks) /\ tasks # <<>>
  BY DEF TakeTask
<1>2. Count(tasks, MessageTasks)
         = Count(Tail(tasks), MessageTasks) + (IF Head(tasks) \in MessageTasks THEN 1 ELSE 0)
  BY <1>1, CountTail DEF QueueType
<1>3. Head(tasks) \in WorkerTask
  BY TakeTaskEffect
<1> QED
  BY <1>1, <1>2, <1>3, ConfirmationKinds DEF Queued, Count

LEMMA SameCounts ==
    /\ tasks' = tasks => Queued' = Queued
    /\ mainTasks' = mainTasks => Confirming' = Confirming
  BY DEF Queued, Confirming, Count

\* A step that takes no part in the accounting, or one that only loses
\* messages of a closing context.
LEMMA Uncounted ==
    ASSUME CountInv, QueueType, QueueType',
           UNCHANGED <<unconfirmed, sent, early>>,
           thread' => thread, asked => asked', closing => closing',
           pc' = "none" => pc = "none" /\ tasks' = tasks,
           thread' /\ ~asked' =>
              \/ Queued' + Confirming' + Handling' = Queued + Confirming + Handling
              \/ closing /\ Queued' + Confirming' + Handling' <= Queued + Confirming + Handling
    PROVE  CountInv'
<1>1. /\ Owed = Queued + Confirming + Handling /\ Owed \in Nat
      /\ Owed' = Queued' + Confirming' + Handling' /\ Owed' \in Nat
  <2>1. Owed = Queued + Confirming + Handling /\ Owed \in Nat
    BY OwedType
  <2>2. Count(tasks, MessageTasks)' \in Nat /\ Count(mainTasks, Confirmations)' \in Nat
    BY CountType DEF QueueType, Count
  <2> QED
    BY <2>1, <2>2 DEF Owed, Queued, Confirming, Handling
<1>2. unconfirmed' \in Nat /\ unconfirmed' <= sent' /\ Len(early') <= sent'
  BY DEF CountInv
<1>3. pc' = "none" => tasks' = <<>>
  BY DEF CountInv
<1>4. ASSUME thread', ~asked'
      PROVE  unconfirmed' >= Owed' /\ (~closing' => unconfirmed' = Owed')
  <2>1. unconfirmed \in Nat /\ unconfirmed >= Owed /\ (~closing => unconfirmed = Owed)
    BY <1>4 DEF CountInv
  <2>2. unconfirmed' = unconfirmed /\ (Owed' = Owed \/ (closing /\ Owed' <= Owed))
    BY <1>1, <1>4
  <2> HIDE DEF Owed
  <2> QED
    BY <1>1, <2>1, <2>2
<1> QED
  BY <1>2, <1>3, <1>4 DEF CountInv

(* Arithmetic of the counts.                                               *)

LEMMA CardInterval == \A n \in Nat : Cardinality(1..n) = n
<1> SUFFICES ASSUME NEW n \in Nat PROVE Cardinality(1..n) = n
  OBVIOUS
<1>1. Cardinality(1..n) = IF 1 > n THEN 0 ELSE n - 1 + 1
  BY FS_Interval
<1> QED
  BY <1>1

LEMMA OneLess ==
    \A u, o, p, n \in Nat : p + 1 = o /\ u >= o /\ u <= n =>
       u - 1 \in Nat /\ u - 1 <= n /\ u - 1 >= p /\ (u = o => u - 1 = p)
  OBVIOUS

LEMMA PlusZero == \A p \in Nat : \A c : c = p + 0 => p = c
  OBVIOUS

LEMMA PlusOne ==
    \A q, b : \A p \in Nat : q = p + (IF b THEN 1 ELSE 0) => p <= q
<1> SUFFICES ASSUME NEW q, NEW b, NEW p \in Nat, q = p + (IF b THEN 1 ELSE 0) PROVE p <= q
  OBVIOUS
<1>1. CASE b
  <2>1. q = p + 1
    BY <1>1
  <2> QED
    BY <2>1
<1>2. CASE ~b
  <2>1. q = p + 0
    BY <1>2
  <2> QED
    BY <2>1
<1> QED
  BY <1>1, <1>2

LEMMA SumLess == \A q, r, c, h \in Nat : r <= q => r + c + h <= q + c + h
  OBVIOUS

LEMMA SumMoves ==
    \A r, c, d, h \in Nat : d + h = c + 1 => r + d + h = (r + 1) + c + 0
  OBVIOUS

LEMMA CountStep ==
    ASSUME Inv, Inv', CountInv, [Next]_vars
    PROVE  CountInv'
<1>0. /\ QueueType /\ QueueType' /\ ParentType /\ ThreadType /\ LifeInv /\ LifeInv' /\ TaskInv /\ LoadInv
      /\ StopInv
      /\ Queued \in Nat /\ Confirming \in Nat /\ Handling \in {0, 1}
      /\ Owed = Queued + Confirming + Handling /\ sent \in Nat
      /\ Queued' \in Nat /\ Confirming' \in Nat
  <2>1. Count(tasks, MessageTasks)' \in Nat /\ Count(mainTasks, Confirmations)' \in Nat
    BY CountType DEF Inv, QueueType, Count
  <2> QED
    BY <2>1, OwedType DEF Inv, ParentType, Queued, Confirming
<1>1. ASSUME UNCHANGED <<unconfirmed, sent, early, thread, asked, pc, closing, tasks>>, Confirming' = Confirming
      PROVE  CountInv'
  BY <1>0, <1>1, SameCounts, Uncounted DEF Handling
<1>2. ASSUME TerminateWorkerContext, UNCHANGED <<unconfirmed, sent, early, thread, pc, closing>>
      PROVE  CountInv'
  <2>1. asked' = TRUE /\ (thread \/ tasks' = tasks)
    BY <1>0, <1>2, TerminateEffect
  <2> QED
    BY <1>0, <1>2, <2>1, Uncounted DEF LifeInv
<1>3. CASE Terminate \/ CollectObject \/ ContextClosed
  <2>1. TerminateWorkerContext /\ UNCHANGED <<unconfirmed, sent, early, thread, pc, closing>>
    BY <1>3 DEF Terminate, CollectObject, ContextClosed, threadVars
  <2> QED
    BY <1>2, <2>1
<1>4. CASE PostMessage
  <2>1. sent' = sent + 1 /\ sent' \in 1..MaxMessages /\ UNCHANGED <<thread, asked, pc, closing, mainTasks>>
    BY <1>0, <1>4, BoundsFacts DEF PostMessage, threadVars, ParentType
  <2>2. CASE thread
    <3>1. tasks' = Append(tasks, Message(sent')) /\ unconfirmed' = unconfirmed + 1 /\ early' = early
      BY <1>4, <2>2 DEF PostMessage
    <3>2. Message(sent') \in WorkerTask /\ Message(sent').kind = "message"
      BY <2>1, WorkerTaskTypes DEF Message
    <3>3. Queued' = Queued + 1 /\ Confirming' = Confirming /\ Handling' = Handling
      BY <1>0, <2>1, <3>1, <3>2, AppendTask, SameCounts DEF Handling
    <3>4. Owed' = Owed + 1
      BY <1>0, <3>3 DEF Owed, Queued, Confirming, Handling
    <3>5. unconfirmed' \in Nat /\ unconfirmed' <= sent' /\ Len(early') <= sent'
      BY <1>0, <2>1, <3>1, LenProperties DEF CountInv, ParentType
    <3>6. pc' # "none"
      BY <1>0, <2>1, <2>2 DEF LifeInv
    <3>7. ~asked' => unconfirmed' >= Owed' /\ (~closing' => unconfirmed' = Owed')
      <4>1. ~asked => unconfirmed >= Owed /\ (~closing => unconfirmed = Owed)
        BY <2>2 DEF CountInv
      <4>2. unconfirmed \in Nat /\ Owed \in Nat
        BY <1>0 DEF CountInv
      <4> HIDE DEF Owed
      <4> QED
        BY <2>1, <3>1, <3>4, <4>1, <4>2
    <3> QED
      BY <3>5, <3>6, <3>7 DEF CountInv
  <2>3. CASE ~thread
    <3>1. early' = Append(early, sent') /\ UNCHANGED <<unconfirmed, tasks>>
      BY <1>4, <2>3 DEF PostMessage
    <3>2. Len(early') = Len(early) + 1 /\ Len(early) \in Nat
      BY <1>0, <2>1, <3>1, AppendProperties, LenProperties DEF ParentType
    <3> QED
      BY <1>0, <2>1, <2>3, <3>1, <3>2 DEF CountInv
  <2> QED
    BY <2>2, <2>3
<1>5. CASE StartWorkerContext
  <2>1. pc = "none" /\ ~thread /\ pc' \in {"created", "failed"} /\ UNCHANGED <<mainTasks, asked, sent, closing>>
    BY <1>0, <1>5 DEF StartWorkerContext, LifeInv
  <2>2. CASE asked
    BY <1>5, <2>1, <2>2 DEF StartWorkerContext, CountInv
  <2>3. CASE ~asked
    <3>1. tasks = <<>> /\ mainTasks = <<>>
      BY <1>0, <2>1 DEF CountInv, TaskInv
    <3>2. unconfirmed' = Len(early) /\ early' = <<>> /\ tasks' = tasks \o EarlyPosts
      BY <1>5, <2>3 DEF StartWorkerContext, PostEarlyTasks, PostEarly
    <3>3. tasks' = EarlyPosts
      BY <1>0, <3>1, <3>2, EarlyPostsType, ConcatEmptySeq
    <3>4. Count(EarlyPosts, MessageTasks) = Len(early) /\ Len(early) \in Nat
      <4>1. Len(EarlyPosts) = Len(early) /\ \A i \in 1..Len(EarlyPosts) : EarlyPosts[i] \in MessageTasks
        BY <1>0, EarlyPostsType, ElementOfSeq
      <4>2. {i \in 1..Len(EarlyPosts) : EarlyPosts[i] \in MessageTasks} = 1..Len(early)
        BY <4>1
      <4>3. Len(early) \in Nat /\ Cardinality(1..Len(early)) = Len(early)
        <5>1. Len(early) \in Nat
          BY <1>0, LenProperties DEF ParentType
        <5>2. PICK n \in Nat : n = Len(early)
          BY <5>1
        <5>3. Cardinality(1..n) = n
          BY CardInterval
        <5> QED
          BY <5>1, <5>2, <5>3, Zenon
      <4> QED
        BY <4>2, <4>3 DEF Count
    <3>5. Queued' = Len(early) /\ Confirming' = 0 /\ Handling' = 0
      <4>1. Queued' = Len(early)
        BY <3>3, <3>4 DEF Queued, Count
      <4>2. Confirming = 0
        <5>1. \A i \in 1..Len(mainTasks) : mainTasks[i] \notin Confirmations
          BY <3>1
        <5> QED
          BY <1>0, <5>1, CountType DEF Confirming, QueueType
      <4> QED
        BY <2>1, <4>1, <4>2, SameCounts DEF Handling
    <3>6. Owed' = Len(early)
      BY <3>4, <3>5 DEF Owed, Queued, Confirming, Handling
    <3>7. Len(early) <= sent /\ Len(early') = 0
      BY <3>2 DEF CountInv
    <3> HIDE DEF Owed
    <3> QED
      BY <1>0, <2>1, <3>2, <3>4, <3>6, <3>7 DEF CountInv
  <2> QED
    BY <2>2, <2>3
<1>6. CASE DeliverMessage \/ DeliverException \/ CreateLoader \/ DestroyLoader
  <2>1. /\ \E kind \in {"message", "exception", "createLoader", "destroyLoader"} : TakeMainTask(kind)
        /\ UNCHANGED <<unconfirmed, sent, early, thread, asked, pc, closing, tasks>>
    BY <1>6 DEF DeliverMessage, DeliverException, CreateLoader, DestroyLoader, parentVars, threadVars
  <2>2. PICK kind \in {"message", "exception", "createLoader", "destroyLoader"} : TakeMainTask(kind)
    BY <2>1
  <2>3. Head(mainTasks) \notin Confirmations
    BY <1>0, <2>2, TakeMainTaskEffect DEF Confirmations
  <2>4. Count(mainTasks, Confirmations)' \in Nat
    BY <1>0, CountType DEF QueueType, Count
  <2>5. Confirming' = Confirming
    BY <1>0, <2>2, <2>3, <2>4, TakeMain DEF Confirming
  <2> QED
    BY <1>1, <2>1, <2>5
<1>7. CASE ReportActivity
  <2> DEFINE t == Head(mainTasks)
  <2>1. /\ TakeMainTask("activity") /\ UNCHANGED <<sent, early, thread, asked, pc, closing, tasks>>
        /\ unconfirmed' = IF t.confirming /\ ~asked THEN unconfirmed - 1 ELSE unconfirmed
    BY <1>7 DEF ReportActivity, threadVars
  <2>2. t \in MainTask /\ t.kind = "activity" /\ t.confirming \in BOOLEAN /\ thread
    BY <1>0, <2>1, TakeMainTaskEffect, MainTaskFacts DEF TaskInv
  <2>3. Confirming = Confirming' + (IF t.confirming THEN 1 ELSE 0)
    BY <1>0, <2>1, <2>2, TakeMain, ConfirmationKinds
  <2>4. Confirming' \in Nat
    BY <1>0, CountType DEF QueueType, Count, Confirming
  <2> HIDE DEF t
  <2>5. CASE asked
    BY <1>0, <2>1, <2>5 DEF CountInv
  <2>6. CASE ~asked /\ ~t.confirming
    <3>1. Confirming = Confirming' + 0
      BY <2>3, <2>6
    <3>2. Confirming' = Confirming
      BY <2>4, <3>1, PlusZero, Zenon
    <3>3. unconfirmed' = unconfirmed
      BY <2>1, <2>6
    <3> QED
      BY <1>1, <2>1, <3>2, <3>3
  <2>7. CASE ~asked /\ t.confirming
    <3>1. Owed' + 1 = Owed /\ Owed' \in Nat
      <4>1. Queued' = Queued /\ Handling' = Handling
        BY <2>1, SameCounts DEF Handling
      <4> QED
        BY <1>0, <2>3, <2>4, <2>7, <4>1 DEF Owed, Queued, Confirming, Handling
    <3>2. unconfirmed >= Owed /\ (~closing => unconfirmed = Owed) /\ unconfirmed \in Nat /\ unconfirmed <= sent
      BY <2>2, <2>7 DEF CountInv
    <3>3. unconfirmed' = unconfirmed - 1
      BY <2>1, <2>7
    <3>4. /\ unconfirmed' \in Nat /\ unconfirmed' <= sent /\ unconfirmed' >= Owed'
          /\ unconfirmed = Owed => unconfirmed' = Owed'
      <4>1. Owed \in Nat /\ sent \in Nat
        BY <1>0
      <4> QED
        BY <3>1, <3>2, <3>3, <4>1, OneLess
    <3>5. ~closing => unconfirmed' = Owed'
      BY <3>2, <3>4
    <3>6. /\ UNCHANGED <<sent, early, pc, closing, tasks>> /\ Len(early) <= sent
          /\ pc = "none" => tasks = <<>>
      BY <2>1 DEF CountInv
    <3> HIDE DEF Owed
    <3> QED
      BY <3>4, <3>5, <3>6 DEF CountInv
  <2> QED
    BY <2>2, <2>5, <2>6, <2>7
<1>8. CASE ContextDestroyed \/ ScriptFails
  <2>1. /\ UNCHANGED <<unconfirmed, sent, early, pc, closing, tasks>>
        /\ \/ thread' = FALSE
           \/ UNCHANGED <<thread, asked, mainTasks>>
    BY <1>8 DEF ContextDestroyed, ScriptFails, threadVars
  <2>2. CASE thread' = FALSE
    BY <2>1, <2>2 DEF CountInv
  <2>3. CASE UNCHANGED <<thread, asked, mainTasks>>
    BY <1>1, <2>1, <2>3, SameCounts
  <2> QED
    BY <2>1, <2>2, <2>3
<1>9. ASSUME NEW t \in WorkerTask, tasks' \in {tasks, Append(tasks, t)}, t.kind # "message", pc # "none",
             UNCHANGED <<unconfirmed, sent, early, thread, asked, pc, mainTasks>>, closing => closing'
      PROVE  CountInv'
  <2>1. Queued' = Queued + 0
    <3>1. CASE tasks' = tasks
      BY <1>0, <3>1, SameCounts
    <3>2. CASE tasks' = Append(tasks, t)
      BY <1>0, <1>9, <3>2, AppendTask
    <3> QED
      BY <1>9, <3>1, <3>2
  <2> QED
    BY <1>0, <1>9, <2>1, SameCounts, Uncounted DEF Handling
<1>10. ASSUME NEW l \in Loads, LoadFinishes(l)
       PROVE  CountInv'
  <2>1. OfLoad("loaded", l) \in WorkerTask /\ OfLoad("loaded", l).kind # "message"
    BY WorkerTaskTypes DEF OfLoad
  <2>2. pc # "none"
    BY <1>0, <1>10 DEF LoadFinishes, LoadInv, StopInv
  <2>3. /\ tasks' \in {tasks, Append(tasks, OfLoad("loaded", l))}
        /\ UNCHANGED <<unconfirmed, sent, early, thread, asked, pc, mainTasks, closing>>
    BY <1>10 DEF LoadFinishes, parentVars, threadVars
  <2> QED
    BY <1>9, <2>1, <2>2, <2>3
<1>11. CASE Close
  <2>1. Plain("close") \in WorkerTask /\ Plain("close").kind # "message"
    BY WorkerTaskTypes DEF Plain
  <2> QED
    BY <1>9, <1>11, <2>1 DEF Close, InScript, Scripts, parentVars
<1>12. ASSUME NEW t \in MainTask, mainTasks' \in {mainTasks, Append(mainTasks, t)}, t \notin Confirmations
       PROVE  Confirming' = Confirming
  <2>1. CASE mainTasks' = mainTasks
    BY <2>1, SameCounts
  <2>2. CASE mainTasks' = Append(mainTasks, t)
    <3>1. Confirming' = Confirming + 0
      BY <1>0, <1>12, <2>2, AppendMain
    <3> QED
      BY <1>0, <3>1
  <2> QED
    BY <1>12, <2>1, <2>2
<1>13. ASSUME UNCHANGED <<unconfirmed, sent, early, thread, asked, closing, tasks>>, Confirming' = Confirming,
              pc # "none", pc' # "none", pc # "handling", pc' # "handling"
       PROVE  CountInv'
  BY <1>0, <1>13, SameCounts, Uncounted DEF Handling
<1>14. CASE ThreadStarts \/ Evaluate \/ TimerFires
  <2>1. /\ UNCHANGED <<unconfirmed, sent, early, thread, asked, closing, tasks, mainTasks>>
        /\ pc # "none" /\ pc' # "none" /\ pc # "handling" /\ pc' # "handling"
    BY <1>14 DEF ThreadStarts, Evaluate, TimerFires, parentVars
  <2> QED
    BY <1>13, <2>1, SameCounts
<1>15. CASE EnterLoop \/ LoopEnds
  <2>1. /\ UNCHANGED <<unconfirmed, sent, early, thread, asked, closing, tasks>>
        /\ pc # "none" /\ pc' # "none" /\ pc # "handling" /\ pc' # "handling"
        /\ \E t \in {Activity(FALSE, ContextActive), Plain("destroyed")} : mainTasks' = Append(mainTasks, t)
    BY <1>15 DEF EnterLoop, LoopEnds, parentVars
  <2>2. \A t \in {Activity(FALSE, ContextActive), Plain("destroyed")} : t \in MainTask /\ t \notin Confirmations
    <3>1. ContextActive \in BOOLEAN
      BY <1>0 DEF ContextActive, ThreadType
    <3> QED
      BY <3>1, MainTaskTypes, ConfirmationKinds DEF Confirmations, Plain
  <2> QED
    BY <1>12, <1>13, <2>1, <2>2
<1>16. CASE PostToObject \/ ImportReturns \/ SyncLoadReturns \/ SetTimer \/ \E l \in Loads : StartLoad(l)
  <2>1. UNCHANGED <<unconfirmed, sent, early, thread, asked, pc, closing, tasks>>
    BY <1>16 DEF PostToObject, ImportReturns, SyncLoadReturns, SetTimer, StartLoad, parentVars
  <2>2. \E t \in MainTask : mainTasks' \in {mainTasks, Append(mainTasks, t)} /\ t \notin Confirmations
    <3>1. CASE PostToObject
      <4>1. mainTasks' = Append(mainTasks, Message(posted')) /\ posted' \in 1..MaxPosts
        BY <1>0, <3>1, BoundsFacts DEF PostToObject, ThreadType
      <4> QED
        BY <4>1, MainTaskTypes DEF Confirmations, Message
    <3>2. CASE ImportReturns
      <4>1. ContextActive \in BOOLEAN
        BY <1>0 DEF ContextActive, ThreadType
      <4> QED
        BY <3>2, <4>1, MainTaskTypes, ConfirmationKinds DEF ImportReturns
    <3>3. CASE SyncLoadReturns
      <4>1. mainTasks' = Append(mainTasks, OfLoad("destroyLoader", nested)) /\ nested \in Loads
        BY <1>0, <3>3, LoadsFacts DEF SyncLoadReturns, ThreadType
      <4> QED
        BY <4>1, MainTaskTypes DEF Confirmations, OfLoad
    <3>4. CASE SetTimer
      <4>1. Plain("closed") \in MainTask /\ Plain("closed") \notin Confirmations
        BY MainTaskTypes DEF Confirmations, Plain
      <4> QED
        BY <3>4, <4>1 DEF SetTimer
    <3>5. ASSUME NEW l \in Loads, StartLoad(l)
          PROVE  \E t \in MainTask : mainTasks' \in {mainTasks, Append(mainTasks, t)} /\ t \notin Confirmations
      BY <3>5, MainTaskTypes DEF StartLoad, Confirmations, OfLoad
    <3> QED
      BY <1>16, <3>1, <3>2, <3>3, <3>4, <3>5
  <2> QED
    BY <1>1, <1>12, <2>1, <2>2
<1>17. ASSUME NEW throws \in BOOLEAN, ScriptReturns(throws)
       PROVE  CountInv'
  <2> DEFINE x == IF throws THEN <<Exception(posted')>> ELSE <<>>
             m == mainTasks \o x
  <2>1. /\ UNCHANGED <<unconfirmed, sent, early, thread, asked, closing, tasks>>
        /\ pc \in Scripts /\ pc' \in {"evaluated", "loop"}
        /\ mainTasks' = m \o (IF pc = "handling" THEN <<Activity(TRUE, ContextActive)>> ELSE <<>>)
    BY <1>17 DEF ScriptReturns, InScript, parentVars
  <2>2. m \in Seq(MainTask) /\ Count(m, Confirmations) = Confirming
    <3>1. CASE throws
      <4>1. Exception(posted') \in MainTask /\ Exception(posted') \notin Confirmations
        <5>1. posted' \in 1..MaxPosts
          BY <1>0, <1>17, <3>1, BoundsFacts DEF ScriptReturns, ThreadType
        <5> QED
          BY <5>1, MainTaskTypes DEF Confirmations, Exception
      <4>2. x \in Seq(MainTask) /\ In(x) = {Exception(posted')}
        BY <3>1, <4>1, SingletonSeq
      <4> HIDE DEF x
      <4> QED
        BY <1>0, <4>1, <4>2, CountConcatNone, ConcatProperties DEF QueueType, Confirming
    <3>2. CASE ~throws
      <4>1. m = mainTasks
        BY <1>0, <3>2, ConcatEmptySeq DEF QueueType
      <4> QED
        BY <1>0, <4>1 DEF QueueType, Confirming
    <3> QED
      BY <3>1, <3>2
  <2> HIDE DEF m
  <2>3. CASE pc = "handling"
    <3> DEFINE a == Activity(TRUE, ContextActive)
    <3>1. a \in MainTask /\ a \in Confirmations
      <4>1. ContextActive \in BOOLEAN
        BY <1>0 DEF ContextActive, ThreadType
      <4> QED
        BY <4>1, MainTaskTypes, ConfirmationKinds
    <3>2. mainTasks' = m \o <<a>>
      BY <2>1, <2>3, Zenon
    <3> HIDE DEF a
    <3>3. mainTasks' = Append(m, a)
      BY <2>2, <3>1, <3>2, AppendIsConcat
    <3>4. Count(mainTasks', Confirmations) = Confirming + 1
      BY <2>2, <3>1, <3>3, CountAppend
    <3>5. Confirming' = Confirming + 1
      BY <3>4 DEF Confirming, Count
    <3>6. Handling = 1 /\ Handling' = 0 /\ Queued' = Queued
      BY <2>1, <2>3, SameCounts DEF Handling
    <3> QED
      BY <1>0, <2>1, <3>5, <3>6, Uncounted
  <2>4. CASE pc # "handling"
    <3>1. mainTasks' = m
      BY <2>1, <2>2, <2>4, ConcatEmptySeq
    <3>2. Confirming' = Confirming
      BY <2>2, <3>1 DEF Confirming, Count
    <3> QED
      BY <1>13, <2>1, <2>4, <3>2 DEF Scripts
  <2> QED
    BY <2>3, <2>4
<1>18. ASSUME TakeTask
       PROVE  /\ Queued = Queued' + (IF Head(tasks).kind = "message" THEN 1 ELSE 0) /\ Queued' \in Nat
              /\ pc = "loop"
  <2>1. pc = "loop"
    BY <1>0, <1>18, TakeTaskEffect
  <2> QED
    BY <1>0, <1>18, <2>1, TakeTaskCount
<1>19. CASE SkipTask
  <2>1. /\ TakeTask /\ closing
        /\ UNCHANGED <<unconfirmed, sent, early, thread, asked, pc, closing, mainTasks>>
    BY <1>19 DEF SkipTask, parentVars, threadVars
  <2>2. Queued' \in Nat /\ Queued' <= Queued /\ pc = "loop"
    <3>1. Queued = Queued' + (IF Head(tasks).kind = "message" THEN 1 ELSE 0)
      BY <1>18, <2>1
    <3>2. Queued' <= Queued
      BY <1>0, <3>1, PlusOne, Zenon
    <3> QED
      BY <1>0, <1>18, <2>1, <3>2
  <2>3. Confirming' = Confirming /\ Handling' = Handling
    BY <2>1, SameCounts DEF Handling
  <2>4. Queued' + Confirming' + Handling' <= Queued + Confirming + Handling
    BY <1>0, <2>2, <2>3, SumLess
  <2>5. pc' # "none"
    BY <2>1, <2>2
  <2> QED
    BY <1>0, <2>1, <2>4, <2>5, Uncounted
<1>20. CASE HandleMessage
  <2>1. /\ TakeTask /\ Head(tasks).kind = "message"
        /\ UNCHANGED <<unconfirmed, sent, early, thread, asked, closing>>
    BY <1>20 DEF HandleMessage, PerformTask, parentVars
  <2>2. Queued = Queued' + 1 /\ Queued' \in Nat /\ pc = "loop" /\ Handling = 0
    BY <1>18, <2>1 DEF Handling
  <2>3. Confirming' + Handling' = Confirming + 1 /\ Confirming' \in Nat /\ Handling' \in {0, 1} /\ pc' # "none"
    <3>1. CASE forbidden = "no"
      BY <1>0, <1>20, <3>1, SameCounts DEF HandleMessage, Handling
    <3>2. CASE forbidden # "no"
      <4>1. mainTasks' = Append(mainTasks, Activity(TRUE, ContextActive)) /\ pc' = pc
        BY <1>20, <3>2 DEF HandleMessage
      <4>2. Activity(TRUE, ContextActive) \in MainTask /\ Activity(TRUE, ContextActive) \in Confirmations
        <5>1. ContextActive \in BOOLEAN
          BY <1>0 DEF ContextActive, ThreadType
        <5> QED
          BY <5>1, MainTaskTypes, ConfirmationKinds
      <4>3. Confirming' = Confirming + 1
        BY <1>0, <4>1, <4>2, AppendMain
      <4> QED
        BY <1>0, <2>2, <4>1, <4>3 DEF Handling
    <3> QED
      BY <3>1, <3>2
  <2>4. Queued' + Confirming' + Handling' = Queued + Confirming + Handling
    <3>1. Handling' \in Nat /\ Queued' \in Nat /\ Confirming' \in Nat /\ Queued \in Nat /\ Confirming \in Nat
      BY <1>0, <2>3
    <3>2. Queued' + Confirming' + Handling' = Queued + Confirming + 0
      <4>1. Queued = Queued' + 1
        BY <2>2
      <4>2. Confirming' + Handling' = Confirming + 1
        BY <2>3
      <4>3. PICK r, c, d, h \in Nat : r = Queued' /\ c = Confirming /\ d = Confirming' /\ h = Handling'
        BY <3>1, Zenon
      <4>4. d + h = c + 1
        BY <4>2, <4>3, Zenon
      <4>5. r + d + h = (r + 1) + c + 0
        BY <4>4, SumMoves
      <4> QED
        BY <4>1, <4>3, <4>5, Zenon
    <3> QED
      BY <2>2, <3>2, Zenon
  <2> QED
    BY <1>0, <2>1, <2>3, <2>4, Uncounted
<1>21. CASE HandleLoaded \/ NotifyClosed \/ ShutdownFinish
  <2>1. /\ TakeTask /\ Head(tasks).kind # "message" /\ (Head(tasks).kind = "loaded" \/ ~HandleLoaded)
        /\ UNCHANGED <<unconfirmed, sent, early, thread, asked, closing>>
    BY <1>21 DEF HandleLoaded, NotifyClosed, ShutdownFinish, PerformTask, parentVars, threadVars
  <2>2. Queued = Queued' + 0 /\ Queued' \in Nat /\ pc = "loop" /\ Handling = 0
    BY <1>18, <2>1 DEF Handling
  <2>3. Handling' = 0 /\ pc' # "none"
    BY <1>21, <2>2 DEF HandleLoaded, NotifyClosed, ShutdownFinish, threadVars, Handling
  <2>4. \E t \in MainTask : mainTasks' \in {mainTasks, Append(mainTasks, t)} /\ t \notin Confirmations
    <3>1. Plain("closed") \in MainTask /\ Plain("closed") \notin Confirmations
      BY MainTaskTypes DEF Confirmations, Plain
    <3>2. CASE NotifyClosed \/ ShutdownFinish
      BY <3>1, <3>2 DEF NotifyClosed, ShutdownFinish
    <3>3. CASE HandleLoaded
      <4>1. Head(tasks).load \in Loads
        BY <1>0, <2>1, <3>3, TakeTaskEffect, WorkerTaskFacts
      <4>2. OfLoad("destroyLoader", Head(tasks).load) \in MainTask
            /\ OfLoad("destroyLoader", Head(tasks).load) \notin Confirmations
        BY <4>1, MainTaskTypes DEF Confirmations, OfLoad
      <4>3. mainTasks' \in {mainTasks, Append(mainTasks, OfLoad("destroyLoader", Head(tasks).load))}
        BY <3>3 DEF HandleLoaded
      <4> QED
        BY <4>2, <4>3
    <3> QED
      BY <1>21, <3>2, <3>3
  <2>5. Confirming' = Confirming
    BY <1>12, <2>4
  <2>6. Queued' = Queued
    BY <2>2, PlusZero, Zenon
  <2>7. Queued' + Confirming' + Handling' = Queued + Confirming + Handling
    BY <2>2, <2>3, <2>5, <2>6
  <2> QED
    BY <1>0, <2>1, <2>2, <2>3, <2>7, Uncounted
<1>22. CASE ShutdownStart
  <2>1. /\ pc = "loop" /\ tasks # <<>> /\ Head(tasks).kind = "shutdownStart"
        /\ tasks' = Append(Tail(tasks), Plain("shutdownFinish"))
        /\ UNCHANGED <<unconfirmed, sent, early, thread, asked, pc, closing>>
    BY <1>22 DEF ShutdownStart, parentVars
  <2>2. Queued' = Queued
    <3> DEFINE r == Tail(tasks)
               e == Plain("shutdownFinish")
    <3>1. /\ r \in Seq(WorkerTask) /\ e \in WorkerTask /\ e \notin MessageTasks
          /\ Head(tasks) \notin MessageTasks
      BY <1>0, <2>1, HeadTailSplit, WorkerTaskTypes DEF QueueType, MessageTasks, Plain
    <3>2. Count(tasks, MessageTasks) = Count(r, MessageTasks) + 0
      BY <1>0, <2>1, <3>1, CountTail DEF QueueType
    <3>3. tasks' = Append(r, e)
      BY <2>1
    <3> HIDE DEF r, e
    <3>4. Count(tasks', MessageTasks) = Count(r, MessageTasks) + 0
      BY <3>1, <3>3, CountAppend
    <3> QED
      BY <3>2, <3>4 DEF Queued, Count
  <2>3. Confirming' = Confirming
    <3> DEFINE t == [i \in 1..Cardinality(Waiting) |-> OfLoad("destroyLoader", SetToSeq(Waiting)[i])]
    <3>1. t \in Seq(MainTask) /\ In(t) = {OfLoad("destroyLoader", l) : l \in Waiting}
      <4>1. Waiting \in SUBSET Loads
        BY DEF Waiting
      <4> QED
        BY <4>1, CancelledLoads
    <3>2. mainTasks' = mainTasks \o t
      BY <1>22 DEF ShutdownStart, Waiting
    <3> HIDE DEF t
    <3>3. In(t) \cap Confirmations = {}
      BY <3>1 DEF Confirmations, OfLoad
    <3>4. Count(mainTasks', Confirmations) = Count(mainTasks, Confirmations)
      BY <1>0, <3>1, <3>2, <3>3, CountConcatNone DEF QueueType
    <3> QED
      BY <3>4 DEF Confirming, Count
  <2> QED
    BY <1>0, <2>1, <2>2, <2>3, Uncounted DEF Handling
<1>23. CASE NestedTask
  <2>1. PICK i \in 1..Len(tasks) : tasks[i] = OfLoad("loaded", nested) /\ tasks' = RemoveAt(tasks, i)
    BY <1>23 DEF NestedTask
  <2>2. tasks[i] \notin MessageTasks
    BY <2>1 DEF MessageTasks, OfLoad
  <2>3. Count(tasks', MessageTasks) = Count(tasks, MessageTasks)
    BY <1>0, <2>1, <2>2, CountRemove DEF QueueType
  <2>4. /\ UNCHANGED <<unconfirmed, sent, early, thread, asked, pc, closing, mainTasks>> /\ pc # "none"
    BY <1>0, <1>23 DEF NestedTask, parentVars, LifeInv, Scripts
  <2>5. Queued' = Queued /\ Confirming' = Confirming /\ Handling' = Handling
    BY <2>3, <2>4, SameCounts DEF Queued, Count, Handling
  <2> QED
    BY <1>0, <2>4, <2>5, Uncounted
<1>24. CASE UNCHANGED vars
  BY <1>1, <1>24, SameCounts DEF vars, parentVars, threadVars
<1> QED
  BY <1>3, <1>4, <1>5, <1>6, <1>7, <1>8, <1>10, <1>11, <1>14, <1>15, <1>16, <1>17, <1>19, <1>20,
     <1>21, <1>22, <1>23, <1>24
  DEF Next, MainThreadTask, RunLoop, ScriptEnds

-----------------------------------------------------------------------------
LEMMA CountHolds == Spec => [](Inv /\ CountInv)
<1>1. Init => Inv /\ CountInv
  BY InitInv DEF Init, CountInv
<1>2. Inv /\ CountInv /\ [Next]_vars => (Inv /\ CountInv)'
  BY InvStep, CountStep
<1> QED
  BY <1>1, <1>2, PTL DEF Spec

LEMMA InvTypes == Inv /\ CountInv => TypeOK
<1> SUFFICES ASSUME Inv, CountInv PROVE TypeOK
  OBVIOUS
<1>1. ParentType /\ ThreadType /\ LoadType /\ QueueType
  BY DEF Inv
<1>2. unconfirmed \in 0..MaxMessages
  BY <1>1, BoundsFacts DEF CountInv, ParentType
<1> QED
  BY <1>1, <1>2 DEF TypeOK, ParentType, ThreadType, LoadType, QueueType, Positions

LEMMA InvOwed == Inv /\ CountInv => ConfirmationsAreOwed
<1> SUFFICES ASSUME Inv, CountInv PROVE ConfirmationsAreOwed
  OBVIOUS
<1>1. tasks \in Seq(WorkerTask) /\ mainTasks \in Seq(MainTask)
  BY DEF Inv, QueueType
<1>2. CountIn(tasks, IsMessage) = Count(tasks, MessageTasks)
  <2>1. \A i \in 1..Len(tasks) : tasks[i].kind = "message" <=> tasks[i] \in MessageTasks
    BY <1>1, ElementOfSeq DEF MessageTasks
  <2>2. {i \in 1..Len(tasks) : tasks[i].kind = "message"} = {i \in 1..Len(tasks) : tasks[i] \in MessageTasks}
    BY <2>1
  <2> QED
    BY <2>2 DEF CountIn, IsMessage, Count
<1>3. CountIn(mainTasks, IsConfirmation) = Count(mainTasks, Confirmations)
  <2>1. \A i \in 1..Len(mainTasks) : (mainTasks[i].kind = "activity" /\ mainTasks[i].confirming)
                                        <=> mainTasks[i] \in Confirmations
    BY <1>1, ElementOfSeq DEF Confirmations
  <2>2. {i \in 1..Len(mainTasks) : mainTasks[i].kind = "activity" /\ mainTasks[i].confirming}
           = {i \in 1..Len(mainTasks) : mainTasks[i] \in Confirmations}
    BY <2>1
  <2> QED
    BY <2>2 DEF CountIn, IsConfirmation, Count
<1>4. thread /\ ~asked => unconfirmed >= Owed /\ (~closing => unconfirmed = Owed)
  BY DEF CountInv
<1> QED
  BY <1>2, <1>3, <1>4 DEF ConfirmationsAreOwed, Owed

\* Every variable keeps its type; the count of unconfirmed messages in
\* particular never goes below zero (WorkerMessagingProxy.cpp:369).
THEOREM TypeCorrect == Spec => []TypeOK
  BY CountHolds, InvTypes, PTL

\* Until termination is asked for, the proxy counts every message that is still
\* to be confirmed, and no other while the context is not closing
\* (WorkerMessagingProxy.cpp:366).
THEOREM CountIsExact == Spec => []ConfirmationsAreOwed
  BY CountHolds, InvOwed, PTL

-----------------------------------------------------------------------------
(* What the parent has still to hear.  When the last report that a context *)
(* is idle has been sent, it is, and it stays so until a message is taken; *)
(* an unconfirmed message stands for every report the parent cannot trust. *)

\* The reports the parent has still to hear, the last it heard being the one at
\* position 0; the last of all, at k, tells that the context is idle.
Silent(s, had, k) ==
    /\ k \in 0..Len(s)
    /\ IF k = 0 THEN ~had ELSE s[k].kind = "activity" /\ ~s[k].active
    /\ \A j \in 1..Len(s) : k < j => s[j].kind # "activity"
After(s, k) == {s[j] : j \in {i \in 1..Len(s) : k < i}}
Idle == pc = "loop" /\ (~ContextActive \/ closing)

\* The report of an import is followed by the confirmation of its message; the
\* one that tells that the loop was entered is the first.
Unfounded(s, had, i) ==
    /\ s[i].kind = "activity" /\ ~s[i].confirming
    /\ \A j \in 1..Len(s) : i < j => s[j] \notin Confirmations
    /\ ~(had /\ \A j \in 1..Len(s) : j < i => s[j].kind # "activity")

Starting == {"created", "failed", "begin", "evaluating", "evaluated"}

FlagsInv ==
    /\ ~asked => ~killed /\ forbidden # "terminate"
    /\ importing => pc = "handling"
    /\ \A l \in SyncLoads : client[l] = "waiting" => nested = l
Unheard ==
    hadActivity /\ \A j \in 1..Len(mainTasks) : mainTasks[j].kind # "activity"
Trusted ==
    /\ \A i \in 1..Len(mainTasks) : ~Unfounded(mainTasks, hadActivity, i)
    /\ \A k \in 0..Len(mainTasks) : Silent(mainTasks, hadActivity, k) =>
          Idle /\ \A t \in After(mainTasks, k) : ~IsPost(t)
PictureInv ==
    thread /\ ~asked =>
        /\ pc \in Starting => Unheard
        /\ pc # "handling" => Trusted

LEMMA AppendFacts ==
    ASSUME NEW S, NEW s \in Seq(S), NEW t \in S
    PROVE  /\ Len(Append(s, t)) = Len(s) + 1 /\ Len(s) \in Nat
           /\ Append(s, t)[Len(s) + 1] = t
           /\ \A i \in 1..Len(s) : Append(s, t)[i] = s[i]
  BY AppendProperties, LenProperties

LEMMA TailFacts ==
    ASSUME NEW S, NEW s \in Seq(S), s # <<>>
    PROVE  /\ Tail(s) \in Seq(S) /\ Len(Tail(s)) = Len(s) - 1 /\ Len(s) \in Nat \ {0}
           /\ Head(s) = s[1]
           /\ \A i \in 1..Len(Tail(s)) : Tail(s)[i] = s[i + 1]
  BY HeadTailProperties, LenProperties, EmptySeq

LEMMA SilentAppend ==
    ASSUME NEW S, NEW s \in Seq(S), NEW t \in S, NEW had, NEW k, Silent(Append(s, t), had, k)
    PROVE  IF t.kind = "activity"
           THEN ~t.active /\ After(Append(s, t), k) = {}
           ELSE Silent(s, had, k) /\ After(Append(s, t), k) = After(s, k) \cup {t}
<1> DEFINE r == Append(s, t)
<1>1. /\ Len(r) = Len(s) + 1 /\ Len(s) \in Nat /\ r[Len(s) + 1] = t
      /\ \A i \in 1..Len(s) : r[i] = s[i]
  BY AppendFacts
<1> HIDE DEF r
<1>2. /\ k \in 0..(Len(s) + 1)
      /\ IF k = 0 THEN ~had ELSE r[k].kind = "activity" /\ ~r[k].active
      /\ \A j \in 1..(Len(s) + 1) : k < j => r[j].kind # "activity"
  BY <1>1 DEF Silent, r
<1>3. CASE t.kind = "activity"
  <2>1. k = Len(s) + 1
    BY <1>1, <1>2, <1>3
  <2>2. ~t.active
    BY <1>1, <1>2, <2>1
  <2>3. {i \in 1..Len(r) : k < i} = {}
    BY <1>1, <2>1
  <2>4. After(r, k) = {}
    BY <2>3 DEF After
  <2> QED
    BY <1>3, <2>2, <2>4 DEF r
<1>4. CASE t.kind # "activity"
  <2>1. k # Len(s) + 1
    BY <1>1, <1>2, <1>4
  <2>2. k \in 0..Len(s)
    BY <1>1, <1>2, <2>1
  <2>3. Silent(s, had, k)
    <3>1. IF k = 0 THEN ~had ELSE s[k].kind = "activity" /\ ~s[k].active
      BY <1>1, <1>2, <2>2
    <3>2. ASSUME NEW j \in 1..Len(s), k < j PROVE s[j].kind # "activity"
      BY <1>1, <1>2, <3>2
    <3> QED
      BY <2>2, <3>1, <3>2 DEF Silent
  <2>4. {i \in 1..Len(r) : k < i} = {i \in 1..Len(s) : k < i} \cup {Len(s) + 1}
    BY <1>1, <2>2
  <2>5. \A i \in {i \in 1..Len(s) : k < i} : r[i] = s[i]
    BY <1>1
  <2> DEFINE I == {i \in 1..Len(s) : k < i}
             J == {i \in 1..Len(r) : k < i}
  <2> HIDE DEF I, J
  <2>6. {r[j] : j \in J} = {s[j] : j \in I} \cup {t}
    <3>1. J = I \cup {Len(s) + 1} /\ \A i \in I : r[i] = s[i]
      BY <2>4, <2>5 DEF I, J
    <3> QED
      BY <1>1, <3>1
  <2> QED
    BY <1>4, <2>3, <2>6 DEF After, I, J, r
<1> QED
  BY <1>3, <1>4

LEMMA SilentTail ==
    ASSUME NEW S, NEW s \in Seq(S), s # <<>>, NEW had, NEW c, NEW k, Silent(Tail(s), c, k),
           c = IF Head(s).kind = "activity" THEN Head(s).active ELSE had
    PROVE  \E m \in 0..Len(s) : Silent(s, had, m) /\ After(Tail(s), k) \subseteq After(s, m)
<1> DEFINE r == Tail(s)
           m == IF k = 0 /\ Head(s).kind # "activity" THEN 0 ELSE k + 1
<1>1. /\ Len(r) = Len(s) - 1 /\ Len(s) \in Nat \ {0} /\ Head(s) = s[1]
      /\ \A i \in 1..Len(r) : r[i] = s[i + 1]
  BY TailFacts
<1> HIDE DEF r
<1>2. /\ k \in 0..Len(r)
      /\ IF k = 0 THEN ~c ELSE r[k].kind = "activity" /\ ~r[k].active
      /\ \A j \in 1..Len(r) : k < j => r[j].kind # "activity"
  BY DEF Silent, r
<1>3. m \in 0..Len(s) /\ m <= k + 1
  BY <1>1, <1>2
<1>4. IF m = 0 THEN ~had ELSE s[m].kind = "activity" /\ ~s[m].active
  <2>1. CASE k = 0 /\ Head(s).kind # "activity"
    BY <1>2, <2>1
  <2>2. CASE k = 0 /\ Head(s).kind = "activity"
    BY <1>1, <1>2, <2>2
  <2>3. CASE k # 0
    <3>1. k \in 1..Len(r) /\ m = k + 1 /\ m # 0
      BY <1>1, <1>2, <2>3
    <3> QED
      BY <1>1, <1>2, <2>3, <3>1
  <2> QED
    BY <2>1, <2>2, <2>3
<1>5. ASSUME NEW j \in 1..Len(s), m < j PROVE s[j].kind # "activity"
  <2>1. CASE j = 1
    <3>1. m = 0
      BY <1>3, <1>5, <2>1
    <3>2. Head(s).kind # "activity"
      BY <1>2, <3>1
    <3> QED
      BY <1>1, <2>1, <3>2
  <2>2. CASE j # 1
    <3>1. j - 1 \in 1..Len(r) /\ k < j - 1 /\ (j - 1) + 1 = j
      BY <1>1, <1>2, <1>5, <2>2
    <3> QED
      BY <1>1, <1>2, <3>1
  <2> QED
    BY <2>1, <2>2
<1>6. Silent(s, had, m)
  <2> HIDE DEF m
  <2> QED
    BY <1>3, <1>4, <1>5 DEF Silent
<1>7. After(r, k) \subseteq After(s, m)
  <2> SUFFICES ASSUME NEW i \in 1..Len(r), k < i PROVE r[i] \in After(s, m)
    BY DEF After
  <2>1. i + 1 \in 1..Len(s) /\ m < i + 1 /\ r[i] = s[i + 1]
    BY <1>1, <1>2, <1>3
  <2> HIDE DEF m
  <2> QED
    BY <2>1 DEF After
<1> HIDE DEF m
<1> QED
  BY <1>3, <1>6, <1>7 DEF r

LEMMA UnfoundedAppend ==
    ASSUME NEW S, NEW s \in Seq(S), NEW t \in S, NEW had, NEW i \in 1..Len(Append(s, t)),
           Unfounded(Append(s, t), had, i)
    PROVE  /\ t \notin Confirmations
           /\ \/ i \in 1..Len(s) /\ Unfounded(s, had, i)
              \/ /\ t.kind = "activity" /\ ~t.confirming
                 /\ ~(had /\ \A j \in 1..Len(s) : s[j].kind # "activity")
<1> DEFINE r == Append(s, t)
<1>1. /\ Len(r) = Len(s) + 1 /\ Len(s) \in Nat /\ r[Len(s) + 1] = t
      /\ \A j \in 1..Len(s) : r[j] = s[j]
  BY AppendFacts
<1> HIDE DEF r
<1>2. /\ i \in 1..(Len(s) + 1) /\ r[i].kind = "activity" /\ ~r[i].confirming
      /\ \A j \in 1..(Len(s) + 1) : i < j => r[j] \notin Confirmations
      /\ ~(had /\ \A j \in 1..(Len(s) + 1) : j < i => r[j].kind # "activity")
  BY <1>1 DEF Unfounded, r
<1>3. CASE i = Len(s) + 1
  <2>1. t.kind = "activity" /\ ~t.confirming
    BY <1>1, <1>2, <1>3
  <2>2. t \notin Confirmations
    BY <2>1 DEF Confirmations
  <2>3. ~(had /\ \A j \in 1..Len(s) : s[j].kind # "activity")
    <3>1. \A j \in 1..(Len(s) + 1) : j < i => j \in 1..Len(s) /\ r[j] = s[j]
      BY <1>1, <1>3
    <3> QED
      BY <1>2, <3>1
  <2> QED
    BY <2>1, <2>2, <2>3
<1>4. CASE i # Len(s) + 1
  <2>1. i \in 1..Len(s) /\ i < Len(s) + 1 /\ Len(s) + 1 \in 1..(Len(s) + 1)
    BY <1>1, <1>2, <1>4
  <2>2. t \notin Confirmations
    BY <1>1, <1>2, <2>1
  <2>3. Unfounded(s, had, i)
    <3>1. s[i].kind = "activity" /\ ~s[i].confirming
      BY <1>1, <1>2, <2>1
    <3>2. \A j \in 1..Len(s) : j \in 1..(Len(s) + 1) /\ r[j] = s[j]
      BY <1>1
    <3>3. \A j \in 1..(Len(s) + 1) : j < i => j \in 1..Len(s)
      BY <1>1, <2>1
    <3> QED
      BY <1>2, <3>1, <3>2, <3>3 DEF Unfounded
  <2> QED
    BY <2>1, <2>2, <2>3
<1> QED
  BY <1>3, <1>4

LEMMA UnfoundedTail ==
    ASSUME NEW S, NEW s \in Seq(S), s # <<>>, NEW had, NEW c, NEW i \in 1..Len(Tail(s)),
           Unfounded(Tail(s), c, i),
           c = IF Head(s).kind = "activity" THEN Head(s).active ELSE had
    PROVE  i + 1 \in 1..Len(s) /\ Unfounded(s, had, i + 1)
<1> DEFINE r == Tail(s)
<1>1. /\ Len(r) = Len(s) - 1 /\ Len(s) \in Nat \ {0} /\ Head(s) = s[1]
      /\ \A j \in 1..Len(r) : r[j] = s[j + 1]
  BY TailFacts
<1> HIDE DEF r
<1>2. /\ i \in 1..Len(r) /\ r[i].kind = "activity" /\ ~r[i].confirming
      /\ \A j \in 1..Len(r) : i < j => r[j] \notin Confirmations
      /\ ~(c /\ \A j \in 1..Len(r) : j < i => r[j].kind # "activity")
  BY DEF Unfounded, r
<1>3. i + 1 \in 1..Len(s) /\ s[i + 1] = r[i]
  BY <1>1, <1>2
<1>4. ASSUME NEW j \in 1..Len(s), i + 1 < j PROVE s[j] \notin Confirmations
  <2>1. j - 1 \in 1..Len(r) /\ i < j - 1 /\ (j - 1) + 1 = j
    BY <1>1, <1>2, <1>4
  <2> QED
    BY <1>1, <1>2, <2>1
<1>5. ASSUME had, \A j \in 1..Len(s) : j < i + 1 => s[j].kind # "activity"
      PROVE  FALSE
  <2>1. Head(s).kind # "activity"
    <3>1. 1 \in 1..Len(s) /\ 1 < i + 1
      BY <1>1, <1>2
    <3> QED
      BY <1>1, <1>5, <3>1
  <2>2. ASSUME NEW j \in 1..Len(r), j < i PROVE r[j].kind # "activity"
    <3>1. j + 1 \in 1..Len(s) /\ j + 1 < i + 1
      BY <1>1, <1>2, <2>2
    <3> QED
      BY <1>1, <1>5, <3>1
  <2> QED
    BY <1>2, <1>5, <2>1, <2>2
<1> QED
  BY <1>2, <1>3, <1>4, <1>5 DEF Unfounded

-----------------------------------------------------------------------------
(* The steps of the two queues, as the picture sees them.                  *)

LEMMA PictureKept ==
    ASSUME PictureInv, UNCHANGED <<mainTasks, hadActivity>>, thread' => thread, asked => asked',
           pc' \in Starting => pc \in Starting, pc' # "handling" => pc # "handling", Idle => Idle'
    PROVE  PictureInv'
<1> SUFFICES ASSUME thread', ~asked'
             PROVE  (pc' \in Starting => Unheard') /\ (pc' # "handling" => Trusted')
  BY DEF PictureInv
<1>1. Unheard => Unheard'
  BY DEF Unheard
<1>2. Trusted => Trusted'
  BY Zenon DEF Trusted, Silent, After, Unfounded, IsPost, Confirmations
<1> QED
  BY <1>1, <1>2 DEF PictureInv

LEMMA PictureAppend ==
    ASSUME PictureInv, QueueType, NEW t \in MainTask, t.kind # "activity",
           mainTasks' = Append(mainTasks, t), hadActivity' = hadActivity,
           thread' => thread, asked => asked',
           pc' \in Starting => pc \in Starting, pc' # "handling" => pc # "handling",
           Idle => Idle' /\ ~IsPost(t)
    PROVE  PictureInv'
<1> SUFFICES ASSUME thread', ~asked'
             PROVE  (pc' \in Starting => Unheard') /\ (pc' # "handling" => Trusted')
  BY DEF PictureInv
<1> DEFINE r == Append(mainTasks, t)
<1>0. mainTasks \in Seq(MainTask)
  BY DEF QueueType
<1>1. /\ Len(r) = Len(mainTasks) + 1 /\ Len(mainTasks) \in Nat /\ r[Len(mainTasks) + 1] = t
      /\ \A i \in 1..Len(mainTasks) : r[i] = mainTasks[i]
  BY <1>0, AppendFacts
<1>2. ASSUME Unheard PROVE Unheard'
  <2>1. \A j \in 1..Len(r) : r[j].kind # "activity"
    <3> HIDE DEF r
    <3> QED
      BY <1>1, <1>2 DEF Unheard
  <2> QED
    BY <1>2, <2>1 DEF Unheard
<1>3. ASSUME Trusted PROVE Trusted'
  <2>1. ASSUME NEW i \in 1..Len(r) PROVE ~Unfounded(r, hadActivity, i)
    <3>1. Unfounded(r, hadActivity, i) => i \in 1..Len(mainTasks) /\ Unfounded(mainTasks, hadActivity, i)
      BY <1>0, UnfoundedAppend
    <3> QED
      BY <1>3, <3>1 DEF Trusted
  <2>2. ASSUME NEW k \in 0..Len(r), Silent(r, hadActivity, k)
        PROVE  Idle' /\ \A u \in After(r, k) : ~IsPost(u)
    <3>1. Silent(mainTasks, hadActivity, k) /\ After(r, k) = After(mainTasks, k) \cup {t}
      BY <1>0, <2>2, SilentAppend
    <3>2. k \in 0..Len(mainTasks)
      BY <3>1 DEF Silent
    <3>3. Idle /\ \A u \in After(mainTasks, k) : ~IsPost(u)
      BY <1>3, <3>1, <3>2 DEF Trusted
    <3> QED
      BY <3>1, <3>3
  <2> HIDE DEF r
  <2>3. r = mainTasks'
    BY DEF r
  <2> QED
    BY <2>1, <2>2, <2>3 DEF Trusted
<1> QED
  BY <1>2, <1>3 DEF PictureInv

\* A report that confirms a message is the last, whatever went before.
LEMMA PictureConfirm ==
    ASSUME NEW s \in Seq(MainTask), NEW t \in Confirmations,
           mainTasks' = Append(s, t), pc' \notin Starting, ~t.active => Idle'
    PROVE  PictureInv'
<1> DEFINE r == Append(s, t)
<1>0. t \in MainTask /\ t.kind = "activity"
  BY DEF Confirmations
<1>1. \A i \in 1..Len(r) : ~Unfounded(r, hadActivity', i)
  BY <1>0, UnfoundedAppend
<1>2. ASSUME NEW k \in 0..Len(r), Silent(r, hadActivity', k)
      PROVE  Idle' /\ \A u \in After(r, k) : ~IsPost(u)
  <2>1. ~t.active /\ After(r, k) = {}
    BY <1>0, <1>2, SilentAppend
  <2> QED
    BY <2>1
<1> HIDE DEF r
<1>3. r = mainTasks'
  BY DEF r
<1>4. Trusted'
  BY <1>1, <1>2, <1>3 DEF Trusted
<1> QED
  BY <1>4 DEF PictureInv

\* The first report of a context.
LEMMA PictureEnter ==
    ASSUME QueueType, Unheard, NEW t \in MainTask, t.kind = "activity",
           mainTasks' = Append(mainTasks, t), hadActivity' = hadActivity,
           pc' \notin Starting, ~t.active => Idle'
    PROVE  PictureInv'
<1> DEFINE r == Append(mainTasks, t)
<1>0. mainTasks \in Seq(MainTask)
  BY DEF QueueType
<1>1. ASSUME NEW i \in 1..Len(r), Unfounded(r, hadActivity', i) PROVE FALSE
  <2>1. i \in 1..Len(mainTasks) /\ Unfounded(mainTasks, hadActivity', i)
    BY <1>0, <1>1, UnfoundedAppend DEF Unheard
  <2> QED
    BY <2>1 DEF Unfounded, Unheard
<1>2. ASSUME NEW k \in 0..Len(r), Silent(r, hadActivity', k)
      PROVE  Idle' /\ \A u \in After(r, k) : ~IsPost(u)
  <2>1. ~t.active /\ After(r, k) = {}
    BY <1>0, <1>2, SilentAppend
  <2> QED
    BY <2>1
<1> HIDE DEF r
<1>3. r = mainTasks'
  BY DEF r
<1>4. Trusted'
  BY <1>1, <1>2, <1>3 DEF Trusted
<1> QED
  BY <1>4 DEF PictureInv

\* The parent performs a task.
LEMMA PictureTail ==
    ASSUME PictureInv, QueueType, mainTasks # <<>>, mainTasks' = Tail(mainTasks),
           hadActivity' = IF Head(mainTasks).kind = "activity" THEN Head(mainTasks).active ELSE hadActivity,
           UNCHANGED <<thread, asked, pc, timer, client, closing>>
    PROVE  PictureInv'
<1> SUFFICES ASSUME thread', ~asked'
             PROVE  (pc' \in Starting => Unheard') /\ (pc' # "handling" => Trusted')
  BY DEF PictureInv
<1> DEFINE r == Tail(mainTasks)
           c == IF Head(mainTasks).kind = "activity" THEN Head(mainTasks).active ELSE hadActivity
<1>0. mainTasks \in Seq(MainTask)
  BY DEF QueueType
<1>1. /\ Len(r) = Len(mainTasks) - 1 /\ Len(mainTasks) \in Nat \ {0}
      /\ Head(mainTasks) = mainTasks[1]
      /\ \A i \in 1..Len(r) : r[i] = mainTasks[i + 1]
  BY <1>0, TailFacts
<1>2. ASSUME Unheard PROVE Unheard'
  <2>1. 1 \in 1..Len(mainTasks) /\ \A i \in 1..Len(r) : i + 1 \in 1..Len(mainTasks)
    BY <1>1
  <2>2. Head(mainTasks).kind # "activity" /\ \A j \in 1..Len(r) : r[j].kind # "activity"
    <3> HIDE DEF r
    <3> QED
      BY <1>1, <1>2, <2>1 DEF Unheard
  <2>3. hadActivity'
    BY <1>2, <2>2 DEF Unheard
  <2> QED
    BY <2>2, <2>3 DEF Unheard
<1>3. ASSUME Trusted PROVE Trusted'
  <2>1. ASSUME NEW i \in 1..Len(r) PROVE ~Unfounded(r, c, i)
    <3>1. Unfounded(r, c, i) =>
             i + 1 \in 1..Len(mainTasks) /\ Unfounded(mainTasks, hadActivity, i + 1)
      <4> HIDE DEF c
      <4>1. c = IF Head(mainTasks).kind = "activity" THEN Head(mainTasks).active ELSE hadActivity
        BY DEF c
      <4> QED
        BY <1>0, <4>1, UnfoundedTail
    <3> QED
      BY <1>3, <3>1 DEF Trusted
  <2>2. ASSUME NEW k \in 0..Len(r), Silent(r, c, k)
        PROVE  Idle' /\ \A u \in After(r, k) : ~IsPost(u)
    <3>1. \E m \in 0..Len(mainTasks) : /\ Silent(mainTasks, hadActivity, m)
                                       /\ After(r, k) \subseteq After(mainTasks, m)
      <4> HIDE DEF c
      <4>1. c = IF Head(mainTasks).kind = "activity" THEN Head(mainTasks).active ELSE hadActivity
        BY DEF c
      <4> QED
        BY <1>0, <2>2, <4>1, SilentTail
    <3>2. Idle /\ \A u \in After(r, k) : ~IsPost(u)
      BY <1>3, <3>1 DEF Trusted
    <3>3. Idle'
      BY <3>2 DEF Idle, ContextActive
    <3> QED
      BY <3>2, <3>3
  <2> HIDE DEF r, c
  <2>3. r = mainTasks' /\ c = hadActivity'
    BY DEF r, c
  <2> QED
    BY <2>1, <2>2, <2>3 DEF Trusted
<1> QED
  BY <1>2, <1>3 DEF PictureInv

-----------------------------------------------------------------------------
(* The steps of the two threads.                                           *)

\* What the worker does only after it was told to terminate.
LEMMA Terminating ==
    ASSUME Inv, FlagsInv
    PROVE  /\ killed => asked
           /\ PerformTask("shutdownFinish") => asked
           /\ ShutdownStart => asked
<1>0. QueueType /\ StopInv
  BY DEF Inv
<1>1. killed => asked
  BY DEF FlagsInv
<1>2. ASSUME NEW k \in {"shutdownStart", "shutdownFinish"}, tasks # <<>>, Head(tasks).kind = k
      PROVE  asked
  <2>1. Head(tasks) \in WorkerTask /\ Head(tasks) \in In(tasks)
    BY <1>0, <1>2, HeadTailSplit DEF QueueType
  <2>2. Plain(k) \in In(tasks)
    BY <1>2, <2>1, WorkerTaskFacts
  <2>3. forbidden = "terminate"
    BY <1>0, <2>2 DEF StopInv
  <2> QED
    BY <2>3 DEF FlagsInv
<1> QED
  BY <1>1, <1>2 DEF PerformTask, TakeTask, ShutdownStart

LEMMA FlagsStep ==
    ASSUME ~ImportsAnywhere, Inv, FlagsInv, [Next]_vars
    PROVE  FlagsInv'
<1>0. QueueType /\ ThreadType /\ LoadType /\ LifeInv /\ SyncLoads \subseteq Loads /\ NoLoad \notin Loads
  BY LoadsFacts DEF Inv
<1>1. CASE Terminate \/ CollectObject \/ ContextClosed \/ ContextDestroyed
  BY <1>1 DEF Terminate, CollectObject, ContextClosed, ContextDestroyed, TerminateWorkerContext,
              threadVars, FlagsInv
<1>2. CASE UNCHANGED <<asked, killed, forbidden, threadVars>>
  BY <1>2 DEF threadVars, FlagsInv
<1>3. CASE StartWorkerContext
  <2>1. pc = "none" /\ asked' = asked /\ UNCHANGED <<nested, importing, client>>
    BY <1>0, <1>3 DEF StartWorkerContext, LifeInv
  <2>2. ~asked => UNCHANGED <<killed, forbidden>>
    BY <1>3 DEF StartWorkerContext, PostEarlyTasks, PostEarly
  <2> QED
    BY <2>1, <2>2 DEF FlagsInv
<1>4. CASE ThreadStarts
  BY <1>4 DEF ThreadStarts, parentVars, FlagsInv
<1>5. CASE Evaluate \/ EnterLoop \/ LoopEnds \/ TimerFires
  <2>1. UNCHANGED <<asked, killed, forbidden, nested, importing, client>> /\ pc # "handling"
    BY <1>5 DEF Evaluate, EnterLoop, LoopEnds, TimerFires, parentVars
  <2> QED
    BY <2>1 DEF FlagsInv
<1>6. CASE Close
  BY <1>6 DEF Close, parentVars, FlagsInv
<1>7. CASE PostToObject \/ SetTimer \/ ImportReturns \/ \E throws \in BOOLEAN : ScriptReturns(throws)
  <2>1. CASE PostToObject \/ SetTimer
    <3>1. UNCHANGED <<asked, killed, forbidden, nested, client, importing, pc>>
      BY <2>1 DEF PostToObject, SetTimer, parentVars
    <3> QED
      BY <3>1 DEF FlagsInv
  <2>2. CASE ImportReturns
    <3>1. UNCHANGED <<asked, killed, forbidden, nested, client>> /\ ~importing'
      BY <2>2 DEF ImportReturns, parentVars
    <3> QED
      BY <3>1 DEF FlagsInv
  <2>3. ASSUME NEW throws \in BOOLEAN, ScriptReturns(throws) PROVE FlagsInv'
    <3>1. UNCHANGED <<asked, killed, forbidden, nested, client>> /\ ~importing'
      BY <2>3 DEF ScriptReturns, parentVars
    <3> QED
      BY <3>1 DEF FlagsInv
  <2> QED
    BY <1>7, <2>1, <2>2, <2>3
<1>8. ASSUME NEW l \in Loads, StartLoad(l)
      PROVE  FlagsInv'
  <2>1. /\ UNCHANGED <<asked, killed, forbidden, pc>> /\ nested = NoLoad
        /\ l \in Imports => pc = "handling" \/ ImportsAnywhere
        /\ importing' = (importing \/ l \in Imports)
        /\ client' = [client EXCEPT ![l] = "waiting"]
        /\ nested' = IF l \in SyncLoads THEN l ELSE NoLoad
    BY <1>8 DEF StartLoad, InScript, parentVars
  <2>2. importing' => pc' = "handling"
    BY <2>1 DEF FlagsInv
  <2>3. ASSUME NEW m \in SyncLoads, client'[m] = "waiting" PROVE nested' = m
    <3>1. m \in Loads /\ m # NoLoad
      BY <1>0
    <3>2. client[m] # "waiting"
      BY <2>1, <3>1 DEF FlagsInv
    <3>3. m = l
      BY <1>0, <2>1, <2>3, <3>1, <3>2 DEF LoadType
    <3> QED
      BY <2>1, <3>3
  <2> QED
    BY <2>1, <2>2, <2>3 DEF FlagsInv
<1>9. CASE HandleMessage
  <2>1. UNCHANGED <<asked, killed, forbidden, nested, importing, client>> /\ pc = "loop"
    BY <1>9 DEF HandleMessage, PerformTask, TakeTask, parentVars
  <2> QED
    BY <2>1 DEF FlagsInv
<1>10. CASE HandleLoaded
  <2>1. UNCHANGED <<asked, killed, forbidden, nested, importing>> /\ pc = "loop"
    BY <1>10 DEF HandleLoaded, PerformTask, TakeTask, parentVars
  <2>2. client' = client \/ \E l : client' = [client EXCEPT ![l] = "done"]
    BY <1>10 DEF HandleLoaded
  <2>3. \A m \in Loads : client'[m] = "waiting" => client[m] = "waiting"
    BY <1>0, <2>2 DEF LoadType
  <2> QED
    BY <1>0, <2>1, <2>3 DEF FlagsInv
<1>11. CASE ShutdownStart
  <2>1. UNCHANGED <<asked, killed, forbidden, nested, importing, pc>>
    BY <1>11 DEF ShutdownStart, parentVars
  <2>2. client' = [l \in Loads |-> IF l \in Waiting THEN "done" ELSE client[l]]
    BY <1>11 DEF ShutdownStart, Waiting
  <2>3. \A m \in Loads : client'[m] # "waiting"
    BY <2>2 DEF Waiting
  <2> QED
    BY <1>0, <2>1, <2>3 DEF FlagsInv
<1>12. CASE ShutdownFinish
  <2>1. asked
    BY <1>12, Terminating DEF ShutdownFinish
  <2> QED
    BY <1>12, <2>1 DEF ShutdownFinish, parentVars, threadVars, FlagsInv
<1>13. CASE NestedTask
  <2>1. UNCHANGED <<asked, killed, forbidden, nested, importing, pc>>
    BY <1>13 DEF NestedTask, parentVars
  <2>2. client' = client \/ client' = [client EXCEPT ![nested] = "done"]
    BY <1>13 DEF NestedTask
  <2>3. \A m \in Loads : client'[m] = "waiting" => client[m] = "waiting"
    BY <1>0, <2>2 DEF LoadType
  <2> QED
    BY <1>0, <2>1, <2>3 DEF FlagsInv
<1>14. CASE SyncLoadReturns
  <2>1. UNCHANGED <<asked, killed, forbidden, importing, pc, client>> /\ client[nested] = "done"
    BY <1>14 DEF SyncLoadReturns, parentVars
  <2>2. \A m \in SyncLoads : client[m] # "waiting"
    BY <2>1 DEF FlagsInv
  <2> QED
    BY <2>1, <2>2 DEF FlagsInv
<1>15. CASE \/ PostMessage \/ ScriptFails \/ DeliverMessage \/ DeliverException \/ ReportActivity
            \/ CreateLoader \/ DestroyLoader \/ SkipTask \/ NotifyClosed
            \/ \E l \in Loads : LoadFinishes(l)
  <2>1. UNCHANGED <<asked, killed, forbidden, threadVars>>
    BY <1>15 DEF PostMessage, ScriptFails, DeliverMessage, DeliverException, ReportActivity,
                 CreateLoader, DestroyLoader, SkipTask, NotifyClosed, LoadFinishes, parentVars
  <2> QED
    BY <1>2, <2>1
<1>16. CASE UNCHANGED vars
  BY <1>2, <1>16 DEF vars, parentVars
<1> QED
  BY <1>1, <1>3, <1>4, <1>5, <1>6, <1>7, <1>8, <1>9, <1>10, <1>11, <1>12, <1>13, <1>14, <1>15, <1>16
  DEF Next, MainThreadTask, RunLoop, ScriptEnds

\* The end of a script confirms the message it handled.
LEMMA ScriptReturnsTasks ==
    ASSUME Inv, Inv', NEW throws \in BOOLEAN, ScriptReturns(throws)
    PROVE  IF pc = "handling"
           THEN \E s \in Seq(MainTask) : mainTasks' = Append(s, Activity(TRUE, ContextActive))
           ELSE \/ mainTasks' = mainTasks
                \/ /\ mainTasks' = Append(mainTasks, Exception(posted'))
                   /\ Exception(posted') \in MainTask
<1> DEFINE e == Exception(posted')
           a == Activity(TRUE, ContextActive)
           x == IF throws THEN <<e>> ELSE <<>>
           m == mainTasks \o x
<1>0. mainTasks \in Seq(MainTask) /\ ContextActive \in BOOLEAN
  BY DEF Inv, QueueType, ThreadType, ContextActive
<1>1. throws => e \in MainTask
  <2>1. throws => posted' \in 1..MaxPosts
    BY BoundsFacts DEF Inv, ScriptReturns, ThreadType
  <2> QED
    BY <2>1, MainTaskTypes
<1>2. a \in MainTask
  BY <1>0, MainTaskTypes
<1> HIDE DEF e, a
<1>3. IF throws THEN m = Append(mainTasks, e) ELSE m = mainTasks
  BY <1>0, <1>1, AppendIsConcat, ConcatEmptySeq
<1>4. m \in Seq(MainTask)
  BY <1>0, <1>1, <1>3, AppendProperties
<1>5. mainTasks' = m \o (IF pc = "handling" THEN <<a>> ELSE <<>>)
  BY DEF ScriptReturns, e, a
<1> HIDE DEF m
<1>6. CASE pc = "handling"
  <2>1. mainTasks' = m \o <<a>>
    BY <1>5, <1>6, Zenon
  <2>2. mainTasks' = Append(m, a)
    BY <1>2, <1>4, <2>1, AppendIsConcat
  <2> QED
    BY <1>4, <1>6, <2>2 DEF a
<1>7. CASE pc # "handling"
  <2>1. mainTasks' = m
    BY <1>4, <1>5, <1>7, ConcatEmptySeq
  <2> QED
    BY <1>1, <1>3, <1>7, <2>1 DEF e
<1> QED
  BY <1>6, <1>7

LEMMA PictureStep ==
    ASSUME ~ImportsAnywhere, Inv, Inv', FlagsInv, PictureInv, [Next]_vars
    PROVE  PictureInv'
<1>0. /\ QueueType /\ ThreadType /\ LoadType /\ LifeInv /\ TaskInv
      /\ SyncLoads \subseteq Loads /\ NoLoad \notin Loads
  BY LoadsFacts DEF Inv
<1>1. ASSUME asked' \/ ~thread' PROVE PictureInv'
  BY <1>1 DEF PictureInv
<1>2. CASE Terminate \/ CollectObject \/ ContextClosed \/ ContextDestroyed
  BY <1>1, <1>2 DEF Terminate, CollectObject, ContextClosed, ContextDestroyed, TerminateWorkerContext
<1>3. ASSUME UNCHANGED <<mainTasks, hadActivity, thread, asked, pc, timer, client, closing>>
      PROVE  PictureInv'
  <2>1. Idle => Idle'
    BY <1>3 DEF Idle, ContextActive
  <2> QED
    BY <1>3, <2>1, PictureKept
<1>4. CASE PostMessage \/ ScriptFails \/ SkipTask \/ \E l \in Loads : LoadFinishes(l)
  <2>1. UNCHANGED <<mainTasks, hadActivity, thread, asked, pc, timer, client, closing>>
    BY <1>4 DEF PostMessage, ScriptFails, SkipTask, LoadFinishes, threadVars, parentVars
  <2> QED
    BY <1>3, <2>1
<1>5. CASE StartWorkerContext
  <2>1. CASE asked
    BY <1>1, <1>5, <2>1 DEF StartWorkerContext
  <2>2. CASE ~asked
    <3>1. mainTasks' = <<>> /\ hadActivity' /\ pc' # "handling"
      BY <1>0, <1>5, <2>2 DEF StartWorkerContext, PostEarlyTasks, PostEarly, LifeInv, TaskInv
    <3>2. Len(mainTasks') = 0
      BY <3>1
    <3>3. Unheard'
      BY <3>1, <3>2 DEF Unheard
    <3>4. Trusted'
      BY <3>1, <3>2 DEF Trusted, Silent
    <3> QED
      BY <3>3, <3>4 DEF PictureInv
  <2> QED
    BY <2>1, <2>2
<1>6. CASE DeliverMessage \/ DeliverException \/ ReportActivity \/ CreateLoader \/ DestroyLoader
  <2>1. /\ mainTasks # <<>> /\ mainTasks' = Tail(mainTasks)
        /\ UNCHANGED <<thread, asked, pc, timer, client, closing>>
        /\ hadActivity' = IF Head(mainTasks).kind = "activity" THEN Head(mainTasks).active ELSE hadActivity
    <3>1. CASE ReportActivity
      BY <3>1 DEF ReportActivity, TakeMainTask, threadVars
    <3>2. CASE DeliverMessage \/ DeliverException \/ CreateLoader \/ DestroyLoader
      BY <3>2 DEF DeliverMessage, DeliverException, CreateLoader, DestroyLoader, TakeMainTask,
                  threadVars, parentVars
    <3> QED
      BY <1>6, <3>1, <3>2
  <2> QED
    BY <1>0, <2>1, PictureTail
<1>7. CASE ThreadStarts \/ Evaluate \/ TimerFires
  <2>1. /\ UNCHANGED <<mainTasks, hadActivity, thread, asked>>
        /\ pc' \in Starting => pc \in Starting
        /\ pc # "handling" /\ pc' # "handling" /\ ~Idle
    <3>1. CASE ThreadStarts \/ Evaluate
      BY <3>1 DEF ThreadStarts, Evaluate, parentVars, Starting, Idle
    <3>2. CASE TimerFires
      BY <3>2 DEF TimerFires, parentVars, Starting, Idle, ContextActive
    <3> QED
      BY <1>7, <3>1, <3>2
  <2> QED
    BY <2>1, PictureKept
<1>8. CASE EnterLoop
  <2>1. /\ pc \in Starting /\ pc # "handling" /\ pc' = "loop"
        /\ UNCHANGED <<hadActivity, thread, asked, timer, client, closing>>
        /\ mainTasks' = Append(mainTasks, Activity(FALSE, ContextActive))
    BY <1>8 DEF EnterLoop, parentVars, Starting
  <2>2. CASE asked \/ ~thread
    BY <1>1, <2>1, <2>2
  <2>3. CASE ~asked /\ thread
    <3>1. Unheard
      BY <2>1, <2>3 DEF PictureInv
    <3>2. /\ Activity(FALSE, ContextActive) \in MainTask
          /\ Activity(FALSE, ContextActive).kind = "activity"
          /\ Activity(FALSE, ContextActive).active = ContextActive
      <4>1. ContextActive \in BOOLEAN
        BY <1>0 DEF ContextActive, ThreadType
      <4> QED
        BY <4>1, MainTaskTypes DEF Activity
    <3>3. ~ContextActive => Idle'
      BY <2>1 DEF Idle, ContextActive
    <3>4. pc' \notin Starting
      BY <2>1 DEF Starting
    <3> QED
      BY <1>0, <2>1, <3>1, <3>2, <3>3, <3>4, PictureEnter
  <2> QED
    BY <2>2, <2>3
<1>9. ASSUME UNCHANGED <<hadActivity, thread, asked, pc>>, pc \in Scripts,
             mainTasks' = mainTasks \/ \E t \in MainTask : mainTasks' = Append(mainTasks, t) /\ t.kind # "activity"
      PROVE  PictureInv'
  <2>1. ~Idle
    BY <1>9 DEF Idle, Scripts
  <2>2. CASE mainTasks' = mainTasks
    BY <1>9, <2>1, <2>2, PictureKept
  <2>3. ASSUME NEW t \in MainTask, mainTasks' = Append(mainTasks, t), t.kind # "activity"
        PROVE  PictureInv'
    BY <1>0, <1>9, <2>1, <2>3, PictureAppend
  <2> QED
    BY <1>9, <2>2, <2>3
<1>10. CASE SetTimer \/ Close
  BY <1>9, <1>10 DEF SetTimer, Close, InScript, parentVars
<1>11. CASE NestedTask \/ SyncLoadReturns
  <2>1. nested # NoLoad /\ UNCHANGED <<hadActivity, thread, asked, pc>>
    BY <1>11 DEF NestedTask, SyncLoadReturns, parentVars
  <2>2. pc \in Scripts /\ nested \in Loads
    BY <1>0, <2>1 DEF LifeInv, ThreadType
  <2>3. /\ OfLoad("destroyLoader", nested) \in MainTask
        /\ OfLoad("destroyLoader", nested).kind # "activity"
    BY <2>2, MainTaskTypes DEF OfLoad
  <2> QED
    BY <1>9, <1>11, <2>1, <2>2, <2>3 DEF NestedTask, SyncLoadReturns
<1>12. CASE PostToObject
  <2>1. /\ UNCHANGED <<hadActivity, thread, asked, pc>> /\ pc \in Scripts
        /\ mainTasks' = Append(mainTasks, Message(posted')) /\ posted' \in 1..MaxPosts
    BY <1>0, <1>12, BoundsFacts DEF PostToObject, InScript, ThreadType, parentVars
  <2>2. Message(posted') \in MainTask /\ Message(posted').kind # "activity"
    BY <2>1, MainTaskTypes DEF Message
  <2> QED
    BY <1>9, <2>1, <2>2
<1>13. ASSUME NEW l \in Loads, StartLoad(l)
       PROVE  PictureInv'
  <2>1. /\ UNCHANGED <<hadActivity, thread, asked, pc>> /\ pc \in Scripts
        /\ mainTasks' = Append(mainTasks, OfLoad("createLoader", l))
    BY <1>13 DEF StartLoad, InScript, parentVars
  <2>2. OfLoad("createLoader", l) \in MainTask /\ OfLoad("createLoader", l).kind # "activity"
    BY MainTaskTypes DEF OfLoad
  <2> QED
    BY <1>9, <2>1, <2>2
<1>14. CASE ImportReturns
  <2>1. pc' = "handling"
    BY <1>14 DEF ImportReturns, FlagsInv
  <2> QED
    BY <2>1 DEF PictureInv, Starting
<1>15. ASSUME NEW throws \in BOOLEAN, ScriptReturns(throws)
       PROVE  PictureInv'
  <2>1. /\ UNCHANGED <<hadActivity, thread, asked, timer, client, closing>> /\ pc \in Scripts
        /\ pc' = IF pc = "evaluating" THEN "evaluated" ELSE "loop"
    BY <1>15 DEF ScriptReturns, InScript, parentVars
  <2>2. CASE pc = "handling"
    <3>1. PICK s \in Seq(MainTask) : mainTasks' = Append(s, Activity(TRUE, ContextActive))
      BY <1>15, <2>2, ScriptReturnsTasks
    <3>2. /\ Activity(TRUE, ContextActive) \in Confirmations
          /\ Activity(TRUE, ContextActive).active = ContextActive
      <4>1. ContextActive \in BOOLEAN
        BY <1>0 DEF ContextActive, ThreadType
      <4> QED
        BY <4>1, ConfirmationKinds DEF Activity
    <3>3. (~ContextActive => Idle') /\ pc' \notin Starting
      BY <2>1, <2>2 DEF Idle, ContextActive, Starting
    <3> QED
      BY <3>1, <3>2, <3>3, PictureConfirm
  <2>3. CASE pc # "handling"
    <3>1. (pc' \in Starting => pc \in Starting) /\ ~Idle
      BY <2>1, <2>3 DEF Starting, Scripts, Idle
    <3>2. CASE mainTasks' = mainTasks
      BY <2>1, <2>3, <3>1, <3>2, PictureKept
    <3>3. CASE mainTasks' = Append(mainTasks, Exception(posted')) /\ Exception(posted') \in MainTask
      <4>1. Exception(posted').kind # "activity"
        BY DEF Exception
      <4> QED
        BY <1>0, <2>1, <2>3, <3>1, <3>3, <4>1, PictureAppend
    <3> QED
      BY <1>15, <2>3, <3>2, <3>3, ScriptReturnsTasks
  <2> QED
    BY <2>2, <2>3
<1>16. CASE HandleMessage
  <2>1. pc = "loop" /\ UNCHANGED <<hadActivity, thread, asked, timer, client, closing>>
    BY <1>16 DEF HandleMessage, PerformTask, TakeTask, parentVars
  <2>2. CASE forbidden = "no"
    <3>1. pc' = "handling"
      BY <1>16, <2>2 DEF HandleMessage
    <3> QED
      BY <3>1 DEF PictureInv, Starting
  <2>3. CASE forbidden # "no"
    <3>1. mainTasks' = Append(mainTasks, Activity(TRUE, ContextActive)) /\ pc' = "loop"
      BY <1>16, <2>1, <2>3 DEF HandleMessage
    <3>2. /\ Activity(TRUE, ContextActive) \in Confirmations
          /\ Activity(TRUE, ContextActive).active = ContextActive
      <4>1. ContextActive \in BOOLEAN
        BY <1>0 DEF ContextActive, ThreadType
      <4> QED
        BY <4>1, ConfirmationKinds DEF Activity
    <3>3. (~ContextActive => Idle') /\ pc' \notin Starting
      BY <2>1, <3>1 DEF Idle, ContextActive, Starting
    <3> QED
      BY <1>0, <3>1, <3>2, <3>3, PictureConfirm DEF QueueType
  <2> QED
    BY <2>2, <2>3
<1>17. CASE HandleLoaded
  <2> DEFINE l == Head(tasks).load
  <2>1. /\ pc = "loop" /\ UNCHANGED <<hadActivity, thread, asked, timer, closing>> /\ ~closing
        /\ Head(tasks).kind = "loaded" /\ TakeTask
    BY <1>17 DEF HandleLoaded, PerformTask, TakeTask, IsCleanupTask, parentVars
  <2>2. l \in Loads
    BY <1>0, <2>1, TakeTaskEffect, WorkerTaskFacts
  <2>3. CASE client[l] = "waiting"
    <3>1. /\ mainTasks' = Append(mainTasks, OfLoad("destroyLoader", l)) /\ pc' \in {"loop", "firing"}
      BY <1>17, <2>1, <2>3 DEF HandleLoaded
    <3>2. nested = NoLoad
      BY <1>0, <2>1 DEF LifeInv, Scripts
    <3> HIDE DEF l
    <3>3. l \notin SyncLoads
      BY <1>0, <2>2, <2>3, <3>2 DEF FlagsInv
    <3>4. ~Idle
      BY <2>1, <2>2, <2>3, <3>3 DEF Idle, ContextActive
    <3>5. OfLoad("destroyLoader", l) \in MainTask /\ OfLoad("destroyLoader", l).kind # "activity"
      BY <2>2, MainTaskTypes DEF OfLoad
    <3>6. pc' \notin Starting /\ pc # "handling"
      BY <2>1, <3>1 DEF Starting
    <3> QED
      BY <1>0, <2>1, <3>1, <3>4, <3>5, <3>6, PictureAppend
  <2>4. CASE client[l] # "waiting"
    <3>1. UNCHANGED <<client, mainTasks, pc>>
      BY <1>17, <2>4 DEF HandleLoaded
    <3> QED
      BY <1>3, <2>1, <3>1
  <2> QED
    BY <2>3, <2>4
<1>18. CASE NotifyClosed
  <2>1. /\ mainTasks' = Append(mainTasks, Plain("closed"))
        /\ UNCHANGED <<hadActivity, thread, asked, pc, timer, client, closing>>
    BY <1>18 DEF NotifyClosed, parentVars, threadVars
  <2>2. Plain("closed") \in MainTask /\ Plain("closed").kind = "closed"
    BY MainTaskTypes DEF Plain
  <2>3. Idle => Idle' /\ ~IsPost(Plain("closed"))
    BY <2>1, <2>2 DEF Idle, ContextActive, IsPost
  <2> QED
    BY <1>0, <2>1, <2>2, <2>3, PictureAppend
<1>19. CASE ShutdownStart \/ ShutdownFinish \/ LoopEnds
  <2>1. asked /\ asked' = asked
    BY <1>19, Terminating DEF ShutdownStart, ShutdownFinish, LoopEnds, parentVars
  <2> QED
    BY <1>1, <2>1
<1>20. CASE UNCHANGED vars
  BY <1>3, <1>20 DEF vars, parentVars, threadVars
<1> QED
  BY <1>2, <1>4, <1>5, <1>6, <1>7, <1>8, <1>10, <1>11, <1>12, <1>13, <1>14, <1>15, <1>16, <1>17,
     <1>18, <1>19, <1>20
  DEF Next, MainThreadTask, RunLoop, ScriptEnds

-----------------------------------------------------------------------------
LEMMA InvIdle ==
    ASSUME Inv, CountInv, PictureInv
    PROVE  IdleWhenUnreferenced
<1> SUFFICES ASSUME thread, ~asked, ~HasPendingActivity
             PROVE  /\ pc = "loop"
                    /\ ~(ContextActive /\ ~closing)
                    /\ \A i \in 1..Len(mainTasks) : ~IsPost(mainTasks[i])
                    /\ closing \/ \A i \in 1..Len(tasks) : ~IsMessage(tasks[i])
  BY DEF IdleWhenUnreferenced
<1>0. QueueType
  BY DEF Inv
<1>1. ~hadActivity /\ unconfirmed = 0
  BY DEF HasPendingActivity, CountInv
<1>2. Queued = 0 /\ Confirming = 0 /\ Handling = 0
  <2>1. /\ Queued \in Nat /\ Confirming \in Nat /\ Handling \in {0, 1}
        /\ Owed = Queued + Confirming + Handling
    BY <1>0, OwedType
  <2>2. Owed <= 0
    BY <1>1 DEF CountInv
  <2> HIDE DEF Owed, Queued, Confirming, Handling
  <2>3. Queued + Confirming + Handling <= 0
    BY <2>1, <2>2
  <2> QED
    BY <2>1, <2>3
<1>3. pc # "handling"
  BY <1>2 DEF Handling
<1>4. \A i \in 1..Len(tasks) : ~IsMessage(tasks[i])
  <2>1. \A i \in 1..Len(tasks) : tasks[i] \notin MessageTasks /\ tasks[i] \in WorkerTask
    BY <1>0, <1>2, CountType, ElementOfSeq DEF Queued, QueueType
  <2> QED
    BY <2>1, ConfirmationKinds DEF IsMessage
<1>5. \A i \in 1..Len(mainTasks) : mainTasks[i] \notin Confirmations /\ mainTasks[i] \in MainTask
  BY <1>0, <1>2, CountType, ElementOfSeq DEF Confirming, QueueType
<1>6. Trusted
  BY <1>3 DEF PictureInv
<1>7. ASSUME NEW i \in 1..Len(mainTasks), mainTasks[i].kind = "activity" PROVE FALSE
  <2>1. ~mainTasks[i].confirming
    BY <1>5, <1>7, ConfirmationKinds
  <2>2. Unfounded(mainTasks, hadActivity, i)
    BY <1>1, <1>5, <1>7, <2>1 DEF Unfounded
  <2> QED
    BY <1>6, <2>2 DEF Trusted
<1>8. 0 \in 0..Len(mainTasks) /\ \A i \in 1..Len(mainTasks) : 0 < i
  <2>1. Len(mainTasks) \in Nat
    BY <1>0, LenProperties DEF QueueType
  <2> QED
    BY <2>1
<1>9. Silent(mainTasks, hadActivity, 0)
  BY <1>1, <1>7, <1>8 DEF Silent
<1>10. Idle /\ \A t \in After(mainTasks, 0) : ~IsPost(t)
  BY <1>6, <1>8, <1>9 DEF Trusted
<1>11. \A i \in 1..Len(mainTasks) : mainTasks[i] \in After(mainTasks, 0)
  BY <1>8 DEF After
<1> QED
  BY <1>4, <1>10, <1>11 DEF Idle

\* If only message handlers import scripts, the object of a worker that can
\* still do something is kept, however late the reports of its activity are
\* (WorkerMessagingProxy.cpp:376).
THEOREM UnreferencedIsIdle ==
    ASSUME ~ImportsAnywhere
    PROVE  Spec => []IdleWhenUnreferenced
<1> DEFINE I == Inv /\ CountInv /\ FlagsInv /\ PictureInv
<1>1. Init => I
  <2>1. Init => FlagsInv /\ PictureInv
    BY LoadsFacts DEF Init, FlagsInv, PictureInv
  <2>2. Init => Inv /\ CountInv
    BY InitInv DEF Init, CountInv
  <2> QED
    BY <2>1, <2>2
<1>2. I /\ [Next]_vars => I'
  BY InvStep, CountStep, FlagsStep, PictureStep
<1>3. I => IdleWhenUnreferenced
  BY InvIdle
<1> QED
  BY <1>1, <1>2, <1>3, PTL DEF Spec

-----------------------------------------------------------------------------
(* The order of messages.  As long as the worker takes messages, its queue *)
(* holds, in order, those after the last one it handled.                   *)

InOrder(s) ==
    \A i, j \in 1..Len(s) :
        i < j /\ s[i].kind = "message" /\ s[j].kind = "message" => s[i].n < s[j].n
OrderInv ==
    /\ handled <= sent
    /\ pc = "none" => handled = 0 /\ Len(early) = sent /\ \A i \in 1..sent : early[i] = i
    /\ pc # "none" /\ ~killed /\ ~closing =>
          /\ InOrder(tasks)
          /\ \A n \in 1..MaxMessages : Message(n) \in In(tasks) <=> handled < n /\ n <= sent

\* A message in the worker's queue is known by its number.
LEMMA MessageOf ==
    ASSUME NEW t \in WorkerTask, t.kind = "message"
    PROVE  t.n \in 1..MaxMessages /\ t = Message(t.n)
<1>1. t \in [kind : {"message"}, n : 1..MaxMessages]
  BY DEF WorkerTask
<1> QED
  BY <1>1 DEF Message

\* s and r hold the same messages, in order if s does.
SameMessages(s, r) ==
    /\ InOrder(s) => InOrder(r)
    /\ \A n : Message(n) \in In(r) <=> Message(n) \in In(s)

LEMMA AppendKeepsMessages ==
    ASSUME NEW s \in Seq(WorkerTask), NEW e \in WorkerTask, e.kind # "message"
    PROVE  SameMessages(s, Append(s, e))
<1> DEFINE r == Append(s, e)
<1>1. /\ Len(r) = Len(s) + 1 /\ Len(s) \in Nat /\ r[Len(s) + 1] = e
      /\ \A i \in 1..Len(s) : r[i] = s[i]
  BY AppendFacts
<1>2. In(r) = In(s) \cup {e}
  BY AppendIn
<1> HIDE DEF r
<1>3. \A n : Message(n) # e
  BY DEF Message
<1>4. ASSUME InOrder(s), NEW i \in 1..Len(r), NEW j \in 1..Len(r), i < j,
             r[i].kind = "message", r[j].kind = "message"
      PROVE  r[i].n < r[j].n
  <2>1. i # Len(s) + 1 /\ j # Len(s) + 1
    BY <1>1, <1>4
  <2>2. i \in 1..Len(s) /\ j \in 1..Len(s)
    BY <1>1, <2>1
  <2> QED
    BY <1>1, <1>4, <2>2 DEF InOrder
<1>5. InOrder(s) => InOrder(r)
  BY <1>4, Zenon DEF InOrder
<1> QED
  BY <1>2, <1>3, <1>5 DEF SameMessages, r

\* What follows a message has a higher number.
LEMMA TailInOrder ==
    ASSUME NEW s \in Seq(WorkerTask), s # <<>>, InOrder(s)
    PROVE  /\ InOrder(Tail(s))
           /\ Head(s).kind = "message" =>
                 \A t \in In(Tail(s)) : t.kind = "message" => Head(s).n < t.n
<1> DEFINE r == Tail(s)
<1>1. /\ r \in Seq(WorkerTask) /\ Len(r) = Len(s) - 1 /\ Len(s) \in Nat \ {0} /\ Head(s) = s[1]
      /\ \A i \in 1..Len(r) : r[i] = s[i + 1]
  BY TailFacts
<1> HIDE DEF r
<1>2. ASSUME NEW i \in 1..Len(r)
      PROVE  /\ i + 1 \in 1..Len(s) /\ 1 \in 1..Len(s) /\ 1 < i + 1 /\ r[i] = s[i + 1]
             /\ \A j \in 1..Len(r) : i < j => i + 1 < j + 1
  BY <1>1
<1>3. ASSUME NEW i \in 1..Len(r), NEW j \in 1..Len(r), i < j,
             r[i].kind = "message", r[j].kind = "message"
      PROVE  r[i].n < r[j].n
  <2>1. i + 1 \in 1..Len(s) /\ j + 1 \in 1..Len(s) /\ i + 1 < j + 1 /\ r[i] = s[i + 1] /\ r[j] = s[j + 1]
    BY <1>2, <1>3
  <2> QED
    BY <1>3, <2>1, Zenon DEF InOrder
<1>4. ASSUME s[1].kind = "message", NEW i \in 1..Len(r), r[i].kind = "message"
      PROVE  s[1].n < r[i].n
  <2>1. i + 1 \in 1..Len(s) /\ 1 \in 1..Len(s) /\ 1 < i + 1 /\ r[i] = s[i + 1]
    BY <1>2
  <2> QED
    BY <1>4, <2>1, Zenon DEF InOrder
<1>5. InOrder(r)
  BY <1>3, Zenon DEF InOrder
<1>6. s[1].kind = "message" => \A t \in In(r) : t.kind = "message" => s[1].n < t.n
  BY <1>4, Zenon DEF In
<1> QED
  BY <1>1, <1>5, <1>6, Zenon DEF r

LEMMA TailKeepsMessages ==
    ASSUME NEW s \in Seq(WorkerTask), s # <<>>, Head(s).kind # "message"
    PROVE  SameMessages(s, Tail(s))
<1>1. In(s) = {Head(s)} \cup In(Tail(s))
  BY HeadTailSplit
<1>2. \A n : Message(n) # Head(s)
  BY DEF Message
<1>3. InOrder(s) => InOrder(Tail(s))
  BY TailInOrder
<1> QED
  BY <1>1, <1>2, <1>3 DEF SameMessages

LEMMA RemoveKeepsMessages ==
    ASSUME NEW s \in Seq(WorkerTask), NEW k \in 1..Len(s), s[k].kind # "message"
    PROVE  SameMessages(s, RemoveAt(s, k))
<1> DEFINE r == RemoveAt(s, k)
           at(i) == IF i < k THEN i ELSE i + 1
           to(i) == IF i < k THEN i ELSE i - 1
<1>1. /\ Len(s) \in Nat /\ Len(r) = Len(s) - 1
      /\ \A i \in 1..(k - 1) : r[i] = s[i]
      /\ \A i \in k..(Len(s) - 1) : r[i] = s[i + 1]
  BY RemoveFacts
<1> HIDE DEF r
<1>2. ASSUME NEW i \in 1..Len(r)
      PROVE  /\ at(i) \in 1..Len(s) /\ r[i] = s[at(i)]
             /\ \A j \in 1..Len(r) : i < j => at(i) < at(j)
  <2>1. CASE i < k
    <3>1. i \in 1..(k - 1)
      BY <1>1, <2>1
    <3> QED
      BY <1>1, <2>1, <3>1
  <2>2. CASE ~(i < k)
    <3>1. i \in k..(Len(s) - 1)
      BY <1>1, <2>2
    <3> QED
      BY <1>1, <2>2, <3>1
  <2> QED
    BY <2>1, <2>2
<1>3. ASSUME NEW i \in 1..Len(s), i # k
      PROVE  to(i) \in 1..Len(r) /\ r[to(i)] = s[i]
  <2>1. CASE i < k
    <3>1. i \in 1..(k - 1) /\ i \in 1..Len(r)
      BY <1>1, <2>1
    <3> QED
      BY <1>1, <2>1, <3>1
  <2>2. CASE ~(i < k)
    <3>1. i - 1 \in k..(Len(s) - 1) /\ (i - 1) + 1 = i /\ i - 1 \in 1..Len(r)
      BY <1>1, <1>3, <2>2
    <3>2. r[i - 1] = s[i]
      BY <1>1, <3>1
    <3> QED
      BY <2>2, <3>1, <3>2
  <2> QED
    BY <2>1, <2>2
<1> HIDE DEF at, to
<1>4. InOrder(s) => InOrder(r)
  <2> SUFFICES ASSUME InOrder(s), NEW i \in 1..Len(r), NEW j \in 1..Len(r), i < j,
                      r[i].kind = "message", r[j].kind = "message"
               PROVE  r[i].n < r[j].n
    BY Zenon DEF InOrder
  <2>1. at(i) \in 1..Len(s) /\ at(j) \in 1..Len(s) /\ at(i) < at(j) /\ r[i] = s[at(i)] /\ r[j] = s[at(j)]
    BY <1>2
  <2> QED
    BY <2>1, Zenon DEF InOrder
<1>5. ASSUME NEW n, Message(n) \in In(r) PROVE Message(n) \in In(s)
  BY <1>2, <1>5, Zenon DEF In
<1>6. ASSUME NEW n, Message(n) \in In(s) PROVE Message(n) \in In(r)
  <2>1. PICK i \in 1..Len(s) : s[i] = Message(n)
    BY <1>6, Zenon DEF In
  <2>2. i # k
    BY <2>1 DEF Message
  <2> QED
    BY <1>3, <2>1, <2>2, Zenon DEF In
<1> QED
  BY <1>4, <1>5, <1>6 DEF SameMessages, r

\* The next message handled is the next one posted.
LEMMA HandledIsNext ==
    ASSUME Inv, OrderInv, HandleMessage
    PROVE  /\ handled \in Nat /\ handled' = handled + 1
           /\ handled' <= sent /\ InOrder(tasks')
           /\ \A n \in 1..MaxMessages : Message(n) \in In(tasks') <=> handled' < n /\ n <= sent
<1>1. /\ pc = "loop" /\ ~killed /\ ~closing /\ tasks # <<>> /\ tasks' = Tail(tasks)
      /\ Head(tasks).kind = "message" /\ handled' = Head(tasks).n
  BY DEF HandleMessage, PerformTask, TakeTask, IsCleanupTask
<1>2. /\ handled \in Nat /\ sent \in Nat /\ sent <= MaxMessages /\ MaxMessages \in Nat
      /\ tasks \in Seq(WorkerTask) /\ handled' \in 1..MaxMessages
  <2>1. Head(tasks) \in WorkerTask
    BY <1>1, HeadTailSplit DEF Inv, QueueType
  <2>2. Head(tasks).n \in 1..MaxMessages
    BY <1>1, <2>1, MessageOf
  <2> QED
    BY <1>1, <2>2, BoundsFacts DEF Inv, QueueType, ParentType, ThreadType
<1>3. InOrder(tasks) /\ \A n \in 1..MaxMessages : Message(n) \in In(tasks) <=> handled < n /\ n <= sent
  BY <1>1 DEF OrderInv
<1>4. /\ Head(tasks) = Message(handled') /\ In(tasks) = {Head(tasks)} \cup In(tasks')
      /\ \A t \in In(tasks') : t.kind = "message" => handled' < t.n
      /\ InOrder(tasks')
  <2>1. Head(tasks) \in WorkerTask /\ In(tasks) = {Head(tasks)} \cup In(tasks')
    BY <1>1, <1>2, HeadTailSplit
  <2>2. Head(tasks) = Message(handled')
    BY <1>1, <2>1, MessageOf
  <2> QED
    BY <1>1, <1>2, <1>3, <2>1, <2>2, TailInOrder
<1>5. \A n : Message(n).kind = "message" /\ Message(n).n = n
  BY DEF Message
<1>6. handled < handled' /\ handled' <= sent
  BY <1>2, <1>3, <1>4
<1>7. handled' = handled + 1
  <2>1. handled + 1 \in 1..MaxMessages /\ handled < handled + 1 /\ handled + 1 <= sent
    BY <1>2, <1>6
  <2>2. Message(handled + 1) \in In(tasks)
    BY <1>3, <2>1
  <2>3. Message(handled + 1) = Head(tasks) \/ handled' < handled + 1
    BY <1>4, <1>5, <2>2
  <2>4. CASE Message(handled + 1) = Head(tasks)
    BY <1>4, <1>5, <2>4
  <2>5. CASE handled' < handled + 1
    BY <1>2, <1>6, <2>5
  <2> QED
    BY <2>3, <2>4, <2>5
<1>8. ASSUME NEW n \in 1..MaxMessages
      PROVE  Message(n) \in In(tasks') <=> handled' < n /\ n <= sent
  <2>1. CASE n = handled'
    <3>1. ~(handled' < n)
      BY <1>2, <2>1
    <3>2. Message(n) \notin In(tasks')
      BY <1>4, <1>5, <3>1
    <3> QED
      BY <3>1, <3>2
  <2>2. CASE n # handled'
    <3>1. Message(n) # Head(tasks)
      BY <1>4, <1>5, <2>2
    <3>2. Message(n) \in In(tasks') <=> handled < n /\ n <= sent
      BY <1>3, <1>4, <3>1
    <3>3. handled < n <=> handled' < n
      BY <1>2, <1>7, <2>2
    <3> QED
      BY <3>2, <3>3
  <2> QED
    BY <2>1, <2>2
<1> QED
  BY <1>2, <1>4, <1>6, <1>7, <1>8

LEMMA OrderKept ==
    ASSUME OrderInv, UNCHANGED <<handled, sent>>, killed => killed', closing => closing',
           \/ pc # "none" /\ pc' # "none" /\ SameMessages(tasks, tasks')
           \/ (pc = "none" <=> pc' = "none") /\ UNCHANGED <<early, tasks>>
    PROVE  OrderInv'
<1>1. CASE pc # "none" /\ pc' # "none" /\ SameMessages(tasks, tasks')
  <2> SUFFICES ASSUME ~killed', ~closing'
               PROVE  /\ InOrder(tasks')
                      /\ \A n \in 1..MaxMessages : Message(n) \in In(tasks') <=> handled' < n /\ n <= sent'
    BY <1>1 DEF OrderInv, InOrder, In
  <2>1. InOrder(tasks) /\ \A n \in 1..MaxMessages : Message(n) \in In(tasks) <=> handled < n /\ n <= sent
    BY <1>1 DEF OrderInv
  <2> QED
    BY <1>1, <2>1, Zenon DEF SameMessages
<1>2. CASE (pc = "none" <=> pc' = "none") /\ UNCHANGED <<early, tasks>>
  BY <1>2 DEF OrderInv, InOrder, In
<1> QED
  BY <1>1, <1>2

LEMMA OrderStep ==
    ASSUME Inv, Inv', CountInv, OrderInv, [Next]_vars
    PROVE  OrderInv'
<1>0. /\ QueueType /\ ParentType /\ ThreadType /\ LifeInv /\ LifeInv' /\ TaskInv /\ LoadInv /\ StopInv
      /\ tasks \in Seq(WorkerTask) /\ sent \in Nat /\ MaxMessages \in Nat
  BY BoundsFacts DEF Inv, QueueType, ParentType
<1>1. ASSUME Stop, UNCHANGED <<handled, sent, early, pc, closing>>
      PROVE  OrderInv'
  <2>1. CASE ContextExists
    <3>1. tasks' = Append(tasks, Plain("shutdownStart")) /\ killed' = killed /\ pc # "none"
      BY <1>1, <2>1 DEF Stop, ContextExists, Scripts
    <3>2. Plain("shutdownStart") \in WorkerTask /\ Plain("shutdownStart").kind # "message"
      BY WorkerTaskTypes DEF Plain
    <3> QED
      BY <1>0, <1>1, <3>1, <3>2, AppendKeepsMessages, OrderKept
  <2>2. CASE ~ContextExists
    <3>1. killed' = TRUE /\ tasks' = tasks
      BY <1>1, <2>2 DEF Stop
    <3> QED
      BY <1>1, <3>1, OrderKept
  <2> QED
    BY <2>1, <2>2
<1>2. CASE Terminate \/ CollectObject \/ ContextClosed
  <2>1. TerminateWorkerContext /\ UNCHANGED <<handled, sent, early, pc, closing>>
    BY <1>2 DEF Terminate, CollectObject, ContextClosed, threadVars
  <2>2. Stop \/ UNCHANGED <<tasks, killed>>
    BY <1>0, <2>1, TerminateEffect
  <2> QED
    BY <1>1, <2>1, <2>2, OrderKept
<1>3. CASE PostMessage
  <2>1. /\ sent' = sent + 1 /\ sent' \in 1..MaxMessages
        /\ UNCHANGED <<thread, pc, closing, killed, handled>>
    BY <1>0, <1>3 DEF PostMessage, threadVars
  <2>0. handled \in Nat /\ handled <= sent /\ handled' <= sent'
    BY <1>0, <2>1 DEF ThreadType, OrderInv
  <2>2. CASE thread
    <3>1. tasks' = Append(tasks, Message(sent')) /\ pc # "none"
      BY <1>0, <1>3, <2>2 DEF PostMessage, LifeInv
    <3> SUFFICES ASSUME ~killed, ~closing
                 PROVE  /\ InOrder(tasks')
                        /\ \A n \in 1..MaxMessages : Message(n) \in In(tasks') <=> handled' < n /\ n <= sent'
      BY <2>0, <2>1, <3>1 DEF OrderInv, InOrder, In
    <3>2. InOrder(tasks) /\ \A n \in 1..MaxMessages : Message(n) \in In(tasks) <=> handled < n /\ n <= sent
      BY <3>1 DEF OrderInv
    <3> DEFINE e == Message(sent')
    <3>3. e \in WorkerTask /\ e.kind = "message" /\ e.n = sent'
      BY <2>1, WorkerTaskTypes DEF Message
    <3>4. /\ Len(tasks') = Len(tasks) + 1 /\ Len(tasks) \in Nat /\ tasks'[Len(tasks) + 1] = e
          /\ \A i \in 1..Len(tasks) : tasks'[i] = tasks[i]
          /\ In(tasks') = In(tasks) \cup {e}
      BY <1>0, <3>1, <3>3, AppendFacts, AppendIn
    <3>5. \A n : Message(n) = e <=> n = sent'
      BY DEF Message
    <3> HIDE DEF e
    <3>6. ASSUME NEW n \in 1..MaxMessages
          PROVE  Message(n) \in In(tasks') <=> handled' < n /\ n <= sent'
      <4>1. handled \in Nat /\ handled <= sent /\ handled' = handled
        BY <2>0, <2>1
      <4>2. Message(n) \in In(tasks') <=> (handled < n /\ n <= sent) \/ n = sent'
        BY <3>2, <3>4, <3>5
      <4> QED
        BY <1>0, <2>1, <4>1, <4>2
    <3>7. ASSUME NEW i \in 1..Len(tasks'), NEW j \in 1..Len(tasks'), i < j,
                 tasks'[i].kind = "message", tasks'[j].kind = "message"
          PROVE  tasks'[i].n < tasks'[j].n
      <4>1. i \in 1..Len(tasks) /\ tasks'[i] = tasks[i]
        BY <3>4, <3>7
      <4>2. CASE j \in 1..Len(tasks)
        BY <3>2, <3>4, <3>7, <4>1, <4>2 DEF InOrder
      <4>3. CASE j = Len(tasks) + 1
        <5>1. tasks[i] \in WorkerTask /\ tasks[i] \in In(tasks)
          BY <1>0, <4>1, ElementOfSeq DEF In
        <5>2. tasks[i].n \in 1..MaxMessages /\ Message(tasks[i].n) \in In(tasks)
          BY <3>7, <4>1, <5>1, MessageOf
        <5>3. tasks[i].n <= sent
          BY <3>2, <5>2
        <5> QED
          BY <1>0, <2>1, <3>3, <3>4, <4>1, <4>3, <5>2, <5>3
      <4> QED
        BY <3>4, <4>2, <4>3
    <3> QED
      BY <3>6, <3>7 DEF InOrder
  <2>3. CASE ~thread
    <3>1. early' = Append(early, sent') /\ tasks' = tasks
      BY <1>3, <2>3 DEF PostMessage
    <3>2. pc = "none" \/ killed
      BY <1>0, <2>3 DEF LifeInv, StopInv
    <3>3. CASE pc = "none"
      <4>1. Len(early) = sent /\ handled = 0 /\ \A i \in 1..sent : early[i] = i
        BY <3>3 DEF OrderInv
      <4>2. /\ Len(early') = Len(early) + 1 /\ early'[Len(early) + 1] = sent'
            /\ \A i \in 1..Len(early) : early'[i] = early[i]
        BY <1>0, <2>1, <3>1, AppendFacts DEF ParentType
      <4>3. \A i \in 1..sent' : early'[i] = i
        <5> SUFFICES ASSUME NEW i \in 1..sent' PROVE early'[i] = i
          OBVIOUS
        <5>1. i \in 1..sent \/ i = sent + 1
          BY <1>0, <2>1
        <5> QED
          BY <2>1, <4>1, <4>2, <5>1
      <4> QED
        BY <2>0, <2>1, <3>3, <4>1, <4>2, <4>3 DEF OrderInv
    <3>4. CASE killed /\ pc # "none"
      BY <2>0, <2>1, <3>4 DEF OrderInv
    <3> QED
      BY <3>2, <3>3, <3>4
  <2> QED
    BY <2>2, <2>3
<1>4. CASE StartWorkerContext
  <2>1. /\ pc = "none" /\ pc' # "none" /\ UNCHANGED <<asked, sent, handled>>
        /\ tasks = <<>>
    BY <1>0, <1>4 DEF StartWorkerContext, LifeInv, CountInv
  <2>2. CASE asked
    <3>1. killed' = TRUE
      BY <1>4, <2>1, <2>2 DEF StartWorkerContext, Stop, ContextExists, Scripts
    <3> QED
      BY <2>1, <3>1 DEF OrderInv
  <2>3. CASE ~asked
    <3>1. tasks' = EarlyPosts
      <4>1. tasks' = tasks \o EarlyPosts
        BY <1>4, <2>3 DEF StartWorkerContext, PostEarlyTasks, PostEarly
      <4> QED
        BY <1>0, <2>1, <4>1, EarlyPostsType, ConcatEmptySeq
    <3>2. Len(early) = sent /\ handled = 0 /\ \A i \in 1..sent : early[i] = i
      BY <2>1 DEF OrderInv
    <3>3. Len(tasks') = sent /\ \A i \in 1..sent : tasks'[i] = Message(i)
      BY <1>0, <3>1, <3>2, EarlyPostsType DEF EarlyPosts
    <3>4. \A n : Message(n).kind = "message" /\ Message(n).n = n
      BY DEF Message
    <3>5. InOrder(tasks')
      BY <3>3, <3>4 DEF InOrder
    <3>6. ASSUME NEW n \in 1..MaxMessages
          PROVE  Message(n) \in In(tasks') <=> 0 < n /\ n <= sent
      <4>1. Message(n) \in In(tasks') <=> \E i \in 1..sent : Message(i) = Message(n)
        BY <3>3 DEF In
      <4>2. Message(n) \in In(tasks') <=> n \in 1..sent
        BY <3>4, <4>1
      <4> QED
        BY <1>0, <4>2
    <3> QED
      BY <2>1, <3>2, <3>5, <3>6 DEF OrderInv
  <2> QED
    BY <2>2, <2>3
<1>5. ASSUME NEW t \in WorkerTask, tasks' \in {tasks, Append(tasks, t)}, t.kind # "message", pc # "none",
             UNCHANGED <<handled, sent, early, pc, killed>>, closing => closing'
      PROVE  OrderInv'
  BY <1>0, <1>5, AppendKeepsMessages, OrderKept
<1>6. ASSUME NEW l \in Loads, LoadFinishes(l)
      PROVE  OrderInv'
  <2>1. OfLoad("loaded", l) \in WorkerTask /\ OfLoad("loaded", l).kind # "message"
    BY WorkerTaskTypes DEF OfLoad
  <2>2. pc # "none"
    BY <1>0, <1>6 DEF LoadFinishes, LoadInv, StopInv
  <2>3. /\ tasks' \in {tasks, Append(tasks, OfLoad("loaded", l))}
        /\ UNCHANGED <<handled, sent, early, pc, closing, killed>>
    BY <1>6 DEF LoadFinishes, parentVars, threadVars
  <2> QED
    BY <1>5, <2>1, <2>2, <2>3
<1>7. CASE Close
  <2>1. Plain("close") \in WorkerTask /\ Plain("close").kind # "message"
    BY WorkerTaskTypes DEF Plain
  <2> QED
    BY <1>5, <1>7, <2>1 DEF Close, InScript, Scripts, parentVars
<1>8. CASE \/ DeliverMessage \/ DeliverException \/ CreateLoader \/ DestroyLoader
           \/ ReportActivity \/ ContextDestroyed \/ ScriptFails
  <2>1. UNCHANGED <<handled, sent, early, tasks, pc, closing, killed>>
    BY <1>8 DEF DeliverMessage, DeliverException, CreateLoader, DestroyLoader, ReportActivity,
                ContextDestroyed, ScriptFails, parentVars, threadVars
  <2> QED
    BY <2>1, OrderKept
<1>9. CASE ThreadStarts \/ Evaluate \/ EnterLoop \/ LoopEnds \/ TimerFires
  <2>1. /\ UNCHANGED <<handled, sent, early, tasks, closing, killed>>
        /\ pc # "none" /\ pc' # "none"
    BY <1>9 DEF ThreadStarts, Evaluate, EnterLoop, LoopEnds, TimerFires, parentVars
  <2> QED
    BY <2>1, OrderKept
<1>10. CASE PostToObject \/ SetTimer \/ ImportReturns \/ SyncLoadReturns \/ \E l \in Loads : StartLoad(l)
  <2>1. UNCHANGED <<handled, sent, early, tasks, pc, closing, killed>>
    BY <1>10 DEF PostToObject, SetTimer, ImportReturns, SyncLoadReturns, StartLoad, parentVars
  <2> QED
    BY <2>1, OrderKept
<1>11. ASSUME NEW throws \in BOOLEAN, ScriptReturns(throws)
       PROVE  OrderInv'
  <2>1. /\ UNCHANGED <<handled, sent, early, tasks, closing, killed>>
        /\ pc # "none" /\ pc' # "none"
    BY <1>11 DEF ScriptReturns, InScript, Scripts, parentVars
  <2> QED
    BY <2>1, OrderKept
<1>12. CASE SkipTask
  <2>1. closing' /\ pc' # "none" /\ UNCHANGED <<handled, sent>>
    BY <1>12 DEF SkipTask, TakeTask, parentVars, threadVars
  <2> QED
    BY <2>1 DEF OrderInv
<1>13. CASE HandleMessage
  <2>1. UNCHANGED sent /\ pc' # "none"
    BY <1>13 DEF HandleMessage, PerformTask, TakeTask, parentVars
  <2>2. /\ handled' <= sent /\ InOrder(tasks')
        /\ \A n \in 1..MaxMessages : Message(n) \in In(tasks') <=> handled' < n /\ n <= sent
    BY <1>13, HandledIsNext
  <2> QED
    BY <2>1, <2>2 DEF OrderInv, InOrder, In
<1>14. CASE HandleLoaded \/ NotifyClosed \/ ShutdownFinish
  <2>1. /\ tasks # <<>> /\ tasks' = Tail(tasks) /\ Head(tasks).kind # "message"
        /\ pc # "none" /\ pc' # "none" /\ UNCHANGED <<handled, sent, closing>> /\ (killed => killed')
    BY <1>14 DEF HandleLoaded, NotifyClosed, ShutdownFinish, PerformTask, TakeTask, parentVars, threadVars
  <2>2. SameMessages(tasks, tasks')
    BY <1>0, <2>1, TailKeepsMessages
  <2> QED
    BY <2>1, <2>2, OrderKept
<1>15. CASE ShutdownStart
  <2>1. /\ pc # "none" /\ tasks # <<>> /\ Head(tasks).kind # "message"
        /\ tasks' = Append(Tail(tasks), Plain("shutdownFinish"))
        /\ UNCHANGED <<handled, sent, pc, closing, killed>>
    BY <1>15 DEF ShutdownStart, parentVars
  <2>2. Tail(tasks) \in Seq(WorkerTask) /\ SameMessages(tasks, Tail(tasks))
    BY <1>0, <2>1, HeadTailSplit, TailKeepsMessages
  <2>3. SameMessages(Tail(tasks), tasks')
    <3>1. Plain("shutdownFinish") \in WorkerTask /\ Plain("shutdownFinish").kind # "message"
      BY WorkerTaskTypes DEF Plain
    <3> QED
      BY <2>1, <2>2, <3>1, AppendKeepsMessages
  <2>4. SameMessages(tasks, tasks')
    BY <2>2, <2>3, Zenon DEF SameMessages
  <2> QED
    BY <2>1, <2>4, OrderKept
<1>16. CASE NestedTask
  <2>1. PICK i \in 1..Len(tasks) : tasks[i] = OfLoad("loaded", nested) /\ tasks' = RemoveAt(tasks, i)
    BY <1>16 DEF NestedTask
  <2>2. tasks[i].kind # "message"
    BY <2>1 DEF OfLoad
  <2>3. /\ UNCHANGED <<handled, sent, pc, closing, killed>> /\ pc # "none"
    BY <1>0, <1>16 DEF NestedTask, parentVars, LifeInv, Scripts
  <2>4. SameMessages(tasks, tasks')
    BY <1>0, <2>1, <2>2, RemoveKeepsMessages
  <2> QED
    BY <2>3, <2>4, OrderKept
<1>17. CASE UNCHANGED vars
  BY <1>17, OrderKept DEF vars, parentVars, threadVars
<1> QED
  BY <1>2, <1>3, <1>4, <1>6, <1>7, <1>8, <1>9, <1>10, <1>11, <1>12, <1>13, <1>14, <1>15, <1>16, <1>17
  DEF Next, MainThreadTask, RunLoop, ScriptEnds

LEMMA OrderHolds == Spec => [](Inv /\ CountInv /\ OrderInv)
<1>1. Init => Inv /\ CountInv /\ OrderInv
  BY InitInv DEF Init, CountInv, OrderInv
<1>2. Inv /\ CountInv /\ OrderInv /\ [Next]_vars => (Inv /\ CountInv /\ OrderInv)'
  BY InvStep, CountStep, OrderStep
<1> QED
  BY <1>1, <1>2, PTL DEF Spec

\* Messages reach the worker in the order they were posted and none is passed
\* over, those posted before its thread existed included
\* (WorkerMessagingProxy.cpp:249, 302).
THEOREM HandledInOrder == Spec => MessagesInOrder
<1>1. Inv /\ OrderInv /\ [Next]_vars => [handled' \in {handled, handled + 1}]_vars
  <2> SUFFICES ASSUME Inv, OrderInv, Next PROVE handled' \in {handled, handled + 1}
    OBVIOUS
  <2>1. CASE HandleMessage
    BY <2>1, HandledIsNext
  <2>2. CASE ~HandleMessage
    BY <2>2 DEF Next, PostMessage, Terminate, ScriptFails, StartWorkerContext, CollectObject,
       MainThreadTask, DeliverMessage, DeliverException, ReportActivity, ContextClosed, ContextDestroyed,
       CreateLoader, DestroyLoader, LoadFinishes, RunLoop, ThreadStarts, Evaluate, EnterLoop, SkipTask,
       HandleLoaded, NotifyClosed, ShutdownStart, ShutdownFinish, LoopEnds, NestedTask, SyncLoadReturns,
       TimerFires, PostToObject, SetTimer, Close, ScriptEnds, ImportReturns, ScriptReturns, StartLoad, threadVars
  <2> QED
    BY <2>1, <2>2
<1> QED
  BY <1>1, OrderHolds, PTL DEF Spec, MessagesInOrder

-----------------------------------------------------------------------------
(* The session that the page and its worker keep.  What is on its way to   *)
(* the object is what the parent's queue holds of the posts, in order; a   *)
(* worker at rest stays at rest.                                           *)

\* The posts of a queue are in order; r holds the same posts as s, in order if
\* s does.
Increasing(s) == \A i, j \in 1..Len(s) : i < j /\ IsPost(s[i]) /\ IsPost(s[j]) => s[i].n < s[j].n
SamePosts(s, r) == PostsIn(r) = PostsIn(s) /\ (Increasing(s) => Increasing(r))

SessionInv ==
    /\ Increasing(mainTasks)
    /\ \A n \in PostsIn(mainTasks) : n \in Nat /\ n <= posted
    /\ ~object => asked
    /\ pc = "none" => posted = 0

LEMMA PostsAre ==
    ASSUME NEW s
    PROVE  PostsIn(s) = {t.n : t \in {u \in In(s) : IsPost(u)}}
<1>1. ASSUME NEW n \in PostsIn(s) PROVE n \in {t.n : t \in {u \in In(s) : IsPost(u)}}
  <2>1. PICK i \in 1..Len(s) : IsPost(s[i]) /\ n = s[i].n
    BY DEF PostsIn
  <2>2. s[i] \in In(s)
    BY DEF In
  <2> QED
    BY <2>1, <2>2
<1>2. ASSUME NEW n \in {t.n : t \in {u \in In(s) : IsPost(u)}} PROVE n \in PostsIn(s)
  <2>1. PICK t \in In(s) : IsPost(t) /\ n = t.n
    OBVIOUS
  <2>2. PICK i \in 1..Len(s) : t = s[i]
    BY DEF In
  <2> QED
    BY <2>1, <2>2 DEF PostsIn
<1> QED
  BY <1>1, <1>2

\* Tasks that are no posts change nothing of the posts.
LEMMA NoPostsAdded ==
    ASSUME NEW s \in Seq(MainTask), NEW t \in Seq(MainTask), \A x \in In(t) : ~IsPost(x)
    PROVE  SamePosts(s, s \o t)
<1> DEFINE r == s \o t
<1>1. /\ Len(r) = Len(s) + Len(t) /\ Len(s) \in Nat /\ Len(t) \in Nat
      /\ \A i \in 1..Len(s) : r[i] = s[i]
      /\ \A i \in (Len(s) + 1)..Len(r) : r[i] = t[i - Len(s)] /\ i - Len(s) \in 1..Len(t)
      /\ In(r) = In(s) \cup In(t)
  BY ConcatFacts, ConcatIn
<1> HIDE DEF r
<1>2. PostsIn(r) = PostsIn(s)
  <2>1. {u \in In(r) : IsPost(u)} = {u \in In(s) : IsPost(u)}
    BY <1>1
  <2> QED
    BY <2>1, PostsAre
<1>3. ASSUME Increasing(s) PROVE Increasing(r)
  <2> SUFFICES ASSUME NEW i \in 1..Len(r), NEW j \in 1..Len(r), i < j, IsPost(r[i]), IsPost(r[j])
               PROVE  r[i].n < r[j].n
    BY DEF Increasing
  <2>1. ASSUME NEW k \in 1..Len(r), IsPost(r[k]) PROVE k \in 1..Len(s) /\ r[k] = s[k]
    <3>1. CASE k \in (Len(s) + 1)..Len(r)
      BY <1>1, <2>1, <3>1 DEF In
    <3> QED
      BY <1>1, <3>1
  <2>2. i \in 1..Len(s) /\ r[i] = s[i] /\ j \in 1..Len(s) /\ r[j] = s[j]
    BY <2>1
  <2> QED
    BY <1>3, <2>2 DEF Increasing
<1> QED
  BY <1>2, <1>3 DEF SamePosts, r

LEMMA NoPostAppended ==
    ASSUME NEW s \in Seq(MainTask), NEW e \in MainTask, ~IsPost(e)
    PROVE  SamePosts(s, Append(s, e))
<1>1. <<e>> \in Seq(MainTask) /\ In(<<e>>) = {e}
  BY SingletonSeq
<1>2. Append(s, e) = s \o <<e>>
  BY AppendIsConcat
<1> QED
  BY <1>1, <1>2, NoPostsAdded

\* A post with the highest number comes last.
LEMMA PostAppended ==
    ASSUME NEW s \in Seq(MainTask), NEW e \in MainTask, IsPost(e), Increasing(s),
           \A n \in PostsIn(s) : n < e.n
    PROVE  PostsIn(Append(s, e)) = PostsIn(s) \cup {e.n} /\ Increasing(Append(s, e))
<1> DEFINE r == Append(s, e)
<1>1. /\ Len(r) = Len(s) + 1 /\ Len(s) \in Nat /\ r[Len(s) + 1] = e
      /\ \A i \in 1..Len(s) : r[i] = s[i]
      /\ In(r) = In(s) \cup {e}
  BY AppendFacts, AppendIn
<1> HIDE DEF r
<1>2. PostsIn(r) = PostsIn(s) \cup {e.n}
  <2>1. {u \in In(r) : IsPost(u)} = {u \in In(s) : IsPost(u)} \cup {e}
    BY <1>1
  <2> HIDE DEF IsPost
  <2> QED
    BY <2>1, PostsAre
<1>3. Increasing(r)
  <2> SUFFICES ASSUME NEW i \in 1..Len(r), NEW j \in 1..Len(r), i < j, IsPost(r[i]), IsPost(r[j])
               PROVE  r[i].n < r[j].n
    BY DEF Increasing
  <2>1. i \in 1..Len(s) /\ r[i] = s[i]
    BY <1>1
  <2>2. CASE j \in 1..Len(s)
    BY <1>1, <2>1, <2>2 DEF Increasing
  <2>3. CASE j = Len(s) + 1
    <3>1. s[i].n \in PostsIn(s)
      BY <2>1 DEF PostsIn
    <3> QED
      BY <1>1, <2>1, <2>3, <3>1
  <2> QED
    BY <1>1, <2>2, <2>3
<1> QED
  BY <1>2, <1>3 DEF r

\* The first task is taken: a post that is first has the lowest number.
LEMMA FirstTaken ==
    ASSUME NEW s \in Seq(MainTask), s # <<>>
    PROVE  /\ ~IsPost(Head(s)) => SamePosts(s, Tail(s))
           /\ Increasing(s) => Increasing(Tail(s))
           /\ Increasing(s) /\ IsPost(Head(s)) =>
                 /\ Head(s).n \in PostsIn(s) /\ Head(s).n \in Nat
                 /\ PostsIn(Tail(s)) = PostsIn(s) \ {Head(s).n}
                 /\ \A n \in PostsIn(s) : Head(s).n <= n
<1> DEFINE h == Head(s)
           r == Tail(s)
<1>1. /\ r \in Seq(MainTask) /\ Len(r) = Len(s) - 1 /\ Len(s) \in Nat \ {0}
      /\ h = s[1] /\ h \in MainTask
      /\ \A i \in 1..Len(r) : r[i] = s[i + 1] /\ i + 1 \in 1..Len(s) /\ 1 < i + 1
      /\ In(s) = {h} \cup In(r)
      /\ 1 \in 1..Len(s)
  BY TailFacts, HeadTailSplit
<1> HIDE DEF h, r
<1>2. ASSUME Increasing(s) PROVE Increasing(r)
  <2> SUFFICES ASSUME NEW i \in 1..Len(r), NEW j \in 1..Len(r), i < j, IsPost(r[i]), IsPost(r[j])
               PROVE  r[i].n < r[j].n
    BY DEF Increasing
  <2>1. i + 1 < j + 1
    BY <1>1
  <2> QED
    BY <1>1, <1>2, <2>1 DEF Increasing
<1>3. CASE ~IsPost(h)
  <2>1. {u \in In(s) : IsPost(u)} = {u \in In(r) : IsPost(u)}
    BY <1>1, <1>3
  <2>2. PostsIn(r) = PostsIn(s)
    BY <2>1, PostsAre
  <2> QED
    BY <1>2, <1>3, <2>2 DEF SamePosts, h, r
<1>4. CASE IsPost(h) /\ Increasing(s)
  <2>1. h.n \in PostsIn(s)
    BY <1>1, <1>4 DEF PostsIn
  <2>2. h.n \in Nat
    BY <1>1, <1>4, MainTaskFacts, BoundsFacts DEF IsPost
  <2>3. \A i \in 1..Len(r) : IsPost(r[i]) => h.n < r[i].n
    BY <1>1, <1>4 DEF Increasing
  <2>4. PostsIn(s) = {h.n} \cup PostsIn(r)
    <3>1. {u \in In(s) : IsPost(u)} = {h} \cup {u \in In(r) : IsPost(u)}
      BY <1>1, <1>4
    <3> QED
      BY <3>1, PostsAre
  <2>5. \A n \in PostsIn(r) : h.n < n
    BY <2>3 DEF PostsIn
  <2>6. PostsIn(r) = PostsIn(s) \ {h.n}
    BY <2>2, <2>4, <2>5
  <2>7. \A n \in PostsIn(r) : n \in Nat
    <3>1. \A i \in 1..Len(r) : r[i] \in MainTask
      BY <1>1, ElementOfSeq
    <3> QED
      BY <3>1, MainTaskFacts, BoundsFacts DEF PostsIn, IsPost
  <2>8. \A n \in PostsIn(s) : h.n <= n
    BY <2>2, <2>4, <2>5, <2>7
  <2> QED
    BY <1>2, <1>4, <2>1, <2>2, <2>6, <2>8 DEF h, r
<1> QED
  BY <1>2, <1>3, <1>4 DEF h, r

LEMMA SamePostsTwice ==
    ASSUME NEW s, NEW q, NEW r, SamePosts(s, q), SamePosts(q, r)
    PROVE  SamePosts(s, r)
  BY DEF SamePosts

\* The tasks of the parent that are no posts.
LEMMA NotPosts ==
    /\ \A c, a : ~IsPost(Activity(c, a))
    /\ \A k \in {"createLoader", "destroyLoader"} : \A l : ~IsPost(OfLoad(k, l))
    /\ ~IsPost(Plain("closed")) /\ ~IsPost(Plain("destroyed"))
  BY DEF IsPost, Activity, OfLoad, Plain

Posting == PostToObject \/ ScriptReturns(TRUE)
Delivering == DeliverMessage \/ DeliverException

\* No other step changes the posts or what the object received.
LEMMA PostsUntouched ==
    ASSUME Inv, [Next]_vars, ~Posting, ~Delivering
    PROVE  UNCHANGED <<posted, delivered>> /\ SamePosts(mainTasks, mainTasks')
<1>0. mainTasks \in Seq(MainTask) /\ QueueType /\ ContextActive \in BOOLEAN
  BY DEF Inv, QueueType, ThreadType, ContextActive
<1>1. ASSUME mainTasks' = mainTasks PROVE SamePosts(mainTasks, mainTasks')
  BY <1>1 DEF SamePosts
<1>2. ASSUME NEW e \in MainTask, ~IsPost(e), mainTasks' = Append(mainTasks, e)
      PROVE  SamePosts(mainTasks, mainTasks')
  BY <1>0, <1>2, NoPostAppended
<1>3. ASSUME NEW c \in BOOLEAN, mainTasks' = Append(mainTasks, Activity(c, ContextActive))
      PROVE  SamePosts(mainTasks, mainTasks')
  BY <1>0, <1>2, <1>3, MainTaskTypes, NotPosts
<1>4. CASE \/ PostMessage \/ Terminate \/ ScriptFails \/ StartWorkerContext \/ CollectObject
           \/ \E l \in Loads : LoadFinishes(l)
  BY <1>1, <1>4 DEF PostMessage, Terminate, ScriptFails, StartWorkerContext, CollectObject,
                    LoadFinishes, parentVars, threadVars
<1>5. CASE ReportActivity \/ ContextClosed \/ ContextDestroyed \/ CreateLoader \/ DestroyLoader
  <2>1. /\ mainTasks # <<>> /\ mainTasks' = Tail(mainTasks)
        /\ Head(mainTasks).kind \in {"activity", "closed", "destroyed", "createLoader", "destroyLoader"}
    BY <1>5 DEF ReportActivity, ContextClosed, ContextDestroyed, CreateLoader, DestroyLoader, TakeMainTask
  <2>2. SamePosts(mainTasks, mainTasks')
    BY <1>0, <2>1, FirstTaken DEF IsPost
  <2> QED
    BY <1>5, <2>2 DEF ReportActivity, ContextClosed, ContextDestroyed, CreateLoader, DestroyLoader,
                      parentVars, threadVars
<1>6. CASE \/ ThreadStarts \/ Evaluate \/ SkipTask \/ ShutdownFinish \/ NestedTask \/ TimerFires
           \/ SetTimer \/ Close
  BY <1>1, <1>6 DEF ThreadStarts, Evaluate, SkipTask, ShutdownFinish, NestedTask, TimerFires, SetTimer,
                    Close, parentVars, threadVars
<1>7. CASE EnterLoop \/ ImportReturns
  <2>1. mainTasks' = Append(mainTasks, Activity(FALSE, ContextActive))
    BY <1>7 DEF EnterLoop, ImportReturns
  <2> QED
    BY <1>3, <1>7, <2>1 DEF EnterLoop, ImportReturns, parentVars
<1>8. CASE HandleMessage
  <2>1. mainTasks' = mainTasks \/ mainTasks' = Append(mainTasks, Activity(TRUE, ContextActive))
    BY <1>8 DEF HandleMessage
  <2> QED
    BY <1>1, <1>3, <1>8, <2>1 DEF HandleMessage, parentVars
<1>9. CASE HandleLoaded
  <2> DEFINE l == Head(tasks).load
  <2>1. mainTasks' = mainTasks \/ mainTasks' = Append(mainTasks, OfLoad("destroyLoader", l))
    BY <1>9 DEF HandleLoaded
  <2>2. l \in Loads
    <3>1. Head(tasks) \in WorkerTask /\ Head(tasks).kind = "loaded"
      BY <1>0, <1>9, TakeTaskEffect DEF HandleLoaded, PerformTask
    <3> QED
      BY <3>1, WorkerTaskFacts
  <2> HIDE DEF l
  <2>3. SamePosts(mainTasks, mainTasks')
    BY <1>1, <1>2, <2>1, <2>2, MainTaskTypes, NotPosts
  <2> QED
    BY <1>9, <2>3 DEF HandleLoaded, parentVars
<1>10. CASE NotifyClosed
  BY <1>2, <1>10, MainTaskTypes, NotPosts DEF NotifyClosed, parentVars, threadVars
<1>11. CASE LoopEnds
  BY <1>2, <1>11, MainTaskTypes, NotPosts DEF LoopEnds, parentVars
<1>12. CASE ShutdownStart
  <2> DEFINE t == [i \in 1..Cardinality(Waiting) |-> OfLoad("destroyLoader", SetToSeq(Waiting)[i])]
  <2>1. t \in Seq(MainTask) /\ In(t) = {OfLoad("destroyLoader", l) : l \in Waiting}
    <3>1. Waiting \in SUBSET Loads
      BY DEF Waiting
    <3> QED
      BY <3>1, CancelledLoads
  <2>2. mainTasks' = mainTasks \o t
    BY <1>12 DEF ShutdownStart, Waiting
  <2> HIDE DEF t
  <2>3. \A x \in In(t) : ~IsPost(x)
    BY <2>1, NotPosts
  <2> QED
    BY <1>0, <1>12, <2>1, <2>2, <2>3, NoPostsAdded DEF ShutdownStart, parentVars
<1>13. CASE SyncLoadReturns
  <2>1. nested \in Loads
    BY <1>13, LoadsFacts DEF SyncLoadReturns, Inv, ThreadType
  <2> QED
    BY <1>2, <1>13, <2>1, MainTaskTypes, NotPosts DEF SyncLoadReturns, parentVars
<1>14. ASSUME NEW l \in Loads, StartLoad(l)
       PROVE  UNCHANGED <<posted, delivered>> /\ SamePosts(mainTasks, mainTasks')
  BY <1>2, <1>14, MainTaskTypes, NotPosts DEF StartLoad, parentVars
<1>15. CASE ScriptReturns(FALSE)
  <2>1. /\ UNCHANGED <<posted, delivered>>
        /\ mainTasks' = mainTasks \o <<>> \o
              (IF pc = "handling" THEN <<Activity(TRUE, ContextActive)>> ELSE <<>>)
    BY <1>15 DEF ScriptReturns, parentVars
  <2>2. mainTasks \o <<>> = mainTasks
    BY <1>0, ConcatEmptySeq
  <2>3. CASE pc = "handling"
    <3>1. mainTasks' = mainTasks \o <<Activity(TRUE, ContextActive)>>
      BY <2>1, <2>2, <2>3
    <3>2. mainTasks' = Append(mainTasks, Activity(TRUE, ContextActive))
      BY <1>0, <3>1, MainTaskTypes, AppendIsConcat
    <3> QED
      BY <1>3, <2>1, <3>2
  <2>4. CASE pc # "handling"
    BY <1>1, <2>1, <2>2, <2>4
  <2> QED
    BY <2>3, <2>4
<1>16. CASE UNCHANGED vars
  BY <1>1, <1>16 DEF vars, parentVars, threadVars
<1> QED
  BY <1>4, <1>5, <1>6, <1>7, <1>8, <1>9, <1>10, <1>11, <1>12, <1>13, <1>14, <1>15, <1>16
  DEF Next, MainThreadTask, RunLoop, ScriptEnds, Posting, Delivering

\* What the worker posts has the next number and is last on its way.
LEMMA PostingEffect ==
    ASSUME Inv, SessionInv, Posting
    PROVE  /\ pc \in Scripts /\ posted' = posted + 1 /\ posted \in Nat
           /\ PostsIn(mainTasks') = PostsIn(mainTasks) \cup {posted'} /\ Increasing(mainTasks')
<1>0. /\ mainTasks \in Seq(MainTask) /\ ContextActive \in BOOLEAN /\ posted \in Nat
      /\ Increasing(mainTasks) /\ \A n \in PostsIn(mainTasks) : n \in Nat /\ n <= posted
  BY BoundsFacts DEF Inv, QueueType, ThreadType, ContextActive, SessionInv
<1>1. pc \in Scripts /\ posted' = posted + 1 /\ posted' \in 1..MaxPosts
  BY <1>0, BoundsFacts DEF Posting, PostToObject, ScriptReturns, InScript
<1>2. ASSUME NEW e \in MainTask, IsPost(e), e.n = posted'
      PROVE  /\ Append(mainTasks, e) \in Seq(MainTask)
             /\ PostsIn(Append(mainTasks, e)) = PostsIn(mainTasks) \cup {posted'}
             /\ Increasing(Append(mainTasks, e))
  <2>1. \A n \in PostsIn(mainTasks) : n < e.n
    BY <1>0, <1>1, <1>2
  <2> QED
    BY <1>0, <1>2, <2>1, PostAppended, AppendProperties
<1>3. \A n : /\ IsPost(Message(n)) /\ Message(n).n = n
             /\ IsPost(Exception(n)) /\ Exception(n).n = n
  BY DEF IsPost, Message, Exception
<1>4. CASE PostToObject
  <2>1. mainTasks' = Append(mainTasks, Message(posted')) /\ Message(posted') \in MainTask
    BY <1>1, <1>4, MainTaskTypes DEF PostToObject
  <2> QED
    BY <1>0, <1>1, <1>2, <1>3, <2>1
<1>5. CASE ScriptReturns(TRUE)
  <2> DEFINE m == Append(mainTasks, Exception(posted'))
  <2>1. Exception(posted') \in MainTask
    BY <1>1, MainTaskTypes
  <2>2. mainTasks \o <<Exception(posted')>> = m
    BY <1>0, <2>1, AppendIsConcat
  <2>3. mainTasks' = m \o (IF pc = "handling" THEN <<Activity(TRUE, ContextActive)>> ELSE <<>>)
    BY <1>5, <2>2 DEF ScriptReturns
  <2>4. m \in Seq(MainTask) /\ PostsIn(m) = PostsIn(mainTasks) \cup {posted'} /\ Increasing(m)
    BY <1>2, <1>3, <2>1
  <2> HIDE DEF m
  <2>5. CASE pc = "handling"
    <3>1. mainTasks' = Append(m, Activity(TRUE, ContextActive))
      BY <1>0, <2>3, <2>4, <2>5, MainTaskTypes, AppendIsConcat
    <3>2. SamePosts(m, mainTasks')
      BY <1>0, <2>4, <3>1, MainTaskTypes, NotPosts, NoPostAppended
    <3> QED
      BY <1>0, <1>1, <2>4, <3>2 DEF SamePosts
  <2>6. CASE pc # "handling"
    <3>1. mainTasks' = m
      BY <2>3, <2>4, <2>6, ConcatEmptySeq
    <3> QED
      BY <1>0, <1>1, <2>4, <3>1
  <2> QED
    BY <2>5, <2>6
<1> QED
  BY <1>4, <1>5 DEF Posting

\* The object receives the first of what is on its way, unless somebody asked
\* for termination.
LEMMA DeliveringEffect ==
    ASSUME Inv, SessionInv, Delivering
    PROVE  /\ posted' = posted /\ Increasing(mainTasks')
           /\ \E n \in PostsIn(mainTasks) :
                 /\ \A m \in PostsIn(mainTasks) : n <= m
                 /\ PostsIn(mainTasks') = PostsIn(mainTasks) \ {n}
                 /\ delivered' = delivered \cup {n} \/ (asked /\ delivered' = delivered)
<1>0. mainTasks \in Seq(MainTask) /\ Increasing(mainTasks) /\ (~object => asked)
  BY DEF Inv, QueueType, SessionInv
<1>1. /\ mainTasks # <<>> /\ mainTasks' = Tail(mainTasks) /\ posted' = posted
      /\ IsPost(Head(mainTasks))
  BY DEF Delivering, DeliverMessage, DeliverException, TakeMainTask, threadVars, IsPost
<1>2. \/ delivered' = delivered \cup {Head(mainTasks).n}
      \/ asked /\ delivered' = delivered
  BY <1>0 DEF Delivering, DeliverMessage, DeliverException
<1> QED
  BY <1>0, <1>1, <1>2, FirstTaken

LEMMA SessionInvStep ==
    ASSUME Inv, SessionInv, [Next]_vars
    PROVE  SessionInv'
<1>1. ~object' => asked'
  BY DEF SessionInv, Next, vars, parentVars, threadVars, PostMessage, Terminate, ScriptFails,
     StartWorkerContext, CollectObject, TerminateWorkerContext, MainThreadTask, DeliverMessage,
     DeliverException, ReportActivity, ContextClosed, ContextDestroyed, CreateLoader, DestroyLoader,
     LoadFinishes, RunLoop, ThreadStarts, Evaluate, EnterLoop, SkipTask, HandleMessage, HandleLoaded,
     NotifyClosed, ShutdownStart, ShutdownFinish, LoopEnds, NestedTask, SyncLoadReturns, TimerFires,
     PostToObject, SetTimer, Close, ScriptEnds, ImportReturns, ScriptReturns, StartLoad
<1>2. pc' = "none" => pc = "none"
  BY DEF Next, vars, parentVars, threadVars, PostMessage, Terminate, ScriptFails,
     StartWorkerContext, CollectObject, MainThreadTask, DeliverMessage,
     DeliverException, ReportActivity, ContextClosed, ContextDestroyed, CreateLoader, DestroyLoader,
     LoadFinishes, RunLoop, ThreadStarts, Evaluate, EnterLoop, SkipTask, HandleMessage, HandleLoaded,
     NotifyClosed, ShutdownStart, ShutdownFinish, LoopEnds, NestedTask, SyncLoadReturns, TimerFires,
     PostToObject, SetTimer, Close, ScriptEnds, ImportReturns, ScriptReturns, StartLoad
<1>3. CASE Posting
  <2>1. /\ pc \in Scripts /\ posted' = posted + 1 /\ posted \in Nat
        /\ PostsIn(mainTasks') = PostsIn(mainTasks) \cup {posted'} /\ Increasing(mainTasks')
    BY <1>3, PostingEffect
  <2>2. \A n \in PostsIn(mainTasks') : n \in Nat /\ n <= posted'
    BY <2>1 DEF SessionInv
  <2>3. pc # "none"
    BY <2>1 DEF Scripts
  <2> QED
    BY <1>1, <1>2, <2>1, <2>2, <2>3 DEF SessionInv, Increasing, PostsIn
<1>4. CASE Delivering
  <2>1. /\ posted' = posted /\ Increasing(mainTasks')
        /\ PostsIn(mainTasks') \subseteq PostsIn(mainTasks)
    BY <1>4, DeliveringEffect
  <2> QED
    BY <1>1, <1>2, <2>1 DEF SessionInv, Increasing, PostsIn
<1>5. CASE ~Posting /\ ~Delivering
  <2>1. posted' = posted /\ SamePosts(mainTasks, mainTasks')
    BY <1>5, PostsUntouched
  <2> QED
    BY <1>1, <1>2, <2>1 DEF SessionInv, SamePosts, Increasing, PostsIn
<1> QED
  BY <1>3, <1>4, <1>5

\* No message waits in a queue.
NoMessages(s) == \A t \in In(s) : t.kind # "message"

LEMMA AtRestMeans ==
    AtRest <=> /\ ~object
               /\ \/ pc \in {"none", "failed", "ended"}
                  \/ pc = "loop" /\ (closing \/ (~ContextActive /\ NoMessages(tasks)))
<1>1. (\A i \in 1..Len(tasks) : ~IsMessage(tasks[i])) <=> NoMessages(tasks)
  BY DEF IsMessage, NoMessages, In
<1> QED
  BY <1>1 DEF AtRest

\* The worker's queue gets a message only by a post of the page.
LEMMA NoMessagesStay ==
    ASSUME Inv, [Next]_vars, NoMessages(tasks), pc = "loop", ~object
    PROVE  NoMessages(tasks')
<1>0. /\ QueueType /\ tasks \in Seq(WorkerTask)
      /\ \A k : Plain(k).kind = k
      /\ \A k, l : OfLoad(k, l).kind = k
  BY DEF Inv, QueueType, Plain, OfLoad
<1>1. ASSUME NEW e \in WorkerTask, e.kind # "message", tasks' \in {tasks, Append(tasks, e)}
      PROVE  NoMessages(tasks')
  <2>1. In(Append(tasks, e)) = In(tasks) \cup {e}
    BY <1>0, AppendIn
  <2> QED
    BY <1>1, <2>1 DEF NoMessages
<1>2. ASSUME tasks # <<>>, In(tasks') \subseteq In(Tail(tasks)) PROVE NoMessages(tasks')
  <2>1. In(tasks) = {Head(tasks)} \cup In(Tail(tasks))
    BY <1>0, <1>2, HeadTailSplit
  <2> QED
    BY <1>2, <2>1 DEF NoMessages
<1>3. CASE tasks' = tasks
  BY <1>3
<1>4. CASE ContextClosed
  <2>1. Plain("shutdownStart") \in WorkerTask
    BY WorkerTaskTypes
  <2>2. tasks' \in {tasks, Append(tasks, Plain("shutdownStart"))}
    BY <1>4 DEF ContextClosed, TerminateWorkerContext, Stop
  <2> QED
    BY <1>0, <1>1, <2>1, <2>2
<1>5. ASSUME NEW l \in Loads, LoadFinishes(l) PROVE NoMessages(tasks')
  <2>1. tasks' \in {tasks, Append(tasks, OfLoad("loaded", l))} /\ OfLoad("loaded", l) \in WorkerTask
    BY <1>5, WorkerTaskTypes DEF LoadFinishes
  <2> QED
    BY <1>0, <1>1, <2>1
<1>6. CASE SkipTask \/ HandleMessage \/ HandleLoaded \/ NotifyClosed \/ ShutdownFinish
  BY <1>2, <1>6 DEF SkipTask, HandleMessage, HandleLoaded, NotifyClosed, ShutdownFinish, PerformTask,
                    TakeTask
<1>7. CASE ShutdownStart
  <2>1. tasks # <<>> /\ tasks' = Append(Tail(tasks), Plain("shutdownFinish"))
    BY <1>7 DEF ShutdownStart
  <2>2. Tail(tasks) \in Seq(WorkerTask) /\ In(tasks) = {Head(tasks)} \cup In(Tail(tasks))
    BY <1>0, <2>1, HeadTailSplit
  <2>3. Plain("shutdownFinish") \in WorkerTask
    BY WorkerTaskTypes
  <2>4. In(tasks') = In(Tail(tasks)) \cup {Plain("shutdownFinish")}
    <3> DEFINE r == Tail(tasks)
               e == Plain("shutdownFinish")
    <3>1. r \in Seq(WorkerTask) /\ e \in WorkerTask /\ tasks' = Append(r, e)
      BY <2>1, <2>2, <2>3
    <3> HIDE DEF r, e
    <3>2. In(tasks') = In(r) \cup {e}
      BY <3>1, AppendIn
    <3> QED
      BY <3>2 DEF r, e
  <2> QED
    BY <1>0, <2>2, <2>4 DEF NoMessages
<1>8. CASE NestedTask
  BY <1>8 DEF NestedTask, Inv, LifeInv, Scripts
<1> QED
  BY <1>3, <1>4, <1>5, <1>6, <1>7, <1>8
  DEF Next, vars, PostMessage, Terminate, ScriptFails, StartWorkerContext, CollectObject, MainThreadTask,
      DeliverMessage, DeliverException, ReportActivity, ContextDestroyed, CreateLoader, DestroyLoader,
      RunLoop, ThreadStarts, Evaluate, EnterLoop, LoopEnds, SyncLoadReturns, TimerFires, PostToObject,
      SetTimer, Close, InScript, Scripts, ScriptEnds, ImportReturns, ScriptReturns, StartLoad,
      Inv, LifeInv

\* A worker at rest stays at rest: nothing that is left runs a script.
LEMMA RestIsKept ==
    ASSUME Inv, FlagsInv, [Next]_vars, AtRest
    PROVE  AtRest'
<1>0. ~object /\ script # "loading" /\ LifeInv /\ QueueType
  BY DEF AtRest, Inv, LifeInv
<1>1. ~object'
  BY <1>0 DEF Next, vars, parentVars, threadVars, PostMessage, Terminate, ScriptFails,
     StartWorkerContext, CollectObject, MainThreadTask, DeliverMessage,
     DeliverException, ReportActivity, ContextClosed, ContextDestroyed, CreateLoader, DestroyLoader,
     LoadFinishes, RunLoop, ThreadStarts, Evaluate, EnterLoop, SkipTask, HandleMessage, HandleLoaded,
     NotifyClosed, ShutdownStart, ShutdownFinish, LoopEnds, NestedTask, SyncLoadReturns, TimerFires,
     PostToObject, SetTimer, Close, ScriptEnds, ImportReturns, ScriptReturns, StartLoad
<1>2. CASE pc \in {"none", "failed", "ended"}
  <2>1. nested = NoLoad
    BY <1>0, <1>2 DEF LifeInv, Scripts
  <2>2. pc' = pc
    BY <1>0, <1>2, <2>1 DEF Next, vars, threadVars, PostMessage, Terminate, ScriptFails,
       StartWorkerContext, CollectObject, MainThreadTask, DeliverMessage,
       DeliverException, ReportActivity, ContextClosed, ContextDestroyed, CreateLoader, DestroyLoader,
       LoadFinishes, RunLoop, ThreadStarts, Evaluate, EnterLoop, SkipTask, HandleMessage, HandleLoaded,
       NotifyClosed, ShutdownStart, ShutdownFinish, LoopEnds, NestedTask, SyncLoadReturns, TimerFires,
       PerformTask, TakeTask, InScript, Scripts,
       PostToObject, SetTimer, Close, ScriptEnds, ImportReturns, ScriptReturns, StartLoad
  <2> QED
    BY <1>1, <1>2, <2>2 DEF AtRest
<1>3. CASE pc = "loop" /\ (closing \/ (~ContextActive /\ NoMessages(tasks)))
  <2>0. nested = NoLoad /\ \A l \in Loads : client[l] = "waiting" => closing \/ l \in SyncLoads
    BY <1>0, <1>3 DEF LifeInv, Scripts, ContextActive
  <2>1. \A l \in Loads : client[l] = "waiting" => closing
    BY <2>0, LoadsFacts DEF FlagsInv
  <2>2. ~InScript /\ pc # "begin" /\ pc # "evaluated" /\ pc # "created"
    BY <1>3 DEF InScript, Scripts
  <2>3. ~HandleMessage /\ ~TimerFires
    <3>1. CASE HandleMessage
      <4>1. tasks # <<>> /\ Head(tasks).kind = "message" /\ ~closing
        BY <3>1 DEF HandleMessage, PerformTask, TakeTask, IsCleanupTask
      <4>2. Head(tasks) \in In(tasks)
        BY <1>0, <4>1, HeadTailIn DEF QueueType
      <4> QED
        BY <1>3, <4>1, <4>2 DEF NoMessages
    <3>2. CASE TimerFires
      BY <1>3, <3>2 DEF TimerFires, ContextActive
    <3> QED
      BY <3>1, <3>2
  <2>4. pc' \in {"loop", "ended"} /\ UNCHANGED closing
    <3>1. CASE HandleLoaded
      <4> DEFINE l == Head(tasks).load
      <4>1. ~closing /\ Head(tasks).kind = "loaded"
        BY <3>1 DEF HandleLoaded, PerformTask, IsCleanupTask
      <4>2. l \in Loads
        <5>1. Head(tasks) \in WorkerTask
          BY <1>0, <3>1, TakeTaskEffect DEF HandleLoaded, PerformTask
        <5> QED
          BY <4>1, <5>1, WorkerTaskFacts
      <4> QED
        BY <1>3, <2>1, <3>1, <4>1, <4>2 DEF HandleLoaded
    <3>2. CASE ~HandleLoaded
      BY <1>0, <1>3, <2>0, <2>2, <2>3, <3>2 DEF Next, vars, threadVars, PostMessage, Terminate, ScriptFails,
         StartWorkerContext, CollectObject, MainThreadTask, DeliverMessage,
         DeliverException, ReportActivity, ContextClosed, ContextDestroyed, CreateLoader, DestroyLoader,
         LoadFinishes, RunLoop, ThreadStarts, Evaluate, EnterLoop, SkipTask,
         NotifyClosed, ShutdownStart, ShutdownFinish, LoopEnds, NestedTask, SyncLoadReturns,
         PostToObject, SetTimer, Close, ScriptEnds, ImportReturns, ScriptReturns, StartLoad
    <3> QED
      BY <3>1, <3>2
  <2>5. CASE closing
    BY <1>1, <2>4, <2>5 DEF AtRest
  <2>6. CASE ~closing /\ pc' = "loop"
    <3>1. NoMessages(tasks')
      BY <1>0, <1>3, <2>6, NoMessagesStay
    <3>2. \A l \in Loads : client[l] # "waiting"
      BY <2>1, <2>6
    <3>3. ~timer' /\ \A l \in Loads : client'[l] # "waiting"
      <4>1. ~timer
        BY <1>3, <2>6 DEF ContextActive
      <4>2. CASE HandleLoaded
        BY <2>6, <3>2, <4>1, <4>2 DEF HandleLoaded, Inv, LoadType
      <4>3. CASE ShutdownStart
        BY <3>2, <4>3 DEF ShutdownStart
      <4>4. CASE ~HandleLoaded /\ ~ShutdownStart
        <5>1. UNCHANGED <<timer, client>>
          BY <1>0, <1>3, <2>0, <2>2, <2>3, <4>4 DEF Next, vars, threadVars, PostMessage, Terminate, ScriptFails,
             StartWorkerContext, CollectObject, MainThreadTask, DeliverMessage,
             DeliverException, ReportActivity, ContextClosed, ContextDestroyed, CreateLoader, DestroyLoader,
             LoadFinishes, RunLoop, ThreadStarts, Evaluate, EnterLoop, SkipTask,
             NotifyClosed, ShutdownFinish, LoopEnds, NestedTask, SyncLoadReturns,
             PostToObject, SetTimer, Close, ScriptEnds, ImportReturns, ScriptReturns, StartLoad
        <5> QED
          BY <3>2, <4>1, <5>1
      <4> QED
        BY <4>2, <4>3, <4>4
    <3>4. ~ContextActive'
      BY <3>3 DEF ContextActive
    <3> QED
      BY <1>1, <2>6, <3>1, <3>4 DEF AtRest, NoMessages, IsMessage, In
  <2>7. CASE pc' = "ended"
    BY <1>1, <2>7 DEF AtRest
  <2> QED
    BY <2>4, <2>5, <2>6, <2>7
<1> QED
  BY <1>2, <1>3, AtRestMeans

-----------------------------------------------------------------------------
(* Each step of the worker and its page is one of the session, or none.    *)

LEMMA CollectedMissedNothing ==
    ASSUME Inv, CountInv, FlagsInv, PictureInv, OrderInv, SessionInv, CollectObject, ~asked
    PROVE  /\ PostsIn(mainTasks) = {}
           /\ AtRest'
           /\ handled = sent \/ closing \/ script = "failed"
<1>0. /\ LifeInv /\ TaskInv /\ StopInv /\ QueueType /\ ParentType /\ ThreadType
      /\ script # "loading" /\ ~HasPendingActivity /\ object' = FALSE
      /\ TerminateWorkerContext /\ UNCHANGED <<pc, closing, timer, client>>
  BY DEF Inv, CollectObject, threadVars
<1>1. CASE thread
  <2>1. /\ pc = "loop" /\ ~(ContextActive /\ ~closing)
        /\ \A i \in 1..Len(mainTasks) : ~IsPost(mainTasks[i])
        /\ closing \/ \A i \in 1..Len(tasks) : ~IsMessage(tasks[i])
    BY <1>0, <1>1, InvIdle DEF IdleWhenUnreferenced
  <2>2. PostsIn(mainTasks) = {}
    BY <2>1 DEF PostsIn
  <2>3. closing \/ NoMessages(tasks)
    BY <2>1 DEF NoMessages, In, IsMessage
  <2>4. closing \/ NoMessages(tasks')
    <3>1. tasks' = Append(tasks, Plain("shutdownStart"))
      BY <1>0, <1>1, <2>1 DEF TerminateWorkerContext, Stop, ContextExists
    <3>2. Plain("shutdownStart") \in WorkerTask /\ Plain("shutdownStart").kind # "message"
      BY WorkerTaskTypes DEF Plain
    <3>3. In(tasks') = In(tasks) \cup {Plain("shutdownStart")}
      BY <1>0, <3>1, <3>2, AppendIn DEF QueueType
    <3> QED
      BY <2>3, <3>2, <3>3 DEF NoMessages
  <2>5. ContextActive' <=> ContextActive
    BY <1>0 DEF ContextActive
  <2>6. AtRest'
    BY <1>0, <2>1, <2>4, <2>5 DEF AtRest, NoMessages, IsMessage, In
  <2>7. CASE ~closing
    <3>1. ~killed /\ pc # "none" /\ sent \in Nat /\ handled \in Nat /\ sent <= MaxMessages
      BY <1>0, <2>1, BoundsFacts DEF FlagsInv, ParentType, ThreadType
    <3>2. \A n \in 1..MaxMessages : ~(handled < n /\ n <= sent)
      <4>1. \A n : Message(n).kind = "message"
        BY DEF Message
      <4> QED
        BY <2>3, <2>7, <3>1, <4>1 DEF OrderInv, NoMessages
    <3>3. ~(handled < sent)
      BY <3>1, <3>2, BoundsFacts
    <3> QED
      BY <2>2, <2>6, <3>1, <3>3 DEF OrderInv
  <2> QED
    BY <2>2, <2>6, <2>7
<1>2. CASE ~thread
  <2>1. pc \in {"none", "ended"}
    BY <1>0, <1>2 DEF LifeInv
  <2>2. pc = "none"
    BY <1>0, <2>1 DEF StopInv, FlagsInv
  <2>3. script = "failed"
    BY <1>0, <2>2 DEF LifeInv, ParentType
  <2>4. mainTasks = <<>>
    BY <1>0, <1>2 DEF TaskInv
  <2>5. PostsIn(mainTasks) = {}
    BY <2>4 DEF PostsIn
  <2> QED
    BY <1>0, <2>2, <2>3, <2>5 DEF AtRest
<1> QED
  BY <1>1, <1>2

SessionIInv == Inv /\ CountInv /\ FlagsInv /\ PictureInv /\ OrderInv /\ SessionInv

LEMMA SessionStep ==
    ASSUME ~ImportsAnywhere, SessionIInv, [Next]_vars
    PROVE  [Session!Next]_(Session!vars)
<1>0. /\ Inv /\ CountInv /\ FlagsInv /\ PictureInv /\ OrderInv /\ SessionInv
      /\ ParentType /\ ThreadType /\ LifeInv /\ QueueType
      /\ AtRest' \in BOOLEAN /\ AtRest \in BOOLEAN
  BY DEF SessionIInv, Inv, AtRest
<1>1. AtRest' \in {AtRest, TRUE}
  BY <1>0, RestIsKept
<1> DEFINE Due == PostsIn(mainTasks)
           Failed == script = "failed"
           Same == UNCHANGED <<sent, handled, posted, Due, delivered, object, Failed, asked, closing>>
<1>2. ASSUME Same PROVE Session!Next
  BY <1>1, <1>2 DEF Session!Next, Session!Rest
<1>3. ~Posting /\ ~Delivering => UNCHANGED <<posted, delivered, Due>>
  BY <1>0, PostsUntouched DEF SamePosts
<1>4. CASE PostMessage
  <2>1. /\ object /\ ~asked /\ sent' = sent + 1
        /\ UNCHANGED <<handled, posted, Due, delivered, object, Failed, asked, closing>>
    BY <1>4 DEF PostMessage, threadVars
  <2> QED
    BY <1>1, <2>1 DEF Session!Next, Session!PagePosts
<1>5. CASE HandleMessage
  <2>1. /\ handled \in Nat /\ handled' = handled + 1 /\ handled' <= sent
    BY <1>0, <1>5, HandledIsNext
  <2>2. /\ pc = "loop" /\ tasks # <<>> /\ Head(tasks).kind = "message" /\ ~closing
        /\ UNCHANGED <<sent, object, script, asked, closing>>
    BY <1>5 DEF HandleMessage, PerformTask, TakeTask, IsCleanupTask, parentVars
  <2>3. ~Posting /\ ~Delivering
    BY <1>5, <2>1 DEF Posting, Delivering, PostToObject, ScriptReturns, DeliverMessage, DeliverException, threadVars
  <2>4. ~AtRest
    <3>1. Head(tasks) \in In(tasks)
      BY <1>0, <2>2, HeadTailIn DEF QueueType
    <3> QED
      BY <2>2, <3>1, AtRestMeans DEF NoMessages
  <2>5. ~Failed
    BY <1>0, <2>2 DEF LifeInv
  <2>6. handled < sent
    BY <1>0, <2>1 DEF ParentType
  <2> QED
    BY <1>1, <1>3, <2>1, <2>2, <2>3, <2>4, <2>5, <2>6 DEF Session!Next, Session!WorkerTakes
<1>6. CASE Posting
  <2>1. /\ pc \in Scripts /\ posted' = posted + 1
        /\ PostsIn(mainTasks') = PostsIn(mainTasks) \cup {posted'}
    BY <1>0, <1>6, PostingEffect
  <2>2. UNCHANGED <<sent, handled, delivered, object, script, asked, closing>>
    BY <1>6 DEF Posting, PostToObject, ScriptReturns, parentVars
  <2>3. ~AtRest /\ ~Failed
    BY <1>0, <2>1 DEF AtRest, LifeInv, Scripts
  <2> QED
    BY <1>1, <2>1, <2>2, <2>3 DEF Session!Next, Session!WorkerPosts
<1>7. CASE Delivering
  <2>1. /\ posted' = posted
        /\ \E n \in PostsIn(mainTasks) :
              /\ \A m \in PostsIn(mainTasks) : n <= m
              /\ PostsIn(mainTasks') = PostsIn(mainTasks) \ {n}
              /\ delivered' = delivered \cup {n} \/ (asked /\ delivered' = delivered)
    BY <1>0, <1>7, DeliveringEffect
  <2>2. UNCHANGED <<sent, handled, object, script, asked, closing>>
    BY <1>7 DEF Delivering, DeliverMessage, DeliverException, threadVars
  <2> QED
    BY <1>1, <2>1, <2>2 DEF Session!Next, Session!Arrives
<1>8. CASE ScriptFails
  <2>1. /\ script = "loading" /\ script' = "failed"
        /\ UNCHANGED <<sent, handled, posted, Due, delivered, object, asked, closing>>
    BY <1>8 DEF ScriptFails, threadVars
  <2>2. handled = 0 /\ posted = 0
    <3>1. pc = "none"
      BY <1>0, <2>1 DEF LifeInv
    <3> QED
      BY <1>0, <3>1 DEF OrderInv, SessionInv
  <2> QED
    BY <1>1, <2>1, <2>2 DEF Session!Next, Session!ScriptFails
<1>9. CASE Terminate \/ ContextClosed \/ ContextDestroyed
  <2>1. asked' = TRUE /\ UNCHANGED <<sent, handled, object, script, closing>>
    BY <1>9 DEF Terminate, ContextClosed, ContextDestroyed, TerminateWorkerContext, threadVars
  <2>2. UNCHANGED <<posted, delivered, Due>>
    <3>1. CASE Terminate
      BY <3>1 DEF Terminate, threadVars
    <3>2. CASE ContextClosed \/ ContextDestroyed
      <4>1. /\ mainTasks # <<>> /\ mainTasks' = Tail(mainTasks) /\ ~IsPost(Head(mainTasks))
            /\ UNCHANGED <<posted, delivered>>
        BY <3>2 DEF ContextClosed, ContextDestroyed, TakeMainTask, threadVars, IsPost
      <4> QED
        BY <1>0, <4>1, FirstTaken DEF SamePosts, QueueType
    <3> QED
      BY <1>9, <3>1, <3>2
  <2>3. CASE asked
    BY <1>2, <2>1, <2>2, <2>3
  <2>4. CASE ~asked
    <3>1. object
      BY <1>0, <2>4 DEF SessionInv, ParentType
    <3> QED
      BY <1>1, <2>1, <2>2, <3>1 DEF Session!Next, Session!Ask
  <2> QED
    BY <1>0, <2>3, <2>4 DEF ParentType
<1>10. CASE Close
  <2>1. /\ pc \in Scripts /\ closing' = TRUE
        /\ UNCHANGED <<sent, handled, posted, Due, delivered, object, Failed, asked>>
    BY <1>10 DEF Close, InScript, parentVars
  <2>2. ~AtRest /\ ~Failed
    BY <1>0, <2>1 DEF AtRest, LifeInv, Scripts
  <2> QED
    BY <1>1, <2>1, <2>2 DEF Session!Next, Session!WorkerCloses
<1>11. CASE CollectObject
  <2>1. /\ object /\ object' = FALSE /\ asked' = TRUE
        /\ UNCHANGED <<sent, handled, posted, Due, delivered, Failed, closing>>
    BY <1>11 DEF CollectObject, TerminateWorkerContext, threadVars
  <2>2. asked \/ (Due = {} /\ AtRest' /\ (handled = sent \/ closing \/ Failed))
    BY <1>0, <1>11, CollectedMissedNothing
  <2> QED
    BY <1>1, <2>1, <2>2 DEF Session!Next, Session!Collect
<1>12. CASE StartWorkerContext
  <2>1. UNCHANGED <<sent, handled, posted, Due, delivered, object, Failed, asked, closing>>
    BY <1>12 DEF StartWorkerContext
  <2> QED
    BY <1>2, <2>1
<1>13. CASE /\ ~Posting /\ ~Delivering
            /\ \/ ReportActivity \/ CreateLoader \/ DestroyLoader \/ \E l \in Loads : LoadFinishes(l)
               \/ ThreadStarts \/ Evaluate \/ EnterLoop \/ SkipTask \/ HandleLoaded \/ NotifyClosed
               \/ ShutdownStart \/ ShutdownFinish \/ LoopEnds \/ NestedTask \/ SyncLoadReturns
               \/ TimerFires \/ SetTimer \/ ImportReturns \/ ScriptReturns(FALSE)
               \/ \E l \in Loads : StartLoad(l)
  <2>1. UNCHANGED <<sent, handled, object, script, asked, closing>>
    BY <1>13 DEF ReportActivity, CreateLoader, DestroyLoader, LoadFinishes, ThreadStarts, Evaluate, EnterLoop,
       SkipTask, HandleLoaded, NotifyClosed, ShutdownStart, ShutdownFinish, LoopEnds, NestedTask,
       SyncLoadReturns, TimerFires, SetTimer, ImportReturns, ScriptReturns, StartLoad, parentVars, threadVars
  <2> QED
    BY <1>2, <1>3, <1>13, <2>1
<1>14. CASE UNCHANGED vars
  <2>1. Same
    BY <1>14 DEF vars, parentVars, threadVars
  <2> QED
    BY <1>2, <2>1
<1> QED
  BY <1>4, <1>5, <1>6, <1>7, <1>8, <1>9, <1>10, <1>11, <1>12, <1>13, <1>14
  DEF Next, MainThreadTask, RunLoop, ScriptEnds, Posting, Delivering

\* If only message handlers import scripts, the page and its worker keep a
\* session, whatever the threads do between and however late the reports are:
\* messages are handled one by one, posts arrive in order, none is lost before
\* termination is asked for, and an object that is collected before that has
\* missed nothing (WorkerMessagingProxy.cpp:366, 376).
THEOREM SessionIsKept ==
    ASSUME ~ImportsAnywhere
    PROVE  Spec => ImplementsSession
<1>1. Init => SessionIInv
  <2>1. Init => FlagsInv /\ PictureInv
    BY LoadsFacts DEF Init, FlagsInv, PictureInv
  <2>2. Init => Inv /\ CountInv /\ OrderInv
    BY InitInv DEF Init, CountInv, OrderInv
  <2>3. Init => SessionInv
    BY DEF Init, SessionInv, Increasing, PostsIn
  <2> QED
    BY <2>1, <2>2, <2>3 DEF SessionIInv
<1>2. SessionIInv /\ [Next]_vars => SessionIInv'
  BY InvStep, CountStep, FlagsStep, PictureStep, OrderStep, SessionInvStep DEF SessionIInv
<1>3. Init => Session!Init
  <2>1. ASSUME Init PROVE PostsIn(mainTasks) = {} /\ AtRest = FALSE
    BY <2>1 DEF Init, PostsIn, AtRest
  <2> QED
    BY <2>1 DEF Init, Session!Init
<1>4. SessionIInv /\ [Next]_vars => [Session!Next]_(Session!vars)
  BY SessionStep
<1> QED
  BY <1>1, <1>2, <1>3, <1>4, PTL DEF Spec, ImplementsSession, Session!Spec

=============================================================================
