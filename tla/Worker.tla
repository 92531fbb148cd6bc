------------------------------- MODULE Worker -------------------------------
(***************************************************************************)
(* A dedicated worker (WebCore/workers): the Worker object and its         *)
(* WorkerMessagingProxy on the parent's thread, the WorkerThread with its  *)
(* WorkerRunLoop, and the loader bridge (WebCore/loader/                   *)
(* WorkerThreadableLoader.cpp) through which the worker loads resources.   *)
(*                                                                         *)
(* The two threads share two task queues, both first in, first out: the    *)
(* parent context's tasks and the worker's MessageQueue, which the worker  *)
(* reads in a mode while it waits for a synchronous load.  Everything else *)
(* the parent knows of the worker it learns from tasks that may be late:   *)
(* how many messages are unconfirmed, whether the worker has activity,     *)
(* that its context closed or is gone.                                     *)
(*                                                                         *)
(* A page's script and the worker's are free: they post, terminate, close, *)
(* load and drop the Worker object when the program lets them.  A load's   *)
(* callbacks are reduced to the last one; console messages are left out.   *)
(***************************************************************************)
EXTENDS Naturals, Sequences, FiniteSets, SequencesExt

CONSTANTS
    MaxMessages,      \* bound on messages to the worker
    MaxPosts,         \* bound on messages and exceptions to the Worker object
    Loads,            \* the loads the worker's scripts may start, once each
    SyncLoads,        \* those they wait for: importScripts, synchronous XMLHttpRequest
    Imports,          \* those of importScripts
    ImportsAnywhere,  \* whether scripts other than message handlers import
    ThreadsMayFail,   \* whether createThread may return 0
    NoLoad            \* not a load

ASSUME BoundsAssumption == MaxMessages \in Nat /\ MaxPosts \in Nat
ASSUME LoadsAssumption ==
    /\ IsFiniteSet(Loads)
    /\ Imports \subseteq SyncLoads /\ SyncLoads \subseteq Loads /\ NoLoad \notin Loads
ASSUME FlagsAssumption == ImportsAnywhere \in BOOLEAN /\ ThreadsMayFail \in BOOLEAN

VARIABLES
    script,           \* Worker::m_scriptLoader: "loading", "loaded" or "failed"
    object,           \* whether the Worker object exists (m_workerObject)
    proxy,            \* whether the WorkerMessagingProxy exists
    thread,           \* whether m_workerThread is set
    unconfirmed,      \* m_unconfirmedMessageCount
    hadActivity,      \* m_workerThreadHadPendingActivity
    asked,            \* m_askedToTerminate
    early,            \* m_queuedEarlyTasks: messages, in order
    mainTasks,        \* the parent context's tasks
    pc,               \* where the worker's thread is
    nested,           \* the synchronous load it waits for, or NoLoad
    importing,        \* whether it is in importScripts
    tasks,            \* WorkerRunLoop::m_messageQueue
    killed,           \* ... and whether it was killed
    closing,          \* WorkerContext::m_closing
    forbidden,        \* m_executionForbidden: "no", "finish" (LetRunningScriptFinish)
                      \*   or "terminate" (TerminateRunningScript)
    timer,            \* whether a timer of the context is set
    client,           \* ThreadableLoaderClientWrapper of each load: "none", "waiting" or "done"
    bridge,           \* MainThreadBridge of each load
    sent,             \* history: messages accepted for the worker
    handled,          \* history: the last of them the worker took up
    posted,           \* history: what the worker posted to the Worker object
    delivered         \* history: which of it the object received

parentVars == <<script, object, proxy, thread, unconfirmed, hadActivity, asked, early, sent, delivered>>
threadVars == <<pc, nested, importing, closing, timer, client, handled, posted>>
vars == <<parentVars, mainTasks, threadVars, tasks, killed, forbidden, bridge>>

\* Tasks.
Message(n) == [kind |-> "message", n |-> n]
Exception(n) == [kind |-> "exception", n |-> n]
Activity(confirming, active) == [kind |-> "activity", confirming |-> confirming, active |-> active]
OfLoad(kind, l) == [kind |-> kind, load |-> l]
Plain(kind) == [kind |-> kind]

MainTask ==
    [kind : {"message", "exception"}, n : 1..MaxPosts]
        \cup [kind : {"activity"}, confirming : BOOLEAN, active : BOOLEAN]
        \cup [kind : {"createLoader", "destroyLoader"}, load : Loads]
        \cup [kind : {"closed", "destroyed"}]
WorkerTask ==
    [kind : {"message"}, n : 1..MaxMessages]
        \cup [kind : {"loaded"}, load : Loads]
        \cup [kind : {"close", "shutdownStart", "shutdownFinish"}]

\* Mutant: CloseWorkerContextTask is an ordinary task.
CloseIsOrdinary(t) == t.kind \in {"shutdownStart", "shutdownFinish"}

\* ScriptExecutionContext::Task::isCleanupTask.
IsCleanupTask(t) == t.kind \in {"close", "shutdownStart", "shutdownFinish"}

Scripts == {"evaluating", "handling", "firing"}
ContextExists == pc \in {"begin", "evaluated", "loop"} \cup Scripts

TypeOK ==
    /\ script \in {"loading", "loaded", "failed"}
    /\ object \in BOOLEAN /\ proxy \in BOOLEAN /\ thread \in BOOLEAN
    /\ unconfirmed \in 0..MaxMessages
    /\ hadActivity \in BOOLEAN /\ asked \in BOOLEAN
    /\ early \in Seq(1..MaxMessages)
    /\ mainTasks \in Seq(MainTask)
    /\ pc \in {"none", "created", "failed", "begin", "evaluated", "loop", "ended"} \cup Scripts
    /\ nested \in SyncLoads \cup {NoLoad}
    /\ importing \in BOOLEAN
    /\ tasks \in Seq(WorkerTask)
    /\ killed \in BOOLEAN /\ closing \in BOOLEAN /\ timer \in BOOLEAN
    /\ forbidden \in {"no", "finish", "terminate"}
    /\ client \in [Loads -> {"none", "waiting", "done"}]
    /\ bridge \in [Loads -> {"none", "requested", "loading", "finished", "deleted"}]
    /\ sent \in 0..MaxMessages /\ handled \in 0..MaxMessages
    /\ posted \in 0..MaxPosts /\ delivered \subseteq 1..MaxPosts

Init ==
    /\ script = "loading"
    /\ object = TRUE /\ proxy = TRUE /\ thread = FALSE
    /\ unconfirmed = 0 /\ hadActivity = FALSE /\ asked = FALSE
    /\ early = <<>> /\ mainTasks = <<>>
    /\ pc = "none" /\ nested = NoLoad /\ importing = FALSE
    /\ tasks = <<>> /\ killed = FALSE /\ closing = FALSE /\ timer = FALSE
    /\ forbidden = "no"
    /\ client = [l \in Loads |-> "none"] /\ bridge = [l \in Loads |-> "none"]
    /\ sent = 0 /\ handled = 0 /\ posted = 0 /\ delivered = {}

-----------------------------------------------------------------------------
(* The parent's thread: the Worker object and its proxy.                   *)

\* Mutant: unconfirmed messages are no activity.
UnconfirmedIsIdle == hadActivity /\ ~asked

\* WorkerMessagingProxy::hasPendingActivity: keeps the Worker object alive.
HasPendingActivity == (unconfirmed > 0 \/ hadActivity) /\ ~asked

\* WorkerThread::stop.
Stop ==
    IF ContextExists
    THEN /\ forbidden' = "terminate"
         /\ tasks' = Append(tasks, Plain("shutdownStart"))
         /\ killed' = killed
    ELSE killed' = TRUE /\ UNCHANGED <<forbidden, tasks>>

\* WorkerMessagingProxy::terminateWorkerContext.
TerminateWorkerContext ==
    /\ asked' = TRUE
    /\ IF thread /\ ~asked THEN Stop ELSE UNCHANGED <<forbidden, tasks, killed>>

\* Worker::postMessage; once termination was asked for it does nothing.
PostMessage ==
    /\ object /\ ~asked /\ sent < MaxMessages
    /\ sent' = sent + 1
    /\ IF thread
       THEN /\ unconfirmed' = unconfirmed + 1
            /\ tasks' = Append(tasks, Message(sent'))
            /\ early' = early
       ELSE early' = Append(early, sent') /\ UNCHANGED <<unconfirmed, tasks>>
    /\ UNCHANGED <<script, object, proxy, thread, hadActivity, asked, delivered, mainTasks,
                   threadVars, killed, forbidden, bridge>>

\* Worker::terminate, and Worker::stop when the document is torn down.
Terminate ==
    /\ object /\ ~asked
    /\ TerminateWorkerContext
    /\ UNCHANGED <<script, object, proxy, thread, unconfirmed, hadActivity, early, sent,
                   delivered, mainTasks, threadVars, bridge>>

\* Worker::notifyFinished when the script did not load.
ScriptFails ==
    /\ script = "loading"
    /\ script' = "failed"
    /\ UNCHANGED <<object, proxy, thread, unconfirmed, hadActivity, asked, early, sent, delivered,
                   mainTasks, threadVars, tasks, killed, forbidden, bridge>>

\* workerThreadCreated, unless termination was asked for: posts the messages
\* that came early and counts them.
PostEarly(count, active, posts) ==
    /\ unconfirmed' = count
    /\ hadActivity' = active
    /\ tasks' = tasks \o posts
    /\ early' = <<>>
    /\ UNCHANGED <<killed, forbidden>>
EarlyPosts == [i \in 1..Len(early) |-> Message(early[i])]

\* Mutant: the early messages are not counted.
EarlyTasksUncounted == PostEarly(0, TRUE, EarlyPosts)
\* Mutant: a worker that starts has no activity.
EarlyTasksInactive == PostEarly(Len(early), FALSE, EarlyPosts)
\* Mutant: the early messages are forgotten.
EarlyTasksForgotten == PostEarly(0, TRUE, <<>>)

PostEarlyTasks == PostEarly(Len(early), TRUE, EarlyPosts)

\* ... and when it did: startWorkerContext, that is workerThreadCreated and
\* WorkerThread::start, whose result nobody looks at.
StartWorkerContext ==
    /\ script = "loading"
    /\ script' = "loaded"
    /\ thread' = TRUE
    /\ IF asked
       THEN Stop /\ UNCHANGED <<unconfirmed, hadActivity, early>>
       ELSE PostEarlyTasks
    /\ \E p \in {"created", "failed"} :
          /\ p = "failed" => ThreadsMayFail
          /\ pc' = p
    /\ UNCHANGED <<object, proxy, asked, sent, delivered, mainTasks, nested, importing, closing,
                   timer, client, handled, posted, bridge>>

\* The garbage collector finds the Worker object unreachable and without
\* pending activity: ~Worker calls workerObjectDestroyed.
CollectObject ==
    /\ object /\ script # "loading"
    /\ ~HasPendingActivity
    /\ object' = FALSE
    /\ TerminateWorkerContext
    /\ proxy' = thread
    /\ UNCHANGED <<script, thread, unconfirmed, hadActivity, early, sent, delivered, mainTasks,
                   threadVars, bridge>>

-----------------------------------------------------------------------------
(* The parent's thread: its context performs a task.                       *)

TakeMainTask(kind) ==
    /\ mainTasks # <<>>
    /\ Head(mainTasks).kind = kind
    /\ mainTasks' = Tail(mainTasks)

\* MessageWorkerTask.
DeliverMessage ==
    /\ TakeMainTask("message")
    /\ delivered' = IF object /\ ~asked THEN delivered \cup {Head(mainTasks).n} ELSE delivered
    /\ UNCHANGED <<script, object, proxy, thread, unconfirmed, hadActivity, asked, early, sent,
                   threadVars, tasks, killed, forbidden, bridge>>

\* WorkerExceptionTask: reported even if termination was asked for.
DeliverException ==
    /\ TakeMainTask("exception")
    /\ delivered' = IF object THEN delivered \cup {Head(mainTasks).n} ELSE delivered
    /\ UNCHANGED <<script, object, proxy, thread, unconfirmed, hadActivity, asked, early, sent,
                   threadVars, tasks, killed, forbidden, bridge>>

\* Mutant: any report confirms a message.
ReportConfirms ==
    /\ TakeMainTask("activity")
    /\ unconfirmed' = IF ~asked THEN unconfirmed - 1 ELSE unconfirmed
    /\ hadActivity' = Head(mainTasks).active
    /\ UNCHANGED <<script, object, proxy, thread, asked, early, sent, delivered,
                   threadVars, tasks, killed, forbidden, bridge>>

\* WorkerThreadActivityReportTask: reportPendingActivityInternal.
ReportActivity ==
    /\ TakeMainTask("activity")
    /\ LET t == Head(mainTasks) IN
          /\ unconfirmed' = IF t.confirming /\ ~asked THEN unconfirmed - 1 ELSE unconfirmed
          /\ hadActivity' = t.active
    /\ UNCHANGED <<script, object, proxy, thread, asked, early, sent, delivered,
                   threadVars, tasks, killed, forbidden, bridge>>

\* WorkerTerminateTask: the worker closed itself.
ContextClosed ==
    /\ TakeMainTask("closed")
    /\ TerminateWorkerContext
    /\ UNCHANGED <<script, object, proxy, thread, unconfirmed, hadActivity, early, sent,
                   delivered, threadVars, bridge>>

\* Mutant: the proxy does not delete itself.
ContextDestroyedLeaks ==
    /\ TakeMainTask("destroyed")
    /\ asked' = TRUE
    /\ thread' = FALSE
    /\ UNCHANGED <<proxy, script, object, unconfirmed, hadActivity, early, sent, delivered,
                   threadVars, tasks, killed, forbidden, bridge>>

\* WorkerContextDestroyedTask: workerContextDestroyedInternal.
ContextDestroyed ==
    /\ TakeMainTask("destroyed")
    /\ asked' = TRUE
    /\ thread' = FALSE
    /\ proxy' = object
    /\ UNCHANGED <<script, object, unconfirmed, hadActivity, early, sent, delivered,
                   threadVars, tasks, killed, forbidden, bridge>>

\* MainThreadBridge::mainThreadCreateLoader.
CreateLoader ==
    /\ TakeMainTask("createLoader")
    /\ bridge' = [bridge EXCEPT ![Head(mainTasks).load] = "loading"]
    /\ UNCHANGED <<parentVars, threadVars, tasks, killed, forbidden>>

\* MainThreadBridge::mainThreadDestroy, after mainThreadCancel where the
\* worker cancelled.
DestroyLoader ==
    /\ TakeMainTask("destroyLoader")
    /\ bridge' = [bridge EXCEPT ![Head(mainTasks).load] = "deleted"]
    /\ UNCHANGED <<parentVars, threadVars, tasks, killed, forbidden>>

\* didFinishLoading or didFail, through postTaskForModeToWorkerContext: the
\* callback is dropped once termination was asked for.
LoadFinishes(l) ==
    /\ bridge[l] = "loading"
    /\ bridge' = [bridge EXCEPT ![l] = "finished"]
    /\ tasks' = IF asked THEN tasks ELSE Append(tasks, OfLoad("loaded", l))
    /\ UNCHANGED <<parentVars, mainTasks, threadVars, killed, forbidden>>

MainThreadTask ==
    \/ DeliverMessage \/ DeliverException \/ ReportActivity
    \/ ContextClosed \/ ContextDestroyed \/ CreateLoader \/ DestroyLoader

-----------------------------------------------------------------------------
(* The worker's thread: from its start into its run loop, and its scripts. *)

\* WorkerContext::hasPendingActivity: a timer or an asynchronous load.
ContextActive == timer \/ \E l \in Loads \ SyncLoads : client[l] = "waiting"

\* WorkerThread::workerThread under m_threadCreationMutex.
ThreadStarts ==
    /\ pc = "created"
    /\ pc' = "begin"
    /\ forbidden' = IF killed THEN "terminate" ELSE forbidden
    /\ UNCHANGED <<parentVars, mainTasks, nested, importing, closing, timer, client, handled,
                   posted, tasks, killed, bridge>>

\* WorkerScriptController::evaluate of the worker's script.
Evaluate ==
    /\ pc = "begin"
    /\ pc' = IF forbidden = "no" THEN "evaluating" ELSE "evaluated"
    /\ UNCHANGED <<parentVars, mainTasks, nested, importing, closing, timer, client, handled,
                   posted, tasks, killed, forbidden, bridge>>

\* DedicatedWorkerThread::runEventLoop.
EnterLoop ==
    /\ pc = "evaluated"
    /\ pc' = "loop"
    /\ mainTasks' = Append(mainTasks, Activity(FALSE, ContextActive))
    /\ UNCHANGED <<parentVars, nested, importing, closing, timer, client, handled, posted,
                   tasks, killed, forbidden, bridge>>

\* A script is running.  Termination reaches it sooner or later, not at once.
InScript == pc \in Scripts /\ nested = NoLoad

\* DedicatedWorkerContext::postMessage.
PostToObject ==
    /\ InScript /\ posted < MaxPosts
    /\ posted' = posted + 1
    /\ mainTasks' = Append(mainTasks, Message(posted'))
    /\ UNCHANGED <<parentVars, pc, nested, importing, closing, timer, client, handled, tasks,
                   killed, forbidden, bridge>>

\* setTimeout.
SetTimer ==
    /\ InScript /\ ~timer
    /\ timer' = TRUE
    /\ UNCHANGED <<parentVars, mainTasks, pc, nested, importing, closing, client, handled, posted,
                   tasks, killed, forbidden, bridge>>

\* WorkerContext::close.
Close ==
    /\ InScript /\ ~closing
    /\ closing' = TRUE
    /\ forbidden' = IF forbidden = "terminate" THEN forbidden ELSE "finish"
    /\ tasks' = Append(tasks, Plain("close"))
    /\ UNCHANGED <<parentVars, mainTasks, pc, nested, importing, timer, client, handled, posted,
                   killed, bridge>>

\* The script starts a load; for a synchronous one it enters a nested run
\* loop in a mode of its own (loadResourceSynchronously).
StartLoad(l) ==
    /\ InScript
    /\ client[l] = "none"
    /\ l \in Imports => pc = "handling" \/ ImportsAnywhere
    /\ client' = [client EXCEPT ![l] = "waiting"]
    /\ bridge' = [bridge EXCEPT ![l] = "requested"]
    /\ mainTasks' = Append(mainTasks, OfLoad("createLoader", l))
    /\ nested' = IF l \in SyncLoads THEN l ELSE NoLoad
    /\ importing' = (importing \/ l \in Imports)
    /\ UNCHANGED <<parentVars, pc, closing, timer, handled, posted, tasks, killed, forbidden>>

\* DedicatedWorkerContext::importScripts returns and reports.
ImportReturns ==
    /\ InScript /\ importing
    /\ importing' = FALSE
    /\ mainTasks' = Append(mainTasks, Activity(FALSE, ContextActive))
    /\ UNCHANGED <<parentVars, pc, nested, closing, timer, client, handled, posted, tasks, killed,
                   forbidden, bridge>>

\* The script ends, perhaps with an exception.  A message is confirmed.
ScriptReturns(throws) ==
    /\ InScript /\ ~importing
    /\ throws => posted < MaxPosts
    /\ posted' = IF throws THEN posted + 1 ELSE posted
    /\ mainTasks' = mainTasks
          \o (IF throws THEN <<Exception(posted')>> ELSE <<>>)
          \o (IF pc = "handling" THEN <<Activity(TRUE, ContextActive)>> ELSE <<>>)
    /\ pc' = IF pc = "evaluating" THEN "evaluated" ELSE "loop"
    /\ UNCHANGED <<parentVars, nested, importing, closing, timer, client, handled, tasks, killed,
                   forbidden, bridge>>

-----------------------------------------------------------------------------
(* The worker's thread: its run loop.                                      *)

\* runInMode in the default mode: the first task is taken ...
TakeTask == pc = "loop" /\ ~killed /\ tasks # <<>> /\ tasks' = Tail(tasks)

\* ... and Task::performTask skips it when the context is closing,
SkipTask ==
    /\ TakeTask
    /\ closing /\ ~IsCleanupTask(Head(tasks))
    /\ UNCHANGED <<parentVars, mainTasks, threadVars, killed, forbidden, bridge>>

PerformTask(kind) ==
    /\ TakeTask
    /\ Head(tasks).kind = kind
    /\ closing => IsCleanupTask(Head(tasks))

\* ... or it is a MessageWorkerContextTask; event listeners do nothing when
\* execution is forbidden, and the message is confirmed all the same,
HandleMessage ==
    /\ PerformTask("message")
    /\ handled' = Head(tasks).n
    /\ IF forbidden = "no"
       THEN pc' = "handling" /\ mainTasks' = mainTasks
       ELSE pc' = pc /\ mainTasks' = Append(mainTasks, Activity(TRUE, ContextActive))
    /\ UNCHANGED <<parentVars, nested, importing, closing, timer, client, posted, killed, forbidden, bridge>>

\* ... or the last callback of a load; a client that was cleared gets none,
HandleLoaded ==
    /\ PerformTask("loaded")
    /\ LET l == Head(tasks).load IN
       IF client[l] = "waiting"
       THEN /\ client' = [client EXCEPT ![l] = "done"]
            /\ mainTasks' = Append(mainTasks, OfLoad("destroyLoader", l))
            /\ pc' = IF forbidden = "no" THEN "firing" ELSE pc
       ELSE UNCHANGED <<client, mainTasks, pc>>
    /\ UNCHANGED <<parentVars, nested, importing, closing, timer, handled, posted, killed, forbidden, bridge>>

\* ... or CloseWorkerContextTask,
NotifyClosed ==
    /\ PerformTask("close")
    /\ mainTasks' = Append(mainTasks, Plain("closed"))
    /\ UNCHANGED <<parentVars, threadVars, killed, forbidden, bridge>>

\* Mutant: unfinished loads are not stopped.
ShutdownKeepsLoads ==
    /\ pc = "loop" /\ ~killed /\ tasks # <<>>
    /\ Head(tasks).kind = "shutdownStart"
    /\ tasks' = Append(Tail(tasks), Plain("shutdownFinish"))
    /\ timer' = FALSE
    /\ UNCHANGED <<parentVars, client, mainTasks, pc, nested, importing, closing, handled, posted,
                   killed, forbidden, bridge>>

\* ... or WorkerThreadShutdownStartTask, which stops the context's active
\* objects (an unfinished load is cancelled and its loader destroyed),
ShutdownStart ==
    /\ pc = "loop" /\ ~killed /\ tasks # <<>>
    /\ Head(tasks).kind = "shutdownStart"
    /\ tasks' = Append(Tail(tasks), Plain("shutdownFinish"))
    /\ timer' = FALSE
    /\ LET cancelled == {l \in Loads : client[l] = "waiting"} IN
          /\ client' = [l \in Loads |-> IF l \in cancelled THEN "done" ELSE client[l]]
          /\ mainTasks' = mainTasks
                \o [i \in 1..Cardinality(cancelled) |-> OfLoad("destroyLoader", SetToSeq(cancelled)[i])]
    /\ UNCHANGED <<parentVars, pc, nested, importing, closing, handled, posted, killed, forbidden, bridge>>

\* ... or WorkerThreadShutdownFinishTask.
ShutdownFinish ==
    /\ PerformTask("shutdownFinish")
    /\ killed' = TRUE
    /\ UNCHANGED <<parentVars, mainTasks, threadVars, forbidden, bridge>>

\* The wait, which began with no task, times out and the shared timer fires.  A
\* task appended before the thread has the mutex again, which does not count then,
\* is one appended after this step: the thread did nothing in between.
TimerFires ==
    /\ pc = "loop" /\ ~killed /\ tasks = <<>>
    /\ timer /\ ~closing
    /\ timer' = FALSE
    /\ pc' = "firing"
    /\ UNCHANGED <<parentVars, mainTasks, nested, importing, closing, client, handled, posted,
                   tasks, killed, forbidden, bridge>>

\* The loop ends: the context is destroyed and the parent notified.
LoopEnds ==
    /\ pc = "loop" /\ killed
    /\ pc' = "ended"
    /\ mainTasks' = Append(mainTasks, Plain("destroyed"))
    /\ UNCHANGED <<parentVars, nested, importing, closing, timer, client, handled, posted,
                   tasks, killed, forbidden, bridge>>

\* runInMode while a synchronous load waits: only tasks of its mode match,
\* and they too are skipped when the context is closing.
NestedTask ==
    /\ nested # NoLoad /\ client[nested] = "waiting"
    /\ \E i \in 1..Len(tasks) :
          /\ tasks[i] = OfLoad("loaded", nested)
          /\ tasks' = RemoveAt(tasks, i)
    /\ client' = IF closing THEN client ELSE [client EXCEPT ![nested] = "done"]
    /\ UNCHANGED <<parentVars, mainTasks, pc, nested, importing, closing, timer, handled, posted,
                   killed, forbidden, bridge>>

\* The synchronous load is done: its loader is destroyed.
SyncLoadReturns ==
    /\ nested # NoLoad /\ client[nested] = "done"
    /\ nested' = NoLoad
    /\ mainTasks' = Append(mainTasks, OfLoad("destroyLoader", nested))
    /\ UNCHANGED <<parentVars, pc, importing, closing, timer, client, handled, posted, tasks,
                   killed, forbidden, bridge>>

RunLoop ==
    \/ ThreadStarts \/ Evaluate \/ EnterLoop
    \/ SkipTask \/ HandleMessage \/ HandleLoaded \/ NotifyClosed
    \/ ShutdownStart \/ ShutdownFinish \/ LoopEnds
    \/ NestedTask \/ SyncLoadReturns

ScriptEnds == ImportReturns \/ \E throws \in BOOLEAN : ScriptReturns(throws)

Next ==
    \/ PostMessage \/ Terminate \/ ScriptFails \/ StartWorkerContext \/ CollectObject
    \/ MainThreadTask
    \/ \E l \in Loads : LoadFinishes(l)
    \/ RunLoop \/ TimerFires
    \/ PostToObject \/ SetTimer \/ Close \/ ScriptEnds
    \/ \E l \in Loads : StartLoad(l)

\* Both threads keep taking tasks, the network answers, and a script that is
\* to be terminated ends; any other script may run for ever.
Fairness ==
    /\ WF_vars(MainThreadTask)
    /\ \A l \in Loads : WF_vars(LoadFinishes(l))
    /\ WF_vars(RunLoop)
    /\ WF_vars(forbidden = "terminate" /\ ScriptEnds)

Spec == Init /\ [][Next]_vars /\ Fairness

-----------------------------------------------------------------------------
(* Properties.                                                             *)

CountIn(seq, Test(_)) == Cardinality({i \in 1..Len(seq) : Test(seq[i])})
IsMessage(t) == t.kind = "message"
IsConfirmation(t) == t.kind = "activity" /\ t.confirming
IsPost(t) == t.kind \in {"message", "exception"}

\* The proxy's count is exactly the messages the worker has still to take,
\* the one it is handling and the confirmations on their way; a closing
\* context skips messages and leaves the count higher.  So the count never
\* goes below zero (the assertion in reportPendingActivityInternal).
ConfirmationsAreOwed ==
    thread /\ ~asked =>
        LET owed == CountIn(tasks, IsMessage) + CountIn(mainTasks, IsConfirmation)
                       + (IF pc = "handling" THEN 1 ELSE 0)
        IN unconfirmed >= owed /\ (~closing => unconfirmed = owed)

\* While the worker can still do something the Worker object would notice,
\* its proxy reports pending activity and the object is not collected: the
\* parent's late knowledge of the worker errs on the safe side.
IdleWhenUnreferenced ==
    thread /\ ~asked /\ ~HasPendingActivity =>
        /\ pc = "loop"
        /\ ~(ContextActive /\ ~closing)
        /\ \A i \in 1..Len(mainTasks) : ~IsPost(mainTasks[i])
        /\ closing \/ \A i \in 1..Len(tasks) : ~IsMessage(tasks[i])

\* The proxy is deleted only when no task of either queue, no loader bridge
\* and no thread can use it again: the task that deletes it is the last.
ProxyOutlivesUse ==
    /\ \A i \in 1..Len(mainTasks) : mainTasks[i].kind = "destroyed" => i = Len(mainTasks)
    /\ ~proxy =>
        /\ ~object /\ mainTasks = <<>>
        /\ pc \in {"none", "ended"}
        /\ \A l \in Loads : bridge[l] \in {"none", "deleted"}

\* Messages reach the worker in the order they were posted and none is
\* passed over, whether posted before the worker's thread existed or after.
MessagesInOrder == [][handled' \in {handled, handled + 1}]_vars

\* The posts among a context's tasks.
PostsIn(seq) == {seq[i].n : i \in {j \in 1..Len(seq) : IsPost(seq[j])}}

\* The object is gone and the worker's thread will run no script.
AtRest ==
    /\ ~object
    /\ \/ pc \in {"none", "failed", "ended"}
       \/ /\ pc = "loop"
          /\ closing \/ (~ContextActive /\ \A i \in 1..Len(tasks) : ~IsMessage(tasks[i]))

Session == INSTANCE WorkerSession WITH
    due <- PostsIn(mainTasks), received <- delivered, failed <- script = "failed", resting <- AtRest

\* The two queues, the proxy's counts and the late reports keep a session
\* between the page and its worker: messages are handled one by one in the
\* order of posting, posts arrive in order, none is lost before termination is
\* asked for, and an object collected before that has missed nothing.
ImplementsSession == Session!Spec

\* What the worker posts is delivered unless the page asks for termination or
\* the worker closes: the object does not disappear under a post on its way.
PostsAreDelivered ==
    \A n \in 1..MaxPosts :
        (posted >= n /\ ~asked) ~> (n \in delivered \/ (asked /\ object))

\* Once termination is asked for, the worker's thread ends.
ThreadEnds == (asked /\ thread /\ pc # "failed") ~> pc = "ended"

\* ... unless it stays in a synchronous load for ever; and a worker that closed
\* itself reaches its parent, which terminates it, once its script has returned
\* (WorkerContext.cpp:147: the task that says so is in the worker's own queue).
ThreadEndsUnlessLoading ==
    ((asked /\ thread /\ pc # "failed") \/ (closing /\ pc = "loop"))
        ~> (pc = "ended" \/ [](nested # NoLoad))

\* The proxy is freed once its object is gone, unless the worker's thread
\* could not be created or stays in a synchronous load for ever.
ProxyFreed == ~object ~> (~proxy \/ pc = "failed" \/ [](nested # NoLoad))

\* The worker's first script counts as activity until it has returned.
InitializationIsActivity == (pc = "evaluating" /\ ~asked) => HasPendingActivity
=============================================================================
