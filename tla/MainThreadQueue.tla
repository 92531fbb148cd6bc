--------------------------- MODULE MainThreadQueue ---------------------------
(***************************************************************************)
(* callOnMainThread and its queue (JavaScriptCore/wtf/MainThread.cpp):     *)
(* how worker proxies, local storage, icon database and media players get  *)
(* work back to the main thread.  The queue has its mutex; the platform's  *)
(* event (scheduleDispatchFunctionsOnMainThread, external) is a count of   *)
(* dispatches the main thread's run loop will deliver.                     *)
(*                                                                         *)
(* A dispatched function may do anything the main thread does: post,       *)
(* cancel, pause callbacks (the script debugger), and run a nested run     *)
(* loop that dispatches again, so the dispatch loops form a stack.         *)
(***************************************************************************)
EXTENDS Naturals, Sequences, FiniteSets

CONSTANTS
    Calls,            \* the (function, context) pairs that may be posted, once each
    SyncCalls,        \* those posted with callOnMainThreadAndWait
    MaxDepth,         \* bound on nested run loops
    MaxPauses,        \* bound on how often callbacks are paused
    SpuriousWakeups   \* whether the platform's condition has them

ASSUME CallsAssumption == SyncCalls \subseteq Calls
ASSUME BoundsAssumption == MaxDepth \in Nat /\ MaxPauses \in Nat /\ SpuriousWakeups \in BOOLEAN

VARIABLES
    functionQueue,    \* functionQueue(): the calls, in order
    callbacksPaused,  \* callbacksPaused
    scheduled,        \* dispatch events the platform still has to deliver
    caller,           \* where the thread of each call is
    stack,            \* the dispatch loops of the main thread, innermost last:
                      \*   the call each one runs, or Between
    ran,              \* history: calls whose function has returned
    cancelled,        \* history: calls removed by cancelCallOnMainThread
    pauses            \* how often callbacks were paused

vars == <<functionQueue, callbacksPaused, scheduled, caller, stack, ran, cancelled, pauses>>

Between == "between functions"
ASSUME BetweenAssumption == Between \notin Calls

Top == stack[Len(stack)]
WithTop(x) == [stack EXCEPT ![Len(stack)] = x]
Popped == SubSeq(stack, 1, Len(stack) - 1)

\* Main-thread code runs when no dispatch loop is between two functions.
MainThreadRuns == \A i \in 1..Len(stack) : stack[i] # Between

TypeOK ==
    /\ functionQueue \in Seq(Calls)
    /\ callbacksPaused \in BOOLEAN
    /\ scheduled \in Nat
    /\ caller \in [Calls -> {"before", "scheduling", "waiting", "signalled", "returned"}]
    /\ stack \in Seq(Calls \cup {Between})
    /\ ran \subseteq Calls /\ cancelled \subseteq Calls
    /\ pauses \in 0..MaxPauses

Init ==
    /\ functionQueue = <<>>
    /\ callbacksPaused = FALSE
    /\ scheduled = 0
    /\ caller = [c \in Calls |-> "before"]
    /\ stack = <<>>
    /\ ran = {} /\ cancelled = {} /\ pauses = 0

-----------------------------------------------------------------------------
\* callOnMainThread: append and note under the mutex whether the queue was
\* empty; the event is scheduled after the mutex is released.
CallOnMainThread(c) ==
    /\ c \notin SyncCalls
    /\ caller[c] = "before"
    /\ functionQueue' = Append(functionQueue, c)
    /\ caller' = [caller EXCEPT ![c] = IF functionQueue = <<>> THEN "scheduling" ELSE "returned"]
    /\ UNCHANGED <<callbacksPaused, scheduled, stack, ran, cancelled, pauses>>

ScheduleDispatch(c) ==
    /\ caller[c] = "scheduling"
    /\ scheduled' = scheduled + 1
    /\ caller' = [caller EXCEPT ![c] = "returned"]
    /\ UNCHANGED <<functionQueue, callbacksPaused, stack, ran, cancelled, pauses>>

\* Mutant: a call that waits schedules nothing.
AndWaitNeverSchedules(c) ==
    /\ c \in SyncCalls
    /\ caller[c] = "before"
    /\ functionQueue' = Append(functionQueue, c)
    /\ caller' = [caller EXCEPT ![c] = "waiting"]
    /\ UNCHANGED <<callbacksPaused, scheduled, stack, ran, cancelled, pauses>>

\* callOnMainThreadAndWait on another thread (on the main thread it calls the
\* function directly, which is main-thread code like any other): append, schedule
\* and wait, all with the mutex, which the wait releases.
CallOnMainThreadAndWait(c) ==
    /\ c \in SyncCalls
    /\ caller[c] = "before"
    /\ functionQueue' = Append(functionQueue, c)
    /\ scheduled' = IF Len(functionQueue') = 1 THEN scheduled + 1 ELSE scheduled
    /\ caller' = [caller EXCEPT ![c] = "waiting"]
    /\ UNCHANGED <<callbacksPaused, stack, ran, cancelled, pauses>>

\* syncFlag.wait returns: signalled, or without cause.  There is no loop.
WaitReturns(c) ==
    /\ caller[c] \in IF SpuriousWakeups THEN {"waiting", "signalled"} ELSE {"signalled"}
    /\ caller' = [caller EXCEPT ![c] = "returned"]
    /\ UNCHANGED <<functionQueue, callbacksPaused, scheduled, stack, ran, cancelled, pauses>>

\* Mutant: the call's place in the queue is cleared, not removed.
CancelLeavesPlace(c) ==
    /\ MainThreadRuns
    /\ c \notin SyncCalls
    /\ \E i \in 1..Len(functionQueue) :
          /\ functionQueue[i] = c
          /\ functionQueue' = [functionQueue EXCEPT ![i] = Between]
    /\ cancelled' = cancelled \cup {c}
    /\ UNCHANGED <<callbacksPaused, scheduled, caller, stack, ran, pauses>>

\* cancelCallOnMainThread, called by main-thread code (the media players'
\* destructors).  A queued call with a sync flag does not compare equal.
CancelCallOnMainThread(c) ==
    /\ MainThreadRuns
    /\ c \notin SyncCalls
    /\ \E i \in 1..Len(functionQueue) :
          /\ functionQueue[i] = c
          /\ functionQueue' = SubSeq(functionQueue, 1, i - 1)
                                 \o SubSeq(functionQueue, i + 1, Len(functionQueue))
    /\ cancelled' = cancelled \cup {c}
    /\ UNCHANGED <<callbacksPaused, scheduled, caller, stack, ran, pauses>>

-----------------------------------------------------------------------------
\* setMainThreadCallbacksPaused.
Pause ==
    /\ MainThreadRuns
    /\ ~callbacksPaused /\ pauses < MaxPauses
    /\ callbacksPaused' = TRUE
    /\ pauses' = pauses + 1
    /\ UNCHANGED <<functionQueue, scheduled, caller, stack, ran, cancelled>>

Resume ==
    /\ MainThreadRuns
    /\ callbacksPaused
    /\ callbacksPaused' = FALSE
    /\ scheduled' = scheduled + 1
    /\ UNCHANGED <<functionQueue, caller, stack, ran, cancelled, pauses>>

-----------------------------------------------------------------------------
\* The run loop, outermost or nested in a function, delivers an event:
\* dispatchFunctionsFromMainThread starts, or returns because of the pause.
Dispatch ==
    /\ MainThreadRuns
    /\ scheduled > 0
    /\ scheduled' = scheduled - 1
    /\ \/ callbacksPaused /\ UNCHANGED stack
       \/ /\ ~callbacksPaused /\ Len(stack) < MaxDepth
          /\ stack' = Append(stack, Between)
    /\ UNCHANGED <<functionQueue, callbacksPaused, caller, ran, cancelled, pauses>>

\* Mutant: the call is removed from the queue only after it ran.
TakeFirstPeeks ==
    /\ stack # <<>> /\ Top = Between
    /\ IF functionQueue = <<>> THEN stack' = Popped ELSE stack' = WithTop(Head(functionQueue))
    /\ UNCHANGED <<functionQueue, callbacksPaused, scheduled, caller, ran, cancelled, pauses>>

\* The body of the loop: take the first call, or leave when there is none.
TakeFirst ==
    /\ stack # <<>> /\ Top = Between
    /\ IF functionQueue = <<>>
       THEN stack' = Popped /\ UNCHANGED functionQueue
       ELSE /\ stack' = WithTop(Head(functionQueue))
            /\ functionQueue' = Tail(functionQueue)
    /\ UNCHANGED <<callbacksPaused, scheduled, caller, ran, cancelled, pauses>>

\* Mutant: the loop gives way without scheduling the rest.
FunctionReturnsUnscheduled ==
    /\ stack # <<>> /\ Top # Between
    /\ ran' = ran \cup {Top}
    /\ caller' = IF caller[Top] = "waiting" THEN [caller EXCEPT ![Top] = "signalled"] ELSE caller
    /\ stack' \in {WithTop(Between), Popped}
    /\ UNCHANGED <<functionQueue, callbacksPaused, scheduled, cancelled, pauses>>

\* The function returns, its sync flag is signalled, and the loop goes on, or
\* gives way because it ran for too long.
FunctionReturns ==
    /\ stack # <<>> /\ Top # Between
    /\ ran' = ran \cup {Top}
    /\ caller' = IF caller[Top] = "waiting" THEN [caller EXCEPT ![Top] = "signalled"] ELSE caller
    /\ \/ stack' = WithTop(Between) /\ UNCHANGED scheduled
       \/ stack' = Popped /\ scheduled' = scheduled + 1
    /\ UNCHANGED <<functionQueue, callbacksPaused, cancelled, pauses>>

Next ==
    \/ \E c \in Calls :
          \/ CallOnMainThread(c) \/ ScheduleDispatch(c) \/ CallOnMainThreadAndWait(c)
          \/ WaitReturns(c) \/ CancelCallOnMainThread(c)
    \/ Pause \/ Resume \/ Dispatch \/ TakeFirst \/ FunctionReturns

(***************************************************************************)
(* The main thread's run loop delivers its events, functions return, and a *)
(* thread that is to schedule a dispatch does so.                          *)
(***************************************************************************)
Fairness ==
    /\ \A c \in Calls : WF_vars(ScheduleDispatch(c))
    /\ WF_vars(Dispatch /\ Len(stack) = 0)
    /\ WF_vars(TakeFirst) /\ WF_vars(FunctionReturns)

Spec == Init /\ [][Next]_vars /\ Fairness

-----------------------------------------------------------------------------
Queued == {functionQueue[i] : i \in 1..Len(functionQueue)}
Running == {stack[i] : i \in 1..Len(stack)} \ {Between}

\* Nothing is stranded: while callbacks are not paused and the queue is not
\* empty, a dispatch loop is active, or an event for one is pending, or the
\* thread that found the queue empty is about to schedule one.
NothingStranded ==
    functionQueue # <<>> /\ ~callbacksPaused =>
        \/ stack # <<>>
        \/ scheduled > 0
        \/ \E c \in Calls : caller[c] = "scheduling"

\* A call is in one place only: queued, running in one of the nested loops,
\* done, or cancelled.  In particular what was cancelled never runs.
EveryCallOnce ==
    /\ \A c \in Calls : caller[c] # "before" =>
          \/ c \in Queued /\ c \notin Running \cup ran \cup cancelled
          \/ c \in Running /\ c \notin Queued \cup ran \cup cancelled
          \/ c \in ran /\ c \notin Queued \cup Running \cup cancelled
          \/ c \in cancelled /\ c \notin Queued \cup Running \cup ran
    /\ \A i, j \in 1..Len(stack) : stack[i] = stack[j] => i = j \/ stack[i] = Between

\* A posted call is run or cancelled, unless callbacks are paused.
EveryCallEnds ==
    \A c \in Calls : (c \in Queued) ~> (c \notin Queued \/ callbacksPaused)

(***************************************************************************)
(* What the queue promises, with events and dispatch loops gone: only the  *)
(* innermost loop can be between two functions.                            *)
(***************************************************************************)
InFunctions == IF stack # <<>> /\ Top = Between THEN Popped ELSE stack

Promise == INSTANCE CallQueue
           WITH queue <- functionQueue,
                running <- InFunctions,
                answered <- {c \in SyncCalls : caller[c] = "returned"}

\* Calls run one inside the other or one after the other, each once, in the order
\* in which they were posted, and callOnMainThreadAndWait returns after its call.
ServesInOrder == Promise!Spec

=============================================================================
