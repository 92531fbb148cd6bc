----------------------- MODULE MainThreadQueueProofs -----------------------
(***************************************************************************)
(* Proofs about MainThreadQueue, for any calls, any nesting of run loops   *)
(* and any number of pauses: a call is in one place, nothing is stranded,  *)
(* and the queue serves the way CallQueue says.                            *)
(***************************************************************************)
EXTENDS MainThreadQueue, QueueFacts, TLAPS, SequenceTheorems

LEMMA FrontProperties ==
    ASSUME NEW S, NEW s \in Seq(S), Len(s) # 0
    PROVE  /\ SubSeq(s, 1, Len(s) - 1) \in Seq(S)
           /\ Len(SubSeq(s, 1, Len(s) - 1)) = Len(s) - 1
           /\ \A i \in 1..(Len(s) - 1) : SubSeq(s, 1, Len(s) - 1)[i] = s[i]
<1> DEFINE n == Len(s) - 1
<1>1. n \in Nat /\ \A i \in 1..n : s[i] \in S
  BY LenProperties, ElementOfSeq
<1> HIDE DEF n
<1>2. /\ SubSeq(s, 1, n) \in Seq(S) /\ Len(SubSeq(s, 1, n)) = n
      /\ \A i \in 1..n : SubSeq(s, 1, n)[i] = s[i]
  BY <1>1, SubSeqProperties
<1> QED
  BY <1>2 DEF n

\* The dispatch loops: the innermost is replaced, or gone, or a new one is in it.
LEMMA TopReplaced ==
    ASSUME TypeOK, stack # <<>>, NEW x \in Calls \cup {Between}
    PROVE  /\ WithTop(x) \in Seq(Calls \cup {Between})
           /\ Len(WithTop(x)) = Len(stack) /\ Len(stack) \in Nat \ {0}
           /\ \A i \in 1..Len(stack) :
                WithTop(x)[i] = IF i = Len(stack) THEN x ELSE stack[i]
<1>1. stack \in Seq(Calls \cup {Between}) /\ Len(stack) \in Nat \ {0}
  BY EmptySeq, LenProperties DEF TypeOK
<1> QED
  BY <1>1 DEF WithTop

LEMMA TopPopped ==
    ASSUME TypeOK, stack # <<>>
    PROVE  /\ Popped \in Seq(Calls \cup {Between})
           /\ Len(Popped) = Len(stack) - 1 /\ Len(stack) \in Nat \ {0}
           /\ \A i \in 1..(Len(stack) - 1) : Popped[i] = stack[i]
<1>1. /\ stack \in Seq(Calls \cup {Between}) /\ Len(stack) \in Nat \ {0}
      /\ \A i \in 1..Len(stack) : stack[i] \in Calls \cup {Between}
  BY EmptySeq, ElementOfSeq, LenProperties DEF TypeOK
<1> QED
  BY <1>1, FrontProperties DEF Popped

LEMMA TopType ==
    ASSUME TypeOK, stack # <<>>
    PROVE  Top \in Calls \cup {Between}
<1>1. /\ stack \in Seq(Calls \cup {Between}) /\ Len(stack) \in 1..Len(stack)
  BY EmptySeq, LenProperties DEF TypeOK
<1> QED
  BY <1>1, ElementOfSeq DEF Top

-----------------------------------------------------------------------------
(* Type correctness. *)

LEMMA TypeStep == TypeOK /\ [Next]_vars => TypeOK'
<1> SUFFICES ASSUME TypeOK, [Next]_vars
             PROVE  TypeOK'
  OBVIOUS
<1>1. ASSUME NEW c \in Calls, CallOnMainThread(c) \/ CallOnMainThreadAndWait(c)
      PROVE  TypeOK'
  <2>1. Append(functionQueue, c) \in Seq(Calls)
    BY AppendIn DEF TypeOK
  <2>2. CASE CallOnMainThread(c)
    BY <2>1, <2>2 DEF CallOnMainThread, TypeOK
  <2>3. CASE CallOnMainThreadAndWait(c)
    <3>1. scheduled' \in Nat
      BY <2>3 DEF CallOnMainThreadAndWait, TypeOK
    <3> QED
      BY <2>1, <2>3, <3>1 DEF CallOnMainThreadAndWait, TypeOK
  <2> QED
    BY <1>1, <2>2, <2>3
<1>2. ASSUME NEW c \in Calls, ScheduleDispatch(c) \/ WaitReturns(c)
      PROVE  TypeOK'
  BY <1>2 DEF ScheduleDispatch, WaitReturns, TypeOK
<1>3. ASSUME NEW c \in Calls, CancelCallOnMainThread(c)
      PROVE  TypeOK'
  <2>1. functionQueue' \in Seq(Calls)
    BY <1>3, RemoveIn DEF CancelCallOnMainThread, TypeOK
  <2> QED
    BY <1>3, <2>1 DEF CancelCallOnMainThread, TypeOK
<1>4. CASE Pause \/ Resume
  <2>1. pauses' \in 0..MaxPauses /\ scheduled' \in Nat
    <3>1. CASE Pause
      BY <3>1, BoundsAssumption DEF Pause, TypeOK
    <3>2. CASE Resume
      BY <3>2 DEF Resume, TypeOK
    <3> QED
      BY <1>4, <3>1, <3>2
  <2>3. callbacksPaused' \in BOOLEAN
    BY <1>4 DEF Pause, Resume, TypeOK
  <2>2. UNCHANGED <<functionQueue, caller, stack, ran, cancelled>>
    BY <1>4 DEF Pause, Resume
  <2> QED
    BY <2>1, <2>2, <2>3 DEF TypeOK
<1>5. CASE Dispatch
  <2>1. stack' \in Seq(Calls \cup {Between})
    <3>1. Between \in Calls \cup {Between}
      OBVIOUS
    <3> QED
      BY <1>5, <3>1, AppendIn DEF Dispatch, TypeOK
  <2>2. scheduled' \in Nat
    BY <1>5 DEF Dispatch, TypeOK
  <2> QED
    BY <1>5, <2>1, <2>2 DEF Dispatch, TypeOK
<1>6. CASE TakeFirst
  <2>1. stack # <<>>
    BY <1>6 DEF TakeFirst
  <2>2. CASE functionQueue = <<>>
    BY <1>6, <2>1, <2>2, TopPopped DEF TakeFirst, TypeOK
  <2>3. CASE functionQueue # <<>>
    <3>1. Head(functionQueue) \in Calls /\ Tail(functionQueue) \in Seq(Calls)
      BY <2>3, HeadTailIn DEF TypeOK
    <3> QED
      BY <1>6, <2>1, <2>3, <3>1, TopReplaced DEF TakeFirst, TypeOK
  <2> QED
    BY <2>2, <2>3
<1>7. CASE FunctionReturns
  <2>1. Top \in Calls
    BY <1>7, TopType DEF FunctionReturns
  <2>2. stack' \in Seq(Calls \cup {Between})
    BY <1>7, TopReplaced, TopPopped DEF FunctionReturns
  <2> QED
    BY <1>7, <2>1, <2>2 DEF FunctionReturns, TypeOK
<1>8. CASE UNCHANGED vars
  BY <1>8 DEF vars, TypeOK
<1> QED
  BY <1>1, <1>2, <1>3, <1>4, <1>5, <1>6, <1>7, <1>8 DEF Next

\* The queue, the callers, the dispatch loops and the events have their types.
THEOREM TypeCorrect == Spec => []TypeOK
<1>1. Init => TypeOK
  <2> SUFFICES ASSUME Init PROVE TypeOK
    OBVIOUS
  <2>1. functionQueue \in Seq(Calls) /\ stack \in Seq(Calls \cup {Between})
    BY DEF Init
  <2>2. scheduled \in Nat /\ pauses \in 0..MaxPauses
    BY BoundsAssumption DEF Init
  <2> QED
    BY <2>1, <2>2 DEF Init, TypeOK
<1> QED
  BY <1>1, TypeStep, PTL DEF Spec

-----------------------------------------------------------------------------
(* No call is stranded. *)

LEMMA StrandedStep == TypeOK /\ NothingStranded /\ [Next]_vars => NothingStranded'
<1> SUFFICES ASSUME TypeOK, NothingStranded, [Next]_vars
             PROVE  NothingStranded'
  OBVIOUS
<1>1. ASSUME NEW c \in Calls, CallOnMainThread(c) PROVE NothingStranded'
  BY <1>1 DEF CallOnMainThread, NothingStranded, TypeOK
<1>2. ASSUME NEW c \in Calls, CallOnMainThreadAndWait(c) PROVE NothingStranded'
  <2>1. functionQueue = <<>> => scheduled' > 0
    BY <1>2 DEF CallOnMainThreadAndWait, TypeOK
  <2>2. scheduled > 0 => scheduled' > 0
    BY <1>2 DEF CallOnMainThreadAndWait, TypeOK
  <2>3. \A d \in Calls : caller[d] = "scheduling" => caller'[d] = "scheduling"
    BY <1>2 DEF CallOnMainThreadAndWait, TypeOK
  <2> QED
    BY <1>2, <2>1, <2>2, <2>3 DEF CallOnMainThreadAndWait, NothingStranded
<1>3. ASSUME NEW c \in Calls, ScheduleDispatch(c) PROVE NothingStranded'
  BY <1>3 DEF ScheduleDispatch, NothingStranded, TypeOK
<1>4. ASSUME NEW c \in Calls, WaitReturns(c) PROVE NothingStranded'
  <2>1. \A d \in Calls : caller[d] = "scheduling" => caller'[d] = "scheduling"
    BY <1>4 DEF WaitReturns, TypeOK
  <2> QED
    BY <1>4, <2>1 DEF WaitReturns, NothingStranded
<1>5. ASSUME NEW c \in Calls, CancelCallOnMainThread(c) PROVE NothingStranded'
  BY <1>5 DEF CancelCallOnMainThread, NothingStranded
<1>6. CASE Pause \/ Resume
  BY <1>6 DEF Pause, Resume, NothingStranded, TypeOK
<1>7. CASE Dispatch
  <2>1. ~callbacksPaused => stack' # <<>>
    BY <1>7, AppendProperties, EmptySeq DEF Dispatch, TypeOK
  <2> QED
    BY <1>7, <2>1 DEF Dispatch, NothingStranded
<1>8. CASE TakeFirst
  <2>1. functionQueue # <<>> => stack' # <<>>
    BY <1>8 DEF TakeFirst, WithTop, TypeOK
  <2> QED
    BY <1>8, <2>1 DEF TakeFirst, NothingStranded
<1>9. CASE FunctionReturns
  <2>1. stack' # <<>> \/ scheduled' > 0
    BY <1>9 DEF FunctionReturns, WithTop, TypeOK
  <2> QED
    BY <2>1 DEF NothingStranded
<1>10. CASE UNCHANGED vars
  BY <1>10 DEF vars, NothingStranded
<1> QED
  BY <1>1, <1>2, <1>3, <1>4, <1>5, <1>6, <1>7, <1>8, <1>9, <1>10 DEF Next

\* While callbacks are not paused, a call in the queue has a dispatch loop that
\* is active, an event for one, or a thread that is about to schedule one.
THEOREM NothingIsStranded == Spec => []NothingStranded
<1>1. Init => NothingStranded
  BY DEF Init, NothingStranded
<1> QED
  BY <1>1, StrandedStep, TypeCorrect, PTL DEF Spec

-----------------------------------------------------------------------------
(* Where a call is. *)

\* A call is in one place, once, and in none before it is posted.
CallInv ==
    /\ Once(functionQueue)
    /\ \A i, j \in 1..Len(stack) : stack[i] = stack[j] => i = j \/ stack[i] = Between
    /\ \A c \in Calls :
        /\ caller[c] = "before" => c \notin Queued \cup Running \cup ran \cup cancelled
        /\ caller[c] # "before" =>
             \/ c \in Queued /\ c \notin Running \cup ran \cup cancelled
             \/ c \in Running /\ c \notin Queued \cup ran \cup cancelled
             \/ c \in ran /\ c \notin Queued \cup Running \cup cancelled
             \/ c \in cancelled /\ c \notin Queued \cup Running \cup ran

LEMMA QueuedIn == Queued = In(functionQueue) /\ Queued' = In(functionQueue)'
  BY DEF Queued, In

LEMMA CallStep == TypeOK /\ CallInv /\ [Next]_vars => CallInv'
<1> SUFFICES ASSUME TypeOK, CallInv, [Next]_vars
             PROVE  CallInv'
  OBVIOUS
<1>0. functionQueue \in Seq(Calls) /\ Once(functionQueue)
  BY DEF TypeOK, CallInv
<1>1. ASSUME NEW c \in Calls, CallOnMainThread(c) \/ CallOnMainThreadAndWait(c)
      PROVE  CallInv'
  <2>1. functionQueue' = Append(functionQueue, c) /\ UNCHANGED <<stack, ran, cancelled>>
    BY <1>1 DEF CallOnMainThread, CallOnMainThreadAndWait
  <2>2. c \notin Queued \cup Running \cup ran \cup cancelled
    BY <1>1 DEF CallOnMainThread, CallOnMainThreadAndWait, CallInv
  <2>3. Queued' = Queued \cup {c} /\ Once(functionQueue')
    BY <1>0, <2>1, <2>2, QueuedIn, AppendIn
  <2>4. Running' = Running
    BY <2>1 DEF Running
  <2>5. caller'[c] # "before" /\ \A d \in Calls \ {c} : caller'[d] = caller[d]
    BY <1>1 DEF CallOnMainThread, CallOnMainThreadAndWait, TypeOK
  <2> QED
    BY <2>1, <2>2, <2>3, <2>4, <2>5 DEF CallInv
<1>2. ASSUME UNCHANGED <<functionQueue, stack, ran, cancelled>>,
             \A d \in Calls : caller'[d] = "before" <=> caller[d] = "before"
      PROVE  CallInv'
  <2>1. Queued' = Queued /\ Running' = Running
    BY <1>2 DEF Queued, Running
  <2> QED
    BY <1>2, <2>1 DEF CallInv, Once
<1>3. ASSUME NEW c \in Calls, ScheduleDispatch(c) \/ WaitReturns(c)
      PROVE  CallInv'
  <2>1. \A d \in Calls : caller'[d] = "before" <=> caller[d] = "before"
    BY <1>3 DEF ScheduleDispatch, WaitReturns, TypeOK
  <2> QED
    BY <1>2, <1>3, <2>1 DEF ScheduleDispatch, WaitReturns
<1>4. ASSUME NEW c \in Calls, CancelCallOnMainThread(c)
      PROVE  CallInv'
  <2>1. c \in Queued /\ Queued' = Queued \ {c} /\ Once(functionQueue')
    <3>1. PICK i \in 1..Len(functionQueue) :
            /\ functionQueue[i] = c
            /\ functionQueue' = SubSeq(functionQueue, 1, i - 1)
                                  \o SubSeq(functionQueue, i + 1, Len(functionQueue))
      BY <1>4 DEF CancelCallOnMainThread
    <3>2. In(functionQueue') = In(functionQueue) \ {c} /\ Once(functionQueue')
      BY <1>0, <3>1, RemoveIn
    <3>3. c \in In(functionQueue)
      BY <3>1 DEF In
    <3> QED
      BY <3>2, <3>3, QueuedIn
  <2>2. Running' = Running
    BY <1>4 DEF CancelCallOnMainThread, Running
  <2> QED
    BY <1>4, <2>1, <2>2 DEF CancelCallOnMainThread, CallInv
<1>5. CASE Pause \/ Resume
  BY <1>2, <1>5 DEF Pause, Resume
<1>6. CASE Dispatch
  <2>1. CASE stack' = stack
    BY <1>2, <1>6, <2>1 DEF Dispatch
  <2>2. CASE stack' = Append(stack, Between)
    <3>1. /\ Len(stack') = Len(stack) + 1 /\ Len(stack) \in Nat
          /\ stack'[Len(stack) + 1] = Between
          /\ \A i \in 1..Len(stack) : stack'[i] = stack[i]
      BY <2>2, AppendProperties DEF TypeOK
    <3>2. Running' = Running
      BY <3>1 DEF Running
    <3>3. \A i, j \in 1..Len(stack') : stack'[i] = stack'[j] => i = j \/ stack'[i] = Between
      BY <3>1 DEF CallInv
    <3>4. Queued' = Queued /\ Once(functionQueue)'
      BY <1>0, <1>6 DEF Dispatch, Queued
    <3> QED
      BY <1>6, <3>2, <3>3, <3>4 DEF Dispatch, CallInv
  <2> QED
    BY <1>6, <2>1, <2>2 DEF Dispatch
<1>7. CASE TakeFirst
  <2>0. stack # <<>> /\ stack[Len(stack)] = Between
    BY <1>7 DEF TakeFirst, Top
  <2>1. CASE functionQueue = <<>>
    <3>1. stack' = Popped /\ functionQueue' = functionQueue
      BY <1>7, <2>1 DEF TakeFirst
    <3>2. /\ Len(stack') = Len(stack) - 1 /\ Len(stack) \in Nat \ {0}
          /\ \A i \in 1..(Len(stack) - 1) : stack'[i] = stack[i]
      BY <2>0, <3>1, TopPopped
    <3>3. Running' = Running
      <4>1. \A i \in 1..Len(stack) : i \in 1..Len(stack') \/ stack[i] = Between
        BY <2>0, <3>2
      <4> QED
        BY <3>2, <4>1 DEF Running
    <3>4. \A i, j \in 1..Len(stack') : stack'[i] = stack'[j] => i = j \/ stack'[i] = Between
      BY <3>2 DEF CallInv
    <3>5. Queued' = Queued /\ Once(functionQueue)'
      BY <1>0, <3>1 DEF Queued
    <3> QED
      BY <1>7, <3>3, <3>4, <3>5 DEF TakeFirst, CallInv
  <2>2. CASE functionQueue # <<>>
    <3> DEFINE c == Head(functionQueue)
    <3>1. stack' = WithTop(c) /\ functionQueue' = Tail(functionQueue)
      BY <1>7, <2>2 DEF TakeFirst
    <3>2. c \in Calls /\ c \in Queued /\ Queued' = Queued \ {c} /\ Once(functionQueue')
      BY <1>0, <2>2, <3>1, QueuedIn, HeadTailIn
    <3> HIDE DEF c
    <3>3. c \notin Running \cup ran \cup cancelled /\ caller[c] # "before"
      BY <3>2 DEF CallInv
    <3>4. /\ Len(stack') = Len(stack) /\ Len(stack) \in Nat \ {0}
          /\ \A i \in 1..Len(stack) : stack'[i] = IF i = Len(stack) THEN c ELSE stack[i]
      BY <2>0, <3>1, <3>2, TopReplaced
    <3>5. Running' = Running \cup {c}
      BY <2>0, <3>2, <3>4, BetweenAssumption DEF Running
    <3>6. \A i, j \in 1..Len(stack') : stack'[i] = stack'[j] => i = j \/ stack'[i] = Between
      <4>1. \A i \in 1..Len(stack) : stack[i] # c
        BY <3>2, <3>3, BetweenAssumption DEF Running
      <4> QED
        BY <3>4, <4>1 DEF CallInv
    <3> QED
      BY <1>7, <3>2, <3>3, <3>5, <3>6 DEF TakeFirst, CallInv
  <2> QED
    BY <2>1, <2>2
<1>8. CASE FunctionReturns
  <2> DEFINE c == stack[Len(stack)]
  <2>1. /\ stack # <<>> /\ c # Between /\ c \in Calls
        /\ ran' = ran \cup {c} /\ UNCHANGED <<functionQueue, cancelled>>
        /\ stack' \in {WithTop(Between), Popped}
        /\ \A d \in Calls : caller'[d] = "before" <=> caller[d] = "before"
    BY <1>8, TopType DEF FunctionReturns, Top, TypeOK
  <2>2. /\ Len(stack) \in Nat \ {0} /\ Len(stack') \in {Len(stack), Len(stack) - 1}
        /\ \A i \in 1..(Len(stack) - 1) : i \in 1..Len(stack') /\ stack'[i] = stack[i]
        /\ \A i \in 1..Len(stack') : i = Len(stack) => stack'[i] = Between
    BY <2>1, TopReplaced, TopPopped
  <2>3. \A i \in 1..(Len(stack) - 1) : stack[i] # c
    BY <2>1, <2>2 DEF CallInv
  <2>4. c \in Running
    BY <2>1, <2>2 DEF Running
  <2>5. Running' = Running \ {c}
    <3>1. ASSUME NEW i \in 1..Len(stack'), stack'[i] # Between
          PROVE  i \in 1..(Len(stack) - 1) /\ stack'[i] = stack[i]
      BY <2>2, <3>1
    <3>2. ASSUME NEW i \in 1..Len(stack), stack[i] # c
          PROVE  i \in 1..(Len(stack) - 1)
      BY <2>2, <3>2
    <3>3. Running' \subseteq Running \ {c}
      <4> SUFFICES ASSUME NEW i \in 1..Len(stack'), stack'[i] # Between
                   PROVE  stack'[i] \in Running \ {c}
        BY DEF Running
      <4>1. i \in 1..(Len(stack) - 1) /\ stack'[i] = stack[i] /\ stack[i] # c
        BY <2>3, <3>1
      <4>2. i \in 1..Len(stack)
        BY <2>2, <4>1
      <4> QED
        BY <4>1, <4>2 DEF Running
    <3>4. Running \ {c} \subseteq Running'
      <4> SUFFICES ASSUME NEW i \in 1..Len(stack), stack[i] # Between, stack[i] # c
                   PROVE  stack[i] \in Running'
        BY DEF Running
      <4>1. i \in 1..Len(stack') /\ stack'[i] = stack[i]
        BY <2>2, <3>2
      <4> QED
        BY <4>1 DEF Running
    <3> QED
      BY <3>3, <3>4
  <2>6. \A i, j \in 1..Len(stack') : stack'[i] = stack'[j] => i = j \/ stack'[i] = Between
    BY <2>2 DEF CallInv
  <2>7. Queued' = Queued /\ Once(functionQueue)'
    BY <1>0, <2>1 DEF Queued
  <2> HIDE DEF c
  <2> QED
    BY <2>1, <2>4, <2>5, <2>6, <2>7 DEF CallInv
<1>9. CASE UNCHANGED vars
  BY <1>2, <1>9 DEF vars
<1> QED
  BY <1>1, <1>3, <1>4, <1>5, <1>6, <1>7, <1>8, <1>9 DEF Next

LEMMA CallInvariant == Spec => []CallInv
<1>1. Init => CallInv
  <2> SUFFICES ASSUME Init
               PROVE  CallInv
    OBVIOUS
  <2>1. functionQueue = <<>> /\ stack = <<>> /\ ran = {} /\ cancelled = {}
    BY DEF Init
  <2>2. Queued = {} /\ Running = {} /\ Len(stack) = 0 /\ Once(functionQueue)
    BY <2>1 DEF Queued, Running, Once
  <2> QED
    BY <2>1, <2>2 DEF Init, CallInv
<1> QED
  BY <1>1, CallStep, TypeCorrect, PTL DEF Spec

\* A call is queued, running in one of the nested loops, done or cancelled, and
\* what was cancelled never runs.
THEOREM CallsAreOnce == Spec => []EveryCallOnce
<1>1. CallInv => EveryCallOnce
  BY DEF CallInv, EveryCallOnce
<1> QED
  BY <1>1, CallInvariant, PTL

-----------------------------------------------------------------------------
(* The promise of the queue.                                               *)

\* Who waits is a call with a sync flag, which is not cancelled, and the flag is
\* signalled once the function has returned; only the innermost dispatch loop is
\* between two functions.
FlagInv ==
    /\ cancelled \cap SyncCalls = {}
    /\ \A c \in Calls :
        /\ caller[c] \in {"waiting", "signalled"} => c \in SyncCalls
        /\ caller[c] = "scheduling" => c \notin SyncCalls
        /\ caller[c] = "signalled" => c \in ran

LoopInv == \A i \in 1..(Len(stack) - 1) : stack[i] # Between

LEMMA FlagStep == TypeOK /\ FlagInv /\ [Next]_vars => FlagInv'
<1> SUFFICES ASSUME TypeOK, FlagInv, [Next]_vars
             PROVE  FlagInv'
  OBVIOUS
<1>1. ASSUME NEW c \in Calls,
             CallOnMainThread(c) \/ CallOnMainThreadAndWait(c) \/ ScheduleDispatch(c)
      PROVE  FlagInv'
  BY <1>1 DEF CallOnMainThread, CallOnMainThreadAndWait, ScheduleDispatch, FlagInv, TypeOK
<1>2. ASSUME NEW c \in Calls, WaitReturns(c)
      PROVE  FlagInv'
  BY <1>2 DEF WaitReturns, FlagInv, TypeOK
<1>3. ASSUME NEW c \in Calls, CancelCallOnMainThread(c)
      PROVE  FlagInv'
  BY <1>3 DEF CancelCallOnMainThread, FlagInv
<1>4. CASE Pause \/ Resume \/ Dispatch \/ TakeFirst
  BY <1>4 DEF Pause, Resume, Dispatch, TakeFirst, FlagInv
<1>5. CASE FunctionReturns
  <2>1. Top \in Calls
    BY <1>5, TopType DEF FunctionReturns
  <2>2. \A c \in Calls : caller'[c] = IF c = Top /\ caller[c] = "waiting" THEN "signalled"
                                                                         ELSE caller[c]
    BY <1>5, <2>1 DEF FunctionReturns, TypeOK
  <2>3. ran' = ran \cup {Top} /\ cancelled' = cancelled
    BY <1>5 DEF FunctionReturns
  <2> QED
    BY <2>2, <2>3 DEF FlagInv
<1>6. CASE UNCHANGED vars
  BY <1>6 DEF vars, FlagInv
<1> QED
  BY <1>1, <1>2, <1>3, <1>4, <1>5, <1>6 DEF Next

\* The functions that run, when the innermost loop is between two, and when it
\* is in one.
LEMMA InFunctionsIs ==
    ASSUME TypeOK, LoopInv
    PROVE  /\ stack = <<>> => InFunctions = <<>>
           /\ stack # <<>> /\ Top = Between => InFunctions = Popped
           /\ stack # <<>> /\ Top # Between => InFunctions = stack
           /\ Promise!Elements(InFunctions) = Running
<1>1. /\ stack = <<>> => InFunctions = <<>>
      /\ stack # <<>> /\ Top = Between => InFunctions = Popped
      /\ stack # <<>> /\ Top # Between => InFunctions = stack
  BY DEF InFunctions
<1>2. CASE stack = <<>>
  BY <1>1, <1>2 DEF Promise!Elements, Running
<1>3. CASE stack # <<>> /\ Top = Between
  <2>1. /\ Len(Popped) = Len(stack) - 1 /\ Len(stack) \in Nat \ {0}
        /\ \A i \in 1..(Len(stack) - 1) : Popped[i] = stack[i] /\ stack[i] # Between
    BY <1>3, TopPopped DEF LoopInv
  <2>2. \A i \in 1..Len(stack) : i \in 1..(Len(stack) - 1) \/ stack[i] = Between
    BY <1>3, <2>1 DEF Top
  <2>3. \A i \in 1..(Len(stack) - 1) : i \in 1..Len(stack)
    BY <2>1
  <2> QED
    BY <1>1, <1>3, <2>1, <2>2, <2>3 DEF Promise!Elements, Running
<1>4. CASE stack # <<>> /\ Top # Between
  <2>1. Len(stack) \in Nat
    BY DEF TypeOK
  <2>2. \A i \in 1..Len(stack) : i \in 1..(Len(stack) - 1) \/ i = Len(stack)
    BY <2>1
  <2>3. \A i \in 1..Len(stack) : stack[i] # Between
    BY <1>4, <2>2 DEF LoopInv, Top
  <2> QED
    BY <1>1, <1>4, <2>3 DEF Promise!Elements, Running
<1> QED
  BY <1>1, <1>2, <1>3, <1>4

\* What a dispatch loop does to them.
LEMMA LoopStarts ==
    ASSUME TypeOK, LoopInv, Dispatch
    PROVE  LoopInv' /\ InFunctions' = InFunctions
<1>1. CASE stack' = stack
  BY <1>1 DEF InFunctions, LoopInv, Top, Popped
<1>2. CASE stack' = Append(stack, Between)
  <2>0. stack \in Seq(Calls \cup {Between}) /\ Len(stack) \in Nat
    BY DEF TypeOK
  <2>1. /\ stack' \in Seq(Calls \cup {Between})
        /\ Len(stack') = Len(stack) + 1 /\ stack'[Len(stack) + 1] = Between
        /\ \A i \in 1..Len(stack) : stack'[i] = stack[i]
    BY <1>2, <2>0, AppendProperties
  <2>2. \A i \in 1..Len(stack) : stack[i] # Between
    BY DEF Dispatch, MainThreadRuns
  <2>3. LoopInv'
    BY <2>0, <2>1, <2>2 DEF LoopInv
  <2>4. SubSeq(stack', 1, Len(stack') - 1) = stack
    <3>1. /\ SubSeq(stack', 1, Len(stack') - 1) \in Seq(Calls \cup {Between})
          /\ Len(SubSeq(stack', 1, Len(stack') - 1)) = Len(stack') - 1
          /\ \A i \in 1..(Len(stack') - 1) : SubSeq(stack', 1, Len(stack') - 1)[i] = stack'[i]
      BY <2>0, <2>1, FrontProperties
    <3> QED
      BY <2>0, <2>1, <3>1, SeqEqual
  <2>5. stack' # <<>> /\ stack'[Len(stack')] = Between
    BY <2>0, <2>1
  <2>6. InFunctions' = stack
    BY <2>4, <2>5 DEF InFunctions, Top, Popped
  <2>7. InFunctions = stack
    <3>1. stack # <<>> => Len(stack) \in 1..Len(stack)
      BY <2>0, EmptySeq, LenProperties
    <3> QED
      BY <2>2, <3>1 DEF InFunctions, Top
  <2> QED
    BY <2>3, <2>6, <2>7
<1> QED
  BY <1>1, <1>2 DEF Dispatch

\* The innermost loop ends, or is left.
LEMMA LoopPopped ==
    ASSUME TypeOK, LoopInv, stack # <<>>, stack' = Popped
    PROVE  LoopInv' /\ InFunctions' = Popped
<1>1. /\ Popped \in Seq(Calls \cup {Between})
      /\ Len(Popped) = Len(stack) - 1 /\ Len(stack) \in Nat \ {0}
      /\ \A i \in 1..(Len(stack) - 1) : Popped[i] = stack[i]
  BY TopPopped
<1>2. \A i \in 1..Len(stack') : stack'[i] # Between
  BY <1>1 DEF LoopInv
<1>3. LoopInv'
  BY <1>1, <1>2 DEF LoopInv
<1>4. stack' # <<>> => Len(stack') \in 1..Len(stack')
  BY <1>1, EmptySeq, LenProperties
<1>5. stack' # <<>> => stack'[Len(stack')] # Between
  BY <1>2, <1>4
<1>6. InFunctions' = stack'
  BY <1>5 DEF InFunctions, Top
<1> QED
  BY <1>3, <1>6

\* The innermost loop goes on to the next function, or comes back from one.
LEMMA LoopTurns ==
    ASSUME TypeOK, LoopInv, stack # <<>>, NEW x \in Calls \cup {Between}, stack' = WithTop(x)
    PROVE  /\ LoopInv'
           /\ x = Between => InFunctions' = Popped
           /\ x # Between => InFunctions' = Append(Popped, x)
<1>1. /\ Popped \in Seq(Calls \cup {Between})
      /\ Len(Popped) = Len(stack) - 1 /\ Len(stack) \in Nat \ {0}
      /\ \A i \in 1..(Len(stack) - 1) : Popped[i] = stack[i]
  BY TopPopped
<1>2. /\ stack' \in Seq(Calls \cup {Between})
      /\ Len(stack') = Len(stack)
      /\ \A i \in 1..Len(stack) : stack'[i] = IF i = Len(stack) THEN x ELSE stack[i]
  BY TopReplaced
<1>3. /\ \A i \in 1..(Len(stack) - 1) : i \in 1..Len(stack) /\ stack'[i] = stack[i]
      /\ stack'[Len(stack)] = x
  BY <1>1, <1>2
<1>4. LoopInv'
  BY <1>2, <1>3 DEF LoopInv
<1>5. stack' # <<>>
  BY <1>1, <1>2, EmptySeq
<1>6. CASE x = Between
  <2>1. /\ SubSeq(stack', 1, Len(stack') - 1) \in Seq(Calls \cup {Between})
        /\ Len(SubSeq(stack', 1, Len(stack') - 1)) = Len(stack') - 1
        /\ \A i \in 1..(Len(stack') - 1) : SubSeq(stack', 1, Len(stack') - 1)[i] = stack'[i]
    BY <1>1, <1>2, FrontProperties
  <2>2. SubSeq(stack', 1, Len(stack') - 1) = Popped
    BY <1>1, <1>2, <1>3, <2>1, SeqEqual
  <2>3. InFunctions' = Popped
    BY <1>2, <1>3, <1>5, <1>6, <2>2 DEF InFunctions, Top, Popped
  <2> QED
    BY <1>4, <1>6, <2>3
<1>7. CASE x # Between
  <2>1. InFunctions' = stack'
    BY <1>2, <1>3, <1>7 DEF InFunctions, Top
  <2>2. /\ Append(Popped, x) \in Seq(Calls \cup {Between})
        /\ Len(Append(Popped, x)) = Len(stack)
        /\ \A i \in 1..(Len(stack) - 1) : Append(Popped, x)[i] = stack[i]
        /\ Append(Popped, x)[Len(stack)] = x
    BY <1>1, AppendProperties
  <2>3. \A i \in 1..Len(stack) : stack'[i] = Append(Popped, x)[i]
    BY <1>2, <2>2
  <2>4. stack' = Append(Popped, x)
    BY <1>2, <2>2, <2>3, SeqEqual
  <2> QED
    BY <1>4, <1>7, <2>1, <2>4
<1> QED
  BY <1>6, <1>7

\* The calls whose caller waited and went on.
Answered == {c \in SyncCalls : caller[c] = "returned"}

\* Every step is one of the promised queue, or changes nothing it has.
LEMMA PromiseStep ==
    TypeOK /\ CallInv /\ FlagInv /\ LoopInv /\ [Next]_vars
      => LoopInv' /\ [Promise!Next]_(Promise!vars)
<1> SUFFICES ASSUME TypeOK, CallInv, FlagInv, LoopInv, [Next]_vars
             PROVE  LoopInv' /\ [Promise!Next]_(Promise!vars)
  OBVIOUS
<1>0. stack' = stack => LoopInv' /\ InFunctions' = InFunctions
  BY DEF LoopInv, InFunctions, Top, Popped
<1>1. UNCHANGED <<functionQueue, InFunctions, ran, cancelled, Answered>> => UNCHANGED Promise!vars
  BY DEF Promise!vars, Answered
<1>2. /\ Promise!Elements(functionQueue) = Queued /\ Promise!Elements(InFunctions) = Running
  BY InFunctionsIs DEF Promise!Elements, Queued
<1>3. ASSUME NEW c \in Calls, CallOnMainThread(c) \/ CallOnMainThreadAndWait(c)
      PROVE  LoopInv' /\ Promise!Next
  <2>1. /\ caller[c] = "before" /\ functionQueue' = Append(functionQueue, c)
        /\ UNCHANGED <<stack, ran, cancelled>>
    BY <1>3 DEF CallOnMainThread, CallOnMainThreadAndWait
  <2>2. c \notin Queued \cup Running \cup ran \cup cancelled \cup Answered
    BY <2>1 DEF CallInv, Answered
  <2>3. Answered' = Answered
    BY <1>3, CallsAssumption DEF CallOnMainThread, CallOnMainThreadAndWait, Answered, TypeOK
  <2>4. Promise!Post(c)
    BY <1>0, <1>2, <2>1, <2>2, <2>3 DEF Promise!Post, Answered
  <2> QED
    BY <1>0, <2>1, <2>4 DEF Promise!Next
<1>4. ASSUME NEW c \in Calls, ScheduleDispatch(c)
      PROVE  LoopInv' /\ UNCHANGED Promise!vars
  <2>1. Answered' = Answered
    BY <1>4, CallsAssumption DEF ScheduleDispatch, FlagInv, Answered, TypeOK
  <2> QED
    BY <1>0, <1>1, <1>4, <2>1 DEF ScheduleDispatch
<1>5. ASSUME NEW c \in Calls, WaitReturns(c)
      PROVE  LoopInv' /\ Promise!Next
  <2>1. /\ c \in SyncCalls \ Answered /\ caller[c] # "before"
        /\ caller[c] = "signalled" \/ SpuriousWakeups
        /\ UNCHANGED <<functionQueue, stack, ran, cancelled>>
    BY <1>5 DEF WaitReturns, FlagInv, Answered
  <2>2. Answered' = Answered \cup {c}
    <3>1. \A d \in Calls : caller'[d] = IF d = c THEN "returned" ELSE caller[d]
      BY <1>5 DEF WaitReturns, TypeOK
    <3> QED
      BY <2>1, <3>1, CallsAssumption DEF Answered
  <2>3. c \in ran \/ (SpuriousWakeups /\ c \in Queued \cup Running)
    BY <2>1 DEF FlagInv, CallInv
  <2>4. Promise!Answer(c)
    BY <1>0, <1>2, <2>1, <2>2, <2>3 DEF Promise!Answer, Answered
  <2> QED
    BY <1>0, <2>1, <2>4 DEF Promise!Next
<1>6. ASSUME NEW c \in Calls, CancelCallOnMainThread(c)
      PROVE  LoopInv' /\ Promise!Next
  <2>1. Promise!Cancel(c)
    BY <1>0, <1>6 DEF CancelCallOnMainThread, Promise!Cancel
  <2> QED
    BY <1>0, <1>6, <2>1 DEF Promise!Next, CancelCallOnMainThread
<1>7. CASE Pause \/ Resume
  BY <1>0, <1>1, <1>7 DEF Pause, Resume, Answered
<1>8. CASE Dispatch
  <2>1. LoopInv' /\ InFunctions' = InFunctions
    BY <1>8, LoopStarts
  <2> QED
    BY <1>1, <1>8, <2>1 DEF Dispatch, Answered
<1>9. CASE TakeFirst
  <2>1. stack # <<>> /\ Top = Between /\ InFunctions = Popped
    BY <1>9, InFunctionsIs DEF TakeFirst
  <2>2. CASE functionQueue = <<>>
    <3>1. LoopInv' /\ InFunctions' = InFunctions
      BY <1>9, <2>1, <2>2, LoopPopped DEF TakeFirst
    <3> QED
      BY <1>1, <1>9, <2>2, <3>1 DEF TakeFirst, Answered
  <2>3. CASE functionQueue # <<>>
    <3>1. Head(functionQueue) \in Calls
      BY <2>3, HeadTailIn DEF TypeOK
    <3>2. LoopInv' /\ InFunctions' = Append(InFunctions, Head(functionQueue))
      BY <1>9, <2>1, <2>3, <3>1, LoopTurns, BetweenAssumption DEF TakeFirst
    <3>3. Promise!Start
      BY <1>9, <2>3, <3>2 DEF TakeFirst, Promise!Start
    <3> QED
      BY <3>2, <3>3 DEF Promise!Next
  <2> QED
    BY <2>2, <2>3
<1>10. CASE FunctionReturns
  <2>1. /\ stack # <<>> /\ Top # Between /\ InFunctions = stack /\ Top \in Calls
    BY <1>10, InFunctionsIs, TopType DEF FunctionReturns
  <2>2. LoopInv' /\ InFunctions' = Popped
    BY <1>10, <2>1, LoopPopped, LoopTurns DEF FunctionReturns
  <2>3. Answered' = Answered
    <3>1. \A c \in Calls : caller'[c] = IF c = Top /\ caller[c] = "waiting" THEN "signalled"
                                                                           ELSE caller[c]
      BY <1>10, <2>1 DEF FunctionReturns, TypeOK
    <3> QED
      BY <3>1, CallsAssumption DEF Answered
  <2>4. Promise!Return
    BY <1>10, <2>1, <2>2, <2>3 DEF FunctionReturns, Promise!Return, Popped, Top, Answered
  <2> QED
    BY <2>2, <2>4 DEF Promise!Next
<1>11. CASE UNCHANGED vars
  BY <1>0, <1>1, <1>11 DEF vars, Answered
<1> QED
  BY <1>3, <1>4, <1>5, <1>6, <1>7, <1>8, <1>9, <1>10, <1>11 DEF Next

\* Whatever events, nested run loops and pauses do, the main thread runs every
\* call once, in the order of posting, and who waits goes on after its call.
THEOREM QueueServesInOrder == Spec => ServesInOrder
<1>1. Init => FlagInv /\ LoopInv /\ Promise!Init
  <2> SUFFICES ASSUME Init PROVE FlagInv /\ LoopInv /\ Promise!Init
    OBVIOUS
  <2>1. /\ functionQueue = <<>> /\ stack = <<>> /\ ran = {} /\ cancelled = {}
        /\ \A c \in Calls : caller[c] = "before"
    BY DEF Init
  <2>2. InFunctions = <<>> /\ {c \in SyncCalls : caller[c] = "returned"} = {}
    BY <2>1, CallsAssumption DEF InFunctions
  <2> QED
    BY <2>1, <2>2 DEF FlagInv, LoopInv, Promise!Init
<1> QED
  BY <1>1, FlagStep, PromiseStep, CallInvariant, TypeCorrect, PTL
  DEF Spec, ServesInOrder, Promise!Spec

=============================================================================
