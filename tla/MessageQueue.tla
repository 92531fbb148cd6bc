---------------------------- MODULE MessageQueue ----------------------------
(***************************************************************************)
(* WTF::MessageQueue (JavaScriptCore/wtf/MessageQueue.h): the queue every  *)
(* worker, database, local storage and file thread of WebKit blocks on.    *)
(*                                                                         *)
(* Every operation holds m_mutex from its first to its last line, so it is *)
(* one step here, except waitForMessageFilteredWithTimeout, which gives    *)
(* the mutex up inside m_condition.timedWait: a consumer is "blocked" in   *)
(* the wait set of m_condition until a signal, a broadcast, its deadline   *)
(* or a spurious wakeup takes it out; it is then "woken" and competes for  *)
(* the mutex, and other operations may run before it has it again.         *)
(***************************************************************************)
EXTENDS Naturals, Sequences, FiniteSets

CONSTANTS
    Messages,     \* the messages that may be posted, each at most once
    Consumers,    \* threads that call waitForMessage / tryGetMessage
    Predicates,   \* the filters they pass, each the set of accepted messages
    Doomed        \* the messages the predicate of removeIf selects

ASSUME PredicatesAssumption == Predicates \subseteq SUBSET Messages
ASSUME DoomedAssumption == Doomed \subseteq Messages

VARIABLES
    queue,        \* m_queue
    killed,       \* m_killed
    phase,        \* where each consumer is with respect to m_condition
    filter,       \* predicate of the consumer's current wait
    timed,        \* whether that wait has a finite absoluteTime
    timedOut,     \* the local variable timedOut of that wait
    result,       \* what the consumer's last call returned
    posted,       \* history: messages handed to append or prepend
    received,     \* history: messages each consumer got
    discarded     \* history: messages deleted by removeIf

waitVars == <<phase, filter, timed, timedOut>>
vars == <<queue, killed, waitVars, result, posted, received, discarded>>

Results == {"None", "Terminated", "Timeout", "Received"}

TypeOK ==
    /\ queue \in Seq(Messages)
    /\ killed \in BOOLEAN
    /\ phase \in [Consumers -> {"idle", "blocked", "woken"}]
    /\ filter \in [Consumers -> SUBSET Messages]
    /\ timed \in [Consumers -> BOOLEAN]
    /\ timedOut \in [Consumers -> BOOLEAN]
    /\ result \in [Consumers -> Results]
    /\ posted \subseteq Messages
    /\ received \in [Consumers -> SUBSET Messages]
    /\ discarded \subseteq Messages

Init ==
    /\ queue = <<>>
    /\ killed = FALSE
    /\ phase = [c \in Consumers |-> "idle"]
    /\ filter = [c \in Consumers |-> {}]
    /\ timed = [c \in Consumers |-> FALSE]
    /\ timedOut = [c \in Consumers |-> FALSE]
    /\ result = [c \in Consumers |-> "None"]
    /\ posted = {}
    /\ received = [c \in Consumers |-> {}]
    /\ discarded = {}

-----------------------------------------------------------------------------
(***************************************************************************)
(* m_condition.  A signal takes one blocked consumer, if there is one, out *)
(* of the wait set; a broadcast takes all of them.                         *)
(***************************************************************************)
Blocked == {c \in Consumers : phase[c] = "blocked"}

Signal ==
    IF Blocked = {}
    THEN phase' = phase
    ELSE \E c \in Blocked : phase' = [phase EXCEPT ![c] = "woken"]

Broadcast ==
    phase' = [c \in Consumers |-> IF phase[c] = "blocked" THEN "woken" ELSE phase[c]]

\* pthread_cond_timedwait may return without a signal.
SpuriousWakeup(c) ==
    /\ phase[c] = "blocked"
    /\ phase' = [phase EXCEPT ![c] = "woken"]
    /\ UNCHANGED <<queue, killed, filter, timed, timedOut, result, posted, received, discarded>>

\* timedWait returns false: the deadline passed while the consumer was blocked.
DeadlinePasses(c) ==
    /\ phase[c] = "blocked"
    /\ timed[c]
    /\ phase' = [phase EXCEPT ![c] = "woken"]
    /\ timedOut' = [timedOut EXCEPT ![c] = TRUE]
    /\ UNCHANGED <<queue, killed, filter, timed, result, posted, received, discarded>>

-----------------------------------------------------------------------------
(***************************************************************************)
(* Producers.  A message posted after kill() is still stored; it is never  *)
(* delivered and dies with the queue.                                      *)
(***************************************************************************)
Append_(m) ==
    /\ m \notin posted
    /\ queue' = Append(queue, m)
    /\ posted' = posted \cup {m}
    /\ Signal
    /\ UNCHANGED <<killed, filter, timed, timedOut, result, received, discarded>>

\* Mutant: prepend does not signal.
PrependSilently(m) ==
    /\ m \notin posted
    /\ queue' = <<m>> \o queue
    /\ posted' = posted \cup {m}
    /\ UNCHANGED <<killed, waitVars, result, received, discarded>>

Prepend(m) ==
    /\ m \notin posted
    /\ queue' = <<m>> \o queue
    /\ posted' = posted \cup {m}
    /\ Signal
    /\ UNCHANGED <<killed, filter, timed, timedOut, result, received, discarded>>

Kill ==
    /\ killed' = TRUE
    /\ Broadcast
    /\ UNCHANGED <<queue, filter, timed, timedOut, result, posted, received, discarded>>

(***************************************************************************)
(* removeIf deletes every message the predicate selects and keeps the      *)
(* others in their order: f lists the kept positions in increasing order.  *)
(***************************************************************************)
Kept(D) == {i \in 1..Len(queue) : queue[i] \notin D}

RemoveIf(D) ==
    /\ \E f \in [1..Cardinality(Kept(D)) -> Kept(D)] :
          /\ \A i, j \in DOMAIN f : i < j => f[i] < f[j]
          /\ queue' = [i \in 1..Cardinality(Kept(D)) |-> queue[f[i]]]
    /\ discarded' = discarded \cup {queue[i] : i \in {j \in 1..Len(queue) : queue[j] \in D}}
    /\ UNCHANGED <<killed, waitVars, result, posted, received>>

-----------------------------------------------------------------------------
(***************************************************************************)
(* Consumers.                                                              *)
(***************************************************************************)
Matches(F) == {i \in 1..Len(queue) : queue[i] \in F}

\* Mutant: the slot of the message is cleared, not closed.
WithHole(i) == [queue EXCEPT ![i] = "null"]

\* What is left of the queue when the message at position i is taken out.
Without(i) == [j \in 1..(Len(queue) - 1) |-> IF j < i THEN queue[j] ELSE queue[j + 1]]

\* Mutant: the message stays in the queue.
PeekAt(c, i) ==
    /\ queue' = queue
    /\ received' = [received EXCEPT ![c] = @ \cup {queue[i]}]
    /\ result' = [result EXCEPT ![c] = "Received"]

TakeAt(c, i) ==
    /\ queue' = Without(i)
    /\ received' = [received EXCEPT ![c] = @ \cup {queue[i]}]
    /\ result' = [result EXCEPT ![c] = "Received"]

Return(c, r) ==
    /\ result' = [result EXCEPT ![c] = r]
    /\ UNCHANGED <<queue, received>>

\* The loop of waitForMessageFilteredWithTimeout and what follows it, run with
\* the mutex held, for filter F, deadline flag t and timedOut flag out.
Evaluate(c, F, t, out) ==
    \/ /\ killed
       /\ Return(c, "Terminated")
       /\ phase' = [phase EXCEPT ![c] = "idle"]
    \/ /\ ~killed /\ out
       /\ Return(c, "Timeout")
       /\ phase' = [phase EXCEPT ![c] = "idle"]
    \/ /\ ~killed /\ ~out
       /\ \E i \in Matches(F) :
             /\ \A j \in Matches(F) : i <= j
             /\ TakeAt(c, i)
       /\ phase' = [phase EXCEPT ![c] = "idle"]
    \/ /\ ~killed /\ ~out /\ Matches(F) = {}
       /\ UNCHANGED <<queue, received, result>>
       /\ phase' = [phase EXCEPT ![c] = "blocked"]
    \/ \* timedWait finds absoluteTime in the past and returns at once.
       /\ ~killed /\ ~out /\ Matches(F) = {} /\ t
       /\ Return(c, "Timeout")
       /\ phase' = [phase EXCEPT ![c] = "idle"]

WaitForMessage(c, F, t) ==
    /\ phase[c] = "idle"
    /\ filter' = [filter EXCEPT ![c] = F]
    /\ timed' = [timed EXCEPT ![c] = t]
    /\ timedOut' = [timedOut EXCEPT ![c] = FALSE]
    /\ Evaluate(c, F, t, FALSE)
    /\ UNCHANGED <<killed, posted, discarded>>

\* Mutant: "if" for "while": a wakeup with nothing to take ends the wait.
ReacquireOnce(c) ==
    /\ phase[c] = "woken"
    /\ \/ Evaluate(c, filter[c], timed[c], timedOut[c]) /\ phase'[c] = "idle"
       \/ ~killed /\ Matches(filter[c]) = {} /\ Return(c, "Timeout") /\ phase' = [phase EXCEPT ![c] = "idle"]
    /\ UNCHANGED <<killed, filter, timed, timedOut, posted, discarded>>

Reacquire(c) ==
    /\ phase[c] = "woken"
    /\ Evaluate(c, filter[c], timed[c], timedOut[c])
    /\ UNCHANGED <<killed, filter, timed, timedOut, posted, discarded>>

TryGetMessage(c) ==
    /\ phase[c] = "idle"
    /\ ~killed
    /\ queue # <<>>
    /\ TakeAt(c, 1)
    /\ UNCHANGED <<killed, waitVars, posted, discarded>>

Next ==
    \/ \E m \in Messages : Append_(m) \/ Prepend(m)
    \/ Kill
    \/ RemoveIf(Doomed)
    \/ \E c \in Consumers :
          \/ \E F \in Predicates, t \in BOOLEAN : WaitForMessage(c, F, t)
          \/ Reacquire(c)
          \/ TryGetMessage(c)
          \/ SpuriousWakeup(c)
          \/ DeadlinePasses(c)

(***************************************************************************)
(* A thread that is runnable gets the mutex eventually.  Nothing says that *)
(* anyone posts, kills or calls wait, nor that a deadline passes.          *)
(***************************************************************************)
Fairness == \A c \in Consumers : WF_vars(Reacquire(c))

Spec == Init /\ [][Next]_vars /\ Fairness

-----------------------------------------------------------------------------
(***************************************************************************)
(* Properties.                                                             *)
(***************************************************************************)
\* No lost wakeup (append, prepend and kill signal with the mutex held): when
\* a consumer is blocked although its filter selects a queued message, or
\* although the queue was killed, another consumer has been woken and has still
\* to look at the queue.  With one consumer no such state exists at all.
NoLostWakeup ==
    \A c \in Blocked :
        killed \/ Matches(filter[c]) # {} =>
            ~killed /\ \E d \in Consumers : phase[d] = "woken" /\ ~timedOut[d]

InQueue == {queue[i] : i \in 1..Len(queue)}
Taken == UNION {received[c] : c \in Consumers}

\* The queue owns what it was given until exactly one consumer gets it or
\* removeIf deletes it: nothing is lost, delivered twice, or deleted after it
\* was handed out (the PassOwnPtr comment at the head of the class).
ExactlyOnce ==
    /\ posted = InQueue \cup Taken \cup discarded
    /\ InQueue \cap Taken = {}
    /\ InQueue \cap discarded = {}
    /\ Taken \cap discarded = {}
    /\ \A i, j \in 1..Len(queue) : queue[i] = queue[j] => i = j
    /\ \A c, d \in Consumers : c # d => received[c] \cap received[d] = {}

\* kill() stops delivery at once: no message leaves the queue afterwards, not
\* even to a consumer that a signal woke before the kill.
NothingAfterKill == [][killed => received' = received]_vars

\* A wait with an infinite absoluteTime never reports Timeout (the assertion in
\* waitForMessage, MessageQueue.h:123), in spite of timeouts of earlier waits.
InfiniteWaitNeverTimesOut ==
    \A c \in Consumers : phase[c] = "woken" /\ timedOut[c] => timed[c]

-----------------------------------------------------------------------------
(***************************************************************************)
(* What the queue promises, with m_condition abstracted away.              *)
(***************************************************************************)
Promise == INSTANCE BlockingMailbox
               WITH waiting <- [c \in Consumers |-> phase[c] # "idle"]

\* The queue implements the mailbox: a consumer that waits is answered with the
\* first message its filter accepts, in the order of the queue, and never waits
\* forever while there is one.  The wakeups of m_condition do not show.
ImplementsMailbox == Promise!Spec

\* The safety part of that, without the fairness.
MailboxSafety == Promise!Init /\ [][Promise!Next]_(Promise!vars)

=============================================================================
