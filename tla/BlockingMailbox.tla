--------------------------- MODULE BlockingMailbox ---------------------------
(***************************************************************************)
(* What WTF::MessageQueue promises its users, without mutex or condition   *)
(* variable: a queue in which a waiting consumer is eventually given the   *)
(* first message it asks for, or told that the queue was killed.           *)
(***************************************************************************)
EXTENDS Naturals, Sequences, FiniteSets

CONSTANTS Messages, Consumers, Predicates, Doomed

VARIABLES queue, killed, waiting, filter, timed, result, posted, received, discarded

vars == <<queue, killed, waiting, filter, timed, result, posted, received, discarded>>

Init ==
    /\ queue = <<>>
    /\ killed = FALSE
    /\ waiting = [c \in Consumers |-> FALSE]
    /\ filter = [c \in Consumers |-> {}]
    /\ timed = [c \in Consumers |-> FALSE]
    /\ result = [c \in Consumers |-> "None"]
    /\ posted = {}
    /\ received = [c \in Consumers |-> {}]
    /\ discarded = {}

Post(m) ==
    /\ m \notin posted
    /\ queue' \in {Append(queue, m), <<m>> \o queue}
    /\ posted' = posted \cup {m}
    /\ UNCHANGED <<killed, waiting, filter, timed, result, received, discarded>>

Kill ==
    /\ killed' = TRUE
    /\ UNCHANGED <<queue, waiting, filter, timed, result, posted, received, discarded>>

\* The messages outside D stay, in their order: at maps each new position to
\* the old one.
Discard(D) ==
    /\ \E at \in [1..Len(queue') -> 1..Len(queue)] :
          /\ \A i, j \in 1..Len(queue') : i < j => at[i] < at[j]
          /\ \A i \in 1..Len(queue') : queue'[i] = queue[at[i]]
          /\ \A k \in 1..Len(queue) : queue[k] \notin D <=> \E i \in 1..Len(queue') : at[i] = k
    /\ discarded' = discarded \cup ({queue[i] : i \in 1..Len(queue)} \cap D)
    /\ UNCHANGED <<killed, waiting, filter, timed, result, posted, received>>

\* The first queued message that F accepts goes to c.
Deliver(c, F) ==
    /\ ~killed
    /\ \E i \in 1..Len(queue) :
          /\ queue[i] \in F
          /\ \A j \in 1..(i - 1) : queue[j] \notin F
          /\ queue' = SubSeq(queue, 1, i - 1) \o SubSeq(queue, i + 1, Len(queue))
          /\ received' = [received EXCEPT ![c] = @ \cup {queue[i]}]
    /\ result' = [result EXCEPT ![c] = "Received"]

Terminated(c) ==
    /\ killed
    /\ result' = [result EXCEPT ![c] = "Terminated"]
    /\ UNCHANGED <<queue, received>>

Timeout(c, t) ==
    /\ t /\ ~killed
    /\ result' = [result EXCEPT ![c] = "Timeout"]
    /\ UNCHANGED <<queue, received>>

\* A call that need not wait.
Poll(c, F, t) ==
    /\ ~waiting[c]
    /\ filter' = [filter EXCEPT ![c] = F]
    /\ timed' = [timed EXCEPT ![c] = t]
    /\ Deliver(c, F) \/ Terminated(c) \/ Timeout(c, t)
    /\ UNCHANGED <<killed, waiting, posted, discarded>>

TryGet(c) ==
    /\ ~waiting[c]
    /\ Deliver(c, Messages)
    /\ UNCHANGED <<killed, waiting, filter, timed, posted, discarded>>

Wait(c, F, t) ==
    /\ ~waiting[c] /\ ~killed
    /\ \A i \in 1..Len(queue) : queue[i] \notin F
    /\ waiting' = [waiting EXCEPT ![c] = TRUE]
    /\ filter' = [filter EXCEPT ![c] = F]
    /\ timed' = [timed EXCEPT ![c] = t]
    /\ UNCHANGED <<queue, killed, result, posted, received, discarded>>

Finish(c) ==
    /\ waiting[c]
    /\ waiting' = [waiting EXCEPT ![c] = FALSE]
    /\ UNCHANGED <<killed, filter, timed, posted, discarded>>

Answer(c) == Finish(c) /\ (Deliver(c, filter[c]) \/ Terminated(c))

Expire(c) == Finish(c) /\ Timeout(c, timed[c])

Next ==
    \/ \E m \in Messages : Post(m)
    \/ Kill
    \/ Discard(Doomed)
    \/ \E c \in Consumers :
          \/ \E F \in Predicates, t \in BOOLEAN : Poll(c, F, t) \/ Wait(c, F, t)
          \/ TryGet(c) \/ Answer(c) \/ Expire(c)

Spec == Init /\ [][Next]_vars /\ \A c \in Consumers : WF_vars(Answer(c))

=============================================================================
