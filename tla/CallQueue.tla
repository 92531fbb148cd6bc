------------------------------ MODULE CallQueue ------------------------------
(***************************************************************************)
(* What callOnMainThread promises, without the run loop's events, the      *)
(* dispatch loops and the pauses: one thread that runs what is posted,     *)
(* each call once and in the order of posting.  A call may run the next    *)
(* ones before it returns (a nested run loop), and who waits for a call    *)
(* goes on when it has returned.                                           *)
(***************************************************************************)
EXTENDS Naturals, Sequences

CONSTANTS
    Calls, SyncCalls,
    SpuriousWakeups   \* whether who waits may go on before

VARIABLES
    queue,            \* what is posted, in order
    running,          \* what runs, the innermost last
    ran, cancelled,
    answered          \* the waiting calls that have returned to the caller

vars == <<queue, running, ran, cancelled, answered>>

Elements(s) == {s[i] : i \in 1..Len(s)}

Init ==
    /\ queue = <<>> /\ running = <<>>
    /\ ran = {} /\ cancelled = {} /\ answered = {}

Post(c) ==
    /\ c \notin Elements(queue) \cup Elements(running) \cup ran \cup cancelled \cup answered
    /\ queue' = Append(queue, c)
    /\ UNCHANGED <<running, ran, cancelled, answered>>

Start ==
    /\ queue # <<>>
    /\ queue' = Tail(queue)
    /\ running' = Append(running, Head(queue))
    /\ UNCHANGED <<ran, cancelled, answered>>

Return ==
    /\ running # <<>>
    /\ running' = SubSeq(running, 1, Len(running) - 1)
    /\ ran' = ran \cup {running[Len(running)]}
    /\ UNCHANGED <<queue, cancelled, answered>>

\* Only a call that nobody waits for, and that has not started.
Cancel(c) ==
    /\ c \notin SyncCalls
    /\ \E i \in 1..Len(queue) :
          /\ queue[i] = c
          /\ queue' = SubSeq(queue, 1, i - 1) \o SubSeq(queue, i + 1, Len(queue))
    /\ cancelled' = cancelled \cup {c}
    /\ UNCHANGED <<running, ran, answered>>

Answer(c) ==
    /\ c \in SyncCalls \ answered
    /\ c \in ran \/ (SpuriousWakeups /\ c \in Elements(queue) \cup Elements(running))
    /\ answered' = answered \cup {c}
    /\ UNCHANGED <<queue, running, ran, cancelled>>

Next ==
    \/ \E c \in Calls : Post(c) \/ Cancel(c) \/ Answer(c)
    \/ Start \/ Return

Spec == Init /\ [][Next]_vars

=============================================================================
