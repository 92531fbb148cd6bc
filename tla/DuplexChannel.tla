---------------------------- MODULE DuplexChannel ----------------------------
(***************************************************************************)
(* What a message channel promises, without the ports, the mutexes and the *)
(* steps of sending and closing: two ends, each with a queue of its own    *)
(* that goes where the end goes.  Only the context that holds the end      *)
(* takes from it, in order; what is closed is not opened again, and what   *)
(* is lost does not come back.                                             *)
(***************************************************************************)
EXTENDS Naturals, Sequences

CONSTANTS Contexts, InTransit, Gone

Ends == {1, 2}
Other(e) == 3 - e

VARIABLES
    holder,           \* the context that has the end, or a message, or nobody
    open,             \* whether its holder may post
    queue,            \* the messages for it
    posted, received  \* the last posted to it and the last its holders got

vars == <<holder, open, queue, posted, received>>

Init ==
    /\ \E c \in Contexts : holder = [e \in Ends |-> c]
    /\ open = [e \in Ends |-> TRUE]
    /\ queue = [e \in Ends |-> <<>>]
    /\ posted = [e \in Ends |-> 0] /\ received = [e \in Ends |-> 0]

Post(e) ==
    /\ holder[e] \in Contexts /\ open[e]
    /\ posted' = [posted EXCEPT ![Other(e)] = @ + 1]
    /\ queue' = [queue EXCEPT ![Other(e)] = Append(@, posted[Other(e)] + 1)]
    /\ UNCHANGED <<holder, open, received>>

Receive(e) ==
    /\ holder[e] \in Contexts
    /\ queue[e] # <<>> /\ Head(queue[e]) = received[e] + 1
    /\ received' = [received EXCEPT ![e] = @ + 1]
    /\ queue' = [queue EXCEPT ![e] = Tail(@)]
    /\ UNCHANGED <<holder, open, posted>>

Move(e, h) ==
    /\ holder' = [holder EXCEPT ![e] = h]
    /\ UNCHANGED <<open, queue, posted, received>>

Send(e) == holder[e] \in Contexts /\ Move(e, InTransit)

\* A closed end does not arrive.
Arrive(e) ==
    /\ holder[e] = InTransit
    /\ \E c \in Contexts : open[e] /\ Move(e, c)

Lose(e) ==
    /\ holder[e] = InTransit /\ ~open[e]
    /\ Move(e, Gone)

\* A close of the channel reaches e, from the holder of either end; the other is
\* lost if the close was that of a message with it.
Shut(e) ==
    /\ open' = [open EXCEPT ![e] = FALSE]
    /\ \/ UNCHANGED holder
       \/ /\ holder[Other(e)] = InTransit /\ ~open[Other(e)]
          /\ holder' = [holder EXCEPT ![Other(e)] = Gone]
    /\ UNCHANGED <<queue, posted, received>>

\* A context is destroyed, with the ends it holds.
Destroy(c) ==
    /\ holder' = [e \in Ends |-> IF holder[e] = c THEN Gone ELSE holder[e]]
    /\ UNCHANGED <<open, queue, posted, received>>

Next ==
    \/ \E e \in Ends : Post(e) \/ Receive(e) \/ Send(e) \/ Arrive(e) \/ Lose(e) \/ Shut(e)
    \/ \E c \in Contexts : Destroy(c)

Spec == Init /\ [][Next]_vars

=============================================================================
