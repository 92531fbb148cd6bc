--------------------------- MODULE ConditionVariable ---------------------------
(***************************************************************************)
(* What a condition variable promises to a monitor, without semaphores, a  *)
(* gate or counters: a signal is for one of the threads that wait, or for  *)
(* all of them, and none of these is for a thread that begins to wait      *)
(* later.  A thread goes on with a signal or after its deadline; without   *)
(* either only when a thread whose deadline passed took the signal that    *)
(* might have been its own.                                                *)
(***************************************************************************)
EXTENDS Naturals, FiniteSets

CONSTANTS Consumers, Posters

VARIABLES
    waiting,    \* the threads that wait
    limited,    \* those of them that have a deadline
    expired,    \* those of them whose deadline has passed
    signal,     \* what a poster has begun to signal: "one", "all" or "none"
    owed,       \* how many of those waiting are still to go on for a signal
    spare       \* how many signals were taken by threads that had expired

vars == <<waiting, limited, expired, signal, owed, spare>>

Init ==
    /\ waiting = {} /\ limited = {} /\ expired = {}
    /\ signal = [p \in Posters |-> "none"]
    /\ owed = 0 /\ spare = 0

Quiet == \A p \in Posters : signal[p] = "none"

\* Between two signals, and not before all that the last one was for went on.
Enter(c) ==
    /\ c \notin waiting /\ Quiet /\ owed = 0
    /\ waiting' = waiting \cup {c}
    /\ limited' \in {limited, limited \cup {c}}
    /\ UNCHANGED <<expired, signal, owed, spare>>

Expire(c) ==
    /\ c \in limited
    /\ expired' = expired \cup {c}
    /\ UNCHANGED <<waiting, limited, signal, owed, spare>>

Leave(c) ==
    /\ c \in waiting
    /\ waiting' = waiting \ {c} /\ limited' = limited \ {c} /\ expired' = expired \ {c}
    /\ UNCHANGED signal

\* c goes on for a signal, perhaps although its deadline has passed ...
Wake(c) ==
    /\ Leave(c)
    /\ owed > 0 /\ owed' = owed - 1
    /\ spare' = IF c \in expired THEN spare + 1 ELSE spare

\* ... or because it has, when no signal is left for it.
GiveUp(c) ==
    /\ Leave(c)
    /\ owed = 0 /\ owed' = owed
    /\ IF c \in expired THEN spare' = spare ELSE spare > 0 /\ spare' = spare - 1

Begin(p, k) ==
    /\ Quiet
    /\ signal' = [signal EXCEPT ![p] = k]
    /\ UNCHANGED <<waiting, limited, expired, owed, spare>>

\* A signal is lost only on a condition that nobody waits for.
Signal(p) ==
    /\ signal[p] # "none"
    /\ owed' = IF signal[p] = "one" /\ owed < Cardinality(waiting)
               THEN owed + 1
               ELSE Cardinality(waiting)
    /\ signal' = [signal EXCEPT ![p] = "none"]
    /\ UNCHANGED <<waiting, limited, expired, spare>>

Next ==
    \/ \E c \in Consumers : Enter(c) \/ Expire(c) \/ Wake(c) \/ GiveUp(c)
    \/ \E p \in Posters : Begin(p, "one") \/ Begin(p, "all") \/ Signal(p)

Spec == Init /\ [][Next]_vars

=============================================================================
