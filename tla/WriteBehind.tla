----------------------------- MODULE WriteBehind -----------------------------
(***************************************************************************)
(* What an area that is written behind promises to a page, without batches *)
(* of changes, flags or a second thread: the disk goes, for every key,     *)
(* through values the page gave it, in the page's order, passing over some *)
(* that were replaced; and while the process may be killed, and once the   *)
(* area is closed, nothing is left to be written.                          *)
(***************************************************************************)
EXTENDS Naturals, Sequences

CONSTANTS Keys, Values

VARIABLES
    memory,     \* what the page reads
    disk,       \* what is read after a restart
    late,       \* for each key the values it is still to have on the disk
    lost,       \* the keys whose last value is not to be expected there
    loaded,     \* whether memory was filled from the disk
    forbidden,  \* whether the process must not be killed
    closed

vars == <<memory, disk, late, lost, loaded, forbidden, closed>>

\* What k will have on the disk when nothing is late.
Final(k) == IF late[k] = <<>> THEN disk[k] ELSE late[k][Len(late[k])]

Settled == \A k \in Keys : late[k] = <<>>

\* s is what is left of t when some of its elements are taken out.
IsPart(s, t) ==
    \E place \in [1..Len(s) -> 1..Len(t)] :
        /\ \A i, j \in 1..Len(s) : i < j => place[i] < place[j]
        /\ \A i \in 1..Len(s) : s[i] = t[place[i]]

Init ==
    /\ memory \in [Keys -> Values] /\ disk \in [Keys -> Values]
    /\ late = [k \in Keys |-> <<>>] /\ lost = {}
    /\ loaded = FALSE /\ forbidden = FALSE /\ closed = FALSE

Load ==
    /\ ~loaded /\ loaded' = TRUE
    /\ \/ memory' = disk /\ lost' = lost
       \/ memory' = memory /\ lost' = Keys
    /\ UNCHANGED <<disk, late, closed>>

\* The page gives the keys of K the value v, and what they were still to have
\* may be passed over.
Change(K, v) ==
    /\ loaded
    /\ memory' = [k \in Keys |-> IF k \in K THEN v ELSE memory[k]]
    /\ \A k \in K : IsPart(late'[k], Append(late[k], v)) /\ Final(k)' = v
    /\ \A k \in Keys \ K : late'[k] = late[k]
    /\ lost' \in {lost, lost \ K}
    /\ UNCHANGED <<disk, loaded, closed>>

\* A value that another one follows need not be written; a key that drops its
\* last one is lost.
PassOver ==
    /\ \A k \in Keys : IsPart(late'[k], late[k]) /\ (k \in lost' \/ Final(k)' = Final(k))
    /\ lost \subseteq lost'
    /\ UNCHANGED <<memory, disk, loaded, closed>>

Write(K) ==
    /\ \A k \in K : late[k] # <<>>
    /\ disk' = [k \in Keys |-> IF k \in K THEN Head(late[k]) ELSE disk[k]]
    /\ late' = [k \in Keys |-> IF k \in K THEN Tail(late[k]) ELSE late[k]]
    /\ UNCHANGED <<memory, lost, loaded, closed>>

\* Nothing but whether the process may be killed.
Tell == UNCHANGED <<memory, disk, late, lost, loaded, closed>>

Close ==
    /\ Settled /\ ~forbidden
    /\ closed' = TRUE
    /\ UNCHANGED <<memory, disk, late, lost, loaded, forbidden>>

\* The process may be killed only while all is on the disk; a closed area
\* stays as it is.
Next ==
    /\ ~closed
    /\ forbidden' \in BOOLEAN /\ (Settled' \/ forbidden')
    /\ \/ Load \/ PassOver \/ Tell \/ Close
       \/ \E K \in SUBSET Keys : Write(K) \/ \E v \in Values : Change(K, v)

Spec == Init /\ [][Next]_vars

=============================================================================
