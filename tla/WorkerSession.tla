---------------------------- MODULE WorkerSession ----------------------------
(***************************************************************************)
(* What a page and its dedicated worker promise each other, without tasks, *)
(* a proxy or counts: the worker takes the page's messages one by one, the *)
(* Worker object receives all that the worker posts, in order, until       *)
(* somebody asks for termination; and an object that is collected before   *)
(* that has missed nothing: nothing was on its way to it or to the worker, *)
(* and the worker does nothing more.                                       *)
(***************************************************************************)
EXTENDS Naturals

VARIABLES
    sent,       \* how many messages the page has posted
    handled,    \* how many of them the worker has taken up
    posted,     \* how many messages and exceptions the worker has posted
    due,        \* those of them that are on their way
    received,   \* those of them that the object received
    object,     \* whether the Worker object exists
    failed,     \* whether the worker's script could not be loaded
    asked,      \* whether the worker is to be terminated
    closing,    \* whether it closed itself
    resting     \* whether it does nothing more

vars == <<sent, handled, posted, due, received, object, failed, asked, closing, resting>>

Init ==
    /\ sent = 0 /\ handled = 0 /\ posted = 0
    /\ due = {} /\ received = {}
    /\ object = TRUE /\ failed = FALSE /\ asked = FALSE /\ closing = FALSE /\ resting = FALSE

PagePosts ==
    /\ object /\ ~asked
    /\ sent' = sent + 1
    /\ UNCHANGED <<handled, posted, due, received, object, failed, asked, closing>>

WorkerTakes ==
    /\ ~resting /\ ~closing /\ ~failed
    /\ handled < sent /\ handled' = handled + 1
    /\ UNCHANGED <<sent, posted, due, received, object, failed, asked, closing>>

WorkerPosts ==
    /\ ~resting /\ ~failed
    /\ posted' = posted + 1
    /\ due' = due \cup {posted'}
    /\ UNCHANGED <<sent, handled, received, object, failed, asked, closing>>

\* The first on its way arrives; it may be dropped only once somebody asked
\* for termination.
Arrives ==
    /\ \E n \in due :
          /\ \A m \in due : n <= m
          /\ due' = due \ {n}
          /\ received' = received \cup {n} \/ (asked /\ received' = received)
    /\ UNCHANGED <<sent, handled, posted, object, failed, asked, closing>>

ScriptFails ==
    /\ handled = 0 /\ posted = 0
    /\ failed' = TRUE
    /\ UNCHANGED <<sent, handled, posted, due, received, object, asked, closing>>

Ask ==
    /\ object
    /\ asked' = TRUE
    /\ UNCHANGED <<sent, handled, posted, due, received, object, failed, closing>>

WorkerCloses ==
    /\ ~resting /\ ~failed
    /\ closing' = TRUE
    /\ UNCHANGED <<sent, handled, posted, due, received, object, failed, asked>>

\* The page does not notice that its object is gone.
Collect ==
    /\ object /\ object' = FALSE /\ asked' = TRUE
    /\ asked \/ (due = {} /\ resting' /\ (handled = sent \/ closing \/ failed))
    /\ UNCHANGED <<sent, handled, posted, due, received, failed, closing>>

Rest == UNCHANGED <<sent, handled, posted, due, received, object, failed, asked, closing>>

Next ==
    /\ resting' \in {resting, TRUE}
    /\ \/ PagePosts \/ WorkerTakes \/ WorkerPosts \/ Arrives
       \/ ScriptFails \/ Ask \/ WorkerCloses \/ Collect \/ Rest

Spec == Init /\ [][Next]_vars

=============================================================================
