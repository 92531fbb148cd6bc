------------------------- MODULE SerialTransactions -------------------------
(***************************************************************************)
(* What the page may rely on in SQLTransactions on one file, without the   *)
(* threads, the coordinator, the handles and SQLite: a transaction runs    *)
(* when no other is running that it conflicts with, its changes are all in *)
(* the file or none, nothing else is written between its beginning and its *)
(* commit, it is answered once at most, and with the truth.                *)
(***************************************************************************)

CONSTANTS Transactions, ReadOnly

VARIABLES
    phase,      \* how far each is
    unfinished, \* those with a statement that has not been executed
    open,       \* those the file has open
    committed   \* those the file has the changes of

vars == <<phase, unfinished, open, committed>>

Running == {"active", "succeeded", "failed"}

Conflict(t, u) == t # u /\ ~({t, u} \subseteq ReadOnly)

\* What is open and conflicts with t was given up, and will not be committed.
Isolated(t) == \A u \in open : Conflict(t, u) => phase[u] = "over"

Init ==
    /\ phase = [t \in Transactions |-> "uncreated"]
    /\ unfinished = {} /\ open = {} /\ committed = {}

\* From now on phase[t] is p, and it is the turn of those in G.
Go(t, p, G) ==
    /\ \A u \in G : phase[u] = "waiting"
    /\ phase' = [u \in Transactions |->
                   IF u \in G THEN "active" ELSE IF u = t THEN p ELSE phase[u]]
    /\ \A u \in G, v \in Transactions : Conflict(u, v) => phase'[v] \notin Running

\* Only the statements of t are added or executed.
Work(t) == unfinished' \ {t} = unfinished \ {t}

Create(t) ==
    /\ phase[t] = "uncreated"
    /\ Go(t, "waiting", {})
    /\ UNCHANGED <<unfinished, open, committed>>

Admit(t) ==
    /\ phase[t] = "waiting"
    /\ \E G \in SUBSET Transactions : Go(t, "waiting", G)
    /\ UNCHANGED <<unfinished, open, committed>>

Begin(t) ==
    /\ phase[t] = "active" /\ t \notin open
    /\ Isolated(t)
    /\ open' = open \cup {t}
    /\ UNCHANGED <<phase, unfinished, committed>>

\* Statements are executed; one that fails may roll t back.
Run(t) ==
    /\ phase[t] = "active"
    /\ Work(t)
    /\ open' \in {open, open \ {t}}
    /\ UNCHANGED <<phase, committed>>

\* An error, which is now due to be reported: t is not in the file, nor ever will be.
Fail(t) ==
    /\ phase[t] = "active" /\ t \notin committed
    /\ Work(t)
    /\ open' \in {open, open \ {t}}
    /\ Go(t, "failed", {})
    /\ UNCHANGED committed

\* Everything t did is in the file: success is due to be reported, or t is over.
Commit(t) ==
    /\ phase[t] = "active" /\ t \in open
    /\ Isolated(t)
    /\ Work(t) /\ t \notin unfinished'
    /\ open' = open \ {t}
    /\ committed' = committed \cup {t}
    /\ Go(t, "succeeded", {}) \/ \E G \in SUBSET Transactions : Go(t, "over", G)

\* t is over, after its answer or without one.
End(t) ==
    /\ phase[t] \in Running \cup {"waiting"}
    /\ Work(t) /\ (t \in committed => t \notin unfinished')
    /\ open' \in {open, open \ {t}}
    /\ \E G \in SUBSET Transactions : Go(t, "over", G)
    /\ UNCHANGED committed

\* The file is closed under transactions that are not committed.
RollBack ==
    /\ open' \subseteq open
    /\ UNCHANGED <<phase, unfinished, committed>>

Next ==
    \/ \E t \in Transactions :
          Create(t) \/ Admit(t) \/ Begin(t) \/ Run(t) \/ Fail(t) \/ Commit(t) \/ End(t)
    \/ RollBack

Spec == Init /\ [][Next]_vars

=============================================================================
