-------------------------- MODULE MCSqlTransactions --------------------------
(***************************************************************************)
(* Instances of SqlTransactions for TLC: two handles to one file, a writer *)
(* on each, and a reader.                                                  *)
(***************************************************************************)
EXTENDS SqlTransactions, TLC

CONSTANTS d1, d2, w1, w2, r1

MCDatabaseOf == (w1 :> d1) @@ (w2 :> d2) @@ (r1 :> d1)

=============================================================================
