---------------------------- MODULE MCLocalStorage ----------------------------
(***************************************************************************)
(* Instances of LocalStorage for TLC: two keys, batches of one item.       *)
(***************************************************************************)
EXTENDS LocalStorage

===============================================================================
