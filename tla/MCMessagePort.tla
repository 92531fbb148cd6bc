--------------------------- MODULE MCMessagePort ---------------------------
(***************************************************************************)
(* Instances of MessagePort for TLC: a channel between a document and a    *)
(* worker that may go away.                                                *)
(***************************************************************************)
EXTENDS MessagePort

=============================================================================
