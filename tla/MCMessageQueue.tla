--------------------------- MODULE MCMessageQueue ---------------------------
(***************************************************************************)
(* An instance of MessageQueue for TLC: one consumer, as every thread of   *)
(* the code that owns a queue is, with a filter.                           *)
(***************************************************************************)
EXTENDS MessageQueue

CONSTANTS m1, m2, m3

AnyMessage == {m1, m2, m3}
\* The default mode of a worker's run loop, and one nested mode.
MCPredicates == {AnyMessage, {m2}}
MCDoomed == {m1}

=============================================================================
