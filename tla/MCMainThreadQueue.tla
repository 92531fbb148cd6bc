-------------------------- MODULE MCMainThreadQueue --------------------------
(***************************************************************************)
(* Instances of MainThreadQueue for TLC: four calls, two of them waited    *)
(* for, a nested run loop, two pauses.                                     *)
(***************************************************************************)
EXTENDS MainThreadQueue

=============================================================================
