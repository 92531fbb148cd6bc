------------------------- MODULE MCWindowsCondition -------------------------
(***************************************************************************)
(* The instance of WindowsCondition for TLC: two threads consume with and  *)
(* without deadline, one posts and kills, and m_waitersGone is normalised  *)
(* at 2.                                                                   *)
(***************************************************************************)
EXTENDS WindowsCondition

=============================================================================
