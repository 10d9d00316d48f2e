----------------------------- MODULE MCConsole -----------------------------
(***************************************************************************)
(* The instance of Console for TLC: two addresses with one port each, and  *)
(* two load commands out at once, enough for an answer to overtake         *)
(* another.                                                                *)
(***************************************************************************)
EXTENDS Console

MCProbes == {[protocol |-> "tcp", number |-> 80]}
=============================================================================
