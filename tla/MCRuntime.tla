----------------------------- MODULE MCRuntime -----------------------------
(***************************************************************************)
(* The instance of Runtime for TLC: two events, enough for two goroutines  *)
(* of each sink to compete for its socket, its mutex and the exit, with a  *)
(* request in flight.                                                      *)
(***************************************************************************)
EXTENDS Runtime
=============================================================================
