----------------------------- MODULE MCWatchdog -----------------------------
(***************************************************************************)
(* The instance of Watchdog for TLC: the tables of the peer and of this    *)
(* agent are empty or hold two hosts, a cycle whose Count fails reports    *)
(* none or three, and every fault may happen.                              *)
(***************************************************************************)
EXTENDS Watchdog

MCCounts == {0, 2}
MCCycleCounts == {0, 3}
MCFaults == {"wedge", "crash", "badcycle", "badcount", "loss"}
=============================================================================
