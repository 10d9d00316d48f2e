------------------------------- MODULE MCAdmin -------------------------------
(***************************************************************************)
(* Instances of Admin for TLC: two ports, one of them udp, whose row may   *)
(* turn from open to closed, and an int of two bits and a sign, so that    *)
(* offset + limit can wrap.                                                *)
(***************************************************************************)
EXTENDS Admin

MCTwo == {1, 2}
MCProbes == {[protocol |-> "tcp", number |-> 80], [protocol |-> "udp", number |-> 53]}
=============================================================================
