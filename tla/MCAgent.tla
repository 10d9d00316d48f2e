------------------------------ MODULE MCAgent ------------------------------
(***************************************************************************)
(* Instances of Agent for TLC: a subnet scanned often, one scanned seldom, *)
(* and addresses that answer in one of them or in both.                    *)
(***************************************************************************)
EXTENDS Agent

CONSTANTS lan, guest, h1, h2

MCBoth == {lan, guest}

(* No hosts: runs about time only.                                         *)
MCNoHosts == [s \in Subnets |-> {}]
MCHosts == [s \in Subnets |-> IF s = lan THEN {h1} ELSE {h1, h2}]

MCClose == [s \in Subnets |-> IF s = lan THEN 2 ELSE 3]
MCShort == [s \in Subnets |-> 1]
MCUneven == [s \in Subnets |-> IF s = lan THEN 1 ELSE 3]
=============================================================================
