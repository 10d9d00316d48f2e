----------------------------- MODULE MCScanner -----------------------------
(***************************************************************************)
(* Instances of Scanner for TLC, with the rules of Classifier.  Port 23    *)
(* answers the liveness probe, 445, 3389 and 80 are deep ports it has not  *)
(* found, 53 is a UDP port: a host is a windows-host with 445 or 3389, a   *)
(* windows-server with 445 and 80, a dns-server with 53 and without 445,   *)
(* and blank otherwise, so that each stage counts.                         *)
(***************************************************************************)
EXTENDS Scanner, Classifier

MCProbe == {23}
MCNone == <<>>
MCDeep == <<23, 445>>  \* one of them found by the liveness probe
MCDeepNew == <<445, 80>>
MCUDP == <<53>>
MCTable ==
    [tcp, udp \in SUBSET {23, 445, 3389, 80, 53} |->
        LET type == DeviceType("", "", tcp, udp) IN IF type = "" THEN Blank ELSE type]
MCClassify(tcp, udp) == MCTable[tcp, udp]
MCTypes == {MCTable[p] : p \in DOMAIN MCTable} \ {Blank}
=============================================================================
