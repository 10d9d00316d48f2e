---------------------------- MODULE ScanContract ----------------------------
(***************************************************************************)
(* What one call of Scanner.Scan promises its caller, the agent's cycle:   *)
(* while it runs, hosts appear, and open ports of hosts that have appeared;*)
(* it returns once, with the scan record either left as it was or finished *)
(* with exactly the number of hosts that appeared; afterwards it touches   *)
(* nothing, unless it was cancelled: then the one port row that was being  *)
(* written may still come.                                                 *)
(***************************************************************************)
EXTENDS Integers

CONSTANTS
    Addresses,
    PortKeys,     \* triples of address, protocol, port
    Size(_)       \* number of elements of a finite set

VARIABLES
    running,      \* Scan has not returned
    cancelled,    \* its context is cancelled
    hosts, ports, \* keys of the rows it wrote
    call,         \* the port row being written, as a set of at most one
    total         \* hosts_found of the finished record
vars == <<running, cancelled, hosts, ports, call, total>>

Unfinished == -1

Init ==
    /\ running = TRUE
    /\ cancelled \in BOOLEAN
    /\ hosts = {} /\ ports = {} /\ call = {}
    /\ total = Unfinished

Cancel ==
    /\ cancelled' = TRUE
    /\ UNCHANGED <<running, hosts, ports, call, total>>

RecordHost(a) ==
    /\ running
    /\ hosts' = hosts \cup {a}
    /\ UNCHANGED <<running, cancelled, ports, call, total>>

BeginPort(r) ==
    /\ running /\ ~cancelled
    /\ r[1] \in hosts
    /\ call = {}
    /\ call' = {r}
    /\ UNCHANGED <<running, cancelled, hosts, ports, total>>

(* The call ends, with its row written or without.                         *)
EndPort(r) ==
    /\ call = {r}
    /\ call' = {}
    /\ ports' \in {ports, ports \cup {r}}
    /\ UNCHANGED <<running, cancelled, hosts, total>>

Return ==
    /\ running
    /\ call = {} \/ cancelled
    /\ running' = FALSE
    /\ total' \in {Unfinished, Size(hosts)}
    /\ UNCHANGED <<cancelled, hosts, ports, call>>

Next == \/ Cancel \/ Return
        \/ \E a \in Addresses : RecordHost(a)
        \/ \E r \in PortKeys : BeginPort(r) \/ EndPort(r)

Spec == Init /\ [][Next]_vars
=============================================================================
