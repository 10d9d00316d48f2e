------------------------------ MODULE Inventory ------------------------------
(***************************************************************************)
(* The hosts and ports tables (internal/sqlite, migrations/001) and the    *)
(* one writer of the process: a scan, which learns the id of a host from   *)
(* its upsert and saves ports under that id later on, and the removal of   *)
(* hosts, by this agent or by another one that shares the file.            *)
(*                                                                         *)
(* A port row keeps the address it was probed at (of), which the table     *)
(* does not: it is there to tell whose port the row really is.             *)
(***************************************************************************)
EXTENDS Integers, FiniteSets

CONSTANTS
    IPs,          \* addresses, as numbers in the order ORDER BY ip_address gives
    Probes,       \* what a sweep may report: records [protocol, number]
    MaxChanges    \* bound on the writes

ASSUME IPsAssumption == IPs \subseteq Nat
ASSUME ProbesAssumption == Probes \subseteq [protocol : {"tcp", "udp"}, number : Nat \ {0}]
ASSUME ChangesAssumption == MaxChanges \in Nat

VARIABLES
    hosts,     \* hosts[ip]: the id of the row of ip, or Absent
    ports,     \* rows of ports, one for each host, protocol and number
    nextId,    \* what AUTOINCREMENT hands out next
    held,      \* held[ip]: the id the scan of ip works with
    changes    \* writes so far

inventory == <<hosts, ports, nextId, held, changes>>

Absent == 0
States == {"open", "closed"}
PortRows == [host : Nat \ {0}, protocol : {"tcp", "udp"}, number : Nat \ {0}, state : States, of : IPs]

HostRows == {ip \in IPs : hosts[ip] # Absent}
PortsOf(id) == {p \in ports : p.host = id}

(* The place of ip in S, in the order ORDER BY ip_address gives.           *)
Rank(S, ip) == Cardinality({i \in S : i <= ip})

InventoryInit ==
    /\ hosts = [ip \in IPs |-> Absent]
    /\ ports = {}
    /\ nextId = 1
    /\ held = [ip \in IPs |-> Absent]
    /\ changes = 0

Written == changes < MaxChanges /\ changes' = changes + 1

(* INTEGER PRIMARY KEY alone hands out the largest id in use plus one.     *)
NewIdReused(ip) ==       \* mutant: a schema without AUTOINCREMENT
    IF hosts[ip] # Absent THEN hosts[ip]
    ELSE CHOOSE n \in 1..nextId : /\ \A i \in IPs : hosts[i] < n
                                  /\ n = 1 \/ \E i \in IPs : hosts[i] = n - 1

NewId(ip) == IF hosts[ip] = Absent THEN nextId ELSE hosts[ip]

(* INSERT ... ON CONFLICT (ip_address) DO UPDATE ... RETURNING id.         *)
UpsertHost(ip) ==
    /\ Written
    /\ hosts' = [hosts EXCEPT ![ip] = NewId(ip)]
    /\ nextId' = IF hosts[ip] = Absent THEN nextId + 1 ELSE nextId
    /\ held' = [held EXCEPT ![ip] = NewId(ip)]
    /\ UNCHANGED ports

SameKey(p, q) == p.host = q.host /\ p.protocol = q.protocol /\ p.number = q.number

(* A port under the id the scan holds: refused by the foreign key if that  *)
(* row has gone, and otherwise the one row of (host, port, protocol), with *)
(* the state found last. Only udp is recorded as closed.                   *)
UpsertPort(ip, probe, state) ==
    /\ Written
    /\ held[ip] # Absent
    /\ state = "closed" => probe.protocol = "udp"
    /\ \E i \in IPs : hosts[i] = held[ip]
    /\ LET row == [host |-> held[ip], protocol |-> probe.protocol, number |-> probe.number,
                   state |-> state, of |-> ip]
       IN ports' = {p \in ports : ~SameKey(p, row)} \cup {row}
    /\ UNCHANGED <<hosts, nextId, held>>

(* DELETE FROM hosts WHERE id = ?, which cascades to the ports.            *)
DeleteHost(ip) ==
    /\ Written
    /\ hosts[ip] # Absent
    /\ hosts' = [hosts EXCEPT ![ip] = Absent]
    /\ ports' = ports \ PortsOf(hosts[ip])
    /\ UNCHANGED <<nextId, held>>

InventoryNext ==
    \E ip \in IPs :
       \/ UpsertHost(ip)
       \/ DeleteHost(ip)
       \/ \E probe \in Probes, state \in States : UpsertPort(ip, probe, state)

InventorySpec == InventoryInit /\ [][InventoryNext]_inventory

-----------------------------------------------------------------------------
(* Type invariant of the tables.                                           *)
InventoryTypeOK ==
    /\ hosts \in [IPs -> Nat]
    /\ held \in [IPs -> Nat]
    /\ ports \subseteq PortRows
    /\ nextId \in Nat \ {0}
    /\ changes \in 0..MaxChanges
    /\ \A ip \in IPs : hosts[ip] < nextId /\ held[ip] < nextId

(* A port row hangs on the row of the host it was probed at, whatever was  *)
(* deleted and inserted between the upsert that gave the scan its id       *)
(* (scanner.go:257) and the save of the port (scanner.go:360).             *)
PortsOnTheirHost == \A p \in ports : hosts[p.of] = p.host
=============================================================================
