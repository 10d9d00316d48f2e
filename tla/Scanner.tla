------------------------------ MODULE Scanner ------------------------------
(***************************************************************************)
(* One call of Scanner.Scan (internal/scanner/scanner.go) on one subnet:   *)
(* the loop over the usable addresses, one goroutine per address, one      *)
(* goroutine per deep TCP port and per UDP port of a live address, the     *)
(* counting semaphore they all share, and the rows they write.             *)
(*                                                                         *)
(* The network is a nondeterministic choice made at each dial.  A dial     *)
(* ends in every case: each one carries a timeout.  The stores are the     *)
(* rows this scan has written.  A store call begins when it gets the one   *)
(* connection of the writer pool, which database/sql refuses under a       *)
(* cancelled context, and ends in a step of its own: a call that the       *)
(* cancellation finds under way may write its row or not.                  *)
(***************************************************************************)
EXTENDS Integers, Sequences, FiniteSets

CONSTANTS
    NumAddrs,        \* number of addresses usableIPs returned
    Workers,         \* capacity of the semaphore channel
    ProbePorts,      \* ports of the liveness probe
    DeepPorts,       \* sequence of deep TCP ports, <<>> when deep probing is off
    UDPPorts,        \* sequence of UDP ports
    DeviceTypes,     \* non-blank results of classify
    Classify(_, _),  \* classify over (open TCP ports, open UDP ports)
    DBFails          \* TRUE if a store call may fail for its own reasons

Blank == "blank"      \* classify found nothing: device_type is ""
Absent == "absent"    \* no row

Addr == 1..NumAddrs
Ports == ProbePorts \cup {DeepPorts[i] : i \in DOMAIN DeepPorts}
                    \cup {UDPPorts[i] : i \in DOMAIN UDPPorts}
Kinds == {"tcp", "udp"}
PortList(k) == IF k = "tcp" THEN DeepPorts ELSE UDPPorts

(* The per-port goroutines: address, deepScan or udpScan, index in its list. *)
Tasks == (Addr \X {"tcp"} \X DOMAIN DeepPorts)
           \cup (Addr \X {"udp"} \X DOMAIN UDPPorts)
Port(t) == PortList(t[2])[t[3]]

PortRows == Addr \X Kinds \X Ports    \* keys of table ports
PortRow(t) == <<t[1], t[2], Port(t)>>

ASSUME CountsAssumption == NumAddrs \in Nat /\ Workers \in Nat \ {0}
ASSUME PortsAssumption ==
    /\ IsFiniteSet(ProbePorts)
    /\ DeepPorts \in Seq(Ports) /\ UDPPorts \in Seq(Ports)
ASSUME ClassifyAssumption ==
    /\ Blank \notin DeviceTypes /\ Absent \notin DeviceTypes
    /\ \A t, u \in SUBSET Ports : Classify(t, u) \in DeviceTypes \cup {Blank}
ASSUME DBFailsAssumption == DBFails \in BOOLEAN

VARIABLES
    ctxDone,   \* the context passed to Scan is cancelled
    sem,       \* tokens in the channel s.sem
    main,      \* where Scan itself is
    next,      \* the address its loop is at
    host,      \* where the goroutine of each address is
    idx,       \* loop index of that goroutine's deepScan or udpScan
    open,      \* openTCP and openUDP of each address
    task,      \* where each per-port goroutine is
    found,     \* the variable out of each deepScan and udpScan
    count,     \* live hosts counted
    row,       \* device type of the host rows this scan wrote
    saved,     \* state of the port rows this scan wrote
    record,    \* the row of table scans
    writer     \* who has the connection of the writer pool

scan == <<main, next, count>>
goroutine == <<host, idx, open>>
tasks == <<task, found>>
db == <<row, saved, record, writer>>
vars == <<ctxDone, sem, scan, goroutine, tasks, db>>

MainPC == {"create", "check", "send", "wait", "finish", "returned"}
HostPC == {"none", "probe", "upsert", "live", "tcp", "udp", "classify",
           "release", "wgdone", "done"}    \* "tcp" is deepScan, "udp" is udpScan
TaskPC == {"none", "dial", "save", "saveclosed", "release", "wgdone", "done"}

-----------------------------------------------------------------------------
(* Who makes store calls: Scan, the goroutine of a host, that of a port.   *)
Nobody == <<0, "none", 0>>
ScanGo == <<0, "scan", 0>>
HostGo(a) == <<a, "host", 0>>
Goroutines == {ScanGo} \cup {HostGo(a) : a \in Addr} \cup Tasks

(* A store call of g: it begins under a live context with the connection   *)
(* free. One that has begun may take effect, and may fail; one that a      *)
(* cancellation interrupts may even do both. One that has not fails when   *)
(* the context is cancelled, be it while it waits for the connection.      *)
BeginCallDetached(g) ==               \* mutant: context.Background()
    /\ writer = Nobody
    /\ writer' = g
    /\ UNCHANGED <<ctxDone, sem, scan, goroutine, tasks, row, saved, record>>
BeginCall(g) ==
    /\ ~ctxDone
    /\ writer = Nobody
    /\ writer' = g
    /\ UNCHANGED <<ctxDone, sem, scan, goroutine, tasks, row, saved, record>>
Writes(g) == writer = g
Fails(g) == ctxDone \/ (writer = g /\ DBFails)
EndCall(g) == writer' = IF writer = g THEN Nobody ELSE writer

(* Room in the channel s.sem.                                              *)
SlotFreeOffByOne == sem <= Workers    \* mutant
SlotFree == sem < Workers

(* Goroutines of one sync.WaitGroup that have not called Done yet.         *)
PendingAddInside(a, k) ==             \* mutant: wg.Add inside the goroutine
    {t \in Tasks : /\ t[1] = a /\ t[2] = k
                   /\ task[t] \notin {"none", "dial", "done"}}
Pending(a, k) == {t \in Tasks : /\ t[1] = a /\ t[2] = k
                                /\ task[t] \notin {"none", "done"}}
HostsPendingDoneFirst ==              \* mutant: wg.Done before the receive
    {a \in Addr : host[a] \notin {"none", "release", "wgdone", "done"}}
HostsPending == {a \in Addr : host[a] \notin {"none", "done"}}

(* Goroutines that hold a token of the semaphore.                          *)
HostHolds(a) == host[a] \notin {"none", "wgdone", "done"}
TaskHolds(t) == task[t] \notin {"none", "wgdone", "done"}
HostHolders == {a \in Addr : HostHolds(a)}
TaskHolders == {t \in Tasks : TaskHolds(t)}

-----------------------------------------------------------------------------
Init ==
    /\ ctxDone \in BOOLEAN
    /\ sem = 0
    /\ main = "create"
    /\ next = 1
    /\ host = [a \in Addr |-> "none"]
    /\ idx = [a \in Addr |-> 1]
    /\ open = [a \in Addr |-> [tcp |-> {}, udp |-> {}]]
    /\ task = [t \in Tasks |-> "none"]
    /\ found = [s \in Addr \X Kinds |-> {}]
    /\ count = 0
    /\ row = [a \in Addr |-> Absent]
    /\ saved = [r \in PortRows |-> Absent]
    /\ record = [state |-> Absent, hosts |-> 0]
    /\ writer = Nobody

(* SIGINT, SIGTERM: the context is cancelled, at any moment.               *)
Cancel ==
    /\ ~ctxDone
    /\ ctxDone' = TRUE
    /\ UNCHANGED <<sem, scan, goroutine, tasks, db>>

-----------------------------------------------------------------------------
(* The body of Scan.                                                       *)

CreateRecord ==
    /\ main = "create"
    /\ \/ /\ Writes(ScanGo)
          /\ record' = [state |-> "open", hosts |-> 0]
          /\ main' = "check" \/ (ctxDone /\ main' = "returned")
       \/ Fails(ScanGo) /\ record' = record /\ main' = "returned"
    /\ EndCall(ScanGo)
    /\ UNCHANGED <<ctxDone, sem, next, count, goroutine, tasks, row, saved>>

LoopHead ==
    /\ main = "check"
    /\ main' = IF next > NumAddrs \/ ctxDone THEN "wait" ELSE "send"
    /\ UNCHANGED <<ctxDone, sem, next, count, goroutine, tasks, db>>

(* The send on s.sem does not select on the context.                       *)
Spawn ==
    /\ main = "send"
    /\ SlotFree
    /\ sem' = sem + 1
    /\ host' = [host EXCEPT ![next] = "probe"]
    /\ next' = next + 1
    /\ main' = "check"
    /\ UNCHANGED <<ctxDone, count, idx, open, tasks, db>>

WaitHosts ==
    /\ main = "wait"
    /\ HostsPending = {}
    /\ main' = "finish"
    /\ UNCHANGED <<ctxDone, sem, next, count, goroutine, tasks, db>>

FinishRecord ==
    /\ main = "finish"
    /\ \/ Writes(ScanGo) /\ record' = [state |-> "finished", hosts |-> count]
       \/ Fails(ScanGo) /\ record' = record
    /\ main' = "returned"
    /\ EndCall(ScanGo)
    /\ UNCHANGED <<ctxDone, sem, next, count, goroutine, tasks, row, saved>>

ScanCalls == main \in {"create", "finish"} /\ BeginCall(ScanGo)

Main == ScanCalls \/ CreateRecord \/ LoopHead \/ Spawn \/ WaitHosts \/ FinishRecord

-----------------------------------------------------------------------------
(* The goroutine of address a.                                             *)

Probe(a) ==
    /\ host[a] = "probe"
    /\ \/ \E p \in ProbePorts :
             /\ open' = [open EXCEPT ![a] = [tcp |-> {p}, udp |-> {}]]
             /\ host' = [host EXCEPT ![a] = "upsert"]
       \/ open' = open /\ host' = [host EXCEPT ![a] = "release"]
    /\ UNCHANGED <<ctxDone, sem, scan, idx, tasks, db>>

(* First write of the host: device_type is still blank.                    *)
UpsertHost(a) ==
    /\ host[a] = "upsert"
    /\ \/ /\ Writes(HostGo(a))
          /\ row' = [row EXCEPT ![a] = Blank]
          /\ \/ host' = [host EXCEPT ![a] = "live"]
             \/ ctxDone /\ host' = [host EXCEPT ![a] = "release"]
       \/ /\ Fails(HostGo(a))
          /\ row' = row
          /\ host' = [host EXCEPT ![a] = "release"]
    /\ EndCall(HostGo(a))
    /\ UNCHANGED <<ctxDone, sem, scan, idx, open, tasks, saved, record>>

LiveRows(a) == {<<a, "tcp", p>> : p \in open[a].tcp}
UpsertLivePort(a) ==
    /\ host[a] = "live"
    /\ \/ Writes(HostGo(a)) /\ saved' = [r \in PortRows |->
                     IF r \in LiveRows(a) THEN "open" ELSE saved[r]]
       \/ Fails(HostGo(a)) /\ saved' = saved
    /\ host' = [host EXCEPT ![a] = "tcp"]
    /\ EndCall(HostGo(a))
    /\ UNCHANGED <<ctxDone, sem, scan, idx, open, tasks, row, record>>

(* The loops of deepScan (k = "tcp") and udpScan (k = "udp").              *)
LoopsOver(a, k) == host[a] = k /\ idx[a] \in DOMAIN PortList(k)
KnownOpen(a, k) == k = "tcp" /\ PortList(k)[idx[a]] \in open[a].tcp

SkipKnown(a, k) ==
    /\ LoopsOver(a, k)
    /\ KnownOpen(a, k)
    /\ idx' = [idx EXCEPT ![a] = @ + 1]
    /\ UNCHANGED <<ctxDone, sem, scan, host, open, tasks, db>>

StartTask(a, k) ==
    /\ LoopsOver(a, k)
    /\ ~KnownOpen(a, k)
    /\ SlotFree
    /\ sem' = sem + 1
    /\ task' = [task EXCEPT ![<<a, k, idx[a]>>] = "dial"]
    /\ idx' = [idx EXCEPT ![a] = @ + 1]
    /\ UNCHANGED <<ctxDone, scan, host, open, found, db>>

(* deepScan and udpScan return the ports to the caller.                    *)
ReturnPorts(a, k, ports) ==
    /\ open' = [open EXCEPT ![a] = IF k = "tcp"
                     THEN [tcp |-> open[a].tcp \cup ports, udp |-> open[a].udp]
                     ELSE [tcp |-> open[a].tcp, udp |-> ports]]
    /\ host' = [host EXCEPT ![a] = IF k = "tcp" THEN "udp" ELSE "classify"]
    /\ idx' = [idx EXCEPT ![a] = 1]
    /\ UNCHANGED <<ctxDone, sem, scan, tasks, db>>

(* The early return on a cancelled context waits for nobody and reads out  *)
(* without its mutex: with goroutines still appending to it the caller may *)
(* get any ports.                                                          *)
AbandonTasksNever(a, k) == FALSE      \* mutant: a send without a select
AbandonTasks(a, k) ==
    /\ LoopsOver(a, k)
    /\ ~KnownOpen(a, k)
    /\ ctxDone
    /\ \E ports \in SUBSET {PortList(k)[i] : i \in DOMAIN PortList(k)} :
          /\ Pending(a, k) = {} => ports = found[<<a, k>>]
          /\ ReturnPorts(a, k, ports)

JoinTasks(a, k) ==
    /\ host[a] = k
    /\ idx[a] > Len(PortList(k))
    /\ Pending(a, k) = {}
    /\ ReturnPorts(a, k, found[<<a, k>>])

ScanPorts(a, k) == SkipKnown(a, k) \/ StartTask(a, k) \/ AbandonTasks(a, k)
                     \/ JoinTasks(a, k)

(* The second write, with the device type, and the count.                  *)
TypeFound(a) == Classify(open[a].tcp, open[a].udp)
ClassifyHostReturnsEarly(a) ==        \* mutant: return when the write fails
    /\ host[a] = "classify"
    /\ \/ TypeFound(a) = Blank /\ row' = row /\ count' = count + 1
       \/ /\ TypeFound(a) # Blank
          /\ \/ /\ Writes(HostGo(a))
                /\ row' = [row EXCEPT ![a] = TypeFound(a)]
                /\ count' = count + 1
             \/ Fails(HostGo(a)) /\ row' = row /\ count' = count
    /\ EndCall(HostGo(a))
    /\ host' = [host EXCEPT ![a] = "release"]
    /\ UNCHANGED <<ctxDone, sem, main, next, idx, open, tasks, saved, record>>
ClassifyHost(a) ==
    /\ host[a] = "classify"
    /\ \/ TypeFound(a) = Blank /\ row' = row
       \/ /\ TypeFound(a) # Blank
          /\ \/ Writes(HostGo(a)) /\ row' = [row EXCEPT ![a] = TypeFound(a)]
             \/ Fails(HostGo(a)) /\ row' = row
    /\ EndCall(HostGo(a))
    /\ count' = count + 1
    /\ host' = [host EXCEPT ![a] = "release"]
    /\ UNCHANGED <<ctxDone, sem, main, next, idx, open, tasks, saved, record>>

(* The deferred function: the slot first, then wg.Done.                    *)
ReleaseHostIfFound(a) ==              \* mutant: defer after the early return
    /\ host[a] = "release"
    /\ sem' = IF row[a] = Absent THEN sem ELSE sem - 1
    /\ host' = [host EXCEPT ![a] = "wgdone"]
    /\ UNCHANGED <<ctxDone, scan, idx, open, tasks, db>>
ReleaseHost(a) ==
    /\ host[a] = "release"
    /\ sem' = sem - 1
    /\ host' = [host EXCEPT ![a] = "wgdone"]
    /\ UNCHANGED <<ctxDone, scan, idx, open, tasks, db>>

HostDone(a) ==
    /\ host[a] = "wgdone"
    /\ host' = [host EXCEPT ![a] = "done"]
    /\ UNCHANGED <<ctxDone, sem, scan, idx, open, tasks, db>>

HostCalls(a) ==
    /\ host[a] \in {"upsert", "live", "classify"}
    /\ host[a] = "classify" => TypeFound(a) # Blank
    /\ BeginCall(HostGo(a))

Host(a) == \/ HostCalls(a) \/ Probe(a) \/ UpsertHost(a) \/ UpsertLivePort(a)
           \/ \E k \in Kinds : ScanPorts(a, k)
           \/ ClassifyHost(a) \/ ReleaseHost(a) \/ HostDone(a)

-----------------------------------------------------------------------------
(* The goroutine of one port: dial (and banner), write the row, append.    *)

Dial(t) ==
    /\ task[t] = "dial"
    /\ \E r \in {"save", "saveclosed", "release"} :
          /\ r = "saveclosed" => t[2] = "udp"
          /\ task' = [task EXCEPT ![t] = r]
    /\ UNCHANGED <<ctxDone, sem, scan, goroutine, found, db>>

PortCalls(t) == task[t] \in {"save", "saveclosed"} /\ BeginCall(t)

SavePort(t) ==
    /\ task[t] \in {"save", "saveclosed"}
    /\ LET state == IF task[t] = "save" THEN "open" ELSE "closed"
       IN  \/ Writes(t) /\ saved' = [saved EXCEPT ![PortRow(t)] = state]
           \/ Fails(t) /\ saved' = saved
    /\ EndCall(t)
    /\ found' = IF task[t] = "save"
                THEN [found EXCEPT ![<<t[1], t[2]>>] = @ \cup {Port(t)}]
                ELSE found
    /\ task' = [task EXCEPT ![t] = "release"]
    /\ UNCHANGED <<ctxDone, sem, scan, goroutine, row, record>>

ReleaseTaskLeaks(t) ==                \* mutant: no receive from s.sem
    /\ task[t] = "release"
    /\ task' = [task EXCEPT ![t] = "wgdone"]
    /\ UNCHANGED <<ctxDone, sem, scan, goroutine, found, db>>
ReleaseTask(t) ==
    /\ task[t] = "release"
    /\ sem' = sem - 1
    /\ task' = [task EXCEPT ![t] = "wgdone"]
    /\ UNCHANGED <<ctxDone, scan, goroutine, found, db>>

TaskDone(t) ==
    /\ task[t] = "wgdone"
    /\ task' = [task EXCEPT ![t] = "done"]
    /\ UNCHANGED <<ctxDone, sem, scan, goroutine, found, db>>

Task(t) == Dial(t) \/ PortCalls(t) \/ SavePort(t) \/ ReleaseTask(t) \/ TaskDone(t)

-----------------------------------------------------------------------------
Next == \/ Cancel \/ Main
        \/ \E a \in Addr : Host(a)
        \/ \E t \in Tasks : Task(t)

Spec == Init /\ [][Next]_vars

(* Goroutines are scheduled and dials time out; nobody has to cancel.      *)
Fairness == /\ WF_vars(Main)
            /\ \A a \in Addr : WF_vars(Host(a))
            /\ \A t \in Tasks : WF_vars(Task(t))

FairSpec == Spec /\ Fairness

-----------------------------------------------------------------------------
(* Type invariant: the ranges of the state of Scan and its goroutines.     *)
TypeOK ==
    /\ ctxDone \in BOOLEAN
    /\ sem \in 0..Workers
    /\ main \in MainPC
    /\ next \in 1..(NumAddrs + 1)
    /\ host \in [Addr -> HostPC]
    /\ idx \in [Addr -> Nat \ {0}]
    /\ open \in [Addr -> [tcp : SUBSET Ports, udp : SUBSET Ports]]
    /\ task \in [Tasks -> TaskPC]
    /\ found \in [Addr \X Kinds -> SUBSET Ports]
    /\ count \in Nat
    /\ row \in [Addr -> DeviceTypes \cup {Blank, Absent}]
    /\ saved \in [PortRows -> {Absent, "open", "closed"}]
    /\ record \in [state : {Absent, "open", "finished"}, hosts : Nat]
    /\ writer \in {Nobody} \cup Goroutines

(* A worker slot is never lost and never given back twice: the tokens in   *)
(* s.sem are exactly the goroutines between their send and their deferred  *)
(* receive, whichever return they leave by.                                *)
SlotsAccounted == sem = Cardinality(HostHolders) + Cardinality(TaskHolders)

(* "workers" is the cap on probe goroutines across all addresses and all   *)
(* three probe stages together.                                            *)
ProbesCapped == Cardinality(HostHolders) + Cardinality(TaskHolders) <= Workers

(* When Scan returns without having been cancelled it leaves nothing       *)
(* behind: every slot is free, no goroutine is still probing, and no       *)
(* address was left out.                                                   *)
ReturnsQuiescent ==
    main = "returned" /\ ~ctxDone /\ record.state # Absent
        => /\ sem = 0
           /\ \A a \in Addr : host[a] = "done"
           /\ \A t \in Tasks : task[t] \in {"none", "done"}

(* Port goroutines that deepScan or udpScan abandoned on cancellation may  *)
(* run on after Scan has returned. The one whose store call had begun by   *)
(* then may still write its row; no other does, and no row of a host or of *)
(* the scan is touched.                                                    *)
NoLateWrites == [][main = "returned" =>
                      /\ UNCHANGED <<row, record>>
                      /\ writer' # writer => writer \in Tasks /\ writer' = Nobody
                      /\ saved' # saved => /\ ctxDone /\ writer \in Tasks /\ writer' = Nobody
                                           /\ \A r \in PortRows \ {PortRow(writer)} :
                                                 saved'[r] = saved[r]]_vars

(* hosts_found of a finished scan is the number of hosts it recorded.      *)
RecordMatchesRows ==
    record.state = "finished"
        => record.hosts = Cardinality({a \in Addr : row[a] # Absent})

(* The device type of a host takes in all of its ports once its goroutine  *)
(* has ended: no open port was appended or written too late for classify   *)
(* to see. Only a failed second write leaves the blank of the first.       *)
TypeFromAllPorts ==
    \A a \in Addr :
        host[a] = "done" /\ row[a] # Absent /\ ~ctxDone
            => LET tcp == open[a].tcp \cup found[<<a, "tcp">>]
                   udp == found[<<a, "udp">>]
               IN  /\ row[a] = Classify(tcp, udp) \/ (DBFails /\ row[a] = Blank)
                   /\ \A p \in Ports : /\ saved[<<a, "tcp", p>>] = "open" => p \in tcp
                                       /\ saved[<<a, "udp", p>>] = "open" => p \in udp

(* Everyone waiting on everyone: the semaphore is full and each holder is  *)
(* itself waiting for a slot, to start one of its port goroutines.         *)
WantsSlot(a) == \E k \in Kinds : LoopsOver(a, k) /\ ~KnownOpen(a, k)
Gridlock == /\ sem = Workers
            /\ TaskHolders = {}
            /\ \A a \in HostHolders : WantsSlot(a)
NoGridlock == ~Gridlock

(* Nothing but that keeps a sweep from ending, be it that nobody answers,  *)
(* store calls fail or the context is cancelled.                           *)
EndsOrGridlocks ==
    <>(main = "returned" \/ (Gridlock /\ Cardinality(HostHolders) = Workers))

(* Scan ends, the context cancelled or not.                                *)
Terminates == <>(main = "returned")

(* Shutdown gets through: once the context is cancelled Scan returns, even *)
(* out of a gridlock, although its own send on s.sem ignores the context.  *)
CancelReturns == ctxDone ~> main = "returned"

-----------------------------------------------------------------------------
(* Scan implements its contract. The port row that is being written.       *)
RowInCall ==
    IF writer[2] \in Kinds THEN {PortRow(writer)}
    ELSE UNION {LiveRows(a) : a \in {b \in Addr : writer = HostGo(b) /\ host[b] = "live"}}
Contract == INSTANCE ScanContract WITH
    Addresses <- Addr,
    PortKeys <- PortRows,
    Size <- Cardinality,
    running <- main # "returned",
    cancelled <- ctxDone,
    hosts <- {a \in Addr : row[a] # Absent},
    ports <- {r \in PortRows : saved[r] # Absent},
    call <- RowInCall,
    total <- IF record.state = "finished" THEN record.hosts ELSE -1

(* Refinement: each step of Scan is a step of the contract or stutters.    *)
ImplementsContract == Contract!Spec
=============================================================================
