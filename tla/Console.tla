------------------------------- MODULE Console -------------------------------
(***************************************************************************)
(* The terminal console (cmd/console/tui/tui.go): one Update loop over     *)
(* keys and messages, and the load commands it issues. Each command runs   *)
(* in a goroutine of its own, reads the stores one query after another     *)
(* while the agent writes to the same file, and answers when it is ready:  *)
(* answers come in any order.                                              *)
(***************************************************************************)
EXTENDS Inventory, Sequences

CONSTANTS
    Commands,   \* load commands that can be out at once (a bound)
    None        \* no host selected

ASSUME NoneAssumption == None \notin IPs \cup [ip : IPs, id : Nat]

VARIABLES
    running,    \* the program has not quit
    current,    \* Model.current, the view
    loading,    \* Model.loading
    err,        \* Model.err is set
    hostList,   \* Model.hostList: rows [ip, id]
    hostTotal,  \* Model.hostTotal
    selected,   \* Model.selectedHost
    portList,   \* Model.portList: the addresses its rows belong to
    cursor,     \* cursor of Model.hostTable
    load        \* load[c]: what command c is doing and has read

console == <<running, current, loading, err, hostList, hostTotal, selected, portList, cursor>>
vars == <<inventory, console, load>>

Views == {"dashboard", "hosts", "detail", "scans"}
Idle == [at |-> "idle"]

(* loadAll and loadHostDetail before their first query; stale turns TRUE   *)
(* when the tables change while the command is out.                        *)
LoadAll == [at |-> "hosts", ip |-> None, id |-> Absent, rows |-> <<>>, total |-> 0,
            ports |-> {}, stale |-> FALSE]
LoadDetail(ip) == [LoadAll EXCEPT !.ip = ip]

(* HostRepo.List, ORDER BY ip_address.                                     *)
RowAt(n) == LET ip == CHOOSE ip \in HostRows : Rank(HostRows, ip) = n
            IN [ip |-> ip, id |-> hosts[ip]]

Listed == [n \in 1..Cardinality(HostRows) |-> RowAt(n)]

Init ==
    /\ InventoryInit
    /\ running = TRUE
    /\ current = "dashboard" /\ loading = TRUE /\ err = FALSE
    /\ hostList = <<>> /\ hostTotal = 0
    /\ selected = None /\ portList = {} /\ cursor = 0
    /\ \E c \in Commands : load = [[d \in Commands |-> Idle] EXCEPT ![c] = LoadAll]

Issue(command) ==
    \E c \in Commands :
       /\ load[c] = Idle
       /\ load' = [load EXCEPT ![c] = command]

-----------------------------------------------------------------------------
(* Keys.                                                                   *)
Quit == running /\ running' = FALSE /\ UNCHANGED <<inventory, current, loading, err,
            hostList, hostTotal, selected, portList, cursor, load>>

SwitchTo(view) ==
    /\ running /\ current # view
    /\ current' = view
    /\ loading' = TRUE
    /\ Issue(LoadAll)
    /\ UNCHANGED <<inventory, running, err, hostList, hostTotal, selected, portList, cursor>>

Refresh ==
    /\ running
    /\ loading' = TRUE
    /\ Issue(IF current = "detail" /\ selected # None THEN LoadDetail(selected.ip) ELSE LoadAll)
    /\ UNCHANGED <<inventory, running, current, err, hostList, hostTotal, selected, portList, cursor>>

Enter ==
    /\ running /\ current = "hosts"
    /\ hostList # <<>> /\ cursor < Len(hostList)
    /\ selected' = hostList[cursor + 1]
    /\ current' = "detail"
    /\ loading' = TRUE
    /\ Issue(LoadDetail(hostList[cursor + 1].ip))
    /\ UNCHANGED <<inventory, running, err, hostList, hostTotal, portList, cursor>>

Escape ==
    /\ running /\ current = "detail"
    /\ current' = "hosts"
    /\ UNCHANGED <<inventory, running, loading, err, hostList, hostTotal, selected, portList,
                   cursor, load>>

(* The table moves its cursor, clamped to its rows: -1 once it has none.   *)
Navigate ==
    /\ running /\ current = "hosts"
    /\ IF hostList = <<>> THEN cursor' = -1 ELSE cursor' \in 0..(Len(hostList) - 1)
    /\ UNCHANGED <<inventory, running, current, loading, err, hostList, hostTotal, selected,
                   portList, load>>

-----------------------------------------------------------------------------
RebuildTablesInPlace == cursor' = cursor   \* mutant: rows set, cursor kept

(* Messages. rebuildTables builds the tables anew, at their first row.     *)
RebuildTables == cursor' = 0

Resize ==
    /\ running
    /\ RebuildTables
    /\ UNCHANGED <<inventory, running, current, loading, err, hostList, hostTotal, selected,
                   portList, load>>

ShowAnswerTotalLater(l) ==    \* mutant: the total is left to the dashboard's own load
    /\ hostList' = l.rows
    /\ hostTotal' = IF current = "dashboard" THEN l.total ELSE hostTotal
    /\ portList' = IF l.ports # {} THEN l.ports ELSE portList
    /\ RebuildTables

ShowAnswer(l) ==
    /\ hostList' = l.rows
    /\ hostTotal' = l.total
    /\ portList' = IF l.ports # {} THEN l.ports ELSE portList
    /\ RebuildTables

DataLoadedKeepsSpinner(c) ==     \* mutant: the error return comes before loading is cleared
    /\ running
    /\ load[c].at \in {"answer", "failed"}
    /\ IF load[c].at = "failed"
       THEN err' = TRUE /\ UNCHANGED <<loading, hostList, hostTotal, portList, cursor>>
       ELSE ShowAnswer(load[c]) /\ loading' = FALSE /\ UNCHANGED err
    /\ load' = [load EXCEPT ![c] = Idle]
    /\ UNCHANGED <<inventory, running, current, selected>>

(* case dataLoadedMsg.                                                     *)
DataLoaded(c) ==
    /\ running
    /\ load[c].at \in {"answer", "failed"}
    /\ loading' = FALSE
    /\ IF load[c].at = "failed"
       THEN err' = TRUE /\ UNCHANGED <<hostList, hostTotal, portList, cursor>>
       ELSE ShowAnswer(load[c]) /\ UNCHANGED err
    /\ load' = [load EXCEPT ![c] = Idle]
    /\ UNCHANGED <<inventory, running, current, selected>>

-----------------------------------------------------------------------------
(* The commands: hosts.List, hosts.Count, scans.List and, for a detail,    *)
(* hosts.GetByIP and ports.ListByHost of the id that gave.                 *)
Goto(c, place) == load' = [load EXCEPT ![c].at = place]

QueryList(c) ==
    load[c].at = "hosts" /\ load' = [load EXCEPT ![c].at = "count", ![c].rows = Listed]

QueryCount(c) ==
    /\ load[c].at = "count"
    /\ load' = [load EXCEPT ![c].at = "scans", ![c].total = Cardinality(HostRows)]

QueryScans(c) ==
    load[c].at = "scans" /\ Goto(c, IF load[c].ip = None THEN "answer" ELSE "get")

(* ErrNotFound is an error like any other.                                 *)
QueryHost(c) ==
    /\ load[c].at = "get"
    /\ IF load[c].ip \in HostRows
       THEN load' = [load EXCEPT ![c].at = "ports", ![c].id = hosts[load[c].ip]]
       ELSE Goto(c, "failed")

QueryPorts(c) ==
    /\ load[c].at = "ports"
    /\ load' = [load EXCEPT ![c].at = "answer", ![c].ports = {p.of : p \in PortsOf(load[c].id)}]

QueryFails(c) ==
    load[c].at \in {"hosts", "count", "scans", "get", "ports"} /\ Goto(c, "failed")

Query(c) ==
    /\ \/ QueryList(c) \/ QueryCount(c) \/ QueryScans(c)
       \/ QueryHost(c) \/ QueryPorts(c) \/ QueryFails(c)
    /\ UNCHANGED <<inventory, console>>

(* The agent writes to the file.                                           *)
AgentWrites ==
    /\ InventoryNext
    /\ load' = [c \in Commands |-> IF load[c] = Idle THEN Idle ELSE [load[c] EXCEPT !.stale = TRUE]]
    /\ UNCHANGED console

Next ==
    \/ Quit \/ Refresh \/ Enter \/ Escape \/ Navigate \/ Resize
    \/ \E view \in {"dashboard", "hosts", "scans"} : SwitchTo(view)
    \/ \E c \in Commands : DataLoaded(c) \/ Query(c)
    \/ AgentWrites

Spec == Init /\ [][Next]_vars

(* The goroutine of each command runs, and the Update loop takes answers.  *)
Fairness == \A c \in Commands : WF_vars(DataLoaded(c)) /\ WF_vars(Query(c))

FairSpec == Spec /\ Fairness

-----------------------------------------------------------------------------
(* Type invariant; the detail view has a host to show (renderHostDetail).  *)
TypeOK ==
    /\ InventoryTypeOK
    /\ running \in BOOLEAN /\ loading \in BOOLEAN /\ err \in BOOLEAN
    /\ current \in Views
    /\ hostList \in Seq([ip : IPs, id : Nat]) /\ hostTotal \in Nat
    /\ selected \in [ip : IPs, id : Nat] \cup {None}
    /\ portList \subseteq IPs
    /\ cursor \in -1..Len(hostList)
    /\ \A c \in Commands : load[c].at \in {"idle", "hosts", "count", "scans", "get", "ports",
                                            "answer", "failed"}
    /\ current = "detail" => selected # None

(* Enter never indexes hostList out of range (tui.go:298-300 checks only   *)
(* the upper end, and the cursor of an empty table is -1).                 *)
CursorOnARow == hostList # <<>> => cursor \in 0..(Len(hostList) - 1)

(* An answer no write overlapped leaves the console with the inventory as  *)
(* it is: the list, and the total of the dashboard card with it.           *)
CurrentIfFresh ==
    \A c \in Commands :
       DataLoaded(c) /\ load[c].at = "answer" /\ ~load[c].stale
          => hostList' = Listed /\ hostTotal' = Len(hostList')

AnswerIsCurrent == [][CurrentIfFresh]_vars

(* Whatever is pressed, the screen comes out of "Loading" again.           *)
LoadingEnds == loading ~> (~loading \/ ~running)
=============================================================================
