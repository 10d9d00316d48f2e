---------------------------- MODULE ConsoleProofs ----------------------------
(***************************************************************************)
(* The console, for any inventory, any number of writes and any number of  *)
(* load commands out at once, whose answers come in any order: the cursor  *)
(* stays on a row, and an answer that no write overlapped is the inventory *)
(* as it is when it is shown.                                              *)
(***************************************************************************)
EXTENDS Console, FiniteSetTheorems, SequenceTheorems, TLAPS

-----------------------------------------------------------------------------
(* The list of hosts. The places of the addresses are 1..Cardinality, each *)
(* taken once, so every row of the table is in the list, once.             *)
LEMMA RankType ==
    ASSUME NEW S, IsFiniteSet(S), NEW ip \in S, S \subseteq Nat
    PROVE  Rank(S, ip) \in 1..Cardinality(S)
<1> DEFINE T == {i \in S : i <= ip}
<1>1. T \subseteq S /\ ip \in T
  OBVIOUS
<1>2. IsFiniteSet(T) /\ Cardinality(T) <= Cardinality(S)
  BY <1>1, FS_Subset
<1>3. Cardinality(T) \in Nat /\ Cardinality(S) \in Nat
  BY <1>2, FS_CardinalityType
<1>4. Cardinality(T) # 0
  BY <1>1, <1>2, FS_EmptySet
<1> HIDE DEF T
<1>5. Cardinality(T) \in 1..Cardinality(S)
  BY <1>2, <1>3, <1>4
<1> QED BY <1>5 DEF Rank, T

LEMMA RankGrows ==
    ASSUME NEW S, IsFiniteSet(S), S \subseteq Nat, NEW i \in S, NEW j \in S, i < j
    PROVE  Rank(S, i) < Rank(S, j)
<1> DEFINE T == {k \in S : k <= i}
           U == {k \in S : k <= j}
<1>1. T \subseteq U /\ j \in U /\ j \notin T /\ U \subseteq S
  <2>1. i \in Nat /\ j \in Nat /\ \A k \in S : k \in Nat
    OBVIOUS
  <2>2. \A k \in Nat : k <= i => k <= j
    BY <2>1
  <2>3. j <= j /\ ~(j <= i)
    BY <2>1
  <2> QED BY <2>1, <2>2, <2>3
<1>2. IsFiniteSet(U)
  BY <1>1, FS_Subset
<1>3. IsFiniteSet(T) /\ Cardinality(T) <= Cardinality(U) /\ Cardinality(U) # Cardinality(T)
  BY <1>1, <1>2, FS_Subset
<1>4. Cardinality(T) \in Nat /\ Cardinality(U) \in Nat
  BY <1>2, <1>3, FS_CardinalityType
<1> HIDE DEF T, U
<1>5. Cardinality(T) < Cardinality(U)
  BY <1>3, <1>4
<1> QED BY <1>5 DEF Rank, T, U

LEMMA RankOnto ==
    ASSUME NEW S, IsFiniteSet(S), S \subseteq Nat, NEW n \in 1..Cardinality(S)
    PROVE  \E ip \in S : Rank(S, ip) = n
<1> DEFINE R == [ip \in S |-> Rank(S, ip)]
<1>1. R \in [S -> 1..Cardinality(S)]
  BY RankType
<1>2. ASSUME NEW i \in S, NEW j \in S, R[i] = R[j] PROVE i = j
  <2>1. Rank(S, i) = Rank(S, j)
    BY <1>2
  <2>2. Rank(S, i) \in 1..Cardinality(S) /\ Cardinality(S) \in Nat
    BY RankType, FS_CardinalityType
  <2>3. Rank(S, i) \in Nat
    BY <2>2
  <2>4. ~(i < j)
    <3>1. i < j => Rank(S, i) < Rank(S, j)
      BY RankGrows
    <3> QED BY <2>1, <2>3, <3>1
  <2>5. ~(j < i)
    <3>1. j < i => Rank(S, j) < Rank(S, i)
      BY RankGrows
    <3> QED BY <2>1, <2>3, <3>1
  <2>6. i \in Nat /\ j \in Nat
    OBVIOUS
  <2> QED BY <2>4, <2>5, <2>6
<1>3. R \in Injection(S, 1..Cardinality(S))
  BY <1>1, <1>2 DEF Injection, IsInjective
<1>4. Cardinality(S) \in Nat
  BY FS_CardinalityType
<1>5. IsFiniteSet(1..Cardinality(S)) /\ Cardinality(1..Cardinality(S)) = Cardinality(S)
  BY <1>4, FS_Interval
<1>6. R \in Surjection(S, 1..Cardinality(S))
  <2> HIDE DEF R
  <2> QED BY <1>3, <1>5, FS_Injection
<1> QED BY <1>6 DEF Surjection

Row == [ip : IPs, id : Nat]

LEMMA ListedType ==
    ASSUME InventoryTypeOK, IsFiniteSet(HostRows)
    PROVE  /\ Listed \in Seq(Row) /\ Len(Listed) = Cardinality(HostRows)
           /\ \A n \in 1..Len(Listed) : Listed[n].ip \in HostRows /\ Listed[n].id = hosts[Listed[n].ip]
           /\ \A i, j \in 1..Len(Listed) : i < j => Listed[i].ip < Listed[j].ip
           /\ \A ip \in HostRows : \E n \in 1..Len(Listed) : Listed[n].ip = ip
<1>1. HostRows \subseteq IPs /\ HostRows \subseteq Nat
  BY IPsAssumption DEF HostRows
<1>2. Cardinality(HostRows) \in Nat
  BY FS_CardinalityType
<1> DEFINE N == Cardinality(HostRows)
<1>3. ASSUME NEW n \in 1..N
      PROVE  /\ RowAt(n) \in Row /\ RowAt(n).ip \in HostRows
             /\ RowAt(n).id = hosts[RowAt(n).ip] /\ Rank(HostRows, RowAt(n).ip) = n
  <2> DEFINE at == CHOOSE ip \in HostRows : Rank(HostRows, ip) = n
  <2>1. \E ip \in HostRows : Rank(HostRows, ip) = n
    BY <1>1, RankOnto
  <2>2. at \in HostRows /\ Rank(HostRows, at) = n
    BY <2>1
  <2>3. RowAt(n) = [ip |-> at, id |-> hosts[at]]
    BY DEF RowAt
  <2> HIDE DEF at
  <2>4. at \in IPs /\ hosts[at] \in Nat
    BY <2>2, <1>1 DEF InventoryTypeOK
  <2> QED BY <2>2, <2>3, <2>4 DEF Row
<1>4. Listed = [n \in 1..N |-> RowAt(n)]
  BY DEF Listed
<1> HIDE DEF N
<1>5. N \in Nat
  BY <1>2 DEF N
<1>6. Listed \in Seq(Row) /\ Len(Listed) = N
  BY <1>3, <1>4, <1>5
<1>7. \A n \in 1..N : Listed[n] = RowAt(n)
  BY <1>4
<1>8. ASSUME NEW i \in 1..N, NEW j \in 1..N, i < j PROVE RowAt(i).ip < RowAt(j).ip
  <2>1. /\ RowAt(i).ip \in HostRows /\ Rank(HostRows, RowAt(i).ip) = i
        /\ RowAt(j).ip \in HostRows /\ Rank(HostRows, RowAt(j).ip) = j
    BY <1>3
  <2>2. RowAt(i).ip # RowAt(j).ip
    BY <1>8, <2>1, <1>5
  <2>3. ~(RowAt(j).ip < RowAt(i).ip)
    <3>1. RowAt(j).ip < RowAt(i).ip => j < i
      BY <1>1, <2>1, RankGrows
    <3> QED BY <1>5, <1>8, <3>1
  <2>4. RowAt(i).ip \in Nat /\ RowAt(j).ip \in Nat
    BY <1>1, <2>1
  <2> QED BY <2>2, <2>3, <2>4
<1>9. ASSUME NEW ip \in HostRows PROVE \E n \in 1..N : RowAt(n).ip = ip
  <2> DEFINE n == Rank(HostRows, ip)
  <2>1. n \in 1..N
    BY <1>1, RankType DEF N
  <2>2. RowAt(n).ip \in HostRows /\ Rank(HostRows, RowAt(n).ip) = n
    BY <1>3, <2>1
  <2>3. Rank(HostRows, ip) = n /\ n \in Nat
    BY <2>1, <1>5
  <2> HIDE DEF n
  <2>4. ~(RowAt(n).ip < ip)
    <3>1. RowAt(n).ip < ip => Rank(HostRows, RowAt(n).ip) < Rank(HostRows, ip)
      BY <1>1, <2>2, RankGrows
    <3> QED BY <2>2, <2>3, <3>1
  <2>5. ~(ip < RowAt(n).ip)
    <3>1. ip < RowAt(n).ip => Rank(HostRows, ip) < Rank(HostRows, RowAt(n).ip)
      BY <1>1, <2>2, RankGrows
    <3> QED BY <2>2, <2>3, <3>1
  <2>6. RowAt(n).ip \in Nat /\ ip \in Nat
    BY <1>1, <2>2
  <2>7. RowAt(n).ip = ip
    BY <2>4, <2>5, <2>6
  <2> QED BY <2>1, <2>7
<1>10. \A n \in 1..N : Listed[n].ip \in HostRows /\ Listed[n].id = hosts[Listed[n].ip]
  BY <1>3, <1>7
<1>11. \A i, j \in 1..N : i < j => Listed[i].ip < Listed[j].ip
  BY <1>7, <1>8
<1>12. \A ip \in HostRows : \E n \in 1..N : Listed[n].ip = ip
  BY <1>7, <1>9
<1>13. Len(Listed) = Cardinality(HostRows)
  BY <1>6 DEF N
<1> QED BY <1>6, <1>10, <1>11, <1>12, <1>13

-----------------------------------------------------------------------------
(* The tables, as the console needs them.                                  *)
LEMMA TablesStep ==
    ASSUME InventoryTypeOK, IsFiniteSet(HostRows), InventoryNext
    PROVE  InventoryTypeOK' /\ IsFiniteSet(HostRows')
<1>1. PICK ip \in IPs : UpsertHost(ip) \/ DeleteHost(ip)
                           \/ \E probe \in Probes, state \in States : UpsertPort(ip, probe, state)
  BY DEF InventoryNext
<1>2. InventoryTypeOK'
  <2> USE ChangesAssumption DEF InventoryTypeOK, Absent
  <2>1. CASE UpsertHost(ip)
    <3>1. NewId(ip) \in Nat \ {0}
      BY DEF NewId
    <3> QED BY <2>1, <3>1 DEF UpsertHost, Written, NewId
  <2>2. CASE DeleteHost(ip)
    BY <2>2 DEF DeleteHost, Written
  <2>3. CASE \E probe \in Probes, state \in States : UpsertPort(ip, probe, state)
    <3>1. PICK probe \in Probes, state \in States : UpsertPort(ip, probe, state)
      BY <2>3
    <3> DEFINE row == [host |-> held[ip], protocol |-> probe.protocol, number |-> probe.number,
                       state |-> state, of |-> ip]
    <3>2. row \in PortRows
      BY <3>1, ProbesAssumption DEF UpsertPort, PortRows
    <3>3. ports' = {p \in ports : ~SameKey(p, row)} \cup {row}
      BY <3>1 DEF UpsertPort
    <3> HIDE DEF row
    <3>4. ports' \subseteq PortRows
      BY <3>2, <3>3
    <3> QED BY <3>1, <3>4 DEF UpsertPort, Written
  <2> QED BY <1>1, <2>1, <2>2, <2>3
<1>3. \A i \in IPs \ {ip} : hosts'[i] = hosts[i]
  BY <1>1 DEF UpsertHost, DeleteHost, UpsertPort, InventoryTypeOK
<1>4. HostRows' \subseteq HostRows \cup {ip}
  BY <1>3 DEF HostRows
<1>5. IsFiniteSet(HostRows \cup {ip})
  BY FS_AddElement
<1> QED BY <1>2, <1>4, <1>5, FS_Subset

-----------------------------------------------------------------------------
(* A command that is out: what it holds, and, once it has read them, that  *)
(* its list and its count are those of the table unless it is stale.       *)
Out == [at : {"hosts", "count", "scans", "get", "ports", "answer", "failed"},
        ip : IPs \cup {None}, id : Nat, rows : Seq(Row), total : Nat,
        ports : SUBSET IPs, stale : BOOLEAN]

Exact(l) ==
    /\ l \in {Idle} \cup Out
    /\ l.at \in {"count", "scans", "get", "ports", "answer"} /\ ~l.stale => l.rows = Listed
    /\ l.at \in {"scans", "get", "ports", "answer"} /\ ~l.stale => l.total = Cardinality(HostRows)

Loads == load \in [Commands -> {Idle} \cup Out] /\ \A c \in Commands : Exact(load[c])

CInv == TypeOK /\ IsFiniteSet(HostRows) /\ Loads /\ CursorOnARow

LEMMA IdleExact == Exact(Idle)
BY DEF Exact, Idle

LEMMA LoadsExact ==
    /\ Exact(LoadAll) /\ LoadAll.at = "hosts"
    /\ \A ip \in IPs : Exact(LoadDetail(ip)) /\ LoadDetail(ip).at = "hosts"
<1>1. LoadAll \in Out /\ LoadAll.at = "hosts"
  BY DEF LoadAll, Out, Absent
<1>2. ASSUME NEW ip \in IPs PROVE LoadDetail(ip) \in Out /\ LoadDetail(ip).at = "hosts"
  BY <1>1 DEF LoadDetail, Out
<1> QED BY <1>1, <1>2 DEF Exact

(* One entry replaced, the tables as they were.                            *)
LEMMA LoadsChange ==
    ASSUME Loads, UNCHANGED inventory, NEW c \in Commands, NEW l, Exact(l),
           load' = [load EXCEPT ![c] = l]
    PROVE  Loads'
<1>1. Listed' = Listed /\ HostRows' = HostRows
  BY DEF Listed, RowAt, HostRows, inventory
<1>2. load' \in [Commands -> {Idle} \cup Out]
  BY DEF Loads, Exact
<1>3. \A d \in Commands : load'[d] = IF d = c THEN l ELSE load[d]
  BY DEF Loads
<1>4. \A d \in Commands : Exact(load'[d])
  BY <1>3 DEF Loads
<1> QED BY <1>1, <1>2, <1>4 DEF Loads, Exact

LEMMA LoadsStay == ASSUME Loads, UNCHANGED <<inventory, load>> PROVE Loads'
<1>1. Listed' = Listed /\ HostRows' = HostRows
  BY DEF Listed, RowAt, HostRows, inventory
<1> QED BY <1>1 DEF Loads, Exact

(* A query of a command reads the tables as they are at that moment.       *)
LEMMA QueryReads ==
    ASSUME CInv, NEW c \in Commands, Query(c)
    PROVE  \E l : Exact(l) /\ load' = [load EXCEPT ![c] = l]
<1> DEFINE old == load[c]
<1>1. Exact(old) /\ load \in [Commands -> {Idle} \cup Out]
  BY DEF CInv, Loads
<1>2. ASSUME old.at # "idle" PROVE old \in Out
  BY <1>1, <1>2 DEF Exact, Idle
<1>3. /\ Listed \in Seq(Row) /\ Cardinality(HostRows) \in Nat
  BY ListedType, FS_CardinalityType DEF CInv, TypeOK
<1>4. ASSUME NEW place, Goto(c, place), old \in Out, place \in {"answer", "get", "failed"},
             place # "failed" => old.at = "scans"
      PROVE  \E l : Exact(l) /\ load' = [load EXCEPT ![c] = l]
  <2>1. load' = [load EXCEPT ![c] = [old EXCEPT !.at = place]]
    BY <1>1, <1>4 DEF Goto
  <2> DEFINE l == [old EXCEPT !.at = place]
  <2>2. /\ l \in Out /\ l.at = place /\ l.rows = old.rows /\ l.total = old.total
        /\ l.stale = old.stale
    BY <1>4 DEF Out
  <2>3. Exact(l)
    <3> HIDE DEF l
    <3> QED BY <1>1, <1>4, <2>2 DEF Exact
  <2> QED BY <2>1, <2>3
<1>5. CASE QueryList(c)
  <2> DEFINE l == [old EXCEPT !.at = "count", !.rows = Listed]
  <2>1. load' = [load EXCEPT ![c] = l] /\ old.at = "hosts"
    BY <1>1, <1>5 DEF QueryList
  <2>2. l \in Out /\ l.at = "count" /\ l.rows = Listed
    BY <1>2, <1>3, <2>1 DEF Out
  <2> HIDE DEF l
  <2>3. Exact(l)
    BY <2>2 DEF Exact
  <2> QED BY <2>1, <2>3
<1>6. CASE QueryCount(c)
  <2> DEFINE l == [old EXCEPT !.at = "scans", !.total = Cardinality(HostRows)]
  <2>1. load' = [load EXCEPT ![c] = l] /\ old.at = "count"
    BY <1>1, <1>6 DEF QueryCount
  <2>2. /\ l \in Out /\ l.at = "scans" /\ l.rows = old.rows /\ l.total = Cardinality(HostRows)
        /\ l.stale = old.stale
    BY <1>2, <1>3, <2>1 DEF Out
  <2> HIDE DEF l
  <2>3. Exact(l)
    BY <1>1, <2>1, <2>2 DEF Exact
  <2> QED BY <2>1, <2>3
<1>7. CASE QueryScans(c)
  BY <1>2, <1>4, <1>7 DEF QueryScans
<1>8. CASE QueryHost(c)
  <2>1. old.at = "get" /\ old \in Out
    BY <1>2, <1>8 DEF QueryHost
  <2>2. CASE old.ip \notin HostRows
    BY <1>4, <1>8, <2>1, <2>2 DEF QueryHost
  <2>3. CASE old.ip \in HostRows
    <3> DEFINE l == [old EXCEPT !.at = "ports", !.id = hosts[old.ip]]
    <3>1. load' = [load EXCEPT ![c] = l]
      BY <1>1, <1>8, <2>3 DEF QueryHost
    <3>2. hosts[old.ip] \in Nat
      BY <2>3 DEF HostRows, CInv, TypeOK, InventoryTypeOK
    <3>3. /\ l \in Out /\ l.at = "ports" /\ l.rows = old.rows /\ l.total = old.total
          /\ l.stale = old.stale
      BY <2>1, <3>2 DEF Out
    <3> HIDE DEF l
    <3>4. Exact(l)
      BY <1>1, <2>1, <3>3 DEF Exact
    <3> QED BY <3>1, <3>4
  <2> QED BY <2>2, <2>3
<1>9. CASE QueryPorts(c)
  <2> DEFINE of == {p.of : p \in PortsOf(old.id)}
             l == [old EXCEPT !.at = "answer", !.ports = of]
  <2>1. load' = [load EXCEPT ![c] = l] /\ old.at = "ports"
    BY <1>1, <1>9 DEF QueryPorts
  <2>2. of \subseteq IPs
    BY DEF PortsOf, CInv, TypeOK, InventoryTypeOK, PortRows
  <2> HIDE DEF of
  <2>3. /\ l \in Out /\ l.at = "answer" /\ l.rows = old.rows /\ l.total = old.total
        /\ l.stale = old.stale
    BY <1>2, <2>1, <2>2 DEF Out
  <2> HIDE DEF l
  <2>4. Exact(l)
    BY <1>1, <2>1, <2>3 DEF Exact
  <2> QED BY <2>1, <2>4
<1>10. CASE QueryFails(c)
  BY <1>2, <1>4, <1>10 DEF QueryFails
<1> QED BY <1>5, <1>6, <1>7, <1>8, <1>9, <1>10 DEF Query

(* A write makes every command that is out stale.                          *)
LEMMA WritesLoads == ASSUME Loads, AgentWrites PROVE Loads'
<1>1. load' = [c \in Commands |-> IF load[c] = Idle THEN Idle ELSE [load[c] EXCEPT !.stale = TRUE]]
  BY DEF AgentWrites
<1>2. ASSUME NEW c \in Commands
      PROVE  load'[c] = Idle \/ (load'[c] \in Out /\ load'[c].stale)
  <2>1. CASE load[c] = Idle
    BY <1>1, <2>1
  <2>2. CASE load[c] # Idle
    <3>1. load[c] \in Out
      BY <2>2 DEF Loads
    <3>2. load'[c] = [load[c] EXCEPT !.stale = TRUE]
      BY <1>1, <2>2
    <3> QED BY <3>1, <3>2 DEF Out
  <2> QED BY <2>1, <2>2
<1>3. load' \in [Commands -> {Idle} \cup Out]
  BY <1>1, <1>2
<1>4. \A c \in Commands : Exact(load[c])'
  BY <1>2 DEF Exact, Idle
<1> QED BY <1>3, <1>4 DEF Loads

(* The commands of a key, and the answers, change one entry.               *)
LEMMA LoadsStep == ASSUME CInv, [Next]_vars PROVE Loads'
<1>1. Loads
  BY DEF CInv
<1>2. ASSUME NEW l, Exact(l), Issue(l), UNCHANGED inventory PROVE Loads'
  BY <1>1, <1>2, LoadsChange DEF Issue
<1>3. ASSUME NEW view, SwitchTo(view) PROVE Loads'
  BY <1>2, <1>3, LoadsExact DEF SwitchTo
<1>4. CASE Refresh
  <2>1. CASE current = "detail" /\ selected # None
    <3>1. selected.ip \in IPs
      BY <2>1 DEF CInv, TypeOK
    <3> QED BY <1>2, <1>4, <2>1, <3>1, LoadsExact DEF Refresh
  <2>2. CASE ~(current = "detail" /\ selected # None)
    BY <1>2, <1>4, <2>2, LoadsExact DEF Refresh
  <2> QED BY <2>1, <2>2
<1>5. CASE Enter
  <2>1. hostList[cursor + 1] \in Row
    <3>1. hostList \in Seq(Row) /\ cursor \in 0..(Len(hostList) - 1)
      BY <1>5 DEF Enter, CInv, TypeOK, CursorOnARow, Row
    <3> QED BY <3>1
  <2>2. hostList[cursor + 1].ip \in IPs
    BY <2>1 DEF Row
  <2> QED BY <1>2, <1>5, <2>2, LoadsExact DEF Enter
<1>6. ASSUME NEW c \in Commands, DataLoaded(c) PROVE Loads'
  BY <1>1, <1>6, IdleExact, LoadsChange DEF DataLoaded
<1>7. ASSUME NEW c \in Commands, Query(c) PROVE Loads'
  BY <1>1, <1>7, QueryReads, LoadsChange DEF Query
<1>8. CASE AgentWrites
  BY <1>1, <1>8, WritesLoads
<1>9. CASE Quit \/ Escape \/ Navigate \/ Resize \/ UNCHANGED vars
  BY <1>1, <1>9, LoadsStay DEF Quit, Escape, Navigate, Resize, vars
<1> QED BY <1>3, <1>4, <1>5, <1>6, <1>7, <1>8, <1>9 DEF Next

-----------------------------------------------------------------------------
(* The model of the console: the view, the tables and the cursor.          *)
Screen ==
    /\ running \in BOOLEAN /\ loading \in BOOLEAN /\ err \in BOOLEAN
    /\ current \in Views
    /\ hostList \in Seq(Row) /\ hostTotal \in Nat
    /\ selected \in Row \cup {None}
    /\ portList \subseteq IPs
    /\ cursor \in -1..Len(hostList)
    /\ current = "detail" => selected # None
    /\ CursorOnARow

LEMMA CInvParts == CInv <=> InventoryTypeOK /\ IsFiniteSet(HostRows) /\ Loads /\ Screen
<1>1. Loads => \A c \in Commands : load[c].at \in {"idle", "hosts", "count", "scans", "get", "ports",
                                                    "answer", "failed"}
  BY DEF Loads, Idle, Out
<1> QED BY <1>1 DEF CInv, TypeOK, Screen, Row

(* An answer is shown from its first row.                                  *)
LEMMA AnswerScreen ==
    ASSUME Screen, NEW l \in Out, ShowAnswer(l),
           running' \in BOOLEAN, loading' \in BOOLEAN, err' \in BOOLEAN, UNCHANGED <<current, selected>>
    PROVE  Screen'
<1>1. /\ hostList' = l.rows /\ hostTotal' = l.total /\ cursor' = 0
      /\ portList' = portList \/ portList' = l.ports
  BY DEF ShowAnswer, RebuildTables
<1>2. hostList' \in Seq(Row) /\ hostTotal' \in Nat /\ portList' \subseteq IPs
  BY <1>1 DEF Out, Screen
<1>3. Len(hostList') \in Nat /\ (hostList' # <<>> => Len(hostList') # 0)
  BY <1>2, LenProperties, EmptySeq
<1>4. cursor' \in -1..Len(hostList') /\ CursorOnARow'
  BY <1>1, <1>3 DEF CursorOnARow
<1> QED BY <1>2, <1>4 DEF Screen

LEMMA ScreenStep == ASSUME CInv, [Next]_vars PROVE Screen'
<1>1. Screen /\ Loads
  BY CInvParts
<1>2. Len(hostList) \in Nat /\ (hostList # <<>> => Len(hostList) # 0)
  BY <1>1, LenProperties, EmptySeq DEF Screen
<1>3. ASSUME UNCHANGED <<hostList, hostTotal, portList, selected, cursor>>,
             running' \in BOOLEAN, loading' \in BOOLEAN, err' \in BOOLEAN,
             current' \in Views, current' = "detail" => current = "detail"
      PROVE  Screen'
  BY <1>1, <1>3 DEF Screen, CursorOnARow
<1>4. CASE Quit \/ Escape \/ AgentWrites \/ UNCHANGED vars
  BY <1>1, <1>3, <1>4 DEF Quit, Escape, AgentWrites, vars, console, Screen, Views
<1>5. ASSUME NEW view \in {"dashboard", "hosts", "scans"}, SwitchTo(view) PROVE Screen'
  BY <1>1, <1>3, <1>5 DEF SwitchTo, Screen, Views
<1>6. CASE Refresh
  BY <1>1, <1>3, <1>6 DEF Refresh, Screen
<1>7. CASE Enter
  <2>1. hostList[cursor + 1] \in Row
    <3>1. hostList \in Seq(Row) /\ cursor \in 0..(Len(hostList) - 1)
      BY <1>1, <1>7 DEF Enter, Screen, CursorOnARow
    <3> QED BY <3>1
  <2>2. selected' \in Row /\ selected' # None
    BY <1>7, <2>1, NoneAssumption DEF Enter, Row
  <2> QED BY <1>1, <1>7, <2>2 DEF Enter, Screen, Views, CursorOnARow
<1>8. CASE Navigate
  <2>1. cursor' \in -1..Len(hostList) /\ (hostList # <<>> => cursor' \in 0..(Len(hostList) - 1))
    BY <1>2, <1>8 DEF Navigate
  <2> QED BY <1>1, <1>8, <2>1 DEF Navigate, Screen, CursorOnARow
<1>9. CASE Resize
  <2>1. cursor' \in -1..Len(hostList) /\ (hostList # <<>> => cursor' \in 0..(Len(hostList) - 1))
    BY <1>2, <1>9 DEF Resize, RebuildTables
  <2> QED BY <1>1, <1>9, <2>1 DEF Resize, Screen, CursorOnARow
<1>10. ASSUME NEW c \in Commands, DataLoaded(c) PROVE Screen'
  <2>1. UNCHANGED <<running, current, selected>> /\ loading' = FALSE
    BY <1>10 DEF DataLoaded
  <2>2. CASE load[c].at = "failed"
    BY <1>1, <1>3, <1>10, <2>1, <2>2 DEF DataLoaded, Screen
  <2>3. CASE load[c].at = "answer"
    <3>1. load[c] \in Out
      BY <1>1, <2>3 DEF Loads, Idle
    <3>2. ShowAnswer(load[c]) /\ err' = err
      BY <1>10, <2>3 DEF DataLoaded
    <3> QED BY <1>1, <2>1, <3>1, <3>2, AnswerScreen DEF Screen
  <2> QED BY <1>10, <2>2, <2>3 DEF DataLoaded
<1>11. ASSUME NEW c \in Commands, Query(c) PROVE Screen'
  BY <1>1, <1>3, <1>11 DEF Query, console, Screen
<1> QED BY <1>4, <1>5, <1>6, <1>7, <1>8, <1>9, <1>10, <1>11 DEF Next

LEMMA ConsoleStep == CInv /\ [Next]_vars => CInv'
<1> SUFFICES ASSUME CInv, [Next]_vars PROVE CInv'
  OBVIOUS
<1>1. InventoryNext \/ UNCHANGED inventory
  BY DEF Next, vars, Quit, Refresh, Enter, Escape, Navigate, Resize, SwitchTo, DataLoaded, Query,
         AgentWrites
<1>2. InventoryTypeOK' /\ IsFiniteSet(HostRows)'
  <2>1. InventoryTypeOK /\ IsFiniteSet(HostRows)
    BY CInvParts
  <2>2. CASE InventoryNext
    BY <2>1, <2>2, TablesStep
  <2>3. CASE UNCHANGED inventory
    BY <2>1, <2>3 DEF InventoryTypeOK, HostRows, inventory
  <2> QED BY <1>1, <2>2, <2>3
<1>3. Loads' /\ Screen'
  BY LoadsStep, ScreenStep
<1>4. CInv' <=> (InventoryTypeOK /\ IsFiniteSet(HostRows) /\ Loads /\ Screen)'
  BY CInvParts, PTL
<1> QED BY <1>2, <1>3, <1>4

LEMMA ConsoleStart == Init => CInv
<1> SUFFICES ASSUME Init PROVE CInv
  OBVIOUS
<1>1. InventoryTypeOK /\ HostRows = {}
  BY ChangesAssumption DEF Init, InventoryInit, InventoryTypeOK, HostRows, Absent
<1>2. Loads
  <2>1. PICK c \in Commands : load = [[d \in Commands |-> Idle] EXCEPT ![c] = LoadAll]
    BY DEF Init
  <2>2. LoadAll \in Out
    BY LoadsExact DEF Exact, LoadAll, Idle
  <2>3. \A d \in Commands : load[d] = IF d = c THEN LoadAll ELSE Idle
    BY <2>1
  <2>4. load \in [Commands -> {Idle} \cup Out]
    BY <2>1, <2>2
  <2> QED BY <2>3, <2>4, LoadsExact, IdleExact DEF Loads
<1>3. Screen
  <2>1. hostList = <<>> /\ hostList \in Seq(Row) /\ Len(hostList) = 0
    BY DEF Init
  <2>2. cursor \in -1..Len(hostList) /\ CursorOnARow
    BY <2>1 DEF Init, CursorOnARow
  <2>3. current \in Views /\ current # "detail" /\ selected \in Row \cup {None} /\ portList \subseteq IPs
    BY DEF Init, Views
  <2>4. running \in BOOLEAN /\ loading \in BOOLEAN /\ err \in BOOLEAN /\ hostTotal \in Nat
    BY DEF Init
  <2> QED BY <2>1, <2>2, <2>3, <2>4 DEF Screen
<1>4. IsFiniteSet(HostRows)
  BY <1>1, FS_EmptySet
<1> QED BY <1>1, <1>2, <1>3, <1>4, CInvParts

THEOREM ConsoleInvariance == Spec => []CInv
BY ConsoleStart, ConsoleStep, PTL DEF Spec

(* The console keeps its types, and the detail view has a host to show,    *)
(* whatever answers arrive while it is open (tui.go: renderHostDetail).    *)
THEOREM ConsoleTypeCorrect == Spec => []TypeOK
BY ConsoleInvariance, PTL DEF CInv

(* The cursor is on a row whenever there is one, so Enter stays within     *)
(* hostList, which a load may have shortened since the key before          *)
(* (tui.go:295-300).                                                       *)
THEOREM CursorStaysOnARow == Spec => []CursorOnARow
BY ConsoleInvariance, PTL DEF CInv

(* An answer that no write overlapped shows the table as it is, and the    *)
(* total next to it is the length of the list, whichever commands answered *)
(* before (tui.go:220-233, 333-377).                                       *)
THEOREM AnswersAreCurrent == Spec => AnswerIsCurrent
<1>1. CInv /\ [Next]_vars => [CurrentIfFresh]_vars
  <2> SUFFICES ASSUME CInv, NEW c \in Commands, DataLoaded(c), load[c].at = "answer", ~load[c].stale
               PROVE  hostList' = Listed /\ hostTotal' = Len(hostList')
    BY DEF CurrentIfFresh
  <2>1. load[c].rows = Listed /\ load[c].total = Cardinality(HostRows)
    BY DEF CInv, Loads, Exact
  <2>2. hostList' = load[c].rows /\ hostTotal' = load[c].total
    BY DEF DataLoaded, ShowAnswer
  <2>3. Len(Listed) = Cardinality(HostRows)
    BY ListedType DEF CInv, TypeOK
  <2> QED BY <2>1, <2>2, <2>3
<1> QED BY <1>1, ConsoleInvariance, PTL DEF Spec, AnswerIsCurrent
=============================================================================
