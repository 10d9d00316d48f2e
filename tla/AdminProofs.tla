----------------------------- MODULE AdminProofs -----------------------------
(***************************************************************************)
(* The tables, and the handlers of the admin server, for any inventory.    *)
(* PortsOnTheirHost is not inductive alone: a late save is safe because an *)
(* id the scan holds is never the id of another host, and that holds       *)
(* because ids are new. OwnPorts: a handler reads its hosts first and      *)
(* their ports one query at a time, without a transaction, and what it has *)
(* read stays right although the agent deletes and inserts hosts in        *)
(* between. FilterIsExact and WalkSeesAll: what is read over several       *)
(* queries or requests is complete as long as nothing is written.          *)
(***************************************************************************)
EXTENDS Admin, FiniteSetTheorems, TLAPS

(* Two hosts never share an id.                                            *)
IdsDistinct == \A i, j \in IPs : hosts[i] # Absent /\ hosts[i] = hosts[j] => i = j

(* The id held for an address is the id of no other one.                   *)
HeldIsOwn == \A i, j \in IPs : held[i] # Absent /\ hosts[j] = held[i] => i = j

IInv == InventoryTypeOK /\ IdsDistinct /\ HeldIsOwn /\ PortsOnTheirHost

(* Every write of the tables keeps the four facts together.                *)
LEMMA InventoryStep == IInv /\ [InventoryNext]_inventory => IInv'
<1> SUFFICES ASSUME IInv, [InventoryNext]_inventory PROVE IInv'
  OBVIOUS
<1> USE ChangesAssumption, ProbesAssumption DEF IInv, InventoryTypeOK, Absent
<1>1. ASSUME NEW ip \in IPs, UpsertHost(ip) PROVE IInv'
  <2>1. NewId(ip) \in Nat \ {0}
    BY DEF NewId
  <2>2. InventoryTypeOK'
    BY <1>1, <2>1 DEF UpsertHost, Written, NewId
  <2>3. IdsDistinct' /\ HeldIsOwn'
    BY <1>1, <2>1 DEF UpsertHost, NewId, IdsDistinct, HeldIsOwn
  <2>4. PortsOnTheirHost'
    <3> SUFFICES ASSUME NEW p \in ports' PROVE hosts'[p.of] = p.host
      BY DEF PortsOnTheirHost
    <3>1. p \in ports /\ p.of \in IPs /\ p.host \in Nat \ {0} /\ hosts[p.of] = p.host
      BY <1>1 DEF UpsertHost, PortsOnTheirHost, PortRows
    <3> QED BY <1>1, <3>1 DEF UpsertHost, NewId
  <2> QED BY <2>2, <2>3, <2>4
<1>2. ASSUME NEW ip \in IPs, DeleteHost(ip) PROVE IInv'
  <2>1. InventoryTypeOK'
    BY <1>2 DEF DeleteHost, Written
  <2>2. IdsDistinct' /\ HeldIsOwn'
    BY <1>2 DEF DeleteHost, IdsDistinct, HeldIsOwn
  <2>3. PortsOnTheirHost'
    BY <1>2 DEF DeleteHost, PortsOf, PortsOnTheirHost
  <2> QED BY <2>1, <2>2, <2>3
<1>3. ASSUME NEW ip \in IPs, NEW probe \in Probes, NEW state \in States,
             UpsertPort(ip, probe, state)
      PROVE  IInv'
  <2> DEFINE row == [host |-> held[ip], protocol |-> probe.protocol, number |-> probe.number,
                     state |-> state, of |-> ip]
  <2>1. InventoryTypeOK'
    <3>1. row \in PortRows
      BY <1>3 DEF UpsertPort, PortRows
    <3>2. ports' = {p \in ports : ~SameKey(p, row)} \cup {row}
      BY <1>3 DEF UpsertPort
    <3> HIDE DEF row
    <3>3. ports' \subseteq PortRows
      BY <3>1, <3>2
    <3> QED BY <1>3, <3>3 DEF UpsertPort, Written
  <2>2. IdsDistinct' /\ HeldIsOwn'
    BY <1>3 DEF UpsertPort, IdsDistinct, HeldIsOwn
  <2>3. hosts[ip] = held[ip]
    BY <1>3 DEF UpsertPort, HeldIsOwn
  <2>4. PortsOnTheirHost'
    BY <1>3, <2>3 DEF UpsertPort, PortsOnTheirHost
  <2> QED BY <2>1, <2>2, <2>4
<1>4. CASE UNCHANGED inventory
  BY <1>4 DEF inventory, IdsDistinct, HeldIsOwn, PortsOnTheirHost
<1> QED BY <1>1, <1>2, <1>3, <1>4 DEF InventoryNext

(* An empty database satisfies them.                                       *)
LEMMA InventoryStart == InventoryInit => IInv
BY ChangesAssumption DEF InventoryInit, IInv, InventoryTypeOK, IdsDistinct, HeldIsOwn,
                         PortsOnTheirHost, Absent

(* The four facts hold of every run of the writers.                        *)
THEOREM InventoryInvariance == InventorySpec => []IInv
BY InventoryStart, InventoryStep, PTL DEF InventorySpec

(* A port row hangs on the host it was probed at, for every inventory:     *)
(* ids that are never reused (AUTOINCREMENT) and the cascade of DELETE are *)
(* all it takes, whatever the scan still holds.                            *)
THEOREM PortsOnTheirHostAlways == InventorySpec => []PortsOnTheirHost
BY InventoryInvariance, PTL DEF IInv

(* The tables keep their types, and an id in use was handed out before.    *)
THEOREM InventoryTypeCorrect == InventorySpec => []InventoryTypeOK
BY InventoryInvariance, PTL DEF IInv

-----------------------------------------------------------------------------
(* A row the handler has read: its id was handed out to that address and   *)
(* is no other host's, now or later.                                       *)
RowsOwn ==
    \A ip \in DOMAIN rows :
       /\ ip \in IPs /\ rows[ip] \in Nat \ {0} /\ rows[ip] < nextId
       /\ \A i \in IPs : hosts[i] = rows[ip] => i = ip

AInv == IInv /\ RowsOwn /\ OwnPorts

(* The handlers leave the tables alone.                                    *)
LEMMA HandlersOnlyRead == [Next]_vars => [InventoryNext]_inventory
BY DEF Next, vars, Ask, AskPage, FollowNext, AskAPI, AskExport, AskHost, Reply, Count, ShowPage,
       Fails, List, GetByIP, ListByHost, ShowRows, AgentWrites

(* Each step of a handler, and each write in between, keeps what was read. *)
LEMMA RowsStep == ASSUME AInv, [Next]_vars PROVE RowsOwn' /\ OwnPorts'
<1> USE DEF AInv
<1>1. ASSUME AgentWrites PROVE RowsOwn' /\ OwnPorts'
  <2>1. UNCHANGED <<rows, found>>
    BY <1>1 DEF AgentWrites
  <2>2. ASSUME NEW ip \in IPs, UpsertHost(ip) PROVE RowsOwn'
    BY <2>1, <2>2 DEF UpsertHost, NewId, RowsOwn, IInv, InventoryTypeOK
  <2>3. ASSUME NEW ip \in IPs, DeleteHost(ip) PROVE RowsOwn'
    BY <2>1, <2>3 DEF DeleteHost, RowsOwn, IInv, InventoryTypeOK, Absent
  <2>4. ASSUME NEW ip \in IPs, NEW probe \in Probes, NEW state \in States,
               UpsertPort(ip, probe, state)
        PROVE  RowsOwn'
    BY <2>1, <2>4 DEF UpsertPort, RowsOwn
  <2>5. RowsOwn'
    BY <1>1, <2>2, <2>3, <2>4 DEF AgentWrites, InventoryNext
  <2>6. OwnPorts'
    BY <2>1 DEF OwnPorts
  <2> QED BY <2>5, <2>6
<1>2. ASSUME UNCHANGED <<inventory, rows>> PROVE RowsOwn'
  BY <1>2 DEF RowsOwn, inventory
<1>3. ASSUME rows' = NoRows, found' = NoRows PROVE RowsOwn' /\ OwnPorts'
  BY <1>3 DEF RowsOwn, OwnPorts, NoRows
<1>4. ASSUME List PROVE RowsOwn' /\ OwnPorts'
  <2>1. rows' = Listed /\ UNCHANGED <<inventory, found>>
    BY <1>4 DEF List
  <2>2. RowsOwn'
    BY <2>1 DEF RowsOwn, Listed, HostRows, Absent, inventory, IInv, InventoryTypeOK, IdsDistinct
  <2> QED BY <2>1, <2>2 DEF OwnPorts
<1>5. ASSUME GetByIP PROVE RowsOwn' /\ OwnPorts'
  <2>1. UNCHANGED <<inventory, found>>
    BY <1>5 DEF GetByIP, Reply
  <2>2. CASE req.ip \in HostRows
    <3>1. rows' = [ip \in {req.ip} |-> hosts[ip]]
      BY <1>5, <2>2 DEF GetByIP
    <3>2. RowsOwn'
      BY <2>1, <2>2, <3>1
         DEF RowsOwn, HostRows, Absent, inventory, IInv, InventoryTypeOK, IdsDistinct
    <3> QED BY <2>1, <3>2 DEF OwnPorts
  <2>3. CASE req.ip \notin HostRows
    BY <1>5, <2>1, <2>3, <1>2 DEF GetByIP, OwnPorts
  <2> QED BY <2>2, <2>3
<1>6. ASSUME ListByHost PROVE RowsOwn' /\ OwnPorts'
  <2>1. UNCHANGED <<inventory, rows>>
    BY <1>6 DEF ListByHost
  <2>2. PICK ip \in Todo : Read(ip, PortsOf(rows[ip])) \/ Read(ip, {})
    BY <1>6 DEF ListByHost
  <2>3. \A p \in PortsOf(rows[ip]) : p.of = ip
    BY <2>2 DEF Todo, PortsOf, RowsOwn, IInv, InventoryTypeOK, PortRows, PortsOnTheirHost
  <2>4. OwnPorts'
    BY <2>2, <2>3 DEF Read, OwnPorts
  <2> QED BY <2>1, <2>4, <1>2
<1>7. ASSUME UNCHANGED <<inventory, rows, found>> PROVE RowsOwn' /\ OwnPorts'
  BY <1>7, <1>2 DEF OwnPorts
<1> QED
  BY <1>1, <1>3, <1>4, <1>5, <1>6, <1>7
     DEF Next, vars, handler, Ask, AskPage, FollowNext, AskAPI, AskExport, AskHost, Reply, Count,
         ShowPage, Fails, ShowRows

(* In every answer of the detail page, the exports and the API, a port is  *)
(* listed under the host it was found at, whatever the agent writes while  *)
(* the handler is between two of its queries (handlers.go:82, 193, 227).   *)
THEOREM OwnPortsAlways == Spec => []OwnPorts
<1>1. Init => AInv
  BY InventoryStart DEF Init, AInv, RowsOwn, OwnPorts, NoRows
<1>2. AInv /\ [Next]_vars => AInv'
  BY HandlersOnlyRead, InventoryStep, RowsStep DEF AInv
<1>3. AInv => OwnPorts
  BY DEF AInv
<1> QED BY <1>1, <1>2, <1>3, PTL DEF Spec

-----------------------------------------------------------------------------
(* While nothing is written, an API request that has listed the hosts has  *)
(* the table at hand, and the ports read so far are those of the table.    *)
Current ==
    /\ pc = "get" => req.kind # "api"
    /\ pc = "reply" => ~NeedsPorts /\ failed = {}
    /\ pc = "ports" /\ req.kind = "api" => NeedsPorts
    /\ quiet /\ req.kind = "api" /\ pc \in {"ports", "reply"} => rows = Listed
    /\ pc \in {"list", "get"} => DOMAIN found = {} /\ failed = {}
    /\ pc = "ports" => failed \subseteq DOMAIN found
    /\ quiet /\ pc = "ports" =>
          \A ip \in DOMAIN found : found[ip] = IF ip \in failed THEN {} ELSE PortsOf(rows[ip])

LEMMA CurrentStep == Current /\ [Next]_vars => Current'
<1> SUFFICES ASSUME Current, [Next]_vars PROVE Current'
  OBVIOUS
<1>1. ASSUME pc' \in {"idle", "count", "window"} PROVE Current'
  BY <1>1 DEF Current
<1>2. ASSUME pc' = "list", found' = NoRows, failed' = {} PROVE Current'
  BY <1>2 DEF Current, NoRows
<1>3. CASE List
  <2>1. /\ UNCHANGED <<inventory, req, quiet, failed, found>> /\ rows' = Listed /\ pc = "list"
        /\ pc' = IF NeedsPorts THEN "ports" ELSE "reply"
    BY <1>3 DEF List
  <2>2. Listed' = Listed /\ NeedsPorts' = NeedsPorts /\ DOMAIN found' = {}
    BY <2>1 DEF Listed, HostRows, inventory, NeedsPorts, Current
  <2> QED BY <2>1, <2>2 DEF Current
<1>4. CASE GetByIP
  <2>1. UNCHANGED <<inventory, req, quiet, failed, found>> /\ pc = "get" /\ pc' \in {"ports", "idle"}
    BY <1>4 DEF GetByIP, Reply
  <2>2. DOMAIN found' = {} /\ req'.kind # "api"
    BY <2>1 DEF Current
  <2> QED BY <2>1, <2>2 DEF Current
<1>5. CASE ListByHost
  <2>1. UNCHANGED <<inventory, pc, req, rows, quiet>> /\ pc = "ports"
    BY <1>5 DEF ListByHost
  <2>2. Listed' = Listed
    BY <2>1 DEF Listed, HostRows, inventory
  <2>3. PICK ip \in Todo : \/ Read(ip, PortsOf(rows[ip])) /\ failed' = failed
                           \/ Read(ip, {}) /\ failed' = failed \cup {ip}
    BY <1>5 DEF ListByHost
  <2>4. DOMAIN found' = DOMAIN found \cup {ip} /\ ip \notin DOMAIN found
    BY <2>3, Zenon DEF Read, Todo
  <2>5. failed \subseteq DOMAIN found /\ failed' \subseteq DOMAIN found'
    BY <2>1, <2>3, <2>4 DEF Current
  <2>6. ASSUME quiet'
        PROVE  (\A i \in DOMAIN found : found[i] = IF i \in failed THEN {} ELSE PortsOf(rows[i]))'
    <3>1. \A i \in DOMAIN found : found[i] = IF i \in failed THEN {} ELSE PortsOf(rows[i])
      BY <2>1, <2>6 DEF Current
    <3>2. \A i \in DOMAIN found' : found'[i] = IF i \in failed' THEN {} ELSE PortsOf(rows[i])
      BY <2>3, <2>4, <2>5, <3>1 DEF Read
    <3> QED BY <2>1, <3>2 DEF PortsOf, inventory
  <2>7. NeedsPorts' = NeedsPorts
    BY <2>1 DEF NeedsPorts
  <2> QED BY <2>1, <2>2, <2>5, <2>6, <2>7 DEF Current
<1>6. CASE AgentWrites
  BY <1>6 DEF AgentWrites, Current, NeedsPorts
<1>7. CASE UNCHANGED vars
  BY <1>7 DEF vars, handler, inventory, Current, NeedsPorts, Listed, HostRows, PortsOf
<1>8. ASSUME ~List, ~GetByIP, ~ListByHost, ~AgentWrites, ~UNCHANGED vars
      PROVE  Current'
  <2>1. CASE \E limit \in Limits, offset \in Offsets :
                \/ AskPage(limit, offset)
                \/ \E matching \in {IPs, {}} \cup {{ip} : ip \in IPs},
                      port \in {AnyPort} \cup {probe.number : probe \in Probes} :
                      AskAPI(matching, port, limit, offset)
    BY <2>1, <1>1, <1>2 DEF AskPage, AskAPI, Ask
  <2>2. CASE AskExport
    BY <2>2, <1>2 DEF AskExport, Ask
  <2>3. ASSUME NEW ip \in IPs, AskHost(ip) PROVE Current'
    BY <2>3 DEF AskHost, Ask, Current, NoRows
  <2>4. CASE FollowNext \/ Count \/ ShowPage \/ Fails \/ ShowRows
    BY <2>4, <1>1 DEF FollowNext, Ask, Count, ShowPage, Fails, ShowRows, Reply
  <2> QED BY <1>8, <2>1, <2>2, <2>3, <2>4 DEF Next
<1> QED BY <1>3, <1>4, <1>5, <1>6, <1>7, <1>8

(* A filtered answer of the API counts exactly the hosts whose columns      *)
(* match and, by port, of which the table has an open row of that number,   *)
(* short of the ones whose lookup of ports failed, if no write fell between *)
(* its queries (api.go: handleAPIHosts).                                    *)
THEOREM FilterIsExactAlways == Spec => FilterIsExact
<1>1. Init => AInv /\ Current
  BY InventoryStart DEF Init, AInv, RowsOwn, OwnPorts, NoRows, Current
<1>2. AInv /\ Current /\ [Next]_vars => (AInv /\ Current)'
  BY CurrentStep, HandlersOnlyRead, InventoryStep, RowsStep DEF AInv
<1>3. AInv /\ Current /\ [Next]_vars =>
         [Answered("api") /\ quiet => answer'.total = Cardinality(Selected \ failed)]_vars
  <2> SUFFICES ASSUME AInv, Current, Next, Answered("api"), quiet
               PROVE  answer'.total = Cardinality(Selected \ failed)
    OBVIOUS
  <2>1. ShowRows /\ req.kind = "api"
    <3>1. pc # "idle" /\ pc' = "idle" /\ answer'.kind = "api" /\ answer'.code = 200
      BY DEF Answered
    <3>2. ~(FollowNext \/ Fails \/ GetByIP \/ ShowPage)
      <4>1. ~FollowNext
        BY <3>1 DEF FollowNext, Ask
      <4>2. ~Fails
        <5>1. Fails => answer' = [kind |-> req.kind, code |-> 500]
          BY DEF Fails, Reply, Refused
        <5>2. Fails => answer'.code = 500
          BY <5>1
        <5> QED BY <3>1, <5>2
      <4>3. ~GetByIP
        <5>1. GetByIP => pc' = "ports" \/ answer' = [kind |-> req.kind, code |-> 404]
          BY DEF GetByIP, Reply, Refused
        <5>2. GetByIP => pc' = "ports" \/ answer'.code = 404
          BY <5>1
        <5> QED BY <3>1, <5>2
      <4>4. ~ShowPage
        <5>1. ShowPage => \E page, pager : answer' = [kind |-> "page", code |-> 200,
                                limit |-> req.limit, rows |-> page, pager |-> pager]
          BY DEF ShowPage, Reply
        <5>2. ShowPage => answer'.kind = "page"
          BY <5>1
        <5> QED BY <3>1, <5>2
      <4> QED BY <4>1, <4>2, <4>3, <4>4
    <3>3. ~(Count \/ List \/ ListByHost \/ AgentWrites)
      BY <3>1 DEF Count, List, ListByHost, AgentWrites
    <3>4. ShowRows
      BY <3>1, <3>2, <3>3 DEF Next, AskPage, AskAPI, AskExport, AskHost, Ask
    <3>5. CASE req.kind # "api"
      BY <3>1, <3>4, <3>5 DEF ShowRows, Reply
    <3> QED BY <3>4, <3>5
  <2> DEFINE matched == {ip \in DOMAIN rows : Matches(ip)}
  <2>2. answer'.total = Cardinality(matched)
    BY <2>1 DEF ShowRows, Reply
  <2>3. rows = Listed
    BY <2>1 DEF ShowRows, Current
  <2>4. DOMAIN rows = HostRows /\ \A ip \in HostRows : rows[ip] = hosts[ip]
    BY <2>3 DEF Listed
  <2>5. ASSUME NEW ip \in HostRows, req.port # AnyPort
        PROVE  HasPort(ip) <=> /\ ip \notin failed
                               /\ \E p \in ports : p.of = ip /\ p.number = req.port /\ p.state = "open"
    <3>1. pc = "ports"
      BY <2>1, <2>5 DEF ShowRows, Current, NeedsPorts
    <3>2. DOMAIN found = DOMAIN rows
      BY <2>1, <3>1 DEF ShowRows
    <3>3. found[ip] = IF ip \in failed THEN {} ELSE PortsOf(hosts[ip])
      BY <3>1, <3>2, <2>4 DEF Current
    <3>4. ASSUME NEW p \in ports PROVE p.host = hosts[ip] <=> p.of = ip
      <4>1. p.of \in IPs /\ hosts[p.of] = p.host /\ hosts[ip] # Absent /\ ip \in IPs
        BY DEF AInv, IInv, InventoryTypeOK, PortRows, PortsOnTheirHost, HostRows
      <4> QED BY <4>1 DEF AInv, IInv, IdsDistinct
    <3> QED BY <3>3, <3>4 DEF HasPort, PortsOf
  <2>6. CASE req.port = AnyPort
    <3>1. failed = {}
      BY <2>1, <2>6 DEF ShowRows, Current, NeedsPorts
    <3>2. matched = Selected \ failed
      BY <2>4, <2>6, <3>1 DEF Matches, Selected
    <3> HIDE DEF matched
    <3> QED BY <2>2, <3>2
  <2>7. CASE req.port # AnyPort
    <3>1. matched = Selected \ failed
      BY <2>4, <2>5, <2>7 DEF Matches, Selected
    <3> HIDE DEF matched
    <3> QED BY <2>2, <3>1
  <2> QED BY <2>6, <2>7
<1> QED BY <1>1, <1>2, <1>3, PTL DEF Spec, FilterIsExact

-----------------------------------------------------------------------------
(* Following the Next links. The hosts of the first offset places are those *)
(* of a rank up to offset; a page adds the ranks of its window, which are   *)
(* others, and the places run out at Cardinality(HostRows).                 *)
Upto(k) == {ip \in HostRows : Rank(HostRows, ip) <= k}

Walked(offset) == walk.seen = Upto(offset) /\ ~walk.twice

WalkOnTrack ==
    /\ IsFiniteSet(HostRows)
    /\ walk \in [on : BOOLEAN, seen : SUBSET IPs, twice : BOOLEAN, quiet : BOOLEAN]
    /\ walk.on => pc \in {"idle", "count", "window"}
    /\ walk.on /\ pc \in {"count", "window"} =>
          /\ req.kind = "page" /\ req.limit \in Limits /\ req.offset \in 0..MaxInt
          /\ walk.quiet => Walked(req.offset)
    /\ walk.on /\ walk.quiet /\ pc = "window" => total = Cardinality(HostRows)
    /\ walk.on /\ pc = "idle" /\ answer.kind = "page" /\ answer.code = 200 =>
          /\ answer.limit \in Limits
          /\ answer.pager.next \in Int /\ answer.pager.next <= MaxInt
          /\ walk.quiet /\ answer.pager.next >= 0 => Walked(answer.pager.next)

(* An address is not counted past the last place.                          *)
LEMMA RankBounded ==
    ASSUME NEW S, IsFiniteSet(S), NEW ip
    PROVE  Rank(S, ip) \in Nat /\ Cardinality(S) \in Nat /\ Rank(S, ip) <= Cardinality(S)
<1>1. {i \in S : i <= ip} \subseteq S
  OBVIOUS
<1> QED BY <1>1, FS_Subset, FS_CardinalityType DEF Rank

(* The table stays finite: a write adds one row at most.                   *)
LEMMA RowsFinite ==
    ASSUME InventoryTypeOK, IsFiniteSet(HostRows), InventoryNext PROVE IsFiniteSet(HostRows')
<1>1. PICK ip \in IPs : UpsertHost(ip) \/ DeleteHost(ip)
                           \/ \E probe \in Probes, state \in States : UpsertPort(ip, probe, state)
  BY DEF InventoryNext
<1>2. \A i \in IPs \ {ip} : hosts'[i] = hosts[i]
  BY <1>1 DEF UpsertHost, DeleteHost, UpsertPort, InventoryTypeOK
<1>3. HostRows' \subseteq HostRows \cup {ip}
  BY <1>2 DEF HostRows
<1>4. IsFiniteSet(HostRows \cup {ip})
  BY FS_AddElement
<1> QED BY <1>3, <1>4, FS_Subset

(* The page at offset adds the places behind it, and none seen before.     *)
LEMMA PageAdds ==
    ASSUME IsFiniteSet(HostRows), NEW limit \in Nat, NEW offset \in Nat
    PROVE  /\ Upto(offset) \cup Window(HostRows, limit, offset) = Upto(offset + limit)
           /\ Upto(offset) \cap Window(HostRows, limit, offset) = {}
           /\ offset + limit >= Cardinality(HostRows) => Upto(offset + limit) = HostRows
<1>1. \A ip : Rank(HostRows, ip) \in Nat /\ Rank(HostRows, ip) <= Cardinality(HostRows)
  BY RankBounded
<1>2. Cardinality(HostRows) \in Nat
  BY FS_CardinalityType
<1> QED BY <1>1, <1>2 DEF Upto, Window

(* An offset past the largest int is negative, and below every count.      *)
LEMMA PlusWraps ==
    ASSUME NEW m \in 0..MaxInt, NEW n \in 0..MaxInt
    PROVE  /\ Plus(m, n) \in Int /\ Plus(m, n) <= MaxInt
           /\ Plus(m, n) >= 0 => Plus(m, n) = m + n
           /\ Plus(m, n) < 0 \/ Plus(m, n) = m + n
BY WindowAssumption DEF Plus

LEMMA SizesAreInts ==
    /\ \A m \in Limits : m \in 0..MaxInt /\ m \in Nat
    /\ \A m \in 0..MaxInt : m \in Nat
BY WindowAssumption

(* What ShowPage leaves of a walk.                                         *)
LEMMA PageStep ==
    ASSUME WalkOnTrack, ShowPage, walk.on, walk'.quiet
    PROVE  /\ UNCHANGED inventory /\ walk.quiet /\ walk'.on
           /\ answer'.kind = "page" /\ answer'.code = 200 /\ answer'.limit \in Limits
           /\ answer'.pager.next = Plus(req.offset, req.limit)
           /\ answer'.pager.hasNext = (Plus(req.offset, req.limit) < Cardinality(HostRows))
           /\ walk'.seen = Upto(req.offset + req.limit) /\ ~walk'.twice
<1> DEFINE page == Window(HostRows, req.limit, req.offset)
<1>1. /\ pc = "window" /\ UNCHANGED inventory
      /\ answer' = [kind |-> "page", code |-> 200, limit |-> req.limit, rows |-> page,
                    pager |-> Pager(total, req.limit, req.offset)]
      /\ walk' = [walk EXCEPT !.seen = @ \cup page, !.twice = @ \/ walk.seen \cap page # {}]
  BY DEF ShowPage, Reply
<1>2. /\ walk'.on = walk.on /\ walk'.quiet = walk.quiet
      /\ walk'.seen = walk.seen \cup page
      /\ walk'.twice = (walk.twice \/ walk.seen \cap page # {})
  BY <1>1 DEF WalkOnTrack
<1>3. /\ req.limit \in Limits /\ req.offset \in 0..MaxInt /\ Walked(req.offset)
      /\ total = Cardinality(HostRows) /\ IsFiniteSet(HostRows)
  BY <1>1, <1>2 DEF WalkOnTrack
<1>4. req.limit \in Nat /\ req.offset \in Nat
  BY <1>3, SizesAreInts
<1>5. /\ answer'.kind = "page" /\ answer'.code = 200 /\ answer'.limit = req.limit
      /\ answer'.pager = Pager(total, req.limit, req.offset)
  BY <1>1
<1>6. /\ answer'.pager.next = Plus(req.offset, req.limit)
      /\ answer'.pager.hasNext = (Plus(req.offset, req.limit) < Cardinality(HostRows))
  BY <1>3, <1>5 DEF Pager, HasNext
<1>7. walk'.seen = Upto(req.offset + req.limit) /\ ~walk'.twice
  <2> HIDE DEF page
  <2>1. walk.seen = Upto(req.offset) /\ ~walk.twice
    BY <1>3 DEF Walked
  <2>2. Upto(req.offset) \cup page = Upto(req.offset + req.limit) /\ Upto(req.offset) \cap page = {}
    BY <1>3, <1>4, PageAdds DEF page
  <2> QED BY <1>2, <2>1, <2>2
<1> QED BY <1>1, <1>2, <1>3, <1>5, <1>6, <1>7

LEMMA WalkStep ==
    ASSUME InventoryTypeOK, WalkOnTrack, [Next]_vars PROVE WalkOnTrack'
<1>1. IsFiniteSet(HostRows)'
  <2>1. CASE InventoryNext
    BY <2>1, RowsFinite DEF WalkOnTrack
  <2>2. CASE UNCHANGED inventory
    BY <2>2 DEF WalkOnTrack, HostRows, inventory
  <2> QED BY <2>1, <2>2, HandlersOnlyRead
<1>2. ASSUME walk' = NoWalk PROVE WalkOnTrack'
  BY <1>1, <1>2 DEF WalkOnTrack, NoWalk
<1>3. ASSUME UNCHANGED <<inventory, walk>>, ~walk.on PROVE WalkOnTrack'
  BY <1>1, <1>3 DEF WalkOnTrack
<1>4. ASSUME NEW limit \in Limits, NEW offset \in Offsets, AskPage(limit, offset)
      PROVE  WalkOnTrack'
  <2>1. CASE offset # 0
    BY <1>2, <1>4, <2>1 DEF AskPage
  <2>2. CASE offset = 0
    <3>1. walk' = [on |-> TRUE, seen |-> {}, twice |-> FALSE, quiet |-> TRUE]
      BY <1>4, <2>2 DEF AskPage, NoWalk
    <3>2. req' = [kind |-> "page", limit |-> limit, offset |-> 0] /\ pc' = "count"
      BY <1>4, <2>2 DEF AskPage, Ask
    <3>3. Upto(0)' = {}
      <4>1. ASSUME NEW ip \in HostRows' PROVE Rank(HostRows', ip) >= 1
        <5>1. {i \in HostRows' : i <= ip} # {} /\ {i \in HostRows' : i <= ip} \subseteq HostRows'
          BY <4>1, IPsAssumption DEF HostRows
        <5>2. IsFiniteSet({i \in HostRows' : i <= ip})
          BY <1>1, <5>1, FS_Subset
        <5> QED BY <5>1, <5>2, FS_EmptySet, FS_CardinalityType DEF Rank
      <4>2. \A ip \in HostRows' : Rank(HostRows', ip) \in Nat
        BY <1>1, RankBounded
      <4> QED BY <4>1, <4>2 DEF Upto
    <3>4. req'.kind = "page" /\ req'.limit = limit /\ req'.offset = 0
      BY <3>2
    <3>5. walk'.on /\ walk'.seen = {} /\ ~walk'.twice
      BY <3>1
    <3>6. Walked(0)'
      BY <3>3, <3>5 DEF Walked
    <3>7. walk' \in [on : BOOLEAN, seen : SUBSET IPs, twice : BOOLEAN, quiet : BOOLEAN]
      BY <3>1
    <3> QED BY <1>1, <3>2, <3>4, <3>6, <3>7, WindowAssumption DEF WalkOnTrack
  <2> QED BY <2>1, <2>2
<1>5. ASSUME FollowNext, walk.on PROVE WalkOnTrack'
  <2>1. /\ pc = "idle" /\ answer.kind = "page" /\ answer.code = 200
        /\ UNCHANGED <<inventory, walk>>
    BY <1>5 DEF FollowNext, Ask
  <2>2. /\ answer.limit \in Limits /\ answer.pager.next \in Int /\ answer.pager.next <= MaxInt
        /\ walk.quiet /\ answer.pager.next >= 0 => Walked(answer.pager.next)
    BY <1>5, <2>1 DEF WalkOnTrack
  <2>3. CASE answer.pager.next < 0
    <3>1. answer' = [kind |-> "page", code |-> 400] /\ pc' = "idle"
      BY <1>5, <2>1, <2>3 DEF FollowNext
    <3>2. answer'.code = 400
      BY <3>1
    <3> QED BY <1>1, <2>1, <3>1, <3>2 DEF WalkOnTrack
  <2>4. CASE ~(answer.pager.next < 0)
    <3>1. /\ req' = [kind |-> "page", limit |-> answer.limit, offset |-> answer.pager.next]
          /\ pc' = "count"
      BY <1>5, <2>4 DEF FollowNext, Ask
    <3>2. req'.kind = "page" /\ req'.limit = answer.limit /\ req'.offset = answer.pager.next
      BY <3>1
    <3>3. answer.pager.next \in 0..MaxInt
      BY <2>2, <2>4, WindowAssumption
    <3>4. \A k : Walked(k) => Walked(k)'
      BY <2>1 DEF Walked, Upto, Rank, HostRows, inventory
    <3>5. walk.quiet' => Walked(req.offset)'
      <4>1. walk.quiet => Walked(answer.pager.next)
        BY <2>2, <3>3
      <4> QED BY <2>1, <3>2, <4>1 DEF Walked, Upto, Rank, HostRows, inventory
    <3> QED BY <1>1, <2>1, <2>2, <3>1, <3>2, <3>3, <3>5 DEF WalkOnTrack
  <2> QED BY <2>3, <2>4
<1>6. CASE Count
  <2>1. /\ pc = "count" /\ pc' = "window" /\ total' = Cardinality(HostRows)
        /\ UNCHANGED <<inventory, req, answer, walk>>
    BY <1>6 DEF Count
  <2>2. HostRows' = HostRows
    BY <2>1 DEF HostRows, inventory
  <2>3. ASSUME walk.on PROVE /\ req.kind = "page" /\ req.limit \in Limits /\ req.offset \in 0..MaxInt
                             /\ walk.quiet => Walked(req.offset)
    BY <2>1, <2>3 DEF WalkOnTrack
  <2> QED BY <1>1, <2>1, <2>2, <2>3 DEF WalkOnTrack, Walked, Upto
<1>7. ASSUME ShowPage, walk.on PROVE WalkOnTrack'
  <2>1. pc = "window" /\ pc' = "idle" /\ UNCHANGED inventory
    BY <1>7 DEF ShowPage, Reply
  <2>2. HostRows' = HostRows
    BY <2>1 DEF HostRows, inventory
  <2>3. /\ req.limit \in Limits /\ req.offset \in 0..MaxInt /\ req.limit \in 0..MaxInt
    BY <1>7, <2>1, SizesAreInts DEF WalkOnTrack
  <2> DEFINE next == Plus(req.offset, req.limit)
  <2>4. answer'.limit \in Limits /\ answer'.pager.next = next
    <3>1. answer'.limit = req.limit /\ answer'.pager = Pager(total, req.limit, req.offset)
      BY <1>7 DEF ShowPage, Reply
    <3> QED BY <2>3, <3>1 DEF Pager
  <2>5. next \in Int /\ next <= MaxInt /\ (next >= 0 => next = req.offset + req.limit)
    BY <2>3, PlusWraps
  <2>6. walk' \in [on : BOOLEAN, seen : SUBSET IPs, twice : BOOLEAN, quiet : BOOLEAN]
    <3>1. Window(HostRows, req.limit, req.offset) \subseteq IPs
      BY DEF Window, HostRows
    <3> QED BY <1>7, <3>1 DEF ShowPage, WalkOnTrack, NoWalk
  <2>7. ASSUME walk'.quiet, next >= 0 PROVE walk'.seen = Upto(next) /\ ~walk'.twice
    <3>1. walk'.seen = Upto(req.offset + req.limit) /\ ~walk'.twice
      BY <1>7, <2>7, PageStep
    <3> HIDE DEF next
    <3> QED BY <2>5, <2>7, <3>1
  <2> HIDE DEF next
  <2>8. ASSUME walk'.quiet, answer'.pager.next >= 0 PROVE Walked(answer.pager.next)'
    <3>1. Upto(answer.pager.next)' = Upto(next)
      BY <2>2, <2>4 DEF Upto
    <3> QED BY <2>4, <2>7, <2>8, <3>1 DEF Walked
  <2> QED BY <1>1, <2>1, <2>4, <2>5, <2>6, <2>8 DEF WalkOnTrack
<1>8. CASE AgentWrites
  <2>1. UNCHANGED <<pc, req, total, answer>> /\ walk' = [walk EXCEPT !.quiet = FALSE]
    BY <1>8 DEF AgentWrites
  <2>2. walk' \in [on : BOOLEAN, seen : SUBSET IPs, twice : BOOLEAN, quiet : BOOLEAN]
        /\ walk'.on = walk.on /\ ~walk'.quiet
    BY <2>1 DEF WalkOnTrack
  <2> QED BY <1>1, <2>1, <2>2 DEF WalkOnTrack
<1>9. CASE UNCHANGED vars
  BY <1>9 DEF vars, handler, inventory, WalkOnTrack, Walked, Upto, HostRows
<1>10. ASSUME walk.on, List \/ GetByIP \/ ListByHost \/ ShowRows PROVE FALSE
  BY <1>10 DEF WalkOnTrack, List, GetByIP, ListByHost, ShowRows
<1>11. ASSUME \/ List \/ GetByIP \/ ListByHost \/ ShowRows
              \/ (FollowNext \/ ShowPage) /\ ~walk.on
       PROVE  WalkOnTrack'
  BY <1>11, <1>10, <1>2, <1>3
     DEF List, GetByIP, ListByHost, ShowRows, FollowNext, ShowPage, Ask, Reply
<1>12. ASSUME \/ \E limit \in Limits, offset \in Offsets :
                   \E matching \in {IPs, {}} \cup {{ip} : ip \in IPs},
                      port \in {AnyPort} \cup {probe.number : probe \in Probes} :
                      AskAPI(matching, port, limit, offset)
              \/ AskExport \/ Fails \/ \E ip \in IPs : AskHost(ip)
       PROVE  WalkOnTrack'
  BY <1>12, <1>2 DEF AskAPI, AskExport, AskHost, Fails
<1> QED BY <1>4, <1>5, <1>6, <1>7, <1>8, <1>9, <1>11, <1>12 DEF Next

(* A client that follows the Next links from offset 0 until a page has none *)
(* has seen every host and none of them twice, if nothing was written, for  *)
(* every page size, also where offset + limit wraps past the largest int    *)
(* (render.go: newPager).                                                  *)
THEOREM WalkSeesAllAlways == Spec => WalkSeesAll
<1>1. Init => IInv /\ WalkOnTrack
  <2>1. Init => IInv
    BY InventoryStart DEF Init
  <2>2. Init => HostRows = {}
    BY DEF Init, InventoryInit, HostRows, Absent
  <2>3. Init => WalkOnTrack
    BY <2>2, FS_EmptySet DEF Init, NoWalk, WalkOnTrack
  <2> QED BY <2>1, <2>3
<1>2. IInv /\ WalkOnTrack /\ [Next]_vars => (IInv /\ WalkOnTrack)'
  BY HandlersOnlyRead, InventoryStep, WalkStep DEF IInv
<1>3. IInv /\ WalkOnTrack /\ [Next]_vars =>
         [Answered("page") /\ walk'.on /\ walk'.quiet /\ ~answer'.pager.hasNext
             => walk'.seen = HostRows /\ ~walk'.twice]_vars
  <2> SUFFICES ASSUME IInv, WalkOnTrack, Next, Answered("page"), walk'.on, walk'.quiet,
                      ~answer'.pager.hasNext
               PROVE  walk'.seen = HostRows /\ ~walk'.twice
    OBVIOUS
  <2>1. pc # "idle" /\ pc' = "idle" /\ answer'.kind = "page" /\ answer'.code = 200
    BY DEF Answered
  <2>2. ~(FollowNext \/ Count \/ List \/ ListByHost \/ AgentWrites)
    BY <2>1 DEF FollowNext, Ask, Count, List, ListByHost, AgentWrites
  <2>3. ~Fails
    BY <2>1 DEF Fails, NoWalk
  <2>4. ~(GetByIP \/ ShowRows)
    <3>1. UNCHANGED walk => pc \in {"count", "window"}
      BY <2>1 DEF WalkOnTrack
    <3> QED BY <3>1 DEF GetByIP, ShowRows
  <2>5. ShowPage
    BY <2>1, <2>2, <2>3, <2>4 DEF Next, AskPage, AskAPI, AskExport, AskHost, Ask
  <2>6. walk.on
    BY <2>5 DEF ShowPage, NoWalk
  <2>7. req.offset \in 0..MaxInt /\ req.limit \in 0..MaxInt /\ req.limit \in Nat
    BY <2>5, <2>6, SizesAreInts DEF ShowPage, WalkOnTrack
  <2>8. ~(Plus(req.offset, req.limit) < Cardinality(HostRows))
    BY <2>5, <2>6, PageStep
  <2>9. Cardinality(HostRows) \in Nat
    BY FS_CardinalityType DEF WalkOnTrack
  <2>10. req.offset + req.limit >= Cardinality(HostRows)
    BY <2>7, <2>8, <2>9, PlusWraps
  <2>11. Upto(req.offset + req.limit) = HostRows
    BY <2>7, <2>10, PageAdds DEF WalkOnTrack
  <2> QED BY <2>5, <2>6, <2>11, PageStep
<1> QED BY <1>1, <1>2, <1>3, PTL DEF Spec, WalkSeesAll

-----------------------------------------------------------------------------
(* Types of what a handler holds; those of its rows are in RowsOwn.        *)
HandlerTyped ==
    /\ pc \in {"idle", "count", "window", "list", "get", "ports", "reply"}
    /\ req.kind \in {"none", "page", "api", "export", "host"}
    /\ answer.kind \in {"none", "page", "api", "export", "host"}
    /\ answer.code \in {0, 200, 400, 404, 500}
    /\ total \in Nat
    /\ DOMAIN found \subseteq DOMAIN rows
    /\ \A ip \in DOMAIN found : found[ip] \subseteq PortRows
    /\ failed \subseteq IPs

(* A request that begins has the kind of its handler and nothing read yet. *)
LEMMA AskTyped ==
    ASSUME HandlerTyped, NEW r, r.kind \in {"page", "api", "export", "host"},
           NEW first \in {"count", "list", "get"}, Ask(r, first)
    PROVE  HandlerTyped'
<1>1. found' = NoRows /\ DOMAIN NoRows = {}
  BY DEF Ask, NoRows
<1>2. /\ pc' = first /\ req' = r /\ total' = 0 /\ quiet' = TRUE /\ failed' = {}
      /\ answer' = answer
  BY DEF Ask
<1> QED BY <1>1, <1>2 DEF HandlerTyped

(* A handler that ends answers with what it is given.                      *)
LEMMA ReplyTyped ==
    ASSUME HandlerTyped, NEW a, Reply(a), UNCHANGED <<total, rows, found>>,
           a.kind \in {"none", "page", "api", "export", "host"}, a.code \in {200, 404, 500}
    PROVE  HandlerTyped'
<1>1. answer' = a /\ pc' = "idle" /\ UNCHANGED <<req, quiet, failed>>
  BY DEF Reply
<1> QED BY <1>1 DEF HandlerTyped

(* One case for each step of a handler; List, GetByIP and the queries for  *)
(* ports find nothing shown yet of the rows they have read (Current).      *)
LEMMA HandlerStep ==
    ASSUME AInv, Current, IsFiniteSet(HostRows), HandlerTyped, [Next]_vars
    PROVE  HandlerTyped'
<1>1. CASE \E limit \in Limits, offset \in Offsets :
              \/ AskPage(limit, offset)
              \/ \E matching \in {IPs, {}} \cup {{ip} : ip \in IPs},
                    port \in {AnyPort} \cup {probe.number : probe \in Probes} :
                    AskAPI(matching, port, limit, offset)
  <2>1. ASSUME NEW limit \in Limits, NEW offset \in Offsets, AskPage(limit, offset)
        PROVE  HandlerTyped'
    BY <2>1, AskTyped DEF AskPage
  <2>2. ASSUME NEW limit \in Limits, NEW offset \in Offsets, NEW matching, NEW port,
               AskAPI(matching, port, limit, offset)
        PROVE  HandlerTyped'
    BY <2>2, AskTyped DEF AskAPI
  <2> QED BY <1>1, <2>1, <2>2
<1>2. CASE AskExport
  BY <1>2, AskTyped DEF AskExport
<1>3. ASSUME NEW ip \in IPs, AskHost(ip) PROVE HandlerTyped'
  BY <1>3, AskTyped DEF AskHost
<1>4. CASE FollowNext
  <2>1. CASE answer.pager.next < 0
    <3>1. answer' = [kind |-> "page", code |-> 400]
          /\ UNCHANGED <<pc, req, total, rows, found, quiet, failed>>
      BY <1>4, <2>1 DEF FollowNext
    <3>2. answer'.kind = "page" /\ answer'.code = 400
      BY <3>1
    <3> QED BY <3>1, <3>2 DEF HandlerTyped
  <2>2. CASE ~(answer.pager.next < 0)
    BY <1>4, <2>2, AskTyped DEF FollowNext
  <2> QED BY <2>1, <2>2
<1>5. CASE Count
  <2>1. Cardinality(HostRows) \in Nat
    BY FS_CardinalityType
  <2> QED BY <1>5, <2>1 DEF Count, HandlerTyped
<1>6. CASE ShowPage
  BY <1>6, ReplyTyped DEF ShowPage
<1>7. CASE Fails
  <2>1. Refused(500).kind = req.kind /\ Refused(500).code = 500
    BY DEF Refused
  <2> QED BY <1>7, <2>1, ReplyTyped DEF Fails, HandlerTyped
<1>8. CASE List
  <2>1. DOMAIN found = {}
    BY <1>8 DEF List, Current
  <2> QED BY <1>8, <2>1 DEF List, HandlerTyped
<1>9. CASE GetByIP
  <2>1. DOMAIN found = {} /\ UNCHANGED <<total, found>>
    BY <1>9 DEF GetByIP, Current
  <2>2. CASE req.ip \in HostRows
    BY <1>9, <2>1, <2>2 DEF GetByIP, HandlerTyped
  <2>3. CASE req.ip \notin HostRows
    <3>1. Refused(404).kind = req.kind /\ Refused(404).code = 404
      BY DEF Refused
    <3> QED BY <1>9, <2>1, <2>3, <3>1, ReplyTyped DEF GetByIP, HandlerTyped
  <2> QED BY <2>2, <2>3
<1>10. CASE ListByHost
  <2>1. PICK ip \in Todo : Read(ip, PortsOf(rows[ip])) \/ Read(ip, {})
    BY <1>10 DEF ListByHost
  <2>2. UNCHANGED <<pc, req, total, rows, answer>>
    BY <1>10 DEF ListByHost
  <2>3. PortsOf(rows[ip]) \subseteq PortRows
    BY DEF PortsOf, AInv, IInv, InventoryTypeOK
  <2>4. ip \in DOMAIN rows
    BY <2>1 DEF Todo
  <2>5. DOMAIN found' \subseteq DOMAIN rows
    BY <2>1, <2>4 DEF Read, HandlerTyped
  <2>6. \A i \in DOMAIN found' : found'[i] \subseteq PortRows
    BY <2>1, <2>3 DEF Read, HandlerTyped
  <2>7. failed' \subseteq IPs
    <3>1. PICK i \in Todo : failed' \subseteq failed \cup {i}
      BY <1>10 DEF ListByHost
    <3> QED BY <3>1 DEF Todo, AInv, RowsOwn, HandlerTyped
  <2> QED BY <2>2, <2>5, <2>6, <2>7 DEF HandlerTyped
<1>11. CASE ShowRows
  <2>1. CASE req.kind = "api"
    <3>1. PICK n, page : Reply([kind |-> "api", code |-> 200, total |-> n, rows |-> page])
      BY <1>11, <2>1 DEF ShowRows
    <3> QED BY <1>11, <3>1, ReplyTyped DEF ShowRows
  <2>2. CASE req.kind # "api"
    <3>1. Reply([kind |-> req.kind, code |-> 200, rows |-> DOMAIN rows])
      BY <1>11, <2>2 DEF ShowRows
    <3> QED BY <1>11, <3>1, ReplyTyped DEF ShowRows, HandlerTyped
  <2> QED BY <2>1, <2>2
<1>12. CASE AgentWrites \/ UNCHANGED vars
  <2>1. UNCHANGED <<pc, req, total, rows, found, answer, failed>>
    BY <1>12 DEF AgentWrites, vars, handler
  <2> QED BY <2>1 DEF HandlerTyped
<1> QED
  BY <1>1, <1>2, <1>3, <1>4, <1>5, <1>6, <1>7, <1>8, <1>9, <1>10, <1>11, <1>12 DEF Next

(* The Boolean variable apart, for the provers' sake.                      *)
FlagsTyped == quiet \in BOOLEAN

LEMMA FlagsStep == ASSUME FlagsTyped, [Next]_vars PROVE FlagsTyped'
<1>1. quiet' = quiet \/ quiet' = TRUE \/ quiet' = FALSE
  BY DEF Next, vars, handler, Ask, AskPage, FollowNext, AskAPI, AskExport, AskHost, Reply,
         Count, ShowPage, Fails, List, GetByIP, ListByHost, ShowRows, AgentWrites
<1> QED BY <1>1, Zenon DEF FlagsTyped

(* The handlers answer with the codes they have, and what they hold is of  *)
(* the rows they have listed.                                              *)
THEOREM AdminTypeCorrect == Spec => []TypeOK
<1>1. Init => AInv /\ Current /\ IsFiniteSet(HostRows) /\ HandlerTyped /\ FlagsTyped
  <2>1. Init => HostRows = {}
    BY ChangesAssumption DEF Init, InventoryInit, HostRows
  <2>2. Init => HandlerTyped
    <3> SUFFICES ASSUME Init PROVE HandlerTyped
      OBVIOUS
    <3>1. req.kind = "none" /\ answer.kind = "none" /\ answer.code = 0 /\ DOMAIN found = {}
      BY DEF Init, NoRequest, NoRows
    <3> QED BY <3>1 DEF Init, HandlerTyped
  <2>3. Init => FlagsTyped
    BY DEF Init, FlagsTyped
  <2> QED
    BY <2>1, <2>2, <2>3, InventoryStart, FS_EmptySet DEF Init, AInv, RowsOwn, OwnPorts, NoRows, Current
<1>2. AInv /\ Current /\ IsFiniteSet(HostRows) /\ HandlerTyped /\ FlagsTyped /\ [Next]_vars
         => (AInv /\ Current /\ IsFiniteSet(HostRows) /\ HandlerTyped /\ FlagsTyped)'
  <2> SUFFICES ASSUME AInv, Current, IsFiniteSet(HostRows), HandlerTyped, FlagsTyped, [Next]_vars
               PROVE  (AInv /\ Current /\ IsFiniteSet(HostRows) /\ HandlerTyped /\ FlagsTyped)'
    OBVIOUS
  <2>1. AInv'
    BY HandlersOnlyRead, InventoryStep, RowsStep DEF AInv
  <2>2. Current' /\ HandlerTyped' /\ FlagsTyped'
    BY CurrentStep, HandlerStep, FlagsStep
  <2>3. IsFiniteSet(HostRows')
    <3>1. CASE InventoryNext
      BY <3>1, RowsFinite DEF AInv, IInv
    <3>2. CASE UNCHANGED inventory
      BY <3>2 DEF HostRows, inventory
    <3> QED BY <3>1, <3>2, HandlersOnlyRead
  <2> QED BY <2>1, <2>2, <2>3
<1>3. AInv /\ HandlerTyped /\ FlagsTyped => TypeOK
  BY DEF AInv, IInv, RowsOwn, HandlerTyped, FlagsTyped, TypeOK
<1> QED BY <1>1, <1>2, <1>3, PTL DEF Spec
====
