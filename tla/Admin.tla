-------------------------------- MODULE Admin --------------------------------
(***************************************************************************)
(* The handlers of the admin server that read the inventory                *)
(* (internal/admin/handlers.go, api.go, render.go). None of them uses a    *)
(* transaction: each is several queries, and the agent writes in between.  *)
(* Handlers share nothing but the tables they read, so one request at a    *)
(* time against a changing table shows all there is.                       *)
(***************************************************************************)
EXTENDS Inventory

CONSTANTS
    Limits,     \* page sizes asked for
    Offsets,    \* offsets asked for besides those the pager links to
    MaxInt,     \* the largest int, 2^(w-1) - 1
    Failures    \* whether a lookup of ports can fail

ASSUME WindowAssumption ==
    MaxInt \in Nat /\ Limits \subseteq 1..MaxInt /\ Offsets \subseteq 0..MaxInt

VARIABLES
    pc,        \* where the handler is, "idle" between requests
    req,       \* the request
    total,     \* hosts.Count as the pager has it
    rows,      \* host rows read: the id of each address listed
    found,     \* found[ip]: the port rows read for that row so far
    answer,    \* the last answer
    quiet,     \* no write since the request came
    failed,    \* the hosts whose lookup of ports failed, the handler going on
    walk       \* the rows a client has seen that follows the Next links from 0

handler == <<pc, req, total, rows, found, answer, quiet, failed, walk>>
vars == <<inventory, handler>>

AnyPort == 0
NoRequest == [kind |-> "none"]
NoWalk == [on |-> FALSE, seen |-> {}, twice |-> FALSE, quiet |-> FALSE]
NoRows == [ip \in {} |-> Absent]
Refused(code) == [kind |-> req.kind, code |-> code]

-----------------------------------------------------------------------------
(* HostRepo.List; rows come in the order of their addresses.               *)
Listed == [ip \in HostRows |-> hosts[ip]]

Least(m, n) == IF m < n THEN m ELSE n

(* LIMIT limit OFFSET offset, and the slice [start:end] of the JSON API.   *)
Window(S, limit, offset) ==
    {ip \in S : Rank(S, ip) > offset /\ Rank(S, ip) <= offset + limit}

(* The sum of two ints that are not negative.                              *)
Plus(m, n) == IF m + n > MaxInt THEN m + n - 2 * (MaxInt + 1) ELSE m + n

HasNextFromOne(t, limit, offset) == Plus(Plus(offset, limit), 1) < t  \* mutant: rows counted from 1

HasNext(t, limit, offset) == Plus(offset, limit) < t

(* newPager.                                                               *)
Pager(t, limit, offset) ==
    [from |-> IF offset < t THEN offset + 1 ELSE 0,
     to |-> IF offset < t THEN Least(Plus(offset, limit), t) ELSE 0,
     hasPrev |-> offset > 0,
     prev |-> IF offset > limit THEN offset - limit ELSE 0,
     hasNext |-> HasNext(t, limit, offset),
     next |-> Plus(offset, limit)]

-----------------------------------------------------------------------------
Init ==
    /\ InventoryInit
    /\ pc = "idle" /\ req = NoRequest
    /\ total = 0 /\ rows = NoRows /\ found = NoRows
    /\ answer = [kind |-> "none", code |-> 0]
    /\ quiet = TRUE /\ failed = {}
    /\ walk = NoWalk

Ask(r, first) ==
    /\ pc = "idle"
    /\ req' = r
    /\ pc' = first
    /\ total' = 0 /\ rows' = NoRows /\ found' = NoRows
    /\ quiet' = TRUE /\ failed' = {}
    /\ UNCHANGED <<inventory, answer>>

AskPage(limit, offset) ==
    /\ Ask([kind |-> "page", limit |-> limit, offset |-> offset], "count")
    /\ walk' = IF offset = 0 THEN [NoWalk EXCEPT !.on = TRUE, !.quiet = TRUE]
                ELSE NoWalk

FollowNext ==
    /\ answer.kind = "page" /\ answer.code = 200 /\ answer.pager.hasNext
    /\ IF answer.pager.next < 0
       THEN /\ pc = "idle"
            /\ answer' = [kind |-> "page", code |-> 400]
            /\ UNCHANGED <<inventory, pc, req, total, rows, found, quiet, failed, walk>>
       ELSE /\ Ask([kind |-> "page", limit |-> answer.limit, offset |-> answer.pager.next], "count")
            /\ UNCHANGED walk

(* matching stands for the filters on the columns of the host itself, port *)
(* is the number asked for, or AnyPort.                                    *)
AskAPI(matching, port, limit, offset) ==
    /\ Ask([kind |-> "api", matching |-> matching, port |-> port,
            limit |-> limit, offset |-> offset], "list")
    /\ walk' = NoWalk

AskExport == Ask([kind |-> "export"], "list") /\ walk' = NoWalk

AskHost(ip) == Ask([kind |-> "host", ip |-> ip], "get") /\ walk' = NoWalk

Reply(a) ==
    /\ answer' = a
    /\ pc' = "idle"
    /\ UNCHANGED <<inventory, req, quiet, failed>>

-----------------------------------------------------------------------------
(* handleHosts (and handleScans, which is the same over the scans).        *)
Count ==
    /\ pc = "count"
    /\ total' = Cardinality(HostRows)
    /\ pc' = "window"
    /\ UNCHANGED <<inventory, req, rows, found, answer, quiet, failed, walk>>

ShowPage ==
    /\ pc = "window"
    /\ LET page == Window(HostRows, req.limit, req.offset)
       IN /\ Reply([kind |-> "page", code |-> 200, limit |-> req.limit, rows |-> page,
                    pager |-> Pager(total, req.limit, req.offset)])
          /\ walk' = IF ~walk.on THEN NoWalk
                     ELSE [walk EXCEPT !.seen = @ \cup page,
                                       !.twice = @ \/ walk.seen \cap page # {}]
    /\ UNCHANGED <<total, rows, found>>

(* A query the handler cannot do without fails.                            *)
Fails ==
    /\ pc \in {"count", "window", "list", "get"}
    /\ Reply(Refused(500))
    /\ walk' = NoWalk
    /\ UNCHANGED <<total, rows, found>>

(* handleAPIHosts, handleExportJSON and handleExportCSV: hosts.List first. *)
NeedsPorts == req.kind = "export" \/ req.port # AnyPort

List ==
    /\ pc = "list"
    /\ rows' = Listed
    /\ pc' = IF NeedsPorts THEN "ports" ELSE "reply"
    /\ UNCHANGED <<inventory, req, total, found, answer, quiet, failed, walk>>

(* handleHostDetail and handleAPIHostDetail: hosts.GetByIP first.          *)
GetByIP ==
    /\ pc = "get"
    /\ IF req.ip \in HostRows
       THEN /\ rows' = [ip \in {req.ip} |-> hosts[ip]]
            /\ pc' = "ports"
            /\ UNCHANGED <<inventory, req, answer, quiet, failed>>
       ELSE Reply(Refused(404)) /\ UNCHANGED rows
    /\ UNCHANGED <<total, found, walk>>

Todo == {ip \in DOMAIN rows \ DOMAIN found : \A i \in DOMAIN rows \ DOMAIN found : ip <= i}

Read(ip, portRows) == found' = [i \in DOMAIN found \cup {ip} |-> IF i = ip THEN portRows ELSE found[i]]

ListByHostOnce ==        \* mutant: the ports of an earlier host stand for all
    /\ pc = "ports"
    /\ \E ip \in Todo :
          IF DOMAIN found = {} THEN Read(ip, PortsOf(rows[ip]))
          ELSE \E i \in DOMAIN found : Read(ip, found[i])
    /\ UNCHANGED <<inventory, pc, req, total, rows, answer, quiet, failed, walk>>

(* ports.ListByHost for the next row; on an error all four handlers go on  *)
(* as if the host had no ports.                                            *)
ListByHost ==
    /\ pc = "ports"
    /\ \E ip \in Todo :
          \/ Read(ip, PortsOf(rows[ip])) /\ UNCHANGED failed
          \/ Failures /\ Read(ip, {}) /\ failed' = failed \cup {ip}
    /\ UNCHANGED <<inventory, pc, req, total, rows, answer, quiet, walk>>

HasPortRow(ip) == \E p \in found[ip] : p.number = req.port   \* mutant: a closed port counts too

(* The number and the state decide; the protocol is not looked at.         *)
HasPort(ip) == \E p \in found[ip] : p.number = req.port /\ p.state = "open"

Matches(ip) == ip \in req.matching /\ (req.port # AnyPort => HasPort(ip))

ShowRows ==
    /\ pc \in {"ports", "reply"}
    /\ pc = "ports" => DOMAIN found = DOMAIN rows
    /\ IF req.kind = "api"
       THEN LET matched == {ip \in DOMAIN rows : Matches(ip)}
            IN Reply([kind |-> "api", code |-> 200, total |-> Cardinality(matched),
                      rows |-> Window(matched, req.limit, req.offset)])
       ELSE Reply([kind |-> req.kind, code |-> 200, rows |-> DOMAIN rows])
    /\ UNCHANGED <<total, rows, found, walk>>

AgentWrites ==
    /\ InventoryNext
    /\ quiet' = FALSE
    /\ walk' = [walk EXCEPT !.quiet = FALSE]
    /\ UNCHANGED <<pc, req, total, rows, found, answer, failed>>

Next ==
    \/ \E limit \in Limits, offset \in Offsets :
          \/ AskPage(limit, offset)
          \/ \E matching \in {IPs, {}} \cup {{ip} : ip \in IPs}, 
             port \in {AnyPort} \cup {probe.number : probe \in Probes} :
                AskAPI(matching, port, limit, offset)
    \/ FollowNext \/ AskExport \/ \E ip \in IPs : AskHost(ip)
    \/ Count \/ ShowPage \/ Fails \/ List \/ GetByIP \/ ListByHost \/ ShowRows
    \/ AgentWrites

Spec == Init /\ [][Next]_vars

-----------------------------------------------------------------------------
(* Type invariant.                                                         *)
TypeOK ==
    /\ InventoryTypeOK
    /\ pc \in {"idle", "count", "window", "list", "get", "ports", "reply"}
    /\ req.kind \in {"none", "page", "api", "export", "host"}
    /\ answer.kind \in {"none", "page", "api", "export", "host"}
    /\ answer.code \in {0, 200, 400, 404, 500}
    /\ total \in Nat
    /\ DOMAIN rows \subseteq IPs /\ \A ip \in DOMAIN rows : rows[ip] \in Nat \ {0}
    /\ DOMAIN found \subseteq DOMAIN rows
    /\ \A ip \in DOMAIN found : found[ip] \subseteq PortRows
    /\ quiet \in BOOLEAN /\ failed \subseteq IPs

Answered(kind) == pc # "idle" /\ pc' = "idle" /\ answer'.kind = kind /\ answer'.code = 200

(* A client that follows the Next links from offset 0 to the page without  *)
(* one has seen every host, and none of them twice, if nothing is written. *)
WalkSeesAll ==
    [][Answered("page") /\ walk'.on /\ walk'.quiet /\ ~answer'.pager.hasNext
          => walk'.seen = HostRows /\ ~walk'.twice]_vars

(* Whatever is deleted, inserted and saved between the lookups, a host is  *)
(* shown, exported or filtered by ports of its own only.                   *)
OwnPorts == \A ip \in DOMAIN found : \A p \in found[ip] : p.of = ip

(* The hosts of the tables a filter asks for: by port, those with an open  *)
(* row of that number, of either protocol.                                 *)
Selected ==
    {ip \in HostRows \cap req.matching :
        req.port # AnyPort => \E p \in ports : /\ p.of = ip /\ p.number = req.port
                                               /\ p.state = "open"}

(* If nothing was written, total counts the hosts the filter selects, also *)
(* the ones that are not on the page and the ones after a host whose       *)
(* lookup failed; only that host itself is missing (api.go:100).           *)
FilterIsExact ==
    [][Answered("api") /\ quiet => answer'.total = Cardinality(Selected \ failed)]_vars
=============================================================================
