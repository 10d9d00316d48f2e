------------------------------- MODULE Sweeps -------------------------------
(***************************************************************************)
(* A process from its config file to the inventory of one address, over    *)
(* many sweeps. Config loads the file, Profiles resolves the scanner       *)
(* section and picks the options of a scan, Addresses lists what to probe, *)
(* and here the goroutine of Scan for one address goes through its stages  *)
(* with these options: the race of the liveness dials, the host row with a *)
(* blank type, the ports found by deepScan and udpScan, the type made of   *)
(* all of it by Classifier, and the second write of the row. Each sweep is *)
(* a cycle of its own and ends with pruneStale. The device at the address  *)
(* changes, dials are lost, store calls fail and sweeps are cut off; a     *)
(* restart goes on with the same file and the rows that are there. Module  *)
(* Scanner has the goroutines of one sweep side by side; here they answer  *)
(* one after the other, in any order.                                      *)
(***************************************************************************)
EXTENDS Profiles, Config, Classifier

CONSTANTS
    Startups,      \* [file, env, section]: what a process may be started with
    Shape,         \* Shape[d]: [tcp, udp, arp], what answers at a device d
    ListedPorts,   \* [probe, deep, udp]: the lists an operator has written
    HostTTL        \* host_ttl in sweeps, 0 for none

ASSUME ListsAssumption ==
    /\ \A list \in {"probe", "deep", "udp"} : ListedPorts[list] \subseteq 1..65535
    /\ HostTTL \in Nat

ASSUME SectionsAssumption ==
    \A s \in Startups : /\ s.section.flat \in Seq(Names)
                        /\ s.section.profiles \in Seq(ProfileSections)
                        /\ s.section.global \in GlobalSections
                        /\ s.section.block \in [Parseable -> Blocks]

VARIABLES
    device,     \* what is at the address, of cfg.devices
    stage,      \* "idle", "upsert", "liveness", "deep", "udp", "classify", "prune"
    sight,      \* what the goroutine of the address holds
    row,        \* the row of the address in hosts
    rows,       \* its rows in ports: <<protocol, number>> to [state, service]
    missed,     \* sweeps since last_seen
    clean,      \* nothing went wrong in this sweep, and the device stayed
    told,       \* history: the sweep that got to its end last, whole if no
                \* other has written row since
    answered,   \* history: TCP ports that answered since row was inserted
    troubles    \* faults and changes so far, bounded by cfg.faults

sweepVars == <<device, stage, sight, row, rows, missed, clean, told, answered, troubles>>
vars == <<profileVars, configVars, sweepVars>>

NoRow == [vendor |-> "", osfp |-> "", type |-> "no row"]
NoSweep == [whole |-> FALSE, clean |-> FALSE]
Blank == [winner |-> 0, vendor |-> "", osfp |-> "", tcp |-> {}, udp |-> {}, dialled |-> {}]

Init ==
    /\ \E s \in Startups : file = s.file /\ env = s.env /\ cfg = s.section
    /\ ConfigInit /\ ProfilesInit
    /\ device \in cfg.devices
    /\ stage = "idle" /\ sight = Blank /\ clean = TRUE
    /\ row = NoRow /\ rows = <<>> /\ missed = 0
    /\ told = NoSweep /\ answered = {} /\ troubles = 0

-----------------------------------------------------------------------------
DefaultProbePorts == {22, 80, 443, 8080}
DefaultDeepProbePorts ==
    {21, 22, 23, 25, 53, 80, 110, 111, 135, 139, 143, 443, 445, 465, 587, 993, 995, 1433,
     1723, 2049, 3000, 3306, 3389, 5432, 5900, 6379, 8000, 8080, 8443, 8888, 9090, 9100,
     11211, 27017}

PortsIn(list, listed, builtin) ==
    CASE list = Listed -> listed [] list = Builtin -> builtin [] OTHER -> {}

ProbePorts(o) == PortsIn(o.probe, ListedPorts.probe, DefaultProbePorts)
DeepPorts(o) ==
    IF o.deepOn = On THEN PortsIn(o.deep, ListedPorts.deep, DefaultDeepProbePorts) ELSE {}
UDPPorts(o) == PortsIn(o.udp, ListedPorts.udp, {})

Opts == options[current]
Open(d) == DOMAIN Shape[d].tcp
UDPAnswers(d) == {p \in DOMAIN Shape[d].udp : Shape[d].udp[p] # "refused"}
Vendor(d, o) == IF o.arpOn = On THEN LookupARP(Shape[d].arp) ELSE ""

Trouble == troubles < cfg.faults /\ troubles' = troubles + 1
Unless(fault) == IF fault THEN Trouble /\ clean' = FALSE ELSE UNCHANGED <<troubles, clean>>

Older == IF missed < HostTTL THEN missed + 1 ELSE missed

-----------------------------------------------------------------------------
(* probe: the first of the liveness dials to answer wins. Its banner may   *)
(* not come in time, and none of the dials may get through.                *)
Found(winner) ==
    /\ \E osfp \in {Fingerprint(winner, Shape[device].tcp[winner]), ""} :
          /\ Unless(osfp # Fingerprint(winner, Shape[device].tcp[winner]))
          /\ sight' = [Blank EXCEPT !.winner = winner, !.osfp = osfp, !.tcp = {winner},
                                    !.vendor = Vendor(device, Opts)]
    /\ stage' = "upsert"
    /\ UNCHANGED missed

NotFound ==
    /\ Unless(ProbePorts(Opts) \cap Open(device) # {})
    /\ stage' = "prune" /\ missed' = Older
    /\ UNCHANGED sight

Probe ==
    /\ walk = "probe" /\ stage = "idle"
    /\ NotFound \/ \E winner \in ProbePorts(Opts) \cap Open(device) : Found(winner)
    /\ UNCHANGED <<device, row, rows, told, answered>>

Row(type) == [vendor |-> sight.vendor, osfp |-> sight.osfp, type |-> type]

WriteRowKeepsType(type) ==      \* mutant: a blank type does not overwrite one
    row' = Row(IF type = "" /\ row # NoRow THEN row.type ELSE type)

(* hosts.Upsert: every column of the row is overwritten.                   *)
WriteRow(type) == row' = Row(type)

UpsertHost ==
    /\ stage = "upsert"
    /\ \/ /\ WriteRow("")
          /\ missed' = 0 /\ told' = [told EXCEPT !.whole = FALSE]
          /\ stage' = "liveness"
          /\ UNCHANGED <<troubles, clean>>
       \/ /\ Unless(TRUE)
          /\ missed' = Older /\ stage' = "prune"
          /\ UNCHANGED <<row, told>>
    /\ UNCHANGED <<device, sight, rows, answered>>

PortRow(protocol, port, state, service) ==
    rows' = [key \in DOMAIN rows \cup {<<protocol, port>>} |->
                IF key = <<protocol, port>> THEN [state |-> state, service |-> service]
                ELSE rows[key]]

(* upsertPort; a failing write is logged and the stage goes on.            *)
SavePort(protocol, port, state, service) ==
    \/ PortRow(protocol, port, state, service) /\ UNCHANGED <<troubles, clean>>
    \/ UNCHANGED rows /\ Unless(TRUE)

(* The port has answered, and the second dial, for its banner, is lost.    *)
SaveUnheard(protocol, port) == PortRow(protocol, port, "open", "") /\ Unless(TRUE)

SaveLiveness ==
    /\ stage = "liveness"
    /\ SavePort("tcp", sight.winner, "open", sight.osfp)
    /\ answered' = answered \cup {sight.winner}
    /\ stage' = "deep" /\ sight' = [sight EXCEPT !.dialled = {sight.winner}]
    /\ UNCHANGED <<device, row, missed, told>>

SeenDeepOnly(port) ==      \* mutant: deepScan keeps what it has found to itself
    [sight EXCEPT !.dialled = @ \cup {port}]

SeenDeep(port) == [sight EXCEPT !.dialled = @ \cup {port}, !.tcp = @ \cup {port}]

(* A goroutine of deepScan whose dial is answered, or lost. Those whose    *)
(* port is closed leave nothing behind.                                    *)
DeepRest == (DeepPorts(Opts) \cap Open(device)) \ sight.dialled

DeepDial(port) ==
    /\ stage = "deep" /\ port \in DeepRest
    /\ \/ /\ \/ SavePort("tcp", port, "open", Fingerprint(port, Shape[device].tcp[port]))
             \/ SaveUnheard("tcp", port)
          /\ answered' = answered \cup {port}
          /\ sight' = SeenDeep(port)
       \/ /\ sight' = [sight EXCEPT !.dialled = @ \cup {port}]
          /\ Unless(TRUE)
          /\ UNCHANGED <<rows, answered>>
    /\ UNCHANGED <<device, stage, row, missed, told>>

DeepEnds ==
    /\ stage = "deep" /\ DeepRest = {}
    /\ stage' = "udp" /\ sight' = [sight EXCEPT !.dialled = {}]
    /\ UNCHANGED <<device, row, rows, missed, clean, told, answered, troubles>>

(* probeUDP: an answer, a refusal, or silence, which leaves the row alone. *)
UDPRest == (UDPPorts(Opts) \cap DOMAIN Shape[device].udp) \ sight.dialled

SaveUDPIfOpen(port, speaks) ==      \* mutant: a refusal is not written down
    IF speaks = "refused" THEN UNCHANGED <<rows, troubles, clean>>
    ELSE SavePort("udp", port, "open", UDPFingerprint(port, speaks))

SaveUDP(port, speaks) ==
    IF speaks = "refused" THEN SavePort("udp", port, "closed", "")
    ELSE SavePort("udp", port, "open", UDPFingerprint(port, speaks))

UDPProbe(port) ==
    /\ stage = "udp" /\ port \in UDPRest
    /\ LET speaks == Shape[device].udp[port]
       IN \/ /\ SaveUDP(port, speaks) \/ (speaks # "refused" /\ SaveUnheard("udp", port))
             /\ sight' = [sight EXCEPT !.dialled = @ \cup {port},
                                       !.udp = IF speaks = "refused" THEN @ ELSE @ \cup {port}]
          \/ /\ sight' = [sight EXCEPT !.dialled = @ \cup {port}]
             /\ Unless(TRUE)
             /\ UNCHANGED rows
    /\ UNCHANGED <<device, stage, row, missed, told, answered>>

UDPEnds ==
    /\ stage = "udp" /\ UDPRest = {}
    /\ stage' = "classify" /\ sight' = [sight EXCEPT !.dialled = {}]
    /\ UNCHANGED <<device, row, rows, missed, clean, told, answered, troubles>>

(* classify, and the second upsert if there is something to write.         *)
Classify ==
    /\ stage = "classify"
    /\ LET type == DeviceType(sight.vendor, sight.osfp, sight.tcp, sight.udp)
           sweep == [device |-> device, profile |-> current, clean |-> clean, type |-> type,
                     whole |-> TRUE]
       IN \/ /\ IF type = "" THEN UNCHANGED row ELSE WriteRow(type)
             /\ told' = sweep
             /\ UNCHANGED <<troubles, clean>>
          \/ /\ type # "" /\ Unless(TRUE)
             /\ UNCHANGED <<row, told>>
    /\ stage' = "prune"
    /\ UNCHANGED <<device, sight, rows, missed, answered>>

-----------------------------------------------------------------------------
NextSweep == EndWalk /\ stage' = "idle" /\ sight' = Blank /\ clean' = TRUE

DeleteRowOnly == row' = NoRow /\ UNCHANGED rows     \* mutant: no ON DELETE CASCADE

DeleteRow == row' = NoRow /\ rows' = <<>>

Stale == HostTTL > 0 /\ missed = HostTTL /\ row # NoRow

(* pruneStale of a host not seen for HostTTL; a failing delete is tried    *)
(* again at the end of the next cycle.                                     *)
Prune ==
    /\ stage = "prune"
    /\ \/ /\ Stale
          /\ DeleteRow
          /\ answered' = {} /\ told' = NoSweep
          /\ UNCHANGED troubles
       \/ /\ IF Stale THEN Trouble ELSE UNCHANGED troubles
          /\ UNCHANGED <<row, rows, answered, told>>
    /\ NextSweep
    /\ UNCHANGED <<device, missed>>

(* The context is cancelled or the process dies, and is started again.     *)
Cut ==
    /\ stage \notin {"idle", "prune"}
    /\ Trouble
    /\ NextSweep
    /\ missed' = IF stage = "upsert" THEN Older ELSE missed
    /\ UNCHANGED <<device, row, rows, told, answered>>

(* scans.Create fails, and the subnet is not swept in this cycle.          *)
NoScanRecord ==
    /\ walk = "probe" /\ stage = "idle"
    /\ Trouble
    /\ missed' = Older /\ stage' = "prune"
    /\ UNCHANGED <<device, sight, row, rows, clean, told, answered>>

(* A service starts or stops, another machine takes the address, or none.  *)
ChangeDevice ==
    /\ pc = "built"
    /\ \E d \in cfg.devices \ {device} : device' = d
    /\ Trouble
    /\ clean' = (stage = "idle")
    /\ UNCHANGED <<stage, sight, row, rows, missed, told, answered>>

-----------------------------------------------------------------------------
LoadConfig == Load /\ UNCHANGED <<profileVars, sweepVars>>

(* runtime.Run has loaded the configuration and goes on with agent.New,    *)
(* and the agent scans one subnet after the other.                         *)
RunAgent == boot = "loaded" /\ ProfilesNext /\ UNCHANGED <<configVars, sweepVars>>

UnchangedOutside == UNCHANGED <<configVars, cfg, pc, at, seen, resolved, options, current>>

Sweep ==
    /\ \/ Probe \/ UpsertHost \/ SaveLiveness
       \/ (\E port \in Open(device) : DeepDial(port)) \/ DeepEnds
       \/ (\E port \in DOMAIN Shape[device].udp : UDPProbe(port)) \/ UDPEnds
       \/ Classify \/ NoScanRecord \/ ChangeDevice
    /\ UNCHANGED walkVars
    /\ UnchangedOutside

EndSweep == (Prune \/ Cut) /\ UnchangedOutside

Next == LoadConfig \/ RunAgent \/ Sweep \/ EndSweep

Spec == Init /\ [][Next]_vars

(* The process runs, faults are bounded, and no subnet is left out for     *)
(* good (Agent!CadenceBound).                                              *)
ScanTurn(i) == boot = "loaded" /\ i <= Len(options) /\ Scan(i)
               /\ UNCHANGED <<configVars, sweepVars>>

Fairness == WF_vars(Next) /\ \A i \in 1..2 : SF_vars(ScanTurn(i))

FairSpec == Spec /\ Fairness

-----------------------------------------------------------------------------
(* What net.Listen makes of an address: who can connect. One without a     *)
(* port is not listened on at all, but for the empty one.                  *)
Exposed(addr) == addr \notin {"127.0.0.1", "127.0.0.1:port", "[::1]:port", "localhost:port"}

HealthServes == boot = "loaded" /\ pc # "refused"
AdminServes == pc = "built"

(* The secret of a listener: the environment's, else the file's.           *)
Secret(field) ==
    IF field \in DOMAIN env /\ env[field] # "" THEN env[field]
    ELSE IF file.state = "loaded" /\ field \in DOMAIN file.given THEN file.given[field] ELSE ""

Tokens == {"", "t1", "t2"}
Requests == [method : Methods, auth : {"", "Bearer", "Basic"} \X Tokens,
             header : CSRFTexts, form : CSRFTexts]

(* Whatever mixture of file and environment a process was started with: a  *)
(* request that a listener open to others lets through carries the secret  *)
(* that the innermost source gave for it, and there is one; one that may   *)
(* change state carries the CSRF token too; and no process runs from a     *)
(* file with a secret in it that others can read.                          *)
GuardedRequests ==
    /\ HealthServes /\ Exposed(conf.healthAddr) => \A req \in Requests :
          HealthAdmits(req) => req.auth = <<"Bearer", Secret("healthToken")>>
                               /\ req.auth[2] # ""
    /\ AdminServes /\ Exposed(conf.adminAddr) => \A req \in Requests :
          AdminAdmits(req) => req.auth[2] = Secret("adminToken") /\ req.auth[2] # ""
    /\ AdminServes => \A req \in Requests :
          AdminAdmits(req) /\ req.method = "POST" => "right" \in {req.header, req.form}
    /\ HealthServes /\ file.state = "loaded" /\ ~file.private =>
          \A field \in {"healthToken", "adminToken", "peerToken"} \cap DOMAIN file.given :
             file.given[field] = ""

(* What an observer who knows the device expects a sweep to call it: one   *)
(* type for each port that may win the race.                               *)
Expected(d, o) ==
    {DeviceType(Vendor(d, o), Fingerprint(w, Shape[d].tcp[w]),
                {w} \cup (DeepPorts(o) \cap Open(d)), UDPPorts(o) \cap UDPAnswers(d)) :
        w \in ProbePorts(o) \cap Open(d)}

Stands == walk = "idle" /\ row # NoRow
IsOpen(key) == key \in DOMAIN rows /\ rows[key].state = "open"

(* Between sweeps the type of a host is that of the device which the last  *)
(* sweep to write the row has met, or blank when that sweep was cut off or *)
(* could not write it: never a type of one sweep next to the vendor and    *)
(* the banner of another.                                                  *)
TypeOfLastSweep ==
    Stands => IF ~told.whole THEN row.type = ""
              ELSE told.clean => /\ row.type \in Expected(told.device, options[told.profile])
                                 /\ row.vendor = Vendor(told.device, options[told.profile])

(* Between sweeps, the rows of ports tell what a clean sweep was answered: *)
(* an open row with its service for each port that answered, no open row   *)
(* for a UDP port that refused; and a row says open only if the port has   *)
(* answered since the host was inserted.                                   *)
RowsTellSweeps ==
    Stands =>
      /\ told.whole /\ told.clean =>
           LET d == told.device
               o == options[told.profile]
           IN /\ \A p \in DeepPorts(o) \cap Open(d) :
                    /\ IsOpen(<<"tcp", p>>)
                    /\ rows[<<"tcp", p>>].service = Fingerprint(p, Shape[d].tcp[p])
              /\ \A p \in UDPPorts(o) \cap DOMAIN Shape[d].udp :
                    IsOpen(<<"udp", p>>) <=> p \in UDPAnswers(d)
      /\ \A k \in DOMAIN rows : k[1] = "tcp" => k[2] \in answered

(* Two clean sweeps of one device by one profile call it the same, though  *)
(* another liveness dial may have won: deep probing finds the ports that   *)
(* lost the race. But for the banner of OpenSSH, which is only read when   *)
(* port 22 has won.                                                        *)
Steady(o, d) ==
    /\ ProbePorts(o) \subseteq DeepPorts(o)
    /\ 22 \in ProbePorts(o) \cap Open(d) => Shape[d].tcp[22] \notin OpenSSH

SameHostSameType ==
    [][told'.whole /\ told'.clean /\ told.clean
       /\ told.device = told'.device /\ told.profile = told'.profile
       /\ Steady(options[told.profile], told.device)
       => told'.type = told.type]_told

(* Once nothing goes wrong any more the inventory comes to tell what is at *)
(* the address, and stays so: no row for nobody, and otherwise its type    *)
(* and the ports that the profile asks for.                                *)
Tells ==
    IF ProbePorts(Opts) \cap Open(device) = {} THEN row = NoRow /\ rows = <<>>
    ELSE /\ row.type \in Expected(device, Opts)
         /\ \A p \in DeepPorts(Opts) \cap Open(device) : IsOpen(<<"tcp", p>>)
         /\ \A p \in UDPPorts(Opts) \cap DOMAIN Shape[device].udp :
               IsOpen(<<"udp", p>>) <=> p \in UDPAnswers(device)

Settles ==
    <>[](current # 0 /\ walk = "idle" /\ options[current].scan = "done" => Tells)
=============================================================================
