------------------------------- MODULE Agent -------------------------------
(***************************************************************************)
(* The scan loop of internal/agent/agent.go: the ticker, the on-demand     *)
(* trigger, the choice of due profiles, a cycle with its scans, pruning,   *)
(* change events and tracker update.                                       *)
(*                                                                         *)
(* Time is relative: every time the code keeps is held as its distance     *)
(* from now, so the loop runs for ever over finitely many states.  A scan  *)
(* of one subnet is one step with the outcome ScanContract allows.  Map    *)
(* and slice orders are dropped: due profiles are scanned in any order.    *)
(***************************************************************************)
EXTENDS Integers, FiniteSets

CONSTANTS
    Subnets,       \* Subnet of each resolved profile
    Answers,       \* [Subnets -> set of addresses that may answer there]
    Interval,      \* [Subnets -> ScanInterval]
    HostTTL,       \* 0: host pruning disabled
    ScanTTL,       \* 0: scan-history pruning disabled
    MaxCycle,      \* bound: no cycle takes longer than this
    Jitter,        \* bound: how late the loop may be scheduled
    OnDemand,      \* TRUE if somebody posts to /scan
    Failures       \* the calls that may fail by themselves

IPs == UNION {Answers[s] : s \in Subnets}

ASSUME ProfilesAssumption ==
    /\ IsFiniteSet(Subnets)
    /\ Interval \in [Subnets -> Nat \ {0}]
    /\ IsFiniteSet(IPs)
ASSUME TimesAssumption ==
    HostTTL \in Nat /\ ScanTTL \in Nat /\ MaxCycle \in Nat \ {0} /\ Jitter \in Nat
ASSUME SwitchesAssumption == OnDemand \in BOOLEAN
ASSUME FailuresAssumption == Failures \subseteq {"scan", "list", "prune", "count"}

VARIABLES
    ctxDone,     \* the context of Run is cancelled
    pc,          \* where Run is
    tickIn,      \* time to the next firing of the ticker, 0 before NewTicker
    tick,        \* a firing waits in ticker.C
    late,        \* how long a ready channel has waited for the loop to run
    trigger,     \* a request waits in a.trigger
    dueIn,       \* time until nextDue of each subnet, 0 when it has passed
    due,         \* profiles this cycle has still to scan
    age,         \* time since started, the time this cycle began
    prev,        \* addresses of the pre-cycle snapshot; nil and {} act alike
    ok,          \* cycleHealthy
    cycleHosts,  \* hosts the scans of this cycle reported
    unseen,      \* time since last_seen of each host row, Gone if no row
    scanAges,    \* ages of the rows of table scans
    hostCount,   \* tracker: HostCount
    healthy,     \* tracker: Healthy
    scannedAgo   \* tracker: time since LastScanAt, Never before the first

(* History: what observers of the loop have seen.                          *)
VARIABLES
    asked,       \* a Trigger call has not been followed by a full cycle yet
    silent,      \* time since the start of the last cycle that tried a subnet
    missed,      \* hosts some scan of their subnet did not find since last_seen
    pruned,      \* host rows deleted in this cycle
    events,      \* events of this cycle
    known        \* hosts a consumer of all the events believes are there

clock == <<tickIn, tick, late>>
cycle == <<due, age, prev, ok, cycleHosts>>
tracker == <<hostCount, healthy, scannedAgo>>
cycleHistory == <<pruned, events, known>>
history == <<asked, silent, missed, cycleHistory>>
vars == <<ctxDone, pc, clock, trigger, dueIn, cycle, unseen, scanAges, tracker, history>>

Gone == -1
Never == -1
Smallest(S) == CHOOSE x \in S : \A y \in S : x <= y
AtLeast0(n) == IF n < 0 THEN 0 ELSE n
Cap(n, bound) == IF n > bound THEN bound ELSE n

(* The shortest profile interval; the floor of one second is the time unit. *)
TickInterval == IF Subnets = {} THEN 1
                ELSE Smallest({Interval[s] : s \in Subnets})

(* Bounds of the relative times: past these nothing distinguishes them.    *)
UnseenBound == HostTTL + MaxCycle + 1
ScanAgeBound == ScanTTL + MaxCycle + 1
SilentBound(s) == Interval[s] + TickInterval + 2 * MaxCycle + 2 * Jitter + 1
AgoBound == TickInterval + 2 * MaxCycle + Jitter + 1

Inventory == {ip \in IPs : unseen[ip] # Gone}
InCycle == pc \in {"scan", "diff", "publish"}
Ready == pc = "select" /\ (tick \/ trigger \/ ctxDone)

(* Outcomes of a call: Scan, List of a snapshot, those of the two prunings *)
(* or Count.                                                               *)
CallOK == ~ctxDone
CallFail(call) == ctxDone \/ call \in Failures

-----------------------------------------------------------------------------
Init ==
    /\ ctxDone = FALSE /\ pc = "boot"
    /\ tickIn = 0 /\ tick = FALSE /\ late = 0 /\ trigger = FALSE
    /\ dueIn = [s \in Subnets |-> 0]
    /\ due = {} /\ age = 0 /\ prev = {} /\ ok = TRUE /\ cycleHosts = 0
    /\ unseen \in [IPs -> {Gone, UnseenBound}]   \* rows of an earlier life
    /\ scanAges \in SUBSET {ScanAgeBound}
    /\ hostCount = 0 /\ healthy = TRUE /\ scannedAgo = Never
    /\ asked = FALSE /\ silent = [s \in Subnets |-> 0] /\ missed = {}
    /\ pruned = {} /\ events = {} /\ known = Inventory

-----------------------------------------------------------------------------
(* The clock.  A busy cycle ends within MaxCycle; an idle loop reacts to a *)
(* ready channel within Jitter.  The ticker fires at its own pace; its     *)
(* channel holds one firing and drops the others.                          *)
Older(n, bound) == Cap(n + 1, bound)

ClockStep ==
    /\ pc \notin {"boot", "stopped"}
    /\ InCycle => age < MaxCycle
    /\ Ready => late < Jitter
    /\ late' = IF Ready THEN late + 1 ELSE 0
    /\ tickIn' = IF tickIn = 1 THEN TickInterval ELSE AtLeast0(tickIn - 1)
    /\ tick' = (tick \/ tickIn = 1)
    /\ dueIn' = [s \in Subnets |-> AtLeast0(dueIn[s] - 1)]
    /\ age' = IF InCycle THEN age + 1 ELSE age
    /\ unseen' = [ip \in IPs |-> IF unseen[ip] = Gone THEN Gone
                                 ELSE Older(unseen[ip], UnseenBound)]
    /\ scanAges' = {Older(a, ScanAgeBound) : a \in scanAges}
    /\ scannedAgo' = IF scannedAgo = Never THEN Never ELSE Older(scannedAgo, AgoBound)
    /\ silent' = [s \in Subnets |-> Older(silent[s], SilentBound(s))]
    /\ UNCHANGED <<ctxDone, pc, trigger, due, prev, ok, cycleHosts, hostCount, healthy,
                   asked, missed, cycleHistory>>

(* Agent.Trigger, called by an HTTP handler at any time.                   *)
Trigger ==
    /\ pc # "stopped"
    /\ OnDemand
    /\ trigger' = TRUE
    /\ asked' = TRUE
    /\ UNCHANGED <<ctxDone, pc, clock, dueIn, cycle, unseen, scanAges, tracker,
                   silent, missed, cycleHistory>>

Cancel ==
    /\ ~ctxDone
    /\ ctxDone' = TRUE
    /\ UNCHANGED <<pc, clock, trigger, dueIn, cycle, unseen, scanAges, tracker, history>>

-----------------------------------------------------------------------------
(* Head of runCycle: the snapshot and the choice of due profiles.          *)
IsDue(s) == dueIn[s] = 0

Snapshot == \/ CallOK /\ prev' = Inventory
            \/ CallFail("list") /\ prev' = {}

StartCycle(forceAll) ==
    /\ Snapshot
    /\ due' = IF forceAll THEN Subnets ELSE {s \in Subnets : IsDue(s)}
    /\ age' = 0 /\ late' = 0 /\ ok' = TRUE /\ cycleHosts' = 0
    /\ pc' = "scan"
    /\ asked' = (asked /\ ~forceAll)
    /\ pruned' = {} /\ events' = {}
    /\ UNCHANGED <<ctxDone, tickIn, dueIn, unseen, scanAges, tracker, silent, missed, known>>

(* Run: one full cycle first, then the select.                             *)
FirstCycle ==
    /\ pc = "boot"
    /\ StartCycle(TRUE)
    /\ UNCHANGED <<tick, trigger>>

TakeStop ==
    /\ pc = "select" /\ ctxDone
    /\ pc' = "stopped"
    /\ UNCHANGED <<ctxDone, clock, trigger, dueIn, cycle, unseen, scanAges, tracker, history>>

TakeTick ==
    /\ pc = "select" /\ tick
    /\ tick' = FALSE
    /\ StartCycle(FALSE)
    /\ UNCHANGED trigger

TakeTriggerLast ==       \* mutant: the trigger is only looked at when no tick is ready
    /\ pc = "select" /\ trigger /\ ~tick
    /\ trigger' = FALSE
    /\ StartCycle(TRUE)
    /\ UNCHANGED tick

TakeTrigger ==
    /\ pc = "select" /\ trigger
    /\ trigger' = FALSE
    /\ StartCycle(TRUE)
    /\ UNCHANGED tick

NextDueFromEnd(s) == Interval[s]             \* mutant: counted from now, not from started

(* nextDue = started + interval, as a distance from now.                   *)
NextDue(s) == AtLeast0(Interval[s] - age)

(* One due profile: Scan records the hosts it finds, or fails before it    *)
(* has recorded anything; nextDue moves only after a success.              *)
ScanSubnet(s) ==
    /\ pc = "scan" /\ s \in due
    /\ due' = due \ {s}
    /\ silent' = [silent EXCEPT ![s] = age]
    /\ \/ /\ CallOK
          /\ \E found \in SUBSET Answers[s] :
                /\ unseen' = [ip \in IPs |-> IF ip \in found THEN 0 ELSE unseen[ip]]
                /\ missed' = (missed \cup Answers[s]) \ found
                /\ cycleHosts' = cycleHosts + Cardinality(found)
          /\ scanAges' = scanAges \cup {0}
          /\ dueIn' = [dueIn EXCEPT ![s] = NextDue(s)]
          /\ ok' = ok
       \/ /\ CallFail("scan")
          /\ ok' = FALSE
          /\ UNCHANGED <<unseen, missed, cycleHosts, scanAges, dueIn>>
    /\ UNCHANGED <<ctxDone, pc, clock, trigger, age, prev, tracker,
                   asked, pruned, events, known>>

StaleOffByOne ==         \* mutant: a host seen exactly a TTL ago is stale
    IF HostTTL = 0 THEN {} ELSE {ip \in Inventory : unseen[ip] >= age + HostTTL}

(* pruneStale and pruneScans.  A host is stale when last_seen lies before  *)
(* started - HostTTL.                                                      *)
Stale == IF HostTTL = 0 THEN {} ELSE {ip \in Inventory : unseen[ip] > age + HostTTL}
OldScans == IF ScanTTL = 0 THEN {} ELSE {a \in scanAges : a > age + ScanTTL}

Prune ==
    /\ pc = "scan" /\ due = {}
    /\ \E deleted \in SUBSET Stale :
          /\ deleted = Stale \/ CallFail("prune")
          /\ deleted = {} \/ CallOK
          /\ unseen' = [ip \in IPs |-> IF ip \in deleted THEN Gone ELSE unseen[ip]]
          /\ pruned' = deleted
    /\ \/ CallOK /\ scanAges' = scanAges \ OldScans
       \/ CallFail("prune") /\ scanAges' = scanAges
    /\ pc' = "diff"
    /\ UNCHANGED <<ctxDone, clock, trigger, dueIn, cycle, tracker,
                   asked, silent, missed, events, known>>

ChangesOnlyNew(before, after) ==   \* mutant: the vanished half is missing
    [type : {"discovered"}, ip : after \ before]

(* emitChangeEvents, skipped after an unhealthy cycle or a failed List.    *)
Changes(before, after) ==
    [type : {"discovered"}, ip : after \ before] \cup [type : {"vanished"}, ip : before \ after]

Emit(es) ==
    /\ events' = es
    /\ known' = (known \cup {e.ip : e \in {d \in es : d.type = "discovered"}})
                  \ {e.ip : e \in {v \in es : v.type = "vanished"}}

DiffIgnoresListError ==  \* mutant: a failed List is taken for an empty inventory
    /\ pc = "diff"
    /\ \/ ok /\ CallOK /\ Emit(Changes(prev, Inventory))
       \/ ok /\ CallFail("list") /\ Emit(Changes(prev, {}))
       \/ ~ok /\ UNCHANGED <<events, known>>
    /\ pc' = "publish"
    /\ UNCHANGED <<ctxDone, clock, trigger, dueIn, cycle, unseen, scanAges, tracker,
                   asked, silent, missed, pruned>>

Diff ==
    /\ pc = "diff"
    /\ \/ ok /\ CallOK /\ Emit(Changes(prev, Inventory))
       \/ (~ok \/ CallFail("list")) /\ UNCHANGED <<events, known>>
    /\ pc' = "publish"
    /\ UNCHANGED <<ctxDone, clock, trigger, dueIn, cycle, unseen, scanAges, tracker,
                   asked, silent, missed, pruned>>

RecordScanIfHealthy == scannedAgo' = IF ok THEN 0 ELSE scannedAgo   \* mutant

Total == Cardinality(Inventory)
RecordScan == scannedAgo' = 0

(* The tracker update; the ticker is created after the first cycle.        *)
Publish ==
    /\ pc = "publish"
    /\ \/ CallOK /\ hostCount' = Total /\ healthy' = ok
       \/ CallFail("count") /\ hostCount' = cycleHosts /\ healthy' = FALSE
    /\ RecordScan
    /\ tickIn' = IF tickIn = 0 THEN TickInterval ELSE tickIn
    /\ pc' = "select"
    /\ UNCHANGED <<ctxDone, tick, late, trigger, dueIn, cycle, unseen, scanAges, history>>

-----------------------------------------------------------------------------
Run == \/ FirstCycle \/ TakeStop \/ TakeTick \/ TakeTrigger
       \/ \E s \in Subnets : ScanSubnet(s)
       \/ Prune \/ Diff \/ Publish

Next == ClockStep \/ Trigger \/ Cancel \/ Run

Spec == Init /\ [][Next]_vars

(* The goroutine of Run is scheduled, time passes, and Go's select picks   *)
(* among its ready channels at random, so it passes none over for ever.    *)
Fairness == /\ WF_vars(Run) /\ WF_vars(ClockStep)
            /\ SF_vars(TakeStop) /\ SF_vars(TakeTick) /\ SF_vars(TakeTrigger)

FairSpec == Spec /\ Fairness

-----------------------------------------------------------------------------
(* Type invariant: the ranges of the loop's state, relative times bounded. *)
TypeOK ==
    /\ ctxDone \in BOOLEAN
    /\ pc \in {"boot", "select", "scan", "diff", "publish", "stopped"}
    /\ tickIn \in 0..TickInterval /\ tick \in BOOLEAN /\ late \in 0..Jitter
    /\ trigger \in BOOLEAN
    /\ dueIn \in [Subnets -> Nat] /\ \A s \in Subnets : dueIn[s] <= Interval[s]
    /\ due \in SUBSET Subnets /\ age \in 0..MaxCycle
    /\ prev \in SUBSET IPs /\ ok \in BOOLEAN /\ cycleHosts \in Nat
    /\ unseen \in [IPs -> {Gone} \cup 0..UnseenBound]
    /\ scanAges \in SUBSET (0..ScanAgeBound)
    /\ hostCount \in Nat /\ healthy \in BOOLEAN
    /\ scannedAgo \in {Never} \cup 0..AgoBound
    /\ asked \in BOOLEAN /\ missed \in SUBSET IPs
    /\ silent \in [Subnets -> Nat] /\ \A s \in Subnets : silent[s] <= SilentBound(s)
    /\ pruned \in SUBSET IPs /\ known \in SUBSET IPs
    /\ events \in SUBSET [type : {"discovered", "vanished"}, ip : IPs]

(* While the loop runs, no profile waits longer for the start of a cycle   *)
(* that tries it than its interval plus one tick (or one cycle, if that is *)
(* longer) plus the scheduling latency, whatever was triggered meanwhile.  *)
Waited(s) == silent[s] - (IF InCycle THEN age ELSE 0)
LongerOf(m, n) == IF m > n THEN m ELSE n

CadenceBound ==
    pc # "stopped" => \A s \in Subnets :
        Waited(s) <= Interval[s] + LongerOf(TickInterval, MaxCycle) + Jitter

(* LastScanAt, which the health endpoint and the peer's watchdog judge the *)
(* loop by, never gets older than a tick, a cycle and the latency.         *)
FreshBound ==
    pc # "stopped" /\ scannedAgo # Never
        => scannedAgo <= TickInterval + MaxCycle + Jitter

(* The events are the whole story: after a cycle all of whose sweeps ended *)
(* well, a consumer that has applied the events knows the inventory, that  *)
(* is, also what changed in the cycles before (README.md:18).              *)
EventsTrackInventory == pc = "select" /\ ok /\ ~ctxDone => known = Inventory

(* host.vanished is only sent for a host that this cycle has deleted, even *)
(* when store calls fail or the context is cancelled in mid-cycle.         *)
VanishedOnlyPruned == \A e \in events : e.type = "vanished" => e.ip \in pruned

(* Pruning deletes a host only after a scan of its subnet has missed it.   *)
PrunedWasMissed == pruned \subseteq missed

(* Every request for a scan is followed by a cycle over every profile,     *)
(* however busy the ticker keeps the loop.                                 *)
TriggerServed == asked ~> (~asked \/ pc = "stopped")

=============================================================================
