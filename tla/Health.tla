------------------------------- MODULE Health -------------------------------
(***************************************************************************)
(* What an agent says about itself: the Tracker of internal/health, which  *)
(* the scan loop updates by three separate calls at the end of a cycle,    *)
(* and the /health handler, which may read it between any two of them.     *)
(*                                                                         *)
(* The scan loop is taken as Agent!FreshBound shows it: one that is not    *)
(* stuck lets no more than ScanGap pass between two updates.  Times are    *)
(* distances from now.  ScanCount is not kept: it is 0 exactly while       *)
(* LastScanAt is nil, and its readers ask for no more.                     *)
(***************************************************************************)
EXTENDS Integers

CONSTANTS
    ScanInterval,   \* scanner.scan_interval of the configuration
    ScanGap,        \* longest time between two updates by a live scan loop
    HostCounts,     \* numbers of hosts its table may hold at the end of a cycle
    CycleCounts,    \* numbers of hosts one cycle may find
    Faults          \* faults that may happen

ASSUME IntervalAssumption == ScanInterval \in Nat \ {0} /\ ScanGap \in Nat \ {0}
ASSUME CountAssumption == HostCounts \subseteq Nat /\ CycleCounts \subseteq Nat
ASSUME FaultsAssumption ==
    Faults \subseteq {"wedge", "crash", "badcycle", "badcount", "loss"}

VARIABLES
    up,        \* the process runs and its health server listens
    wedged,    \* its scan loop is stuck inside a scan
    cycle,     \* "scanning", or which tracker call the loop makes next
    healthy,   \* cycleHealthy of the cycle that is ending
    tracker,   \* the Status held by the Tracker
    quiet,     \* time since the last RecordScan, or since the process started
    troubled   \* history: a fault has happened

agent == <<up, wedged, cycle, healthy, tracker, quiet, troubled>>

Never == -1
StaleAfter == 3 * ScanInterval    \* as runtime.go wires it

(* Bound of the relative times: older is no different.                     *)
OldAge == (IF StaleAfter > ScanGap THEN StaleAfter ELSE ScanGap) + 1
Older(n) == IF n = Never THEN Never ELSE IF n < OldAge THEN n + 1 ELSE n

(* The total a cycle reports: the size of the table, or, when Count fails, *)
(* the hosts this cycle found, which may be none with a full table. Where  *)
(* a count comes from is history; "none" is the 0 before the first cycle.  *)
Totals == [count : HostCounts, basis : {"table"}]
            \cup (IF "badcount" \in Faults THEN [count : CycleCounts, basis : {"found"}] ELSE {})
Counts == {0} \cup HostCounts \cup CycleCounts
Bases == {"none", "table", "found"}

NewTracker == [hostCount |-> 0, basis |-> "none", lastScanAt |-> Never, healthy |-> TRUE]

-----------------------------------------------------------------------------
HealthInit ==
    /\ up = TRUE /\ wedged = FALSE
    /\ cycle = "scanning" /\ healthy = TRUE
    /\ tracker = NewTracker /\ quiet = 0
    /\ troubled = FALSE

SetHostCountIfHealthy ==    \* mutant: the count is only set after a good cycle
    /\ up /\ ~wedged /\ cycle = "scanning"
    /\ \E total \in Totals, ok \in BOOLEAN :
          /\ ok => total.basis = "table"
          /\ ok \/ total.basis = "found" \/ "badcycle" \in Faults
          /\ tracker' = IF ok THEN [tracker EXCEPT !.hostCount = total.count,
                                                   !.basis = total.basis]
                        ELSE tracker
          /\ healthy' = ok
          /\ troubled' = (troubled \/ ~ok)
    /\ cycle' = "counted"
    /\ UNCHANGED <<up, wedged, quiet>>

(* The end of a cycle of the scan loop, healthy or not; one that could not *)
(* count its hosts is not.                                                 *)
SetHostCount ==
    /\ up /\ ~wedged /\ cycle = "scanning"
    /\ \E total \in Totals, ok \in BOOLEAN :
          /\ ok => total.basis = "table"
          /\ ok \/ total.basis = "found" \/ "badcycle" \in Faults
          /\ tracker' = [tracker EXCEPT !.hostCount = total.count, !.basis = total.basis]
          /\ healthy' = ok
          /\ troubled' = (troubled \/ ~ok)
    /\ cycle' = "counted"
    /\ UNCHANGED <<up, wedged, quiet>>

RecordScan ==
    /\ up /\ cycle = "counted"
    /\ tracker' = [tracker EXCEPT !.lastScanAt = 0]
    /\ quiet' = 0
    /\ cycle' = "recorded"
    /\ UNCHANGED <<up, wedged, healthy, troubled>>

SetHealthy ==
    /\ up /\ cycle = "recorded"
    /\ tracker' = [tracker EXCEPT !.healthy = healthy]
    /\ cycle' = "scanning"
    /\ UNCHANGED <<up, wedged, healthy, quiet, troubled>>

(* A scan that never returns, such as one in Scanner's gridlock.           *)
Wedge ==
    /\ "wedge" \in Faults
    /\ up /\ ~wedged /\ cycle = "scanning"
    /\ wedged' = TRUE /\ troubled' = TRUE
    /\ UNCHANGED <<up, cycle, healthy, tracker, quiet>>

Crash ==
    /\ "crash" \in Faults
    /\ up
    /\ up' = FALSE /\ wedged' = FALSE /\ cycle' = "scanning" /\ troubled' = TRUE
    /\ UNCHANGED <<healthy, tracker, quiet>>

(* The supervisor starts the process again, with a new tracker.            *)
Restart ==
    /\ ~up
    /\ up' = TRUE
    /\ tracker' = NewTracker /\ quiet' = 0
    /\ UNCHANGED <<wedged, cycle, healthy, troubled>>

Loop == SetHostCount \/ RecordScan \/ SetHealthy
Life == Wedge \/ Crash \/ Restart

(* Time passes while the loop scans, but not between its tracker calls;    *)
(* unless it is stuck, it does not let more than ScanGap pass.             *)
Ageing ==
    /\ cycle = "scanning"
    /\ up /\ ~wedged => quiet < ScanGap
    /\ tracker' = [tracker EXCEPT !.lastScanAt = Older(@)]
    /\ quiet' = Older(quiet)
    /\ UNCHANGED <<up, wedged, cycle, healthy, troubled>>

-----------------------------------------------------------------------------
StaleNeverTooLong(lastScanAt) ==    \* mutant: compared with one scan interval
    lastScanAt # Never /\ lastScanAt > ScanInterval

(* handleHealth: 200 unless unhealthy or stale.                            *)
TooLong(lastScanAt) == lastScanAt # Never /\ lastScanAt > StaleAfter

Serves200 == up /\ tracker.healthy /\ ~TooLong(tracker.lastScanAt)

-----------------------------------------------------------------------------
(* Type invariant of the tracker and the loop that writes it: a Status that *)
(* shows a scan shows the host count of a cycle, never the one it was born  *)
(* with.                                                                   *)
HealthTypeOK ==
    /\ up \in BOOLEAN /\ wedged \in BOOLEAN /\ healthy \in BOOLEAN
    /\ cycle \in {"scanning", "counted", "recorded"}
    /\ tracker \in [hostCount : Counts, basis : Bases,
                    lastScanAt : {Never} \cup 0..OldAge, healthy : BOOLEAN]
    /\ tracker.lastScanAt # Never => tracker.basis # "none"
    /\ quiet \in 0..OldAge
    /\ troubled \in BOOLEAN

=============================================================================
