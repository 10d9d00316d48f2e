------------------------------ MODULE Watchdog ------------------------------
(***************************************************************************)
(* The watchdog of one agent (internal/watchdog/watchdog.go with the       *)
(* client of internal/health) checking its peer, which is module Health:   *)
(* on every tick a GET /health, after a 200 a GET /status, then the        *)
(* verdicts on freshness and drift, published as PeerStatus.               *)
(*                                                                         *)
(* A handler answers at one moment; the answer may be late, by no more     *)
(* than the client's timeout.  The clocks of the two hosts agree.          *)
(***************************************************************************)
EXTENDS Health

CONSTANTS
    Interval,       \* watchdog.interval
    Timeout,        \* timeout of the client's requests
    MaxFailures     \* watchdog.max_failures

ASSUME WatchdogAssumption ==
    Interval \in Nat \ {0} /\ Timeout \in Nat /\ MaxFailures \in Nat

VARIABLES
    local,      \* host count and "has scanned" of this agent's own tracker
    tickIn,     \* time to the next firing of the ticker
    tick,       \* a firing waits in ticker.C
    wd,         \* where the loop is: "idle", "ping", "fetch", "judge"
    waiting,    \* time since the current request was sent
    failures,   \* w.failures
    answer,     \* the Status fetched from the peer
    view        \* the PeerStatus published last

(* History.                                                                *)
VARIABLES
    pages,      \* increments of PeerDownTotal since the last good ping
    downFor,    \* time the peer's process has been down
    wedgedFor   \* time its scan loop has been stuck without a status being lost

watch == <<local, tickIn, tick, wd, waiting, failures, answer, view, pages>>
history == <<downFor, wedgedFor>>
vars == <<agent, watch, history>>

FailureBound == MaxFailures + 2      \* bound of w.failures; higher is no different
LongTime == (MaxFailures + 2) * Interval + 3 * Timeout + 2 * ScanInterval + 1
Longer(n) == IF n < LongTime THEN n + 1 ELSE n

NoStatus == NewTracker
NoView == [reachable |-> FALSE, failures |-> 0, stale |-> FALSE, scanned |-> FALSE,
           drift |-> 0]

-----------------------------------------------------------------------------
Init ==
    /\ HealthInit
    /\ local = [hostCount |-> 0, basis |-> "none", scanned |-> FALSE]
    /\ tickIn = Interval /\ tick = FALSE
    /\ wd = "idle" /\ waiting = 0 /\ failures = 0
    /\ answer = NoStatus /\ view = NoView
    /\ pages = 0 /\ downFor = 0 /\ wedgedFor = 0

(* The clock.  An idle watchdog takes a tick at once, a request is given   *)
(* up after Timeout; a firing of the ticker finds its channel full or not. *)
ClockStep ==
    /\ Ageing
    /\ wd = "idle" => ~tick
    /\ wd # "idle" => waiting < Timeout
    /\ tickIn' = IF tickIn = 1 THEN Interval ELSE tickIn - 1
    /\ tick' = (tick \/ tickIn = 1)
    /\ waiting' = IF wd = "idle" THEN 0 ELSE waiting + 1
    /\ answer' = [answer EXCEPT !.lastScanAt = Older(@)]
    /\ downFor' = IF up THEN 0 ELSE Longer(downFor)
    /\ wedgedFor' = IF wedged THEN Longer(wedgedFor) ELSE 0
    /\ UNCHANGED <<local, wd, failures, view, pages>>

(* Steps of the peer.                                                      *)
Peer ==
    /\ Loop \/ Life
    /\ downFor' = IF up' THEN 0 ELSE downFor
    /\ wedgedFor' = IF wedged' THEN wedgedFor ELSE 0
    /\ UNCHANGED watch

(* This agent's own scan loop, in the order of its tracker calls. Whether  *)
(* it calls its cycle healthy makes no difference to its own watchdog.     *)
LocalCycle ==
    /\ \/ \E total \in Totals :
             local' = [local EXCEPT !.hostCount = total.count, !.basis = total.basis]
       \/ local.basis # "none" /\ local' = [local EXCEPT !.scanned = TRUE]
    /\ UNCHANGED <<agent, tickIn, tick, wd, waiting, failures, answer, view, pages, history>>

-----------------------------------------------------------------------------
(* Run takes a tick; check sends its first request.                        *)
TakeTick ==
    /\ wd = "idle" /\ tick
    /\ tick' = FALSE /\ wd' = "ping" /\ waiting' = 0
    /\ UNCHANGED <<agent, local, tickIn, failures, answer, view, pages, history>>

CountsEveryFailure(n) == n >= MaxFailures    \* mutant: counted again at each failure

(* The failure that declares the peer down.                                *)
DeclaresDown(n) == n = MaxFailures

OneMoreIfAnswered(n) ==    \* mutant: only a 503 counts, no connection error
    IF up /\ n < FailureBound THEN n + 1 ELSE n
OneMore(n) == IF n < FailureBound THEN n + 1 ELSE n

PingFails ==
    /\ wd = "ping"
    /\ ~Serves200 \/ "loss" \in Faults
    /\ troubled' = (troubled \/ Serves200)
    /\ failures' = OneMore(failures)
    /\ pages' = IF DeclaresDown(failures + 1) /\ pages < 2 THEN pages + 1 ELSE pages
    /\ view' = [NoView EXCEPT !.failures = failures']
    /\ wd' = "idle" /\ waiting' = 0 /\ answer' = NoStatus
    /\ UNCHANGED <<up, wedged, cycle, healthy, tracker, quiet, local, tickIn, tick,
                   downFor, wedgedFor>>

PingSucceeds ==
    /\ wd = "ping" /\ Serves200
    /\ failures' = 0 /\ pages' = 0
    /\ wd' = "fetch" /\ waiting' = 0
    /\ UNCHANGED <<agent, local, tickIn, tick, answer, view, history>>

(* handleStatus copies the tracker, at a moment of its own.                *)
ServeStatus ==
    /\ wd = "fetch" /\ up
    /\ answer' = tracker
    /\ wd' = "judge"
    /\ UNCHANGED <<agent, local, tickIn, tick, waiting, failures, view, pages, history>>

FetchFails ==
    /\ wd \in {"fetch", "judge"}
    /\ ~up \/ "loss" \in Faults
    /\ troubled' = TRUE
    /\ view' = [NoView EXCEPT !.reachable = TRUE]
    /\ wd' = "idle" /\ waiting' = 0 /\ answer' = NoStatus
    /\ wedgedFor' = 0
    /\ UNCHANGED <<up, wedged, cycle, healthy, tracker, quiet, local, tickIn, tick,
                   failures, pages, downFor>>

-----------------------------------------------------------------------------
FreshIfNeverScanned(lastScanAt) ==    \* mutant: a peer that never scanned is fresh
    lastScanAt <= 2 * ScanInterval

(* checkFreshness.                                                         *)
Fresh(lastScanAt) == lastScanAt # Never /\ lastScanAt <= 2 * ScanInterval

(* checkConsistency skips a side that has not completed a scan yet.        *)
Comparable(mine, theirs) == mine.scanned /\ theirs.lastScanAt # Never

(* Drift in tenths of a percent of the larger count, rounded half up.      *)
Drift(m, n) ==
    LET larger == IF m > n THEN m ELSE n
        apart == IF m > n THEN m - n ELSE n - m
    IN  IF larger = 0 THEN 0 ELSE (2000 * apart + larger) \div (2 * larger)

Judge ==
    /\ wd = "judge"
    /\ view' = [reachable |-> TRUE, failures |-> failures,
                stale |-> ~Fresh(answer.lastScanAt),
                scanned |-> answer.lastScanAt # Never,
                drift |-> IF Comparable(local, answer)
                          THEN Drift(local.hostCount, answer.hostCount) ELSE 0]
    /\ wd' = "idle" /\ waiting' = 0 /\ answer' = NoStatus
    /\ UNCHANGED <<agent, local, tickIn, tick, failures, pages, history>>

Check == TakeTick \/ PingFails \/ PingSucceeds \/ ServeStatus \/ FetchFails \/ Judge

-----------------------------------------------------------------------------
Next == ClockStep \/ Peer \/ LocalCycle \/ Check

Spec == Init /\ [][Next]_vars

-----------------------------------------------------------------------------
(* Type invariant of the watchdog; w.failures is what it has published     *)
(* unless a check is under way.                                            *)
TypeOK ==
    /\ HealthTypeOK
    /\ local \in [hostCount : Counts, basis : Bases, scanned : BOOLEAN]
    /\ tickIn \in 1..Interval /\ tick \in BOOLEAN
    /\ wd \in {"idle", "ping", "fetch", "judge"} /\ waiting \in 0..Timeout
    /\ failures \in 0..FailureBound /\ pages \in 0..2
    /\ view.drift \in 0..1000 /\ view.failures \in 0..FailureBound
    /\ wd = "idle" => view.failures = failures
    /\ view.reachable => view.failures = 0

(* A drift is between two totals that cycles have reported, at whatever    *)
(* moment of the two loops the statuses are read: never the 100 % against  *)
(* the 0 a side is born with. A total that stands in for a failed Count of *)
(* the peer is compared only by a check under way as that cycle ended:     *)
(* from then on the peer's own /health turns the watchdog away. A stand-in *)
(* of ours is compared like any other.                                     *)
DriftOfReports ==
    wd = "judge" =>
        /\ Comparable(local, answer) => local.basis # "none" /\ answer.basis # "none"
        /\ answer.basis = "found" /\ up => cycle = "counted" \/ quiet <= waiting

(* A peer that is alive and well is never accused: not of being            *)
(* unreachable, nor, once it has scanned, of being stale, whatever moment  *)
(* of its cycle the two requests meet.                                     *)
AccusedOnlyIfTroubled ==
    view.failures > 0 \/ (view.stale /\ view.scanned) => troubled

(* A peer that died is declared down within max_failures ticks, the check  *)
(* under way and one timeout.                                              *)
CrashNoticed ==
    downFor > MaxFailures * Interval + Timeout => view.failures >= MaxFailures

(* A peer whose loop is stuck, its server still answering, is published as *)
(* stale or as unreachable one check after 2 x scan_interval.              *)
WedgeNoticed ==
    wedgedFor > 2 * ScanInterval + Interval + 2 * Timeout
        => view.stale \/ ~view.reachable

(* PeerDownTotal counts outages: one increment for each row of failures    *)
(* that gets to max_failures, none for a shorter one.                      *)
OnePagePerOutage ==
    wd = "idle" => pages = IF failures > 0 /\ failures >= MaxFailures THEN 1 ELSE 0
=============================================================================
