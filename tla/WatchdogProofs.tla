--------------------------- MODULE WatchdogProofs ---------------------------
(***************************************************************************)
(* Proofs about Watchdog and Health, for any intervals and timeouts, any   *)
(* number of failures, any counts of hosts and any faults: how soon a      *)
(* crashed or stuck peer is noticed, that nobody is accused without cause, *)
(* that an outage is counted once and a drift is of two reported totals.   *)
(***************************************************************************)
EXTENDS Watchdog, TLAPS

Ages == {Never} \cup 0..OldAge
Statuses == [hostCount : Counts, basis : Bases, lastScanAt : Ages, healthy : BOOLEAN]

(* The tracker, and what the loop that writes it has told it so far.       *)
PeerShape ==
    /\ up \in BOOLEAN /\ wedged \in BOOLEAN /\ healthy \in BOOLEAN /\ troubled \in BOOLEAN
    /\ cycle \in {"scanning", "counted", "recorded"}
    /\ tracker \in Statuses /\ quiet \in 0..OldAge
    /\ ~up \/ wedged => cycle = "scanning"
    /\ wedged => up
    /\ tracker.lastScanAt # Never \/ cycle # "scanning" => tracker.basis # "none"

(* The watchdog: a status that shows a scan shows a count, and failures    *)
(* are the published ones until a ping succeeds.                           *)
CheckShape ==
    /\ local \in [hostCount : Counts, basis : Bases, scanned : BOOLEAN]
    /\ local.scanned => local.basis # "none"
    /\ answer \in Statuses
    /\ answer.lastScanAt # Never => answer.basis # "none"
    /\ tickIn \in 1..Interval /\ tick \in BOOLEAN
    /\ wd \in {"idle", "ping", "fetch", "judge"} /\ waiting \in 0..Timeout
    /\ failures \in 0..FailureBound
    /\ downFor \in Nat /\ wedgedFor \in Nat
    /\ view.reachable \in BOOLEAN /\ view.stale \in BOOLEAN /\ view.scanned \in BOOLEAN
    /\ wd \in {"idle", "ping"} => view.failures = failures
    /\ wd \in {"fetch", "judge"} => failures = 0

Shape == PeerShape /\ CheckShape

-----------------------------------------------------------------------------
LEMMA Constants == /\ OldAge \in Nat /\ OldAge > ScanGap /\ OldAge > 2 * ScanInterval
                   /\ StaleAfter \in Nat /\ StaleAfter > 2 * ScanInterval
                   /\ FailureBound \in Nat /\ FailureBound = MaxFailures + 2
                   /\ LongTime \in Int
<1>1. StaleAfter \in Nat /\ StaleAfter > 2 * ScanInterval
  BY IntervalAssumption DEF StaleAfter
<1>2. LongTime \in Int
  <2>1. (MaxFailures + 2) * Interval \in Int
    BY WatchdogAssumption
  <2> QED BY <2>1, WatchdogAssumption, IntervalAssumption DEF LongTime
<1> QED BY <1>1, <1>2, IntervalAssumption, WatchdogAssumption DEF OldAge, FailureBound

LEMMA OlderIs == \A n \in Ages :
    /\ Older(n) \in Ages
    /\ Older(n) = Never <=> n = Never
    /\ n # Never => Older(n) = n + 1 \/ (Older(n) = n /\ n = OldAge)
    /\ Older(n) <= n + 1
    /\ n = OldAge => Older(n) = OldAge
BY Constants DEF Older, Ages, Never

LEMMA LongerIs == \A n \in Nat : Longer(n) \in Nat /\ Longer(n) <= n + 1
BY Constants DEF Longer

(* Status of a new process, and of no answer.                              *)
LEMMA NewIs == /\ NewTracker \in Statuses /\ NewTracker.lastScanAt = Never
               /\ NewTracker.basis = "none" /\ NewTracker.healthy = TRUE
               /\ NoStatus = NewTracker
BY DEF NewTracker, Statuses, Ages, NoStatus, Counts, Bases

(* A total is a count of one of the two kinds.                             *)
LEMMA TotalIs == \A total \in Totals :
    total.count \in Counts /\ total.basis \in {"table", "found"} /\ total.basis \in Bases
BY DEF Totals, Counts, Bases

-----------------------------------------------------------------------------
LEMMA InitShape == Init => Shape
<1> SUFFICES ASSUME Init PROVE Shape
  OBVIOUS
<1> USE Constants, NewIs, WatchdogAssumption
<1>1. PeerShape
  <2>1. tracker \in Statuses /\ tracker.lastScanAt = Never
    BY DEF Init, HealthInit
  <2>2. /\ up = TRUE /\ wedged = FALSE /\ healthy = TRUE /\ troubled = FALSE
        /\ cycle = "scanning" /\ quiet = 0
    BY DEF Init, HealthInit
  <2>3. quiet \in 0..OldAge
    BY <2>2
  <2> HIDE NewIs
  <2> QED BY <2>1, <2>2, <2>3 DEF PeerShape
<1>2. CheckShape
  <2>1. /\ local \in [hostCount : Counts, basis : Bases, scanned : BOOLEAN] /\ ~local.scanned
        /\ view.reachable = FALSE /\ view.stale = FALSE /\ view.scanned = FALSE /\ view.failures = 0
    BY DEF Init, NoView, Counts, Bases
  <2>2. answer \in Statuses /\ answer.lastScanAt = Never
    BY DEF Init
  <2>3. tickIn \in 1..Interval /\ waiting \in 0..Timeout /\ failures \in 0..FailureBound
    BY DEF Init
  <2> QED BY <2>1, <2>2, <2>3 DEF Init, CheckShape
<1> QED BY <1>1, <1>2 DEF Shape

(* What the peer does leaves the watchdog alone, and the other way round.  *)
LEMMA PeerKeepsShape == Shape /\ Peer => Shape'
<1> SUFFICES ASSUME Shape, Peer PROVE Shape'
  OBVIOUS
<1> USE Constants, NewIs
<1>1. CheckShape'
  BY DEF Peer, watch, Shape, CheckShape
<1>2. PeerShape'
  <2>1. CASE SetHostCount
    <3>1. PICK total \in Totals, ok \in BOOLEAN :
             /\ tracker' = [tracker EXCEPT !.hostCount = total.count, !.basis = total.basis]
             /\ healthy' = ok /\ troubled' = (troubled \/ ~ok)
      BY <2>1 DEF SetHostCount
    <3>2. tracker' \in Statuses /\ tracker'.basis # "none"
      BY <3>1, TotalIs DEF Shape, PeerShape, Statuses
    <3> QED BY <2>1, <3>1, <3>2 DEF SetHostCount, Shape, PeerShape
  <2>2. CASE RecordScan
    <3>1. 0 \in Ages
      BY DEF Ages
    <3>2. tracker' \in Statuses /\ tracker'.basis = tracker.basis
      BY <2>2, <3>1 DEF RecordScan, Shape, PeerShape, Statuses
    <3> QED BY <2>2, <3>2 DEF RecordScan, Shape, PeerShape
  <2>3. CASE SetHealthy
    <3>1. tracker' \in Statuses /\ tracker'.basis = tracker.basis
          /\ tracker'.lastScanAt = tracker.lastScanAt
      BY <2>3 DEF SetHealthy, Shape, PeerShape, Statuses
    <3> QED BY <2>3, <3>1 DEF SetHealthy, Shape, PeerShape
  <2>4. CASE Wedge
    BY <2>4 DEF Wedge, Shape, PeerShape
  <2>5. CASE Crash
    BY <2>5 DEF Crash, Shape, PeerShape
  <2>6. CASE Restart
    BY <2>6 DEF Restart, Shape, PeerShape
  <2> QED BY <2>1, <2>2, <2>3, <2>4, <2>5, <2>6 DEF Peer, Loop, Life
<1> QED BY <1>1, <1>2 DEF Shape

LEMMA ClockKeepsShape == Shape /\ ClockStep => Shape'
<1> SUFFICES ASSUME Shape, ClockStep PROVE Shape'
  OBVIOUS
<1> USE Constants, WatchdogAssumption
<1>1. PeerShape'
  <2>1. /\ tracker' \in Statuses /\ tracker'.basis = tracker.basis
        /\ tracker'.lastScanAt # Never => tracker.lastScanAt # Never
    BY OlderIs DEF ClockStep, Ageing, Shape, PeerShape, Statuses
  <2>2. quiet' \in 0..OldAge
    BY OlderIs DEF ClockStep, Ageing, Shape, PeerShape, Ages, Never
  <2> QED BY <2>1, <2>2 DEF ClockStep, Ageing, Shape, PeerShape
<1>2. CheckShape'
  <2>1. /\ answer' \in Statuses /\ answer'.basis = answer.basis
        /\ answer'.lastScanAt # Never => answer.lastScanAt # Never
    BY OlderIs DEF ClockStep, Shape, CheckShape, Statuses
  <2>2. downFor' \in Nat /\ wedgedFor' \in Nat
    BY LongerIs DEF ClockStep, Shape, CheckShape
  <2>3. tickIn' \in 1..Interval /\ tick' \in BOOLEAN /\ waiting' \in 0..Timeout
    BY DEF ClockStep, Shape, CheckShape
  <2> QED BY <2>1, <2>2, <2>3 DEF ClockStep, Shape, CheckShape
<1> QED BY <1>1, <1>2 DEF Shape

LEMMA CheckKeepsShape == Shape /\ (Check \/ LocalCycle) => Shape'
<1> SUFFICES ASSUME Shape, Check \/ LocalCycle PROVE Shape'
  OBVIOUS
<1> USE Constants, NewIs, WatchdogAssumption
<1>1. PeerShape'
  <2>1. /\ UNCHANGED <<up, wedged, cycle, healthy, tracker, quiet>>
        /\ troubled' \in {troubled, troubled \/ Serves200, TRUE}
    BY DEF Check, LocalCycle, TakeTick, PingFails, PingSucceeds, ServeStatus, FetchFails, Judge,
           agent
  <2>2. (troubled \/ Serves200) \in BOOLEAN
    OBVIOUS
  <2>3. troubled' \in BOOLEAN
    BY <2>1, <2>2 DEF Shape, PeerShape
  <2> QED BY <2>1, <2>3 DEF Shape, PeerShape
<1>2. CheckShape'
  <2>1. CASE LocalCycle
    <3>1. /\ local' \in [hostCount : Counts, basis : Bases, scanned : BOOLEAN]
          /\ local'.scanned => local'.basis # "none"
      BY <2>1, TotalIs DEF LocalCycle, Shape, CheckShape
    <3> QED BY <2>1, <3>1 DEF LocalCycle, history, Shape, CheckShape
  <2>2. CASE TakeTick
    <3>1. UNCHANGED <<local, tickIn, failures, answer, view, downFor, wedgedFor>>
          /\ tick' = FALSE /\ wd = "idle" /\ wd' = "ping" /\ waiting' = 0
      BY <2>2 DEF TakeTick, history
    <3>2. waiting' \in 0..Timeout
      BY <3>1
    <3> QED BY <3>1, <3>2 DEF Shape, CheckShape
  <2>3. CASE PingFails
    <3>1. failures' \in 0..FailureBound
      BY <2>3 DEF PingFails, OneMore, Shape, CheckShape
    <3> QED BY <2>3, <3>1 DEF PingFails, NoView, Shape, CheckShape
  <2>4. CASE PingSucceeds
    BY <2>4 DEF PingSucceeds, history, Shape, CheckShape
  <2>5. CASE ServeStatus
    BY <2>5 DEF ServeStatus, history, Shape, PeerShape, CheckShape
  <2>6. CASE FetchFails
    BY <2>6 DEF FetchFails, NoView, Shape, CheckShape
  <2>7. CASE Judge
    <3>1. /\ view'.reachable = TRUE /\ view'.failures = failures
          /\ view'.stale = ~Fresh(answer.lastScanAt)
          /\ view'.scanned = (answer.lastScanAt # Never)
      BY <2>7 DEF Judge
    <3>2. Fresh(answer.lastScanAt) \in BOOLEAN
      BY DEF Fresh
    <3> QED BY <2>7, <3>1, <3>2 DEF Judge, history, Shape, CheckShape
  <2> QED BY <2>1, <2>2, <2>3, <2>4, <2>5, <2>6, <2>7 DEF Check
<1> QED BY <1>1, <1>2 DEF Shape

LEMMA ShapeStep == Shape /\ [Next]_vars => Shape'
<1>1. Shape /\ UNCHANGED vars => Shape'
  BY DEF vars, agent, watch, history, Shape, PeerShape, CheckShape
<1> QED BY <1>1, PeerKeepsShape, ClockKeepsShape, CheckKeepsShape DEF Next

THEOREM ShapeAlways == Spec => []Shape
BY InitShape, ShapeStep, PTL DEF Spec

-----------------------------------------------------------------------------
(* One increment for each row of failures, at any moment of a check.       *)
Paged == pages = IF failures >= MaxFailures THEN 1 ELSE 0

LEMMA PagedStep == MaxFailures > 0 /\ Shape /\ Paged /\ [Next]_vars => Paged'
<1> SUFFICES ASSUME MaxFailures > 0, Shape, Paged, [Next]_vars PROVE Paged'
  OBVIOUS
<1>1. failures \in Nat /\ failures <= FailureBound
  BY Constants DEF Shape, CheckShape
<1>2. CASE PingFails
  <2>1. failures' = IF failures < FailureBound THEN failures + 1 ELSE failures
    BY <1>2 DEF PingFails, OneMore
  <2>2. pages' = IF failures + 1 = MaxFailures /\ pages < 2 THEN pages + 1 ELSE pages
    BY <1>2 DEF PingFails, DeclaresDown
  <2> QED BY <1>1, <2>1, <2>2, Constants, WatchdogAssumption DEF Paged
<1>3. CASE PingSucceeds
  BY <1>3, WatchdogAssumption DEF PingSucceeds, Paged
<1>4. ASSUME ~PingFails, ~PingSucceeds PROVE pages' = pages /\ failures' = failures
  BY <1>4 DEF Next, vars, ClockStep, Peer, watch, LocalCycle, Check, TakeTick, ServeStatus, FetchFails,
              Judge
<1> QED BY <1>2, <1>3, <1>4 DEF Paged

(* PeerDownTotal goes up once in an outage of max_failures checks or more, *)
(* for any max_failures but 0 (watchdog.go:113).                           *)
THEOREM PagedOnce == MaxFailures > 0 => (Spec => []OnePagePerOutage)
<1> SUFFICES ASSUME MaxFailures > 0 PROVE Spec => []OnePagePerOutage
  OBVIOUS
<1>1. Init => Paged
  BY WatchdogAssumption DEF Init, Paged
<1>2. Shape /\ Paged /\ [Next]_vars => Paged'
  BY PagedStep
<1>3. Shape /\ Paged => OnePagePerOutage
  BY WatchdogAssumption, Constants DEF Shape, CheckShape, Paged, OnePagePerOutage
<1> QED BY <1>1, <1>2, <1>3, ShapeAlways, PTL DEF Spec

-----------------------------------------------------------------------------
(* A cycle that could not count its hosts ends unhealthy, and a check that *)
(* got past /health before it said so finds it no older than its request.  *)
StandsIn ==
    /\ up /\ tracker.basis = "found" =>
          IF cycle = "scanning" THEN ~tracker.healthy ELSE ~healthy
    /\ cycle = "recorded" => quiet = 0
    /\ wd = "fetch" /\ up /\ ~tracker.healthy => quiet <= waiting
    /\ wd = "judge" /\ up /\ answer.basis = "found" => cycle = "counted" \/ quiet <= waiting

LEMMA StandsInStep == Shape /\ StandsIn /\ [Next]_vars => StandsIn'
<1> SUFFICES ASSUME Shape, StandsIn, [Next]_vars PROVE StandsIn'
  OBVIOUS
<1>t. /\ tracker \in Statuses /\ answer \in Statuses /\ quiet \in 0..OldAge
      /\ waiting \in 0..Timeout /\ up \in BOOLEAN /\ healthy \in BOOLEAN
      /\ cycle \in {"scanning", "counted", "recorded"}
      /\ ~up => cycle = "scanning"
  BY DEF Shape, PeerShape, CheckShape
<1>1. CASE Peer
  <2>w. wd' = wd /\ waiting' = waiting /\ answer' = answer
    BY <1>1 DEF Peer, watch
  <2>1. CASE SetHostCount
    <3>1. PICK total \in Totals, ok \in BOOLEAN :
             /\ ok => total.basis = "table"
             /\ tracker' = [tracker EXCEPT !.hostCount = total.count, !.basis = total.basis]
             /\ healthy' = ok
      BY <2>1 DEF SetHostCount
    <3>2. /\ tracker'.basis = total.basis /\ tracker'.healthy = tracker.healthy
          /\ cycle' = "counted" /\ up' = up /\ quiet' = quiet
      BY <2>1, <3>1, <1>t DEF SetHostCount, Statuses
    <3> QED BY <2>w, <3>1, <3>2 DEF StandsIn
  <2>2. CASE RecordScan
    <3>1. /\ tracker'.basis = tracker.basis /\ tracker'.healthy = tracker.healthy
          /\ cycle = "counted" /\ cycle' = "recorded" /\ up' = up /\ healthy' = healthy
          /\ quiet' = 0
      BY <2>2, <1>t DEF RecordScan, Statuses
    <3> QED BY <2>w, <3>1, <1>t DEF StandsIn
  <2>3. CASE SetHealthy
    <3>1. /\ tracker'.basis = tracker.basis /\ tracker'.healthy = healthy /\ cycle = "recorded"
          /\ cycle' = "scanning" /\ up' = up /\ quiet' = quiet
      BY <2>3, <1>t DEF SetHealthy, Statuses
    <3>2. quiet = 0 /\ quiet <= waiting
      BY <3>1, <1>t DEF StandsIn
    <3> QED BY <2>w, <3>1, <3>2 DEF StandsIn
  <2>4. CASE Wedge
    BY <2>4, <2>w DEF Wedge, StandsIn
  <2>5. CASE Crash
    BY <2>5, <2>w DEF Crash, StandsIn
  <2>6. CASE Restart
    BY <2>6, <2>w, <1>t, NewIs DEF Restart, StandsIn
  <2> QED BY <1>1, <2>1, <2>2, <2>3, <2>4, <2>5, <2>6 DEF Peer, Loop, Life
<1>2. CASE ClockStep
  <2>1. /\ UNCHANGED <<up, healthy, cycle, wd>> /\ cycle = "scanning"
        /\ tracker'.basis = tracker.basis /\ tracker'.healthy = tracker.healthy
        /\ answer'.basis = answer.basis
    BY <1>2, <1>t DEF ClockStep, Ageing, Statuses
  <2>2. wd \in {"fetch", "judge"} => waiting' = waiting + 1
    BY <1>2 DEF ClockStep
  <2>3. quiet' \in Nat /\ quiet' <= quiet + 1
    BY <1>2, <1>t, Constants DEF ClockStep, Ageing, Older, Never
  <2>4. quiet <= waiting => quiet' <= waiting + 1
    BY <2>3, <1>t, Constants, WatchdogAssumption
  <2> QED BY <2>1, <2>2, <2>4 DEF StandsIn
<1>3. CASE PingSucceeds
  BY <1>3 DEF PingSucceeds, Serves200, agent, StandsIn
<1>4. CASE ServeStatus
  <2>1. /\ UNCHANGED agent /\ waiting' = waiting /\ wd = "fetch" /\ wd' = "judge"
        /\ answer' = tracker
    BY <1>4 DEF ServeStatus
  <2>2. up /\ tracker.basis = "found" => cycle = "counted" \/ quiet <= waiting
    BY <2>1, <1>t DEF StandsIn
  <2> QED BY <2>1, <2>2 DEF agent, StandsIn
<1>5. CASE LocalCycle \/ TakeTick \/ PingFails \/ FetchFails \/ Judge
  <2>1. /\ UNCHANGED <<up, cycle, healthy, tracker, quiet>>
        /\ \/ wd' = wd /\ UNCHANGED <<waiting, answer>>
           \/ wd' \in {"idle", "ping"}
    BY <1>5 DEF LocalCycle, TakeTick, PingFails, FetchFails, Judge, agent
  <2> QED BY <2>1 DEF StandsIn
<1>6. CASE UNCHANGED vars
  BY <1>6 DEF vars, agent, watch, StandsIn
<1> QED BY <1>1, <1>2, <1>3, <1>4, <1>5, <1>6 DEF Next, Check

(* A drift compares two totals that cycles have reported, never a side     *)
(* that has not; and the total of a peer's cycle whose Count failed only   *)
(* while the check was under way as that cycle ended (agent.go:225-234).   *)
THEOREM DriftIsOfReports == Spec => []DriftOfReports
<1>1. Init => StandsIn
  BY NewIs DEF Init, HealthInit, StandsIn
<1>2. Shape /\ StandsIn => DriftOfReports
  BY DEF Shape, CheckShape, StandsIn, DriftOfReports, Comparable
<1> QED BY <1>1, <1>2, StandsInStep, ShapeAlways, PTL DEF Spec

-----------------------------------------------------------------------------
(* While nothing has gone wrong the tracker is as recent as the last scan, *)
(* and a status on its way has aged by no more than it has travelled.      *)
Untroubled ==
    ~troubled =>
        /\ up /\ ~wedged /\ healthy /\ tracker.healthy
        /\ quiet <= ScanGap /\ tracker.lastScanAt <= quiet
        /\ wd = "judge" => answer.lastScanAt <= ScanGap + waiting
        /\ view.failures = 0 /\ ~(view.stale /\ view.scanned)

(* The gap between two scans and the way of an answer fit in the two       *)
(* intervals after which a peer counts as stale.                           *)
Prompt == ScanGap + Timeout <= 2 * ScanInterval

LEMMA UntroubledStep == Prompt /\ Shape /\ Untroubled /\ [Next]_vars => Untroubled'
<1> SUFFICES ASSUME Prompt, Shape, Untroubled, [Next]_vars, ~troubled' PROVE Untroubled'
  BY DEF Untroubled
<1>c. /\ ScanGap \in Nat /\ Timeout \in Nat /\ ScanInterval \in Nat
      /\ StaleAfter \in Nat /\ ScanGap <= StaleAfter /\ ScanGap + Timeout <= 2 * ScanInterval
  BY Constants, IntervalAssumption, WatchdogAssumption DEF Prompt
<1>t. /\ tracker \in Statuses /\ answer \in Statuses /\ quiet \in Nat /\ waiting \in 0..Timeout
      /\ troubled \in BOOLEAN /\ healthy \in BOOLEAN /\ tracker.lastScanAt \in Ages
      /\ answer.lastScanAt \in Ages
  BY Constants DEF Shape, PeerShape, CheckShape, Statuses
<1>a. \A n \in Ages : n \in Int
  BY Constants DEF Ages, Never
<1>s. ~troubled => Serves200
  BY <1>c, <1>t, <1>a DEF Untroubled, Serves200, TooLong
<1>1. CASE Peer
  <2>0. UNCHANGED <<wd, answer, waiting, view>>
    BY <1>1 DEF Peer, watch
  <2>1. CASE SetHostCount
    <3>1. PICK total \in Totals, ok \in BOOLEAN :
             /\ tracker' = [tracker EXCEPT !.hostCount = total.count, !.basis = total.basis]
             /\ healthy' = ok
             /\ troubled' = (troubled \/ ~ok)
      BY <2>1 DEF SetHostCount
    <3>2. ~troubled /\ healthy'
      BY <3>1, <1>t
    <3>3. tracker'.healthy = tracker.healthy /\ tracker'.lastScanAt = tracker.lastScanAt
      BY <3>1, <1>t DEF Statuses
    <3> QED BY <2>0, <2>1, <3>2, <3>3 DEF SetHostCount, Untroubled
  <2>2. CASE RecordScan
    <3>1. tracker'.healthy = tracker.healthy /\ tracker'.lastScanAt = 0 /\ quiet' = 0
      BY <2>2, <1>t DEF RecordScan, Statuses
    <3> QED BY <2>0, <2>2, <3>1, <1>c DEF RecordScan, Untroubled
  <2>3. CASE SetHealthy
    <3>1. tracker'.healthy = healthy /\ tracker'.lastScanAt = tracker.lastScanAt
      BY <2>3, <1>t DEF SetHealthy, Statuses
    <3> QED BY <2>0, <2>3, <3>1 DEF SetHealthy, Untroubled
  <2>4. CASE Wedge \/ Crash
    BY <2>4 DEF Wedge, Crash
  <2>5. CASE Restart
    BY <2>5 DEF Restart, Untroubled
  <2> QED BY <1>1, <2>1, <2>2, <2>3, <2>4, <2>5 DEF Peer, Loop, Life
<1>2. CASE ClockStep
  <2>1. UNCHANGED <<up, wedged, healthy, troubled, wd, view>> /\ tracker'.healthy = tracker.healthy
    BY <1>2, <1>t DEF ClockStep, Ageing, Statuses
  <2>2. quiet < ScanGap /\ quiet' = Older(quiet) /\ quiet \in Ages /\ quiet # Never
    BY <1>2, <2>1, <1>t DEF ClockStep, Ageing, Untroubled, Shape, PeerShape, Ages, Never
  <2>3. quiet' = quiet + 1
    <3>1. Older(quiet) = quiet + 1 \/ quiet = OldAge
      BY <2>2, OlderIs
    <3> QED BY <2>2, <3>1, <1>t, <1>c, Constants
  <2>4. tracker'.lastScanAt = Older(tracker.lastScanAt) /\ answer'.lastScanAt = Older(answer.lastScanAt)
    BY <1>2, <1>t DEF ClockStep, Ageing, Statuses
  <2>5. tracker'.lastScanAt <= tracker.lastScanAt + 1 /\ answer'.lastScanAt <= answer.lastScanAt + 1
        /\ tracker'.lastScanAt \in Int /\ answer'.lastScanAt \in Int
    BY <2>4, <1>t, <1>a, OlderIs
  <2>6. wd = "judge" => waiting' = waiting + 1
    BY <1>2 DEF ClockStep
  <2>7. /\ quiet' <= ScanGap /\ tracker'.lastScanAt <= quiet'
        /\ wd = "judge" => answer'.lastScanAt <= ScanGap + waiting'
    <3>1. /\ tracker.lastScanAt <= quiet
          /\ wd = "judge" => answer.lastScanAt <= ScanGap + waiting
      BY <2>1 DEF Untroubled
    <3>2. tracker.lastScanAt \in Int /\ answer.lastScanAt \in Int /\ waiting \in Nat
      BY <1>t, <1>a, <1>c
    <3>3. quiet' <= ScanGap
      BY <2>2, <2>3, <1>t, <1>c
    <3>4. tracker'.lastScanAt <= quiet'
      BY <2>3, <2>5, <3>1, <3>2, <1>t
    <3>5. wd = "judge" => answer'.lastScanAt <= ScanGap + waiting'
      BY <2>5, <2>6, <3>1, <3>2, <1>c
    <3> QED BY <3>3, <3>4, <3>5
  <2> QED BY <2>1, <2>7 DEF Untroubled
<1>3. CASE LocalCycle
  BY <1>3 DEF LocalCycle, agent, Untroubled
<1>4. CASE TakeTick \/ PingSucceeds
  BY <1>4 DEF TakeTick, PingSucceeds, agent, Untroubled
<1>5. CASE PingFails
  BY <1>5, <1>s DEF PingFails
<1>6. CASE FetchFails
  BY <1>6 DEF FetchFails
<1>7. CASE ServeStatus
  <2>1. answer'.lastScanAt <= ScanGap + waiting'
    BY <1>7, <1>c, <1>t, <1>a DEF ServeStatus, agent, Untroubled
  <2> QED BY <1>7, <2>1 DEF ServeStatus, agent, Untroubled
<1>8. CASE Judge
  <2>1. /\ view'.failures = failures /\ view'.stale = ~Fresh(answer.lastScanAt)
        /\ view'.scanned = (answer.lastScanAt # Never)
    BY <1>8 DEF Judge
  <2>2. UNCHANGED agent /\ wd' = "idle" /\ wd = "judge" /\ failures = 0
    BY <1>8 DEF Judge, Shape, CheckShape
  <2>3. answer.lastScanAt <= 2 * ScanInterval
    BY <1>c, <1>t, <1>a, <2>2 DEF Untroubled, agent
  <2>4. ~(view'.stale /\ view'.scanned)
    BY <2>1, <2>3 DEF Fresh
  <2> QED BY <2>1, <2>2, <2>4 DEF agent, Untroubled
<1>9. CASE UNCHANGED vars
  BY <1>9 DEF vars, agent, watch, Untroubled
<1> QED BY <1>1, <1>2, <1>3, <1>4, <1>5, <1>6, <1>7, <1>8, <1>9 DEF Next, Check

(* A peer nothing has happened to is neither counted down nor called       *)
(* stale, whenever its answers are given and however late they arrive.     *)
THEOREM NobodyAccused == Prompt => (Spec => []AccusedOnlyIfTroubled)
<1> SUFFICES ASSUME Prompt PROVE Spec => []AccusedOnlyIfTroubled
  OBVIOUS
<1>1. Init => Untroubled
  BY NewIs, IntervalAssumption DEF Init, HealthInit, NoView, Untroubled, Never
<1>2. Shape /\ Untroubled /\ [Next]_vars => Untroubled'
  BY UntroubledStep
<1>3. Shape /\ Untroubled => AccusedOnlyIfTroubled
  BY DEF Untroubled, AccusedOnlyIfTroubled
<1> QED BY <1>1, <1>2, <1>3, ShapeAlways, PTL DEF Spec

-----------------------------------------------------------------------------
(* A check has ended when the next firing of the ticker is due.            *)
InTime == Timeout <= Interval

(* How long the peer can have been down with so many failures counted: the *)
(* n-th failing check begins within n intervals and ends within a timeout. *)
Due(n) == n * Interval
DownInTime ==
    /\ up => downFor = 0
    /\ wd \in {"fetch", "judge"} => downFor <= waiting /\ (~tick => downFor + tickIn <= Interval)
    /\ failures < MaxFailures =>
          /\ wd = "idle" => /\ downFor <= Due(failures) + Interval
                            /\ ~tick => downFor + tickIn <= Due(failures) + Interval
          /\ wd = "ping" => /\ downFor <= Due(failures) + Interval + waiting
                            /\ ~tick => downFor + tickIn <= Due(failures) + Interval + Interval

LEMMA DueIs == /\ Due(0) = 0
               /\ \A n \in Nat : Due(n) \in Nat /\ Due(n + 1) = Due(n) + Interval
               /\ \A m, n \in Nat : n < m => Due(n) + Interval <= Due(m)
<1>1. Due(0) = 0 /\ \A n \in Nat : Due(n) \in Nat /\ Due(n + 1) = Due(n) + Interval
  BY WatchdogAssumption DEF Due
<1>2. ASSUME NEW m \in Nat, NEW n \in Nat, n < m PROVE Due(n) + Interval <= Due(m)
  <2>1. (m - (n + 1)) * Interval >= 0
    BY <1>2, WatchdogAssumption
  <2>2. m * Interval = (n + 1) * Interval + (m - (n + 1)) * Interval
    BY <1>2, WatchdogAssumption
  <2>3. Due(m) = Due(n + 1) + (m - (n + 1)) * Interval
    BY <2>2 DEF Due
  <2>4. (m - (n + 1)) * Interval \in Int
    BY <1>2, WatchdogAssumption
  <2> QED BY <2>1, <2>3, <2>4, <1>1, WatchdogAssumption
<1> QED BY <1>1, <1>2

LEMMA DownStep == InTime /\ Shape /\ DownInTime /\ [Next]_vars => DownInTime'
<1> SUFFICES ASSUME InTime, Shape, DownInTime, [Next]_vars PROVE DownInTime'
  OBVIOUS
<1>c. Interval \in Nat \ {0} /\ Timeout \in Nat /\ MaxFailures \in Nat /\ Timeout <= Interval
  BY WatchdogAssumption DEF InTime
<1>t. /\ failures \in Nat /\ failures <= FailureBound /\ tickIn \in 1..Interval
      /\ waiting \in 0..Timeout /\ downFor \in Nat /\ up \in BOOLEAN /\ tick \in BOOLEAN
      /\ wd \in {"idle", "ping", "fetch", "judge"}
      /\ wd \in {"fetch", "judge"} => failures = 0
  BY Constants DEF Shape, PeerShape, CheckShape
<1>d. Due(failures) \in Nat /\ Due(failures + 1) = Due(failures) + Interval /\ Due(0) = 0
  BY <1>t, DueIs
<1>0. ASSUME downFor' = 0,
             /\ tickIn' \in 1..Interval /\ waiting' \in 0..Timeout /\ failures' \in Nat
      PROVE  DownInTime'
  <2>1. Due(failures') \in Nat
    BY <1>0, DueIs
  <2>2. /\ 0 <= waiting' /\ tickIn' <= Interval
        /\ 0 <= Due(failures') + Interval /\ tickIn' <= Due(failures') + Interval
        /\ 0 <= Due(failures') + Interval + waiting'
        /\ tickIn' <= Due(failures') + Interval + Interval
    <3>1. tickIn' \in Nat /\ tickIn' <= Interval /\ waiting' \in Nat
      BY <1>0, <1>c
    <3> QED BY <3>1, <1>c, <2>1
  <2> QED BY <1>0, <2>2 DEF DownInTime
<1>1. CASE Peer
  <2>1. UNCHANGED <<wd, tick, tickIn, waiting, failures>> /\ downFor' = IF up' THEN 0 ELSE downFor
    BY <1>1 DEF Peer, watch
  <2>2. CASE up'
    BY <2>1, <2>2, <1>0, <1>t
  <2>3. CASE ~up'
    BY <2>1, <2>3 DEF DownInTime
  <2> QED BY <2>2, <2>3
<1>2. CASE ClockStep
  <2>1. /\ UNCHANGED <<up, wd, failures>>
        /\ tickIn' = IF tickIn = 1 THEN Interval ELSE tickIn - 1
        /\ tick' = (tick \/ tickIn = 1)
        /\ wd = "idle" => ~tick
        /\ wd # "idle" => waiting < Timeout /\ waiting' = waiting + 1
        /\ downFor' = IF up THEN 0 ELSE Longer(downFor)
    BY <1>2 DEF ClockStep, Ageing
  <2>2. waiting' \in 0..Timeout
    BY <1>2, <1>t, <1>c DEF ClockStep
  <2>3. tickIn' \in 1..Interval
    BY <2>1, <1>t, <1>c
  <2>4. CASE up
    BY <2>1, <2>2, <2>3, <2>4, <1>0, <1>t
  <2>5. CASE ~up
    <3>1. downFor' \in Nat /\ downFor' <= downFor + 1
      BY <2>1, <2>5, <1>t, LongerIs
    <3>2. ~tick' => ~tick /\ tickIn' = tickIn - 1
      BY <2>1, <1>t
    <3>3. wd \in {"fetch", "judge"} =>
             downFor' <= waiting' /\ (~tick' => downFor' + tickIn' <= Interval)
      BY <2>1, <3>1, <3>2, <1>t, <1>c DEF DownInTime
    <3>4. failures < MaxFailures /\ wd = "idle" =>
             /\ downFor' <= Due(failures) + Interval
             /\ ~tick' => downFor' + tickIn' <= Due(failures) + Interval
      BY <2>1, <3>1, <3>2, <1>t, <1>c, <1>d DEF DownInTime
    <3>5. failures < MaxFailures /\ wd = "ping" =>
             /\ downFor' <= Due(failures) + Interval + waiting'
             /\ ~tick' => downFor' + tickIn' <= Due(failures) + Interval + Interval
      BY <2>1, <3>1, <3>2, <1>t, <1>c, <1>d DEF DownInTime
    <3> QED BY <2>1, <2>5, <3>3, <3>4, <3>5 DEF DownInTime
  <2> QED BY <2>4, <2>5, <1>t
<1>3. CASE LocalCycle
  BY <1>3 DEF LocalCycle, agent, history, DownInTime
<1>4. CASE TakeTick
  <2>1. /\ UNCHANGED <<up, tickIn, failures, downFor>>
        /\ wd = "idle" /\ tick /\ ~tick' /\ wd' = "ping" /\ waiting' = 0
    BY <1>4 DEF TakeTick, agent, history
  <2> QED BY <2>1, <1>t, <1>c, <1>d DEF DownInTime
<1>5. CASE PingFails
  <2>1. /\ UNCHANGED <<up, tick, tickIn, downFor>> /\ wd = "ping" /\ wd' = "idle"
        /\ failures' = IF failures < FailureBound THEN failures + 1 ELSE failures
    BY <1>5 DEF PingFails, OneMore
  <2>2. failures' < MaxFailures => failures < MaxFailures /\ failures' = failures + 1
    BY <2>1, <1>t, <1>c, Constants
  <2>3. failures' < MaxFailures => Due(failures') = Due(failures) + Interval
    BY <2>2, <1>d
  <2> QED BY <2>1, <2>2, <2>3, <1>t, <1>c, <1>d DEF DownInTime
<1>6. CASE PingSucceeds
  <2>1. /\ UNCHANGED <<up, tick, tickIn, downFor>> /\ up /\ wd' = "fetch" /\ waiting' = 0
    BY <1>6 DEF PingSucceeds, Serves200, agent, history
  <2> QED BY <2>1, <1>t, <1>c DEF DownInTime
<1>7. CASE ServeStatus
  BY <1>7, <1>t DEF ServeStatus, agent, history, DownInTime
<1>8. CASE FetchFails \/ Judge
  <2>1. /\ UNCHANGED <<up, tick, tickIn, failures, downFor>> /\ wd \in {"fetch", "judge"}
        /\ wd' = "idle"
    BY <1>8 DEF FetchFails, Judge, agent, history
  <2> QED BY <2>1, <1>t, <1>c, <1>d DEF DownInTime
<1>9. CASE UNCHANGED vars
  BY <1>9 DEF vars, agent, watch, history, DownInTime
<1> QED BY <1>1, <1>2, <1>3, <1>4, <1>5, <1>6, <1>7, <1>8, <1>9 DEF Next, Check

(* A peer that died has been declared down max_failures intervals and one  *)
(* timeout later, whatever check it died in.                               *)
THEOREM CrashesNoticed == InTime => (Spec => []CrashNoticed)
<1> SUFFICES ASSUME InTime PROVE Spec => []CrashNoticed
  OBVIOUS
<1>1. Init => DownInTime
  BY DueIs, WatchdogAssumption DEF Init, HealthInit, DownInTime
<1>2. Shape /\ DownInTime /\ [Next]_vars => DownInTime'
  BY DownStep
<1>3. Shape /\ DownInTime => CrashNoticed
  <2> SUFFICES ASSUME Shape, DownInTime, downFor > MaxFailures * Interval + Timeout
               PROVE  view.failures >= MaxFailures
    BY DEF CrashNoticed
  <2>1. /\ failures \in Nat /\ waiting \in 0..Timeout /\ downFor \in Nat
        /\ wd \in {"idle", "ping", "fetch", "judge"}
        /\ wd \in {"idle", "ping"} => view.failures = failures
    BY Constants DEF Shape, CheckShape
  <2>2. Due(MaxFailures) \in Nat /\ downFor > Due(MaxFailures) + Timeout
    BY DueIs, WatchdogAssumption DEF Due
  <2>3. wd \in {"idle", "ping"}
    BY <2>1, <2>2, WatchdogAssumption DEF DownInTime
  <2>4. failures < MaxFailures => Due(failures) \in Nat /\ Due(failures) + Interval <= Due(MaxFailures)
    BY <2>1, DueIs, WatchdogAssumption
  <2>5. ~(failures < MaxFailures)
    BY <2>1, <2>2, <2>3, <2>4, WatchdogAssumption DEF DownInTime
  <2> QED BY <2>1, <2>3, <2>5, WatchdogAssumption
<1> QED BY <1>1, <1>2, <1>3, ShapeAlways, PTL DEF Spec

-----------------------------------------------------------------------------
(* The scan times a watchdog can see are as old as the loop is stuck; a    *)
(* view that says nothing is wrong was fresh when it was published.        *)
AsOld(n) == n = Never \/ n >= wedgedFor \/ n = OldAge
Horizon == 2 * ScanInterval + Interval
WedgeInTime ==
    /\ ~wedged => wedgedFor = 0
    /\ AsOld(tracker.lastScanAt)
    /\ wd = "judge" => AsOld(answer.lastScanAt)
    /\ view.reachable /\ ~view.stale =>
          /\ wd = "idle" => wedgedFor <= Horizon /\ (~tick => wedgedFor + tickIn <= Horizon)
          /\ wd = "ping" => wedgedFor <= Horizon + waiting
          /\ wd \in {"fetch", "judge"} => wedgedFor <= Horizon + Timeout + waiting

LEMMA WedgeStep == Shape /\ WedgeInTime /\ [Next]_vars => WedgeInTime'
<1> SUFFICES ASSUME Shape, WedgeInTime, [Next]_vars PROVE WedgeInTime'
  OBVIOUS
<1>c. /\ Interval \in Nat \ {0} /\ Timeout \in Nat /\ ScanInterval \in Nat /\ Horizon \in Nat
      /\ Horizon = 2 * ScanInterval + Interval /\ OldAge \in Nat /\ OldAge > 2 * ScanInterval
  BY WatchdogAssumption, IntervalAssumption, Constants DEF Horizon
<1>t. /\ tickIn \in 1..Interval /\ waiting \in 0..Timeout /\ wedgedFor \in Nat
      /\ wedged \in BOOLEAN /\ tick \in BOOLEAN
      /\ wd \in {"idle", "ping", "fetch", "judge"}
      /\ tracker \in Statuses /\ answer \in Statuses
      /\ tracker.lastScanAt \in Ages /\ answer.lastScanAt \in Ages
  BY Constants DEF Shape, PeerShape, CheckShape, Statuses
<1>s. Shape'
  BY ShapeStep
<1>u. /\ tickIn' \in 1..Interval /\ waiting' \in 0..Timeout
      /\ tracker'.lastScanAt \in Ages /\ answer'.lastScanAt \in Ages
  BY <1>s DEF Shape, PeerShape, CheckShape, Statuses
<1>a. \A n \in Ages : n \in Int /\ (n = Never \/ n >= 0)
  BY Constants DEF Ages, Never
<1>0. ASSUME wedgedFor' = 0 PROVE WedgeInTime'
  <2>1. AsOld(tracker.lastScanAt)' /\ AsOld(answer.lastScanAt)'
    BY <1>0, <1>u, <1>a DEF AsOld
  <2>2. tickIn' \in Nat /\ tickIn' <= Interval /\ waiting' \in Nat
    BY <1>u, <1>c
  <2>3. Horizon \in Nat /\ Interval \in Nat /\ Interval <= Horizon /\ Timeout \in Nat
    BY <1>c
  <2>4. \A w, t, v \in Nat : w = 0 /\ t <= Interval =>
           /\ w <= Horizon /\ w + t <= Horizon
           /\ w <= Horizon + v /\ w <= Horizon + Timeout + v
    BY <2>3
  <2>5. wedgedFor' \in Nat /\ wedgedFor' = 0
    BY <1>0
  <2>6. /\ wedgedFor' <= Horizon /\ wedgedFor' + tickIn' <= Horizon
        /\ wedgedFor' <= Horizon + waiting' /\ wedgedFor' <= Horizon + Timeout + waiting'
    BY <2>2, <2>4, <2>5
  <2> QED BY <2>1, <2>5, <2>6 DEF WedgeInTime
<1>1. CASE Peer
  <2>1. UNCHANGED watch /\ wedgedFor' = IF wedged' THEN wedgedFor ELSE 0
    BY <1>1 DEF Peer
  <2>2. wedged' => wedgedFor = 0
                     \/ (tracker'.lastScanAt = tracker.lastScanAt /\ wedged)
    <3>1. CASE SetHostCount \/ Wedge \/ Crash \/ Restart
      BY <3>1 DEF SetHostCount, Wedge, Crash, Restart, WedgeInTime, Shape, PeerShape
    <3>2. CASE RecordScan
      BY <3>2 DEF RecordScan, WedgeInTime, Shape, PeerShape
    <3>3. CASE SetHealthy
      BY <3>3, <1>t DEF SetHealthy, Statuses, WedgeInTime
    <3> QED BY <1>1, <3>1, <3>2, <3>3 DEF Peer, Loop, Life
  <2>3. CASE wedgedFor' = 0
    BY <2>3, <1>0
  <2>4. CASE wedgedFor' # 0
    <3>1. wedgedFor' = wedgedFor /\ tracker'.lastScanAt = tracker.lastScanAt /\ wedged
          /\ wedged'
      BY <2>1, <2>2, <2>4
    <3> QED BY <2>1, <3>1 DEF WedgeInTime, watch, AsOld
  <2> QED BY <2>3, <2>4
<1>2. CASE ClockStep
  <2>1. /\ UNCHANGED <<wedged, wd, view>>
        /\ tickIn' = IF tickIn = 1 THEN Interval ELSE tickIn - 1
        /\ tick' = (tick \/ tickIn = 1)
        /\ wd = "idle" => ~tick
        /\ wd # "idle" => waiting' = waiting + 1
        /\ wedgedFor' = IF wedged THEN Longer(wedgedFor) ELSE 0
    BY <1>2 DEF ClockStep, Ageing
  <2>2. /\ tracker'.lastScanAt = Older(tracker.lastScanAt)
        /\ answer'.lastScanAt = Older(answer.lastScanAt)
    BY <1>2, <1>t DEF ClockStep, Ageing, Statuses
  <2>3. CASE ~wedged
    BY <2>1, <2>3, <1>0
  <2>4. CASE wedged
    <3>1. wedgedFor' \in Nat /\ wedgedFor' <= wedgedFor + 1
      BY <2>1, <2>4, <1>t, LongerIs
    <3>2. ASSUME NEW n \in Ages, AsOld(n)
          PROVE  Older(n) = Never \/ Older(n) >= wedgedFor' \/ Older(n) = OldAge
      <4>1. n = Never => Older(n) = Never
        BY OlderIs
      <4>2. n # Never => Older(n) = n + 1 \/ Older(n) = OldAge
        BY OlderIs
      <4>3. n \in Int /\ (n = OldAge => Older(n) = OldAge)
        BY <1>a, OlderIs
      <4> QED BY <3>1, <3>2, <4>1, <4>2, <4>3, <1>t, <1>c DEF AsOld
    <3>3. AsOld(tracker.lastScanAt)' /\ (wd = "judge" => AsOld(answer.lastScanAt)')
      BY <2>2, <3>2, <1>t DEF WedgeInTime, AsOld
    <3>4. ASSUME view.reachable, ~view.stale
          PROVE  /\ wd = "idle" => wedgedFor' <= Horizon /\ (~tick' => wedgedFor' + tickIn' <= Horizon)
                 /\ wd = "ping" => wedgedFor' <= Horizon + waiting'
                 /\ wd \in {"fetch", "judge"} => wedgedFor' <= Horizon + Timeout + waiting'
      <4>1. ~tick' => ~tick /\ tickIn' = tickIn - 1
        BY <2>1, <1>t
      <4>2. wd = "idle" => wedgedFor + tickIn <= Horizon
        BY <2>1, <3>4 DEF WedgeInTime
      <4>3. wd = "idle" => wedgedFor' <= Horizon /\ (~tick' => wedgedFor' + tickIn' <= Horizon)
        BY <3>1, <4>1, <4>2, <1>t, <1>c
      <4>4. /\ wd = "ping" => wedgedFor' <= Horizon + waiting'
            /\ wd \in {"fetch", "judge"} => wedgedFor' <= Horizon + Timeout + waiting'
        BY <2>1, <3>1, <3>4, <1>t, <1>c DEF WedgeInTime
      <4> QED BY <4>3, <4>4
    <3> QED BY <2>1, <2>4, <3>3, <3>4 DEF WedgeInTime
  <2> QED BY <2>3, <2>4, <1>t
<1>3. CASE LocalCycle
  BY <1>3 DEF LocalCycle, agent, history, WedgeInTime, AsOld
<1>4. CASE TakeTick
  BY <1>4, <1>t, <1>c DEF TakeTick, agent, history, WedgeInTime, AsOld
<1>5. CASE PingFails
  <2>1. UNCHANGED <<wedged, tracker, wedgedFor>> /\ wd' = "idle" /\ view'.reachable = FALSE
    BY <1>5 DEF PingFails, NoView
  <2> QED BY <2>1 DEF WedgeInTime, AsOld
<1>6. CASE PingSucceeds
  <2>1. /\ UNCHANGED <<wedged, tracker, view, wedgedFor>> /\ wd = "ping" /\ wd' = "fetch"
        /\ waiting' = 0
    BY <1>6 DEF PingSucceeds, agent, history
  <2> QED BY <2>1, <1>t, <1>c DEF WedgeInTime, AsOld
<1>7. CASE ServeStatus
  <2>1. /\ UNCHANGED <<wedged, tracker, view, wedgedFor, waiting>> /\ wd = "fetch" /\ wd' = "judge"
        /\ answer' = tracker
    BY <1>7 DEF ServeStatus, agent, history
  <2> QED BY <2>1 DEF WedgeInTime, AsOld
<1>8. CASE FetchFails
  BY <1>8, <1>0 DEF FetchFails
<1>9. CASE Judge
  <2>1. /\ UNCHANGED <<wedged, tracker, wedgedFor, tickIn, tick>> /\ wd = "judge" /\ wd' = "idle"
        /\ view'.stale = ~Fresh(answer.lastScanAt)
    BY <1>9 DEF Judge, agent, history
  <2>2. ~view'.stale => wedgedFor <= 2 * ScanInterval
    BY <2>1, <1>t, <1>a, <1>c DEF Fresh, WedgeInTime, AsOld
  <2>3. ~view'.stale => wedgedFor <= Horizon /\ wedgedFor + tickIn <= Horizon
    BY <2>2, <1>t, <1>c
  <2> QED BY <2>1, <2>3 DEF WedgeInTime, AsOld
<1>10. CASE UNCHANGED vars
  BY <1>10 DEF vars, agent, watch, history, WedgeInTime, AsOld
<1> QED BY <1>1, <1>2, <1>3, <1>4, <1>5, <1>6, <1>7, <1>8, <1>9, <1>10 DEF Next, Check

(* A peer whose scan loop is stuck has been called stale, or unreachable,  *)
(* one check after twice its interval, unless statuses get lost.           *)
THEOREM WedgesNoticed == Spec => []WedgeNoticed
<1>1. Init => WedgeInTime
  BY NewIs DEF Init, HealthInit, NoView, WedgeInTime, AsOld
<1>2. Shape /\ WedgeInTime /\ [Next]_vars => WedgeInTime'
  BY WedgeStep
<1>3. Shape /\ WedgeInTime => WedgeNoticed
  <2> SUFFICES ASSUME Shape, WedgeInTime, view.reachable, ~view.stale
               PROVE  wedgedFor <= 2 * ScanInterval + Interval + 2 * Timeout
    BY WatchdogAssumption, IntervalAssumption DEF WedgeNoticed, Shape, CheckShape
  <2>1. /\ waiting \in 0..Timeout /\ wedgedFor \in Nat
        /\ wd \in {"idle", "ping", "fetch", "judge"}
    BY DEF Shape, CheckShape
  <2> QED BY <2>1, WatchdogAssumption, IntervalAssumption DEF WedgeInTime, Horizon
<1> QED BY <1>1, <1>2, <1>3, ShapeAlways, PTL DEF Spec

-----------------------------------------------------------------------------
(* What is published: a peer that was reached has not failed, and the      *)
(* drift is a share of the larger count.                                   *)
ViewTyped ==
    /\ view.failures \in 0..FailureBound
    /\ view.reachable => view.failures = 0
    /\ view.drift \in 0..1000
    /\ pages \in 0..2

(* The smaller count is not below nothing: no drift is above 100 %.        *)
LEMMA DriftIsShare ==
    ASSUME NEW m \in Nat, NEW n \in Nat PROVE Drift(m, n) \in 0..1000
<1> DEFINE larger == IF m > n THEN m ELSE n
           apart == IF m > n THEN m - n ELSE n - m
<1>1. larger \in Nat /\ apart \in Nat /\ apart <= larger
  OBVIOUS
<1>2. Drift(m, n) = IF larger = 0 THEN 0 ELSE (2000 * apart + larger) \div (2 * larger)
  BY DEF Drift, larger, apart
<1> HIDE DEF larger, apart
<1>3. CASE larger # 0
  <2>1. \A x \in Nat, d \in Nat \ {0} : x < 1001 * d => x \div d \in Nat /\ x \div d < 1001
    OBVIOUS
  <2>2. 2 * larger \in Nat \ {0} /\ 2000 * apart + larger \in Nat
    BY <1>1, <1>3
  <2>3. 2000 * apart + larger < 1001 * (2 * larger)
    BY <1>1, <1>3
  <2> DEFINE share == (2000 * apart + larger) \div (2 * larger)
  <2>4. share \in Nat /\ share < 1001
    BY <2>1, <2>2, <2>3
  <2>5. Drift(m, n) = share
    BY <1>2, <1>3
  <2> HIDE DEF share
  <2> QED BY <2>4, <2>5
<1> QED BY <1>2, <1>3

(* Only a check that ends publishes; after a good ping failures are 0.     *)
LEMMA ViewStep == Shape /\ ViewTyped /\ [Next]_vars => ViewTyped'
<1> SUFFICES ASSUME Shape, ViewTyped, [Next]_vars PROVE ViewTyped'
  OBVIOUS
<1> USE Constants
<1>1. CASE Judge
  <2>1. local.hostCount \in Nat /\ answer.hostCount \in Nat
    <3>1. local.hostCount \in Counts /\ answer.hostCount \in Counts
      BY DEF Shape, CheckShape, Statuses
    <3>2. \A n \in Counts : n \in Nat
      BY CountAssumption DEF Counts
    <3> QED BY <3>1, <3>2
  <2>2. /\ view'.failures = failures /\ view'.drift \in 0..1000
        /\ pages' = pages /\ wd = "judge"
    <3>1. Drift(local.hostCount, answer.hostCount) \in 0..1000
      BY <2>1, DriftIsShare
    <3>2. /\ view'.failures = failures /\ pages' = pages /\ wd = "judge"
          /\ view'.drift = IF Comparable(local, answer)
                           THEN Drift(local.hostCount, answer.hostCount) ELSE 0
      BY <1>1 DEF Judge
    <3> QED BY <3>1, <3>2
  <2>3. failures = 0
    BY <2>2 DEF Shape, CheckShape
  <2> QED BY <2>2, <2>3 DEF ViewTyped
<1>2. CASE PingFails
  <2>1. failures' \in 0..FailureBound
    BY <1>2 DEF PingFails, OneMore, Shape, CheckShape
  <2>2. /\ view' = [NoView EXCEPT !.failures = failures']
        /\ pages' = IF DeclaresDown(failures + 1) /\ pages < 2 THEN pages + 1 ELSE pages
    BY <1>2 DEF PingFails
  <2>3. view'.failures = failures' /\ view'.reachable = FALSE /\ view'.drift = 0
    BY <2>2 DEF NoView
  <2>4. pages' \in 0..2
    BY <2>2 DEF ViewTyped
  <2> QED BY <2>1, <2>3, <2>4 DEF ViewTyped
<1>3. CASE FetchFails
  <2>1. view' = [NoView EXCEPT !.reachable = TRUE] /\ pages' = pages
    BY <1>3 DEF FetchFails
  <2>2. view'.failures = 0 /\ view'.drift = 0
    BY <2>1 DEF NoView
  <2> QED BY <2>1, <2>2 DEF ViewTyped
<1>4. CASE PingSucceeds
  BY <1>4 DEF PingSucceeds, ViewTyped
<1>5. ASSUME ~Judge, ~PingFails, ~FetchFails, ~PingSucceeds
      PROVE  view' = view /\ pages' = pages
  BY <1>5 DEF Next, vars, ClockStep, Peer, watch, LocalCycle, Check, TakeTick, ServeStatus
<1> QED BY <1>1, <1>2, <1>3, <1>4, <1>5 DEF ViewTyped

(* The tracker's Status, the loop's counters and what it publishes keep    *)
(* their types, and w.failures is what was published when no check runs.   *)
THEOREM WatchdogTypeCorrect == Spec => []TypeOK
<1>1. Init => ViewTyped
  BY Constants DEF Init, NoView, ViewTyped
<1>2. Shape /\ ViewTyped => TypeOK
  BY DEF Shape, PeerShape, CheckShape, Statuses, Ages, ViewTyped, TypeOK, HealthTypeOK
<1> QED BY <1>1, <1>2, ViewStep, ShapeAlways, PTL DEF Spec
=============================================================================
