----------------------------- MODULE AgentProofs -----------------------------
(***************************************************************************)
(* Proofs about Agent, for any profiles, intervals, TTLs and bounds on     *)
(* cycle time and latency: the timing of the scan loop, and the events it  *)
(* sends.                                                                  *)
(***************************************************************************)
EXTENDS Agent, FiniteSetTheorems, WellFoundedInduction, TLAPS

(* A set of naturals has a smallest element: the intervals 1..n are finite *)
(* sets, and finite sets are well founded under strict inclusion.          *)
LEMMA Least ==
    ASSUME NEW T, T \subseteq Nat, T # {}
    PROVE  \E x \in T : \A y \in T : x <= y
<1> DEFINE F == {1..n : n \in T}
<1>1. F \subseteq FiniteSubsetsOf(Nat) /\ F # {}
  <2>1. \A n \in Nat : 1..n \subseteq Nat /\ IsFiniteSet(1..n)
    BY FS_Interval
  <2> QED BY <2>1 DEF FiniteSubsetsOf
<1>2. \A n \in T : 1..n \in F
  OBVIOUS
<1>3. \A I \in F : \E n \in T : I = 1..n
  OBVIOUS
<1> HIDE DEF F
<1>4. PICK I \in F : \A J \in F : <<J, I>> \notin StrictSubsetOrdering(Nat)
  BY <1>1, FS_StrictSubsetOrderingWellFounded, WFMin
<1>5. PICK x \in T : I = 1..x
  BY <1>3
<1>6. ASSUME NEW y \in T PROVE x <= y
  <2>1. x \in Nat /\ y \in Nat
    OBVIOUS
  <2>2. SUFFICES ASSUME y < x PROVE FALSE
    BY <2>1
  <2>3. 1..y \subseteq 1..x /\ x \in 1..x /\ x \notin 1..y
    BY <2>1, <2>2
  <2>4. 1..y \subseteq Nat /\ 1..x \subseteq Nat /\ 1..y # 1..x
    BY <2>1, <2>3
  <2>5. <<1..y, 1..x>> \in StrictSubsetOrdering(Nat)
    BY <2>3, <2>4 DEF StrictSubsetOrdering
  <2> QED BY <1>2, <1>4, <1>5, <2>5
<1> QED BY <1>6

(* The period of the ticker is at least one unit, and no longer than any   *)
(* interval.                                                               *)
LEMMA TickPositive == TickInterval \in Nat /\ TickInterval >= 1
                      /\ \A s \in Subnets : TickInterval <= Interval[s]
<1>1. CASE Subnets = {}
  BY <1>1 DEF TickInterval
<1>2. CASE Subnets # {}
  <2> DEFINE T == {Interval[s] : s \in Subnets}
  <2>1. T \subseteq Nat \ {0} /\ T # {} /\ \A s \in Subnets : Interval[s] \in T
    BY <1>2, ProfilesAssumption
  <2>2. TickInterval = Smallest(T)
    BY <1>2 DEF TickInterval
  <2> HIDE DEF T
  <2>3. T \subseteq Nat
    BY <2>1
  <2>4. \E x \in T : \A y \in T : x <= y
    BY <2>1, <2>3, Least
  <2>5. Smallest(T) \in T /\ \A y \in T : Smallest(T) <= y
    BY <2>4 DEF Smallest
  <2>6. TickInterval \in T /\ \A s \in Subnets : TickInterval <= Interval[s]
    BY <2>1, <2>2, <2>5
  <2>7. TickInterval \in Nat \ {0}
    BY <2>1, <2>6
  <2> QED BY <2>6, <2>7
<1> QED BY <1>1, <1>2

(* The inventory and what is found in one subnet are finite sets.          *)
LEMMA FiniteHosts ==
    /\ \A S : S \subseteq IPs => Cardinality(S) \in Nat
    /\ Cardinality(Inventory) \in Nat
    /\ \A s \in Subnets : Answers[s] \subseteq IPs
<1>1. \A S : S \subseteq IPs => Cardinality(S) \in Nat
  BY ProfilesAssumption, FS_Subset, FS_CardinalityType
<1>2. Inventory \subseteq IPs
  BY DEF Inventory
<1>3. \A s \in Subnets : Answers[s] \subseteq IPs
  BY DEF IPs
<1> QED
  BY <1>1, <1>2, <1>3

(* The bounds of the relative times, as the proofs use them.               *)
LEMMA Bounds ==
    /\ UnseenBound \in Nat /\ ScanAgeBound \in Nat /\ AgoBound \in Nat
    /\ \A s \in Subnets : SilentBound(s) \in Nat /\ MaxCycle <= SilentBound(s)
BY ProfilesAssumption, TimesAssumption, TickPositive
   DEF UnseenBound, ScanAgeBound, AgoBound, SilentBound

(* A relative time that has reached its bound stays there.                 *)
LEMMA OlderStays ==
    ASSUME NEW n \in Nat, NEW b \in Nat
    PROVE  Older(n, b) \in 0..b /\ Older(n, b) <= n + 1
BY DEF Older, Cap

(* Init is well typed.                                                     *)
LEMMA InitTyping == Init => TypeOK
<1> SUFFICES ASSUME Init PROVE TypeOK
  OBVIOUS
<1>1. tickIn \in 0..TickInterval /\ late \in 0..Jitter /\ age \in 0..MaxCycle
  BY TimesAssumption, TickPositive DEF Init
<1>2. unseen \in [IPs -> {Gone} \cup 0..UnseenBound]
  <2>1. {Gone, UnseenBound} \subseteq {Gone} \cup 0..UnseenBound
    BY Bounds
  <2> QED BY <2>1 DEF Init
<1>3. scanAges \in SUBSET (0..ScanAgeBound)
  BY Bounds DEF Init
<1>4. dueIn \in [Subnets -> Nat] /\ \A s \in Subnets : dueIn[s] <= Interval[s]
  BY ProfilesAssumption DEF Init
<1>5. silent \in [Subnets -> Nat] /\ \A s \in Subnets : silent[s] <= SilentBound(s)
  BY Bounds DEF Init
<1>6. known \in SUBSET IPs
  BY DEF Init, Inventory
<1> QED BY <1>1, <1>2, <1>3, <1>4, <1>5, <1>6 DEF Init, TypeOK

(* Time passes within the ranges of all the clocks.                        *)
LEMMA ClockTyping == TypeOK /\ ClockStep => TypeOK'
<1> SUFFICES ASSUME TypeOK, ClockStep PROVE TypeOK'
  OBVIOUS
<1>1. tickIn' \in 0..TickInterval
  BY TickPositive DEF TypeOK, ClockStep, AtLeast0
<1>2. late' \in 0..Jitter /\ tick' \in BOOLEAN /\ age' \in 0..MaxCycle
  BY TimesAssumption DEF TypeOK, ClockStep
<1>3. dueIn' \in [Subnets -> Nat] /\ \A s \in Subnets : dueIn'[s] <= Interval[s]
  <2>1. ASSUME NEW s \in Subnets
        PROVE  AtLeast0(dueIn[s] - 1) \in Nat /\ AtLeast0(dueIn[s] - 1) <= Interval[s]
    BY ProfilesAssumption DEF TypeOK, AtLeast0
  <2> QED BY <2>1 DEF ClockStep
<1>4. unseen' \in [IPs -> {Gone} \cup 0..UnseenBound]
  <2>1. ASSUME NEW ip \in IPs, unseen[ip] # Gone
        PROVE  Older(unseen[ip], UnseenBound) \in 0..UnseenBound
    <3>1. unseen[ip] \in Nat
      BY <2>1, Bounds DEF TypeOK
    <3> QED BY <3>1, OlderStays, Bounds
  <2> QED BY <2>1 DEF ClockStep
<1>5. scanAges' \in SUBSET (0..ScanAgeBound)
  <2>1. ASSUME NEW a \in scanAges PROVE Older(a, ScanAgeBound) \in 0..ScanAgeBound
    <3>1. a \in Nat
      BY Bounds DEF TypeOK
    <3> QED BY <3>1, OlderStays, Bounds
  <2> QED BY <2>1 DEF ClockStep
<1>6. scannedAgo' \in {Never} \cup 0..AgoBound
  <2>1. CASE scannedAgo = Never
    BY <2>1 DEF ClockStep
  <2>2. CASE scannedAgo # Never
    <3>1. scannedAgo \in Nat
      BY <2>2, Bounds DEF TypeOK
    <3> QED BY <2>2, <3>1, OlderStays, Bounds DEF ClockStep
  <2> QED BY <2>1, <2>2
<1>7. silent' \in [Subnets -> Nat] /\ \A s \in Subnets : silent'[s] <= SilentBound(s)
  <2>1. ASSUME NEW s \in Subnets
        PROVE  /\ Older(silent[s], SilentBound(s)) \in Nat
               /\ Older(silent[s], SilentBound(s)) <= SilentBound(s)
    <3>1. silent[s] \in Nat /\ SilentBound(s) \in Nat
      BY Bounds DEF TypeOK
    <3>2. Older(silent[s], SilentBound(s)) \in 0..SilentBound(s)
      BY <3>1, OlderStays
    <3> QED BY <3>1, <3>2
  <2> QED BY <2>1 DEF ClockStep
<1> QED
  BY <1>1, <1>2, <1>3, <1>4, <1>5, <1>6, <1>7 DEF ClockStep, TypeOK, cycleHistory

(* Beginning a cycle, for whatever reason.                                 *)
LEMMA StartTyping ==
    ASSUME TypeOK, NEW forceAll \in BOOLEAN, StartCycle(forceAll),
           tick' \in BOOLEAN, trigger' \in BOOLEAN
    PROVE  TypeOK'
<1>1. prev' \in SUBSET IPs
  BY DEF StartCycle, Snapshot, Inventory
<1>2. due' \in SUBSET Subnets /\ age' \in 0..MaxCycle /\ late' \in 0..Jitter
  BY TimesAssumption DEF StartCycle
<1> QED BY <1>1, <1>2 DEF StartCycle, TypeOK, tracker

(* The scan of one profile.                                                *)
LEMMA ScanTyping == ASSUME TypeOK, NEW s \in Subnets, ScanSubnet(s) PROVE TypeOK'
<1>1. silent' \in [Subnets -> Nat] /\ \A t \in Subnets : silent'[t] <= SilentBound(t)
  <2>1. age \in Nat /\ age <= SilentBound(s)
    BY Bounds, TimesAssumption DEF TypeOK
  <2> QED BY <2>1 DEF ScanSubnet, TypeOK
<1>2. dueIn' \in [Subnets -> Nat] /\ \A t \in Subnets : dueIn'[t] <= Interval[t]
  <2>1. NextDue(s) \in Nat /\ NextDue(s) <= Interval[s]
    BY ProfilesAssumption, TimesAssumption DEF NextDue, AtLeast0, TypeOK
  <2> QED BY <2>1 DEF ScanSubnet, TypeOK
<1>3. unseen' \in [IPs -> {Gone} \cup 0..UnseenBound]
  <2>1. 0 \in 0..UnseenBound
    BY Bounds
  <2>2. \A ip \in IPs : unseen[ip] \in {Gone} \cup 0..UnseenBound
    BY DEF TypeOK
  <2>3. \A found : [ip \in IPs |-> IF ip \in found THEN 0 ELSE unseen[ip]]
                      \in [IPs -> {Gone} \cup 0..UnseenBound]
    BY <2>1, <2>2
  <2>4. CASE unseen' = unseen
    BY <2>4 DEF TypeOK
  <2>5. CASE \E found \in SUBSET Answers[s] :
                unseen' = [ip \in IPs |-> IF ip \in found THEN 0 ELSE unseen[ip]]
    <3>1. PICK found \in SUBSET Answers[s] :
                unseen' = [ip \in IPs |-> IF ip \in found THEN 0 ELSE unseen[ip]]
      BY <2>5
    <3> QED BY <2>3, <3>1
  <2>6. unseen' = unseen \/ \E found \in SUBSET Answers[s] :
                unseen' = [ip \in IPs |-> IF ip \in found THEN 0 ELSE unseen[ip]]
    BY ZenonT(30) DEF ScanSubnet
  <2> QED BY <2>4, <2>5, <2>6
<1>4. cycleHosts' \in Nat
  <2>1. \A found \in SUBSET Answers[s] : Cardinality(found) \in Nat
    BY FiniteHosts
  <2> QED BY <2>1 DEF ScanSubnet, TypeOK
<1>5. missed' \in SUBSET IPs
  BY FiniteHosts DEF ScanSubnet, TypeOK
<1>6. scanAges' \in SUBSET (0..ScanAgeBound)
  <2>1. scanAges' \subseteq scanAges \cup {0} /\ 0 \in 0..ScanAgeBound
    BY Bounds DEF ScanSubnet
  <2> QED BY <2>1 DEF TypeOK
<1>7. due' \in SUBSET Subnets /\ ok' \in BOOLEAN
  BY DEF ScanSubnet, TypeOK
<1> QED
  BY <1>1, <1>2, <1>3, <1>4, <1>5, <1>6, <1>7 DEF ScanSubnet, TypeOK, clock, tracker

(* Every step keeps the ranges.                                            *)
LEMMA Typing == TypeOK /\ [Next]_vars => TypeOK'
<1> SUFFICES ASSUME TypeOK, [Next]_vars PROVE TypeOK'
  OBVIOUS
<1> USE ProfilesAssumption, TimesAssumption DEF Gone, Never
<1>1. CASE UNCHANGED vars
  BY <1>1 DEF vars, clock, cycle, tracker, history, cycleHistory, TypeOK
<1>2. CASE ClockStep
  BY <1>2, ClockTyping
<1>3. CASE Trigger
  BY <1>3 DEF Trigger, TypeOK, clock, cycle, tracker, cycleHistory
<1>4. CASE Cancel
  BY <1>4 DEF Cancel, TypeOK, clock, cycle, tracker, history, cycleHistory
<1>5. CASE FirstCycle
  BY <1>5, StartTyping DEF FirstCycle, TypeOK
<1>6. CASE TakeStop
  BY <1>6 DEF TakeStop, TypeOK, clock, cycle, tracker, history, cycleHistory
<1>7. CASE TakeTick
  BY <1>7, StartTyping DEF TakeTick, TypeOK
<1>8. CASE TakeTrigger
  BY <1>8, StartTyping DEF TakeTrigger, TypeOK
<1>9. CASE \E s \in Subnets : ScanSubnet(s)
  BY <1>9, ScanTyping
<1>10. CASE Prune
  <2>1. unseen' \in [IPs -> {Gone} \cup 0..UnseenBound]
    BY <1>10 DEF Prune, TypeOK
  <2>2. pruned' \in SUBSET IPs
    BY <1>10 DEF Prune, Stale, Inventory
  <2>3. scanAges' \in SUBSET (0..ScanAgeBound)
    BY <1>10 DEF Prune, TypeOK
  <2> QED
    BY <1>10, <2>1, <2>2, <2>3 DEF Prune, TypeOK, clock, cycle, tracker
<1>11. CASE Diff
  <2>1. events' \in SUBSET [type : {"discovered", "vanished"}, ip : IPs]
        /\ known' \in SUBSET IPs
    <3>1. CASE UNCHANGED <<events, known>>
      BY <3>1 DEF TypeOK
    <3>2. CASE Emit(Changes(prev, Inventory))
      <4> DEFINE es == Changes(prev, Inventory)
      <4>1. es \in SUBSET [type : {"discovered", "vanished"}, ip : IPs]
        BY DEF Changes, Inventory, TypeOK
      <4>2. events' = es /\ known' \subseteq known \cup {e.ip : e \in {d \in es : d.type = "discovered"}}
        BY <3>2 DEF Emit
      <4> HIDE DEF es
      <4> QED
        BY <4>1, <4>2 DEF TypeOK
    <3> QED
      BY <1>11, <3>1, <3>2 DEF Diff
  <2> QED
    BY <1>11, <2>1 DEF Diff, TypeOK, clock, cycle, tracker
<1>12. CASE Publish
  <2>1. hostCount' \in Nat /\ healthy' \in BOOLEAN
    BY <1>12, FiniteHosts DEF Publish, Total, TypeOK
  <2>2. scannedAgo' \in {Never} \cup 0..AgoBound
    BY <1>12, TickPositive DEF Publish, RecordScan, AgoBound
  <2>3. tickIn' \in 0..TickInterval
    BY <1>12, TickPositive DEF Publish, TypeOK
  <2> QED
    BY <1>12, <2>1, <2>2, <2>3 DEF Publish, TypeOK, history, cycle, cycleHistory
<1> QED
  BY <1>1, <1>2, <1>3, <1>4, <1>5, <1>6, <1>7, <1>8, <1>9, <1>10, <1>11, <1>12 DEF Next, Run

-----------------------------------------------------------------------------
(* The inductive invariant has three parts.  Timing: how the ages that the *)
(* properties bound go with tickIn, late, age and dueIn.  MaxGap is the    *)
(* longest time between two looks at the ticker, the latency aside.        *)
MaxGap == LongerOf(TickInterval, MaxCycle)

(* Before the first cycle.                                                 *)
Fresh == pc = "boot" => ~tick /\ \A s \in Subnets : silent[s] = 0

(* The ticker is created at the end of the first cycle.                    *)
TickerKnown == /\ tickIn = 0 <=> scannedAgo = Never
               /\ pc = "boot" => tickIn = 0
               /\ pc = "select" => tickIn > 0

(* A profile whose time has not come has been tried within its interval,   *)
(* and none is left untried when the scans are over.                       *)
DueSoon == /\ \A s \in Subnets : dueIn[s] = 0 \/ dueIn[s] + silent[s] <= Interval[s]
           /\ InCycle => \A s \in Subnets : dueIn[s] = 0 \/ dueIn[s] + age <= Interval[s]
           /\ pc \in {"diff", "publish"} => due = {}

(* An idle loop without a tick will get one in time; with one, the latency *)
(* is all that passes.                                                     *)
Idle ==
    pc = "select" =>
      /\ ~tick => /\ scannedAgo + tickIn <= TickInterval
                  /\ \A s \in Subnets : silent[s] + tickIn <= Interval[s] + MaxGap
      /\ tick => /\ scannedAgo <= TickInterval + late
                 /\ \A s \in Subnets : silent[s] <= Interval[s] + MaxGap + late

(* A tick that fires during a cycle is found after it.                     *)
Busy ==
    InCycle =>
      /\ ~tick /\ tickIn > 0 => tickIn + age <= TickInterval
      /\ scannedAgo <= TickInterval + Jitter + age
      /\ tickIn = 0 => \A s \in Subnets : silent[s] <= age
      /\ \A s \in Subnets \ due : silent[s] <= Interval[s] + age
      /\ \A s \in due : silent[s] <= Interval[s] + MaxGap + Jitter + age

Timing == Fresh /\ TickerKnown /\ DueSoon /\ Idle /\ Busy

(* Telling: what has vanished since the snapshot has been pruned.          *)
Telling ==
    /\ VanishedOnlyPruned
    /\ pc = "scan" => events = {} /\ prev \subseteq Inventory
    /\ pc = "diff" => events = {} /\ prev \ Inventory \subseteq pruned

(* Tracking: as long as no sweep and no snapshot fails, the snapshot of a  *)
(* cycle is what the events have told so far.                              *)
Tracking ==
    ~ctxDone =>
      /\ pc \in {"boot", "select", "publish"} => known = Inventory
      /\ pc \in {"scan", "diff"} => ok /\ prev = known

(* The longest time between two looks at the ticker covers both.           *)
LEMMA GapBounds ==
    MaxGap \in Nat /\ TickInterval <= MaxGap /\ MaxCycle <= MaxGap
BY TickPositive, TimesAssumption DEF MaxGap, LongerOf

-----------------------------------------------------------------------------
(* Timing, action by action.                                               *)
LEMMA InitTiming == Init => Timing
BY ProfilesAssumption DEF Init, Timing, Fresh, TickerKnown, DueSoon, Idle, Busy, InCycle, Never

(* A unit of time passes.                                                  *)
LEMMA ClockTiming == ASSUME TypeOK, Timing, ClockStep PROVE Timing'
<1> USE TickPositive, TimesAssumption, GapBounds
<1>0. /\ tickIn \in Nat /\ age \in Nat /\ late \in Nat /\ TickInterval \in Nat
      /\ \A s \in Subnets : silent[s] \in Nat /\ dueIn[s] \in Nat /\ Interval[s] \in Nat
      /\ tick \in BOOLEAN
  BY ProfilesAssumption DEF TypeOK
<1>1. \A s \in Subnets : silent'[s] \in Nat /\ silent'[s] <= silent[s] + 1
  <2>1. \A s \in Subnets : /\ Older(silent[s], SilentBound(s)) \in Nat
                           /\ Older(silent[s], SilentBound(s)) <= silent[s] + 1
    BY <1>0, Bounds, OlderStays
  <2> QED BY <2>1 DEF ClockStep
<1>2. /\ scannedAgo' = Never <=> scannedAgo = Never
      /\ scannedAgo' <= scannedAgo + 1 \/ scannedAgo' = Never
      /\ scannedAgo \in Int /\ scannedAgo' \in Int
  <2>1. CASE scannedAgo = Never
    BY <2>1 DEF ClockStep, Never
  <2>2. CASE scannedAgo # Never
    <3>1. scannedAgo \in Nat
      BY <2>2, Bounds DEF TypeOK
    <3>2. Older(scannedAgo, AgoBound) \in Nat /\ Older(scannedAgo, AgoBound) <= scannedAgo + 1
      BY <3>1, Bounds, OlderStays
    <3> QED BY <2>2, <3>1, <3>2 DEF ClockStep, Never
  <2> QED BY <2>1, <2>2
<1>3. \A s \in Subnets : dueIn'[s] = 0 \/ (dueIn[s] # 0 /\ dueIn'[s] = dueIn[s] - 1)
  <2>1. \A s \in Subnets : dueIn'[s] = AtLeast0(dueIn[s] - 1)
    BY DEF ClockStep
  <2> QED BY <1>0, <2>1 DEF AtLeast0
<1>4. /\ pc \notin {"boot", "stopped"} /\ pc' = pc /\ due' = due
      /\ tickIn = 0 => tickIn' = 0
      /\ tickIn = 1 => tickIn' = TickInterval
      /\ tickIn > 1 => tickIn' = tickIn - 1
  BY <1>0 DEF ClockStep, AtLeast0
<1>5. /\ ~tick' => ~tick /\ tickIn # 1
      /\ tick' => tick \/ tickIn = 1
  BY <1>0 DEF ClockStep
<1>6. /\ late' \in Nat
      /\ pc = "select" /\ tick => late' = late + 1
  BY <1>0 DEF ClockStep, Ready
<1>7. /\ InCycle' = InCycle
      /\ InCycle => age' = age + 1
  BY <1>4 DEF ClockStep, InCycle
<1>8. Fresh' /\ TickerKnown'
  BY <1>0, <1>2, <1>4 DEF Timing, TickerKnown, Fresh
<1>9. DueSoon'
  <2>1. ASSUME NEW s \in Subnets
        PROVE  dueIn'[s] = 0 \/ dueIn'[s] + silent'[s] <= Interval[s]
    BY <1>0, <1>1, <1>3 DEF Timing, DueSoon
  <2>2. ASSUME NEW s \in Subnets, InCycle
        PROVE  dueIn'[s] = 0 \/ dueIn'[s] + age' <= Interval[s]
    BY <1>0, <1>3, <1>7, <2>2 DEF Timing, DueSoon
  <2> QED BY <1>4, <1>7, <2>1, <2>2 DEF Timing, DueSoon
<1>10. Idle'
  <2> SUFFICES ASSUME pc = "select" PROVE Idle'
    BY <1>4 DEF Idle
  <2>1. tickIn > 0 /\ scannedAgo' <= scannedAgo + 1
    BY <1>0, <1>2 DEF Timing, TickerKnown
  <2>2. ASSUME ~tick'
        PROVE  /\ scannedAgo' + tickIn' <= TickInterval
               /\ \A s \in Subnets : silent'[s] + tickIn' <= Interval[s] + MaxGap
    <3>1. ~tick /\ tickIn' = tickIn - 1
      BY <1>0, <1>4, <1>5, <2>1, <2>2
    <3>2. scannedAgo' + tickIn' <= TickInterval
      <4>1. scannedAgo + tickIn <= TickInterval
        BY <3>1 DEF Timing, Idle
      <4>2. /\ scannedAgo \in Int /\ scannedAgo' \in Int /\ tickIn \in Nat
            /\ scannedAgo' <= scannedAgo + 1 /\ tickIn' = tickIn - 1
        BY <1>0, <1>2, <2>1, <3>1
      <4>3. \A i, j \in Int, n \in Nat :
                i <= j + 1 /\ j + n <= TickInterval => i + (n - 1) <= TickInterval
        OBVIOUS
      <4> QED BY <4>1, <4>2, <4>3
    <3>3. ASSUME NEW s \in Subnets PROVE silent'[s] + tickIn' <= Interval[s] + MaxGap
      <4>1. silent[s] + tickIn <= Interval[s] + MaxGap
        BY <3>1 DEF Timing, Idle
      <4> QED BY <1>0, <1>1, <3>1, <4>1
    <3> QED BY <3>2, <3>3
  <2>3. ASSUME tick'
        PROVE  /\ scannedAgo' <= TickInterval + late'
               /\ \A s \in Subnets : silent'[s] <= Interval[s] + MaxGap + late'
    <3>1. CASE tick
      <4>1. late' = late + 1 /\ scannedAgo <= TickInterval + late
        BY <1>6, <3>1 DEF Timing, Idle
      <4>2. ASSUME NEW s \in Subnets PROVE silent'[s] <= Interval[s] + MaxGap + late'
        <5>1. silent[s] <= Interval[s] + MaxGap + late
          BY <3>1 DEF Timing, Idle
        <5> QED BY <1>0, <1>1, <4>1, <5>1
      <4> QED BY <1>0, <1>2, <2>1, <4>1, <4>2
    <3>2. CASE ~tick /\ tickIn = 1
      <4>1. scannedAgo + 1 <= TickInterval
        BY <3>2 DEF Timing, Idle
      <4>2. ASSUME NEW s \in Subnets PROVE silent'[s] <= Interval[s] + MaxGap + late'
        <5>1. silent[s] + 1 <= Interval[s] + MaxGap
          BY <3>2 DEF Timing, Idle
        <5> QED BY <1>0, <1>1, <1>6, <5>1
      <4>3. scannedAgo' <= TickInterval + late'
        <5>1. scannedAgo \in Int /\ scannedAgo' \in Int /\ late' \in Nat
          BY <1>2, <1>6
        <5>2. TickInterval \in Nat
          BY TickPositive
        <5>3. scannedAgo' <= TickInterval
          BY <2>1, <4>1, <5>1, <5>2
        <5>4. \A n \in Nat : \A i \in Int : i <= TickInterval => i <= TickInterval + n
          BY <5>2
        <5> QED BY <5>1, <5>3, <5>4
      <4> QED BY <4>2, <4>3
    <3> QED BY <1>5, <2>3, <3>1, <3>2
  <2>4. MaxGap' = MaxGap
    BY DEF MaxGap
  <2> QED BY <2>2, <2>3, <2>4 DEF Idle
<1>11. Busy'
  <2> SUFFICES ASSUME InCycle PROVE Busy'
    BY <1>7 DEF Busy
  <2>1. ~tick' /\ tickIn' > 0 => tickIn' + age' <= TickInterval
    BY <1>0, <1>4, <1>5, <1>7 DEF Timing, Busy
  <2>2. scannedAgo' <= TickInterval + Jitter + age'
    BY <1>0, <1>2, <1>7 DEF Timing, Busy, Never
  <2>3. tickIn' = 0 => \A s \in Subnets : silent'[s] <= age'
    BY <1>0, <1>1, <1>4, <1>7 DEF Timing, Busy
  <2>4. \A s \in Subnets \ due' : silent'[s] <= Interval[s] + age'
    BY <1>0, <1>1, <1>4, <1>7 DEF Timing, Busy
  <2>5. due \subseteq Subnets
    BY DEF TypeOK
  <2>6. \A s \in due' : silent'[s] <= Interval[s] + MaxGap + Jitter + age'
    BY <1>0, <1>1, <1>4, <1>7, <2>5 DEF Timing, Busy
  <2> QED BY <2>1, <2>2, <2>3, <2>4, <2>6 DEF Busy, MaxGap
<1> QED BY <1>8, <1>9, <1>10, <1>11 DEF Timing

(* A cycle begins: the first one, or from the select.                      *)
LEMMA StartTiming ==
    ASSUME TypeOK, Timing, NEW forceAll \in BOOLEAN, StartCycle(forceAll),
           (pc = "boot" /\ forceAll) \/ pc = "select"
    PROVE  Timing'
<1> USE TickPositive, TimesAssumption, GapBounds
<1>0. /\ tickIn \in Nat /\ tickIn <= TickInterval /\ late \in Nat /\ late <= Jitter
      /\ \A s \in Subnets : silent[s] \in Nat /\ dueIn[s] \in Nat /\ Interval[s] \in Nat
      /\ \A s \in Subnets : dueIn[s] <= Interval[s]
      /\ tick \in BOOLEAN /\ scannedAgo \in Int
  BY ProfilesAssumption, Bounds DEF TypeOK, Never
<1>1. /\ pc' = "scan" /\ age' = 0
      /\ due' = IF forceAll THEN Subnets ELSE {s \in Subnets : dueIn[s] = 0}
      /\ tickIn' = tickIn /\ dueIn' = dueIn /\ silent' = silent /\ scannedAgo' = scannedAgo
  BY DEF StartCycle, IsDue, tracker
<1>2. \A s \in Subnets : silent[s] <= Interval[s] + MaxGap + Jitter
  BY <1>0 DEF Timing, Fresh, Idle
<1>3. \A s \in Subnets \ due' : silent[s] <= Interval[s]
  BY <1>0, <1>1 DEF Timing, DueSoon
<1>4. scannedAgo <= TickInterval + Jitter
  BY <1>0 DEF Timing, TickerKnown, Idle, Never
<1>5. tickIn = 0 => \A s \in Subnets : silent[s] = 0
  BY DEF Timing, TickerKnown, Fresh
<1>6. due' \subseteq Subnets
  BY <1>1
<1>7. Busy'
  BY <1>0, <1>1, <1>2, <1>3, <1>4, <1>5, <1>6 DEF Busy, InCycle
<1>8. DueSoon'
  BY <1>0, <1>1 DEF Timing, DueSoon, InCycle
<1>9. Fresh' /\ TickerKnown' /\ Idle'
  BY <1>1 DEF Timing, Fresh, TickerKnown, Idle
<1> QED BY <1>7, <1>8, <1>9 DEF Timing

(* A profile is scanned, or fails.                                         *)
LEMMA ScanTiming == ASSUME TypeOK, Timing, NEW s \in Subnets, ScanSubnet(s) PROVE Timing'
<1> USE TickPositive, TimesAssumption, GapBounds
<1>0. /\ tickIn \in Nat /\ age \in Nat
      /\ \A t \in Subnets : silent[t] \in Nat /\ dueIn[t] \in Nat /\ Interval[t] \in Nat
      /\ silent \in [Subnets -> Nat] /\ dueIn \in [Subnets -> Nat] /\ due \subseteq Subnets
  BY ProfilesAssumption DEF TypeOK
<1>1. /\ pc = "scan" /\ pc' = "scan" /\ due' = due \ {s}
      /\ silent' = [silent EXCEPT ![s] = age]
      /\ dueIn' = dueIn \/ dueIn' = [dueIn EXCEPT ![s] = NextDue(s)]
      /\ UNCHANGED <<tickIn, tick, late, age, scannedAgo>>
  BY DEF ScanSubnet, clock, tracker
<1>2. NextDue(s) = 0 \/ NextDue(s) + age = Interval[s]
  BY <1>0 DEF NextDue, AtLeast0
<1>3. \A t \in Subnets : dueIn'[t] = 0 \/ dueIn'[t] + age <= Interval[t]
  BY <1>0, <1>1, <1>2 DEF Timing, DueSoon, InCycle
<1>4. \A t \in Subnets : dueIn'[t] = 0 \/ dueIn'[t] + silent'[t] <= Interval[t]
  <2>1. CASE dueIn' = dueIn
    BY <1>0, <1>1, <1>3, <2>1 DEF Timing, DueSoon
  <2>2. CASE dueIn' = [dueIn EXCEPT ![s] = NextDue(s)]
    BY <1>0, <1>1, <1>2, <2>2 DEF Timing, DueSoon
  <2> QED BY <1>1, <2>1, <2>2
<1>5. DueSoon'
  BY <1>1, <1>3, <1>4 DEF DueSoon
<1>6. Busy'
  BY <1>0, <1>1 DEF Timing, Busy, InCycle
<1>7. Fresh' /\ TickerKnown' /\ Idle'
  BY <1>1 DEF Timing, Fresh, TickerKnown, Idle
<1> QED BY <1>5, <1>6, <1>7 DEF Timing

(* A cycle ends.                                                           *)
LEMMA PublishTiming == ASSUME TypeOK, Timing, Publish PROVE Timing'
<1> USE TickPositive, TimesAssumption, GapBounds
<1>0. /\ tickIn \in Nat /\ age \in Nat /\ age <= MaxCycle /\ late \in Nat /\ tick \in BOOLEAN
      /\ \A s \in Subnets : silent[s] \in Nat /\ dueIn[s] \in Nat /\ Interval[s] \in Nat
      /\ tickIn <= TickInterval
  BY ProfilesAssumption DEF TypeOK
<1>1. /\ pc = "publish" /\ pc' = "select" /\ due = {}
      /\ scannedAgo' = 0
      /\ tickIn' = IF tickIn = 0 THEN TickInterval ELSE tickIn
      /\ UNCHANGED <<tick, late, dueIn, silent, due, age>>
  BY DEF Publish, RecordScan, history, cycle, Timing, DueSoon
<1>2. \A s \in Subnets : silent[s] <= Interval[s] + age
  BY <1>1 DEF Timing, Busy, InCycle
<1>3. /\ tickIn = 0 => \A s \in Subnets : silent[s] <= age
      /\ ~tick /\ tickIn > 0 => tickIn + age <= TickInterval
  BY <1>1 DEF Timing, Busy, InCycle
<1>4. ASSUME ~tick, NEW s \in Subnets PROVE silent[s] + tickIn' <= Interval[s] + MaxGap
  BY <1>0, <1>1, <1>2, <1>3, <1>4
<1>5. Idle'
  BY <1>0, <1>1, <1>2, <1>4 DEF Idle
<1>6. DueSoon' /\ Busy'
  BY <1>1 DEF Timing, DueSoon, Busy, InCycle
<1>7. Fresh' /\ TickerKnown'
  BY <1>0, <1>1 DEF Timing, Fresh, TickerKnown, Never
<1> QED BY <1>5, <1>6, <1>7 DEF Timing

(* Every step keeps Timing.                                                *)
LEMMA TimingStep == ASSUME TypeOK, Timing, [Next]_vars PROVE Timing'
<1> USE DEF Timing, Fresh, TickerKnown, DueSoon, Idle, Busy, InCycle
<1>1. CASE UNCHANGED vars
  BY <1>1 DEF vars, clock, cycle, tracker, history
<1>2. CASE ClockStep
  BY <1>2, ClockTiming
<1>3. CASE Trigger
  BY <1>3 DEF Trigger, clock, cycle, tracker
<1>4. CASE Cancel
  BY <1>4 DEF Cancel, clock, cycle, tracker, history
<1>5. CASE FirstCycle
  BY <1>5, StartTiming DEF FirstCycle
<1>6. CASE TakeStop
  BY <1>6 DEF TakeStop, clock, cycle, tracker, history
<1>7. CASE TakeTick
  BY <1>7, StartTiming DEF TakeTick
<1>8. CASE TakeTrigger
  BY <1>8, StartTiming DEF TakeTrigger
<1>9. CASE \E s \in Subnets : ScanSubnet(s)
  BY <1>9, ScanTiming
<1>10. CASE Prune
  BY <1>10 DEF Prune, clock, cycle, tracker
<1>11. CASE Diff
  BY <1>11 DEF Diff, clock, cycle, tracker
<1>12. CASE Publish
  BY <1>12, PublishTiming
<1> QED
  BY <1>1, <1>2, <1>3, <1>4, <1>5, <1>6, <1>7, <1>8, <1>9, <1>10, <1>11, <1>12 DEF Next, Run

-----------------------------------------------------------------------------
(* Who has a row: time does not change it, a scan only adds to it.         *)
LEMMA ClockKeepsInventory == ASSUME TypeOK, ClockStep PROVE Inventory' = Inventory
<1>1. ASSUME NEW ip \in IPs PROVE unseen'[ip] # Gone <=> unseen[ip] # Gone
  <2>1. unseen'[ip] = IF unseen[ip] = Gone THEN Gone ELSE Older(unseen[ip], UnseenBound)
    BY DEF ClockStep
  <2>2. CASE unseen[ip] = Gone
    BY <2>1, <2>2
  <2>3. CASE unseen[ip] # Gone
    <3>1. unseen[ip] \in Nat
      BY <2>3, Bounds DEF TypeOK
    <3>2. Older(unseen[ip], UnseenBound) \in 0..UnseenBound
      BY <3>1, Bounds, OlderStays
    <3>3. Older(unseen[ip], UnseenBound) # Gone
      BY <3>2, Bounds DEF Gone
    <3> QED BY <2>1, <2>3, <3>3
  <2> QED BY <2>2, <2>3
<1> QED BY <1>1 DEF Inventory

(* A scan adds rows and removes none.                                      *)
LEMMA ScanAddsHosts ==
    ASSUME TypeOK, NEW s \in Subnets, ScanSubnet(s) PROVE Inventory \subseteq Inventory'
<1>1. ASSUME NEW ip \in IPs, unseen[ip] # Gone PROVE unseen'[ip] # Gone
  BY <1>1 DEF ScanSubnet, Gone
<1> QED BY <1>1 DEF Inventory

(* Pruning removes what it says it has removed.                            *)
LEMMA PruneRemovesPruned == ASSUME Prune PROVE Inventory \ Inventory' \subseteq pruned'
<1>1. ASSUME NEW ip \in IPs, ip \notin pruned' PROVE unseen'[ip] = unseen[ip]
  BY <1>1 DEF Prune
<1> QED BY <1>1 DEF Inventory

-----------------------------------------------------------------------------
(* Telling, action by action.                                              *)
LEMMA InitTelling == Init => Telling
BY DEF Init, Telling, VanishedOnlyPruned

(* A cycle begins with its snapshot and no events.                         *)
LEMMA StartTelling ==
    ASSUME TypeOK, NEW forceAll \in BOOLEAN, StartCycle(forceAll) PROVE Telling'
<1>1. prev' \subseteq Inventory /\ Inventory' = Inventory
  BY DEF StartCycle, Snapshot, Inventory
<1>2. pc' = "scan" /\ events' = {}
  BY DEF StartCycle
<1> QED BY <1>1, <1>2 DEF Telling, VanishedOnlyPruned

(* Every step keeps Telling.                                               *)
LEMMA TellingStep == ASSUME TypeOK, Telling, [Next]_vars PROVE Telling'
<1>1. CASE UNCHANGED <<pc, events, prev, pruned, unseen>>
  BY <1>1 DEF Telling, VanishedOnlyPruned, Inventory
<1>2. CASE ClockStep
  BY <1>2, ClockKeepsInventory DEF ClockStep, cycleHistory, Telling, VanishedOnlyPruned
<1>3. CASE FirstCycle \/ TakeTick \/ TakeTrigger
  BY <1>3, StartTelling DEF FirstCycle, TakeTick, TakeTrigger
<1>4. CASE TakeStop
  BY <1>4 DEF TakeStop, cycle, history, cycleHistory, Telling, VanishedOnlyPruned
<1>5. ASSUME NEW s \in Subnets, ScanSubnet(s) PROVE Telling'
  BY <1>5, ScanAddsHosts DEF ScanSubnet, Telling, VanishedOnlyPruned
<1>6. CASE Prune
  <2>1. prev \subseteq Inventory /\ events = {}
    BY <1>6 DEF Prune, Telling
  <2>2. prev' = prev /\ events' = events /\ pc' = "diff"
    BY <1>6 DEF Prune, cycle
  <2> QED BY <1>6, <2>1, <2>2, PruneRemovesPruned DEF Telling, VanishedOnlyPruned
<1>7. CASE Diff
  <2>1. pc' = "publish" /\ pruned' = pruned /\ events = {} /\ prev \ Inventory \subseteq pruned
    BY <1>7 DEF Diff, Telling
  <2>2. events' = events \/ events' = Changes(prev, Inventory)
    BY <1>7 DEF Diff, Emit
  <2>3. VanishedOnlyPruned'
    BY <2>1, <2>2 DEF Changes, VanishedOnlyPruned
  <2> QED BY <2>1, <2>3 DEF Telling
<1>8. CASE Publish
  BY <1>8 DEF Publish, cycle, history, cycleHistory, Telling, VanishedOnlyPruned
<1>9. CASE Trigger \/ Cancel
  BY <1>1, <1>9 DEF Trigger, Cancel, cycle, history, cycleHistory
<1>10. CASE UNCHANGED vars
  BY <1>1, <1>10 DEF vars, cycle, history, cycleHistory
<1> QED
  BY <1>2, <1>3, <1>4, <1>5, <1>6, <1>7, <1>8, <1>9, <1>10 DEF Next, Run

-----------------------------------------------------------------------------
(* Tracking, action by action.                                             *)
LEMMA InitTracking == Init => Tracking
BY DEF Init, Tracking

(* A cycle begins with a snapshot that is what was told.                   *)
LEMMA StartTracking ==
    ASSUME "list" \notin Failures, TypeOK, Tracking, NEW forceAll \in BOOLEAN, StartCycle(forceAll),
           pc \in {"boot", "select"}
    PROVE  Tracking'
<1> SUFFICES ASSUME ~ctxDone PROVE Tracking'
  BY DEF StartCycle, Tracking
<1>1. prev' = Inventory /\ known = Inventory
  BY DEF StartCycle, Snapshot, CallFail, Tracking
<1>2. pc' = "scan" /\ ok' = TRUE /\ known' = known
  BY DEF StartCycle
<1> QED BY <1>1, <1>2 DEF Tracking

(* Emitting the difference of two inventories leads from one to the other. *)
LEMMA EmitLeads ==
    ASSUME NEW before, NEW after, known = before, Emit(Changes(before, after))
    PROVE  known' = after
<1> DEFINE es == Changes(before, after)
<1>1. {e.ip : e \in {d \in es : d.type = "discovered"}} = after \ before
  <2>1. \A ip \in after \ before : [type |-> "discovered", ip |-> ip] \in es
    BY DEF Changes
  <2>2. \A e \in es : e.type = "discovered" => e.ip \in after \ before
    BY DEF Changes
  <2> HIDE DEF es
  <2>3. ASSUME NEW ip \in after \ before
        PROVE  ip \in {e.ip : e \in {d \in es : d.type = "discovered"}}
    <3>1. [type |-> "discovered", ip |-> ip] \in {d \in es : d.type = "discovered"}
      BY <2>1
    <3> QED BY <3>1
  <2> QED BY <2>2, <2>3
<1>2. {e.ip : e \in {d \in es : d.type = "vanished"}} = before \ after
  <2>1. \A ip \in before \ after : [type |-> "vanished", ip |-> ip] \in es
    BY DEF Changes
  <2>2. \A e \in es : e.type = "vanished" => e.ip \in before \ after
    BY DEF Changes
  <2> HIDE DEF es
  <2>3. ASSUME NEW ip \in before \ after
        PROVE  ip \in {e.ip : e \in {d \in es : d.type = "vanished"}}
    <3>1. [type |-> "vanished", ip |-> ip] \in {d \in es : d.type = "vanished"}
      BY <2>1
    <3> QED BY <3>1
  <2> QED BY <2>2, <2>3
<1> QED BY <1>1, <1>2 DEF Emit

(* Every step keeps Tracking, if no sweep and no snapshot fails.           *)
LEMMA TrackingStep ==
    ASSUME "scan" \notin Failures, "list" \notin Failures, TypeOK, Tracking, [Next]_vars
    PROVE  Tracking'
<1>1. CASE UNCHANGED <<ctxDone, pc, ok, prev, known, unseen>>
  BY <1>1 DEF Tracking, Inventory
<1>2. CASE ClockStep
  BY <1>2, ClockKeepsInventory DEF ClockStep, cycleHistory, Tracking
<1>3. CASE Cancel
  BY <1>3 DEF Cancel, Tracking
<1>4. CASE FirstCycle \/ TakeTick \/ TakeTrigger
  BY <1>4, StartTracking DEF FirstCycle, TakeTick, TakeTrigger
<1>5. CASE TakeStop
  BY <1>5 DEF TakeStop, Tracking
<1>6. ASSUME NEW s \in Subnets, ScanSubnet(s) PROVE Tracking'
  <2> SUFFICES ASSUME ~ctxDone PROVE Tracking'
    BY <1>6 DEF ScanSubnet, Tracking
  <2>1. ok /\ prev = known /\ pc' = "scan"
    BY <1>6 DEF ScanSubnet, Tracking
  <2>2. ok' = ok /\ prev' = prev /\ known' = known
    BY <1>6 DEF ScanSubnet, CallFail
  <2> QED BY <2>1, <2>2 DEF Tracking
<1>7. CASE Prune
  BY <1>7 DEF Prune, cycle, Tracking
<1>8. CASE Diff
  <2> SUFFICES ASSUME ~ctxDone PROVE Tracking'
    BY <1>8 DEF Diff, Tracking
  <2>1. ok /\ prev = known
    BY <1>8 DEF Diff, Tracking
  <2>2. Emit(Changes(prev, Inventory))
    BY <1>8, <2>1 DEF Diff, CallFail
  <2>3. known' = Inventory /\ Inventory' = Inventory
    BY <1>8, <2>1, <2>2, EmitLeads DEF Diff, Inventory
  <2>4. pc' = "publish"
    BY <1>8 DEF Diff
  <2> QED BY <2>3, <2>4 DEF Tracking
<1>9. CASE Publish
  BY <1>9 DEF Publish, cycle, history, cycleHistory, Tracking, Inventory
<1>10. CASE Trigger
  BY <1>1, <1>10 DEF Trigger, cycle, cycleHistory
<1>11. CASE UNCHANGED vars
  BY <1>1, <1>11 DEF vars, cycle, history, cycleHistory
<1> QED
  BY <1>2, <1>3, <1>4, <1>5, <1>6, <1>7, <1>8, <1>9, <1>10, <1>11 DEF Next, Run

-----------------------------------------------------------------------------
(* The loop's state keeps its ranges, for any profiles and bounds, and so  *)
(* do the times and the bookkeeping of events around it.                   *)
THEOREM Invariance == Spec => [](TypeOK /\ Timing /\ Telling)
<1>1. Init => TypeOK /\ Timing /\ Telling
  BY InitTyping, InitTiming, InitTelling
<1>2. TypeOK /\ Timing /\ Telling /\ [Next]_vars => (TypeOK /\ Timing /\ Telling)'
  BY Typing, TimingStep, TellingStep
<1> QED BY <1>1, <1>2, PTL DEF Spec

(* Every variable of the loop keeps its range.                             *)
THEOREM TypeCorrect == Spec => []TypeOK
BY Invariance, PTL

(* No profile goes untried for longer than its interval, one tick or one   *)
(* cycle, and the latency: the cadence nextDue and the shortest interval   *)
(* are to give, whatever was triggered and however long sweeps took.       *)
THEOREM CadenceKept == Spec => []CadenceBound
<1>1. TypeOK /\ Timing => CadenceBound
  <2> SUFFICES ASSUME TypeOK, Timing, pc # "stopped", NEW s \in Subnets
               PROVE  Waited(s) <= Interval[s] + LongerOf(TickInterval, MaxCycle) + Jitter
    BY DEF CadenceBound
  <2>1. /\ silent[s] \in Nat /\ Interval[s] \in Nat /\ age \in Nat /\ MaxGap \in Nat
        /\ tickIn \in Nat /\ late \in Nat /\ late <= Jitter /\ Jitter \in Nat
    BY ProfilesAssumption, TimesAssumption, TickPositive, GapBounds DEF TypeOK
  <2>2. CASE pc = "boot"
    <3>1. silent[s] = 0 /\ ~InCycle
      BY <2>2 DEF Timing, Fresh, InCycle
    <3> QED BY <2>1, <3>1 DEF Waited, MaxGap
  <2>3. CASE pc = "select"
    <3>1. silent[s] <= Interval[s] + MaxGap + Jitter
      BY <2>1, <2>3 DEF Timing, Idle
    <3>2. ~InCycle
      BY <2>3 DEF InCycle
    <3>3. Waited(s) = silent[s]
      BY <2>1, <3>2 DEF Waited
    <3> QED BY <3>1, <3>3 DEF MaxGap
  <2>4. CASE InCycle
    <3>1. silent[s] <= Interval[s] + MaxGap + Jitter + age
      <4>1. CASE s \in due
        BY <2>4, <4>1 DEF Timing, Busy
      <4>2. CASE s \notin due
        <5>1. silent[s] <= Interval[s] + age
          BY <2>4, <4>2 DEF Timing, Busy
        <5> QED BY <2>1, <5>1
      <4> QED BY <4>1, <4>2
    <3>2. Waited(s) = silent[s] - age
      BY <2>4 DEF Waited
    <3>3. silent[s] - age <= Interval[s] + MaxGap + Jitter
      BY <2>1, <3>1
    <3> QED BY <3>2, <3>3 DEF MaxGap
  <2> QED BY <2>2, <2>3, <2>4 DEF TypeOK, InCycle
<1> QED BY <1>1, Invariance, PTL

(* LastScanAt, on which the health endpoint and the peer's watchdog judge  *)
(* the loop, is never older than a tick, a cycle and the latency.          *)
THEOREM FreshKept == Spec => []FreshBound
<1>1. TypeOK /\ Timing => FreshBound
  <2> SUFFICES ASSUME TypeOK, Timing, pc # "stopped", scannedAgo # Never
               PROVE  scannedAgo <= TickInterval + MaxCycle + Jitter
    BY DEF FreshBound
  <2>1. /\ scannedAgo \in Nat /\ age \in Nat /\ age <= MaxCycle /\ MaxCycle \in Nat
        /\ tickIn \in Nat /\ late \in Nat /\ late <= Jitter /\ Jitter \in Nat
        /\ TickInterval \in Nat
    BY TimesAssumption, TickPositive, Bounds DEF TypeOK
  <2>2. pc # "boot"
    BY DEF Timing, TickerKnown
  <2>3. CASE pc = "select"
    <3>1. CASE tick
      <4>1. scannedAgo <= TickInterval + late
        BY <2>3, <3>1 DEF Timing, Idle
      <4> QED BY <2>1, <4>1
    <3>2. CASE ~tick
      <4>1. scannedAgo + tickIn <= TickInterval
        BY <2>3, <3>2 DEF Timing, Idle
      <4> QED BY <2>1, <4>1
    <3> QED BY <3>1, <3>2
  <2>4. CASE InCycle
    <3>1. scannedAgo <= TickInterval + Jitter + age
      BY <2>4 DEF Timing, Busy
    <3> QED BY <2>1, <3>1
  <2> QED BY <2>2, <2>3, <2>4 DEF TypeOK, InCycle
<1> QED BY <1>1, Invariance, PTL

(* host.vanished goes out only for hosts this cycle has pruned, also when  *)
(* calls fail and contexts end in the middle of it.                        *)
THEOREM VanishedArePruned == Spec => []VanishedOnlyPruned
<1>1. Telling => VanishedOnlyPruned
  BY DEF Telling
<1> QED BY <1>1, Invariance, PTL

(* If no sweep and no List fails before the context ends, applying the     *)
(* events gives the inventory after each cycle (agent.go:218, 329); prune  *)
(* and Count may fail as they like.                                        *)
THEOREM EventsTellAll ==
    ASSUME "scan" \notin Failures, "list" \notin Failures PROVE Spec => []EventsTrackInventory
<1>1. Init => TypeOK /\ Tracking
  BY InitTyping, InitTracking
<1>2. TypeOK /\ Tracking /\ [Next]_vars => (TypeOK /\ Tracking)'
  BY Typing, TrackingStep
<1>3. Tracking => EventsTrackInventory
  BY DEF Tracking, EventsTrackInventory
<1> QED BY <1>1, <1>2, <1>3, PTL DEF Spec

-----------------------------------------------------------------------------
(* Pruning. The TTL covers the intervals: a host found by the last scan of *)
(* its subnet is not stale before the next one is due.                     *)
TTLCovers == HostTTL # 0 => \A s \in Subnets : Interval[s] <= HostTTL + 1

(* A host that no scan has missed since it was seen.                       *)
Kept(s) == (Answers[s] \cap Inventory) \ missed

(* The last successful scan of a subnet that is not due again began        *)
(* Interval - dueIn ago and saw each host of it that is not missed; in a   *)
(* cycle without failures that goes for every subnet off its list.         *)
Sighted ==
    /\ \A s \in Subnets : dueIn[s] > 0 => \A ip \in Kept(s) : unseen[ip] <= Interval[s] - dueIn[s]
    /\ pc = "scan" /\ ok =>
          \A s \in Subnets \ due : \A ip \in Kept(s) : unseen[ip] <= age + Interval[s] - 1
    /\ pc = "scan" => pruned = {}
    /\ "scan" \in Failures \/ ok \/ ctxDone
    /\ ("scan" \in Failures /\ ~ok) \/ PrunedWasMissed

LEMMA UnseenRange ==
    ASSUME TypeOK PROVE \A ip \in Inventory : ip \in IPs /\ unseen[ip] \in Nat
BY Bounds DEF TypeOK, Inventory, Gone

(* The ages of the sightings and the times to the next scan move together. *)
LEMMA ClockSighted == ASSUME TypeOK, Sighted, ClockStep PROVE Sighted'
<1>1. UNCHANGED <<ctxDone, pc, due, ok, missed, pruned>> /\ Inventory' = Inventory
  BY ClockKeepsInventory DEF ClockStep, cycleHistory
<1>2. \A s : Kept(s)' = Kept(s)
  BY <1>1 DEF Kept
<1>3. ASSUME NEW ip \in Inventory
      PROVE  unseen[ip] \in Nat /\ unseen'[ip] \in Nat /\ unseen'[ip] <= unseen[ip] + 1
  <2>1. ip \in IPs /\ unseen[ip] \in Nat /\ unseen[ip] # Gone
    BY UnseenRange DEF Inventory
  <2>2. unseen'[ip] = Older(unseen[ip], UnseenBound)
    BY <2>1 DEF ClockStep
  <2>3. /\ Older(unseen[ip], UnseenBound) \in 0..UnseenBound
        /\ Older(unseen[ip], UnseenBound) <= unseen[ip] + 1 /\ UnseenBound \in Nat
    BY <2>1, OlderStays, Bounds
  <2> QED BY <2>1, <2>2, <2>3
<1>4. ASSUME NEW s \in Subnets
      PROVE  /\ Interval[s] \in Nat /\ dueIn[s] \in Nat /\ dueIn'[s] \in Nat
             /\ dueIn'[s] > 0 => dueIn[s] > 0 /\ dueIn'[s] = dueIn[s] - 1
  BY ProfilesAssumption DEF TypeOK, ClockStep, AtLeast0
<1>5. ASSUME NEW s \in Subnets, dueIn'[s] > 0, NEW ip \in Kept(s)
      PROVE  unseen'[ip] <= Interval[s] - dueIn'[s]
  <2>1. ip \in Inventory
    BY DEF Kept
  <2>2. unseen[ip] <= Interval[s] - dueIn[s]
    BY <1>4, <1>5 DEF Sighted
  <2> QED BY <1>3, <1>4, <1>5, <2>1, <2>2
<1>6. ASSUME pc = "scan", ok, NEW s \in Subnets \ due, NEW ip \in Kept(s)
      PROVE  unseen'[ip] <= age' + Interval[s] - 1
  <2>1. ip \in Inventory
    BY DEF Kept
  <2>2. unseen[ip] <= age + Interval[s] - 1 /\ age \in Nat /\ age' = age + 1
    BY <1>6, TimesAssumption DEF Sighted, TypeOK, ClockStep, InCycle
  <2> QED BY <1>3, <1>4, <2>1, <2>2
<1> QED BY <1>1, <1>2, <1>5, <1>6 DEF Sighted, PrunedWasMissed

(* What a cycle does not scan was scanned less than an interval ago.       *)
LEMMA StartSighted ==
    ASSUME TypeOK, Sighted, NEW forceAll \in BOOLEAN, StartCycle(forceAll) PROVE Sighted'
<1>1. /\ UNCHANGED <<ctxDone, dueIn, unseen, missed>> /\ age' = 0 /\ ok' = TRUE /\ pruned' = {}
      /\ \A s \in Subnets \ due' : dueIn[s] # 0
  BY DEF StartCycle, IsDue
<1>2. \A s : Kept(s)' = Kept(s)
  BY <1>1 DEF Kept, Inventory
<1>3. ASSUME NEW s \in Subnets \ due', NEW ip \in Kept(s)
      PROVE  unseen[ip] <= 0 + Interval[s] - 1
  <2>1. dueIn[s] \in Nat /\ dueIn[s] > 0 /\ Interval[s] \in Nat
    BY <1>1, ProfilesAssumption DEF TypeOK
  <2>2. unseen[ip] <= Interval[s] - dueIn[s] /\ unseen[ip] \in Nat
    BY <2>1, UnseenRange DEF Sighted, Kept
  <2> QED BY <2>1, <2>2
<1> QED BY <1>1, <1>2, <1>3 DEF Sighted, PrunedWasMissed

(* What a scan finds it has just seen, what it does not find is missed.    *)
LEMMA ScanSighted == ASSUME TypeOK, Sighted, NEW s \in Subnets, ScanSubnet(s) PROVE Sighted'
<1>1. /\ UNCHANGED <<ctxDone, age, pruned>> /\ pc = "scan" /\ pc' = "scan" /\ pruned = {}
      /\ due' = due \ {s}
  BY DEF ScanSubnet, Sighted
<1>2. CASE /\ CallFail("scan") /\ ok' = FALSE
           /\ UNCHANGED <<unseen, missed, cycleHosts, scanAges, dueIn>>
  <2>1. \A t : Kept(t)' = Kept(t)
    BY <1>2 DEF Kept, Inventory
  <2>2. "scan" \in Failures \/ ctxDone
    BY <1>2 DEF CallFail
  <2> QED BY <1>1, <1>2, <2>1, <2>2 DEF Sighted, PrunedWasMissed
<1>3. CASE /\ CallOK
           /\ \E found \in SUBSET Answers[s] :
                 /\ unseen' = [ip \in IPs |-> IF ip \in found THEN 0 ELSE unseen[ip]]
                 /\ missed' = (missed \cup Answers[s]) \ found
                 /\ cycleHosts' = cycleHosts + Cardinality(found)
           /\ scanAges' = scanAges \cup {0}
           /\ dueIn' = [dueIn EXCEPT ![s] = NextDue(s)]
           /\ ok' = ok
  <2>1. PICK found \in SUBSET Answers[s] :
                 /\ unseen' = [ip \in IPs |-> IF ip \in found THEN 0 ELSE unseen[ip]]
                 /\ missed' = (missed \cup Answers[s]) \ found
    BY <1>3
  <2>2. ASSUME NEW t \in Subnets, NEW ip \in Kept(t)'
        PROVE  \/ unseen'[ip] = 0
               \/ t # s /\ unseen'[ip] = unseen[ip] /\ ip \in Kept(t)
    BY <2>1, FiniteHosts DEF Kept, Inventory
  <2>3. NextDue(s) \in Nat /\ NextDue(s) <= Interval[s]
    BY ProfilesAssumption, TimesAssumption DEF NextDue, AtLeast0, TypeOK
  <2>4. ASSUME NEW t \in Subnets
        PROVE  /\ dueIn'[t] \in Nat /\ dueIn'[t] <= Interval[t] /\ (t # s => dueIn'[t] = dueIn[t])
               /\ Interval[t] \in Nat \ {0} /\ age \in Nat
    <3>1. dueIn'[t] = IF t = s THEN NextDue(s) ELSE dueIn[t]
      BY <1>3 DEF TypeOK
    <3>2. Interval[t] \in Nat \ {0} /\ age \in Nat /\ dueIn[t] \in Nat /\ dueIn[t] <= Interval[t]
      BY ProfilesAssumption, TimesAssumption DEF TypeOK
    <3> QED BY <2>3, <3>1, <3>2
  <2>5. ASSUME NEW t \in Subnets, dueIn'[t] > 0, NEW ip \in Kept(t)'
        PROVE  unseen'[ip] <= Interval[t] - dueIn'[t]
    BY <2>2, <2>4, <2>5 DEF Sighted
  <2>6. ASSUME ok', NEW t \in Subnets \ due', NEW ip \in Kept(t)'
        PROVE  unseen'[ip] <= age' + Interval[t] - 1
    BY <1>1, <1>3, <2>2, <2>4, <2>6 DEF Sighted
  <2> QED BY <1>1, <1>3, <2>5, <2>6 DEF Sighted, PrunedWasMissed
<1> QED BY <1>2, <1>3 DEF ScanSubnet

(* A cycle without failures has scanned, or need not yet scan, the subnets *)
(* of a host that is stale, and one of them has missed it.                 *)
LEMMA StaleAreMissed ==
    ASSUME TTLCovers, TypeOK, Sighted, pc = "scan", due = {}, ok
    PROVE  Stale \subseteq missed
<1> SUFFICES ASSUME NEW ip \in Stale, ip \notin missed PROVE FALSE
  OBVIOUS
<1>1. HostTTL # 0 /\ ip \in Inventory /\ unseen[ip] > age + HostTTL
  BY DEF Stale
<1>2. PICK s \in Subnets : ip \in Answers[s]
  BY <1>1 DEF Inventory, IPs
<1>3. unseen[ip] <= age + Interval[s] - 1
  BY <1>1, <1>2 DEF Sighted, Kept
<1>4. Interval[s] <= HostTTL + 1
  BY <1>1, <1>2 DEF TTLCovers
<1>5. unseen[ip] \in Nat /\ age \in Nat /\ Interval[s] \in Nat /\ HostTTL \in Nat
  BY <1>1, <1>2, UnseenRange, ProfilesAssumption, TimesAssumption DEF TypeOK
<1> QED BY <1>1, <1>3, <1>4, <1>5

LEMMA PruneSighted == ASSUME TTLCovers, TypeOK, Sighted, Prune PROVE Sighted'
<1>1. /\ UNCHANGED <<ctxDone, dueIn, ok, missed>> /\ pc = "scan" /\ due = {} /\ pc' = "diff"
  BY DEF Prune, cycle
<1>2. PICK deleted \in SUBSET Stale :
          /\ deleted = {} \/ CallOK
          /\ unseen' = [ip \in IPs |-> IF ip \in deleted THEN Gone ELSE unseen[ip]]
          /\ pruned' = deleted
  BY DEF Prune
<1>3. ASSUME NEW s \in Subnets, NEW ip \in Kept(s)'
      PROVE  ip \in Kept(s) /\ unseen'[ip] = unseen[ip]
  BY <1>1, <1>2 DEF Kept, Inventory, Gone
<1>4. ("scan" \in Failures /\ ~ok) \/ PrunedWasMissed'
  <2>1. CASE ok
    BY <1>1, <1>2, <2>1, StaleAreMissed DEF PrunedWasMissed
  <2>2. CASE ~ok /\ "scan" \notin Failures
    BY <1>2, <2>2 DEF Sighted, CallOK, PrunedWasMissed
  <2> QED BY <2>1, <2>2
<1> QED BY <1>1, <1>3, <1>4 DEF Sighted

LEMMA SightedStep == ASSUME TTLCovers, TypeOK, Sighted, [Next]_vars PROVE Sighted'
<1>1. CASE UNCHANGED <<pc, dueIn, due, age, ok, unseen, missed, pruned>> /\ (ctxDone => ctxDone')
  BY <1>1 DEF Sighted, Kept, Inventory, PrunedWasMissed
<1>2. CASE UNCHANGED <<ctxDone, dueIn, unseen, ok, missed, pruned>> /\ pc' # "scan"
  BY <1>2 DEF Sighted, Kept, Inventory, PrunedWasMissed
<1>3. CASE ClockStep
  BY <1>3, ClockSighted
<1>4. CASE FirstCycle \/ TakeTick \/ TakeTrigger
  BY <1>4, StartSighted DEF FirstCycle, TakeTick, TakeTrigger
<1>5. ASSUME NEW s \in Subnets, ScanSubnet(s) PROVE Sighted'
  BY <1>5, ScanSighted
<1>6. CASE Prune
  BY <1>6, PruneSighted
<1>7. CASE Diff \/ Publish \/ TakeStop
  BY <1>2, <1>7 DEF Diff, Publish, TakeStop, cycle, history, cycleHistory
<1>8. CASE Trigger \/ Cancel \/ UNCHANGED vars
  BY <1>1, <1>8 DEF Trigger, Cancel, vars, cycle, history, cycleHistory
<1> QED BY <1>3, <1>4, <1>5, <1>6, <1>7, <1>8 DEF Next, Run

(* If the TTL is no shorter than the scan intervals, a cycle none of whose *)
(* scans failed deletes a host only after a scan has missed it, whatever   *)
(* happened in the cycles before.                                          *)
THEOREM HealthyCyclePrunesMissed == ASSUME TTLCovers PROVE Spec => [](ok => PrunedWasMissed)
<1>1. Init => TypeOK /\ Sighted
  BY InitTyping DEF Init, Sighted, PrunedWasMissed
<1>2. TypeOK /\ Sighted /\ [Next]_vars => (TypeOK /\ Sighted)'
  BY Typing, SightedStep
<1>3. Sighted => (ok => PrunedWasMissed)
  BY DEF Sighted
<1> QED BY <1>1, <1>2, <1>3, PTL DEF Spec

(* If moreover no sweep fails by itself, every cycle does, also one that   *)
(* is cancelled in the middle; the other calls may fail.                   *)
THEOREM PrunedAreMissed ==
    ASSUME TTLCovers, "scan" \notin Failures PROVE Spec => []PrunedWasMissed
<1>1. Init => TypeOK /\ Sighted
  BY InitTyping DEF Init, Sighted, PrunedWasMissed
<1>2. TypeOK /\ Sighted /\ [Next]_vars => (TypeOK /\ Sighted)'
  BY Typing, SightedStep
<1>3. Sighted => PrunedWasMissed
  BY DEF Sighted
<1> QED BY <1>1, <1>2, <1>3, PTL DEF Spec
=============================================================================
