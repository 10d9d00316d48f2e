--------------------------- MODULE ScannerProofs ---------------------------
(***************************************************************************)
(* Theorems about Scanner, for any number of addresses, any number of      *)
(* workers, any port lists and any classifier.                             *)
(***************************************************************************)
EXTENDS Scanner, FiniteSetTheorems, TLAPS

(* Goroutines are started in order: an address the loop has not reached    *)
(* has none, an address it has passed has had one.                         *)
SpawnOrder ==
    /\ \A a \in Addr : host[a] = "none" <=> a >= next
    /\ main = "send" => next \in Addr

(* The stages of a host goroutine that come after deepScan or udpScan.     *)
After(k) == {"classify", "release", "wgdone", "done"}
              \cup (IF k = "tcp" THEN {"udp"} ELSE {})

(* A port goroutine exists only below the loop index of its own scan, or   *)
(* when that scan is over.                                                 *)
TaskOrder ==
    \A t \in Tasks : task[t] # "none" =>
        \/ host[t[1]] = t[2] /\ t[3] < idx[t[1]]
        \/ host[t[1]] \in After(t[2])

(* Without a cancellation a port goroutine never outlives its own scan.    *)
TasksJoined ==
    ~ctxDone => \A t \in Tasks :
        task[t] \notin {"none", "done"} => host[t[1]] = t[2]

(* What Scan knows before its loop, and when it has left it.               *)
HostsJoined ==
    /\ main = "create" => next = 1 /\ record.state = Absent
    /\ main \in {"finish", "returned"} => HostsPending = {}
    /\ main \in {"wait", "finish"} /\ ~ctxDone => next > NumAddrs
    /\ main = "returned" /\ ~ctxDone /\ record.state # Absent => next > NumAddrs

(* A host row is there from the first write of its goroutine on, and only  *)
(* then; port rows and port goroutines belong to hosts with a row.         *)
RowOrder ==
    /\ \A a \in Addr : /\ host[a] \in {"none", "probe", "upsert"} => row[a] = Absent
                       /\ host[a] \in {"live", "tcp", "udp", "classify"}
                             => row[a] # Absent
    /\ \A t \in Tasks : task[t] # "none" => row[t[1]] # Absent
    /\ \A r \in PortRows : saved[r] # Absent => row[r[1]] # Absent

(* Who has the connection of the writer pool is in a store call.           *)
WriterBusy ==
    /\ writer = ScanGo => main \in {"create", "finish"}
    /\ \A a \in Addr : writer = HostGo(a) => host[a] \in {"upsert", "live", "classify"}
    /\ \A t \in Tasks : writer = t => task[t] \in {"save", "saveclosed"}

(* The liveness winner is the one port known open before deepScan.         *)
LivePort == \A a \in Addr : host[a] \in {"upsert", "live"} =>
                \E p \in ProbePorts : open[a].tcp = {p}

(* count counts the goroutines that got past their first write and ended;  *)
(* one that a cancellation caught in its first write may have left a row   *)
(* uncounted, and then the record is not finished.                         *)
Counted == {a \in Addr : row[a] # Absent /\ host[a] \in {"release", "wgdone", "done"}}
Finishing == main = "finish" /\ writer = ScanGo
CountRight ==
    /\ ~ctxDone \/ Finishing => count = Cardinality(Counted)
    /\ record.state = "finished" => /\ main = "returned" /\ record.hosts = count
                                    /\ count = Cardinality(Counted)

HoldersFinite == IsFiniteSet(HostHolders) /\ IsFiniteSet(TaskHolders)

IInv == /\ TypeOK /\ HoldersFinite /\ SlotsAccounted
        /\ SpawnOrder /\ TaskOrder /\ TasksJoined /\ HostsJoined
        /\ RowOrder /\ WriterBusy /\ LivePort /\ CountRight

-----------------------------------------------------------------------------
(* The components of a task, and the tasks a port list makes.              *)
LEMMA TaskShape ==
    /\ \A t \in Tasks : /\ t = <<t[1], t[2], t[3]>>
                        /\ t[1] \in Addr /\ t[2] \in Kinds
                        /\ t[3] \in DOMAIN PortList(t[2])
    /\ \A a \in Addr, k \in Kinds : \A i \in DOMAIN PortList(k) :
          <<a, k, i>> \in Tasks
BY DEF Tasks, Kinds, PortList

(* A task's port is a port of the model.                                   *)
LEMMA PortInPorts == \A k \in Kinds : \A i \in DOMAIN PortList(k) :
                        /\ PortList(k)[i] \in Ports
                        /\ i \in Nat \ {0}
BY PortsAssumption DEF Kinds, PortList, Ports

(* No two goroutines have the same name.                                   *)
LEMMA GoNames ==
    /\ Nobody # ScanGo /\ Nobody \notin Goroutines /\ ScanGo[2] \notin Kinds
    /\ \A a \in Addr : HostGo(a) # ScanGo /\ HostGo(a)[2] \notin Kinds
                     /\ \A b \in Addr : HostGo(a) = HostGo(b) => a = b
    /\ \A t \in Tasks : t # Nobody /\ t # ScanGo /\ \A a \in Addr : t # HostGo(a)
BY TaskShape DEF Nobody, ScanGo, HostGo, Goroutines, Kinds

(* The initial states satisfy the invariant.                               *)
LEMMA InitIInv == Init => IInv
<1> SUFFICES ASSUME Init PROVE IInv
  OBVIOUS
<1>1. TypeOK
  BY CountsAssumption, ClassifyAssumption
     DEF Init, TypeOK, MainPC, HostPC, TaskPC, Addr
<1>2. HostHolders = {} /\ TaskHolders = {}
  BY DEF Init, HostHolders, TaskHolders, HostHolds, TaskHolds
<1>3. HoldersFinite /\ SlotsAccounted
  BY <1>2, FS_EmptySet DEF Init, HoldersFinite, SlotsAccounted
<1>4. SpawnOrder /\ TaskOrder /\ TasksJoined /\ HostsJoined
  BY CountsAssumption
     DEF Init, SpawnOrder, TaskOrder, TasksJoined, HostsJoined, Addr
<1>5. RowOrder /\ LivePort /\ WriterBusy
  BY GoNames DEF Init, RowOrder, LivePort, PortRows, WriterBusy, Goroutines
<1>6. Counted = {} /\ CountRight
  BY FS_EmptySet DEF Init, Counted, CountRight, Finishing, Absent
<1> QED BY <1>1, <1>3, <1>4, <1>5, <1>6 DEF IInv

-----------------------------------------------------------------------------
(* Every step keeps the semaphore equal to the number of its holders.      *)
(* Only four actions touch it; each moves one goroutine in or out.         *)
LEMMA Accounting == IInv /\ Next => /\ HoldersFinite' /\ SlotsAccounted'
                                    /\ sem' \in 0..Workers
<1> SUFFICES ASSUME IInv, Next
             PROVE  HoldersFinite' /\ SlotsAccounted' /\ sem' \in 0..Workers
  OBVIOUS
<1> DEFINE Hs == Cardinality(HostHolders)
           Ts == Cardinality(TaskHolders)
<1>a. /\ TypeOK /\ HoldersFinite /\ SlotsAccounted
      /\ SpawnOrder /\ TaskOrder
  BY DEF IInv
<1>n. Hs \in Nat /\ Ts \in Nat /\ sem = Hs + Ts /\ sem \in 0..Workers
  BY <1>a, FS_CardinalityType DEF HoldersFinite, SlotsAccounted, TypeOK
<1>w. Workers \in Nat \ {0}
  BY CountsAssumption
(* Same holders, same number of tokens. *)
<1>1. ASSUME HostHolders' = HostHolders, TaskHolders' = TaskHolders, sem' = sem
      PROVE  HoldersFinite' /\ SlotsAccounted' /\ sem' \in 0..Workers
  BY <1>1, <1>a, <1>n DEF HoldersFinite, SlotsAccounted
(* A host goroutine starts. *)
<1>2. ASSUME NEW a \in Addr, a \notin HostHolders, HostHolders' = HostHolders \cup {a},
             TaskHolders' = TaskHolders, SlotFree, sem' = sem + 1
      PROVE  HoldersFinite' /\ SlotsAccounted' /\ sem' \in 0..Workers
  <2>1. IsFiniteSet(HostHolders') /\ Cardinality(HostHolders') = Hs + 1
    BY <1>2, <1>a, FS_AddElement DEF HoldersFinite
  <2> QED BY <2>1, <1>2, <1>a, <1>n, <1>w DEF HoldersFinite, SlotsAccounted, SlotFree
(* A port goroutine starts. *)
<1>3. ASSUME NEW t \in Tasks, t \notin TaskHolders, TaskHolders' = TaskHolders \cup {t},
             HostHolders' = HostHolders, SlotFree, sem' = sem + 1
      PROVE  HoldersFinite' /\ SlotsAccounted' /\ sem' \in 0..Workers
  <2>1. IsFiniteSet(TaskHolders') /\ Cardinality(TaskHolders') = Ts + 1
    BY <1>3, <1>a, FS_AddElement DEF HoldersFinite
  <2> QED BY <2>1, <1>3, <1>a, <1>n, <1>w DEF HoldersFinite, SlotsAccounted, SlotFree
(* A host goroutine gives its slot back. *)
<1>4. ASSUME NEW a \in Addr, a \in HostHolders, HostHolders' = HostHolders \ {a},
             TaskHolders' = TaskHolders, sem' = sem - 1
      PROVE  HoldersFinite' /\ SlotsAccounted' /\ sem' \in 0..Workers
  <2>1. IsFiniteSet(HostHolders') /\ Cardinality(HostHolders') = Hs - 1
    BY <1>4, <1>a, FS_RemoveElement DEF HoldersFinite
  <2>2. Cardinality(HostHolders') \in Nat
    BY <2>1, FS_CardinalityType
  <2> QED BY <2>1, <2>2, <1>4, <1>a, <1>n, <1>w DEF HoldersFinite, SlotsAccounted
(* A port goroutine gives its slot back. *)
<1>5. ASSUME NEW t \in Tasks, t \in TaskHolders, TaskHolders' = TaskHolders \ {t},
             HostHolders' = HostHolders, sem' = sem - 1
      PROVE  HoldersFinite' /\ SlotsAccounted' /\ sem' \in 0..Workers
  <2>1. IsFiniteSet(TaskHolders') /\ Cardinality(TaskHolders') = Ts - 1
    BY <1>5, <1>a, FS_RemoveElement DEF HoldersFinite
  <2>2. Cardinality(TaskHolders') \in Nat
    BY <2>1, FS_CardinalityType
  <2> QED BY <2>1, <2>2, <1>5, <1>a, <1>n, <1>w DEF HoldersFinite, SlotsAccounted
<1> USE DEF HostHolders, TaskHolders, HostHolds, TaskHolds
<1> HIDE DEF Hs, Ts
<1>6. CASE Cancel \/ ScanCalls \/ CreateRecord \/ LoopHead \/ WaitHosts \/ FinishRecord
  BY <1>1, <1>6 DEF Cancel, ScanCalls, BeginCall, CreateRecord, LoopHead, WaitHosts, FinishRecord,
                    goroutine, tasks
<1>7. CASE Spawn
  <2>1. next \in Addr /\ host[next] = "none"
    BY <1>7, <1>a DEF Spawn, SpawnOrder, TypeOK, Addr
  <2>2. next \notin HostHolders /\ HostHolders' = HostHolders \cup {next}
    BY <1>7, <2>1, <1>a DEF Spawn, TypeOK
  <2> QED BY <1>2, <1>7, <2>1, <2>2 DEF Spawn, tasks
<1>8. ASSUME NEW a \in Addr, Host(a)
      PROVE  HoldersFinite' /\ SlotsAccounted' /\ sem' \in 0..Workers
  <2>0. CASE HostCalls(a)
    BY <2>0, <1>1 DEF HostCalls, BeginCall, goroutine, tasks
  <2>1. CASE Probe(a) \/ UpsertHost(a) \/ UpsertLivePort(a) \/ ClassifyHost(a) \/ HostDone(a)
    BY <2>1, <1>1, <1>a DEF Probe, UpsertHost, UpsertLivePort, ClassifyHost, HostDone,
                            tasks, TypeOK
  <2>2. CASE ReleaseHost(a)
    <3>1. a \in HostHolders /\ HostHolders' = HostHolders \ {a}
      BY <2>2, <1>a DEF ReleaseHost, TypeOK
    <3> QED BY <1>4, <2>2, <3>1 DEF ReleaseHost, tasks
  <2>3. ASSUME NEW k \in Kinds, ScanPorts(a, k)
        PROVE  HoldersFinite' /\ SlotsAccounted' /\ sem' \in 0..Workers
    <3>1. CASE SkipKnown(a, k)
      BY <3>1, <1>1 DEF SkipKnown, tasks
    <3>2. CASE StartTask(a, k)
      <4>1. <<a, k, idx[a]>> \in Tasks
        BY <3>2, TaskShape DEF StartTask, LoopsOver
      <4>2. task[<<a, k, idx[a]>>] = "none"
        BY <3>2, <4>1, <1>a DEF StartTask, LoopsOver, TaskOrder, TypeOK, After, Kinds
      <4>3. /\ <<a, k, idx[a]>> \notin TaskHolders
            /\ TaskHolders' = TaskHolders \cup {<<a, k, idx[a]>>}
        BY <3>2, <4>1, <4>2, <1>a DEF StartTask, TypeOK
      <4> QED BY <1>3, <3>2, <4>1, <4>3 DEF StartTask
    <3>3. CASE AbandonTasks(a, k) \/ JoinTasks(a, k)
      <4>1. HostHolders' = HostHolders
        BY <3>3, <1>a DEF AbandonTasks, JoinTasks, ReturnPorts, LoopsOver, TypeOK, Kinds
      <4> QED BY <3>3, <4>1, <1>1 DEF AbandonTasks, JoinTasks, ReturnPorts, tasks
    <3> QED BY <2>3, <3>1, <3>2, <3>3 DEF ScanPorts
  <2> QED BY <1>8, <2>0, <2>1, <2>2, <2>3 DEF Host
<1>9. ASSUME NEW t \in Tasks, Task(t)
      PROVE  HoldersFinite' /\ SlotsAccounted' /\ sem' \in 0..Workers
  <2>0. CASE PortCalls(t)
    BY <2>0, <1>1 DEF PortCalls, BeginCall, goroutine, tasks
  <2>1. CASE Dial(t) \/ SavePort(t) \/ TaskDone(t)
    <3>1. TaskHolders' = TaskHolders
      BY <2>1, <1>a DEF Dial, SavePort, TaskDone, TypeOK
    <3> QED BY <2>1, <3>1, <1>1 DEF Dial, SavePort, TaskDone, goroutine
  <2>2. CASE ReleaseTask(t)
    <3>1. t \in TaskHolders /\ TaskHolders' = TaskHolders \ {t}
      BY <2>2, <1>a DEF ReleaseTask, TypeOK
    <3> QED BY <1>5, <2>2, <3>1 DEF ReleaseTask, goroutine
  <2> QED BY <1>9, <2>0, <2>1, <2>2 DEF Task
<1> QED BY <1>6, <1>7, <1>8, <1>9 DEF Next, Main

-----------------------------------------------------------------------------
(* The connection goes to somebody at a store call, and back when it ends. *)
LEMMA WriterStep == TypeOK /\ SpawnOrder /\ TaskOrder /\ WriterBusy /\ Next
                      => WriterBusy' /\ writer' \in {Nobody} \cup Goroutines
<1> SUFFICES ASSUME TypeOK, SpawnOrder, TaskOrder, WriterBusy, Next
             PROVE  WriterBusy' /\ writer' \in {Nobody} \cup Goroutines
  OBVIOUS
<1> USE GoNames
<1>t. writer \in {Nobody} \cup Goroutines /\ host \in [Addr -> HostPC] /\ task \in [Tasks -> TaskPC]
  BY DEF TypeOK
<1>1. CASE Cancel \/ LoopHead \/ WaitHosts
  BY <1>1, <1>t DEF Cancel, LoopHead, WaitHosts, WriterBusy, scan, goroutine, tasks, db
<1>2. CASE ScanCalls
  BY <1>2, <1>t DEF ScanCalls, BeginCall, WriterBusy, scan, goroutine, tasks, Goroutines
<1>3. CASE CreateRecord \/ FinishRecord
  <2>1. host' = host /\ task' = task /\ EndCall(ScanGo)
    BY <1>3 DEF CreateRecord, FinishRecord, goroutine, tasks
  <2> QED BY <2>1, <1>t DEF EndCall, WriterBusy, Goroutines
<1>4. CASE Spawn
  <2>1. next \in Addr /\ host[next] = "none" /\ main = "send"
    BY <1>4 DEF Spawn, SpawnOrder, TypeOK, Addr
  <2>2. host' = [host EXCEPT ![next] = "probe"] /\ task' = task /\ writer' = writer
    BY <1>4 DEF Spawn, tasks, db
  <2> QED BY <2>1, <2>2, <1>t DEF WriterBusy
<1>5. ASSUME NEW a \in Addr, Host(a)
      PROVE  WriterBusy' /\ writer' \in {Nobody} \cup Goroutines
  <2>1. main' = main /\ \A b \in Addr \ {a} : host'[b] = host[b]
    BY <1>5, <1>t DEF Host, HostCalls, BeginCall, Probe, UpsertHost, UpsertLivePort, ScanPorts,
         SkipKnown, StartTask, AbandonTasks, JoinTasks, ReturnPorts, ClassifyHost, ReleaseHost,
         HostDone, scan, goroutine
  <2>2. CASE HostCalls(a)
    BY <2>2, <1>t DEF HostCalls, BeginCall, WriterBusy, scan, goroutine, tasks, Goroutines
  <2>3. CASE UpsertHost(a) \/ UpsertLivePort(a) \/ ClassifyHost(a)
    <3>1. task' = task /\ EndCall(HostGo(a))
      BY <2>3 DEF UpsertHost, UpsertLivePort, ClassifyHost, tasks
    <3> QED BY <3>1, <2>1, <1>t DEF EndCall, WriterBusy, Goroutines
  <2>4. CASE Probe(a) \/ ReleaseHost(a) \/ HostDone(a) \/ \E k \in Kinds : ScanPorts(a, k)
    <3>1. writer' = writer /\ host[a] \notin {"upsert", "live", "classify"}
      BY <2>4 DEF Probe, ReleaseHost, HostDone, ScanPorts, SkipKnown, StartTask, AbandonTasks,
                  JoinTasks, ReturnPorts, LoopsOver, Kinds, db
    <3>2. \A t \in Tasks : task[t] \in {"save", "saveclosed"} => task'[t] = task[t]
      <4>1. CASE \E k \in Kinds : StartTask(a, k)
        <5>1. PICK k \in Kinds : StartTask(a, k)
          BY <4>1
        <5>2. <<a, k, idx[a]>> \in Tasks
          BY <5>1, TaskShape DEF StartTask, LoopsOver
        <5>3. task[<<a, k, idx[a]>>] = "none"
          BY <5>1, <5>2, <1>t DEF StartTask, LoopsOver, TaskOrder, TypeOK, After, Kinds
        <5> QED BY <5>1, <5>2, <5>3, <1>t DEF StartTask
      <4> QED BY <2>4, <4>1 DEF Probe, ReleaseHost, HostDone, ScanPorts, SkipKnown, AbandonTasks,
                  JoinTasks, ReturnPorts, tasks
    <3> QED BY <3>1, <3>2, <2>1, <1>t DEF WriterBusy
  <2> QED BY <1>5, <2>2, <2>3, <2>4 DEF Host
<1>6. ASSUME NEW t \in Tasks, Task(t)
      PROVE  WriterBusy' /\ writer' \in {Nobody} \cup Goroutines
  <2>1. main' = main /\ host' = host /\ \A u \in Tasks \ {t} : task'[u] = task[u]
    BY <1>6, <1>t DEF Task, PortCalls, BeginCall, Dial, SavePort, ReleaseTask, TaskDone, scan,
                      goroutine, tasks
  <2>2. CASE PortCalls(t)
    BY <2>2, <2>1, <1>t DEF PortCalls, BeginCall, WriterBusy, tasks, Goroutines
  <2>3. CASE SavePort(t)
    BY <2>3, <2>1, <1>t DEF SavePort, EndCall, WriterBusy, Goroutines
  <2>4. CASE Dial(t) \/ ReleaseTask(t) \/ TaskDone(t)
    BY <2>4, <2>1, <1>t DEF Dial, ReleaseTask, TaskDone, WriterBusy, db
  <2> QED BY <1>6, <2>2, <2>3, <2>4 DEF Task
<1> QED BY <1>1, <1>2, <1>3, <1>4, <1>5, <1>6 DEF Next, Main

-----------------------------------------------------------------------------
(* Every step keeps the types, given that the semaphore stays in range.    *)
LEMMA Typing == TypeOK /\ SpawnOrder /\ Next /\ sem' \in 0..Workers
                  /\ writer' \in {Nobody} \cup Goroutines => TypeOK'
<1> SUFFICES ASSUME TypeOK, SpawnOrder, Next, sem' \in 0..Workers,
                    writer' \in {Nobody} \cup Goroutines
             PROVE  TypeOK'
  OBVIOUS
<1> USE DEF MainPC, HostPC, TaskPC, Kinds
<1>1. CASE Cancel
  BY <1>1 DEF Cancel, TypeOK, scan, goroutine, tasks, db
<1>2. CASE ScanCalls \/ CreateRecord \/ LoopHead \/ WaitHosts \/ FinishRecord
  BY <1>2 DEF ScanCalls, BeginCall, CreateRecord, LoopHead, WaitHosts, FinishRecord, TypeOK,
              scan, goroutine, tasks, db
<1>3. CASE Spawn
  BY <1>3, CountsAssumption DEF Spawn, SpawnOrder, TypeOK, Addr, scan, tasks, db
<1>4. ASSUME NEW a \in Addr, Host(a) PROVE TypeOK'
  <2>0. CASE HostCalls(a)
    BY <2>0 DEF HostCalls, BeginCall, TypeOK, scan, goroutine, tasks
  <2>1. CASE Probe(a)
    <3>1. \A p \in ProbePorts : [tcp |-> {p}, udp |-> {}] \in [tcp : SUBSET Ports, udp : SUBSET Ports]
      BY DEF Ports
    <3>2. open' \in [Addr -> [tcp : SUBSET Ports, udp : SUBSET Ports]]
      BY <2>1, <3>1 DEF Probe, TypeOK
    <3>3. host' \in [Addr -> HostPC]
      BY <2>1 DEF Probe, TypeOK
    <3> QED BY <2>1, <3>2, <3>3 DEF Probe, TypeOK, scan, tasks, db
  <2>2. CASE UpsertHost(a)
    BY <2>2 DEF UpsertHost, TypeOK, scan, tasks
  <2>3. CASE UpsertLivePort(a)
    BY <2>3 DEF UpsertLivePort, TypeOK, scan, tasks
  <2>4. CASE ClassifyHost(a)
    <3>1. Classify(open[a].tcp, open[a].udp) \in DeviceTypes \cup {Blank}
      BY <1>4, ClassifyAssumption DEF TypeOK
    <3>2. row' \in [Addr -> DeviceTypes \cup {Blank, Absent}]
      BY <2>4, <3>1 DEF ClassifyHost, TypeFound, TypeOK
    <3>3. host' \in [Addr -> HostPC] /\ count' \in Nat
      BY <2>4 DEF ClassifyHost, TypeOK
    <3> QED BY <2>4, <3>2, <3>3 DEF ClassifyHost, TypeOK, tasks
  <2>5. CASE ReleaseHost(a) \/ HostDone(a)
    <3>1. host' \in [Addr -> HostPC]
      BY <2>5 DEF ReleaseHost, HostDone, TypeOK
    <3> QED BY <2>5, <3>1 DEF ReleaseHost, HostDone, TypeOK, scan, tasks, db
  <2>6. ASSUME NEW k \in Kinds, ScanPorts(a, k) PROVE TypeOK'
    <3>1. CASE SkipKnown(a, k)
      BY <3>1 DEF SkipKnown, TypeOK, scan, tasks, db
    <3>2. CASE StartTask(a, k)
      <4>1. task' \in [Tasks -> TaskPC]
        BY <3>2 DEF StartTask, TypeOK
      <4>2. idx' \in [Addr -> Nat \ {0}]
        BY <3>2 DEF StartTask, TypeOK
      <4> QED BY <3>2, <4>1, <4>2 DEF StartTask, TypeOK, scan, db
    <3>3. ASSUME NEW ports \in SUBSET Ports, ReturnPorts(a, k, ports) PROVE TypeOK'
      <4>1. open' \in [Addr -> [tcp : SUBSET Ports, udp : SUBSET Ports]]
        BY <3>3 DEF ReturnPorts, TypeOK
      <4>2. host' \in [Addr -> HostPC] /\ idx' \in [Addr -> Nat \ {0}]
        BY <3>3 DEF ReturnPorts, TypeOK
      <4> QED BY <3>3, <4>1, <4>2 DEF ReturnPorts, TypeOK, scan, tasks, db
    <3>4. CASE AbandonTasks(a, k)
      BY <3>4, <3>3, PortInPorts DEF AbandonTasks
    <3>5. CASE JoinTasks(a, k)
      BY <3>5, <3>3 DEF JoinTasks, TypeOK
    <3> QED BY <2>6, <3>1, <3>2, <3>4, <3>5 DEF ScanPorts
  <2> QED BY <1>4, <2>0, <2>1, <2>2, <2>3, <2>4, <2>5, <2>6 DEF Host
<1>5. ASSUME NEW t \in Tasks, Task(t) PROVE TypeOK'
  <2>0. CASE PortCalls(t)
    BY <2>0 DEF PortCalls, BeginCall, TypeOK, scan, goroutine, tasks
  <2>1. CASE Dial(t) \/ ReleaseTask(t) \/ TaskDone(t)
    <3>1. task' \in [Tasks -> TaskPC]
      BY <2>1 DEF Dial, ReleaseTask, TaskDone, TypeOK
    <3>2. UNCHANGED <<ctxDone, scan, goroutine, found, db>>
      BY <2>1 DEF Dial, ReleaseTask, TaskDone
    <3> QED BY <3>1, <3>2 DEF TypeOK, scan, goroutine, db
  <2>2. CASE SavePort(t)
    <3>1. t[1] \in Addr /\ t[2] \in Kinds /\ Port(t) \in Ports
      BY TaskShape, PortInPorts DEF Port
    <3>2. PortRow(t) \in PortRows /\ <<t[1], t[2]>> \in Addr \X Kinds
      BY <3>1 DEF PortRows, PortRow
    <3>3. saved' \in [PortRows -> {Absent, "open", "closed"}]
      BY <2>2, <3>2 DEF SavePort, TypeOK
    <3>4. found' \in [Addr \X Kinds -> SUBSET Ports]
      BY <2>2, <3>1, <3>2 DEF SavePort, TypeOK
    <3> QED BY <2>2, <3>3, <3>4 DEF SavePort, TypeOK, scan, goroutine
  <2> QED BY <1>5, <2>0, <2>1, <2>2 DEF Task
<1> QED BY <1>1, <1>2, <1>3, <1>4, <1>5 DEF Next, Main

-----------------------------------------------------------------------------
(* Goroutines keep being started in the order of the loop.                 *)
LEMMA SpawnOrderStep == TypeOK /\ SpawnOrder /\ Next => SpawnOrder'
<1> SUFFICES ASSUME TypeOK, SpawnOrder, Next PROVE SpawnOrder'
  OBVIOUS
<1> USE DEF HostPC, Kinds
<1>1. CASE Cancel \/ Main
  <2>1. CASE Spawn
    BY <2>1, CountsAssumption DEF Spawn, SpawnOrder, TypeOK, Addr
  <2>2. CASE LoopHead
    BY <2>2, CountsAssumption DEF LoopHead, SpawnOrder, TypeOK, Addr, goroutine
  <2>3. CASE Cancel \/ ScanCalls \/ CreateRecord \/ WaitHosts \/ FinishRecord
    BY <2>3 DEF Cancel, ScanCalls, BeginCall, CreateRecord, WaitHosts, FinishRecord, SpawnOrder,
                scan, goroutine
  <2> QED BY <1>1, <2>1, <2>2, <2>3 DEF Main
<1>2. ASSUME NEW a \in Addr, Host(a) PROVE SpawnOrder'
  <2>1. \E pc \in HostPC \ {"none"} : host' = host \/ host' = [host EXCEPT ![a] = pc]
    BY <1>2 DEF goroutine, Host, HostCalls, BeginCall, Probe, UpsertHost, UpsertLivePort, ScanPorts, SkipKnown, StartTask,
                AbandonTasks, JoinTasks, ReturnPorts, ClassifyHost, ReleaseHost, HostDone
  <2>2. host[a] # "none"
    BY <1>2 DEF Host, HostCalls, BeginCall, Probe, UpsertHost, UpsertLivePort, ScanPorts, SkipKnown, StartTask,
                LoopsOver, AbandonTasks, JoinTasks, ClassifyHost, ReleaseHost, HostDone
  <2>3. main' = main /\ next' = next
    BY <1>2 DEF Host, HostCalls, BeginCall, Probe, UpsertHost, UpsertLivePort, ScanPorts, SkipKnown, StartTask,
                AbandonTasks, JoinTasks, ReturnPorts, ClassifyHost, ReleaseHost, HostDone, scan
  <2> QED BY <2>1, <2>2, <2>3 DEF SpawnOrder, TypeOK
<1>3. ASSUME NEW t \in Tasks, Task(t) PROVE SpawnOrder'
  BY <1>3 DEF Task, PortCalls, BeginCall, Dial, SavePort, ReleaseTask, TaskDone, SpawnOrder, scan, goroutine
<1> QED BY <1>1, <1>2, <1>3 DEF Next

(* Port goroutines stay behind the loop that starts them, and, while the   *)
(* context is live, inside it.                                             *)
LEMMA TaskOrderStep == TypeOK /\ SpawnOrder /\ TaskOrder /\ TasksJoined /\ Next
                          => TaskOrder' /\ TasksJoined'
<1> SUFFICES ASSUME TypeOK, SpawnOrder, TaskOrder, TasksJoined, Next
             PROVE  TaskOrder' /\ TasksJoined'
  OBVIOUS
<1> USE DEF HostPC, TaskPC, Kinds
<1>1. CASE Cancel \/ ScanCalls \/ CreateRecord \/ LoopHead \/ WaitHosts \/ FinishRecord
  BY <1>1 DEF Cancel, ScanCalls, BeginCall, CreateRecord, LoopHead, WaitHosts, FinishRecord,
              TaskOrder, TasksJoined, goroutine, tasks
<1>2. CASE Spawn
  <2>1. \A t \in Tasks : t[1] \in Addr /\ t[2] \in Kinds
    BY TaskShape
  <2>2. host' = [host EXCEPT ![next] = "probe"] /\ task' = task /\ idx' = idx
        /\ ctxDone' = ctxDone
    BY <1>2 DEF Spawn, tasks
  <2>3. next \in Addr /\ host[next] = "none"
    BY <1>2 DEF Spawn, SpawnOrder, TypeOK, Addr
  <2>4. \A t \in Tasks : t[1] = next => task[t] = "none"
    BY <2>1, <2>3 DEF TaskOrder, After
  <2> QED BY <2>1, <2>2, <2>3, <2>4 DEF TaskOrder, TasksJoined, TypeOK, After
<1>3. ASSUME NEW a \in Addr, Host(a) PROVE TaskOrder' /\ TasksJoined'
  <2>0. /\ \A t \in Tasks : t[1] \in Addr /\ t[2] \in Kinds /\ t[3] \in DOMAIN PortList(t[2])
        /\ \A k \in Kinds : DOMAIN PortList(k) \subseteq Nat \ {0}
    BY TaskShape, PortInPorts
  <2>c. CASE HostCalls(a)
    BY <2>c DEF HostCalls, BeginCall, TaskOrder, TasksJoined, goroutine, tasks
  <2>1. CASE Probe(a) \/ UpsertHost(a) \/ UpsertLivePort(a)
    <3>1. /\ host[a] \in {"probe", "upsert", "live"} /\ task' = task /\ idx' = idx
          /\ ctxDone' = ctxDone
          /\ \E pc \in HostPC : host' = [host EXCEPT ![a] = pc]
      BY <2>1 DEF Probe, UpsertHost, UpsertLivePort, tasks
    <3>2. \A t \in Tasks : t[1] = a => task[t] = "none"
      BY <2>0, <3>1 DEF TaskOrder, After
    <3> QED BY <2>0, <3>1, <3>2 DEF TaskOrder, TasksJoined, TypeOK, After
  <2>2. CASE ClassifyHost(a) \/ ReleaseHost(a) \/ HostDone(a)
    <3>1. /\ host[a] \in {"classify", "release", "wgdone"} /\ task' = task /\ idx' = idx
          /\ ctxDone' = ctxDone
          /\ \E pc \in {"release", "wgdone", "done"} : host' = [host EXCEPT ![a] = pc]
      BY <2>2 DEF ClassifyHost, ReleaseHost, HostDone, tasks
    <3> QED BY <2>0, <3>1 DEF TaskOrder, TasksJoined, TypeOK, After
  <2>3. ASSUME NEW k \in Kinds, ScanPorts(a, k) PROVE TaskOrder' /\ TasksJoined'
    <3>1. CASE SkipKnown(a, k)
      BY <2>0, <3>1 DEF SkipKnown, TaskOrder, TasksJoined, TypeOK, tasks
    <3>2. CASE StartTask(a, k)
      <4>1. /\ host' = host /\ host[a] = k /\ ctxDone' = ctxDone
            /\ idx' = [idx EXCEPT ![a] = @ + 1]
            /\ task' = [task EXCEPT ![<<a, k, idx[a]>>] = "dial"]
        BY <3>2 DEF StartTask, LoopsOver
      <4> QED BY <2>0, <4>1 DEF TaskOrder, TasksJoined, TypeOK
    <3>3. CASE AbandonTasks(a, k) \/ JoinTasks(a, k)
      <4>1. /\ host[a] = k /\ task' = task /\ ctxDone' = ctxDone
            /\ host' = [host EXCEPT ![a] = IF k = "tcp" THEN "udp" ELSE "classify"]
            /\ idx' = [idx EXCEPT ![a] = 1]
        BY <3>3 DEF AbandonTasks, JoinTasks, LoopsOver, ReturnPorts, tasks
      <4>2. TaskOrder'
        BY <2>0, <4>1 DEF TaskOrder, TypeOK, After
      <4>3. ctxDone \/ Pending(a, k) = {}
        BY <3>3 DEF AbandonTasks, JoinTasks
      <4>4. TasksJoined'
        BY <2>0, <4>1, <4>3 DEF TasksJoined, TypeOK, Pending
      <4> QED BY <4>2, <4>4
    <3> QED BY <2>3, <3>1, <3>2, <3>3 DEF ScanPorts
  <2> QED BY <1>3, <2>c, <2>1, <2>2, <2>3 DEF Host
<1>4. ASSUME NEW t \in Tasks, Task(t) PROVE TaskOrder' /\ TasksJoined'
  <2>0. CASE PortCalls(t)
    BY <2>0 DEF PortCalls, BeginCall, TaskOrder, TasksJoined, goroutine, tasks
  <2>1. ASSUME ~PortCalls(t)
        PROVE  /\ host' = host /\ idx' = idx /\ ctxDone' = ctxDone
               /\ task[t] \notin {"none", "done"}
               /\ \E pc \in TaskPC : task' = [task EXCEPT ![t] = pc]
    BY <1>4, <2>1 DEF Task, Dial, SavePort, ReleaseTask, TaskDone, goroutine
  <2> QED BY <2>0, <2>1 DEF TaskOrder, TasksJoined, TypeOK
<1> QED BY <1>1, <1>2, <1>3, <1>4 DEF Next, Main

(* Once Scan has waited for its goroutines none is started or running.     *)
LEMMA HostsJoinedStep == TypeOK /\ SpawnOrder /\ HostsJoined /\ Next => HostsJoined'
<1> SUFFICES ASSUME TypeOK, SpawnOrder, HostsJoined, Next PROVE HostsJoined'
  OBVIOUS
<1>1. CASE Cancel \/ ScanCalls \/ LoopHead \/ WaitHosts \/ FinishRecord
  <2>1. HostsPending' = HostsPending
    BY <1>1 DEF Cancel, ScanCalls, BeginCall, LoopHead, WaitHosts, FinishRecord, HostsPending, goroutine
  <2>2. CASE Cancel
    BY <2>1, <2>2 DEF Cancel, HostsJoined, scan, db
  <2>3. CASE LoopHead
    BY <2>1, <2>3, CountsAssumption DEF LoopHead, HostsJoined, db, TypeOK
  <2>6. CASE ScanCalls
    BY <2>1, <2>6 DEF ScanCalls, BeginCall, HostsJoined, scan
  <2>4. CASE WaitHosts
    BY <2>1, <2>4 DEF WaitHosts, HostsJoined, db
  <2>5. CASE FinishRecord
    BY <2>1, <2>5 DEF FinishRecord, HostsJoined, TypeOK
  <2> QED BY <1>1, <2>2, <2>3, <2>4, <2>5, <2>6
<1>2. CASE CreateRecord
  <2>1. HostsPending = {}
    BY <1>2 DEF CreateRecord, HostsJoined, SpawnOrder, HostsPending, Addr
  <2> QED BY <1>2, <2>1 DEF CreateRecord, HostsJoined, HostsPending, goroutine
<1>3. CASE Spawn
  BY <1>3 DEF Spawn, HostsJoined
<1>4. ASSUME NEW a \in Addr, Host(a) PROVE HostsJoined'
  <2>1. a \in HostsPending
    BY <1>4 DEF Host, HostCalls, BeginCall, Probe, UpsertHost, UpsertLivePort, ScanPorts, SkipKnown, StartTask,
                LoopsOver, AbandonTasks, JoinTasks, ClassifyHost, ReleaseHost, HostDone,
                HostsPending, Kinds
  <2>2. main' = main /\ next' = next /\ record' = record /\ ctxDone' = ctxDone
    BY <1>4 DEF Host, HostCalls, BeginCall, Probe, UpsertHost, UpsertLivePort, ScanPorts, SkipKnown, StartTask,
                AbandonTasks, JoinTasks, ReturnPorts, ClassifyHost, ReleaseHost, HostDone,
                scan, db
  <2> QED BY <2>1, <2>2 DEF HostsJoined
<1>5. ASSUME NEW t \in Tasks, Task(t) PROVE HostsJoined'
  BY <1>5 DEF Task, PortCalls, BeginCall, Dial, SavePort, ReleaseTask, TaskDone, HostsJoined, HostsPending,
              scan, goroutine, db
<1> QED BY <1>1, <1>2, <1>3, <1>4, <1>5 DEF Next, Main

(* The rows a step may write belong to goroutines that are allowed to.     *)
LEMMA RowOrderStep == TypeOK /\ SpawnOrder /\ TaskOrder /\ RowOrder /\ Next => RowOrder'
<1> SUFFICES ASSUME TypeOK, SpawnOrder, TaskOrder, RowOrder, Next PROVE RowOrder'
  OBVIOUS
<1> USE DEF HostPC, TaskPC, Kinds
<1>s. /\ \A t \in Tasks : t[1] \in Addr /\ t[2] \in Kinds
      /\ \A r \in PortRows : r[1] \in Addr
      /\ Blank # Absent /\ Absent \notin DeviceTypes
  BY TaskShape, ClassifyAssumption DEF PortRows, Blank, Absent
<1>1. CASE Cancel \/ ScanCalls \/ CreateRecord \/ LoopHead \/ WaitHosts \/ FinishRecord
  BY <1>1 DEF Cancel, ScanCalls, BeginCall, CreateRecord, LoopHead, WaitHosts, FinishRecord, RowOrder,
              goroutine, tasks, db
<1>2. CASE Spawn
  <2>1. next \in Addr /\ host[next] = "none"
    BY <1>2 DEF Spawn, SpawnOrder, TypeOK, Addr
  <2> QED BY <1>2, <1>s, <2>1 DEF Spawn, RowOrder, TypeOK, tasks, db
<1>3. ASSUME NEW a \in Addr, Host(a) PROVE RowOrder'
  <2>0. CASE HostCalls(a)
    BY <2>0 DEF HostCalls, BeginCall, RowOrder, goroutine, tasks
  <2>1. CASE Probe(a) \/ ReleaseHost(a) \/ HostDone(a)
    <3>1. /\ row' = row /\ task' = task /\ saved' = saved
          /\ \E pc \in {"upsert", "release", "wgdone", "done"} :
                host' = [host EXCEPT ![a] = pc]
          /\ host[a] \in {"probe", "release", "wgdone"}
          /\ host'[a] = "upsert" => host[a] = "probe"
      BY <2>1 DEF Probe, ReleaseHost, HostDone, tasks, db, TypeOK
    <3> QED BY <1>s, <3>1 DEF RowOrder, TypeOK
  <2>2. CASE UpsertHost(a)
    <3>1. row' = row \/ row' = [row EXCEPT ![a] = Blank]
      BY <2>2 DEF UpsertHost
    <3> QED BY <1>s, <2>2, <3>1 DEF UpsertHost, RowOrder, TypeOK, tasks
  <2>3. CASE UpsertLivePort(a)
    <3>1. row[a] # Absent
      BY <2>3 DEF UpsertLivePort, RowOrder
    <3>2. \A r \in PortRows : saved'[r] # saved[r] => r[1] = a
      BY <2>3 DEF UpsertLivePort, LiveRows, TypeOK
    <3> QED BY <1>s, <2>3, <3>1, <3>2 DEF UpsertLivePort, RowOrder, TypeOK, tasks
  <2>4. CASE ClassifyHost(a)
    <3>1. Classify(open[a].tcp, open[a].udp) \in DeviceTypes \cup {Blank}
      BY ClassifyAssumption DEF TypeOK
    <3>2. row' = row \/ \E d \in DeviceTypes : row' = [row EXCEPT ![a] = d]
      BY <2>4, <3>1 DEF ClassifyHost, TypeFound
    <3> QED BY <1>s, <2>4, <3>2 DEF ClassifyHost, RowOrder, TypeOK, tasks
  <2>5. ASSUME NEW k \in Kinds, ScanPorts(a, k) PROVE RowOrder'
    <3>1. CASE SkipKnown(a, k)
      BY <3>1 DEF SkipKnown, RowOrder, tasks, db
    <3>2. CASE StartTask(a, k)
      BY <1>s, <3>2 DEF StartTask, LoopsOver, RowOrder, TypeOK, db
    <3>3. CASE AbandonTasks(a, k) \/ JoinTasks(a, k)
      <4>1. /\ host[a] = k /\ row' = row /\ task' = task /\ saved' = saved
            /\ host' = [host EXCEPT ![a] = IF k = "tcp" THEN "udp" ELSE "classify"]
        BY <3>3 DEF AbandonTasks, JoinTasks, LoopsOver, ReturnPorts, tasks, db
      <4> QED BY <1>s, <4>1 DEF RowOrder, TypeOK
    <3> QED BY <2>5, <3>1, <3>2, <3>3 DEF ScanPorts
  <2> QED BY <1>3, <2>0, <2>1, <2>2, <2>3, <2>4, <2>5 DEF Host
<1>4. ASSUME NEW t \in Tasks, Task(t) PROVE RowOrder'
  <2>0. CASE PortCalls(t)
    BY <2>0 DEF PortCalls, BeginCall, RowOrder, goroutine, tasks
  <2>1. ASSUME ~PortCalls(t)
        PROVE  /\ host' = host /\ row' = row /\ task[t] # "none"
               /\ \E pc \in TaskPC : task' = [task EXCEPT ![t] = pc]
    BY <1>4, <2>1 DEF Task, Dial, SavePort, ReleaseTask, TaskDone, goroutine, db
  <2>2. ASSUME ~PortCalls(t)
        PROVE  \A r \in PortRows : saved'[r] # saved[r] => r[1] = t[1]
    BY <1>4, <2>2 DEF Task, Dial, SavePort, PortRow, ReleaseTask, TaskDone, db, TypeOK
  <2> QED BY <1>s, <2>0, <2>1, <2>2 DEF RowOrder, TypeOK
<1> QED BY <1>1, <1>2, <1>3, <1>4 DEF Next, Main

(* The number of hosts found is the number of goroutines that counted.     *)
LEMMA CountStep == IInv /\ Next => CountRight'
<1> SUFFICES ASSUME IInv, Next PROVE CountRight'
  OBVIOUS
<1>a. TypeOK /\ SpawnOrder /\ HostsJoined /\ RowOrder /\ WriterBusy /\ CountRight
  BY DEF IInv
<1>b. Blank # Absent /\ Absent \notin DeviceTypes
  BY ClassifyAssumption DEF Blank, Absent
(* Nobody counts: the same goroutines have ended with a row. *)
<1>1. ASSUME Counted' = Counted, count' = count,
             ~ctxDone' \/ Finishing' => ~ctxDone \/ Finishing,
             record'.state = "finished" => record' = record /\ main' = main
      PROVE  CountRight'
  BY <1>1, <1>a DEF CountRight
<1>2. CASE Cancel \/ ScanCalls \/ LoopHead \/ WaitHosts \/ CreateRecord
  <2>1. Counted' = Counted /\ count' = count
    BY <1>2 DEF Cancel, ScanCalls, BeginCall, LoopHead, WaitHosts, CreateRecord, Counted, scan,
                goroutine, db
  <2>2. record'.state = "finished" => record' = record /\ main' = main
    BY <1>2, <1>a DEF Cancel, ScanCalls, BeginCall, LoopHead, WaitHosts, CreateRecord, CountRight,
                      HostsJoined, scan, db, Absent
  <2>3. ~ctxDone' \/ Finishing' => ~ctxDone \/ Finishing
    BY <1>2, <1>a DEF Cancel, ScanCalls, BeginCall, LoopHead, WaitHosts, CreateRecord, WriterBusy,
                      Finishing, scan, db
  <2> QED BY <2>1, <2>2, <2>3, <1>1
<1>3. CASE FinishRecord
  <2>1. Counted' = Counted /\ count' = count /\ main' = "returned" /\ ctxDone' = ctxDone
        /\ main = "finish"
    BY <1>3 DEF FinishRecord, Counted, goroutine
  <2>2. record'.state = "finished" => record'.hosts = count /\ count = Cardinality(Counted)
    BY <1>3, <1>a DEF FinishRecord, CountRight, Finishing, Writes
  <2> QED BY <2>1, <2>2, <1>a DEF CountRight, Finishing
<1>4. CASE Spawn
  <2>1. next \in Addr /\ host[next] = "none"
    BY <1>4, <1>a DEF Spawn, SpawnOrder, TypeOK, Addr
  <2>2. Counted' = Counted
    BY <1>4, <2>1, <1>a DEF Spawn, Counted, TypeOK, db
  <2>3. ~Finishing' /\ ctxDone' = ctxDone
    BY <1>4 DEF Spawn, Finishing
  <2> QED BY <1>4, <2>2, <2>3, <1>1, <1>a DEF Spawn, CountRight, db
<1>5. ASSUME NEW a \in Addr, Host(a) PROVE CountRight'
  <2>f. IsFiniteSet(Counted)
    <3>1. IsFiniteSet(Addr)
      BY FS_Interval, CountsAssumption DEF Addr
    <3> QED BY <3>1, FS_Subset DEF Counted
  <2>p. main \notin {"finish", "returned"}
    <3>1. a \in HostsPending
      BY <1>5 DEF Host, HostCalls, Probe, UpsertHost, UpsertLivePort, ScanPorts, SkipKnown,
                  StartTask, LoopsOver, AbandonTasks, JoinTasks, ClassifyHost, ReleaseHost,
                  HostDone, HostsPending, Kinds
    <3> QED BY <3>1, <1>a DEF HostsJoined
  <2>0. record' = record /\ main' = main /\ ctxDone' = ctxDone
    BY <1>5 DEF Host, HostCalls, BeginCall, Probe, UpsertHost, UpsertLivePort, ScanPorts, SkipKnown, StartTask,
                AbandonTasks, JoinTasks, ReturnPorts, ClassifyHost, ReleaseHost, HostDone,
                scan, db
  <2>c. CASE HostCalls(a)
    <3>1. Counted' = Counted /\ count' = count
      BY <2>c DEF HostCalls, BeginCall, Counted, scan, goroutine
    <3> QED BY <3>1, <2>0, <2>p, <1>1 DEF Finishing
  <2>1. CASE Probe(a) \/ ReleaseHost(a) \/ HostDone(a)
    <3>1. /\ row' = row /\ count' = count
          /\ \/ host[a] = "probe" /\ row[a] = Absent
             \/ host[a] \in {"release", "wgdone"} /\ host'[a] \in {"wgdone", "done"}
          /\ \E pc \in HostPC : host' = [host EXCEPT ![a] = pc]
      BY <2>1, <1>a DEF Probe, ReleaseHost, HostDone, scan, db, TypeOK, RowOrder, HostPC
    <3>2. Counted' = Counted
      BY <3>1, <1>a DEF Counted, TypeOK
    <3> QED BY <3>1, <3>2, <2>0, <2>p, <1>1 DEF Finishing
  <2>2. CASE UpsertHost(a) /\ ctxDone
    BY <2>2, <2>0, <2>p, <1>a DEF CountRight, Finishing
  <2>2a. CASE UpsertHost(a) /\ ~ctxDone
    <3>1. /\ row[a] = Absent /\ count' = count /\ host[a] = "upsert"
          /\ \/ row' = row /\ host' = [host EXCEPT ![a] = "release"]
             \/ row' = [row EXCEPT ![a] = Blank] /\ host' = [host EXCEPT ![a] = "live"]
      BY <2>2a, <1>a DEF UpsertHost, scan, RowOrder
    <3>2. Counted' = Counted
      BY <3>1, <1>a DEF Counted, TypeOK
    <3> QED BY <3>1, <3>2, <2>0, <2>p, <1>1 DEF Finishing
  <2>3. CASE UpsertLivePort(a) \/ \E k \in Kinds : ScanPorts(a, k)
    <3>1. /\ row' = row /\ count' = count
          /\ host[a] \in {"live", "tcp", "udp"} /\ host'[a] \in {"tcp", "udp", "classify"}
          /\ \E pc \in HostPC : host' = [host EXCEPT ![a] = pc]
      <4>1. CASE UpsertLivePort(a)
        BY <4>1, <1>a DEF UpsertLivePort, scan, TypeOK, HostPC
      <4>2. ASSUME NEW k \in Kinds, SkipKnown(a, k) \/ StartTask(a, k)
            PROVE  row' = row /\ count' = count /\ host' = host /\ host[a] = k
        BY <4>2 DEF SkipKnown, StartTask, LoopsOver, scan, db
      <4>3. ASSUME NEW k \in Kinds, AbandonTasks(a, k) \/ JoinTasks(a, k)
            PROVE  /\ row' = row /\ count' = count /\ host[a] = k
                   /\ host' = [host EXCEPT ![a] = IF k = "tcp" THEN "udp" ELSE "classify"]
        BY <4>3 DEF AbandonTasks, JoinTasks, LoopsOver, ReturnPorts, scan, db
      <4>4. host = [host EXCEPT ![a] = host[a]] /\ host[a] \in HostPC
        BY <1>a DEF TypeOK
      <4> QED BY <2>3, <4>1, <4>2, <4>3, <4>4, <1>a DEF ScanPorts, Kinds, TypeOK, HostPC
    <3>2. Counted' = Counted
      BY <3>1, <1>a DEF Counted, TypeOK
    <3> QED BY <3>1, <3>2, <2>0, <2>p, <1>1 DEF Finishing
  <2>4. CASE ClassifyHost(a)
    <3>1. Classify(open[a].tcp, open[a].udp) \in DeviceTypes \cup {Blank}
      BY <1>a, ClassifyAssumption DEF TypeOK
    <3>2. /\ host[a] = "classify" /\ row[a] # Absent /\ count' = count + 1
          /\ host' = [host EXCEPT ![a] = "release"]
          /\ row' = row \/ \E d \in DeviceTypes : row' = [row EXCEPT ![a] = d]
      BY <2>4, <3>1, <1>a DEF ClassifyHost, TypeFound, RowOrder
    <3>3. a \notin Counted /\ Counted' = Counted \cup {a}
      BY <3>2, <1>a, <1>b DEF Counted, TypeOK
    <3>4. Cardinality(Counted') = Cardinality(Counted) + 1
      BY <3>3, <2>f, FS_AddElement
    <3> QED BY <3>2, <3>4, <2>0, <2>p, <1>a DEF CountRight, Finishing
  <2> QED BY <1>5, <2>c, <2>1, <2>2, <2>2a, <2>3, <2>4 DEF Host
<1>6. ASSUME NEW t \in Tasks, Task(t) PROVE CountRight'
  <2>1. /\ Counted' = Counted /\ count' = count /\ record' = record /\ main' = main
        /\ ctxDone' = ctxDone
    BY <1>6 DEF Task, PortCalls, BeginCall, Dial, SavePort, ReleaseTask, TaskDone, Counted, scan,
                goroutine, db
  <2>2. writer' = ScanGo => writer = ScanGo
    BY <1>6, GoNames DEF Task, PortCalls, BeginCall, Dial, SavePort, EndCall, ReleaseTask,
                         TaskDone, db
  <2> QED BY <2>1, <2>2, <1>1 DEF Finishing
<1> QED BY <1>2, <1>3, <1>4, <1>5, <1>6 DEF Next, Main

(* Only Probe chooses the port, and only UpsertHost keeps it.              *)
LEMMA LivePortStep == TypeOK /\ LivePort /\ Next => LivePort'
<1> SUFFICES ASSUME TypeOK, LivePort, Next PROVE LivePort'
  OBVIOUS
<1> USE DEF HostPC, Kinds
<1>1. CASE Cancel \/ Main
  BY <1>1 DEF Cancel, Main, ScanCalls, BeginCall, CreateRecord, LoopHead, Spawn, WaitHosts, FinishRecord,
              LivePort, TypeOK, goroutine
<1>2. ASSUME NEW a \in Addr, Host(a) PROVE LivePort'
  <2>c. CASE HostCalls(a)
    BY <2>c DEF HostCalls, BeginCall, LivePort, goroutine
  <2>1. CASE Probe(a)
    <3>1. /\ \A b \in Addr \ {a} : host'[b] = host[b] /\ open'[b] = open[b]
          /\ host'[a] = "upsert" => \E p \in ProbePorts : open'[a].tcp = {p}
          /\ host'[a] # "live"
      BY <2>1 DEF Probe, TypeOK
    <3> QED BY <3>1 DEF LivePort
  <2>2. CASE UpsertHost(a) \/ UpsertLivePort(a) \/ ClassifyHost(a) \/ ReleaseHost(a) \/ HostDone(a)
    <3>1. /\ open' = open /\ \A b \in Addr \ {a} : host'[b] = host[b]
          /\ host'[a] \in {"upsert", "live"} => host[a] \in {"upsert", "live"}
      BY <2>2 DEF UpsertHost, UpsertLivePort, ClassifyHost, ReleaseHost, HostDone, TypeOK
    <3> QED BY <3>1 DEF LivePort
  <2>3. ASSUME NEW k \in Kinds, ScanPorts(a, k) PROVE LivePort'
    <3>1. CASE SkipKnown(a, k) \/ StartTask(a, k)
      BY <3>1 DEF SkipKnown, StartTask, LivePort
    <3>2. CASE AbandonTasks(a, k) \/ JoinTasks(a, k)
      <4>1. /\ \A b \in Addr \ {a} : host'[b] = host[b] /\ open'[b] = open[b]
            /\ host'[a] \notin {"upsert", "live"}
        BY <3>2 DEF AbandonTasks, JoinTasks, ReturnPorts, TypeOK
      <4> QED BY <4>1 DEF LivePort
    <3> QED BY <2>3, <3>1, <3>2 DEF ScanPorts
  <2> QED BY <1>2, <2>c, <2>1, <2>2, <2>3 DEF Host
<1>3. ASSUME NEW t \in Tasks, Task(t) PROVE LivePort'
  BY <1>3 DEF Task, PortCalls, BeginCall, Dial, SavePort, ReleaseTask, TaskDone, LivePort, goroutine
<1> QED BY <1>1, <1>2, <1>3 DEF Next

-----------------------------------------------------------------------------
(* The inductive invariant holds in every reachable state.                 *)
THEOREM Invariance == Spec => []IInv
<1>1. Init => IInv
  BY InitIInv
<1>2. IInv /\ [Next]_vars => IInv'
  <2>1. IInv /\ Next => IInv'
    BY Accounting, Typing, WriterStep, SpawnOrderStep, TaskOrderStep, HostsJoinedStep, RowOrderStep,
       LivePortStep, CountStep DEF IInv
  <2>2. IInv /\ UNCHANGED vars => IInv'
    BY DEF IInv, vars, scan, goroutine, tasks, db, TypeOK, HoldersFinite, SlotsAccounted,
           HostHolders, TaskHolders, HostHolds, TaskHolds, SpawnOrder, TaskOrder, TasksJoined,
           HostsJoined, HostsPending, RowOrder, WriterBusy, LivePort, CountRight, Finishing, Counted
  <2> QED BY <2>1, <2>2
<1> QED BY <1>1, <1>2, PTL DEF Spec

(* Every variable of Scan keeps its type, the semaphore its capacity.      *)
THEOREM TypeCorrect == Spec => []TypeOK
<1>1. IInv => TypeOK
  BY DEF IInv
<1> QED BY <1>1, Invariance, PTL

(* No slot of the semaphore is lost or given back twice, whichever way a   *)
(* goroutine ends (the deferred receives of scanner.go).                   *)
THEOREM SlotsCorrect == Spec => []SlotsAccounted
<1>1. IInv => SlotsAccounted
  BY DEF IInv
<1> QED BY <1>1, Invariance, PTL

(* At most Workers probe goroutines run at a time, in all stages together. *)
THEOREM CapCorrect == Spec => []ProbesCapped
<1>1. IInv => ProbesCapped
  BY DEF IInv, TypeOK, SlotsAccounted, ProbesCapped
<1> QED BY <1>1, Invariance, PTL

(* A pool with more workers than addresses never gridlocks: the holders    *)
(* that wait are host goroutines, and there are too few of those.          *)
THEOREM RoomyPool == NumAddrs < Workers => (Spec => []NoGridlock)
<1> SUFFICES ASSUME NumAddrs < Workers PROVE Spec => []NoGridlock
  OBVIOUS
<1>1. IInv => NoGridlock
  <2> SUFFICES ASSUME IInv, Gridlock PROVE FALSE
    BY DEF NoGridlock
  <2>1. Cardinality(HostHolders) = Workers
    <3>1. Cardinality(HostHolders) \in Nat
      BY FS_CardinalityType DEF IInv, HoldersFinite
    <3> QED BY <3>1, FS_EmptySet, CountsAssumption DEF IInv, SlotsAccounted, Gridlock
  <2>2. IsFiniteSet(Addr) /\ Cardinality(Addr) = NumAddrs
    BY FS_Interval, CountsAssumption DEF Addr
  <2>3. Cardinality(HostHolders) <= NumAddrs
    BY <2>2, FS_Subset DEF HostHolders
  <2> QED BY <2>1, <2>3, CountsAssumption
<1> QED BY <1>1, Invariance, PTL

(* A Scan that returns without a cancellation has probed every address and *)
(* left no slot taken and no goroutine behind.                             *)
THEOREM QuiescentReturn == Spec => []ReturnsQuiescent
<1>1. IInv => ReturnsQuiescent
  <2> SUFFICES ASSUME IInv, main = "returned", ~ctxDone, record.state # Absent
               PROVE  /\ sem = 0
                      /\ \A a \in Addr : host[a] = "done"
                      /\ \A t \in Tasks : task[t] \in {"none", "done"}
    BY DEF ReturnsQuiescent
  <2>1. \A a \in Addr : host[a] = "done"
    <3>1. HostsPending = {} /\ next > NumAddrs
      BY DEF IInv, HostsJoined
    <3>2. \A a \in Addr : host[a] # "none"
      BY <3>1, CountsAssumption DEF IInv, SpawnOrder, TypeOK, Addr
    <3> QED BY <3>1, <3>2 DEF HostsPending
  <2>2. \A t \in Tasks : task[t] \in {"none", "done"}
    BY <2>1, TaskShape DEF IInv, TasksJoined, Kinds
  <2>3. HostHolders = {} /\ TaskHolders = {}
    BY <2>1, <2>2 DEF HostHolders, TaskHolders, HostHolds, TaskHolds
  <2>4. sem = 0
    BY <2>3, FS_EmptySet DEF IInv, SlotsAccounted
  <2> QED BY <2>1, <2>2, <2>4
<1> QED BY <1>1, Invariance, PTL

(* hosts_found of a finished scan equals the number of rows it wrote.      *)
THEOREM RecordCorrect == Spec => []RecordMatchesRows
<1>1. IInv => RecordMatchesRows
  <2> SUFFICES ASSUME IInv, record.state = "finished"
               PROVE  record.hosts = Cardinality({a \in Addr : row[a] # Absent})
    BY DEF RecordMatchesRows
  <2>1. HostsPending = {}
    BY DEF IInv, HostsJoined, CountRight
  <2>2. Counted = {a \in Addr : row[a] # Absent}
    BY <2>1 DEF IInv, TypeOK, HostPC, HostsPending, RowOrder, Counted
  <2> QED BY <2>2 DEF IInv, CountRight
<1> QED BY <1>1, Invariance, PTL

-----------------------------------------------------------------------------
(* What the rows of an address and its goroutine know of its ports: a row  *)
(* that says open is of a port that was found, and once a stage has joined *)
(* its goroutines the caller has all they found. A cancelled stage joins   *)
(* nobody.                                                                 *)
Ended == {"release", "wgdone", "done"}
RowsOpen(a) == \A p \in Ports :
    /\ saved[<<a, "tcp", p>>] = "open" => p \in open[a].tcp \cup found[<<a, "tcp">>]
    /\ saved[<<a, "udp", p>>] = "open" => p \in found[<<a, "udp">>]
JoinedTCP(a) == host[a] \in {"udp", "classify"} \cup Ended /\ row[a] # Absent
                    => found[<<a, "tcp">>] \subseteq open[a].tcp
JoinedUDP(a) == host[a] \in {"classify"} \cup Ended /\ row[a] # Absent
                    => open[a].udp = found[<<a, "udp">>]
Typed(a) == host[a] \in Ended /\ row[a] # Absent
                => row[a] = Classify(open[a].tcp, open[a].udp) \/ (DBFails /\ row[a] = Blank)
Untyped(a) == host[a] \in {"live", "tcp", "udp", "classify"} => row[a] = Blank
Complete(a) == RowsOpen(a) /\ Untyped(a)
                 /\ (~ctxDone => JoinedTCP(a) /\ JoinedUDP(a) /\ Typed(a))

(* What a step leaves alone stays complete.                                *)
LEMMA CompleteFrame ==
    ASSUME NEW a \in Addr, Complete(a), ctxDone' = ctxDone \/ ctxDone',
           host'[a] = host[a], open'[a] = open[a], row'[a] = row[a],
           \A k \in Kinds : found'[<<a, k>>] = found[<<a, k>>],
           \A k \in Kinds, p \in Ports : saved'[<<a, k, p>>] = saved[<<a, k, p>>]
    PROVE  Complete(a)'
<1>1. /\ found'[<<a, "tcp">>] = found[<<a, "tcp">>] /\ found'[<<a, "udp">>] = found[<<a, "udp">>]
      /\ \A p \in Ports : /\ saved'[<<a, "tcp", p>>] = saved[<<a, "tcp", p>>]
                          /\ saved'[<<a, "udp", p>>] = saved[<<a, "udp", p>>]
  BY DEF Kinds
<1>2. RowsOpen(a)' /\ Untyped(a)'
  BY <1>1 DEF Complete, RowsOpen, Untyped
<1>3. ~ctxDone' => JoinedTCP(a)' /\ JoinedUDP(a)' /\ Typed(a)'
  BY <1>1 DEF Complete, JoinedTCP, JoinedUDP, Typed
<1> QED BY <1>2, <1>3 DEF Complete

(* The steps of the goroutine of the address.                              *)
LEMMA CompleteHost ==
    ASSUME TypeOK, RowOrder, NEW a \in Addr, Complete(a), Host(a)
    PROVE  Complete(a)'
<1>t. /\ host \in [Addr -> HostPC] /\ row \in [Addr -> DeviceTypes \cup {Blank, Absent}]
      /\ open \in [Addr -> [tcp : SUBSET Ports, udp : SUBSET Ports]]
  BY DEF TypeOK
<1>c. ctxDone' = ctxDone /\ found' = found
  BY DEF Host, HostCalls, BeginCall, Probe, UpsertHost, UpsertLivePort, ScanPorts, SkipKnown, StartTask, AbandonTasks,
         JoinTasks, ReturnPorts, ClassifyHost, ReleaseHost, HostDone, tasks
<1>r. RowsOpen(a) /\ Untyped(a)
  BY DEF Complete
<1>0. CASE HostCalls(a)
  <2>1. host' = host /\ open' = open /\ row' = row /\ saved' = saved
    BY <1>0 DEF HostCalls, BeginCall, goroutine
  <2> QED BY <2>1, <1>c, CompleteFrame
<1>1. CASE Probe(a)
  <2>1. row' = row /\ saved' = saved /\ row[a] = Absent
        /\ host'[a] \in {"upsert", "release"}
    BY <1>1, <1>t DEF Probe, RowOrder, db
  <2>2. \A k \in Kinds, p \in Ports : saved[<<a, k, p>>] = Absent
    BY <2>1 DEF RowOrder, PortRows
  <2>3. \A p \in Ports : saved[<<a, "tcp", p>>] # "open" /\ saved[<<a, "udp", p>>] # "open"
    BY <2>2 DEF Kinds, Absent
  <2> QED BY <2>1, <2>3 DEF Complete, RowsOpen, Untyped, JoinedTCP, JoinedUDP, Typed
<1>2. CASE UpsertHost(a)
  <2>1. /\ row[a] = Absent /\ open' = open /\ saved' = saved
        /\ \/ host'[a] = "live" /\ row'[a] = Blank
           \/ host'[a] = "release" /\ (row'[a] = Absent \/ ctxDone)
    BY <1>2, <1>t DEF UpsertHost, RowOrder
  <2> QED BY <2>1, <1>c, <1>r DEF Complete, RowsOpen, Untyped, JoinedTCP, JoinedUDP, Typed, Ended
<1>3. CASE UpsertLivePort(a)
  <2>1. /\ host[a] = "live" /\ host'[a] = "tcp" /\ row' = row /\ open' = open
    BY <1>3, <1>t DEF UpsertLivePort
  <2>2. \A p \in Ports : /\ saved'[<<a, "udp", p>>] = saved[<<a, "udp", p>>]
                         /\ saved'[<<a, "tcp", p>>] # saved[<<a, "tcp", p>>] => p \in open[a].tcp
    <3> TAKE p \in Ports
    <3>1. <<a, "tcp", p>> \in PortRows /\ <<a, "udp", p>> \in PortRows
      BY DEF PortRows, Kinds
    <3> QED BY <1>3, <3>1 DEF UpsertLivePort, LiveRows
  <2>3. RowsOpen(a)'
    BY <2>1, <2>2, <1>c, <1>r DEF RowsOpen
  <2> QED BY <2>1, <2>3, <1>r DEF Complete, Untyped, JoinedTCP, JoinedUDP, Typed, Ended
<1>4. CASE ClassifyHost(a)
  <2>1. /\ host[a] = "classify" /\ host'[a] = "release" /\ open' = open /\ saved' = saved
        /\ row[a] = Blank
    BY <1>4, <1>t, <1>r DEF ClassifyHost, Untyped
  <2>2. row'[a] = Classify(open[a].tcp, open[a].udp)
          \/ ((ctxDone \/ DBFails) /\ row'[a] = Blank)
    BY <1>4, <2>1, <1>t DEF ClassifyHost, TypeFound, Fails
  <2>3. Blank # Absent
    BY DEF Blank, Absent
  <2> QED BY <2>1, <2>2, <2>3, <1>c, <1>r
          DEF Complete, RowsOpen, Untyped, JoinedTCP, JoinedUDP, Typed, Ended
<1>5. CASE ReleaseHost(a) \/ HostDone(a)
  <2>1. /\ host[a] \in Ended /\ host'[a] \in Ended /\ open' = open /\ saved' = saved /\ row' = row
    BY <1>5, <1>t DEF ReleaseHost, HostDone, Ended, db
  <2> QED BY <2>1, <1>c, <1>r DEF Complete, RowsOpen, Untyped, JoinedTCP, JoinedUDP, Typed, Ended
<1>6. ASSUME NEW k \in Kinds, ScanPorts(a, k) PROVE Complete(a)'
  <2>1. CASE SkipKnown(a, k) \/ StartTask(a, k)
    <3>1. host' = host /\ open' = open /\ row' = row /\ saved' = saved
      BY <2>1 DEF SkipKnown, StartTask, db
    <3> QED BY <3>1, <1>c, CompleteFrame
  <2>2. ASSUME NEW ports \in SUBSET Ports, ReturnPorts(a, k, ports), host[a] = k,
               ~ctxDone => ports = found[<<a, k>>]
        PROVE  Complete(a)'
    <3>1. row' = row /\ saved' = saved /\ row[a] = Blank
      BY <2>2, <1>r DEF ReturnPorts, Untyped, db, Kinds
    <3>2. CASE k = "tcp"
      <4>1. open'[a].tcp = open[a].tcp \cup ports /\ host'[a] = "udp"
        BY <2>2, <3>2, <1>t DEF ReturnPorts
      <4> QED BY <2>2, <3>1, <3>2, <4>1, <1>c, <1>r
              DEF Complete, RowsOpen, Untyped, JoinedTCP, JoinedUDP, Typed, Ended
    <3>3. CASE k = "udp"
      <4>1. /\ open'[a].tcp = open[a].tcp /\ open'[a].udp = ports /\ host'[a] = "classify"
        BY <2>2, <3>3, <1>t DEF ReturnPorts
      <4> QED BY <2>2, <3>1, <3>3, <4>1, <1>c, <1>r
              DEF Complete, RowsOpen, Untyped, JoinedTCP, JoinedUDP, Typed, Ended
    <3> QED BY <3>2, <3>3 DEF Kinds
  <2>3. CASE AbandonTasks(a, k)
    BY <2>3, <2>2, PortInPorts DEF AbandonTasks, LoopsOver
  <2>4. CASE JoinTasks(a, k)
    BY <2>4, <2>2 DEF JoinTasks, TypeOK
  <2> QED BY <1>6, <2>1, <2>3, <2>4 DEF ScanPorts
<1> QED BY <1>0, <1>1, <1>2, <1>3, <1>4, <1>5, <1>6 DEF Host

(* A port goroutine appends what it found while its stage still waits.     *)
LEMMA CompleteTask ==
    ASSUME TypeOK, TasksJoined, NEW t \in Tasks, Complete(t[1]), Task(t)
    PROVE  Complete(t[1])'
<1> DEFINE a == t[1]
<1>1. a \in Addr /\ t[2] \in Kinds /\ Port(t) \in Ports
  BY TaskShape, PortInPorts DEF Port
<1>2. ctxDone' = ctxDone /\ host' = host /\ open' = open /\ row' = row
  BY DEF Task, PortCalls, BeginCall, Dial, SavePort, ReleaseTask, TaskDone, goroutine, db
<1>3. CASE PortCalls(t) \/ Dial(t) \/ ReleaseTask(t) \/ TaskDone(t)
  <2>1. found' = found /\ saved' = saved
    BY <1>3 DEF PortCalls, BeginCall, Dial, ReleaseTask, TaskDone, tasks, db
  <2> QED BY <1>1, <1>2, <2>1, CompleteFrame
<1>4. CASE SavePort(t)
  <2>1. ~ctxDone => host[a] = t[2]
    BY <1>4 DEF SavePort, TasksJoined
  <2>2. \A k \in Kinds : <<a, k>> \in Addr \X Kinds
        /\ \A p \in Ports : <<a, k, p>> \in PortRows
    BY <1>1 DEF PortRows
  <2>3. /\ \A k \in Kinds : found[<<a, k>>] \subseteq found'[<<a, k>>]
        /\ \A k \in Kinds : k # t[2] => found'[<<a, k>>] = found[<<a, k>>]
        /\ task[t] = "save" => Port(t) \in found'[<<a, t[2]>>]
    BY <1>4, <1>1, <2>2 DEF SavePort, TypeOK
  <2>4. \A k \in Kinds, p \in Ports :
          saved'[<<a, k, p>>] = "open" /\ saved[<<a, k, p>>] # "open"
            => k = t[2] /\ p = Port(t) /\ task[t] = "save"
    BY <1>4, <1>1, <2>2 DEF SavePort, PortRow, TypeOK
  <2>5. RowsOpen(a)'
    <3>1. \A k \in Kinds, p \in Ports :
            saved'[<<a, k, p>>] = "open" /\ saved[<<a, k, p>>] # "open" => p \in found'[<<a, k>>]
      BY <2>3, <2>4
    <3>2. RowsOpen(a)
      BY DEF Complete
    <3> HIDE DEF a
    <3> QED BY <3>1, <3>2, <2>3, <1>2 DEF RowsOpen, Kinds
  <2>6. Untyped(a)'
    BY <1>2 DEF Complete, Untyped
  <2>7. ASSUME ~ctxDone PROVE JoinedTCP(a)' /\ JoinedUDP(a)' /\ Typed(a)'
    <3>1. CASE t[2] = "tcp"
      BY <2>1, <2>7, <3>1, <1>2 DEF JoinedTCP, JoinedUDP, Typed, Ended
    <3>2. CASE t[2] = "udp"
      <4>1. found'[<<a, "tcp">>] = found[<<a, "tcp">>]
        BY <3>2, <2>3 DEF Kinds
      <4> QED BY <2>1, <2>7, <3>2, <4>1, <1>2 DEF Complete, JoinedTCP, JoinedUDP, Typed, Ended
    <3> QED BY <3>1, <3>2, <1>1 DEF Kinds
  <2> QED BY <2>5, <2>6, <2>7, <1>2 DEF Complete
<1> QED BY <1>3, <1>4 DEF Task

LEMMA CompleteStep ==
    ASSUME IInv, Next, NEW a \in Addr, Complete(a)
    PROVE  Complete(a)'
<1>a. TypeOK /\ SpawnOrder /\ TasksJoined /\ RowOrder
  BY DEF IInv
<1>1. CASE Cancel \/ ScanCalls \/ CreateRecord \/ LoopHead \/ WaitHosts \/ FinishRecord
  BY <1>1, CompleteFrame DEF Cancel, ScanCalls, BeginCall, CreateRecord, LoopHead, WaitHosts, FinishRecord, goroutine,
                             tasks, db
<1>2. CASE Spawn
  <2>1. /\ ctxDone' = ctxDone /\ open' = open /\ row' = row /\ found' = found /\ saved' = saved
        /\ host' = [host EXCEPT ![next] = "probe"]
    BY <1>2 DEF Spawn, tasks, db
  <2>2. CASE a = next
    <3>1. host'[a] = "probe" /\ row[a] = Absent
      BY <2>1, <2>2, <1>a, CountsAssumption DEF TypeOK, SpawnOrder, RowOrder, Addr
    <3> QED BY <2>1, <3>1 DEF Complete, RowsOpen, Untyped, JoinedTCP, JoinedUDP, Typed
  <2>3. CASE a # next
    BY <2>1, <2>3, <1>a, CompleteFrame DEF TypeOK
  <2> QED BY <2>2, <2>3
<1>3. ASSUME NEW b \in Addr, Host(b) PROVE Complete(a)'
  <2>1. CASE b = a
    BY <2>1, <1>3, <1>a, CompleteHost
  <2>2. CASE b # a
    <3>1. /\ ctxDone' = ctxDone /\ found' = found
          /\ host'[a] = host[a] /\ open'[a] = open[a] /\ row'[a] = row[a]
      BY <1>3, <2>2, <1>a DEF Host, HostCalls, BeginCall, Probe, UpsertHost, UpsertLivePort, ScanPorts, SkipKnown,
         StartTask, AbandonTasks, JoinTasks, ReturnPorts, ClassifyHost, ReleaseHost, HostDone,
         goroutine, tasks, db, TypeOK
    <3>2. \A k \in Kinds, p \in Ports : saved'[<<a, k, p>>] = saved[<<a, k, p>>]
      <4>1. CASE UpsertLivePort(b)
        <5>1. \A k \in Kinds, p \in Ports : <<a, k, p>> \in PortRows
          BY DEF PortRows
        <5> QED BY <4>1, <5>1, <2>2 DEF UpsertLivePort, LiveRows
      <4>2. CASE saved' = saved
        BY <4>2
      <4> QED BY <1>3, <4>1, <4>2 DEF Host, HostCalls, BeginCall, Probe, UpsertHost, ScanPorts, SkipKnown, StartTask,
                AbandonTasks, JoinTasks, ReturnPorts, ClassifyHost, ReleaseHost, HostDone, db
    <3> QED BY <3>1, <3>2, CompleteFrame
  <2> QED BY <2>1, <2>2
<1>4. ASSUME NEW t \in Tasks, Task(t) PROVE Complete(a)'
  <2>1. CASE t[1] = a
    BY <2>1, <1>4, <1>a, CompleteTask
  <2>2. CASE t[1] # a
    <3>1. /\ ctxDone' = ctxDone /\ host' = host /\ open' = open /\ row' = row
      BY <1>4 DEF Task, PortCalls, BeginCall, Dial, SavePort, ReleaseTask, TaskDone, goroutine, db
    <3>2. /\ \A k \in Kinds : found'[<<a, k>>] = found[<<a, k>>]
          /\ \A k \in Kinds, p \in Ports : saved'[<<a, k, p>>] = saved[<<a, k, p>>]
      <4>1. CASE SavePort(t)
        <5>1. \A k \in Kinds : <<a, k>> # <<t[1], t[2]>> /\ <<a, k>> \in Addr \X Kinds
              /\ \A p \in Ports : <<a, k, p>> # <<t[1], t[2], Port(t)>> /\ <<a, k, p>> \in PortRows
          BY <2>2 DEF PortRows
        <5> QED BY <4>1, <5>1, <1>a DEF SavePort, PortRow, TypeOK
      <4>2. CASE ~SavePort(t)
        BY <1>4, <4>2 DEF Task, PortCalls, BeginCall, Dial, ReleaseTask, TaskDone, tasks, db
      <4> QED BY <4>1, <4>2
    <3> QED BY <3>1, <3>2, CompleteFrame
  <2> QED BY <2>1, <2>2
<1> QED BY <1>1, <1>2, <1>3, <1>4 DEF Next, Main

(* The device type of a host takes in every port found on it, at the end   *)
(* of its goroutine: each stage of scanner.go waits for its port           *)
(* goroutines before it hands over their list.                             *)
THEOREM TypeFromAllPortsCorrect == Spec => []TypeFromAllPorts
<1> DEFINE Inv == IInv /\ \A a \in Addr : Complete(a)
<1>1. Init => Inv
  <2> SUFFICES ASSUME Init, NEW a \in Addr PROVE Complete(a)
    BY InitIInv
  <2>1. /\ \A p \in Ports : /\ saved[<<a, "tcp", p>>] = Absent
                            /\ saved[<<a, "udp", p>>] = Absent
        /\ host[a] = "none" /\ row[a] = Absent
    BY DEF Init, PortRows, Kinds
  <2> QED BY <2>1 DEF Complete, RowsOpen, Untyped, JoinedTCP, JoinedUDP, Typed, Absent
<1>2. Inv /\ IInv' /\ [Next]_vars => Inv'
  <2> SUFFICES ASSUME Inv, [Next]_vars, NEW a \in Addr PROVE Complete(a)'
    OBVIOUS
  <2>1. CASE Next
    BY <2>1, CompleteStep
  <2>2. CASE UNCHANGED vars
    BY <2>2, CompleteFrame DEF vars, goroutine, tasks, db
  <2> QED BY <2>1, <2>2
<1>3. Inv => TypeFromAllPorts
  <2> SUFFICES ASSUME Inv, NEW a \in Addr, host[a] = "done", row[a] # Absent, ~ctxDone
               PROVE  LET tcp == open[a].tcp \cup found[<<a, "tcp">>]
                          udp == found[<<a, "udp">>]
                      IN  /\ row[a] = Classify(tcp, udp) \/ (DBFails /\ row[a] = Blank)
                          /\ \A p \in Ports : /\ saved[<<a, "tcp", p>>] = "open" => p \in tcp
                                              /\ saved[<<a, "udp", p>>] = "open" => p \in udp
    BY DEF TypeFromAllPorts
  <2>1. /\ open[a].tcp \cup found[<<a, "tcp">>] = open[a].tcp
        /\ open[a].udp = found[<<a, "udp">>]
    BY DEF Complete, JoinedTCP, JoinedUDP, Ended
  <2>2. row[a] = Classify(open[a].tcp, open[a].udp) \/ (DBFails /\ row[a] = Blank)
    BY DEF Complete, Typed, Ended
  <2> QED BY <2>1, <2>2 DEF Complete, RowsOpen
<1> HIDE DEF Inv
<1> QED BY <1>1, <1>2, <1>3, Invariance, PTL DEF Spec

-----------------------------------------------------------------------------
(* After the return only abandoned port goroutines take steps. None begins *)
(* a store call: a live context would mean that its host goroutine has not *)
(* ended.                                                                  *)
LEMMA LateTask == IInv /\ main = "returned" => \A t \in Tasks :
                     task[t] \notin {"none", "done"} => ctxDone
<1> SUFFICES ASSUME IInv, main = "returned", NEW t \in Tasks, task[t] \notin {"none", "done"},
                    ~ctxDone
             PROVE  FALSE
  OBVIOUS
<1>1. host[t[1]] = t[2] /\ t[1] \in Addr /\ t[2] \in Kinds
  BY TaskShape DEF IInv, TasksJoined
<1>2. HostsPending = {}
  BY DEF IInv, HostsJoined
<1> QED BY <1>1, <1>2 DEF HostsPending, Kinds

LEMMA LateStep ==
    ASSUME IInv, Next, main = "returned"
    PROVE  /\ UNCHANGED <<row, record>>
           /\ writer' # writer => writer \in Tasks /\ writer' = Nobody
           /\ saved' # saved => /\ ctxDone /\ writer \in Tasks /\ writer' = Nobody
                                /\ \A r \in PortRows \ {PortRow(writer)} : saved'[r] = saved[r]
<1>a. TypeOK /\ HostsPending = {}
  BY DEF IInv, HostsJoined
<1>1. CASE Cancel
  BY <1>1 DEF Cancel, db
<1>2. CASE Main
  BY <1>2 DEF Main, ScanCalls, CreateRecord, LoopHead, Spawn, WaitHosts, FinishRecord
<1>3. ASSUME NEW a \in Addr, Host(a) PROVE FALSE
  BY <1>3, <1>a DEF Host, HostCalls, Probe, UpsertHost, UpsertLivePort, ScanPorts, SkipKnown,
                    StartTask, LoopsOver, AbandonTasks, JoinTasks, ClassifyHost, ReleaseHost,
                    HostDone, HostsPending, Kinds
<1>4. ASSUME NEW t \in Tasks, PortCalls(t) PROVE FALSE
  BY <1>4, LateTask DEF PortCalls, BeginCall
<1>5. ASSUME NEW t \in Tasks, Dial(t) \/ ReleaseTask(t) \/ TaskDone(t) PROVE UNCHANGED db
  BY <1>5 DEF Dial, ReleaseTask, TaskDone
<1>6. ASSUME NEW t \in Tasks, SavePort(t)
      PROVE  /\ ctxDone /\ UNCHANGED <<row, record>>
             /\ writer = t => writer' = Nobody
  BY <1>6, LateTask DEF SavePort, EndCall
<1>7. ASSUME NEW t \in Tasks, SavePort(t)
      PROVE  /\ writer # t => writer' = writer /\ saved' = saved
             /\ \A r \in PortRows \ {PortRow(t)} : saved'[r] = saved[r]
  BY <1>7, <1>a DEF SavePort, EndCall, Writes, TypeOK
<1> QED BY <1>1, <1>2, <1>3, <1>4, <1>5, <1>6, <1>7 DEF Next, Task, db

(* Once Scan has returned, the rows of hosts and of the scan stay as they  *)
(* are, and a port row changes only by a store call that had begun before. *)
(* The second half of each store call is a step of its own here, so this   *)
(* rests on what a goroutine does between the two (scanner.go:395 and 458: *)
(* the dial is over, the context is the one of the sweep).                 *)
THEOREM NoLateWritesCorrect == Spec => NoLateWrites
<1>1. IInv /\ [Next]_vars =>
        [main = "returned" =>
            /\ UNCHANGED <<row, record>>
            /\ writer' # writer => writer \in Tasks /\ writer' = Nobody
            /\ saved' # saved => /\ ctxDone /\ writer \in Tasks /\ writer' = Nobody
                                 /\ \A r \in PortRows \ {PortRow(writer)} :
                                       saved'[r] = saved[r]]_vars
  BY LateStep
<1> QED BY <1>1, Invariance, PTL DEF Spec, NoLateWrites

-----------------------------------------------------------------------------
(* The port rows in a call, over the writer, the stages and the open ports.*)
CallOf(w, h, o) ==
    IF w[2] \in Kinds THEN {PortRow(w)}
    ELSE UNION {{<<a, "tcp", p>> : p \in o[a].tcp} :
                   a \in {b \in Addr : w = HostGo(b) /\ h[b] = "live"}}

LEMMA CallOfGo ==
    ASSUME NEW h, NEW o
    PROVE  /\ CallOf(Nobody, h, o) = {} /\ CallOf(ScanGo, h, o) = {}
           /\ \A t \in Tasks : CallOf(t, h, o) = {PortRow(t)}
           /\ \A a \in Addr : CallOf(HostGo(a), h, o) =
                 IF h[a] = "live" THEN {<<a, "tcp", p>> : p \in o[a].tcp} ELSE {}
<1>1. /\ Nobody[2] \notin Kinds /\ ScanGo[2] \notin Kinds
      /\ \A a \in Addr : Nobody # HostGo(a) /\ ScanGo # HostGo(a)
  BY DEF Nobody, ScanGo, HostGo, Kinds
<1>2. CallOf(Nobody, h, o) = {} /\ CallOf(ScanGo, h, o) = {}
  BY <1>1 DEF CallOf
<1>3. \A t \in Tasks : CallOf(t, h, o) = {PortRow(t)}
  BY TaskShape DEF CallOf
<1>4. ASSUME NEW a \in Addr
      PROVE  CallOf(HostGo(a), h, o) =
                IF h[a] = "live" THEN {<<a, "tcp", p>> : p \in o[a].tcp} ELSE {}
  <2>1. {b \in Addr : HostGo(a) = HostGo(b) /\ h[b] = "live"} = IF h[a] = "live" THEN {a} ELSE {}
    BY GoNames
  <2>2. HostGo(a)[2] \notin Kinds
    BY GoNames
  <2> QED BY <2>1, <2>2 DEF CallOf
<1> QED BY <1>2, <1>3, <1>4

LEMMA RowInCallIs == /\ RowInCall = CallOf(writer, host, open)
                     /\ RowInCall' = CallOf(writer', host', open')
BY DEF RowInCall, CallOf, LiveRows

(* A step that leaves the connection and its holder alone, and one that    *)
(* gives the connection back after another kind of call.                   *)
LEMMA RowInCallFrame ==
    ASSUME TypeOK, writer' = writer,
           \A a \in Addr : writer = HostGo(a) => host'[a] = host[a] /\ open'[a] = open[a]
    PROVE  RowInCall' = RowInCall
<1>1. \/ writer \in {Nobody, ScanGo} \cup Tasks
      \/ \E a \in Addr : writer = HostGo(a)
  BY DEF TypeOK, Goroutines
<1>2. CASE writer \in {Nobody, ScanGo} \cup Tasks
  <2>1. \A h, o : CallOf(writer, h, o) = CallOf(writer, host, open)
    BY <1>2, CallOfGo
  <2> QED BY <2>1, RowInCallIs
<1>3. ASSUME NEW a \in Addr, writer = HostGo(a) PROVE RowInCall' = RowInCall
  <2>1. CallOf(HostGo(a), host', open') = CallOf(HostGo(a), host, open)
    <3>1. host'[a] = host[a] /\ open'[a] = open[a]
      BY <1>3
    <3>2. \A h, o : CallOf(HostGo(a), h, o) =
                        IF h[a] = "live" THEN {<<a, "tcp", p>> : p \in o[a].tcp} ELSE {}
      BY CallOfGo
    <3> QED BY <3>1, <3>2
  <2> QED BY <1>3, <2>1, RowInCallIs
<1> QED BY <1>1, <1>2, <1>3

LEMMA RowInCallEnds ==
    ASSUME TypeOK, NEW g \in Goroutines, EndCall(g), open' = open,
           g = ScanGo \/ \E a \in Addr : g = HostGo(a) /\ host[a] # "live",
           \A a \in Addr : g # HostGo(a) => host'[a] = host[a]
    PROVE  RowInCall' = RowInCall
<1>1. CASE writer # g
  BY <1>1, RowInCallFrame DEF EndCall
<1>2. CASE writer = g
  <2>1. RowInCall' = {}
    BY <1>2, CallOfGo, RowInCallIs DEF EndCall
  <2>2. RowInCall = {}
    BY <1>2, CallOfGo, RowInCallIs
  <2> QED BY <2>1, <2>2
<1> QED BY <1>1, <1>2

(* The state the contract sees.                                            *)
Seen == {a \in Addr : row[a] # Absent}
SeenPorts == {r \in PortRows : saved[r] # Absent}
Total == IF record.state = "finished" THEN record.hosts ELSE -1
ContractVars == <<main # "returned", ctxDone, Seen, SeenPorts, RowInCall, Total>>

(* A step of one host goroutine records that host, begins or ends the      *)
(* write of its live port, or is invisible in the contract.                *)
LEMMA HostRefines ==
    ASSUME IInv, NEW a \in Addr, Host(a)
    PROVE  Contract!Next \/ UNCHANGED ContractVars
<1> USE DEF Seen, SeenPorts, Total, ContractVars
<1>a. TypeOK /\ HostsJoined /\ RowOrder /\ WriterBusy /\ LivePort
  BY DEF IInv
<1>m. main # "returned" /\ main' = main /\ record' = record /\ ctxDone' = ctxDone
  <2>1. a \in HostsPending
    BY DEF Host, HostCalls, Probe, UpsertHost, UpsertLivePort, ScanPorts, SkipKnown, StartTask,
           LoopsOver, AbandonTasks, JoinTasks, ClassifyHost, ReleaseHost, HostDone,
           HostsPending, Kinds
  <2>2. main' = main /\ record' = record /\ ctxDone' = ctxDone
    BY DEF Host, HostCalls, BeginCall, Probe, UpsertHost, UpsertLivePort, ScanPorts, SkipKnown,
           StartTask, AbandonTasks, JoinTasks, ReturnPorts, ClassifyHost, ReleaseHost, HostDone,
           scan, db
  <2> QED BY <2>1, <2>2, <1>a DEF HostsJoined
<1>g. HostGo(a) \in Goroutines /\ \A b \in Addr : HostGo(a) = HostGo(b) => b = a
  BY GoNames DEF Goroutines
<1>h. \A b \in Addr \ {a} : host'[b] = host[b] /\ open'[b] = open[b]
  BY <1>a DEF Host, HostCalls, BeginCall, Probe, UpsertHost, UpsertLivePort, ScanPorts, SkipKnown,
         StartTask, AbandonTasks, JoinTasks, ReturnPorts, ClassifyHost, ReleaseHost, HostDone,
         goroutine, TypeOK
(* The rows of the call stay while another stage of the host ends. *)
<1>0. CASE row' = row /\ saved' = saved /\ RowInCall' = RowInCall
  BY <1>0, <1>m
(* The live port of the host: what its call is about. *)
<1>p. ASSUME host[a] = "live"
      PROVE  \E r \in PortRows : /\ r[1] = a /\ a \in Seen /\ LiveRows(a) = {r}
                                 /\ CallOf(HostGo(a), host, open) = {r}
  <2>1. PICK p \in ProbePorts : open[a].tcp = {p}
    BY <1>p, <1>a DEF LivePort
  <2>2. <<a, "tcp", p>> \in PortRows /\ a \in Seen
    BY <1>p, <1>a DEF PortRows, Kinds, Ports, RowOrder
  <2>3. LiveRows(a) = {<<a, "tcp", p>>}
    BY <2>1 DEF LiveRows
  <2>4. CallOf(HostGo(a), host, open) = LiveRows(a)
    BY <1>p, CallOfGo DEF LiveRows
  <2> QED BY <2>2, <2>3, <2>4
<1>1. CASE HostCalls(a)
  <2>1. /\ writer = Nobody /\ writer' = HostGo(a) /\ host' = host /\ open' = open
        /\ row' = row /\ saved' = saved /\ ~ctxDone
    BY <1>1 DEF HostCalls, BeginCall, goroutine
  <2>2. RowInCall = {} /\ RowInCall' = CallOf(HostGo(a), host, open)
    BY <2>1, CallOfGo, RowInCallIs
  <2>3. CASE host[a] = "live"
    <3>1. PICK r \in PortRows : r[1] = a /\ a \in Seen /\ RowInCall' = {r}
      BY <2>2, <2>3, <1>p
    <3>2. Contract!BeginPort(r)
      BY <3>1, <2>1, <2>2, <1>m DEF Contract!BeginPort
    <3> QED BY <3>2 DEF Contract!Next
  <2>4. CASE host[a] # "live"
    <3>1. RowInCall' = {}
      BY <2>2, <2>4, CallOfGo
    <3> QED BY <3>1, <2>1, <2>2, <1>m
  <2> QED BY <2>3, <2>4
<1>2. CASE UpsertHost(a)
  <2>1. /\ saved' = saved /\ (row' = row \/ row' = [row EXCEPT ![a] = Blank])
        /\ EndCall(HostGo(a)) /\ open' = open /\ host[a] # "live"
    BY <1>2 DEF UpsertHost
  <2>2. RowInCall' = RowInCall
    BY <2>1, <1>a, <1>g, <1>h, RowInCallEnds
  <2>3. CASE row' = [row EXCEPT ![a] = Blank]
    <3>1. Seen' = Seen \cup {a}
      BY <2>3, <1>a DEF TypeOK, Blank, Absent
    <3>2. Contract!RecordHost(a)
      BY <3>1, <2>1, <2>2, <1>m DEF Contract!RecordHost
    <3> QED BY <3>2 DEF Contract!Next
  <2> QED BY <2>1, <2>2, <2>3, <1>0
<1>3. CASE UpsertLivePort(a)
  <2>1. /\ host[a] = "live" /\ row' = row /\ open' = open /\ EndCall(HostGo(a))
        /\ writer = HostGo(a) \/ saved' = saved
    BY <1>3 DEF UpsertLivePort, Writes
  <2>2. CASE writer # HostGo(a)
    <3>1. writer' = writer /\ saved' = saved
      BY <2>1, <2>2 DEF EndCall
    <3>2. RowInCall' = RowInCall
      BY <3>1, <2>2, <1>a, <1>h, RowInCallFrame
    <3> QED BY <3>1, <3>2, <2>1, <1>0
  <2>3. CASE writer = HostGo(a)
    <3>1. PICK r \in PortRows : r[1] = a /\ a \in Seen /\ RowInCall = {r} /\ LiveRows(a) = {r}
      BY <2>1, <2>3, <1>p, RowInCallIs
    <3>2. RowInCall' = {}
      BY <2>1, <2>3, CallOfGo, RowInCallIs DEF EndCall
    <3>3. SeenPorts' \in {SeenPorts, SeenPorts \cup {r}}
      <4>1. CASE saved' = saved
        BY <4>1
      <4>2. CASE saved' = [q \in PortRows |-> IF q \in {r} THEN "open" ELSE saved[q]]
        BY <4>2, <3>1 DEF Absent
      <4> QED BY <1>3, <4>1, <4>2, <3>1 DEF UpsertLivePort
    <3>4. Contract!EndPort(r)
      BY <3>1, <3>2, <3>3, <2>1, <1>m DEF Contract!EndPort
    <3> QED BY <3>4 DEF Contract!Next
  <2> QED BY <2>2, <2>3
<1>4. CASE ClassifyHost(a)
  <2>1. TypeFound(a) \in DeviceTypes \cup {Blank}
    BY <1>a, ClassifyAssumption DEF TypeOK, TypeFound
  <2>2. /\ row[a] # Absent /\ saved' = saved /\ EndCall(HostGo(a)) /\ open' = open
        /\ host[a] # "live"
        /\ row' = row \/ \E d \in DeviceTypes : row' = [row EXCEPT ![a] = d]
    BY <1>4, <2>1, <1>a DEF ClassifyHost, RowOrder
  <2>3. Seen' = Seen
    BY <2>2, <1>a, ClassifyAssumption DEF TypeOK
  <2>4. RowInCall' = RowInCall
    BY <2>2, <1>a, <1>g, <1>h, RowInCallEnds
  <2> QED BY <2>2, <2>3, <2>4, <1>m
<1>5. CASE Probe(a) \/ ReleaseHost(a) \/ HostDone(a) \/ \E k \in Kinds : ScanPorts(a, k)
  <2>1. /\ row' = row /\ saved' = saved /\ writer' = writer
        /\ host[a] \notin {"upsert", "live", "classify"}
    BY <1>5 DEF Probe, ReleaseHost, HostDone, ScanPorts, SkipKnown, StartTask, AbandonTasks,
                JoinTasks, ReturnPorts, LoopsOver, Kinds, db
  <2>2. writer # HostGo(a)
    BY <2>1, <1>a DEF WriterBusy
  <2>3. RowInCall' = RowInCall
    BY <2>1, <2>2, <1>a, <1>h, RowInCallFrame
  <2> QED BY <2>1, <2>3, <1>0
<1> QED BY <1>1, <1>2, <1>3, <1>4, <1>5 DEF Host

(* A port goroutine begins the write of its row while Scan runs, ends it   *)
(* at any time, or is invisible.                                           *)
LEMMA TaskRefines ==
    ASSUME IInv, NEW t \in Tasks, Task(t)
    PROVE  Contract!Next \/ UNCHANGED ContractVars
<1> USE DEF Seen, SeenPorts, Total, ContractVars
<1>1. /\ main' = main /\ record' = record /\ row' = row /\ ctxDone' = ctxDone
      /\ host' = host /\ open' = open /\ TypeOK
  BY DEF Task, PortCalls, BeginCall, Dial, SavePort, ReleaseTask, TaskDone, scan, goroutine, db,
         IInv
<1>2. CASE saved' = saved /\ RowInCall' = RowInCall
  BY <1>1, <1>2
<1>3. PortRow(t) \in PortRows /\ PortRow(t)[1] = t[1] /\ (task[t] # "none" => t[1] \in Seen)
  BY TaskShape, PortInPorts DEF PortRows, PortRow, Port, IInv, RowOrder
<1>4. CASE PortCalls(t)
  <2>1. writer = Nobody /\ writer' = t /\ ~ctxDone /\ saved' = saved
        /\ task[t] \in {"save", "saveclosed"}
    BY <1>4 DEF PortCalls, BeginCall
  <2>2. main # "returned"
    BY <2>1, LateTask
  <2>3. RowInCall = {} /\ RowInCall' = {PortRow(t)}
    BY <2>1, CallOfGo, RowInCallIs
  <2>4. Contract!BeginPort(PortRow(t))
    BY <1>1, <1>3, <2>1, <2>2, <2>3 DEF Contract!BeginPort
  <2> QED BY <2>4, <1>3 DEF Contract!Next
<1>5. CASE SavePort(t)
  <2>1. CASE writer # t
    <3>1. writer' = writer /\ saved' = saved
      BY <1>5, <2>1 DEF SavePort, EndCall, Writes
    <3> QED BY <3>1, <1>1, <1>2, RowInCallFrame
  <2>2. CASE writer = t
    <3>1. RowInCall = {PortRow(t)} /\ RowInCall' = {}
      BY <1>5, <2>2, CallOfGo, RowInCallIs DEF SavePort, EndCall
    <3>2. saved' = saved \/ \E s \in {"open", "closed"} : saved' = [saved EXCEPT ![PortRow(t)] = s]
      BY <1>5 DEF SavePort
    <3>3. SeenPorts' \in {SeenPorts, SeenPorts \cup {PortRow(t)}}
      BY <1>1, <1>3, <3>2 DEF TypeOK, Absent
    <3>4. Contract!EndPort(PortRow(t))
      BY <1>1, <3>1, <3>3 DEF Contract!EndPort
    <3> QED BY <3>4, <1>3 DEF Contract!Next
  <2> QED BY <2>1, <2>2
<1>6. CASE Dial(t) \/ ReleaseTask(t) \/ TaskDone(t)
  <2>1. writer' = writer /\ saved' = saved
    BY <1>6 DEF Dial, ReleaseTask, TaskDone, db
  <2> QED BY <2>1, <1>1, <1>2, RowInCallFrame
<1> QED BY <1>4, <1>5, <1>6 DEF Task

(* The two store calls of Scan itself are no calls about a port; the one   *)
(* that ends in a return finds none under way unless it was cancelled.     *)
LEMMA ScanCallEnds ==
    ASSUME TypeOK, EndCall(ScanGo), host' = host, open' = open
    PROVE  /\ RowInCall' = RowInCall
           /\ writer = ScanGo => RowInCall = {}
<1>1. ScanGo \in Goroutines /\ \A a \in Addr : ScanGo # HostGo(a)
  BY GoNames DEF Goroutines
<1>2. RowInCall' = RowInCall
  BY <1>1, RowInCallEnds
<1>3. writer = ScanGo => RowInCall = {}
  BY CallOfGo, RowInCallIs
<1> QED BY <1>2, <1>3

(* Scan implements its contract: what a caller sees is hosts and their     *)
(* ports appearing, then one return with the right count, then nothing     *)
(* but, after a cancellation, the end of the call then under way.          *)
THEOREM Refinement == Spec => ImplementsContract
<1> USE DEF Seen, SeenPorts, Total, ContractVars
<1>1. Init => Contract!Init
  <2> SUFFICES ASSUME Init PROVE Contract!Init
    OBVIOUS
  <2>1. RowInCall = {}
    BY CallOfGo, RowInCallIs DEF Init
  <2> QED BY <2>1 DEF Init, Contract!Init, Contract!Unfinished, Absent
<1>2. IInv /\ [Next]_vars => [Contract!Next]_(Contract!vars)
  <2> SUFFICES ASSUME IInv, [Next]_vars PROVE Contract!Next \/ UNCHANGED ContractVars
    BY DEF Contract!vars
  <2>t. TypeOK
    BY DEF IInv
  <2>1. CASE UNCHANGED vars
    <3>1. RowInCall' = RowInCall
      BY <2>1, <2>t, RowInCallFrame DEF vars, goroutine, db
    <3> QED BY <2>1, <3>1 DEF vars, scan, db
  <2>2. CASE LoopHead \/ Spawn \/ WaitHosts
    <3>1. writer' = writer /\ open' = open /\ \A a \in Addr : host[a] # "none" => host'[a] = host[a]
      <4>1. main = "send" => next \in Addr /\ host[next] = "none"
        BY <2>t DEF IInv, SpawnOrder, TypeOK, Addr
      <4>2. CASE Spawn
        BY <4>1, <4>2, <2>t DEF Spawn, db, TypeOK
      <4>3. CASE LoopHead \/ WaitHosts
        BY <4>3 DEF LoopHead, WaitHosts, goroutine, db
      <4> QED BY <2>2, <4>2, <4>3
    <3>2. RowInCall' = RowInCall
      BY <3>1, <2>t, RowInCallFrame DEF IInv, WriterBusy
    <3> QED BY <2>2, <3>2 DEF LoopHead, Spawn, WaitHosts, scan, db
  <2>3. CASE Cancel
    <3>1. RowInCall' = RowInCall
      BY <2>3, <2>t, RowInCallFrame DEF Cancel, goroutine, db
    <3>2. Contract!Cancel
      BY <2>3, <3>1 DEF Cancel, scan, db, Contract!Cancel
    <3> QED BY <3>2 DEF Contract!Next
  <2>4. CASE ScanCalls
    <3>1. RowInCall = {} /\ RowInCall' = {}
      BY <2>4, CallOfGo, RowInCallIs DEF ScanCalls, BeginCall
    <3> QED BY <2>4, <3>1 DEF ScanCalls, BeginCall, scan
  <2>5. CASE CreateRecord
    <3>1. /\ main = "create" /\ row' = row /\ saved' = saved /\ ctxDone' = ctxDone
          /\ EndCall(ScanGo) /\ host' = host /\ open' = open
          /\ main' = "check" \/ (main' = "returned" /\ (ctxDone \/ writer = ScanGo))
      BY <2>5 DEF CreateRecord, Fails, goroutine
    <3>2. Total' = -1 /\ Total = -1
      BY <2>5, <3>1 DEF CreateRecord, IInv, HostsJoined, Absent
    <3>3. RowInCall' = RowInCall /\ (writer = ScanGo => RowInCall = {})
      BY <3>1, <2>t, ScanCallEnds
    <3>4. CASE main' = "check"
      BY <3>1, <3>2, <3>3, <3>4
    <3>5. CASE main' = "returned"
      <4>1. Contract!Return
        BY <3>1, <3>2, <3>3, <3>5 DEF Contract!Return, Contract!Unfinished
      <4> QED BY <4>1 DEF Contract!Next
    <3> QED BY <3>1, <3>4, <3>5
  <2>6. CASE FinishRecord
    <3>1. /\ main = "finish" /\ main' = "returned" /\ row' = row /\ saved' = saved
          /\ ctxDone' = ctxDone /\ EndCall(ScanGo) /\ host' = host /\ open' = open
          /\ ctxDone \/ writer = ScanGo
      BY <2>6 DEF FinishRecord, Writes, Fails, goroutine
    <3>2. Total' = -1 \/ Total' = Cardinality(Seen)
      <4>1. HostsPending = {} /\ record.state # "finished"
        BY <3>1 DEF IInv, HostsJoined, CountRight
      <4>2. Counted = Seen
        BY <4>1 DEF IInv, TypeOK, HostPC, HostsPending, RowOrder, Counted
      <4>3. writer = ScanGo => count = Cardinality(Seen)
        BY <3>1, <4>2 DEF IInv, CountRight, Finishing
      <4> HIDE DEF Seen
      <4> QED BY <2>6, <4>1, <4>3 DEF FinishRecord, Writes
    <3>3. RowInCall' = RowInCall /\ (writer = ScanGo => RowInCall = {})
      BY <3>1, <2>t, ScanCallEnds
    <3>4. Contract!Return
      BY <3>1, <3>2, <3>3 DEF Contract!Return, Contract!Unfinished
    <3> QED BY <3>4 DEF Contract!Next
  <2>7. ASSUME NEW a \in Addr, Host(a) PROVE Contract!Next \/ UNCHANGED ContractVars
    BY <2>7, HostRefines
  <2>8. ASSUME NEW t \in Tasks, Task(t) PROVE Contract!Next \/ UNCHANGED ContractVars
    BY <2>8, TaskRefines
  <2> QED BY <2>1, <2>2, <2>3, <2>4, <2>5, <2>6, <2>7, <2>8 DEF Next, Main
<1> QED BY <1>1, <1>2, Invariance, PTL DEF Spec, ImplementsContract, Contract!Spec
=============================================================================
