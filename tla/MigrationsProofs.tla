-------------------------- MODULE MigrationsProofs --------------------------
(***************************************************************************)
(* Proofs about Migrations, for any number of agents and migrations, any   *)
(* mix of binaries and any crashes.  The inductive invariant adds to the   *)
(* properties what an agent in its transaction sees (Sees) and what each   *)
(* agent knows of the migrations behind it (Passed): both survive the      *)
(* commit of another agent because only the holder of the lock commits,    *)
(* and because rows of schema_migrations are only added.                   *)
(***************************************************************************)
EXTENDS Migrations, TLAPS

(* The transaction of an agent differs from the committed database by what *)
(* its own migration has done so far.                                      *)
Sees ==
    \A a \in Agents :
        /\ pc[a] \in {"recheck", "apply"} => tx = db
        /\ pc[a] \in {"apply", "record", "commit"} => at[a] \notin db.recorded
        /\ pc[a] \in {"record", "commit"} => tx.ran = [db.ran EXCEPT ![at[a]] = @ + 1]
        /\ pc[a] = "record" => tx.recorded = db.recorded
        /\ pc[a] = "commit" => tx.recorded = db.recorded \cup {at[a]}

(* What an agent has read or gone past is recorded.                        *)
Passed ==
    \A a \in Agents :
        /\ applied[a] \subseteq db.recorded
        /\ pc[a] \in {"next", "begin", "ready"} \cup InTx => 1..(at[a] - 1) \subseteq db.recorded
        /\ pc[a] \in {"begin"} \cup InTx => at[a] <= Embedded[a]
        /\ pc[a] = "ready" => at[a] > Embedded[a]

IInv == TypeOK /\ RanOnce /\ InOrder /\ Sees /\ Passed

(* A fresh or partly migrated file satisfies the invariant.                *)
LEMMA InitIInv == Init => IInv
<1> SUFFICES ASSUME Init PROVE IInv
  OBVIOUS
<1> USE VersionsAssumption, NoneAssumption, EmbeddedAssumption
<1>1. PICK k \in 0..Versions :
        db = [ran |-> [v \in Version |-> IF v <= k THEN 1 ELSE 0], recorded |-> 1..k]
  BY DEF Init
<1>2. TypeOK
  BY <1>1 DEF Init, TypeOK, Version, Empty, Places, InTx
<1>3. RanOnce
  BY <1>1 DEF RanOnce, Version
<1>4. InOrder
  BY <1>1 DEF InOrder
<1>5. Sees
  BY DEF Init, Sees
<1>6. Passed
  BY DEF Init, Passed, InTx
<1> QED
  BY <1>2, <1>3, <1>4, <1>5, <1>6 DEF IInv

(* No step breaks the type invariant.                                      *)
LEMMA Typing == TypeOK /\ Passed /\ [Next]_vars => TypeOK'
<1> SUFFICES ASSUME TypeOK, Passed, [Next]_vars PROVE TypeOK'
  OBVIOUS
<1> USE VersionsAssumption, NoneAssumption, EmbeddedAssumption DEF TypeOK, Places, InTx, Goto
<1>1. CASE UNCHANGED vars
  BY <1>1 DEF vars
<1>2. ASSUME NEW a \in Agents, Run(a) \/ Busy(a) \/ Fail(a) \/ Crash(a) PROVE TypeOK'
  <2>0. at[a] \in Nat /\ Embedded[a] \in 0..Versions
    OBVIOUS
  <2>1. CASE Query(a)
    BY <2>1 DEF Query, Version
  <2>2. CASE NextFile(a)
    BY <2>0, <2>2 DEF NextFile
  <2>3. CASE BeginImmediate(a)
    BY <2>3 DEF BeginImmediate
  <2>4. CASE Recheck(a)
    BY <2>0, <2>4 DEF Recheck, Passed
  <2>5. CASE Apply(a)
    <3>1. at[a] \in Version
      BY <2>0, <2>5 DEF Apply, Passed, Version
    <3>2. tx' \in [ran : [Version -> Nat], recorded : SUBSET Version]
      BY <3>1, <2>5 DEF Apply
    <3> QED
      BY <3>2, <2>5 DEF Apply
  <2>6. CASE Record(a)
    <3>1. at[a] \in Version
      BY <2>0, <2>6 DEF Record, Passed, Version
    <3>2. tx' \in [ran : [Version -> Nat], recorded : SUBSET Version]
      BY <3>1, <2>6 DEF Record
    <3> QED
      BY <3>2, <2>6 DEF Record
  <2>7. CASE Commit(a)
    BY <2>0, <2>7 DEF Commit, Passed
  <2>8. CASE Restart(a)
    BY <2>8 DEF Restart
  <2>9. CASE Busy(a)
    BY <2>9 DEF Busy
  <2>10. CASE Fail(a)
    BY <2>10 DEF Fail
  <2>11. CASE Crash(a)
    BY <2>11 DEF Crash
  <2> QED
    BY <1>2, <2>1, <2>2, <2>3, <2>4, <2>5, <2>6, <2>7, <2>8, <2>9, <2>10, <2>11 DEF Run
<1> QED
  BY <1>1, <1>2 DEF Next

(* A commit takes the database from one ordered state to the next.         *)
LEMMA CommitStep ==
    ASSUME IInv, NEW a \in Agents, Commit(a)
    PROVE  /\ at[a] \in Version
           /\ db'.recorded = db.recorded \cup {at[a]}
           /\ RanOnce' /\ InOrder'
<1> USE VersionsAssumption, EmbeddedAssumption DEF IInv, TypeOK, InTx
<1>1. pc[a] = "commit" /\ at[a] \in 1..(Versions + 1) /\ at[a] <= Embedded[a]
      /\ Embedded[a] \in 0..Versions
  BY DEF Commit, Passed
<1>2. at[a] \in Version
  BY <1>1 DEF Version
<1>3. db'.recorded = db.recorded \cup {at[a]} /\ db'.ran = [db.ran EXCEPT ![at[a]] = @ + 1]
      /\ at[a] \notin db.recorded
  BY <1>1 DEF Commit, Sees
<1>4. RanOnce'
  BY <1>2, <1>3 DEF RanOnce
<1>5. 1..(at[a] - 1) \subseteq db.recorded
  BY <1>1 DEF Passed
<1>6. 1..at[a] \subseteq db.recorded \cup {at[a]}
  BY <1>2, <1>5 DEF Version
<1>7. InOrder'
  BY <1>3, <1>6 DEF InOrder
<1> QED
  BY <1>2, <1>3, <1>4, <1>7

(* Recorded versions are never lost.                                       *)
LEMMA Grows == IInv /\ [Next]_vars => db.recorded \subseteq db'.recorded
<1> SUFFICES ASSUME IInv, [Next]_vars PROVE db.recorded \subseteq db'.recorded
  OBVIOUS
<1>1. ASSUME NEW a \in Agents, Commit(a) PROVE db.recorded \subseteq db'.recorded
  BY <1>1, CommitStep
<1>2. CASE \A a \in Agents : ~Commit(a)
  <2>1. db' = db
    BY <1>2 DEF Next, Run, vars, Query, NextFile, BeginImmediate, Recheck, Apply, Record,
                Restart, Busy, Fail, Crash
  <2> QED
    BY <2>1
<1> QED
  BY <1>1, <1>2

(* Each agent keeps what it knows of the migrations behind it.             *)
LEMMA PassedStep == IInv /\ [Next]_vars => Passed'
<1> SUFFICES ASSUME IInv, [Next]_vars PROVE Passed'
  OBVIOUS
<1> USE VersionsAssumption, EmbeddedAssumption DEF IInv, TypeOK, InTx, Goto
<1>1. db.recorded \subseteq db'.recorded
  BY Grows
<1>2. CASE UNCHANGED vars
  BY <1>2 DEF vars, Passed
<1>3. ASSUME NEW a \in Agents, Run(a) \/ Busy(a) \/ Fail(a) \/ Crash(a) PROVE Passed'
  <2>0. /\ at[a] \in Nat /\ at[a] >= 1 /\ Embedded[a] \in Nat
        /\ \A b \in Agents \ {a} : pc'[b] = pc[b] /\ at'[b] = at[b] /\ applied'[b] = applied[b]
    BY <1>3 DEF Run, Query, NextFile, BeginImmediate, Recheck, Apply, Record, Commit,
                Restart, Busy, Fail, Crash
  <2>1. ASSUME NEW b \in Agents \ {a}
        PROVE  /\ applied'[b] \subseteq db'.recorded
               /\ pc'[b] \in {"next", "begin", "ready"} \cup InTx
                    => 1..(at'[b] - 1) \subseteq db'.recorded
               /\ pc'[b] \in {"begin"} \cup InTx => at'[b] <= Embedded[b]
               /\ pc'[b] = "ready" => at'[b] > Embedded[b]
    BY <1>1, <2>0, <2>1 DEF Passed
  <2>2. /\ applied'[a] \subseteq db'.recorded
        /\ pc'[a] \in {"next", "begin", "ready"} \cup InTx
             => 1..(at'[a] - 1) \subseteq db'.recorded
        /\ pc'[a] \in {"begin"} \cup InTx => at'[a] <= Embedded[a]
        /\ pc'[a] = "ready" => at'[a] > Embedded[a]
    <3>1. CASE Query(a)
      BY <3>1 DEF Query
    <3>2. CASE NextFile(a)
      <4>1. pc[a] = "next" /\ 1..(at[a] - 1) \subseteq db.recorded /\ applied[a] \subseteq db.recorded
        BY <3>2 DEF NextFile, Passed
      <4>2. at[a] \in applied[a] => 1..at[a] \subseteq db.recorded
        BY <4>1, <2>0
      <4> QED
        BY <4>1, <4>2, <2>0, <3>2 DEF NextFile
    <3>3. CASE BeginImmediate(a)
      BY <3>3, <1>1 DEF BeginImmediate, Passed
    <3>4. CASE Recheck(a)
      <4>1. pc[a] = "recheck" /\ 1..(at[a] - 1) \subseteq db.recorded
            /\ applied[a] \subseteq db.recorded /\ tx = db /\ at[a] <= Embedded[a]
        BY <3>4 DEF Recheck, Passed, Sees
      <4>2. at[a] \in tx.recorded => 1..at[a] \subseteq db.recorded
        BY <4>1, <2>0
      <4> QED
        BY <4>1, <4>2, <2>0, <3>4 DEF Recheck, Already
    <3>5. CASE Apply(a)
      BY <3>5 DEF Apply, Passed
    <3>6. CASE Record(a)
      BY <3>6 DEF Record, Passed
    <3>7. CASE Commit(a)
      <4>1. pc[a] = "commit" /\ 1..(at[a] - 1) \subseteq db.recorded
            /\ applied[a] \subseteq db.recorded
        BY <3>7 DEF Commit, Passed
      <4>2. db'.recorded = db.recorded \cup {at[a]}
        BY <3>7, CommitStep
      <4>3. 1..at[a] \subseteq db'.recorded
        BY <4>1, <4>2, <2>0
      <4> QED
        BY <4>1, <4>2, <4>3, <2>0, <3>7 DEF Commit
    <3>8. CASE Restart(a)
      BY <3>8 DEF Restart, Passed
    <3>9. CASE Busy(a)
      BY <3>9 DEF Busy, Passed
    <3>10. CASE Fail(a)
      BY <3>10 DEF Fail, Passed
    <3>11. CASE Crash(a)
      BY <3>11 DEF Crash, Passed
    <3> QED
      BY <1>3, <3>1, <3>2, <3>3, <3>4, <3>5, <3>6, <3>7, <3>8, <3>9, <3>10, <3>11 DEF Run
  <2> QED
    BY <2>1, <2>2 DEF Passed
<1> QED
  BY <1>2, <1>3 DEF Next

(* What the holder of the lock sees stays what it has done.                *)
LEMMA SeesStep == IInv /\ [Next]_vars => Sees'
<1> SUFFICES ASSUME IInv, [Next]_vars PROVE Sees'
  OBVIOUS
<1> USE VersionsAssumption, EmbeddedAssumption, NoneAssumption DEF IInv, TypeOK, InTx, Goto
<1>1. CASE UNCHANGED vars
  BY <1>1 DEF vars, Sees
<1>2. ASSUME NEW a \in Agents, Run(a) \/ Busy(a) \/ Fail(a) \/ Crash(a) PROVE Sees'
  <2>1. CASE Query(a)
    BY <2>1 DEF Query, Sees
  <2>2. CASE NextFile(a)
    BY <2>2 DEF NextFile, Sees
  <2>3. CASE BeginImmediate(a)
    BY <2>3 DEF BeginImmediate, Sees
  <2>4. CASE Recheck(a)
    BY <2>4 DEF Recheck, Already, Sees
  <2>5. CASE Apply(a)
    BY <2>5 DEF Apply, Sees
  <2>6. CASE Record(a)
    BY <2>6 DEF Record, Sees
  <2>7. CASE Commit(a)
    BY <2>7 DEF Commit, Sees
  <2>8. CASE Restart(a)
    BY <2>8 DEF Restart, Sees
  <2>9. CASE Busy(a)
    BY <2>9 DEF Busy, Sees
  <2>10. CASE Fail(a)
    BY <2>10 DEF Fail, Sees
  <2>11. CASE Crash(a)
    BY <2>11 DEF Crash, Sees
  <2> QED
    BY <1>2, <2>1, <2>2, <2>3, <2>4, <2>5, <2>6, <2>7, <2>8, <2>9, <2>10, <2>11 DEF Run
<1> QED
  BY <1>1, <1>2 DEF Next

(* The invariant is inductive.                                             *)
THEOREM Invariance == Spec => []IInv
<1>1. Init => IInv
  BY InitIInv
<1>2. IInv /\ [Next]_vars => IInv'
  <2> SUFFICES ASSUME IInv, [Next]_vars PROVE IInv'
    OBVIOUS
  <2>1. TypeOK'
    BY Typing DEF IInv
  <2>2. Sees' /\ Passed'
    BY SeesStep, PassedStep
  <2>3. RanOnce' /\ InOrder'
    <3>1. ASSUME NEW a \in Agents, Commit(a) PROVE RanOnce' /\ InOrder'
      BY <3>1, CommitStep
    <3>2. CASE \A a \in Agents : ~Commit(a)
      <4>1. db' = db
        BY <3>2 DEF Next, Run, vars, Query, NextFile, BeginImmediate, Recheck, Apply, Record,
                    Restart, Busy, Fail, Crash
      <4> QED
        BY <4>1 DEF IInv, RanOnce, InOrder
    <3> QED
      BY <3>1, <3>2
  <2> QED
    BY <2>1, <2>2, <2>3 DEF IInv
<1> QED
  BY <1>1, <1>2, PTL DEF Spec

(* A migration runs once, whoever boots at the same time (migrate.go's     *)
(* recheck under BEGIN IMMEDIATE).                                         *)
THEOREM RunsOnce == Spec => []RanOnce
<1>1. IInv => RanOnce
  BY DEF IInv
<1> QED
  BY <1>1, Invariance, PTL

(* Migrations are recorded in the order of their names.                    *)
THEOREM Ordered == Spec => []InOrder
<1>1. IInv => InOrder
  BY DEF IInv
<1> QED
  BY <1>1, Invariance, PTL

(* Open returns a database with all the tables its binary knows of.        *)
THEOREM Migrated == Spec => []ReadyIsMigrated
<1>1. IInv => ReadyIsMigrated
  BY VersionsAssumption, EmbeddedAssumption DEF IInv, TypeOK, Passed, ReadyIsMigrated
<1> QED
  BY <1>1, Invariance, PTL

(* The write lock is held exactly by the agent inside a transaction.       *)
THEOREM TypeCorrect == Spec => []TypeOK
<1>1. IInv => TypeOK
  BY DEF IInv
<1> QED
  BY <1>1, Invariance, PTL
=============================================================================
