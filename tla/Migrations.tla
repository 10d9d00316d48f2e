----------------------------- MODULE Migrations -----------------------------
(***************************************************************************)
(* Agents that boot against one SQLite file and each bring its schema up   *)
(* to date (Run of internal/sqlite/migrations/migrate.go): the set of      *)
(* applied versions is read once, outside any transaction, and read again  *)
(* under the write lock before each version that seems to be missing.      *)
(*                                                                         *)
(* SQLite is modelled from what the code asks of it: one write lock, taken *)
(* by BEGIN IMMEDIATE or refused after the busy timeout, and a transaction *)
(* that is seen by nobody until it is committed and is gone after a crash. *)
(***************************************************************************)
EXTENDS Integers

CONSTANTS
    Agents,      \* processes that open the file
    None,        \* no agent
    Versions,    \* number of migrations there are
    Embedded,    \* [Agents -> migrations embedded in the binary of each]
    MaxCrashes   \* bound on crashes and failed statements

ASSUME VersionsAssumption == Versions \in Nat /\ MaxCrashes \in Nat
ASSUME NoneAssumption == None \notin Agents
ASSUME EmbeddedAssumption == Embedded \in [Agents -> 0..Versions]

VARIABLES
    db,        \* committed state: how often each file ran, versions recorded
    lock,      \* the agent whose transaction holds the write lock, or None
    tx,        \* the database as that transaction sees it
    pc,        \* where Run of each agent is
    applied,   \* the map it read at the beginning
    at,        \* the migration its loop is at
    crashes    \* crashes and failed statements so far

vars == <<db, lock, tx, pc, applied, at, crashes>>

Version == 1..Versions
Empty == [ran |-> [v \in Version |-> 0], recorded |-> {}]

Places == {"query", "next", "begin", "recheck", "apply", "record", "commit",
           "ready", "failed", "dead"}
InTx == {"recheck", "apply", "record", "commit"}

-----------------------------------------------------------------------------
(* A file that is new, or one an older binary has brought some of the way. *)
Init ==
    /\ \E k \in 0..Versions :
          db = [ran |-> [v \in Version |-> IF v <= k THEN 1 ELSE 0], recorded |-> 1..k]
    /\ lock = None /\ tx = Empty
    /\ pc = [a \in Agents |-> "query"]
    /\ applied = [a \in Agents |-> {}]
    /\ at = [a \in Agents |-> 1]
    /\ crashes = 0

Goto(a, place) == pc' = [pc EXCEPT ![a] = place]

(* CREATE TABLE IF NOT EXISTS and the query of applied versions.           *)
Query(a) ==
    /\ pc[a] = "query"
    /\ applied' = [applied EXCEPT ![a] = db.recorded]
    /\ at' = [at EXCEPT ![a] = 1]
    /\ Goto(a, "next")
    /\ UNCHANGED <<db, lock, tx, crashes>>

(* The head of the loop over the embedded files, in order of their names.  *)
NextFile(a) ==
    /\ pc[a] = "next"
    /\ \/ at[a] > Embedded[a] /\ Goto(a, "ready") /\ UNCHANGED at
       \/ /\ at[a] <= Embedded[a] /\ at[a] \in applied[a]
          /\ at' = [at EXCEPT ![a] = @ + 1]
          /\ UNCHANGED pc
       \/ at[a] <= Embedded[a] /\ at[a] \notin applied[a] /\ Goto(a, "begin") /\ UNCHANGED at
    /\ UNCHANGED <<db, lock, tx, applied, crashes>>

BeginDeferred(a) ==      \* mutant: BEGIN without IMMEDIATE
    /\ pc[a] = "begin"
    /\ lock' = a
    /\ tx' = db
    /\ Goto(a, "recheck")
    /\ UNCHANGED <<db, applied, at, crashes>>

BeginImmediate(a) ==
    /\ pc[a] = "begin"
    /\ lock = None
    /\ lock' = a
    /\ tx' = db
    /\ Goto(a, "recheck")
    /\ UNCHANGED <<db, applied, at, crashes>>

(* The write lock was not free within the busy timeout: Run fails.         *)
Busy(a) ==
    /\ pc[a] = "begin"
    /\ lock # None
    /\ Goto(a, "failed")
    /\ UNCHANGED <<db, lock, tx, applied, at, crashes>>

(* The recheck: has a peer recorded this version while we waited?          *)
Already(a) == at[a] \in tx.recorded

Recheck(a) ==
    /\ pc[a] = "recheck"
    /\ \/ Already(a) /\ lock' = None /\ at' = [at EXCEPT ![a] = @ + 1] /\ Goto(a, "next")
       \/ ~Already(a) /\ Goto(a, "apply") /\ UNCHANGED <<lock, at>>
    /\ UNCHANGED <<db, tx, applied, crashes>>

Apply(a) ==
    /\ pc[a] = "apply"
    /\ tx' = [tx EXCEPT !.ran[at[a]] = @ + 1]
    /\ Goto(a, "record")
    /\ UNCHANGED <<db, lock, applied, at, crashes>>

(* version is the primary key; the recheck has seen that it is not there.  *)
Record(a) ==
    /\ pc[a] = "record"
    /\ at[a] \notin tx.recorded
    /\ tx' = [tx EXCEPT !.recorded = @ \cup {at[a]}]
    /\ Goto(a, "commit")
    /\ UNCHANGED <<db, lock, applied, at, crashes>>

Commit(a) ==
    /\ pc[a] = "commit"
    /\ db' = tx
    /\ lock' = None
    /\ at' = [at EXCEPT ![a] = @ + 1]
    /\ Goto(a, "next")
    /\ UNCHANGED <<tx, applied, crashes>>

FailLeavesOpen(a) ==     \* mutant: an error path without a rollback
    /\ pc[a] \in InTx
    /\ crashes < MaxCrashes
    /\ crashes' = crashes + 1
    /\ Goto(a, "failed")
    /\ UNCHANGED <<db, lock, tx, applied, at>>

(* A statement of the transaction fails: rollback, and Run returns.        *)
Fail(a) ==
    /\ pc[a] \in InTx
    /\ crashes < MaxCrashes
    /\ crashes' = crashes + 1
    /\ lock' = None
    /\ Goto(a, "failed")
    /\ UNCHANGED <<db, tx, applied, at>>

(* The process dies; SQLite drops what it had not committed.               *)
Crash(a) ==
    /\ pc[a] \notin {"failed", "dead"}
    /\ crashes < MaxCrashes
    /\ crashes' = crashes + 1
    /\ lock' = IF lock = a THEN None ELSE lock
    /\ Goto(a, "dead")
    /\ UNCHANGED <<db, tx, applied, at>>

(* The supervisor starts the process again.                                *)
Restart(a) ==
    /\ pc[a] \in {"failed", "dead"}
    /\ Goto(a, "query")
    /\ UNCHANGED <<db, lock, tx, applied, at, crashes>>

Run(a) == \/ Query(a) \/ NextFile(a) \/ BeginImmediate(a) \/ Recheck(a)
          \/ Apply(a) \/ Record(a) \/ Commit(a) \/ Restart(a)

Next == \E a \in Agents : Run(a) \/ Busy(a) \/ Fail(a) \/ Crash(a)

Spec == Init /\ [][Next]_vars

(* Each process is scheduled, and SQLite's busy handler, which polls for   *)
(* the lock, gets it in the end if it is free again and again.             *)
Fairness == \A a \in Agents : WF_vars(Run(a)) /\ SF_vars(BeginImmediate(a))

FairSpec == Spec /\ Fairness

-----------------------------------------------------------------------------
(* Type invariant; a transaction is open exactly while its agent is in it. *)
TypeOK ==
    /\ db \in [ran : [Version -> Nat], recorded : SUBSET Version]
    /\ tx \in [ran : [Version -> Nat], recorded : SUBSET Version]
    /\ lock \in Agents \cup {None}
    /\ pc \in [Agents -> Places]
    /\ applied \in [Agents -> SUBSET Version]
    /\ at \in [Agents -> 1..(Versions + 1)]
    /\ crashes \in 0..MaxCrashes
    /\ \A a \in Agents : pc[a] \in InTx <=> lock = a

(* Each migration has run exactly once if it is recorded and never if it   *)
(* is not, however many agents boot at once and wherever they fail.        *)
RanOnce == \A v \in Version : db.ran[v] = IF v \in db.recorded THEN 1 ELSE 0

(* A migration is only recorded on top of all those before it, also when   *)
(* an old binary and a new one share the file.                             *)
InOrder == \A v \in db.recorded : 1..v \subseteq db.recorded

(* An agent that has booted finds every table its binary knows of.         *)
ReadyIsMigrated == \A a \in Agents : pc[a] = "ready" => 1..Embedded[a] \subseteq db.recorded

(* Every agent boots in the end: the lock is never left behind.            *)
Boots == \A a \in Agents : <>[](pc[a] = "ready")
=============================================================================
