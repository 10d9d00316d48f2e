------------------------------- MODULE Runtime -------------------------------
(***************************************************************************)
(* The life of one agent process (runtime.Run of cmd/internal/runtime):    *)
(* what is opened in which order, what an error on the way leaves behind,  *)
(* and the shutdown, in which the health server, the admin server and the  *)
(* tracer share one deadline while handlers are still at work on the       *)
(* database and the goroutines of module Alerts at their sinks.  The scan  *)
(* loop itself is module Agent: here it emits events until it returns.     *)
(***************************************************************************)
EXTENDS Alerts

CONSTANTS
    Handlers,       \* requests in flight at once, a bound
    Grace,          \* time units of shutdownCtx, 5 s
    WithWatchdog    \* Options.WithWatchdog and a peer address

ASSUME GraceAssumption == Grace \in Nat
ASSUME WatchdogAssumption == WithWatchdog \in BOOLEAN

VARIABLES
    pc,         \* where Run is
    db,         \* "closed", "open"
    listening,  \* servers that accept connections
    left,       \* time left of shutdownCtx
    serving,    \* serving[h]: the server whose handler h runs, or "none"
    broken,     \* handlers that found the database closed
    started     \* start-up has come to a.Run

process == <<pc, db, listening, left, serving, broken, started>>
vars == <<alerting, process>>

Servers == {"health", "admin"}
Boot == {"opendb", "health", "agent", "admin", "signals", "watchdog"}
Stop == {"stophealth", "stopadmin", "stoptrace", "stopsinks"}
Ended == {"exited", "killed"}

Stopping(server) == IF server = "health" THEN "stophealth" ELSE "stopadmin"

InFlight(server) == {h \in Handlers : serving[h] = server}

Init ==
    /\ AlertsInit
    /\ pc = "opendb" /\ db = "closed" /\ listening = {} /\ left = Grace
    /\ serving = [h \in Handlers |-> "none"] /\ broken = {}
    /\ started = FALSE

Goto(place) == pc' = place

-----------------------------------------------------------------------------
(* Start-up. An error returns 1, through the deferred db.Close if the      *)
(* database is open; NewServer and buildPeerClient can fail like Start.    *)
OpenDB ==
    /\ pc = "opendb"
    /\ \/ db' = "open" /\ Goto("health")
       \/ db' = db /\ Goto("exit")
    /\ UNCHANGED <<alerting, listening, left, serving, broken, started>>

StartServer(server, then) ==
    /\ pc = server
    /\ \/ listening' = listening \cup {server} /\ Goto(then)
       \/ UNCHANGED listening /\ Goto("closedb")
    /\ UNCHANGED <<alerting, db, left, serving, broken, started>>

(* buildAlertSinks and agent.New.                                          *)
NewAgent ==
    /\ pc = "agent"
    /\ OpenSinks
    /\ Goto("admin") \/ Goto("closedb")
    /\ UNCHANGED <<db, listening, left, serving, broken, started>>

(* signal.NotifyContext: from here a signal cancels the context.           *)
Notify ==
    /\ pc = "signals"
    /\ Goto("watchdog")
    /\ UNCHANGED <<alerting, db, listening, left, serving, broken, started>>

StartWatchdog ==
    /\ pc = "watchdog"
    /\ \/ started' = TRUE /\ Goto("run")
       \/ WithWatchdog /\ UNCHANGED started /\ Goto("closedb")
    /\ UNCHANGED <<alerting, db, listening, left, serving, broken>>

(* Before NotifyContext a signal has its default effect: the process dies. *)
Signal ==
    /\ ~ctxDone /\ pc \notin Ended
    /\ ctxDone' = TRUE
    /\ IF pc \in Boot \ {"watchdog"}
       THEN /\ Goto("killed") /\ db' = "closed" /\ listening' = {} /\ main' = "exited"
            /\ serving' = [h \in Handlers |-> "none"]
       ELSE UNCHANGED <<main, pc, db, listening, serving>>
    /\ UNCHANGED <<next, webhook, syslog, left, broken, started>>

-----------------------------------------------------------------------------
(* a.Run: a cycle emits the events of its changes, also one that is under  *)
(* way when the context is cancelled; Run returns between cycles.          *)
EmitEvent == pc = "run" /\ Emit /\ UNCHANGED process

RunAgent ==
    /\ pc = "run"
    /\ ctxDone
    /\ Goto("stophealth")
    /\ UNCHANGED <<alerting, db, listening, left, serving, broken, started>>

(* A connection is accepted, and its handler runs.                         *)
Accept(h, server) ==
    /\ serving[h] = "none" /\ server \in listening
    /\ serving' = [serving EXCEPT ![h] = server]
    /\ UNCHANGED <<alerting, pc, db, listening, left, broken, started>>

(* A query of an admin handler (several in one request).                   *)
Query(h) ==
    /\ serving[h] = "admin" /\ pc \notin Ended
    /\ broken' = IF db = "closed" THEN broken \cup {h} ELSE broken
    /\ UNCHANGED <<alerting, pc, db, listening, left, serving, started>>

Answer(h) ==
    /\ serving[h] # "none" /\ pc \notin Ended
    /\ serving' = [serving EXCEPT ![h] = "none"]
    /\ UNCHANGED <<alerting, pc, db, listening, left, broken, started>>

-----------------------------------------------------------------------------
ShutDownAtOnce(server, then) ==     \* mutant: Close instead of Shutdown
    /\ pc = Stopping(server)
    /\ listening' = listening \ {server}
    /\ Goto(then)
    /\ UNCHANGED <<alerting, db, left, serving, broken, started>>

ShutDownWaits(server, then) ==      \* mutant: a context without a deadline
    /\ pc = Stopping(server)
    /\ listening' = listening \ {server}
    /\ IF InFlight(server) = {} THEN Goto(then) ELSE UNCHANGED pc
    /\ UNCHANGED <<alerting, db, left, serving, broken, started>>

(* http.Server.Shutdown(shutdownCtx): no more connections, then wait until *)
(* the handlers have answered or the deadline has passed.                  *)
ShutDown(server, then) ==
    /\ pc = Stopping(server)
    /\ listening' = listening \ {server}
    /\ IF InFlight(server) = {} \/ left = 0 THEN Goto(then) ELSE UNCHANGED pc
    /\ UNCHANGED <<alerting, db, left, serving, broken, started>>

(* Time passes; the deadline runs from the first Shutdown to the last.     *)
ClockTicks ==
    /\ pc \in Stop /\ left > 0
    /\ left' = left - 1
    /\ UNCHANGED <<alerting, pc, db, listening, serving, broken, started>>

(* traceShutdown, bounded by the same context; then mux.Close.             *)
StopTracer ==
    /\ pc = "stoptrace"
    /\ StartClose
    /\ Goto("stopsinks")
    /\ UNCHANGED <<db, listening, left, serving, broken, started>>

StopSinks ==
    /\ pc = "stopsinks"
    /\ \/ (CloseLock \/ CloseConn) /\ UNCHANGED pc
       \/ main = "closed" /\ Goto("closedb") /\ UNCHANGED alerting
    /\ UNCHANGED <<db, listening, left, serving, broken, started>>

(* The deferred functions, and the exit that ends every goroutine.         *)
CloseDB ==
    /\ pc = "closedb"
    /\ db' = "closed"
    /\ Goto("exit")
    /\ UNCHANGED <<alerting, listening, left, serving, broken, started>>

Exit ==
    /\ pc = "exit"
    /\ Goto("exited")
    /\ main' = "exited"
    /\ listening' = {}
    /\ serving' = [h \in Handlers |-> "none"]
    /\ UNCHANGED <<ctxDone, next, webhook, syslog, db, left, broken, started>>

Run ==
    \/ OpenDB \/ StartServer("health", "agent") \/ NewAgent \/ StartServer("admin", "signals")
    \/ Notify \/ StartWatchdog \/ RunAgent
    \/ ShutDown("health", "stopadmin") \/ ShutDown("admin", "stoptrace")
    \/ StopTracer \/ StopSinks \/ CloseDB \/ Exit

Next ==
    \/ Run \/ EmitEvent \/ Signal \/ ClockTicks
    \/ Deliver /\ UNCHANGED process
    \/ \E h \in Handlers : Query(h) \/ Answer(h) \/ \E server \in Servers : Accept(h, server)

Spec == Init /\ [][Next]_vars

(* Run is scheduled, its scan cycle ends (module Agent), and time passes.  *)
Fairness == WF_vars(Run) /\ WF_vars(ClockTicks) /\ DeliveryFairness

FairSpec == Spec /\ Fairness

-----------------------------------------------------------------------------
(* Type invariant; the main goroutine is in Close when Run has come there. *)
TypeOK ==
    /\ AlertsTypeOK
    /\ pc \in Boot \cup Stop \cup {"run", "closedb", "exit"} \cup Ended
    /\ db \in {"closed", "open"}
    /\ listening \subseteq Servers
    /\ left \in 0..Grace
    /\ serving \in [Handlers -> Servers \cup {"none"}]
    /\ broken \subseteq Handlers
    /\ started \in BOOLEAN
    /\ pc \in Ended <=> main = "exited"
    /\ pc \in Ended => db = "closed" /\ listening = {}

(* A request accepted by a process that is shutting down finds the         *)
(* database open until it has answered, unless the grace period is over or *)
(* start-up failed while the servers were up already.                      *)
OpenWhileServing == started /\ broken # {} => left = 0

(* Once it has been told to stop, or has failed to start, the process is   *)
(* gone, however slow the clients of its servers and the receivers of its  *)
(* events are.                                                             *)
ComesDown == ctxDone \/ pc = "closedb" ~> pc \in Ended
=============================================================================
