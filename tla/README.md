# NetworkInventoryAgent: TLA+ specifications and proofs

This directory holds TLA+ models of NetworkInventoryAgent (`src/`), the TLC
configurations that check them on small instances, and proofs of some of their
properties for instances of any size, checked by TLAPS. Everything is translated from
the Go sources; documents are quoted only where the code disagrees with them.

Contents

1. [The system](#1-the-system): components, state, operations, interactions
2. [The modules](#2-the-modules) and how they correspond to the code
3. [The runs](#3-the-runs): what each one checks, its bounds, the fairness it assumes
4. [The proofs](#4-the-proofs)
5. [Where code and documents disagree](#5-where-code-and-documents-disagree)
6. [What is not modelled](#6-what-is-not-modelled)
7. [The plan](#7-the-plan)

To check everything: `tlc -config Scanner_sweep.cfg MCScanner` and so on for the rows of
the table in section 3, and `tlapm ScannerProofs.tla` for each `*Proofs.tla`.

## 1. The system

Two agents, `wintermute` and `neuromancer`, each scan a set of subnets, keep the hosts
and ports they find in a SQLite file, report changes to a webhook and a syslog server,
and watch each other over HTTP. A terminal console and an admin web server show the
inventory. All processes are built from one library of packages.

| Component (source) | State it keeps | Operations | Hard about it | What makes it correct |
|---|---|---|---|---|
| Scanner (`internal/scanner/scanner.go`) | semaphore `s.sem` shared by all sweeps of the process; per sweep a counter, a wait group, per host the open ports | `Scan`: a goroutine per address, which probes, writes the host, starts a goroutine per deep TCP port and per UDP port, classifies, writes again | three nested levels of goroutines on one semaphore; cancellation that abandons goroutines; store calls that fail one by one | no token lost, no write after return but the one a cancellation finds under way, record = rows, device type from all ports, and that the sweep ends |
| Addresses (`scanner.go`, `usableIPs`, `incrementIP`) | none | a CIDR to the list of addresses to probe | carry and wrap of the address, limits checked before allocation | each usable address once |
| Agent (`internal/agent/agent.go`) | `nextDue` per subnet, ticker, trigger channel of one, snapshot of the inventory | `Run`, `runCycle`, `Trigger`, pruning, change events, tracker update | ticks dropped during a cycle, triggers that coalesce, partial failures, cancellation in mid-cycle | cadence, no trigger lost, events tell the inventory |
| Health (`internal/health`) | tracker: host count, last scan, healthy flag | three setters by the loop; `/health`, `/status` by handlers | reads between the setters; a stuck loop changes nothing | live loops are served, stuck ones noticed |
| Watchdog (`internal/watchdog`) | failure count, published `PeerStatus` | `check`: ping, fetch status, judge freshness and drift | the peer changes between the two requests; lost calls; late answers | outages noticed in time and counted once, nobody accused without cause |
| Alerts (`internal/alerts`) | syslog connection under a mutex | `Emit` (a goroutine per event and sink), `Close` | retries of what may have been done, reconnects, exit of the process in the middle | one socket, no post after an answer, sinks independent |
| Store (`internal/sqlite`) | tables `hosts`, `ports`, `scans` | upserts, lists, pages, deletes with cascade | ids held by a scan while rows are pruned and inserted | ports stay with their host |
| Migrations (`internal/sqlite/migrations`, `db.go`) | `schema_migrations`, SQLite's write lock | `Run` at each boot | two agents and a console, of different versions, boot at once; crashes | each migration once and in order |
| Admin server (`internal/admin`) | none of its own | pages, exports, JSON API, trigger | several queries per request without a transaction | a walk sees every row, ports of the right host, filters exact |
| Console (`cmd/console/tui`) | the Bubble Tea model: view, spinner, lists, cursor, error | keys, answers of load commands | commands run concurrently and answer in any order | cursor on a row, spinner ends, answers shown as they are |
| Banners, classifier (`scanner/banner.go`, `udp_banner.go`, `arp.go`, `classify.go`) | none | a port's answer to a label, a neighbour's entry to a vendor, all of it to a device type | rules in an order, helpers that take one protocol for another, a type that depends on which dial won | the row of a host is that of one sweep, and sweeps of one device agree |
| Configuration (`internal/config`) | none after boot | `Load` (`applyEnv`, `validate`, `checkSecretsPerm`), `Resolve` | file, environment and defaults in an order; nil, empty and given lists through three layers of defaults | the innermost layer that says something decides, and no listener is open without a secret |
| Token checks (`admin/middleware.go`, `health/server.go`) | the CSRF token of the process | `checkAuth`, `checkCSRF`, `requireAuthHandler` | what they ask for is decided at boot, by four sources | a request let through carries the secret |
| Runtime (`cmd/internal/runtime`) | which servers listen, the database, the shutdown deadline | start-up, signals, shutdown | failing at any step, handlers at work while things close | the process comes down, the database stays open for handlers |

How they interact. `runtime.Run` opens the store (which migrates), starts the health
server, builds the sinks and the agent, starts the admin server, and runs the agent's
loop. The loop calls `Scanner.Scan` once per due subnet, prunes, diffs a snapshot taken
before the cycle with the inventory after it, hands the events to the alert multiplexer
and updates the tracker. Admin handlers, health handlers and the console read what the
loop writes, with no coordination but SQLite's and the tracker's mutex. The watchdog of
one process reads the tracker of the other through `/health` and `/status`. A cancelled
context is the only message of the shutdown.

`PROJECT.json` lists the hazards of this code, each at its line, with the properties
that would catch it going wrong.

## 2. The modules

```
ScanContract  <--refines--  Scanner   <- ScannerProofs, MCScanner
Agent                                 <- AgentProofs, MCAgent
Health   <-extends-  Watchdog         <- WatchdogProofs, MCWatchdog
Migrations                            <- MigrationsProofs, MCMigrations
Alerts   <-extends-  Runtime          <- RuntimeProofs, MCRuntime
Inventory <-extends- Admin            <- AdminProofs, MCAdmin
          <-extends- Console          <- ConsoleProofs, MCConsole
Addresses <-extends- Profiles  <-extends-
                     Config    <-extends-  Sweeps  <- SweepsProofs, MCProfiles
                     Classifier <-extends-
                     Classifier <-extends- MCScanner
```

Times are kept as distances from now (`dueIn` for `nextDue - now`, `lastScanAt` for
`now - LastScanAt`), so loops run for ever over finitely many states. Variables that
exist for the properties only are declared under a comment "History".

**Scanner.** One call of `Scan`. `main` is the program counter of `Scan`, `host[a]` that
of the goroutine of address `a` (its `"tcp"` and `"udp"` are the loops of `deepScan` and
`udpScan`), `task[t]` that of a port goroutine; `sem` is the number of tokens in `s.sem`;
`row`, `saved` and `record` are the rows this sweep has written to `hosts`, `ports` and
`scans`. Each action is the code between two points at which another goroutine can see
or change anything: a send, a receive, the two ends of a store call, a `Done`, a `Wait`.
A store call begins (`BeginCall`) when it gets the one connection of the writer pool
(`writer`, `db.go:32`), which `database/sql` refuses under a cancelled context, and ends in
a step of its own (`UpsertHost`, `SavePort` and so on). A call that a cancellation finds
under way may write its row or not, and may fail even if it did; one that still waits for
the connection fails; otherwise a call fails only if `DBFails`. The receive of
the token and `wg.Done` are two actions, as in the deferred functions. The early return
of `deepScan` on a cancelled context reads `out` without its mutex while goroutines
append to it: what it returns is any set of ports unless no goroutine is left.

**ScanContract.** What the agent relies on: while a sweep runs, hosts appear, and ports of
hosts that have appeared, one row at a time (`call`); it returns once; the record is then
finished with the number of hosts or left as it was. Uncancelled it returns with no call
under way, and nothing is written afterwards. Cancelled it may leave the one call that had
begun, of a goroutine that `deepScan` or `udpScan` abandoned, and `EndPort` may still bring
its row. `Scanner!ImplementsContract` is the refinement: `hosts`, `ports` and `total` are
defined from the rows, `call` from who has the connection.

**Agent.** `pc` is where `Run` is, `tickIn`/`tick` the ticker and its channel, `trigger`
the channel of one, `due` the profiles the cycle has still to scan. A sweep of one subnet
is one step with an outcome `ScanContract` allows. `Prune` is one step for all deletions:
a cancellation between two of them is the case in which only part of `Stale` goes.
`Failures` says which calls may fail by themselves: sweeps, `List`, prunings, `Count`.
`ClockStep` bounds a cycle by `MaxCycle` and the reaction of an idle loop by `Jitter`.
`known` applies the events the way a subscriber would.

**Health, Watchdog.** The tracker is written by three separate actions, as in
`runCycle`; the handlers read it in between. The total is that of the table or, when
`Count` fails, the number of hosts the cycle found, which may be 0 with a full table
(`Totals`, `agent.go:225-232`); such a cycle is unhealthy. Our own tracker is written the
same way, and our own watchdog reads it whether healthy or not (`LocalCycle`). `basis` is
history: where a total comes from. `Watchdog` composes a watchdog with a peer
that may crash, restart, get stuck in a sweep or have a bad cycle, and a network that
loses calls. The rate at which the peer's loop updates the tracker is the constant
`ScanGap`; that the loop keeps to such a bound is `Agent!FreshBound`.

**Migrations.** Any number of processes with possibly different embedded versions run
`migrations.Run` against one file. `db` is what is committed, `tx` the database as the
open transaction sees it. SQLite is an assumption: one write lock, taken by
`BEGIN IMMEDIATE` or refused after the busy timeout; uncommitted changes are seen by
nobody and are gone after a crash. The query of the applied versions takes no lock, so
the map it fills is out of date when the loop uses it; `Recheck` is the second look.

**Alerts, Runtime.** `Alerts` has a webhook goroutine (`hook[e]`) and a syslog goroutine
(`line[e]`) per event, the sink's mutex and connection, and `Close`. `Runtime` extends it
with the steps of `runtime.Run` (`pc`), the two servers and their handlers, and the
shutdown deadline `left` both servers and the tracer share. An exit ends every goroutine
wherever it is.

**Inventory, Admin, Console.** `Inventory` is the host and port tables with the writer:
`held[ip]` is the id a scan got from its upsert and saves ports under later. A port row has
protocol, number and state, one row for each host, protocol and number; it
remembers the address it was probed at (`of`), which the table does not. `HasPort` asks for
the number and for an open row, whatever its protocol, as `api.go:104` does. `Admin` and
`Console` extend it with readers of several queries each, between which the writer acts.
Admin handlers share nothing but the tables, so one request at a time against a changing
table shows all there is. In `Console` each load command is a process of its own.

**Profiles, Addresses.** `Resolve` (with `scan_interval`, the one field a scan itself does
not use) and the layers after it as one sequential machine
over every configuration of a set; a scan of a resolved profile starts the address loop
of `Addresses`, over addresses of two short bytes.

**Config.** `Load` as one step from a file and an environment to a configuration or a
refusal, in the order of the code: decode over the defaults, environment, `validate`,
mode of the file. A configuration maps fields to texts, each of which stands for its
kind (a wildcard bind, a URL without a host). The token checks of both servers are
predicates on a request, over the configuration that was loaded.

**Classifier.** `fingerprint`, `udpFingerprint`, `lookupARP` and `classify` as operators
on what speaks on a port, an entry of the neighbour cache, and ports. `Rules` is the list
of `classify` in its order, and the first that fires decides.

**Sweeps.** A whole process seen from one address: it extends `Config`, `Profiles` (with
`Addresses`) and `Classifier`. `LoadConfig` and `RunAgent` are the way to a running loop.
When the address loop has collected what to probe, `stage` takes the goroutine of the
address through `probe`, the first upsert, the three stages, `classify`, the second
upsert, and `pruneStale`. `sight` is what the goroutine holds in its variables, `row` and
`rows` what the store holds of the address, over all sweeps. `Trouble` counts faults and
changes of the device: lost dials and banners, failing writes, a cancelled context or a
dead process (`Cut`), a scan record that cannot be created. Port goroutines of one stage
answer in any order, one step each; their concurrency is the subject of `Scanner`. The
address followed is in every subnet that is scanned with a device at it.

Every definition that stands for code has its lines under "map" in `PROJECT.json`.
A definition with a comment `mutant:` is a plausible bug in the definition after it; it
is used nowhere, and replacing that definition by it breaks the property named with it
under "mutants".

## 3. The runs

| Run | Module, configuration | States | Properties |
|---|---|---|---|
| `scanner_sweep` | MCScanner, Scanner_sweep | 2,508,409 | SlotsAccounted, ReturnsQuiescent, RecordMatchesRows, TypeFromAllPorts, ImplementsContract |
| `scanner_ends` | MCScanner, Scanner_ends | 16,095 | EndsOrGridlocks, CancelReturns |
| `scanner_gridlock` | MCScanner, Scanner_gridlock | violated | Terminates |
| `agent_loop` | MCAgent, Agent_loop | 247,008 | CadenceBound, FreshBound, TriggerServed |
| `agent_events` | MCAgent, Agent_events | 428,412 | VanishedOnlyPruned, EventsTrackInventory, PrunedWasMissed |
| `agent_lostevents` | MCAgent, Agent_lostevents | violated | EventsTrackInventory |
| `watchdog_peer` | MCWatchdog, Watchdog_peer | 1,775,089 | CrashNoticed, WedgeNoticed, DriftOfReports, AccusedOnlyIfTroubled, OnePagePerOutage |
| `migrations_race` | MCMigrations, Migrations_race | 487,228 | RanOnce, ReadyIsMigrated, Boots |
| `admin_reads` | MCAdmin, Admin_reads | 3,024,568 | OwnPorts, PortsOnTheirHost, WalkSeesAll, FilterIsExact |
| `console_views` | MCConsole, Console_views | 1,602,944 | CursorOnARow, AnswerIsCurrent, LoadingEnds |
| `profiles_boot` | MCProfiles, Profiles_boot | 380,128 | InnermostWins, EveryHostOnce, GuardedRequests, TypeOfLastSweep, RowsTellSweeps, SameHostSameType, Settles |
| `runtime_life` | MCRuntime, Runtime_life | 532,597 | OneSocket, AnswerIsFinal, EverySinkTried, OpenWhileServing, ComesDown |

Type invariants (`TypeOK`) document the variables; each of them is a theorem of section 4,
and no run is spent on them. What the refinement `ImplementsContract` implies is not
checked apart from it: that only a call which had begun may write after `Scan` has
returned is the theorem `NoLateWritesCorrect`. `CHECK_DEADLOCK FALSE` stands where the
system really stops: a sweep that has returned, an agent that has stopped, processes that
have booted, a configuration that was refused, a console that has quit, a process that has
exited, and the gridlock of the scanner, which is the subject of its own run. Watchdog and
admin server never stop.

### What they show, and why the bounds are enough

**Scanner.** Two addresses, a pool of two, one liveness port. In `scanner_sweep` two deep
ports and one UDP port, so that the three stages and both loops interleave, and hosts
and port goroutines compete for the pool; store calls may fail. In `scanner_ends` and
`scanner_gridlock` two deep ports, one of them known from the liveness probe (the
`continue` of `deepScan`), no UDP. Two hosts are enough for the pool to be exhausted by
hosts alone, and for one of them to wait for the other; a pool that is larger than the
number of hosts is the theorem `RoomyPool`. The device types are those
of `Classifier`, for ports (23, 445, 80 and UDP 53) whose types differ with each stage
that is missing. `EndsOrGridlocks` says that there is no other way not to end than the one
`scanner_gridlock` exhibits: every token of the pool is held by a host that waits for
one. Both say nothing about cancelled sweeps that `CancelReturns` does not: those end
even out of a gridlock, because the host goroutines select on the context although the
send in `Scan` does not.

**Agent.** `agent_loop` is about time: two subnets with intervals of 2 and 3, no hosts,
cycles of up to 2, latency of up to 1, triggers and failing calls at any moment. The
intervals share no factor, so that ticks come at every phase. A subnet can wait its
interval plus a tick (or a cycle): a tick that comes a little early in its period finds
the subnet not due. The bound is tight. `agent_events` is about hosts: one that may
answer in both subnets and one that answers in one, intervals of 1 and 3, a TTL of 2,
so that hosts are pruned, come back and are found by the other subnet. Prunings and
`Count` fail in it at any time, sweeps and `List` by cancellation only. In
`agent_lostevents` a sweep may fail and nothing else: the trace is of two cycles, the first
of which finds a host in one subnet while the sweep of the other fails, so that no event is
sent; the second succeeds in both, starts from a snapshot that has the host, and sends none
either. A failing `List` loses events in the same way (`agent.go:329`), which is why the
theorem `EventsTellAll` excludes both.

**Watchdog.** Tables of no host or two, cycles that found none or three when their `Count`
fails, `max_failures` 2, an interval of 2 and a timeout of 1. All faults may happen, in
any number. `DriftOfReports` says what a drift compares: two totals that cycles have
reported, and never the 0 a tracker is born with, whatever the order of the setters and
readers of both sides. A total that stands in for a failed `Count` of the peer is compared
only by a check that was under way as that cycle ended, since `/health` refuses
afterwards. One of ours is compared in every check until our next good cycle, so that
equal inventories can show a drift of 100 % (section 5). The times in `CrashNoticed` and
`WedgeNoticed` are the worst cases of one watchdog loop: the check that is under way when
it happens, the ticks that follow, and the timeout of a request. `wedgedFor` restarts when
a fetched status is lost: a network that loses everything shows the watchdog nothing. That
the peer keeps `ScanGap` is an assumption of the module, see above; a peer whose profiles
all are slower than the global interval does not (section 5).

**Migrations.** Three processes, one of them with an older binary, three migrations, a
file that is new or part of the way, two crashes or failed statements. Two processes
suffice for the race of the two reads; the third makes a process lose the lock to
either of the others. Larger instances are covered by the proofs.

**Admin, Console.** Two addresses, a TCP port and a UDP port, which may be open or closed,
and four writes (one port and two writes in the console, whose commands multiply the
states): enough to insert, prune and insert a host again while a handler holds its old id
and another host gets a new one. `MaxInt` is 3, so that an offset of 2 and a limit of 2
wrap. `FilterIsExact` counts by the tables themselves, by the address each row was probed
at, the hosts that a filter should select; those whose lookup failed are taken off, and no
others. `WalkSeesAll`, `FilterIsExact` and `AnswerIsCurrent` are about requests no write
overlapped: nothing promises more, as there is no transaction. `OwnPorts` and
`PortsOnTheirHost` hold whatever overlaps.

**Profiles.** `profiles_boot` has one machine and five families of startups. Every list of
up to three subnets, flat, as profiles or both, with duplicates, empty names and names
that are no CIDR. Every combination of missing, empty and given for each field of one
profile and of the global section. Every block of a space of 64 addresses of both
families, with every limit from 1 to 18: a byte of three bits makes blocks that cross a
carry and blocks that end at the last address. Every kind of address for each listener
with every source of its token, and every kind of URL. These four have nobody at the
address. The fifth sweeps an address at which two or three devices follow each other,
with two faults or changes: a Windows server with a vendor, a resolver that speaks POP3
on port 25, a printer, a host with four liveness ports; under profiles with all stages,
with none, with lists of their own, and two profiles over overlapping subnets. Two
troubles are enough for a device to change in the middle of a sweep whose write then
fails, and for a host to be missed twice and pruned (`host_ttl` of two sweeps).

`TypeOfLastSweep` and `RowsTellSweeps` say what a reader of the store may conclude
between sweeps, and what not: a TCP port that was closed since keeps its open row as long
as the host stays, so `RowsTellSweeps` claims for such a row only that the port has
answered since the host was inserted. `SameHostSameType` is an action property over pairs
of sweeps and has a precondition, `Steady`: the liveness ports are among the deep ports
and no OpenSSH banner decides; without it the race of the dials shows in the type
(section 5). `Settles` is the liveness of it all: once the bounded troubles are over the
rows come to tell the device and stay so.

**Runtime.** Two events, one handler, a grace period of one unit. Two events make two
goroutines of the syslog sink compete for mutex and socket with `Close`. The signal, the
breaking of connections, slow receivers and the failure of each step of the start-up
are possible everywhere.

### Fairness

- *Scanner*: weak fairness of `Scan` and of each goroutine. The Go scheduler runs
  runnable goroutines, and every dial carries a timeout. A semaphore send is not given
  strong fairness: none of the properties needs it. Nobody has to cancel.
- *Agent*: weak fairness of the loop and the clock; strong fairness of the three
  branches of `select`, which picks at random among ready channels (Go specification),
  so that it passes none over for ever.
- *Sweeps*: the process takes steps (weak fairness of `Next`), and each subnet is swept
  again and again (strong fairness of `Scan` of its profile; `Agent!CadenceBound` is the
  bound that `Agent` and its proofs give for this). Faults and changes of the device are
  finitely many, as the property is about what follows the last of them.
- *Migrations*: weak fairness of each process, including its restart by the supervisor,
  and strong fairness of `BeginImmediate`: SQLite's busy handler polls, and `Busy` may
  still make a boot fail, after which the process is started again.
- *Console*: the goroutine of each command runs and the update loop takes its answer.
  Keys are under no fairness.
- *Runtime*: `Run`, the clock and the goroutines of the sinks, all weak. Handlers and
  clients are under no fairness, which is what makes the deadline matter.

## 4. The proofs

| Module | Theorem | Says |
|---|---|---|
| ScannerProofs | `Invariance` | `IInv` is an inductive invariant of the sweep |
| | `TypeCorrect`, `SlotsCorrect`, `CapCorrect`, `QuiescentReturn`, `RecordCorrect`, `NoLateWritesCorrect` | the properties `TypeOK`, `SlotsAccounted`, `ProbesCapped` (no more goroutines probe than there are workers), `ReturnsQuiescent`, `RecordMatchesRows`, `NoLateWrites` |
| | `TypeFromAllPortsCorrect` | `TypeFromAllPorts` |
| | `RoomyPool` | `NumAddrs < Workers` implies that the sweep is never in the gridlock |
| | `Refinement` | `Spec => ImplementsContract` |
| AgentProofs | `Invariance`, `TypeCorrect` | `TypeOK`, and the invariants `Timing` and `Telling` |
| | `CadenceKept`, `FreshKept`, `VanishedArePruned` | `CadenceBound`, `FreshBound`, `VanishedOnlyPruned` |
| | `EventsTellAll` | `EventsTrackInventory`, if neither a sweep nor `List` fails by itself |
| | `PrunedAreMissed` | `TTLCovers` implies `PrunedWasMissed`, if no sweep fails by itself |
| | `HealthyCyclePrunesMissed` | `TTLCovers` implies that `PrunedWasMissed` holds in each cycle none of whose scans failed |
| WatchdogProofs | `ShapeAlways` | the types, and that a status with a scan time has a count |
| | `CrashesNoticed` | `Timeout <= Interval` implies `CrashNoticed` |
| | `WedgesNoticed` | `WedgeNoticed` |
| | `NobodyAccused` | `ScanGap + Timeout <= 2 * ScanInterval` implies `AccusedOnlyIfTroubled` |
| | `PagedOnce` | `MaxFailures > 0` implies `OnePagePerOutage` |
| | `WatchdogTypeCorrect` | `TypeOK`: no drift above 100 %, and `failures` as last published when no check runs |
| | `DriftIsOfReports` | `DriftOfReports` |
| MigrationsProofs | `Invariance`, `TypeCorrect`, `RunsOnce`, `Ordered`, `Migrated` | `TypeOK`, `RanOnce`, `InOrder`, `ReadyIsMigrated` |
| AdminProofs | `InventoryInvariance`, `InventoryTypeCorrect`, `PortsOnTheirHostAlways` | the tables, and `PortsOnTheirHost` |
| | `OwnPortsAlways`, `FilterIsExactAlways`, `WalkSeesAllAlways` | `OwnPorts`, `FilterIsExact`, `WalkSeesAll` |
| | `AdminTypeCorrect` | `TypeOK`: the codes a handler answers with, and port rows only for rows it has listed |
| ConsoleProofs | `ConsoleInvariance`, `ConsoleTypeCorrect` | `CInv` is an inductive invariant, and `TypeOK` |
| | `CursorStaysOnARow`, `AnswersAreCurrent` | `CursorOnARow`, `AnswerIsCurrent` |
| SweepsProofs | `Guarded`, `Innermost` | `GuardedRequests`, `InnermostWins` |
| | `EveryHost` | `EveryHostOnce` (and `WalkTypeOK`) |
| | `ProfilesTypeCorrect` | no two profiles which are scanned have the same subnet (`SubnetsDistinct`), their switches and durations are settled, and each list is one that the file gives, or nil (`ProfilesTypeOK`) |
| | `TypeIsOfLastSweep`, `RowsTell`, `SameType` | `TypeOfLastSweep`, `RowsTellSweeps`, `SameHostSameType` |
| RuntimeProofs | `OneSocketAlways`, `AnswersAreFinal`, `OpenWhileServingAlways` | `OneSocket`, `AnswerIsFinal`, `OpenWhileServing` |
| | `RuntimeTypeCorrect` | `TypeOK`: who is past `Lock` holds the mutex and nobody else, and where `Run` is says how far `Close` has come |

They hold for every value of the constants that satisfies the `ASSUME`s of the modules:
any number of addresses, ports, workers, profiles, processes, migrations, hosts and
writes, any intervals and bounds on time, any largest int, any pages and answers of load
commands, any scanner sections, sizes of bytes and blocks, devices, lists of ports and
number of faults, files and environments over the texts of `Config`, any number of events,
of requests at once and of time units of grace. The assumptions are typing and finiteness,
and are evaluated by TLC in the runs. `TTLCovers`, the premise about `host_ttl`, says that
it is 0 or no shorter than the interval of every profile, but for one unit of the clock (a
host is stale when it is older than the TTL). The code checks no such thing (section 5).
Each of the premises is needed: `agent_events`, whose TTL of 2 is the least for its
interval of 3, violates `PrunedWasMissed` with a TTL of 1, and with failing sweeps. The
premises of the watchdog's theorems are conditions on its configuration: a request is
given up after 5 s (`health/client.go:51`), and an interval below that loses ticks to the
check under way; `max_failures` 0 is in section 5.

*Scanner.* `SlotsAccounted` is not inductive by itself: that `sem - 1` is the right number
after a release needs that the goroutine is counted once, hence the finiteness of the sets
of holders (`HoldersFinite`) and cardinality facts. `ReturnsQuiescent` needs the order of
things: addresses from `next` on have no goroutine (`SpawnOrder`), port goroutines exist
only for indices the loop has passed (`TaskOrder`), a host past its loops has no pending
port goroutine unless the context is cancelled (`TasksJoined`), and `Scan` past its wait
has no pending host (`HostsJoined`). `RecordMatchesRows` needs that the counter is the
number of rows of hosts past `classify` (`CountRight`): while nothing is cancelled, as a
call that fails after it has written leaves a row nobody counts, and in the call that
finishes the record, which has begun under a live context. The refinement needs that rows
of ports come after the row of their host (`RowOrder`, `LivePort`), and that whoever has
the connection is at a place where it calls the store (`WriterBusy`). From this follows
what may come late: once `Scan` has returned, every host is done, so the connection is a
port goroutine's or nobody's, and no call begins under a cancelled context (`LateTask`).
`IInv` is the conjunction of these. `TypeFromAllPorts` is proved on top of it, for each
address by itself (`Complete`): a row that says open is of a port in one of the two lists;
once a stage has joined its goroutines, which `TasksJoined` says it has, the caller's list
is all they found; and from the second write on the row is the type of these lists.

*Agent.* The two bounds on time need to know how ages go with the ticker. `Timing` says: a
subnet whose time has not come was tried within its interval (`dueIn + silent`); an idle
loop without a tick has one coming (`silent + tickIn`, `scannedAgo + tickIn`), and with
one only the latency passes; in a cycle what was not due is at most a cycle older, and no
tick pending means the next one is still as far away as the cycle is short (`tickIn +
age`); before the ticker exists every subnet is being tried. That the period of the ticker
exists and is no longer than any interval is the lemma `Least`, which gets the least
number of a set from the well-foundedness of finite sets, as induction is out of reach.
`Telling` says that the snapshot is part of the inventory until pruning, and its
difference is what was pruned afterwards. `Tracking` says that the snapshot is what the
events have told, as long as no sweep and no `List` fails. One that does breaks
`Tracking`, which is `agent_lostevents`. Pruning needs a relation of the ages of hosts
with the clock of the scans. `Sighted` says: a host that no scan has missed since it was
seen was seen no longer ago than the last scan of its subnet began, which is what is left
of the interval; and in the middle of a cycle that goes, for every subnet off the list,
with the age of the cycle added. So at the end of a cycle in which no scan failed such a
host is younger than the TTL, and what is stale has been missed.

*Watchdog.* `DownInTime` bounds the time a peer can have been down by the failures counted
so far: the n-th failing check begins within n intervals, and a check that the crash has
met in its second request ends within one timeout, so that the tick it may have delayed is
not late. `WedgeInTime` says that every scan time the watchdog has in its hands is as old
as the loop is stuck (`AsOld`), hence that a view that says nothing is wrong was published
when it was not too late. `StandsIn` follows a total that was put in for a failed `Count`
from the peer's tracker to the check: the tracker is unhealthy with it or about to be, so
that a ping which was answered came before. `Untroubled` bounds the age of the tracker by
the time since the last scan and the age of a status on its way by the time it has
travelled.

*Migrations.* `RanOnce` and `InOrder` are not inductive: they need to know what a commit
will write. `Sees` ties the open transaction to the database: `tx` differs from `db` by
exactly what its holder has applied and recorded, and from the recheck on the version at
hand is not recorded. `Passed` says that what a process has read or gone past is
recorded. Both survive the commit of another process because only the holder of the lock
commits, and because versions are only added.

*Inventory, Admin.* Ids are below `nextId` and given out once (`IdsDistinct`), so a held
id is that of the same address or of no row at all (`HeldIsOwn`); then a port row under it
is where it belongs. The handler's rows are ids of the address they are listed under,
which pruning and inserting can make dangling but not somebody else's. `Current` says that
without a write they are the table itself, and the ports read so far those of the table,
but for the hosts whose lookup failed. With `PortsOnTheirHost`, which ties the rows of an
id to the address they were probed at, the total of a filtered answer follows. A walk
through the pages is on its way (`WalkOnTrack`) when it has shown exactly the rows whose
place in the order is at most the offset of the next page. A page adds the places of its
window, which are others, and ends the walk only when none are left (`PageAdds`). That two
places are never the same is about the cardinality of the rows before a row, and the
wrapped sum of offset and limit is the case `PlusWraps`: a link to a negative offset is
refused before it is counted.

*Console.* The list a query returns has each host row once, in its order (`ListedType`);
that each place is taken follows from counting (`RankOnto`), as a one-to-one map between
sets of one size leaves nothing out. `Exact` says of each load under way that what it has
read so far is the table and the count, unless a write fell in between. `CInv` adds what
the screen shows: the cursor is on a row of the list whenever there is one, after every
answer that makes the list shorter or longer.

*Sweeps.* The properties speak of the time between sweeps and of the last one, the
invariants of every stage in between. `Booted` ties the configuration in use to the file,
the environment and their checks. `Resolving` ties what a scan used to the entry of the
file, whichever of the three functions saw it last; it also says that a profile is scanned
with the same options every time, so that what an earlier sweep has promised can still be
read off them. `Resolved` ties the set of subnets met to the profiles resolved so far.
`Sighted` says what a goroutine knows of the device at each stage, as long as nothing went
wrong: by then it is what is there, up to the ports already dialled. `Recorded` says that
the row has a blank type exactly from its first to its second write and what `told`
remembers afterwards, `Written` that the rows of ports keep up with the dials, `Answered`
and `Named` the same of the two histories. `SameHostSameType` follows from `Named`, as a
steady profile expects only one type: `classify` sees the same ports whichever has won the
race, and the banner only matters when it is one of OpenSSH (`RulesWithoutOpenSSH`).
`Counting` is the invariant of the address loop: the addresses so far are the first of the
block, and the next one is the first plus their number, or 0 after the last address there
is. That the loop then leaves every block that passed the size check, also the one at the
end, takes that such a block is at most half of all addresses, and that a masked address
plus the size of its block is no larger than all of them (`BlockFits`): arithmetic of
powers of two. `Size` is therefore a recursive function, and what it is (`SizeDef`,
`SizeDivides`) is proved by induction over the numbers, in the form a prover can use: a
set of numbers with 0 and with each successor is all of them (`InductiveSet`), from the
same well-foundedness as `Least` of the agent.

*Alerts, Runtime.* `Exclusion` says that a goroutine past `Lock` holds the mutex, `Close`
included, so the one that redials is the only one to see the connection closed and not
yet replaced; outside the mutex the socket counted is the one in the sink. `Attempts`:
an event has its goroutine from its emission on, and none of its attempts is left after
a final answer. `Shutdown`: the database is closed only when the admin server has
drained, or its grace is used up, or it never came up. `Mutex` is the converse of
`Exclusion`, that whoever holds the mutex is past `Lock`, and needs that an event which
has not been emitted has no goroutine; `Places` says how far `Close` has come where `Run`
is, so that no exit leaves it between its two steps.

Model-checked only: all liveness properties (`EndsOrGridlocks`, `CancelReturns`,
`TriggerServed`, `Boots`, `LoadingEnds`, `Settles`,
`EverySinkTried`, `ComesDown`), since the prover handles neither fairness nor `ENABLED`.
Every invariant and every action property of the runs is proved, under the conditions the
table names. Data without a parameter, as the rules of the classifier and the built-in
lists of ports, is evaluated by TLC only.

## 5. Where code and documents disagree

Two disagreements are exhibited by runs.

- `scanner_gridlock` (`src/internal/scanner/scanner.go:394`): A host goroutine keeps its token of s.sem (scanner.go:235) while deepScan and udpScan send on s.sem for each port; with as many live hosts as workers every token is held by a goroutine that waits for another, and Scan never returns. README.md:20 promises "Continuous monitoring — periodic re-scans", and scanner.go:185-187 says Scan "records each live host in the inventory. [...] The scan record in the DB is updated when the scan finishes."

- `agent_lostevents` (`src/internal/agent/agent.go:218`): A cycle in which any subnet failed emits nothing, and the next cycle takes its snapshot after the rows of this one were written: a host discovered in it is in both lists the next cycle compares, and is not reported though that cycle succeeds. README.md:18 says "Change detection + alerts — diffs host inventory each cycle; fires `host.discovered` / `host.vanished` events".


The others were met while the modules were written. No run checks them: most hold in
every behaviour that gets to the line in question, so there is nothing to search for.
The models do what the code does.

| Code | What it does, and what is said of it |
|---|---|
| `internal/scanner/scanner.go:305` | Finish is called with the context that has just been cancelled, so a sweep interrupted by a signal leaves its row of table scans without finished_at. README.md:689 says "A scanner loop killed mid-write can corrupt state or leave partial scan records. A context-aware shutdown gives in-flight operations the opportunity to finish cleanly", models.go:77 of finished_at "nil while in progress". |
| `internal/scanner/scanner.go:331` | A goroutine with one token of s.sem dials all its probe ports at once (scanner.go:331-341), so the dials open at a time can exceed workers. ChangeLog.md:1278 says "`scanner.workers` now caps total concurrent dials across all subnets" and README.md:341 "GLOBAL concurrent probe cap across every subnet". |
| `internal/agent/agent.go:202` | nextDue is counted from the time a cycle started, and only ticks look at it: a tick that comes earlier in its period than the last one (after a slow cycle or a trigger) finds the subnet not due, and it waits for the next tick. README.md:339 says of scan_interval "How often to re-scan", and agent.go:200-201 "Computed off the start of THIS cycle (not now) so a slow scan doesn't drift the cadence." |
| `internal/agent/agent.go:334` | After a failed snapshot prev is nil, emitChangeEvents looks every current host up in a nil map and reports all of them as discovered. agent.go:309-310 says "A List failure logs and returns nil — the diff will then produce no events (better than misleading ones based on a partial set)." |
| `internal/agent/agent.go:276` | pruneStale compares last_seen with now - HostTTL, a duration. config.go:124-126 says "HostTTL marks hosts not seen within this many scan intervals as stale. [...] DELETEs rows where last_seen < now - HostTTL*ScanInterval". With a TTL that is short against the interval of a profile, hosts that every sweep has found are deleted; `TTLCovers` in `AgentProofs` is the condition under which none is. |
| `internal/health/server.go:167` | The freshness check needs LastScanAt, which is nil until the first cycle ends, so a loop stuck in its first sweep is answered 200 for ever. server.go:164-166 says "a wedged scan loop will keep Healthy=true [...] Refuse 200 once the gap exceeds staleAfter so orchestrators can restart us", README.md:436 "`200 OK` if healthy and last scan is fresh". |
| `cmd/internal/runtime/runtime.go:125` | StaleAfter is three times the global scan_interval, but the loop ticks at the shortest profile interval: if all profiles are slower than that, /health refuses a loop that works as configured. README.md:436 says "`200 OK` if healthy and last scan is fresh; `503 Service Unavailable` otherwise" and README.md:339 calls the global value the "default for any profile that doesn't set its own". |
| `internal/watchdog/watchdog.go:113` | The counter is bumped when failures equals MaxFailures; with max_failures 0, which validate accepts, failures is 1 at the first failure and the two are never equal, though every failure is logged as "peer is DOWN" (watchdog.go:116). metrics.go:164 says the counter is "Times the peer has been declared DOWN". |
| `cmd/internal/runtime/runtime.go:180` | runtime.go passes the global scan_interval, not the interval at which the peer's loop ticks. watchdog.go:34 says "ScanInterval is the expected gap between the peer's scans." |
| `internal/watchdog/watchdog.go:137` | check starts from an empty PeerStatus and publishes it with Stale false when the ping or the fetch fails. status.go:42 says "Stale is true iff the peer's most recent scan is older than the freshness threshold." |
| `cmd/console/main.go:45` | The console calls sqlite.Open, which creates schema_migrations and applies what its binary embeds. README.md:250 says "It opens the database read-only so it is safe to run against a live agent's database file.", cmd/console/main.go:2 "It opens the SQLite database in read-only mode". |
| `internal/alerts/alerts.go:114` | Emit starts a goroutine for each sink and nothing waits for them; Close closes the sinks and the process exits, so an event of the last cycle may be lost untried. alerts.go:112 says "Close flushes every sink." |
| `internal/alerts/syslog.go:101` | The first write to a connection whose receiver is gone succeeds into the socket's buffer; Emit returns nil and the line is lost. syslog.go:20-22 says "events are dropped when the receiver is unreachable, with the failure surfacing in the Multiplexer's slog output." |
| `internal/admin/api.go:100` | A failing ListByHost is skipped with continue, the host does not pass the filter and the answer is 200 (the set `failed` of `FilterIsExact`). api.go:28-29 says "Pagination is applied AFTER filtering so `total` always reflects the matching set". |
| `internal/admin/api.go:104` | The filter looks at Number and State and not at Protocol, so an open UDP port of that number will do. api.go:23 says "port — integer; host must have this TCP port open". `HasPort` and `Selected`, the count `FilterIsExact` goes by, do as the code. |
| `internal/admin/render.go:111` | offset is only checked to be at least 0, and offset+limit wraps for an offset near the largest int: HasNext is true and NextOffset negative, a link that parsePagination refuses. render.go:93 says "newPager computes display + link state for a window [offset, offset+limit) over a list of `total` items." |
| `cmd/console/tui/tui.go:229` | ListByHost returns a nil slice for a host without ports, and Update keeps the port list it has when the answer's is nil: the ports of the host looked at before are shown. README.md:244 calls the view "Per-host metadata and open port table" (README.md:250: the console provides the same views), and tui.go:667 has the text "No ports recorded for this host." for this case. |
| `cmd/console/tui/tui.go:222` | m.err is set when a load fails and never cleared, and View shows it in place of every view. README.md:263 says "\| `r` \| Refresh current view \|". |
| `internal/scanner/scanner.go:161` | Resolve hands the agent the global list as it is; an empty one that is not nil reaches Scan as ProbePorts and is not replaced by the Scanner's default, so nothing is probed. config.go:120-122 says "Leaving it empty falls back to the historical default of [22, 80, 443, 8080]." |
| `internal/config/config.go:457` | validate does not look at profiles. config.go:173-174 says "an empty (non-nil) slice means \"no liveness probe\" — not supported, validate rejects the empty case." |
| `internal/config/config.go:236` | Resolve checks that a subnet is given and unique and never parses it; Scan refuses it in every cycle. config.go:218 says "Profile.Subnet must be a parseable CIDR (caller doesn't need to re-validate)." |
| `internal/scanner/scanner.go:207` | The size check compares all 2^hostBits addresses with maxHosts, so a /16 with its 65534 usable addresses is refused at the default of 65535. README.md:342 says "Maximum usable addresses per subnet; larger subnets are rejected." |
| `internal/sqlite/db.go:74` | The pragmas are executed once on a `*sql.DB`. For the readers that is a pool, and connections it opens later have not run them, so their reads do not wait for a busy file; db.go:68 says "opens a single SQLite pool with the standard pragmas". |
| `internal/config/config.go:434` | The mode of the file is checked against the secrets of the merged configuration, so a world-readable file without a token is refused when the token comes from the environment. config.go:562-564 says "Tokens preferentially come from the environment so the JSON file can stay world-readable". Module `Config` does as the code: `SecretsPrivate`. |
| `internal/scanner/scanner.go:30` | The default deep ports lack 88 and 389, so the rule for "windows-dc" never fires with them, and a domain controller is "windows-server" or "windows-host". classify.go:97-100 says "Must fire BEFORE the generic SMB rule below so a DC isn't mislabelled as a plain windows-host", README.md:15 lists the type without a condition. |
| `internal/scanner/scanner.go:320` | Only one liveness port is kept. Without deep probing the type depends on which dial won, and so it does for the OpenSSH hint with it: a host with 22, 80, 443 and 8080 is a linux-host in the sweeps that 22 wins and blank in the others. scanner.go:265-267 says "Track every open port across the three scan stages so the classifier sees the full picture, not just the liveness winner." This is the precondition `Steady` of `SameHostSameType`. |
| `internal/scanner/banner.go:42` | `lineBanner` puts the name the port suggests before any greeting: a POP3 server on port 25 is recorded as "SMTP: +OK". scanner.go:522-524 says "Returns \"\" for unknown ports, dial failures, protocol-decode errors, or any other uncertainty — the inventory shows the field blank rather than mislabel." |
| `internal/scanner/banner.go:250` | One byte S is taken for PostgreSQL, and it is the first of the greeting "SSH-". banner.go:227-229 says "no other common service responds this way". The greetings "+OK" and "* OK" of POP3 and IMAP are in the same way taken for Redis (banner.go:193). |
| `internal/sqlite/host.go:29` | Every upsert overwrites all columns, with blanks too: a sweep whose reverse lookup or banner timed out removes the hostname, address or fingerprint an earlier one has found, and the first upsert of each sweep removes the type. models.go:39 says "DeviceType classifies the device". |
| `internal/scanner/scanner.go:402` | A TCP dial that fails writes nothing, so the row of a TCP port that was closed says open until its host is pruned. models.go:59 says "State is the observed port state." |
| `internal/agent/agent.go:229` | When `Count` fails the tracker gets the number of hosts of this cycle, which is 0 when its sweeps found nobody or failed. The peer's /health turns such a cycle away, but our own watchdog compares our own total without looking at `healthy` (watchdog.go:169), so equal inventories can show a drift of 100 % until the next good cycle. agent.go:223-224 says "Use the actual DB count so the tracker reflects total accumulated inventory, not just hosts found in this cycle.", watchdog.go:171 only "Skip the check if either side has not yet completed a scan." |
| `internal/watchdog/watchdog.go:78` | An interval of zero or less passes `validate`, which does not look at it, and `time.NewTicker` panics on it. config.go:456 says "validate checks config values that cannot be enforced by JSON unmarshalling." |

## 6. What is not modelled

- *The bytes of banner exchanges, reverse DNS, and how each system keeps its neighbour
  cache* (`scanner/banner.go`, `udp_banner.go`, `arp*.go`): `Classifier` has what each
  helper takes for its protocol, and not the versions and headers that it copies into a
  label. Hostnames decide nothing.
- *The security headers and the access log* of `admin/middleware.go`: equal on every
  answer.
- *The syntax of the configuration file*: JSON and durations. What `Load` neither checks
  nor overrides is left out, as is a failing `Stat` of a file that has been opened.
- *Dashboard, watchdog page, scan pages*: they read and show; the scan pages are the code
  of the host pages over another table.
- *Logging, tracing, metrics, TLS, models and the mains*: libraries wired in at start-up;
  no state of theirs decides what the program does. The counter of declared outages is
  the variable `pages` of `Watchdog`.
- *Rendering* of pages and of the console.
- *SQLite, the Go runtime, the network* are assumptions, named in the headers of the
  modules that make them. SQLite calls of one statement are atomic. "localhost" resolves
  to a loopback address, and a list of ports names no port twice.
- *Concurrency of port goroutines over several sweeps*: `Scanner` has the goroutines of one
  sweep, which starts with free tokens and without rows of its own; `Sweeps` has the rows
  of many sweeps, whose port goroutines answer one at a time.

## 7. The plan

Order of work: the scan engine and its contract first, since everything else trusts it;
then the loop that drives it; then what survives a process (migrations, tables); then
who reads it (health, watchdog, admin, console); then life cycle and configuration;
then what joins them, from the file to the rows of many sweeps. These are done as
sections 2 and 3 say. Left:

1. *Tokens of abandoned goroutines*: `Scanner` from a pool that goroutines of a cancelled
   sweep still hold.
