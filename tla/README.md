# ProxyPool: a verification development

TLA+ models of the parts of ProxyPool (`src/proxypool/`) that keep state across
calls, threads, processes, crashes and restarts; the TLC runs that check them on
small instances; and TLAPS proofs of what matters most, for every value of the
constants.

- [1. The system](#1-the-system): inventory of components
- [2. The modules](#2-the-modules): how state and actions correspond to the code
- [3. The runs](#3-the-runs): what each checks, its bounds, the fairness
- [4. The proofs](#4-the-proofs)
- [5. Where code and documentation disagree](#5-where-code-and-documentation-disagree)
- [6. Met and not checked](#6-met-and-not-checked)
- [7. What is left out](#7-what-is-left-out)
- [8. Plan](#8-plan)

## 1. The system

ProxyPool collects proxies from subscriptions, tests them, keeps them in SQLite
and routes traffic through chains of them: a gateway accepts a client's request,
finds its session, asks the chain service for a route (one proxy per hop), lets
an egress process (mihomo or sing-box) run the chain, and reports how the route
did.

One asyncio event loop runs the API, the gateway runtimes and the loops of
`api/app.py`. Next to it run the probe thread of the health manager, one daemon
thread per task of the task manager, and worker threads for blocking backend
calls; and, as operating system processes that outlive it, mihomo and sing-box.
The chain service and the sticky router are called on the event loop only: a call
of theirs is atomic with respect to the other calls, although the clients suspend
between calls.

| component | state | operations | what is hard | what makes it correct | module |
|---|---|---|---|---|---|
| Circuit breaker `pool/scoring.py` | state, consecutive failures and successes, deadline, half-open probes | record success/failure, read (which ages it), force, restore | time, reads that change state, restored state | never stuck, no early recovery, counters fit the state | `CircuitBreaker` |
| Node scoring `pool/scoring.py` | a window of samples, a score | record, score | two limits on a window, lazy cleaning | a score is that of the last results | `NodeScore` |
| Node pools, health manager `pool/node_pool.py`, `health_manager.py` | entries of front and exit nodes, breakers, rows, a probe thread | start, stop, probe, record, refresh | entries replaced under the probe thread, lost rows, an early stop | a dead node is not routed to, a live one comes back | `NodeHealth` |
| Sticky router `pool/sticky_router.py` | single-hop leases, load per egress IP | route, bind, delete, clean up | nodes going away under a lease | load of an IP = number of its leases; a session keeps its IP | `StickySessions` |
| Chain service, single-hop `pool/chain_service.py` | pool configuration, rows of leases | route, inherit, refresh, restart | refresh beside the probe thread | rows agree with leases | `StickySessions`, `NodeHealth` |
| Chain service, endpoints | multi-hop leases, rows of `sticky_leases` | route, bind, report, clean up, restart | late reports, restart with half the data | leases match their rows, exits are kept, new routes are sound | `EndpointRouting` |
| Chain service, exclusion memory | failed routes, failed nodes, healthy routes; two tables | fail, succeed, expire, restart | refused writes, two time formats | a failure is honoured for its cooldown | `RouteHealth` |
| Task manager `tasks/manager.py` | table of tasks, order list, one thread each | start, stop, delete, trim | stop racing the end, trimming | outcomes are final, stops are honoured, nothing active is dropped | `TaskManager` |
| Auto tasks `api/app.py`, `routers/tasks.py` | settings, last runs | a round every 5 s | a start that raises ends the round | no kind starves | `AutoTasks` |
| Chain instances `backend/chain_instance_manager.py`, `mihomo_manager.py` | rows, a process table, processes with pids and ports | ensure, start, stop, rebuild, sweep | rows derived from probes of processes that change meanwhile; restart | no row says running of another's process | `ChainInstances` |
| CONNECT gateway `gateway/forward_proxy.py`, `runtime.py` | none but the attempt in hand | find a route with an instance, preflight, report | a port held across a suspension | a port handed out answers | `ConnectGateway` |
| Gateway runtime `gateway/runtime.py` | listening servers per endpoint | sync, start, stop, settings | a sync suspends while a server closes | what listens is what is configured | `GatewayRuntime` |
| Sing-box backend `backend/singbox_manager.py` | processes in two records, rows, restart attempts | start, stop, create, delete, routes, list, health loop | three threads, a lock held for some steps | one process per instance, bounded restarts | `SingBoxBackend` |
| Tester's processes `tester/singbox.py` | one sing-box per look, its port | look at a node, through a front, fetch | a port given back before it is bound | the answer is the node's; no process is left | `Prober` |
| Tester `tester/service.py`, health check in `api/app.py` | runs, rows of proxies | batch, single test, stop, import, delete | results written minutes after the node was chosen | a row is of one look | `Testing` |
| Collector `collector/` | subscriptions, proxies, collections under way | refresh, import, reference, edit, delete | overlapping collections without a lock | limits, one row per URL, deletions stay | `Collector` |
| Pools, published subscriptions `pool/service.py`, `routers/pools.py` | pools, published rows | create, update, delete, publish, sync | ids, half-done steps, two filter languages | a pool has a subscription of its own | `Pools` |
| Configuration backup `routers/settings.py` | a backup, an import | export, import, reinstall | ids that change, a crash half way | what an import passed is there | `ConfigBackup` |
| Database upgrade `storage/sqlite.py` | the schema | open | a crash between statements | nothing is lost, a second start finishes | `SchemaUpgrade` |
| API guard `api/security.py`, `monitoring.py` | timestamps, slots, traces | admit, end | handlers that overlap or raise | limits count what they limit | `ApiGuard` |
| Proxy store `storage/sqlite.py` | the database | upserts, updates, queries | - | - | the rows are in the module that uses them |
| API handlers `api/` | - | one per endpoint | - | - | those that change state, in the module of what they change |
| Scheduler, GeoIP, storage mixins, security helpers, configuration, models, web UI | - | - | - | - | none, see [7](#7-what-is-left-out) |

The hazards of the code, each at its line, are the `hazards` of PROJECT.json;
those without a property say why.

## 2. The modules

| module | models | uses |
|---|---|---|
| `Breaker` | the breaker as a record and its methods as operators | - |
| `CircuitBreaker`, `CircuitBreakerProofs` | one breaker over time: probes, clock, row, crash, restart | `Breaker` |
| `NodeHealth`, `NodeHealthProofs` | a node's breaker, row and pool entries under probe threads and refreshes | `Breaker` |
| `TaskLifecycle` | what the task manager promises: the life of a task | - |
| `TaskManager`, `TaskManagerProofs` | the task table and the task threads, which implement it | `TaskLifecycle` |
| `RouteHealth` | the exclusion memory; also the abstract specification of what routing does to it | - |
| `EndpointRouting`, `EndpointRoutingProofs` | leases, rows, selection, reports, health check; implements `RouteHealth`; the proofs are about both | `RouteHealth` |
| `StickySessions`, `StickySessionsProofs` | single-hop leases, load per address, rows, inheritance | - |
| `ChainInstances` | rows, processes and ports of chain instances | - |
| `ConnectGateway`, `ConnectGatewayProofs` | CONNECT over those instances; the proofs are about both | `ChainInstances` |
| `NodeScore`, `SingBoxBackend`, `Prober`, `Testing`, `AutoTasks` | see below | composed by `MCProcesses`, proved about in `ProcessesProofs` |
| `GatewayRuntime`, `SchemaUpgrade`, `Collector`, `Pools`, `ConfigBackup`, `ApiGuard` | see below | composed by `MCServices`, proved about in `ServicesProofs` |
| `MCRouteHealth`, `MCEndpointRouting`, `MCStickySessions` | constants that need a definition | the module checked |

Definitions named `X_something` after a comment "Mutant" are wrong variants of
`X`; a check replaces `X` by one of them to see that a property notices.

### Breaker, CircuitBreaker

`Breaker` has the fields of `CircuitBreaker` (`scoring.py`): the state, the
consecutive failures and successes, the time left of the backoff (`_backoff_until`,
relative; `NoBackoff` for None), the probes admitted while half-open. Reading
`state` ages the breaker (`_check_open_timeout`), so every reader is an action or
part of one. Time is counted in ticks, fewer than the backoff; counters stop at
`CounterCap`, above all thresholds.

`CircuitBreaker` is what `_update_node_health` does with it, read before, record,
read after (`ProbeSucceeds`, `ProbeFails`), and, as a step of its own because the
process may die in between, the write of the row (`Persist`). `Restart` is
`_restore_state`. The manual `force_open` and `force_close` may come at any time.
The health manager of the running application is constructed without a
`health_storage`, so the rows are written only where one is passed in; the model
is of the code that does.

### NodeHealth

One node. `entry` is its `NodeEntry` in each pool it matches, `row` its row of
`node_health`, `breaker` the breaker that both pools share. A probe thread runs
`LoopHead` (the stop event), `Probe` (the probe and `_update_node_health` up to
step 5a), `Sync` (5b: `circuit_open` follows the breaker, on the entry found in 5a),
`Persist` (6), then the exit pool, unless no front is healthy (`SkipExit`). A
refresh (`RefreshRebuild`, then `RefreshLoad`) does not take the thread's lock:
entries are replaced, and filled from the row, in the middle of a probe; `live`
says that the entry in hand is still the pool's. `Stop` gives up waiting after five
seconds, so that `Start` may add a thread. Whether a probe succeeds (`works`) may
change at any time, between the probes of the two pools too. The window and the
score only order healthy nodes and are in `NodeScore`.

### NodeScore

`Appended` is the deque with its maximum, `Cleaned` what reading the rate does to
the window, `Scored` the order in which `NodeScorer.score` reads: the rate first,
which cleans, then latencies and the last success of what is left. The weights and
the decay are left out; a score stands for what it is calculated from. `results` is
history: everything recorded, against which the score is checked.

### TaskLifecycle, TaskManager

`TaskLifecycle` is what users of the manager rely on: a task is started, runs,
ends once, is cancelled only if it was asked to stop, may be forgotten when it has
ended, and does not come back.

`TaskManager` has one record per task with its status and `cancel_requested`, the
order list, and a program counter per thread. The lock is taken by `_update` and
`_should_stop` and released between them, so `Begin` (the first look), `CallRunner`
(the update to running), the runner's end, `LastLook` and `Finish` are separate
steps and `StopTask`, `DeleteTask` and other tasks' `StartTask` come in between.
`late` records the tasks stopped after their thread's last look. Under `TaskLife`,
the phase of each task and its flag, it implements `TaskLifecycle`.

### RouteHealth

For each route and node the ticks left of its exclusion in memory, and the same
of its row, relative to now and down to `NoRow`. A row's `expires_at` is compared
as text, `2024-01-01T10:00:00+00:00` with `2024-01-01 11:00:00`: with equal dates
the `T` is greater than the space, so a row is in force until its date is over.
`InForce` says that with the tick of the day, `hour`. Writes of the rows may be
refused when `DbMayFail`, one by one in the order of the code. `due` is history:
how long the last reported failure is to be honoured. `torn` are the routes of
which a row write was refused, for which nothing is claimed after a restart.

### EndpointRouting

One endpoint. A route is a sequence of nodes; `Route` has the lengths up to the
number of hops because a restored lease may be shorter. A lease has its hops, its
instance and its time left; its row only the exit. `_route_endpoint_request` is
four actions by its outcome: lease reused, lease replaced by a selection, nothing
found, no session. `bind_endpoint_instance_to_session` follows the routing in the
same step of the event loop and is part of it. The time from routing to the
report of the CONNECT preflight is `pending`, that of the health check from
reading the active route to reporting it is `probed`. Latencies are abstracted:
a search may return any of the combinations it admits.

What the service remembers of routes is changed through the actions of
`RouteHealth` only; that the whole implements `HealthSpec` is checked and proved.

### StickySessions

A pool's sessions over a front and an exit pool. A session stands for the pair of
session id and pool id that keys `_leases`. The pools are what the lookups see of
them: `upFront` and `upExit` are the nodes `get_healthy_nodes` lists, `egress` the
address of their entries; `NodeChanges` is what the probe thread and the refresh do
to them, any node at any time. A lease has its exit, its address and its time left;
its row the same, down to -1 because the clean-up of rows asks for strictly past.

`RouteRequest` is one call of `route_request`, atomic on the event loop:
`Reused`, `Created` or `NoRoute` by its outcome, then the row. `Kept` is the exit
of the lease or the fastest on its address (`_find_same_ip_exit`), `Chosen` the
better of two drawn at random, `Selected` with the second draw for an exit that is
the only front. `InheritLease` routes the target and writes no row, which `unsaved`
records. The front of an answer is kept nowhere, so that only whether there is
one (`HasFront`) is modelled; the exit may itself be in the front pool.

### ChainInstances, ConnectGateway

`rows` is `chain_egress_instances`, `table` the manager's process table, `procs` the
operating system's processes: up, deaf (alive, answering nothing), zombie; `foreign`
are the ports another program holds. Operations block the event loop, so they are
relations from a state to possible states (`Started`, `Ensured`, `Rebuilt`, ...) that
callers make actions: `ApiCreate`, `ApiStart`, `ApiStop`, `ApiRebuild` here, the search of
`ConnectGateway` there. `World` moves processes and ports between any two of them,
and `InstancesRestart` empties the table, not the processes.

A connection of `ConnectGateway` searches (`Attempt`: one route and its instance, up
to `ConnectAttempts`), then suspends in the preflight with a port in hand; the
instance is found (`Found`), not started (`NotStarted`: the failure is reported and
the search goes on), or its route is skipped (`Skipped`). After a failed preflight the
instance is marked failed and the search begins again. The service's memory of
failed routes is reduced to a set that `Forgiven` may shrink.

### SingBoxBackend

`children` are processes with the instance they serve, `processes` the table of Popen
objects, `process` the second reference to the default instance, `instanceRows` the
rows. What holds the manager's lock is one step; a request is the list of such
steps it takes (`todo`), on the event loop or on a worker thread, and the health
loop's check, probe and restart are `health`. Processes exit and stall at any time;
a start fails or succeeds, with the port taken or free.

### Prober

A look goes through the stages of `SingBoxProber`: a port the kernel gave and took
back (`FindPort`), spawn, wait for somebody to listen there, curl, the openai test,
the TCP fallback, stop. `boxes` are the sing-box processes; two may have been given
one port (`shared`). `answers` is what the looks said and of whom. The three users of
the class, a probe, a probe through a front, and a plain fetch (which the
collector's fetcher repeats), are `mode`.

### AutoTasks

Time is counted in rounds of five seconds, `age` is the time since `last_run` of each
kind. A round notes the time before the start, and a start that raises ends the
round (`Reached`, `Noted`). `skipped` counts the rounds a kind was due and not reached.

### GatewayRuntime

A handler of a settings request is a task with the operations ahead of it (`tasks`);
it runs alone (`running`) until it waits: for a bind, or for the connections of a
server it closed (`wait_closed`, Python 3.12). `runtimes` maps owners to objects as
the manager's dictionary does, `objects` have their server, `servers` what listens;
keeping the three apart is what lets a server be lost.

### SchemaUpgrade

`tables` has the columns of each table, `leases` and `legacy` what is in the new and the
renamed table. Statements of `executescript` and `ALTER TABLE` are durable one by
one, `INSERT` opens a transaction that only the final commit makes durable; `Crash`
comes anywhere, `Restart` begins again with what is durable. It starts from each of
the earlier schemas the code has upgrades for.

### Collector

A collection (`jobs`) is a thread that holds no lock: finding or creating the row of a
reference, the fetch, the count of nodes, each insert and the mark of the row are
separate steps, on the subscriptions as they were when it began. Requests start
refreshes, imports and imports with references; `Edit` is everything the API does to
subscriptions and proxies meanwhile.

### Testing

`rows` are the proxies, reduced to availability, failures and the fields a look
fills. A run (`runs`) takes nodes once and writes each result to the row that has the
key by then. The kinds differ in what they write: a batch, a single test, a
gateway health check, speed and openai tests. Imports and deletions come between.
`fresh` is history: a row's fronts are those of the last look at its node.

### Pools

A pool has filters of the pool language, a published subscription those of the
other; `PublishedFilters` is what publishing keeps of them, `PoolFilters` what routing
uses, `Matches` the two SQL conditions, `Links` what a reader of the subscription gets.
A process may end between two statements of a handler (`syncInterrupted` in the run).
Ids are never used again (AUTOINCREMENT), which `NextId` says.

### ConfigBackup

`Export` copies rows with their ids; an import is one step per row and per hop list,
and skips names that are taken; `Reinstall` is an empty database; a crash leaves
`importing` off at any point. `moved` says that the installation is not the one the
backup was made in, so that ids may name other pools.

### ApiGuard

`Arrives` is the middleware up to the handler: authorisation, rate (`IsLimited` with the
clean-up every minute), slot for batch requests. `Ends` is what happens when the
handler answers or raises, in the order of the code. `now` is in half minutes.
`counted`, `admitted` and `answered` are history.

## 3. The runs

| run | shows | bounds, and why they are enough |
|---|---|---|
| `MCCircuitBreaker` | a closed breaker is below its threshold; an open one has a deadline; a half-open one admits a probe; none is half-open before its backoff (`BreakerIsSound`); it closes only by a full trial or by force; once the node stays well it closes for good | thresholds 2, backoff 2 and maximum 3 ticks, counters to 3, 2 restarts: each threshold is passed, missed by one, and crossed by a crash |
| `MCTaskManager` | table and order list agree (`TableIsSound`), stops in time cancel, only active tasks exceed the room, every task ends, and all of it implements `TaskLifecycle` | 3 tasks, room for 1: one trims while others are queued, running, ended |
| `MCNodeHealth` | a node that keeps failing is excluded by the refresh of the next request, and at last for good; one that answers is at last offered for good | one node in both pools, one probe thread, thresholds 2, one lost row: a failure in hand and a lost row together make the row lag by more than one |
| `MCRouteHealth` | failures honoured, never failed and healthy, nodes out only with their route | a route and its prefix, 2 cooldowns, a day of 3 ticks so that exclusions end before and after midnight, refused writes, 1 restart |
| `MCRouteHealthExpiry` | violation: an exclusion outlives its cooldown | two routes that share a node |
| `MCEndpointRouting` | leases durable, exits kept, new routes sound, the routing implements `RouteHealth` | one session, two nodes in two pools (so that nodes can repeat and hops go missing), 1 pending preflight, 1 restart |
| `MCEndpointRoutingHops` | violation: a restored route misses a hop | as above |
| `MCStickySessions` | loads and rows agree with leases, sessions keep their address | two sessions (symmetric), two exits of which one is a front too, one address or none, a lease of one tick, 1 restart, at most 1 counted on the empty address |
| `MCConnectGateway` | no row says running of another's process (`RowsAreSound`), and a port handed out answers | two routes, two ports, three pids, so that a port and a row can outlive their process; one connection and the API beside it, 2 attempts |
| `MCProcesses` | sing-box: one process per instance and its records agree, the default instance recovers or uses up its restarts; looks: an answer is the node's, every look ends and its process with it; tests: the row of a node is of one look; auto tasks: no kind starves; scores: of the last results | the default instance, 2 restarts, 3 processes; 2 looks with 2 ports; 2 nodes, 2 overlapping runs; 3 kinds, intervals of 1 and 2 minutes, 3 rounds a minute; 4 results in a window of 2, and hours enough for each to grow old |
| `MCServices` | listeners as configured; an interrupted upgrade loses no lease and can be finished; overlapping collections keep limits and deletions; a pool has a published subscription of its own, and a synced one serves its nodes; an import restores what it passed; slots and rates count what they limit | 2 endpoints and the legacy one over 2 ports, one handler; 2 sessions in the old table; 2 collections, 3 keys, room for 1; 2 pools, 2 published rows, 2 countries; 2 endpoints in a backup; 2 requests, 2 paths, a window of 2 ticks and 3 ticks in all |
| `MCSchemaUpgrade` | violation: a database with the account column cannot be opened | 2 sessions |

`MCServices` and `MCProcesses` hold components that share no state. `focus`, chosen
at the start, says which of them moves, so each is explored as if it were alone and
the state spaces add; the resting ones begin in one state each.

One session is enough for `MCEndpointRouting` because leases of sessions share
nothing but the exclusion memory, and that is any in the reports and the health
check; the proofs cover any number. Two sessions are in `MCStickySessions` because
they share the load and one inherits from the other; they are interchangeable in
the module, so that symmetry is sound for the safety properties checked. `MaxLoad`
is needed because the load of the empty address never goes down. One connection is
enough for `MCConnectGateway` because a second one can do to the instances only what
the API's calls and `World` do already; a second that fails the first one's
route while it is in its preflight is not covered. One handler in `MCServices`
means that settings requests do not overlap; what two can do is told in
[section 6](#6-met-and-not-checked).

*Deadlock* is checked except for the task manager, whose tasks all end. Where
another model reaches the end of its bounds, a step `Terminating` says so.

*Fairness.* `CircuitBreaker`: the clock ticks, the probe loop keeps probing and
persisting (`while not stop_event`); nobody forces the breaker once the node is
well, and none is assumed of restarts. `TaskManager`: each thread runs on and its
runner ends, as all of them loop over finitely many probes that have timeouts; a
runner that never returns is outside. `NodeHealth`: the threads run, requests keep
refreshing, and time does not stop, weakly fair but for the tick, which is only put
off while a result is recorded. `SingBoxBackend`: the health loop of the application
goes on. `Prober`: each look goes on; curl and the wait for a port have timeouts.
Nothing is assumed of users, nodes or processes. The other modules claim safety only.

## 4. The proofs

All are of the specifications the runs check, for any value of the constants
that satisfies the named assumptions.

**CircuitBreakerProofs.** The assumptions are that thresholds are
positive, the backoffs are ordered and the cap is above the thresholds. The
inductive invariant ties state and fields together for the breaker *and for its
row*: a restart makes one the other, so each needs it (`Sound`, which each
method is shown to preserve). The history counters `trial` and `quiet` are bounded
by the breaker's own (`consecutive_successes`, the backoff left). From it:
`BreakersAreSound`, and the action property that closing needs the trial.

**NodeHealthProofs.** Types, for any number of probe threads (`TypeCorrect`). For a
single thread, `SingleLoopExcludesDeadNode`: no refresh lets a node through that
keeps failing. The property is not inductive; the invariant (`RowFollows`) is that as
long as the row's circuit is closed, the row counts every failure of the streak but
the one the thread has in hand and those whose write was lost, and that a success in
hand means the streak is over. The assumption of one thread is needed: another's
success may reach the row after this one's failures.

**TaskManagerProofs.** The invariant relates program counter, flag and status: a
thread past its last look that saw no flag is one whose flag was set later, if at
all (`late`). Proved are that a stop in time cancels, that outcomes are final, that
active tasks are kept, and the refinement `TaskManagerImplementsLifecycle`: for each
action a lemma says which step of `TaskLifecycle` it is, or that it changes no task's
life. About the table itself: the order list names the tasks there are, each once
(`TableIsAlwaysSound`), and what a start leaves above the limit is active
(`ExcessIsAlwaysActive`). Both rest on what `Without` does to a list
(`WithoutKeepsPlaces`): it is defined by the rank of each index among those that stay, which
makes it the list without those tasks, in the same order, by counting instead of
recursion.

**EndpointRoutingProofs.** First the exclusion memory. `DueIsKept`: a failure due for
honouring is due no longer than memory keeps it, or than its row does unless a write
was refused; stable under the passage of midnight because a row with time left is in
force whatever the hour is. `NodesAreLeftOutWithRoutes` is not inductive as it stands,
as a node could be forgotten later than its route. The invariant (`NodeFollowsRoute`)
says, of every node none of whose routes is torn, that memory and the row leave it
out no longer than the *row* of a route that starts at it: a restart reads the rows,
and a row in force is one until midnight, for node and route alike.

Then the routing. Every action is a step of `RouteHealth` or leaves its
variables alone (`RoutingImplementsHealth`), which brings the theorems about
`RouteHealth` along. Types of leases and rows give that a lease and its row agree
(`LeasesAreDurable`), `DueIsKept` gives that a selected route has no failure
to be honoured (`NewRoutesAreSound`), and that agreement gives that a restart brings
a session's exit back, so that it keeps it (`SessionsKeepTheirExit`).

**StickySessionsProofs.** The assumptions are that the sessions are finitely many
and the time to live is positive. The counting argument is stated for any table of
leases (`Counted(counts, table)`): `_remove_lease` and `_create_lease` keep it
(`ReleasedCounts`, `AcquiredCounts`), and what expires, is replaced, cleaned up or
restored is made of these or of set differences. The invariant adds types and the
agreement of leases with their rows. `SessionsKeepTheirIp` needs, besides, that
among the exits on an address there is always a fastest one (`FastestExists`, from
the well-foundedness of the naturals), so that the search does not come back
empty-handed.

**ServicesProofs.** The six components of `MCServices`, for any sets of endpoints,
ports, sessions, nodes, filters, requests and so on, as `ServicesAssumption` admits
them. Each section has the invariant of one component; a step of the whole is a step of
one and a stutter of the others (`OneMoves`), so that the last section only collects.

- *ApiGuard.* The slots of a path are the requests in its handlers, by counting a set
  that changes by one element. For the rates: the limiter's entry and the requests
  admitted in the last window are the same, although clean-ups and refusals drop older
  ones at times of their own. A new admission finds room in its own window; a span
  that ends later or began earlier gains nothing.
- *SchemaUpgrade.* What each stage of an upgrade has done to each table, and where the
  leases are when one stops: in the new table, the renamed one, or both. From it, that
  no lease is lost and that the upgrade that ends has done it all.
- *Collector.* Each node of the catalogue has a collection that answers for it
  (`Answers`), and a collection answers for no more than it has counted and never for
  more than the limit; so the catalogue is no larger than the limit for each of them,
  whatever was deleted meanwhile. What is still to be looked up by its URL has one, so
  that a row made for it is the only one of that URL.
- *Pools.* A pool and its published subscription name each other, but for a sync that
  was interrupted; ids are never used again, so a new pool is unknown. That a
  synced pool of plain filters serves its nodes is then a fact about `PublishedFilters`,
  `PoolFilters` and `Matches`.
- *ConfigBackup.* Ids that rows name were given out, and each endpoint an import has
  passed has a row of its own with the backup's hops.
- *GatewayRuntime.* `ListensAsConfiguredAlways` is proved for one handler, as the run
  checks it: when two overlap, `sync` does not hold the listeners together
  (`runtime.py:389`), and the property is false. The invariant (`ListenInv`) says at
  each point of the operation under way which runtimes are to be stopped, which to be
  started and what is still behind them, so that when nothing is left to do the
  listeners are the configured ones; a bind that fails leaves an error, and the
  property does not speak of that endpoint until the next sync.

**ProcessesProofs.** The five components of `MCProcesses`, in the same way, as
`ProcessesAssumption` admits them.

- *SingBoxBackend.* `OneProcessPerInstance` needs what the threads have still to do
  (`todo`) to be typed, and of the starts and stops only that whoever starts a process
  has seen that none is up for the instance: `Alone` is kept by every step that
  starts none (`NoneStarts`), and `StartSteps` is the one that does.
- *Prober.* Ports of looks differ and answers are of their nodes, until two looks share
  a port; and who has no port has no sing-box.
- *AutoTasks.* That a kind is passed over at most once for each kind before it is not
  inductive. The invariant adds how young the kinds are that were tried instead: one
  that was tried in the last two rounds is not due again, as an interval lasts
  at least three (`RoundsPerMinute`).
- *NodeScore.* `WindowIsRight`: the window is the last part of all results, and what it
  lacks was pushed out or has aged. Appending and cleaning keep it
  (`AppendedIsRight`, `CleanedIsRight`), as the results are in the order of time. Then what
  is counted is the window, moved by what it lacks (`WindowCounts`), a bijection that
  keeps cardinalities and ranks (`PartsMatch`, `Ranks`); so the rate, the latencies in
  their order and the age of the last success are right (`ScoredIsRight`).
- *Testing.* A record is available only without failures, and names fronts only of its
  last look; a run that wrote after it was told to stop waits for no more.

**ConnectGatewayProofs.** The operations on instances are operators on states, so
the proof goes by operator and not by action: each keeps a state `Good` (types, and
that a running row names the process in the backend's table or the table has none).
Between the spawn of a process and the write of its row, the row is wrong, so what
comes between is proved from `GoodBut(s, r)`, which leaves that one route out. A state in
which `Ensured` succeeds has a process or a foreign server that answers on the port
of the row (`EnsuredIsGood`): a live row was just asked, and a started one has the
port its process was given. The gateway adds that a search or preflight under way
has an attempt left to give up and a preflight its route (`ConnIsSound`), without
which its counters would leave their types. From them `RowsAreAlwaysSound` and
`HandedOutPortsAnswer`. The assumptions are that the routes are finitely many and not
none, ports are not 0, and there is at least one attempt.

Beyond the prover, and so with TLC: liveness (`Recovers`, `EveryTaskEnds`,
`DeadNodeIsExcluded`, `LiveNodeIsOffered`, `RecoversOrGivesUp`, `EveryLookEnds`), and
what recursive definitions compute for every input.

## 5. Where code and documentation disagree

Each is a run that ends in a violation; PROJECT.json quotes the lines.

- "currently failed (not expired)" (`sqlite.py:2774`): an exclusion lasts until
  midnight UTC because two timestamp formats are compared as text.
- "ordered proxy pools used for multi-hop routes" (`guide/gateway/README.md:20`):
  hops of a restored lease are drawn afresh, and one without a candidate is left
  out; the exit then takes the place of the hop before.
- "_ensure_columns should migrate sticky_leases from old 'account' schema"
  (`tests/test_storage_sqlite_deep.py:194`): the script that runs before it indexes a
  column that schema does not have, and the constructor raises.

## 6. Met and not checked

What the models show, or reading for them showed, that no run states as a property.

*Routing and sessions.* A task cancelled between its thread's look at the flag and the
runner's call has status cancelled, and runs (`manager.py:86-91`;
`guide/tasks/README.md:15` says queued tasks are cancelled immediately). A failed
route also puts its first node among the failed ones, which excludes other routes
(`chain_service.py:614`, against the docstring at 595), and a session with a lease on
a failed route is given it again (1052). A failure reported late drops the
session's newer lease (603). An inherited lease is routed afresh rather than copied
(571, against 552) and has no row until it is used (561, the `unsaved` of
`LeaseIsDurable`). A lease without an address is counted and not counted down
(`sticky_router.py:265`). A single-hop lease made before its exit's address was known
is moved once a probe has found it (142, why `SessionKeepsIp` speaks of known
addresses). `_load_failed_routes` splits at commas what was joined with `>`, so
that multi-hop failures are not found in memory after a restart; the database is
asked as well, which is why `ExcludedForCooldown` holds. The breaker is one "with
exponential backoff" (`scoring.py:436`), and nothing increases the backoff.

*Nodes.* Two probe threads, after a stop that gave up waiting, can undo each other's
results. The half-open state lives in the breaker and the entry only, and each
refresh, before every request, drops the entries' scores until the next probe. A
failed probe can raise a score while the window fills.

*Chain instances and CONNECT.* The search skips all further routes of an endpoint
after one failure, because `_build_route_signature` (`chain_service.py:1098`) is the
same for all of them. A zombie child counts as alive, so a row whose port another
process took is believed live. Starting over a live instance orphans its process
(`mihomo_manager.py:33`); processes outlive the application. Ids use the first four
hops only. A connection that holds a port across its preflight may by then reach
another route's instance, which is why `HandedOutPortAnswers` is about the moment
the port is handed out.

*Sing-box.* The health loop restarts a default instance that the user stopped. A restart
that returns early counts as a success, and attempts are not reset. Routes and list
read a row and write it later without the lock; a deletion that races the health
loop's restart leaves a process without a row. Two looks given one port: one may find
the other's sing-box listening. An unsupported protocol falls back to a TCP
connection and is reported available.

*Gateway runtime.* A settings request hangs while a tunnel through the server it closes
is open; swapping the ports of two endpoints fails; two handlers that overlap can
stop an endpoint that was just enabled, or leave a server that nothing can stop.

*Tasks, collections, tests.* An automatic start that raises waits a whole interval;
tasks of a kind may overlap; whether one still runs is not looked at. Overlapping
collections overshoot the limit, by at most one text each; at the limit, known
nodes are not updated. The endpoint for refreshing several subscriptions calls a method
the collector does not have. A gateway check writes a node without fronts and, like
the TCP fallback, wipes the openai verdict; a result written to a row that was
imported again is of the old node.

*Pools and backup.* Deleting a pool while any endpoint exists calls a method the storage
does not have (`routers/pools.py:201`, 804). A pool whose published subscription was
deleted can never be synced. Published filters drop what the subscription language
lacks (several countries, for one), which is why `PlainSyncServesThePool` is about
plain filters. A backup's hops keep the exporter's pool ids; `overwrite_existing`
overwrites nothing; a rollback restores nothing; a crash between an endpoint and its
hops leaves an endpoint without any, which a second import skips.

*Database and API.* A crash between the renaming of the lease table and the commit
leaves the leases in the legacy table: the next start finds the new one and goes on. Requests that end
with 401, 413, 414, 429 or an exception never end their trace; one refused for
concurrency still counts against the rate; GET and POST share timestamps.

## 7. What is left out

*No state that outlives a call:* the byte pumps of the gateway, parsing of share
links and Clash files, the text of mihomo and sing-box configurations, security
helpers, settings, models, summaries, metrics and exports of the API, the web UI.

*Not reached:* `SchedulerService` is never started, GeoIP's endpoints answer that they
are not implemented, the storage mixins are inherited by nobody, `APIKeyManager` and
`security/rate_limiter.py` are never consulted.

*Within the modelled components:* proxies deleted or pools edited while leases refer to
them, an endpoint's hops changed, failed writes of `sticky_leases` (the code does not
handle them: the request fails), the cap of the combinations a search looks at,
latencies beyond an order, the texts of errors; `replace_failed_proxy` of the
tester; settings in a backup. The plain HTTP path of the gateway shares the search
with CONNECT and has no preflight; how a session is read from a request is any
session. One endpoint, one breaker, one node of the health manager are modelled:
each shares no state with others but what the module names.

## 8. Plan

Done, in this order: `Breaker` and `CircuitBreaker`; `TaskManager`; `RouteHealth`;
`EndpointRouting` over it; `StickySessions`; `NodeHealth`; `ChainInstances` and
`ConnectGateway`; `SingBoxBackend`; `GatewayRuntime`; `Prober`, `AutoTasks`, `NodeScore`;
`SchemaUpgrade`, `Collector`, `Testing`, `Pools`, `ConfigBackup`, `ApiGuard`;
`TaskLifecycle` and its refinement.

Next:

1. `ConnectGateway` over `EndpointRouting`'s memory instead of a set of routes, and
   with two connections.
2. `GatewayRuntime` with two handlers, and what then still holds.
3. An abstract lease table that both kinds of lease implement.
