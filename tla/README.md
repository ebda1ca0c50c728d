# docker-awakening-gateway: specifications, model checks and proofs

The gateway is a reverse proxy that starts Docker containers when somebody asks
for them and stops them when nobody does. This directory holds TLA+ modules that
model its control: who starts and stops containers, in which order, what the
gateway believes about them, where its configuration comes from and how it is
replaced under a request, when schedules let requests through, and what the pages
in the browser learn of all this. TLC checks the modules on small instances; TLAPS
proves for all instances every invariant of the runs that pass, with the inductive
invariants these need and the hypotheses that section 4 names, that the gateway
implements its container manager and the rate limiter its abstract specification,
and what the depth-first searches for dependencies return.

All paths below are relative to the root of the repository, with the code under
`src/`.

    tlc -workers 2 -config ManagerFaults.cfg MCContainerManager.tla
    tlapm ContainerManagerProofs.tla

`PROJECT.json` lists runs, findings, hazards, theorems, and the source lines of
every definition.

## 1. The system

| Component | Code | State | Operations |
|---|---|---|---|
| Container manager | `gateway/manager.go` | start state, last activity and a mutex per container | `EnsureRunning`, `EnsureDepsRunning`, `EnsureGroupRunning`, `InitStartState`, `RecordActivityChain`, `GetStartState` |
| Dependency resolution | `gateway/group.go`, `manager.go` | none | `TopologicalSort`, `BuildReverseDeps`, `topoMergeStop` |
| Idle watcher | `manager.go` | a snapshot, the shutdown set of one cascade | `checkIdle`, `cascadeStop` |
| HTTP handlers | `gateway/server.go` | per request: a container, statuses read | `handleRequest`, `handleGroupRequest`, `handleStatusWake`, `handleHealth`, `handleLogs`, `handleStatusAPI`, `handleTopology` |
| Group router | `group.go` | a counter per group | `Pick` |
| Scheduler | `gateway/scheduler.go` | registered cron entries | `Sync`, the start and stop jobs, `IsInScheduleWindow`, `validateScheduleCompatibility` |
| Discovery | `gateway/discovery.go` | static and last merged configuration | `runDiscovery`, `UpdateStaticConfig`, `mergeConfigs` |
| Configuration | `gateway/config.go` | none | `LoadConfig`, `Validate`, `applyDefaults`, `detectDependencyCycles`, index builders |
| Server configuration | `server.go` | configuration and its indexes | `ReloadConfig`, `GetConfig`, `resolveConfig`, `resolveGroup` |
| Docker client | `gateway/docker.go` | none | status, address, start, stop, probes, logs, labelled containers |
| Rate limiter | `server.go` | last allowed request per client | `Allow`, `evictStale` |
| Proxy | `server.go` | connections | `proxyRequest`, `proxyWebSocket` |
| Admin authentication | `gateway/admin_auth.go` | none | `adminAuthMiddleware` |
| Metrics | `gateway/metrics.go` | Prometheus counters | `Record...` |
| Loading page | `templates/loading.html` | polling state in the browser | polls `/_health` and `/_logs` |
| Dashboard | `templates/status.html` | none | polls `/_status/api`, posts `/_status/wake` |
| Process | `main.go` | signals | startup order, SIGHUP, SIGTERM |

How they interact:

* Handlers, cron jobs and the dashboard spawn goroutines that call the manager and
  are not waited for. They communicate through the start states, which `/_health`
  serves to the loading page, and through Docker.
* The idle watcher reads the activity that handlers and the manager record and
  stops containers through Docker. It takes none of the manager's mutexes.
* Discovery runs passes in three threads (startup, ticker, signal handler) and
  pushes configurations to the server, which re-registers the cron jobs.
* Handlers read the server's configuration several times in the course of a
  request, each time under the lock, while `ReloadConfig` replaces it.
* The pages poll four endpoints through one rate limiter, which knows clients by
  their address only.
* Docker, the applications and the operators change the containers at any time.

What is hard about it: decisions on statuses that are stale when they are acted
on, start and stop that do not exclude each other, goroutines with their own
deadlines that share mutexes and start states, a lost answer of the Docker API,
passes of discovery that overlap, the order of startup, reloads between two
lookups of a request, timers of a page that fall into step with the rate limiter,
and a gate that computes what the cron jobs should have done. The hazards in
`PROJECT.json` give each of these its line and the properties that watch it.

What makes each component correct:

* Manager: one attempt per container at a time; `docker start` only for what does
  not run; an attempt is visible as `starting`; `running` means probed; a plan goes
  on only after its step succeeded; every goroutine comes back.
* Idle watcher: dependents before dependencies; nothing is stopped that a running
  container needs, that was used within its timeout or that has no timeout; what is
  idle is stopped in the end.
* Handlers: requests are forwarded to ready containers with their dependencies up;
  a request for a sleeping container wakes it; `starting` resolves.
* Discovery: only valid configurations reach the server; the server settles on the
  merge of file and labels; what a reload says arrives, with groups and cron jobs.
* Dependency resolution: the orders are topological on every valid graph, and only
  graphs without cycles are valid.
* Server configuration: what a request starts, keeps awake or fails on is explained
  by one configuration that was in force while it was served.
* Scheduler: the gate is open inside the documented window, agrees with the jobs,
  and opens when the offline page says.
* Rate limiter and pages: evictions change no answer, silent clients are forgotten,
  an open page learns how the start ended.

## 2. The modules

| Module | Models | Extends / instantiates |
|---|---|---|
| `Dependencies` | dependency graph, start order, dependents, stop orders | |
| `StartJobs` | the calls that handlers make of the manager | `Dependencies` |
| `ContainerManager` | the manager, for any callers | |
| `IdleWatcher` | `checkIdle` and `cascadeStop` | `Dependencies` |
| `Gateway` | handlers, dashboard, cron jobs and idle watcher around one manager | `StartJobs`; `INSTANCE ContainerManager`, `INSTANCE IdleWatcher` |
| `Configuration` | configurations, their validation, the depth-first searches with their errors | |
| `Discovery` | startup, ticker and signal passes, listing, merge, push, `Sync` | `Configuration` |
| `Serving` | one request, and the goroutine it leaves, under reloads | `Configuration` |
| `Schedule` | gate, validation and cron jobs of one container | |
| `Limiter` | abstract rate limiter that never forgets a client | |
| `RateLimiter` | `Allow` and `evictStale` | `INSTANCE Limiter` |
| `Polling` | loading page and dashboard, polling through the rate limiter | `RateLimiter` |
| `Recursion` | lemmas: induction, loops and recursive functions in set form | `WellFoundedInduction`, `TLAPS` |
| `DependenciesProofs` | theorems about `Dependencies` | `Dependencies`, `Recursion` |
| `ContainerManagerProofs` | theorems about `ContainerManager` | `ContainerManager`, `TLAPS` |
| `IdleWatcherProofs` | theorems about `IdleWatcher` | `IdleWatcher`, `DependenciesProofs` |
| `GatewayProofs` | theorems about `Gateway`, among them the refinement | `Gateway`, `DependenciesProofs`; `INSTANCE ContainerManagerProofs` |
| `ConfigurationProofs` | theorems about `Configuration`, `Serving` and `Discovery`, and what connects them | `Serving`, `Discovery`, `Recursion` |
| `PollingProofs` | theorems about `Polling`, among them the refinement of `Limiter` | `Polling`, `TLAPS` |
| `ScheduleProofs` | theorems about `Schedule` | `Schedule`, `Recursion` |
| `MC...` | graphs, jobs, configurations for TLC | the module they are named after |

### ContainerManager

`docker[c]` is the container as the daemon has it: `absent`, `exited`, `booting` or
`ready`. The last two are both `running` for `GetContainerStatus`; the difference
is whether the application answers the readiness probe. The statuses `created`,
`paused`, `restarting` and `dead` are left out. `startStates`, `lastSeen` and
`locks` are the maps of the same names; `lastSeen` holds the age of the timestamp,
which `Tick` increases up to `MaxAge`.

A goroutine is a `plan`: the list of containers that it brings up, each with the
information whether the loop calls `InitStartState` first. `pc[p]` walks through
`EnsureRunning`:

    (init) -> lock -> check -> start -> address -> wait <-> probe -> mark

`Return` is the return with `nil` and what the calling loop does with it, `Fail` the
return with an error, which ends the plan. Each call of the Docker API is one
action for each of its outcomes; `StartReplyLost` is the call that took effect and
returned an error. A goroutine whose context has expired gets errors from Docker
but may still win the race of the `select` for a tick. The TCP probe is one dial,
the HTTP probe a loop that ends with an answer or with the context (`ProbeFails`).

`Stoppable` is what the gateway itself may stop, `Faults` which faults a run
admits. Properties that need the absence of a fault say so in their statement, so
that theorems and runs share one definition.

The code between two Docker calls is one action. The short critical sections of
`ContainerManager.mu` are therefore not visible, with one effect: activity and
state are written together at the end of an attempt (`manager.go:209-210`).

### IdleWatcher

`CheckIdle` is the snapshot and the choice of the stop order; the order in which
`topoMergeStop` walks its map is nondeterministic. `CascadeStop` is the loop: each
dependent's status (`StillNeeded`, `NotNeededBy`), the container's own status
(`ToBeStopped`, `NotRunning`), `docker stop` and the start state. The dependents of
one container are asked in any order; the code takes the order of the file, which
is as arbitrary. Checked alone, the watcher lives in a world where containers
start between cascades (with the fault `start`: also during one), exit, and have
requests forwarded to them; in `Gateway` it meets the real one.

### Gateway

`hpc[h]` walks a handler through its status calls to `Spawn`, which marks the
containers and starts a plan, or to the forwarding. `GatewayJobs` is the set of all
plans that the handlers make, and `ImplementsManager` says that the composition
implements `ContainerManager` with these jobs: `CM!Spec` is checked as a property,
the refinement mapping being the identity on the manager's variables. What is
proved of the manager for any jobs therefore applies to the gateway.

The number of goroutines is bounded by `Proc`. A handler that finds none free waits,
where the code would go on; a run with more goroutines has more behaviours.
Requests that name a container without a host (`?container=`) are covered by
`Requested`. The access gate answers without touching any state of this module;
`Schedule` models it.

### Configuration and Dependencies

A configuration is the list of its containers (name, host, dependencies in the order
of the file, whether it has a schedule) and the set of its groups. `Validate` is
`GatewayConfig.Validate` for these fields. `Visit` is the depth-first search that
`detectDependencyCycles` and `TopologicalSort` have in common: a function of the
`path` of nodes in the state "visiting", the node, and the search so far, a record
of type `Search`: `order` holds the nodes that were left, `failed` is the error.
`Loop` is a Go loop over a list, one function from state to state after the other.
Recursion and loops are recursive functions and not `RECURSIVE` operators, so that
they can be reasoned about; the argument `path` is what the recursion is founded on,
and the names are finitely many (`NamesAssumption`). The
search of the validation finds no unknown names because they have been ruled out
before. `Acyclic` and `NeededBy` are definitions without a search, for the
properties. `Dependencies`, which `Gateway` and `IdleWatcher` use, has the orders of
one finite graph that is known to be valid (`DependsOnAssumption`), and the stop orders.

### Discovery

`DiscoverLabeledContainers` drops containers without a host, `Merge` is
`mergeConfigs`. A pass is `List`, `MergeConfigs`, `Unchanged` or
`Changed`, `Push`; the mutex makes each of these atomic and nothing more.
The threads `main`, `ticker` and `signal` run passes; main has only the one at
startup and then overwrites the jobs (`SyncAtStartup`). Files that do not parse or
validate end a SIGHUP without effect and are left out, which `StaticConfigsAssumption`
says of the others. The names of state and specification (`stage`, `served`,
`DiscoverySpec`) differ from those of `Serving` so that one module can extend both.

Nothing in the code keeps two passes apart, but a pass is short compared with the
interval of the ticker. `overlap` in `Faults` admits passes that overlap; without
it a pass begins when the one before has ended.

### Serving

One request with its goroutine, step by step between two acquisitions of `configMu`:
the group (`resolveGroup`), the container (`FindEntry`, `NotFound`), the list of all
containers for the dependencies, for the goroutine or for the activity (`CheckDeps`,
`Start`, `StartGroup`, `RecordActivity`). What a step has read stays in `group`,
`entry` and `list`. `ReloadConfig` comes between any two steps. Docker's answers are
nondeterministic and the starts themselves are in `Gateway`: here `plan` is the list of names
that the goroutine would start and `active` the containers whose activity is
recorded. `since` collects the configurations in force since the request came, for
the properties. Requests share nothing but the configuration, so one is enough.

The configuration of startup may have groups, the later ones have none (`Pushed`),
because that is what `mergeConfigs` makes of them. `ConfigsAssumption`, that all are
valid, and `Pushed` are what `Discovery` guarantees (theorem `PushesAsServed`).

### Schedule

Time is counted in minutes. A cron expression is the set of the minutes of a period
at which it fires; `NextFiring` is the library's `Next`. `IsInScheduleWindow`,
`prevFiring` and `validateScheduleCompatibility` are the functions of the same names;
`Gate` is what `handleRequest` asks. One container with one pair of schedules lives
through the jobs of the minute (`Tick`), the goroutines that jobs and requests spawn
(`starter`), `docker stop` and downtimes of the gateway. `last` is the job that fired
last, or `lost` if it had no effect; when both fire in one minute, cron runs them in
any order. The clock is kept modulo a common multiple of the periods.

### RateLimiter, Limiter and Polling

`RateLimiter` is the map of the limiter with ages instead of times; an age saturates
where the eviction no longer tells it apart. `Limiter` promises that a request is
allowed exactly if the client was silent for the interval. The refinement maps a
client without an entry to one that has been silent.

`Polling` puts the pages in front of it. A tick is half a second. A page fires its
timers on time, its requests are on their way for up to `MaxDelay` ticks, `Arrive`
is the handler with the limiter in front, and an answer of `/_health` is handled
before the next one is asked for. `Becomes` changes the start state and Docker's
status in the ways that the manager can. `waited` counts for how long there has been
an outcome that the page could learn.

## 3. Runs

All runs that pass explore their state space completely.

| Run | Faults | Shows |
|---|---|---|
| `ManagerFaults` | all | three goroutines, three plans that meet in `db`: one attempt at a time, attempts stay visible as `starting`, and a mutex that is held has a holder at work |
| `ManagerQuiet` | removal, deadline, restart | containers do not stop by themselves: start only what is stopped, `running` means ready, predecessors run, every goroutine comes back, an attempt with a TCP probe notices that its container was stopped |
| `WatcherCascade` | crash, removal | dependents first, in every order of the Go map; direct dependents are safe if nothing starts during the cascade; idle entry points are stopped |
| `GatewayRefines` | API errors, deadline, restart | handlers, dashboard, cron jobs, idle watcher and manager together implement the manager |
| `GatewayForward` | none | the dependencies run at `docker start` and when a request is forwarded; a request brings up a chain of three |
| `ServingReload` | reloads | validation finds every cycle; plans, activity and errors of a request come from one configuration, not from a mixture |
| `DiscoveryPasses` | failing listings | the server only gets valid configurations, `lastConfig` is what was pushed, the server converges |
| `PollingPages` | refused polls | a loading page next to a dashboard learns the outcome, evictions change no answer, silent clients are forgotten |
| `ScheduleWindow` | downtimes, Docker errors | the gate has the documented window, agrees with the jobs, opens at the announced start and keeps requests out |

Bounds. Two goroutines are enough for every pairwise conflict over a mutex or a
start state, and the third lets one wait for a mutex while two others pass it on.
The plans of the manager's runs overlap in `db` from different starting points.
Two containers with one dependency show the interplay of a plan with itself; the
chain of three in `GatewayForward` adds transitive dependencies and a container
that occurs twice in them. Groups occur in `GatewayForward`, the idle watcher and
the stop job in `GatewayRefines`. The watcher's five containers are two entry
points over a chain that they share, with a container at its end that also has a
dependent of one entry point alone. `MaxAge` is the largest timeout of a run, so
an age that saturates is already idle. Discovery has two files, five label lists
(nothing, a new container next to one without a host, a conflict over a host, a
dependency that only one of the files satisfies, a cycle) and two edits, enough for
one edit of each kind, for two of one kind and for one that comes during a pass. `Serving` has every valid configuration of up to
three containers, whatever they depend on, with two hosts, and two groups; two reloads
are enough for a name that goes and comes back and for three configurations at the
three lookups of a path. `Schedule` has days of four minutes and weeks of three days:
every daily schedule, several weekly ones, one that never fires, and each of them
missing; the lookback of the gate and the lookahead of the validation are the week.
The cycle is two weeks, for pairs with a stop every other week (`ForeseeablePairs`).
`Polling` has the intervals of the templates (2, 3 and 5 s), the limiter's second
and requests that take up to half a second: `LearnsInTime` allows 20 s
(`Patience = 40`). A loading page alone (`AlonePage`, `AloneAddress`,
no dashboard) learns it within 7.5 s: TLC agrees for `Patience = 15`, which
section 4 proves, and finds a page that still waits for `Patience = 14`. `Proc` is symmetric where a run
checks invariants only.

Fairness. Goroutines that can go on do (`WF` of `Proceed`); a mutex is not withheld
for ever from one waiter (`sync.Mutex` hands over to a starving goroutine, hence
`SF` of `AcquireLock`); a done context wins the `select` in the end (`SF` of
`GiveUp`, because Go chooses among ready cases at random); timers fire (`TickerFires`,
the watcher's `CheckIdle`, `Tick`; `Expire` is assumed by `Gateway` and, through
`Deadlines`, by `AttemptsEnd`, while `CrashDetected` holds without it). `Gateway` adds that a
container which was started and does not crash comes up (`Boot`), and that a
handler gets to spawn its goroutine. `Discovery` adds that listing does not fail
for ever, `Polling` that timers fire, requests arrive and time goes on. `Serving` and
`Schedule` have safety properties only. No fairness is assumed of requests,
operators, crashes or edits.

### What the code does differently from what it says

Runs that TLC must find violated. Each checks one property that a comment or a
document states; the quotations are in `PROJECT.json`.

| Run | Property | Divergence |
|---|---|---|
| `GatewayStuck` | `StartingResolves` | a dependency that cannot be started leaves the container of the request `starting`, for good |
| `WatcherSharedChain` | `SparesNeededIndirectly` | the dependency of a spared dependency is stopped |
| `DiscoveryGroups` | `GroupsServed` | merging loses the groups |

Further divergences. The modules state these properties too, each with a comment
that names the code and, where there is one, the document. They have no run of
their own: TLC finds them violated when the constants of a run are changed as
described.

| Property | Start from, and change | What happens |
|---|---|---|
| `StartingResolves` | `GatewayStuck`: `SingleContainer`, `SingleDeps`, `SingleNoTimeout`, two goroutines and two handlers | a handler with a stale status takes `running` back to `starting`, for good (`server.go:316`) |
| `StartingResolves` | `GatewayStuck`, from a state with web ready and db exited | the repair of a dependency marks the running container and never unmarks it: its loading page polls for ever although everything is up (`server.go:296`) |
| `DependenciesFirst` | `GatewayStuck`, as an invariant: `Wakeable = {"web"}` | the dashboard starts a container without its dependencies (`server.go:951`; `config.go:108`) |
| `DependenciesFirst` | the same with `StartJob = {"web"}` instead | the schedule starts without dependencies (`scheduler.go:202`) |
| `DependenciesFirst` | the same with `PairTimeout` and `MaxAge = 1` instead | the watcher stops a dependency under a start (`manager.go:386`) |
| `ForwardOnlyReady` | `GatewayStuck`, as an invariant | a request during the boot is forwarded (`server.go:288`; `src/docs/how-it-works.md:116`) |
| `GroupForwardWithDependencies` | `GatewayForward` | group requests are forwarded on the status of the member alone (`server.go:359`; `src/docs/groups-and-dependencies.md:157`) |
| `HTTPCrashDetected` | `ManagerQuiet`: `Stoppable = {"app", "db"}` | the HTTP probe has a retry loop of its own and does not notice a crash (`manager.go:200`; `src/docs/health-probe-and-discovery.md:49`) |
| `PredecessorsReady` | `ManagerQuiet` | a dependency that boots counts as up (`manager.go:219`) |
| `StopsOnlyIdle` | `WatcherCascade`: `PairDeps` and `PairTimeout` with two hosts | an entry point in use is stopped as a dependency (`manager.go:347`; `src/docs/how-it-works.md:121`) |
| `StopsOnlyIdle` | the same with `FlatDeps` | a request during the cascade comes too late (`manager.go:414`) |
| `NeverAutoStop` | the same with `PairDeps` and `AppTimeout` | an entry point without a timeout is stopped as a dependency (`config.go:91`) |
| `SparesNeeded` | `WatcherCascade`: faults `{"start"}` | a dependent that starts after it was asked loses its dependency (`manager.go:366`) |
| `IdleMemberStops` | `WatcherCascade`: `FlatDeps`, `HasHost = {}` | members of a group without a host are never stopped (`manager.go:426`; `src/docs/groups-and-dependencies.md:126`) |
| `Converges` | `DiscoveryPasses`: faults `{"overlap"}` | passes that overlap leave the old file in place (`discovery.go:91`; `src/docs/hot-reload.md:29`) |
| `JobsServed` | `DiscoveryPasses` | startup removes the jobs of discovered containers (`main.go:59`; `src/docs/roadmap.md:76`) |
| `LearnsInTime` | `PollingPages`: `TwoPages`, `TwoOneAddress`, no dashboard | the polls of two loading pages behind one address take turns at being refused, and one page's `/_health` can be the refused one again and again (`server.go:396`) |
| `WindowAsDocumented`, `StaysValid`, `GateFollowsJobs`, `StoppedOutsideWindow` | `ScheduleWindow`: `MonthlyPairs` | firings more than a week away are not seen by the gate nor by the validation (`scheduler.go:57`, `120`) |
| `StoppedOutsideWindow` | `ScheduleWindow`: faults `{"straddle"}` | a start that began inside the window follows the stop job (`server.go:263`) |
| `StoppedOutsideWindow` | `ScheduleWindow`: faults `{"bypass"}` | dashboard, groups and dependents start containers outside their window (`server.go:951`, `359`) |

Two observations have no model. `NotFoundOnlyIfUnserved` holds only because merges
lose the groups: once `DiscoveryGroups` is repaired, the group and the container of a
request have to be looked up under one lock (mutant `ReloadWithGroups`). And
`proxyWebSocket` asks the response writer for `http.Hijacker` (`server.go:486`), which
`metricsResponseWriter` does not pass on, so upgrades that come through
`handleRequest` end with status 500, unlike `src/docs/index.md:42` says.

### Mutants

The operators marked "Mutant" in the modules are versions of the definitions next
to them with a plausible bug: a missing unlock, a dropped guard, a loop that is off
by one. No specification uses them. Put in place of the original (the list is in
`PROJECT.json`), each makes TLC find the property violated, which shows that the
property constrains the code and that the run reaches the situation.

## 4. Proofs

`tlapm` checks all theorems for every value of the constants that the named
assumptions admit; TLC evaluates the assumptions for the instances of the runs. Every
invariant of the passing runs is stated by a theorem below, and so are the two
refinements. The statements are those that the runs check, and where a
theorem has a hypothesis its row or the text under the table names it.

### Searches and loops

TLAPS cannot use induction rules that take an operator as parameter. `Recursion`
therefore derives what the proofs need in set form, from the theorem that every
non-empty subset of a well-founded set has a minimal element: the least number of a
set of numbers (`NatMinimum`), induction (`NatInductionSet`, `LoopInduction`), and
that a recursive definition over the numbers (`LoopDefined`) or over a well-founded
set (`WellFoundedRecursion`) has a solution, so that the recursive functions of
`Dependencies` and `Configuration` satisfy the equations that define them. The
search of `Dependencies` is founded on the graph, which is acyclic; the search of
`Configuration` runs on any graph, and is founded on its path, which grows inside a
finite set of names.

`DependenciesProofs`, from `DependsOnAssumption` (finitely many containers, each
non-empty set of which has one without dependencies in the set):

| Theorem | Says |
|---|---|
| `StartOrder` | `TopologicalSort` lists what the target needs, each container once, dependencies first, the target last |
| `DependenciesInOrder` | `EnsureDepsRunning` walks the same without the target |
| `StopOrder` | whatever the order of the Go map, `topoMergeStop` lists the shutdown set, each container once, dependencies first |
| `CascadeOrder` | reversed, each dependent comes before what it depends on |

`ConfigurationProofs`, part 1, from `NamesAssumption`:

| Theorem | Says |
|---|---|
| `ValidAcyclic` | what `Validate` accepts has no cycle, by a definition without a search |
| `SortFails` | on a valid configuration `TopologicalSort` fails exactly for the names that it does not have |
| `SortOrder` | a search that does not fail lists exactly what the target needs, each name once, dependencies first, the target last |

The proofs of these say what a visit does to a search that has not failed
(it appends a sorted list of what is needed and was not there), by induction on the
paths, the longest first: every set of paths has a longest one. For `ValidAcyclic`, the
order that the search of the validation leaves behind is a ranking of the names in
which dependencies are lower; for `SortFails`, a visit that meets its own path would
have a rank below itself.

### Container manager

`ContainerManagerProofs`, for every set of containers, goroutines, jobs and
faults, from the assumptions in `ContainerManager` (`None` is not a goroutine nor an
age, jobs are non-empty plans over the containers):

| Theorem | Property | Rests on |
|---|---|---|
| `TypeCorrect` | `TypeOK` | itself; the last conjunct (an active goroutine is inside its plan) makes it inductive |
| `OneAttemptAlways` | `OneAttempt` | `MutexHeld`: who is past the lock has its name in it |
| `AttemptVisibleAlways` | `AttemptVisible` | `MutexHeld`: only the holder of the mutex can write another state than `starting` |
| `MutexHasHolderAlways` | `MutexHasHolder` | `MutexHeld`; `UnlockFrees`: who leaves an attempt, on whatever path, leaves a mutex that is not its own or free |
| `RunningMeansReadyAlways` | `RunningMeansReady` | `ProbedReady`: what the probe has seen still holds when it is recorded |
| `StartOnlyStoppedAlways` | `StartOnlyStopped` | `MutexHeld` and `OneAttempt`; `RunSource`: only the goroutine at `docker start` makes a container run |
| `PredecessorsRunningAlways` | `PredecessorsRunning` | `ProbedReady`; `RunningStays`: without crashes and stops, what runs goes on running |

`MutexHasHolder` is the reverse of `MutexHeld`: the goroutine whose name is in a mutex
is past the lock of this very container. A goroutine that waits for a mutex is before
it, so it holds none, and plans that share containers in any order cannot wait for each
other in a circle.

`OneAttempt` is not inductive, because it says nothing of the mutexes: a step of
`AcquireLock` can break it from a state where the
holder's name is missing; `MutexHeld` adds it. `RunningMeansReady` does not say what
a goroutine at `mark` knows; `ProbedReady` adds it. The lemmas are
layered: types, mutexes, then what the mutexes protect, then what Docker's state
implies. Each layer has a lemma for one step of `Next`, with
a case for each action that can disturb it.

### Idle watcher

`IdleWatcherProofs`, for every graph, timeout and stop order, from
`DependsOnAssumption` and `IdleTimeoutAssumption`:

| Theorem | Property | Rests on |
|---|---|---|
| `WatcherTyped` | `WatcherTypeOK` | `QueueInv`, and `CascadeOrder`: a new queue is the shutdown set and not empty |
| `DependentsFirstAlways` | `DependentsFirst` | `QueueInv`: the queue has dependents ahead, from `CascadeOrder` when it is made, and as a tail of itself later |
| `SparesNeededAlways` | `SparesNeeded`, if `Faults` has neither `start` nor `api` | `CascadeInv`: a status that was read is still true, and at `docker stop` all have been read |

`DependentsFirst` looks at one moment, the head of the queue against the rest; it needs the order of the whole rest of the queue. `SparesNeeded` speaks of
the last moment of the questions about a container and needs what the calls before
have established.

### Gateway

`GatewayProofs`, for every graph, groups, entry points, timeouts, schedules, handlers
and goroutines, from `DependsOnAssumption`, `IdleTimeoutAssumption`, `NoneAssumption`
(of the manager), `GatewayAssumption` (requests and groups name configured containers,
groups are not empty) and `ProbesAndFaultsAssumption` (probes are of containers, faults
are those that the manager knows):

| Theorem | Property | Rests on |
|---|---|---|
| `CallsOfTheGateway` | | `DependenciesInOrder`: the plans of handlers, dashboard and cron jobs are non-empty plans over the containers, what the gateway stops are containers. These are the assumptions of `ContainerManager` about its callers |
| `GatewayImplementsManager` | `ImplementsManager` | `GatewayInv`: the types of the manager, handlers where their calls make sense (`HandlerInv`), and a cascade that only reaches containers in their order (`CascadeInv`). Every step of `Next` is then a step of the manager, or leaves its variables alone |
| `GatewayTyped` | `TypeOK` | `GatewayInv` |
| `ManagerInGateway` | six invariants of `ContainerManager` | `GatewayImplementsManager`, and the theorems of `ContainerManagerProofs` about the instance `CMP` |
| `CascadesOfTheGateway` | `DependentsFirst`, and a cascade stays below the entry points with a timeout | `GatewayInv` |
| `DependenciesFirstAlways` | `DependenciesFirst` | `PlanInv`: every plan under way has the dependencies of each step before it, and what a plan has behind it runs |
| `ForwardWithDependenciesAlways` | `ForwardWithDependencies` | `ForwardInv`: a dependency that a handler has asked about runs, and `NeededStays` |

The last two need hypotheses that the code does not guarantee. A crash of a
dependency breaks both at once; for the others the table of divergences in section 3
has the case in which they fail. `DependenciesFirst`:
nothing crashes; no direct dependency of a container can be stopped by the gateway; the dashboard and
the cron jobs wake only containers without dependencies. `ForwardWithDependencies`:
the first two of these. They admit API errors, deadlines, restarts, the idle watcher
and people who start, remove and create containers.

The refinement carries the theorems about the manager over to the gateway. `CMP` is
`ContainerManagerProofs` with the jobs and the stoppable containers of the gateway,
`ManagerAssumptions` proves the assumptions of those theorems for it, and
`ManagerInGateway` concludes. The lemmas about single steps of the manager on which
`DependenciesFirst` rests (`ProbedReady`, predecessors) are cited in the same way.

### Serving and Discovery

`ConfigurationProofs`, part 2, for every set of valid configurations, requests and
number of reloads, from `NamesAssumption`, `ConfigsAssumption` and
`RequestsAssumption`:

| Theorem | Property |
|---|---|
| `ServingTyped` | `ServingTypeOK` |
| `ServedAcyclicAlways` | `ServedAcyclic` |
| `PlanOfOneConfigAlways` | `PlanOfOneConfig` |
| `FailsOnlyIfRemovedAlways` | `FailsOnlyIfRemoved` |
| `NotFoundOnlyIfUnservedAlways` | `NotFoundOnlyIfUnserved` |
| `ActivityReachesChainAlways` | `ActivityReachesChain` |

All rest on one invariant, `ServingInv`. Its part `Origins` says where everything
that a request holds comes from: the entry from a configuration in force since it
came, the list at `repair` from one too, and at `lookup` no group of the present
configuration has its host. The last is stable under `ReloadConfig` only because a push has
no groups, which is the point of `NotFoundOnlyIfUnserved`. The steps then follow from
`SortFails`, `SortOrder` and lemmas about the loops of `EnsureDepsRunning`,
`EnsureGroupRunning` and `RecordActivityChain`. In `Repair` and `Start` the entry and
the list can belong to two configurations. The order is that of the list; the entry only
decides whether there are dependencies at all, and if it has none then the
configuration it comes from explains the plan.

Part 3, for every set of files and label lists, from
`StaticConfigsAssumption` (the gateway starts with and reloads valid files only),
`LabelListsAssumption`, `NamesAssumption` and `MaxChangesAssumption`:

| Theorem | Property | Rests on |
|---|---|---|
| `DiscoveryTypeCorrect` | `DiscoveryTypeOK` | `InPass`: what a thread owns in each phase of its pass |
| `ServerValidAlways` | `ServerValid` | `InPassValid`: whatever is past the merge is valid, with overlapping passes too; `KnownConfigs`: merges are configurations; `ValidAcyclic` |
| `PushesAsServed` | | the same: the server always has a valid configuration and every change is to a valid one without groups. This is what `Serving` assumes |
| `LastConfigPushedAlways` | `LastConfigPushed`, if `Faults` lacks `overlap` | `PushInv`: one pass at a time, record and push of a pass agree, outside a push record and server agree |

### Schedule

`ScheduleProofs`, for every clock and all pairs of schedules, from
`ScheduleAssumption` (periods are positive and divide `Cycle`):

| Theorem | Property | Rests on |
|---|---|---|
| `ScheduleTyped` | `ScheduleTypeOK` | itself |
| `StaysValidAlways` | `StaysValid` | `PairApart`: the pair fires together at no minute at all; by `ValidForEver` a week without a collision says so |
| `WindowAsDocumentedAlways` | `WindowAsDocumented` | `GateIsInside`: the open window has a start in every week, and stops before the last start do not matter, so the week of the gate is enough; `LookBack` is the same for the cycle of the definition |
| `NextStartOpensAlways` | `NextStartOpens` | `PairApart`; `NothingOpens`: without a start in between a closed window stays closed |
| `GateFollowsJobsAlways` | `GateFollowsJobs` | `JobsInside`, stated of the window without a bound; `TickFacts`: what one tick does to job and window; `ClockWraps` |
| `StoppedOutsideWindowAlways` | `StoppedOutsideWindow`, if `Faults` has neither `straddle` nor `bypass` | `StopHolds`: while the stop job is the last one nobody is about to start the container |

All but the first have the hypothesis `WeekTells`: a start that fires at all fires in
every week, and a pair that ever fires together does so in every week. Cron expressions
without a day of the month and a month are like that (theorem `EveryWeekTells`), and so is
a daily start with a monthly stop that never meets it: nothing is asked of the stop alone,
because a stop that the gate no longer sees has a start after it that it does see. For
other pairs the code violates the properties (`MonthlyPairs`, section 3). `StoppedOutsideWindow` is
not inductive because a goroutine behind its status check could start the container
after the stop; it was spawned inside the window, and the stop job fired when none was
under way. Remainders are reasoned about from the uniqueness of quotient and remainder
(`RemainderShift`), the first and the last firing from `NatMinimum`.

### Rate limiter

`PollingProofs`, for every set of clients, pages and intervals, from
`MinIntervalAssumption`, `NoEntryAssumption` and `PollingAssumption`:

| Theorem | Property | Rests on |
|---|---|---|
| `LimiterImplements` | `LimiterSpec => L!Spec` | `LimiterTypeOK` as the invariant; every step of the limiter is one of `Limiter`, or a stutter (an eviction) |
| `PollingImplementsLimiter` | `ImplementsLimiter` | the same, for the limiter under the pages |
| `PollingTyped` | `PollingTypeOK` | itself, with the types of the limiter |
| `LearnsInTimeAlone` | `LearnsInTime`, under three hypotheses | `LoneInv`, below |

`LearnsInTimeAlone` is about one loading page with an address of its own
(`LoadingAlone`) whose intervals are apart (`PeriodsApart`): the interval of `/_health` is
that of the limiter plus twice the delay of a request or longer, and twice the interval of
`/_logs` exceeds twice that of `/_health` by the same distance. The intervals of the
template (2 s, 3 s, limiter 1 s, delay 0.5 s) meet both with equality. Then `LearnsInTime`
holds for every `Patience` of at least four intervals of `/_health` less a tick, which
TLC shows to be exact. Two polls of `/_health` are too far apart to refuse
one another, so only a poll of `/_logs` shortly before can be the reason of a refusal. Until the
next poll of `/_health` the poll of `/_logs` falls behind by the difference of the intervals,
and the third one is clear of it: at most two refusals come in a row. `LoneInv`
says in which positions of the timers the refusals can have happened, as a relation between
the timers, the requests on their way, the age of the limiter's entry and `waited`.

### Only model-checked

* Liveness, under fairness: `AttemptsEnd`, `CrashDetected`, `IdleStops`, `WakesUp`,
  `Converges`, `ForgetsClients`. The prover has no `ENABLED`.
* `LearnsInTime` for a loading page next to a dashboard (`PollingPages`), where three
  timers share an address; for two loading pages the code violates it (section 3).
* `SparesNeeded` is proved of the watcher alone; the gateway starts containers during
  cascades, for which the code violates it.
* What a model leaves to its bounds: the number of goroutines that a handler waits
  for, ages that saturate, and the clock of `Schedule`, whose cycle is a constant.

## 5. Not modelled

The bytes that go through the proxy and the WebSocket tunnel, templates, log
extraction and formatting, the snapshots of the dashboard and the topology, metrics,
header checks (admin authentication, origin, trusted proxies) and YAML parsing with
its defaults: data and stateless comparisons without influence on the control. Time
zones and clock changes are left out of `Schedule`: a schedule is what the cron
library makes of it. The graceful shutdown of the HTTP server is library code.

## 6. Plan

Every component that changes state of its own is modelled, and every invariant of the
passing runs is proved. What the next steps would be:

1. A form of `SparesNeeded` that holds inside the gateway: of the containers that ran
   when they were asked about and that nobody stopped since.
2. `LearnsInTime` of a page next to a dashboard, with the invariant of
   `LearnsInTimeAlone` for three timers.
3. The action properties behind the liveness of the manager: with `MutexHasHolder`, what
   remains is that the holder goes forward in its plan.
