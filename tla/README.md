# Formal model of fl-op

fl-op plans fleets for field work: it maps domain data through contracts to a
canonical snapshot, solves a dispatch problem over it, and keeps the plan current
while execution events stream in. This directory holds TLA+ modules of the parts
whose correctness depends on order, failure and sharing, TLC configurations that
check them on small instances, and proofs, checked by TLAPS, that hold for every
instance. Paths below are relative to `src/src/fl_op/` unless they start with `src/`.

Check one run with `tlc -config StreamWatch.cfg MCStreamPipeline`, one set of proofs
with `tlapm StreamPipelineProofs.tla`. `PROJECT.json` lists the runs, the source
lines behind every definition, a fault for every property that shows it can fail,
the hazards and the theorems.

## 1. Inventory

### How the parts interact

```
 producers -> broker / JSONL --drain--> StreamSession --apply--> working rows
                   ^                        |                        |
                   |                        | one snapshot per batch v
                commit                      |                 snapshot builder
                   |                        v                        |
            plans.py (watch, rolling) <- revision <- rolling re-planner
             |     |                                   |  re-solve
             |   revision files, id log                v
             |     |                     solver chain -> clustering, allocation
             |     |                            |
             |     |                     cluster pool -> routing
             |     +--> airspace holds, recharge queue, diff
             |     +--> object store --> serving API (plans, feasibility)
             +--> prognosis outcomes --> policy tuning --> monitoring rules
 contract documents, domain packs --> registry, evolution gate --> profiles
```

Everything in a planning process is one thread, except the cluster pool, which
runs worker processes. Between processes the shared state is in files: the
broker's offsets, the id log, revision and run directories, the tuned overlay, the
quality trend and the object store; any process may die between two writes.

### Components

| Component | State it keeps | Operations | Hard behaviour | What makes it correct |
|---|---|---|---|---|
| Event pipeline (`planning/plans.py`, `stream/driver.py`) | position in the source, working rows, revision counter, files | start, drain, publish, record, commit, summarise | crash between any two writes; redelivery | no committed event is unpublished; recorded events are not published again |
| Event sources (`stream/broker.py`, `redis_stream.py`, `source.py`) | offset, pending entries | poll until empty, commit, close | malformed entries, exceptions in the drain | everything is delivered at least once |
| Id store (`stream/dedup.py`) | id log, ids in memory | load, membership, append, compact | torn append, eviction before commit | holds only published ids, and the ones a crash would redeliver |
| Event application (`stream/apply.py`, `coverage.py`, `freshness.py`) | task rows, coverage entries, watermarks, completions | one handler per event type | repeated, overlapping and late reports | progress is measured against original work; staleness is exact |
| Rolling re-planner (`adapters/rolling/*`) | previous plan | freeze, release, carry, force, re-solve, assemble, hold | three sources of work in one revision | no double booking, no dead equipment, started work stays, all tasks accounted for |
| Solver chain (`solver/chain.py`, `task_relations.py`, `enforcement.py`) | tasks kept, records, clusters, depot balances, reservations | four filters, clustering, two admissions, pool, withdrawal, collapse, settle | a task can be lost at every step | every task is dispatched or reported; precedence, alternatives and reservations agree with the dispatch |
| Travel network (`solver/travel_time.py`, `routing_geography.py`) | tables per travel mode | read links, merge, compose, aggregate, ask | a faster route replaces a time, a polyline or a way of a slower one stays | times and polylines are those of the shortest ways |
| Clustering (`solver/preprocessing.py`) | none | nearest depot, units, regroup, pack, split | cycles, rounding, chains over several depots | no task lost or doubled, no unit parted, sizes kept |
| Allocation (`solver/greedy.py`, `solver/allocation/*`) | CP-SAT model, claims | candidates, truncate, solve or fall back, operators | capacities shared by clusters | nothing claimed twice |
| Cluster routing (`solver/cluster/*`, `solver/routing_model.py`) | one OR-Tools model | prepare, build, warm start, solve, refine, improve, extract | five calendars at once, detours that depend on the time of arrival | what is dispatched can be carried out; nothing is lost |
| Cluster pool (`solver/cluster_pool.py`) | futures, records, operator claims | claim, group, submit, collect, sweep, exit | timeout against late results, worker death | at most one record per cluster, operators not shared in time |
| Airspace, charging, KPIs (`planning/airspace.py`, `charging.py`, `drone_kpis.py`) | none | colour, hold, apply, queue, count | holds shift what was already counted | the report is true of the published plan; a hub can run its queue |
| Diffs (`planning/revision_diff.py`, `solver/reschedule*.py`) | previous plans, order rows | diff, mark, reschedule | tasks come, go, freeze and are held in between | a reader can rebuild the new plan from the old |
| Monitoring, tuning (`snapshot/monitoring.py`, `policy_tuning.py`, `stream/prognosis.py`, `lead_time.py`) | outcome record, overlay, audit trail | derive, escalate, withdraw, record, tune | a feedback loop over two files | late or bursty evidence changes nothing; a tuning is one bounded step in one direction, on record |
| Quality and snapshot runs (`snapshot/assessment.py`, `quality_trend.py`, `planning/snapshots.py`, `provenance/*`) | trend file, run directories | assess, append, compact, write, list | builders side by side, cut off anywhere | a listed run is whole; compaction changes no verdict |
| Contracts (`contracts/registry.py`, `plugins.py`, `evolution.py`, `validate.py`, `profile.py`) | index, baselines, fingerprints | edit, install, check, freeze, acknowledge, resolve, compose | baselines recorded late or in part; packs that clash | policy holds along the whole history; recording hides nothing; composition relaxes nothing |
| Serving (`serving/*`, `solver/query_pipeline.py`) | copies, memo, cache, rate windows | authenticate, limit, list, resolve, read, materialize, evaluate | writers publish between two calls | published runs only; answers never go back nor are stale |

`PROJECT.json` lists all components with their status, also the ones that are left
out (data generators, code generation, command line, demo, parameter tuning).

## 2. Modules

### StreamPipeline (with DeliveryContract, StreamPipelineProofs)

One module for `run_plan_watch` and `run_plan_rolling` over the three sources: each
start of the process picks one of the `Modes`, so a rolling run may follow a watcher
that died, on the same id log. The log of the source and the committed
offset, the id log and the revision files survive a crash; the position, the
cursor inside the backlog, the ids seen, the working copy and revisions that wait
to be written do not. An event's effect on the working copy is the entry's
position in the log, so a revision knows what it reflects. Actions follow the
code between two effects on durable state: start and baseline, drain, apply a
batch (coalesced or not), write, record (an append that a crash may cut),
compact, commit, summarise, crash. Producers append at any time.

`DeliveryContract` is the abstract specification: entries are appended, published
in any order, acknowledged only once published. `DeliveryRefined` states that the
pipeline implements it with `published` mapped to the entries some revision file
covers and `acked` to the offset.

### EventApply (last part of StreamPipelineProofs)

The handlers of `stream/apply.py` that change a task: order created or corrected,
cancelled, started, completed, progress in numbers, progress by geometry, and
work-progress observations. Geometry is a set of unit cells; quantities are
integers in the unit they are rounded to, and a tie in rounding may go either
way. The coverage entry keeps the quantities before the first pass. `marks` are
the applicator's watermarks, `planMarks` those of the plan in force. `life` and
`since` are history variables for the properties and constrain nothing. The
per-pass report list (a log) and the inventory, forecast and asset handlers are
not in this module.

### RollingDispatch (RollingDispatchProofs)

`compile_rolling_state` and the assembly of a revision as one action, `Replan`:
the cutoff, freezing, release after loss of an asset, carry-forward, forced
re-solve of escalated service tasks, the re-solve of the rest against blocked
intervals, reservations and airspace holds. Between two revisions any number of
events arrive (orders and services created, started, completed, cancelled,
withdrawn, escalated; vehicles, implements and operators lost), with event times
that may go backwards. What the solver chain returns is a free choice among the
outcomes its constraints allow (`ChainOutcome`): each task handed over is
assigned, clear of what is booked, or reported. SolverChain names the two
exceptions, a task without a location and a cluster whose result is lost.

### SolverChain (SolverChainProofs)

`run_solver_chain` stage by stage. A filter drops any subset of tasks, which is
sound for every forecast, calendar and map; what the module keeps exactly is what
happens to the rest: orphaned dependents, units of precedence and alternatives
that stay in one cluster, cycles, charging of depots, the outcome of the pool,
the withdrawal cascade, the collapse of alternatives to one record, settlement.

### ClusterPool (ComponentProofs)

Backup operators are claimed need by need, contending clusters are grouped,
independent clusters and groups are solved in worker processes.
`concurrent.futures` is modelled from its use: pending, running, finished, error,
cancelled futures; `as_completed` takes batches of done futures; the timer may
expire at any time; a worker may die at any time and breaks its pool;
leaving the executor waits for what still runs. Time inside a cluster is a set of
slots.

### TravelNetwork, Clustering, Allocation, ClusterRouting, TimeExpanded (DivisionProofs, RoutingProofs)

One chain of modules for what happens to a set of tasks inside a solve.
`TravelNetwork` is the state machine of `build_travel_lookup`: it reads the links
into one table per mode, merges a mode over anyone, composes one network after the
other, a Dijkstra pass per source with its heap and predecessors, and keeps the
fastest of all as the aggregate. Its answers are what clustering measures depots by
and what the arcs of a vehicle take; where a pair has no route, the distance
counts. `TravelTimesExact` compares the result with every way over the links.
`Clustering` and `Allocation` are operators translated function by function
(nearest depot, units of chains and groups, packing, the plain split with its
half-to-even rounding; candidates, truncation, the greedy claims). What CP-SAT or
OR-Tools decide is any solution the code's constraints admit (`GlobalAllocations`,
`Search`): the objective only ranks, so every property holds for whatever the
search returns in its time. `ClusterRouting` is the state machine around them:
cluster, allocate, prepare, solve, refine with the detours of timed restrictions,
improve, extract. Locations lie on a line; a polygon makes an arc longer, and a
network route that has a polyline slower in proportion.
`TimeExpanded` is the opt-in alternative to the refinement and an initial input of
the same specification.

### AerialPlan, RevisionDiff (AerialProofs)

Everything that happens to a drone plan after the solve: flight paths, conflicts,
corridor colouring in order of degree, holds one flight at a time, the report, the
holds applied to the assignments, then per hub the recharge queue and the KPIs,
then the publication. `RevisionDiff` extends it with `diff_revision_pair` over the
published revisions and with the batch reschedule command.

### Assessment, Monitoring, SnapshotRuns (ComponentProofs)

`Assessment` is `snapshot/assessment.py` as operators with medians and means
scaled to integers. `Monitoring` is the loop: readings arrive or land in the data
directory, sessions and periodic plans derive service tasks, record what became of
earlier ones, and tune the policy through an overlay and an audit record, between
which the process may die. `SnapshotRuns` adds builders that share one trend file
and publish runs; each builder's writes are steps of their own.

### ContractRegistry, ContractEvolution, ProfileComposition (ComponentProofs)

`ContractRegistry` holds the index, the merge of domain packs and the four forms of
a contract id. `ContractEvolution` is the state machine of authors: edit a
document, install and remove packs, check, freeze baselines (also cut off
half-way), acknowledge fingerprints. `ProfileComposition` is
`OptimizationProfile.composed_with` as operators.

### PlanServing (PlanServingProofs)

Writers that publish runs file by file with the commit marker last, die and
repeat; the API whose handlers run one at a time but meet the writers between any
two calls of the store; both store backends, materialization, the digest memo, the
response cache with pruning; authentication in its three forms, scopes and the
fixed-window limiter; restarts.

## 3. Abstractions that carry weight

- SolverChain and RollingDispatch assume of the routing what
  `solver/cluster/routing.py` adds as constraints: at most one variant of a group, a
  task only with its predecessor, no use of held intervals. ClusterRouting models
  those constraints; what stays external is that OR-Tools honours them.
- The weather, calendar and restriction filters of SolverChain are free choices.
- Places lie on a line; polygons are intervals or extra seconds.
- Object contents are the attempt that wrote them; a digest or a (time, size) pair
  identifies a content (`PlanServing`).
- Plan content (score, explanations), logging and tracking are left out.
- Quantities and times are small integers; percentages are scaled to integers, so
  comparisons are exact.

## 4. Runs

| Run | Instance | Shows |
|---|---|---|
| `stream_watch` | Kafka, events and malformed entries, two ids and blank ids, 3 entries, 2 crashes, 3 runs, store of 1 id | revisions are a sound history, the id log holds what a crash would redeliver (up to the bound named in section 6), refinement of DeliveryContract, every event and every entry before one settles |
| `stream_mixed` | Redis, both drivers in any order, coalesced batches, malformed entries and entries that raise, torn appends, 2 cycles per watcher | recorded and committed implies published |
| `event_apply` | one task, two kinds of row, 2 cells, halves, times 1..2 | coverage reduces original work; staleness is exact |
| `rolling_replan` | an order and a service task, both flights, 2 implements, one of each other asset, times 0..1, holds of 1 | bookings, accounting, explained moves, started work |
| `pool_collect` | 4 clusters, 2 operations, 2 operators, 3 demand patterns, 1 worker, 1 death | operators, what the pool answers, that it returns |
| `solver_chain` | 4 tasks in 4 inputs, 2 clusters, 2 depots | accounting, relations, material, termination |
| `cluster_routing` | eleven solves with one kind of constraint each (timed polygons, time-expanded, shared operator and calendars, loads and reloads, pickup and alternatives, a chain, contention of three clusters, a vehicle on the road or in the air under timed polygons); 780 catalogues of up to four links; every dependency and grouping of four tasks over two depots; 1 to 7 plain tasks in every size | travel times, clustering, claims, schedules, detours, warm start, accounting |
| `aerial_plan` | six flights over one place with two corridors; three revisions with losses; a queue for one bay; two reschedules | holds, hubs, diffs |
| `monitoring_loop` | five menus: late and bursty battery readings, drift and health, feedback with tuning, periodic plans with restarts and cut writes, two builders | robust evidence, accountable tuning, compaction, whole runs |
| `contract_evolution` | 4 contracts with 7 documents for the first, two packs that clash, histories of 2 | the policy along the history, freezing, references, composition |
| `plan_serving` | both stores; a growing rolling run, periodic runs of two writers, dataset with schedule, three authentication setups with a limit of 2 | published runs only, monotone answers, current feasibility, limit |
| `current_reading_ignored` | violation | section 6 |

Why the bounds are enough to meet the interesting cases. Stream: a store of one id
evicts with two ids, three entries allow a duplicate delivery beside another
event, two crashes allow a crash during recovery from a crash. EventApply: two
cells allow an overlapping and a completing pass; two times allow an event that is
older than the watermark. Rolling: two flights with a freeze window of 0 and two
instants have bookings before and after the cutoff, and a hold of 1 lets each delay
the other; with two tasks no third flight exists, the case `NoDoubleBooking`
excepts, so the proof covers it. Pool: the patterns contain a pair, two pairs and a
chain that contends for two operators; one worker makes jobs queue, one death breaks
the pool while others are pending. Chain: a chain of three, variants with
predecessor and dependent, a head without location, and a cycle. Routing: a horizon
of 8 holds two services, a reload and a drive; three locations make a composed
route, a direct one and a tie, a fourth goes over the cap of a composed network; one refinement reaches both the loop
and its last pass. Aerial: six flights need more colours than corridors, so holds
chain. Monitoring: outlier, frozen and drift rules speak from three readings on, and
a series keeps three. Serving: a memo of one entry and a cache of two evict; a window
of two ticks has requests on both sides of an edge; one retry and one restart
separate memory from disk. Contracts: two snapshots and the current document make a
path of three. Everything that is also a theorem (section 5) does not depend on
these bounds.

Deadlock is checked where the system never stops (`stream_watch`,
`rolling_replan`, `event_apply`, `contract_evolution`); the others end by
themselves or at the end of their menu.

Fairness. `stream_watch` assumes weak fairness of the process's own steps and of
the restart, because the watcher is one thread that always has a next step and is
run under a supervisor; crashes are bounded, producers are under no obligation.
`pool_collect` assumes that the collecting process and the workers keep going (a
worker's search has a time limit) but neither that the timer expires nor that a
worker dies. `solver_chain` assumes that the chain, a single thread, takes its
next step.

## 5. Proofs

| Module | Theorems |
|---|---|
| StreamPipelineProofs | PipelineInvariant, TypeCorrect, NoEventLost, StoreSound, PublicationFirst, RecordedSuppressed, PipelineDelivers (refinement of DeliveryContract), RevisionHistory, DurableIdsAreSound; of EventApply: ApplyTypeCorrect, CoverageReducesOriginal, StalenessExact |
| RollingDispatchProofs | RollingInvariant, RollingTypeCorrect, BundlesAlive, NoDoubleBooked, BookingsAreSound, TasksAccounted, ReservationsFollow, TasksAreSettled, StartedNeverMoved, MovesAreExplained |
| ComponentProofs, of ClusterPool | PoolInvariant, PoolTypeCorrect, OperatorsSafe, RecordedAtMostOnce, ReportedInTime, TimeoutLosesOnlyDone, PoolQuiesces, PoolAnswersSound |
| SolverChainProofs | ChainTypeCorrect, TasksAccountedFor, PrecedenceKept, AlternativesServedOnce, ChainsKept, RelationsKept, ReservationsSettled, MaterialIsSettled |
| ComponentProofs, of ContractEvolution | TreeInvariant, PathsCompatible, FreezeKeepsFaults, ReferencesResolve, EnforcedUnion, CautiousWeather, CompositionAssociates, CompositesCautious |
| PlanServingProofs | ThrottleIsHeld, FeasibilityIsCurrent, OnlyPublishedRuns, NoAnswerGoesBack |
| AerialProofs | DiffsTellEverything, HoldsAreSound, HubsCanRun |
| DivisionProofs | RoutingDivision |
| RoutingProofs | RoutingSchedules, RoutingAccounts, RoutingDetours, RoutingWarmStart, RoutingTravelTimes |
| ComponentProofs, of Monitoring | AuditTrailExplains, TuningIsAccountable, RunsListedWhole, EvidenceIsRobust, CompactionIsSafe |

They rest on the named assumptions of each component module: distinct sentinels,
natural bounds, finite sets where a cardinality is taken. Those of PlanServing say
what the planners do (`JobsAssumption`: a run id is published by one writer, once,
with the document its readers ask for, and the revisions of a rolling run by one
process in the order of their numbers) and what the routes are called with
(`CallsAssumption`); `MonitoringAssumption` that the tunable fields are the
three of `_TUNABLE_BOUNDS`, that the profile has every field, and that days and battery
levels are numbers; `AssessmentAssumption` and
`TrendAssumption` that the limits of a series and of the trend file are natural numbers.
`MenuAssumption` of AerialPlan says that the solver hands over nothing frozen, that
a flight ends no earlier than it starts and that a task takes an asset equally long
whenever it starts, as in `_vehicle_service_times`.
`InputsAssumption` of ClusterRouting (`RowsOk`) says what the projections guarantee:
each task is listed once, there is a depot, machines are numbered, and times, loads and
scores are numbers; nothing is assumed of what the rows ask for.
`TuningIsAccountable` has one hypothesis more, `ReviewedWithin`:
the reviewed values lie inside the clamps, as those of every shipped profile do;
nothing in the code enforces it (section 6). `CompactionIsSafe` is for a trend file that
may keep as many lines as a verdict looks at (`TrendRuns <= TrendMax`; the constants are
3 and 500): with a smaller one, compaction would forget the runs that count. The stream theorems cover all three
sources, the JSONL one included, any mix of drivers, torn writes and every
retention bound.

The arguments:

- *Stream.* `CommittedArePublished` is not inductive: the commit step needs to know
  that the whole backlog was applied (`DrainedShape`), that what was applied is
  written or waits to be (`CursorCovered`, `PendingShape`), and that an event
  skipped as a replay is covered by the id that suppressed it (`SeenCovered`,
  `StoreCovered`). `PipelineInv` is their conjunction. A crash empties what waits
  and keeps the offset, so every conjunct over the offset survives. The refinement
  follows: writing a revision publishes, commit acknowledges, all else stutters.
- *Revision history.* `RevisionsSound` speaks of files only, but a crash may come
  between building a revision and writing it. `HistoryInv`, inductive relative to
  `PipelineInv`, speaks of what the run at hand has built, on disk or waiting:
  numbers follow each other, written ones come first, each is in the working copy
  and its ids are seen. A coalesced batch is clear of earlier ids because it is
  taken from unseen events.
- *Id log.* `DurableIdsSound` bounds what compaction may drop before the commit: the
  ids recorded in the cycle at hand, and those of the backlog that a crash would
  redeliver, whichever process recorded them. `LogInv` keeps the ids of the cycle as
  the newest lines of the file, in memory the same as on disk, and behind the line
  of an id that is not committed there are only ids of the backlog (`Aged`); so a
  compaction drops one only if those ids outnumber the bound, or if a committed entry
  bears the same id and the line is as old as that. It holds as long as no line of the log
  was torn, which is the case the property is about.
- *Event application.* `CoverageFromOriginal` needs `EntryIsOriginal`: an entry
  holds the quantities of the row as sent and the union of its passes, so each
  pass rounds once from the original and never from a rounded value.
  `MarksAreNewest` says that a watermark is the plan's or one of the times since.
- *Re-planner.* Frozen, carried and re-solved tasks are disjoint, each keeps or
  receives one booking, and new bookings are clear of kept ones; a hold moves only
  open flights, so only a third flight can push two flights together. `RollingInv`
  adds what must survive the events between two revisions.
- *Pool.* `PoolInv` ties the state of each future to the record counts of its
  clusters, per stage and phase; a cluster is in exactly one job because groups
  are disjoint. Operator safety needs that windows of distinct groups were
  disjoint when claimed.
- *Chain.* `ChainInv` says per stage which tasks are kept, live, charged or
  recorded; the withdrawal is a closure, so that the last step leaves no
  dispatched task without its predecessor. `ChainsTogether` needs that a task and
  its predecessor have the same root (`SameRoots`), hence lie in one unit.
  `MaterialSettled` says of each depot that its charges and what remains add up to the
  inventory, and that the charges alone never exceed it, for which a balance must not
  fall below zero; that a sum over a union, or over a set less one element, is what it should be is
  proved by the smallest set for which it would not be.
- *Contracts.* The check compares neighbours of a history only; that every earlier
  version is then compatible with every later one follows along the path, because
  compatible steps compose (the smallest distance at which they would not). Freezing
  appends the document to the history, so a broken pair stays one. References resolve
  because a validated index has distinct artifact ids, each in its domain; what it does
  not have is distinct local ids, so `RefsResolve` names the one case that is refused
  (`Namesakes`; a finite set of contracts, `KeysAssumption`, makes the match unique). In profiles, enforcement is a union and a weather limit a
  minimum, both associative; everything else takes the first profile that speaks.
- *Serving.* The limiter's count is that of the answers in the window. For
  feasibility, what the digest memo and the cache hold is true of the content their
  keys name (`MemoTrue`, `CacheTrue`), and the digests a request collected are of
  copies it holds (`Evaluating`), so a hit answers what an evaluation would. For
  published runs, `Writing` says that a run with its marker is whole and its writer
  past it; hence its objects never change again, and what is copied on behalf of
  clients that ask for the latest run (`FromPublished`) is of such runs. That
  answers never go back needs a request on its way as well (`Onward`): each answer
  names a run and a revision that the store still lists, and what a request has
  resolved so far is not behind any answer to the same call. A listing only grows,
  and that of a rolling run's revisions at its end, because one process writes them
  in order; so places in it stay (`PlacesKept`), and the latest only moves up.
- *Aerial plans.* `Core` says that every hold is a natural number within the slack and
  that the plan is the solved one shifted by them. For the diffs, `Lasting` keeps a
  frozen flight of a revision at the times it had in the one before; a task without a
  record then has the same start, hence, as a task takes an asset equally long, the
  same finish. For the holds, `Placed` says that flights are placed in order of entry
  and that one not held for all its slack is clear of every earlier neighbour in its
  corridor. A placing adds the last one in that order, so nothing placed before
  depends on it. A pair that is too close in one corridor although it was not before the
  holds has a flight that was held (`HoldsBringAbout`), and a flight is held only for one
  placed before it in its corridor (`AwaitedBy`). That the report, counted on shifted copies, is true of the
  assignments needs that a frozen flight has no slack, so that both shift the same.
  For the hubs, `Queue` says of the sessions given so far that each starts no earlier
  than it arrives and than its last flight ends, that they are in order of arrival and
  whoever still waits arrives later, and (`Behind`) that on every bay of its hub
  something ends no earlier than a session that waited starts: it took the bay that is
  free first. So at an instant of waiting every bay is taken, by a bijection of the
  bays with the sessions on them (`AllTaken`). A peak is the highest value of a sweep;
  counting the starts less the ends up to an instant gives the number present there,
  and at an end no more, so the sweep's highest is that of the sets (`PeakIsHighest`).
- *Division.* The clusters come out of plain functions, so the work is to follow the
  functions: the units of chains and groups are classes of a symmetric reachability,
  packing and splitting cut a sequence without loss, and each unit goes to one depot.
  `RowsInv` and `HeldOnce` carry what the functions made through the steps: the claims are
  single because the greedy loop marks what it takes before it goes on, and because the
  solutions of the global model are constrained so. A fold is followed by the set of
  lengths up to which the claim holds, which is shown to contain every length.
- *Schedules.* `ScheduleSound` speaks of work packages, which exist only after the last
  step; what makes it true was settled when the routes were searched. `SolveInv` keeps
  that from stop to stop: routes are typed, each stop keeps to windows, calendars,
  blocked periods and bundles that may serve it (`StopsOk`), each leg leaves the time its
  arc is priced with (`LegsOk`), no node is visited twice (`NodesOnce`), crews of two
  routes are not in use at once (`CrewsFree`), a pickup comes before its task
  (`PickedUp`). The refinement throws routes away together with the prices they were
  built with, so a phase has one set of prices. `DrivingSound` adds up the legs between
  two packages, over pickups and reloads. `LoadsSound` compares the load aboard with what
  was laden since the last fill: a pickup puts aboard what its task takes off, so what
  comes from the depot stays within the compartment, unless a reload lies between the
  pickup and its task (section 6).
- *Travel times.* `TravelInv` follows the building of the networks. The rows read so far
  make the direct table of a mode (`Rowed`). A pass of Dijkstra is followed with the set of
  places it has left behind: their times are final and every arc out of them is accounted
  for (`Explored`), an entry of the heap that is out of date is skipped, and the fuel of
  the fold, one step per arc, lasts until the heap is empty (`Fuelled`). Hence no way is
  faster than the time found (`NoFaster`), there is one that takes it, and its polyline is
  put together along the predecessors (`Fits`). The aggregate is compared network by
  network.
- *Accounts.* A node on a route gives exactly one package, by `NodesOnce`; a task whose
  node is on none is `Lone` and reported, or of a group that is `Lost` and reported, or
  of a group of which another member is on a route.
- *Detours.* The loop ends with nothing left to price (`Activated` is empty) or in its
  final pass with every arc at the price of all restrictions (`AllPriced`): `SolveInv`
  has to carry the second through the search, as the prices are set a step before the
  routes they concern exist.
- *Warm start.* The routes are made by a fold over the tasks in order, so what is proved
  is about one step of it (`SeedTask`): a node put at the end of a route
  leaves the nodes before it where they were, is on no other route, is recorded with its
  group, and comes right after its pickup if it has one. The greedy books bound what a
  route delivers from the depot since its last reload (`Booked`), and a reload starts
  them anew. The bundle chosen is the first in its rank among those whose compartment
  takes the task; there is one because a finite set of ranks has a smallest. `WarmOk`
  holds of no routes, each step keeps it, and with the set of lengths up to which it
  holds (as for the division) it holds of the routes at the end. Cargo that is picked up
  on the way is not counted by the books and is not in the property (section 6).
- *Monitoring.* `AuditInv` follows a value from the overlay into the record that is
  still to be written (`Noted`). Whatever policy a session holds, what it writes is one
  bounded step from the value that it replaces (`WrittenIs`). That bounds the policy in
  force only if the session holds it (section 6). A step of the tuning is bounded when it
  starts inside the clamps, so `TuneInv` carries that through torn overlays, reverts and the layers
  of fleet, type and asset. The same steps go one way, so the new policy of an asset
  is `Later` than the old one or earlier, and every rule, the forecast and the composite
  score included, is monotone in that order (`ReasonsLean`); what a forecast is made of
  are numbers, whatever the assessment kept of a battery's readings (`BatteryGauged`). `RunsInv` gives each build a directory of its own, whose
  snapshot precedes its manifest. What `EvidenceRobust` and `CompactionKeepsVerdict` say
  of sequences of any length rests on ranks: a finite set with an order has exactly one
  element of each rank (`RankingFacts`), so a sorted sequence is determined by the set and
  the order. Two neighbours that change places keep their order among the readings of
  each series (`SwappedHistory`), hence each series stays. A burst is cut into windows of
  time of which each keeps its last reading; the newest reading is in the last window
  and is its last (`BucketsKept`), and the first is put back. A torn line is no record,
  so what a verdict looks at is the end of the records, and the end of a longer end is
  the same (`LastOfLast`).

Only model-checked: liveness (`EveryEntrySettled`, `PoolReturns`, `ChainEnds`), which
the prover does not cover.

## 6. Where code and documentation disagree

Shown by a run that violates what the documentation states:

- `current_reading_ignored`: a session assesses readings as of the time it was
  started with (`stream/driver.py:248`), so after five minutes every current reading
  is excluded as one from the future; `core/constants.py:1093-1094` means only
  stations whose clock cannot be trusted.

Met while modelling and not given a run. Stream and re-planner:

- A crash between the write of a revision and the record of its ids publishes the
  events again (`planning/plans.py:282-285`), although `stream/dedup.py:12-13` says
  that redelivered events are recognised.
- After a crash between record and commit the restarted session, rebuilt from
  files, suppresses and commits events whose effects it does not hold
  (`stream/apply.py:639`).
- A carried or frozen assignment keeps an operator that became unavailable
  (`adapters/rolling/corrective.py:104`, against
  `src/docs/implementation/05-rolling-dispatch.md:18-19`).
- A task that was cancelled or completed stays assigned while its previous start
  lies before the freeze cutoff (`adapters/rolling/compiler.py:38`), although
  `src/docs/implementation/05-rolling-dispatch.md:15` says that a completed task
  leaves planning; `TasksSettled` checks that this is the only case. Such a flight
  is invisible to the deconfliction (`planning/airspace.py:165-167`).
- A backlog of malformed entries only is never committed or acknowledged
  (`planning/plans.py:329`), although `stream/redis_stream.py:149-151` means to and
  `src/docs/implementation/10-serving.md:86-88` says that malformed entries are
  acknowledged; `EveryEntrySettled` therefore promises an entry only when an event is
  at it or behind it.
- Compaction of the id log does not know what is committed: one run records e1 and
  crashes before the commit, the next recognises e1, records e2 and with a bound of
  one drops e1, and a crash before its commit publishes e1 again
  (`stream/dedup.py:81`), against the docstring at `:12-13`. `DurableIdsSound` holds
  while the ids of the cycle and of its backlog do not outnumber
  `EVENT_DEDUP_MAX_IDS`.
- A payload that is not UTF-8 ends the watcher (`stream/broker.py:155` is outside
  the `try`), although malformed events are said to be skipped.
- A torn line of the id log swallows the next id (`stream/dedup.py:72`).
- Revision directories are padded to three digits, so they sort wrongly from 1000
  on (`planning/plans.py:213`).
- A coverage entry survives the cancellation of its task and is applied to a later
  row of that id (`stream/apply.py:264`); a share reported before the first pass
  makes the pass capture reduced quantities (`:266`, against the docstring at
  `:306-308`); a corrected work-progress reading that is sent again is applied
  again (`:469-474`, against `:438-441`); a completion of a task that is already
  gone is recorded again (`:395`).
- `run_plan_freshness` builds its snapshot from files, so watermarks of streamed
  task events are never compared there, only those of observations.

Solver:

- With `requireForecastCoverage`, missing forecasts are said to make a task
  infeasible (`solver/enforcement.py:160-164`), but line 166 returns early.
- A future that completes between the last wait of `as_completed` and the timeout
  handler is neither collected nor reported (`solver/cluster_pool.py:390`, against
  the docstring at `:248-250`); `PoolAnswers` checks that nothing else is lost.
- When the solver finds no solution, tasks found infeasible before are recorded
  twice (`solver/cluster/routing.py:269` with `solver/cluster/solve.py:75`).
- A reload resets the load of every material, also of what was picked up elsewhere and is
  still aboard (`solver/cluster/routing.py:1268-1270`), and the task then subtracts what the
  dimension forgot, against the docstring (`:1238-1240`: adds its load at the pickup node and
  releases it at the task node); a later fill may then exceed the compartment. `LoadsFit`
  excepts such routes (`Straddled`).
- The warm start books no cargo for a task that has a pickup
  (`solver/cluster/warm_start.py:90`, `:142`), while the capacity dimension loads the
  vehicle at the pickup (`solver/cluster/routing.py:1257-1291`): a seed that fetches
  cargo with the compartment full of deliveries is refused with all the others.
  `WarmStartUsable` counts deliveries from the depot only.
- A successor waits for the fastest vehicle's service time of its predecessor, not
  for the vehicle that was sent (`solver/cluster/routing.py:1336`).
- The improvement pass runs after the refinement and its result is not checked
  against timed restrictions again (`:325`). In the time-expanded model an arc is
  priced by the segment in which the service started, not the departure, and
  dependencies, groups and blocked windows are not among its exclusions
  (`solver/cluster/time_expanded.py:148-173`).
- `get_path` promises the geometry of the selected network path, but when the mode's
  route has none it returns the polyline of anyone's, a slower one, and detours are
  priced along it (`solver/travel_time.py:107-123`); `get_measure` likewise prices
  a link that the route may not take (`:125-142`). A vehicle that is neither on the
  road nor in the air takes the fastest time of all modes (`:105`), although the
  class means to avoid that (`:51`).
- Two clusters that share a vehicle are routed independently, so its routes may
  overlap (`solver/allocation/global_model.py:238`).
- The plain split rounds half to even and then uses a floor chunk: seven tasks with
  a target of two become seven clusters of one (`solver/preprocessing.py:239-241`).

Aerial plans and diffs:

- The module text of `planning/airspace.py:23-25` calls the pass advisory, but
  `apply_airspace_holds` shifts assignments; `adapters/rolling/normalizer.py:55-56`
  says only freshly planned flights can be held, but carried ones are too.
- `fully_deconflicted` counts pairs in conflict before the holds, so it may be true
  while a hold created a new conflict (`planning/airspace.py:205-214`): `HoldsSound`
  says that any pair the report leaves out was parted as solved and brought together
  by a longer hold of one of the two for a third flight. A hold may
  push a flight into the next booking of its own drone (`:127`).
- A second reschedule forgets the orders the first one found started, because
  events are applied in memory only (`solver/reschedule.py:25-38`); when nothing is
  left to schedule the diff lists no removal although the schedule is empty
  (`solver/reschedule_pipeline.py:72-82`).

Monitoring, contracts, serving:

- A rise of the battery after a real service visit is flagged as a sensor fault
  (`snapshot/assessment.py:92-95`); an outlier beside otherwise equal readings is
  not found, because their deviation is zero.
- A service that succeeded, or a policy that was tightened, counts as a withdrawn
  prognosis and so as a false positive.
- Nothing checks that reviewed values lie inside the tuning clamps; one outside
  would jump to its clamp in a single tuning, even against the direction of the
  evidence (`snapshot/policy_tuning.py:145-149`).
- A second `finalize` of a session, with no build in between, steps on from the value in
  the overlay on the same evidence: two steps from the policy in force, where
  `snapshot/policy_tuning.py:9` promises one. An overlay deleted during a session is
  written again by its `finalize`, against `:13-14` (deleting it reverts).
  `TuningAccountable` bounds what each of these writes against the value it replaces, and
  the policy an asset is held to only when the session holds the policy in force.
- An append to the trend file between another builder's read and replace is lost
  (`snapshot/quality_trend.py:55-70`); a torn line merges with the next record.
- A reference that another contract of the domain has as its local id, or a local id that
  two contracts of a domain have, is refused with KeyError (`contracts/registry.py:176-190`,
  `:197-204`), though validation, which compares artifact ids, finds no fault with the
  index.
- When two packs enforce one constraint with different parameters, the first
  domain's win silently; the same holds for a shared operation's sensitivity.
- A feasibility request that names a run by its id copies whatever objects exist,
  also of a run that is still being published, and keeps the copies
  (`serving/api.py:137`, `serving/objectstore.py:155-162`), against
  `src/docs/implementation/10-serving.md:52-54`; `CopiesOfPublishedRuns` is
  therefore about requests for the latest run.
- The fixed window admits up to twice the limit minus one across an edge; a cached
  feasibility answer does not depend on the time it was asked.

## 7. Not modelled

The search inside OR-Tools and CP-SAT, floating-point geometry, speeds and circuity,
the costs of links, the content of snapshots and plans, data generation, code
generation, command line, demo, parameter tuning and tracking. Of modelled parts: inventory, forecast and
asset handlers of `stream/apply.py`, the caches of the clustering, and the performance
feedback file (`solver/performance_feedback.py`), which a crash can reset.

## 8. Plan

Done: all components of section 2 are modelled and checked; every safety property the
runs check is proved as well, but for those that section 5 leaves to the model checker.

What a later extension would take up, in order of weight:

1. That RollingDispatch's `ChainOutcome` contains what SolverChain and
   ClusterRouting produce, as a refinement over one cluster.
2. The inventory and forecast handlers of `stream/apply.py` and the performance
   feedback file.
3. Weather and restriction filters as operators instead of free choices.
