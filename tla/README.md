# Verification of the Sunset ecosystem

TLA+ models of the coordination code of this repository, the TLC runs that check
them on small instances, and TLAPS proofs of their main theorems. Every definition
is translated from the Python source; `PROJECT.json` gives the lines of each one,
the runs, the mutants that show each property can fail, the hazards and the findings.

## 1. Inventory

The repository is a large Python library (`swarm/`, `nerve/`, `fleet/`, `nexus/`,
`logos/`, `ethos/`, `pathos/`, `a2a/`, ...). Its coordination code keeps shared
state, takes steps in several processes or threads, or must survive failures:

| Component | State | Operations | Interacts with | Hard behaviours | Correct when |
|---|---|---|---|---|---|
| PBFT replica (`swarm/fleet_bft_qd.py`, `PBFTNode`) | view, sequence number, view-change flag, logs of PRE-PREPAREs, PREPAREs, COMMITs, VIEW-CHANGEs, executed slots, checkpoints | `handle_client_request`, `handle_pre_prepare`, `handle_prepare`, `handle_commit`, `start_view_change`, `handle_view_change`, `handle_new_view` | messages through the router | loss, reordering and repetition of votes; view change in mid-round | replicas agree on a slot, execute it once and on a full certificate, never go back a view |
| Fleet router and breeding gate (`FleetBFTNetwork`, `FleetBreederConsensus`; `breeder_bft_qd_integration.py`) | faulty and partitioned sets, the three-phase round, pending proposals, breeding log | `broadcast_request`, `run_view_change`, `set_byzantine`, `set_partitioned`, `clear_faults`, `propose_parents` | calls the replicas' handlers | silent replicas, leftovers of old rounds, several failures in a row | a round is all or nothing and says which; only decided batches are bred |
| Thermal budget and auction (`swarm/thermal.py`, `thermal_auction.py`) | slots in use per device, slot of each agent, queue of bids, tick counter | `allocate`, `release`, `parent_sacrifice_before_spawn`, `spawn*`, `tick`, `reset` | called by the daemon and the worker pool | several users of one budget; stale bids; bids on unknown devices | no device is given out beyond its size, every slot has a holder, the best bids win |
| Breeder daemon (`swarm/breeder_daemon_v2.py`) | SQLite `breed_queue` and `lifecycle`, room map, thermal hysteresis | `queue_breed`, `step` (dequeue, checks, room reuse, spawn, lineage check), `start`/`stop` | budget, grid, lineage, circuit breaker | several steppers without a lock; a write that raises halfway; crash and restart | a request is in one place, bred once; no slot leaks; waiting tickets get served |
| Worker pool (`swarm/worker_pool.py`) | one record per worker, slots of the shared budget | `spawn_worker` with its sacrifice, `kill_worker` in two locked parts around the join, `kill_all` | budget, daemon | two kills of one worker; a slot taken between sacrifice and allocation | every slot of a worker is that of a record |
| Room grid (`nerve/room_grid.py`) | rooms, their activity | tick, rebirth | daemon | rebirth while ticking | a reborn room is cold |
| Work queue (`fleet/work_queue.py`) | items, heap, condition variable, dead letters | `enqueue`, `claim` (blocking, with a limit, or not), `ack`, `nack`, `release`, `purge_dead_letter` | producers, workers | late answers after a claim expired; lost and stolen wake-ups; ids used twice; stale heap entries | a task is acknowledged, waiting, claimed or a dead letter; the best goes first; nobody sleeps beside a task |
| Mesh log (`swarm/mesh_wal.py`) | numbered files, offset checkpoint, buffer of the handle | `append`, rotation, `checkpoint`, `close`, `recover` | the vector tables | torn and late writes, a checkpoint written halfway, crash and reopening behind a torn end | what is owed is replayed, in order |
| Mesh vector tables (`mesh_vector_tables.py`, `crdt_merge.py`) | one table per replica, locks | `insert`, `get_sync_payload`, `apply_sync_payload`, `merge_remote_table` | gossip, the log | payloads late, twice or out of order; two merges that wait for each other's lock | tables offered the same rows are equal |
| Tiered storage (`swarm/tiered_mesh_storage.py`) | a hot table in memory, a warm one in SQLite, archives, access counts | `insert`, `query` with promotion, the passes of the maintenance thread, `close` | fleet memory | rows in motion between two tiers, under no common lock; writes that fail halfway; crash | a query finds what is stored |
| Memory log (`swarm/wal.py`) | segments, checkpoint files, sequence number | `append` with rotation and its checkpoint, `checkpoint`, `replay` | memory layers | torn headers, records and checkpoints; opening behind them; a checkpoint taken before the entry is applied | what was replayed once is replayed for ever; a restart brings back what was appended |
| Event bus (`nexus/fleet_event_bus.py`) | handlers by type, history, a loop | `on`, `off`, `emit`, `emit_async` | monitors, web server, conductor | the list of handlers changes while an emit runs through it | every handler has its turn, once and in order |
| Lifecycle machines (`lifecycle_fsm.py`, `breeder_fsm_v2.py`) | state of each agent | transitions | daemon, pool | forbidden transitions | monotone life |
| Leases (`fleet/distributed_lock.py`, `leader_elector.py`) | holder, expiry | acquire, renew, release | services | expiry against renewal | one holder at a time |
| Fleet conductor (`nexus/fleet_conductor_v2.py`) | wrappers of subsystems, their health, queue of postponed tasks | `start`, `beat` with automatic restart, `get_status`, `register_node`, `shutdown`, `spawn_agent`, `drain_queue` | every subsystem; the gateway breaker | walks over the subsystems that cross without a lock; an instance replaced while it is in use | no instance is forgotten or survives a shutdown; a failing one is restarted |
| Gateway breaker (`fleet/gateway_pacing.py`) | state, counters and clocks of a breaker | `can_dispatch`, `record_*`, `get_pacing_status` | the conductor, the dispatch router | late answers; probes in a trial that fails | it opens only on successes, and can |
| Bernstein layer (`fleet/bernstein_orchestrator.py`, `fleet_bernstein_scheduler.py`) | audit chain on disk, worktrees, task runs, schedules | `log_decision`, `verify_chain`, `orchestrate`, `tick` | git, agents, the file system | torn log lines; overlapping runs; misfires | a deleted record is noticed; trees are removed; an occurrence fires once |
| Holonomy consensus (`nexus/distributed_consensus.py`) | votes, trust | propose, vote, check | conductor | partial votes | threshold respected |

The other parts (inheritance tax, migration, parent selection,
metronome, provenance logs, HTTP services, hardware survey, perception, document
compilers, agent protocol, scripts) are in `PROJECT.json` with the reason why they
are left out: numerical code, pure I/O, or single-call functions without protocol.

## 2. Plan

In the order of the damage a fault would do. Done:

1. `PBFTNode`, the protocol under an arbitrary transport; `FleetBFTNetwork`, the
   router and the breeding gate, which composes the replicas and implements both
   `PBFTNode` and the abstract `FleetRound`.
2. `ThermalBudget`; `WorkerPool` on an instance of it; `BreederDaemon`, which composes
   both with the database, the rooms and the lifecycle table.
3. `WorkQueue`, which implements the abstract `TaskBag`.
4. `MeshRows`; `MeshVectorTables` over it and `MeshWAL`, composed in `FleetMesh`;
   `TieredStorage` over the same rows; `MemoryLog`.
5. `SubsystemWrapper` and `GatewayPacing`, composed in `FleetConductor`; `FleetEventBus`.
6. `AuditChain`, which `BernsteinRuns` writes to, and `ScheduleTicks`.

Proved: every safety and action property of the runs, see section 5, which also
names what stays with TLC. Left: the parts of section 6, should they become part of
the deployment.

## 3. Models

### PBFTNode
One action per handler. The variables are the attributes of the class; a log
`(view, seq) -> set of senders` is the set of pairs `<<slot, sender>>`. The
transport is arbitrary: what a handler returns goes into the set `net`, and any
replica may handle any message of it any number of times, late, or never. A
crashed replica, which has no persistent state, handles nothing more. No message
is forged: `FleetBFTNetwork` models a Byzantine node as a silent one. Abstractions:

- `Digest(p)` is injective (SHA-256 taken free of collisions); signatures,
  timestamps and confidences change no branch.
- `_view_change_log[v]` is read only by the primary of `v`, against the quorum:
  its length is kept for that replica, up to `Quorum`.
- `_checkpoints` is read only through its maximum: `lastCheckpoint`.
- `_executed` is kept as the sequence of executions with results.
- Bounds: `MaxView` (no view change starts from it) and `MaxSeq` (requests
  numbered). Both are constants, so the theorems hold for every value of them.

### FleetRound and FleetBFTNetwork
`FleetRound` is the promise: a round decides on every ready replica and returns
TRUE, or on none and returns FALSE, the latter never with a quorum ready.
`FleetBFTNetwork` EXTENDS `PBFTNode` and adds the router: a call is `op`, the
phase, the messages still to be delivered (`todo`, in order, replica by replica)
and the answers (`out`). `Deliver` hands one message to one replica with the very
handlers of `PBFTNode`, so replicas, faults and phases interleave at message
granularity inside a call. One call runs at a time, as the class has no lock and
no caller of it runs two. `RunViewChange` skips the unreachable replicas.
`ProposeParents` and `EndRound` are the gate: the batch is pending until the
round is over, bred on TRUE, popped otherwise.

### ThermalBudget
Every method runs under one lock, hence one action each. A bid's value and
fitness are one rank; prices are left out as they change no allocation. `BudgetTick`
is the whole of `tick`: counter, clearing of the queue, the auction (a stable
sort per device, `Beats`), the dictionary of results (one entry per winner: place
of the first win, device of the last), and their application while there is room;
a bid for a device that is not configured raises after the queue was cleared.
The conductor builds such a budget for its thermal trap (`fleet_conductor_v2.py:273`), and
run `conductor` follows one by itself; the daemon and the pool have theirs in run `breeder`.

### WorkerPool and BreederDaemon
`WorkerPool` keeps a record per worker and uses a budget that it shares.
`spawn_worker` holds the lock of the pool throughout, but the budget has its own:
when the device is full the parent gives way in one action (`SacrificeFor`) and the
slot is allocated in the next (`SpawnAfterSacrifice`), which may find it gone.
`kill_worker` is cut where the code gives up the lock for the join (`KillWorker`,
`ReapWorker`), for several killers.

`step()` of the daemon takes no lock, so every read and write of shared state in it
is an action (`SelectTicket`, `MarkProcessed`, ... `RemoveChild`), and `pc[w]` is where
stepper `w` is. `WriteFails` is a database write that raises: the step ends there.
`CrashRestart` keeps the tables and forgets the rest, as `start()` does. Both use one
budget with one device, in direct mode. Verdicts of FLUX, trajectory, lineage and
circuit breaker are nondeterministic. Mates are left out: they take part in no
branch but those checks. Rooms of the grid are only cold or not. Two history
variables (`children`, `dropped`) record what became of each request. Bounds:
`MaxChildren`, `MaxRequests`, `MaxCrashes`; row ids are reused once nobody has them.

### TaskBag and WorkQueue
`TaskBag` is what a user of a queue relies on: a task that runs is given to nobody
else before its time is over, and leaves only when it is done or its failures reach
the limit. `WorkQueue` is `fleet/work_queue.py` as written: dictionary and heap are
separate (`items`, `heap`), an id used twice leaves its old entry behind, and the loop
of `claim()` is cut where it waits on the condition (`Round`, `Resume`). The condition
has its list of waiters; one that timed out stays in the list until it has the
lock, and may swallow a notification, as in CPython. Time is relative: what is left of
each claim and of each wait. `created_at` is read before the lock, so items may be
entered out of its order. A worker answers late, about a claim that is another's by
now (`Ack`, `Nack`, `Release` look at the id only), or never (`Forget`). Bounds:
`Reading`, `MaxTimeout`.

### MeshRows, MeshVectorTables, MeshWAL and FleetMesh
A row of a table is its agent, its time and the rank of the hash of its signature,
which covers everything else; `MeshRows` says which of two rows wins. Payloads stay in `sent` and are applied late, twice or
never. `merge_remote_table` is cut at the locks it takes: it has its own from `StartMerge`
to `FinishMerge`, in `Fetch` that of the other table as well. `merging` says which table it
is about to read, `fetched` what it has read and not yet applied; nothing else happens to a
table while its lock is held, and in `Fetch` it waits for the other one. `seen` records what a table had to judge since it was emptied.

`MeshWAL` is the log: files of whole and torn records, the buffer of a handle whose
flush failed, `checkpoint.json`, crash, reopening behind a torn end, and what
`recover()` reads of it. A torn record says how many of the cells behind it the
reader takes for its missing bytes (`Gap`): the reader may be back in step, out of
step for ever, or stop at a short end. Sizes are left out, so any append may rotate.
`FleetMesh` gives one table the log: what `append()` accepted is applied, a crash
empties all tables, and recovery replays the operations file by file and record by
record (`Recovered`, `ReadFile`, recursive functions). Power failures are not modelled: what was flushed to the operating system is there after a crash (the
code calls no `fsync` in this log).

### TieredStorage
`TieredMeshStorage` moves a row by taking it out of one tier and putting it into the
other, in two steps under no common lock; every read, delete and write of a tier is
an action, of callers (`op`) and of the maintenance thread (`upkeep`), whose passes
read the rows to demote and to archive at once and work them off. A write that raises
ends the insert or the pass (`SpillRaises`, `SweepSpillRaises`, `PassRaises`). `accepted`
and `spilled` record which agents a query may count on; `sure` marks a query that began
while its agent was in a tier and during which no promotion or demotion held it.
Fitness is a function of the row; vectors and `query_by_fitness` are left out.

### MemoryLog
`FleetWAL`: a file is a header, whole or torn in two ways, and records, one of which may
be torn; what is behind a torn one is not read, or makes opening raise (`TornInside`).
A crash may hit any write (`CrashInHeader`, `CrashInRecord`, `CrashInCheckpoint`). The
caller appends, then applies (`Apply`), as `append()` returns the entry to be applied.
`sequence` is what the code numbers entries with, `id` tells apart two that got the
same number. Segments are full after a number of records, not of bytes.

### FleetEventBus
`on` and `off` change the list of a type in place, and `emit` runs through that same
list by its index (`Turn`): handlers, and other threads, may change it under way.
What a handler does and whether its filter lets the event pass decides nothing. `owed`
and `shifts` record which handlers were there all along and how many removals
before the index an emit has met.

### SubsystemWrapper, GatewayPacing and FleetConductor
A wrapper's `ensure`, `health_check` and `destroy` hold its lock; `restart` gives it up
between the two halves. `FleetConductor` is the threads: `start`, `beat`, `get_status`,
`register_node` and `shutdown` walk over the subsystems under no lock of their own,
and each visit is an action. `beat` sleeps before a restart and does not look at the
health again (`RestartStep`). `spawn_agent` asks a breaker, runs, and tells that breaker
what came of it, even when the conductor has another one by then. The breaker is
`GatewayPacing`, one action per method; its time unit is its probe interval, and ages
and counts stop where they cannot change an answer any more. Bounds: `MaxMade`
(instances a factory makes before it raises for good), `MaxFaults`.

### AuditChain, BernsteinRuns and ScheduleTicks
`AuditChain` numbers the records as they are signed. `log_decision` chains a record in
memory before it writes it; the write may raise with nothing, a part, the line
without its line feed, or all of it in the file, and the next line continues one
without line feed. `Reload` is a new process, which skips lines that do not parse.

`BernsteinRuns` is `orchestrate()` cut at every call that touches shared state: each run
replaces `self._spawner` and spawns and removes trees through whatever spawner is
there, and each decision is logged by an action of `AuditChain` that may raise and
end the run. Attempts, gates and git are outcomes. The tasks of a run are not empty
and have different ids.

`ScheduleTicks` is `tick()` cut where it takes no lock: the copy of the schedules, the
read of `last_fire_at`, each fire, and the write of `last_fire_at` by id at the end,
to whatever is registered by then. A cron expression is a set of minutes. Bounds:
`MaxMade`, `MaxMinute`.

## 4. Runs

| Run | Module, cfg | Instance | States | Shows |
|---|---|---|---|---|
| `pbft` | `MCPBFTNode` | N = 4; three up, 2 operations, 1 view change, or four up and 2 view changes | 163,719 | agreement, full certificates, one execution per slot, decisions known to every quorum; a replica works only in announced views |
| `pbft_payload` | `MCPBFTNode_payload` | 1 operation | violation | finding 1 |
| `network` | `MCFleetBFTNetwork` | two replicas fail at any moment (a third one before the first round), 2 rounds, 1 view change | 441,056 | a round is atomic, the gate is honest, a new view has its support, the router implements `PBFTNode` |
| `network_leader` | `MCFleetBFTNetwork_leader` | replica 2 fails, 2 view changes | violation | finding 2 |
| `thermal_leak` | `MCThermalBudget_leak` | 3 agents | violation | finding 3 |
| `breeder` | `MCBreederDaemon` | one stepper, 2 requests, 2 rooms, 2 slots; one worker, two killers and 1 crash, or two workers | 279,530 | no slot leaks, the retired hold nothing, requests are accounted for, a top ticket gets its turn |
| `breeder_race` | `BreederDaemon_race` | two steppers | violation | finding 4 |
| `work_queue` | `WorkQueue` | 2 ids, 2 workers, 2 priorities, 2 retries | 210,868 | nothing stranded, no lost wake-up, best first, waits with a limit end, the queue implements `TaskBag` |
| `memory` | `MCFleetMemory` | tables: 2, 3 rows; 3 records in 3 files and a torn one, or 1 record, all rows and direct merges. Tiers: 2 agents, one caller with a clock and a fault, or two callers. Log: 4 entries, segments of 2, checkpoints every 2, 3 crashes | 725,844 | tables hold the best row, what is owed is recovered, recovery makes the table of the writes; a query misses only an agent in motion; replay grows at its end and loses no entry but one numbered like a checkpoint |
| `mesh_deadlock` | `MCFleetMemory_deadlock` | as `memory` | violation | finding 5 |
| `conductor` | `MCFleetConductor` | 2 subsystems, 2 instances of each, 2 faults; two beaters, a beater and an operator, two callers, or a caller around a shutdown. Bus: 4 registrations, 2 events, 2 emits at once. Slots: 3 agents, devices of 1 and 2 slots and an unknown one, 3 bids | 168,114 | no instance forgotten or surviving, queued tasks wait once, failing subsystems are restarted, the breaker opens on successes, and can; handlers have their turns in order, and are skipped only for a removal; no overcommitment, exact counts without the auction, better bids win |
| `bernstein` | `MCBernstein` | 5 records, 3 processes, 2 failing writes; two runs of 2 and 1 tasks that share a task id; two ticking threads and a schedule; one and 2 registrations | 171,197 | the log is honest, runs stay apart, windows fire once and none is lost |

`MC` modules of a layer whose parts share no variable in the end let a behaviour
follow one part only: `focus` (or `crowded`) is chosen in the initial state and
never changes. This is a union of smaller instances, not a restriction of the
properties: each property is checked in all of them.

Why the bounds are enough. Four replicas are the least that tolerate a fault; with
three up every quorum needs all of them, and the fourth is the one that is missing.
The votes of different slots do not interact but through `view` and `inViewChange`,
so one slot is followed to the end while a second proposal competes with it. Two
view changes let an old NEW-VIEW meet a later view. Two faulty replicas are one more
than f, so rounds fail as well as succeed, at each phase; with a third one the new
primary is alone, and must not announce its view. One slot and two slots make devices
that fill in different orders, and three bids a device that refuses one of two. Two
requests, two rooms and two children reach the reuse of a room, a sacrifice and a
request that overtakes another; hysteresis 2 blocks once before a sacrifice; two
killers are what it takes to reap a worker spawned again under its id. In
the budget a bid for an unknown device is alone, and three bids are of three agents for
one device, where one or two of them are refused; two bids are any. Agents of the budget are
symmetric, as no handler compares them: `thermal_leak` has the permutation set. Two workers
and two ids make a waiter whose task another takes, a late answer for a task that
is another's by now, and a heap entry that is stale. Three records in three files
make a checkpoint between rotations, files unlinked and kept, and a torn record
before, between and behind whole ones; two rows of one time and one of a later
make every kind of tie. Two instances of a subsystem let one thread stop what
another has just made; `RestartAt` is the 3 of the code. The backoff bounds are
scaled to 2 and 3 units, which keeps a linear step, a doubling and the cap. One hot row, and an agent that is feverish beside
one that ages, make every kind of move: up, down by a caller, down by the thread, into an
archive; two callers move one row in both directions. Four entries and three crashes make
a log torn, opened, appended to and torn again, in the file and in the next one. Two
emits at once and four registrations make a list that shrinks and grows under both. Three
processes let a log be torn in one, continued in the next and read in the third.
Two minutes to fire at, with a catch-up limit of 1, make windows that are fired, skipped
and beyond the limit. `CHECK_DEADLOCK FALSE` everywhere: every part may be left idle,
and bounds end every behaviour. Mutants of the definitions, kept beside them and
marked as such, are what each property is tested with.

### Findings
1. **A quorum executes the empty payload.** `handle_commit` executes the payload
   of the COMMIT (`fleet_bft_qd.py:354`), which `handle_prepare` leaves empty; the
   operation of the PRE-PREPARE is stored nowhere. `ExecutesProposal`.
2. **A completed view change without a primary.** The new primary leaves its view
   change without adopting the view it announces (`:445`), and then ignores its
   own NEW-VIEW (`:455`). `LeaderAfterViewChange`.
3. **The auction leaks slots.** A win is applied without looking whether the agent
   holds a slot (`thermal.py:363`). `SlotsAccounted`.
4. **A ticket served twice.** SELECT and UPDATE of `dequeue_breed` are not one
   transaction (`breeder_daemon_v2.py:351`) and `step()` has no lock. `ServedOnce`.
5. **Tables merged into each other deadlock.** `merge_remote_table` holds its own lock
   while `all_entries()` takes that of the other table (`mesh_vector_tables.py:436`), under
   a comment that says "avoid holding both locks". `MergesDoNotDeadlock`.

What the models also showed, and the properties say by name as exceptions:

- An expired claim notifies nobody (`work_queue.py:153`): a worker that waits without a
  limit sleeps beside the task until the next `enqueue`. `NoLostWakeup` excepts it
  (`lapsed`). Expiries count no retry, so a task whose workers die is given out for ever.
- A torn record may cost every record behind it in its file, also those appended
  with success after a restart (`mesh_wal.py:229`): `BehindTorn`.
- A query of the tiers misses an agent that is being moved (`sure`), and a write that
  raises behind a pop loses the row (`spilled`, `tiered_mesh_storage.py:381`). Inserts that
  read the size of the hot tier together exceed `emergency_hot_capacity`, "Absolute max hot
  entries" (`:59`, `:288`).
- The checkpoint that `append` takes bears the number of an entry the caller has not
  applied yet (`wal.py:256`), so a restart from it loses that entry, though `:72` says
  "Up to which entry this checkpoint covers": `OnlyCheckpointEntriesLost` excepts it.
- What is appended behind a record a crash tore is never replayed, or keeps the log from
  being opened (`TornInside`, `Unversioned`), though `wal.py:3` says "crash-safe".
- `off()` during an emit makes it skip a handler registered all along, and nothing is
  logged, though `fleet_event_bus.py:23` says dropped events are: `shifts`.
- A refused task is reported as queued although the list was full
  (`fleet_conductor_v2.py:862`): `full`.
- A run of `orchestrate()` beside another removes trees through the other's spawner, and
  leaves its own behind (`bernstein_orchestrator.py:764`). A run with a task of the
  same id takes the tree from the other in mid-work. A task whose tree could not be
  made is run all the same, and may pass and be merged with an empty branch name.
- Two ticks at once fire a window twice (`fleet_bernstein_scheduler.py:1074`), though
  `docs/FLEET_CONDUCTOR_V2.md:200` calls `beat()` safe from several threads; a
  `task_spec` that `json.dumps` refuses is dispatched again by every tick.
- `created_at` is never read, so windows more than a minute before the first tick
  vanish, though `docs/FLEET_BERNSTEIN_SCHEDULER.md:133` says missed ones are logged.
- A `last_fire_at` written to a registration that has replaced the one fired makes the
  next tick fire windows before it was registered.

### Fairness
- `work_queue`: weak fairness of `Tick` (time passes) and of `Resume` (a thread that may
  have the lock gets it). Nothing is assumed of workers, who may never answer.
- `conductor`: weak fairness of each thread (`Beating`: the calls of subsystems return,
  and `beat()` is called again), of each caller (`Spawning`: tasks return, and `spawn_agent`
  is called again) and of `Time`. The properties are about a program that goes on.
- `bernstein`: weak fairness of `Begin` (`beat()` is called for ever) and `TickStep` (what a
  fire dispatches returns).
- `breeder`: weak fairness of the steps of a stepper, as `_run_loop` calls `step()` for
  ever, and strong fairness of `MarkProcessed`, as a locked or full database that is
  tried again and again lets an UPDATE through in the end (without it a ticket may be
  selected and left for ever). Nothing is assumed of the pool, crashes or verdicts.

`PBFTNode` has no liveness property: the code has no timer (`timeout_sec` is not read)
and whoever calls the router decides whether to try again. That every ticket of
the daemon is served is not true of the code (a flow of higher priorities, or a
`CheckPathA` rejection, starves one); hence only `TopTicketGetsTurn`.

## 5. Proofs

For all values of the constants, under the assumptions named in the modules
(`ConstantsAssumption`, `BudgetAssumption`, `DaemonAssumption`, `QueueAssumption`,
`RowsAssumption`, `TablesAssumption`, `LogAssumption`, `MeshAssumption`,
`MemoryLogAssumption`, `WrapperAssumption`, `PacingAssumption`, `ConductorAssumption`,
`BusAssumption`, `AuditAssumption`, `RunsAssumption`, `SchedulesAssumption`): numbers
are natural, sets that are counted are finite, values that stand for nothing are none of
the things they are compared with, the tasks of a run have different ids, and the
dictionary of subsystems has all of them.

- `PBFTNode_proofs`. `TypeCorrect`: `TypeOK` is inductive as it stands. `ViewMonotonic`: one
  step per handler; the guard of `handle_new_view` and the increment of
  `start_view_change` are what it rests on. `AgreementHolds`: `AgreementInv` adds that a
  proposal of a view comes from its primary with a number it has already used up
  (`ProposalsNumbered`), hence there is one proposal per slot (`OneProposalPerSlot`),
  and every vote carries the digest of a proposal (`VotesProposed`). The argument
  does not need quorums: the code compares no digests in its vote logs, and it is
  the numbering by the primary that makes this harmless with replicas that do not lie.
  `CertificatesHold` and `DecisionsSurvive` do count, over `CertInv`: a vote in a log was sent
  by its sender (`VotesSent`), a COMMIT is sent on a quorum of PREPAREs (`CommitsBacked`) and
  an execution leaves a quorum of COMMITs (`ExecutionsBacked`); logs only grow, and two
  quorums share a replica, whatever the size of the fleet, but for 2, 3 and 6
  (`WhereQuorumsMeet`: there two quorums of 2f+1 without a common replica exist, and
  a decision may not survive). `ExecutesOnce` and `ViewsAnnounced` (no replica
  works in a view that its primary, or that of a later view, has not announced) are
  inductive with the type.
- `FleetBFTNetwork_proofs`. `FleetRefinesPBFT`: each delivery of the router is a step of a
  replica under the arbitrary transport of `PBFTNode`, or a stutter, so that what is
  proved there holds of the fleet (`FleetKeepsPBFT`). `RoundsAreAtomic`: the router
  implements `FleetRound`. Its invariant (`FleetInv`) follows a call stage by stage: a ready
  replica has the vote of another in its log, or that vote is still to be handed to it
  (`PrePrepareInv`, `PrepareInv`, `CommitInv`), so that at the end all that are ready have
  decided or none has. `BreedsOnlyTheDecided`: what a node has bred is at most what it has
  proposed and a quorum has executed, the round under way not counted (`GateInv`).
  `NewViewsSupported`: the new primary counts each vote that was handed to it once, and its
  own twice (`VotesCounted`): hence `Quorum - 1` in the property.
- `BreederDaemon_proofs`. `TypeCorrect` for every finite set of steppers: each step moves one
  stepper along `pc` and does one thing to its ticket. The next ones for one stepper
  (`OneStepper`), as in the deployment, where `start()` makes one thread; with two they
  fail: run `breeder_race` shows it of `ServedOnce`. `PlaceInv`: a request has one row, is
  in the stepper's hands, has one child or was dropped; these places are disjoint and
  make up all requests (`OnePlaceEach`), and between its SELECT and its UPDATE the ticket is
  still a row (`RequestsAccounted`, `AloneServesOnce`). `RoomInv`: a child has one room
  (`OneRoomEach`), one that is not in the table has nothing (`UnbornHoldNothing`), and each
  `pc` has made sure of something for the room, the old agent and the child it carries
  (`Reusing`); from this the two properties are inductive (`SlotsDoNotLeak`,
  `RetiredForGood`). Again for every number of steppers: `BudgetUsedAsSpecified`, each step of
  a thread, the pool or a crash is one operation of `ThermalBudget` or none, so that the
  composition implements it; `SharedBudgetKept`, hence the shared count is that of
  the holders and within the slots (`BudgetKept`); `WorkersSlotsRecorded`, a step takes slots
  from workers and gives them none.
- `ThermalBudget_proofs`. With the auction off, the count of each device is the number
  of its holders (`DirectInv`). With the auction on that is false (finding 3), and what
  remains holds in both modes: no more holders than counted, and no more counted than slots
  (`BudgetInv`, `BudgetNeverOvercommitted`). The step that matters is the auction: the bids
  are ordered strictly and totally (`PrecedesOrder`), so that there is a last one among
  those granted on a device, which saw all others before it and still found a slot
  (`GrantsFit`). `BetterBidsWin`: whatever is ahead of the better bid is ahead of the other
  one too (`BetterIsAhead`), within the device's limit and among the results applied.
- `WorkQueue_proofs`. `NothingIsStranded` is inductive with the type: each action that
  pops an entry pushes it back or has dropped the item. `ClaimsBestFirst` follows from
  it: were a better item ready, its own entry would be in the heap and before the one
  taken. `QueueKeepsTasks`: every step of the queue is a step of `TaskBag` or a stutter
  under the mapping of `WorkQueue`. `NoWakeupIsLost` compares two sets that are counted: a
  worker is queued as a waiter once (`WaitersOnce`), so each notify adds one notified worker
  for the task it made ready (`NotifyBalances`), and a worker that leaves took a task with
  it or found none ready.
- `FleetMemory_proofs`. `WinnerSemilattice`: the winner of two rows is commutative,
  associative, idempotent and no worse than either, which is why order and repetition of
  merges do not matter; `TablesHoldBest` is inductive with the type on top of it.
  `DueIsRecovered`: `LogInv` says that the file being written is the last
  one (`CurrentIsLast`), that a readable checkpoint names a file that is there and an
  offset inside it (`CheckpointOnDisk`), and that every record owed is in a file that
  recovery reads, behind its start (`AllPlaced`). No step then moves one out of reach.
  `MeshKeepsLog`: the log of `FleetMesh` takes steps of `MeshWAL` only, so this holds there.
  `RecoveryRestores`: the numbers of the records grow from place to place and from file to
  file, and those of the buffer follow (`InOrder`); the durable table is the last of the
  stages that the owed writes make one after the other (`DurableMade`). Each record that
  recovery reads then goes from one of these stages to the next (`RecordSplits`,
  `FileRestores`): between two of them nothing is owed that is not read. That `Recovered`
  has a value for every file and place is proved too (`RecursionExists`), by the least
  place where it would not (`InductionTo`), since the induction theorems of the library take
  operators. `FaultlessRecovery` drops the premise of `Restorable` on a disk that takes every
  write whole: nothing is then torn, and what recovery reads is owed (`CleanLog`), so what it
  makes is the durable table, wherever crashes between writes and restarts fall.
  `MeshHoldsBest`: what was recovered is well typed, hence a table that loads
  it holds the best of it, and of what it is offered later.
  `MissesAreExplained`: `TierInv` says that a row that was accepted is in a tier, in the
  hands of one thread, or was lost by a write (`Kept`), that the rows about to be deleted
  are in the archives (`ArchivedFirst`), and that a query that nothing disturbed has its row
  below where it looks (`QueriesFine`); a move disturbs the queries for the row it takes
  and no others. `EntriesAreAppended`: a number that is handed out is above those of all
  records that can be read (`SequenceLeads`, while the log is open) and no record has one
  that was not handed out (`NumbersFit`). `RestartsLoseLittle`: what was acknowledged has a
  record (`Persisted`), and as long as no file is torn it is in each checkpoint that came
  after it and in the layers, unless a checkpoint bears its number (`Covered`).
- `FleetConductor_proofs`, for every number of threads and callers.
  `WrappersKeepInstances`: an instance is numbered by its factory, is told to stop only when
  it was made, and the one in the wrapper has been made (`MadeInOrder`), so that a new
  one is never among the stopped. `ShutdownIsComplete`: what a shutdown met alive had been
  made (`Remembered`), so that a visit finds it in the wrapper or already stopped; the
  order of the visits does not matter, only that they reach every subsystem.
  `QueuedTasksWaitOnce`: a task is in the hands of one caller and then known nowhere
  (`InHand`), or in the list exactly when it was reported and found room
  (`QueueInv`). `BreakersEarnReopening`: what a trial counts was earned since the breaker
  closed, and outside a trial nothing is counted (`EarnedIn`). `HandlersInTurn`: the list is
  always in the order of registration, since `off()` only takes out, and each removal
  before the index makes an emit pass over one handler at most.
- `Bernstein_proofs`. `ChainIsHonest`: in the invariant records are numbered by session
  (`SessionsInOrder`), a line names no later record than itself (`NotLater`), and names
  its predecessor of the session (`Linked`); were there a gap in a chain that verifies,
  consider the first record behind it; concurrent runs and their restart write to the log as
  `AuditChain` says (`RunsLogHonest`). `RunsStayApart`: a tree that a run works in is on
  the disk or has a rival (`WorkKept`), a run that is alone has its own spawner
  (`SpawnerOwn`) and no tree but those it works in (`TreesOwned`), runs beside each other
  know it (`BesideNamed`), and the count is the number of the tasks of the runs under
  way (`CountInv`). `FiresOnce`: an id never in two hands is in one at most, and there
  once (`OneHand`), all windows fired are behind the anchor of the tick that has the
  registration (`BehindAnchor`), or else behind its `last_fire_at` (`BehindLastFire`); what
  is registered anew meanwhile has not been fired yet (`NewUntouched`).
- Type invariants are proved for these modules (`TypeCorrect`, `QueueTypeCorrect`,
  `TablesTypeCorrect`, `WalTypeCorrect`, `ConductorTypeCorrect`, `AuditTypeCorrect`,
  `RunsTypeCorrect`, `SchedulesTypeCorrect`), and so is `ViewNeverDecreases`; no run checks
  them as well, but for the type of the daemon.

Model-checked only: liveness (`TopTicketGetsTurn`, `TimedClaimReturns`,
`FailingIsRestarted`, `CircuitRecovers`, `WindowsAnswered`), since fairness and ENABLED are
beyond the prover; and what the five runs with a violation show. No module uses
RECURSIVE operators.

## 6. Not modelled

- Replicas that lie or forge (the code has none: `set_byzantine` silences a node);
  concurrent calls of the router; the quality-diversity and semantic layers of the BFT
  file, which are numerical.
- Prices of the auction; thermal readings (a temperature changes no size).
- Two steppers in `NoSlotLeaks`: the room map is then written by both without a lock,
  and the property is stated for the deployment with one. A child whose `allocate`
  fails after its room was promised competes without a slot: that is modelled
  (`AllocateSlot`) and no property forbids it. Selection of parents, remote
  populations, the inheritance tax and the signed log of the daemon.
- What the threads of the pool compute; scripts that release and spawn by hand; a worker
  spawned under an id whose record is still there, as a clash of random ids would do
  (`worker_pool.py:270`). A worker of the queue with several tasks claimed at a time.
- Power failures in the mesh log (no `fsync`), a rotation that raises, a checkpoint file that
  cannot be written before the old files are unlinked; `FleetVectorIndex` and the gossip queue,
  numerical search; the genome arithmetic of `crdt_merge.py`, where ties keep the local
  value, so that replicas may differ: a merge of floats without a promise to check.
- Of the memory log: an append or a checkpoint that raises in a process that goes on
  (`wal.py:223`, `:256`), sizes in bytes, the flushing of single layers (`replay` of one layer
  filters the entries), statistics. Of the tiers: reads that scan
  (`query_by_fitness`), signatures refused once room was made.
  The shards of `fleet_memory.py` above them and its search front ends.
- Of the event bus: the history, a bounded list that is only read, and the loop async
  handlers are scheduled on. `_ensure_loop` makes one when none runs and keeps it, and
  nobody runs it, so that those handlers never run: a statement about one variable that
  the code sets once, which needs no model.
- The older conductor and the federation: calls without state of their own. Subsystems whose factory asks for others. The dispatch router asks a breaker of
  its own that nobody reports to.
- A `cleanup` that cannot remove the tree (`bernstein_orchestrator.py:194`); a malformed
  cron expression, which is stored before it raises, never fires, and keeps no other
  schedule from firing. Receipts are written in the last
  step of a tick.
- Replay, phased dispatch and worker isolation of the Bernstein scheduler, which record one
  dispatch; gates, which are outcomes. Its restart as a subsystem loses every
  schedule, as they are kept in memory. Without the key in the environment each
  process signs with a key of its own, and no older record verifies: the model assumes
  the key. Runs with no task, or with two of one id.
- Leases, leader election and holonomy votes: objects of one process that only their tests
  use; a lease that has expired can still be renewed, and a node that votes twice counts
  twice, in code no other part calls.
- Agent lifecycle machines: the daemon creates them non-strict and never consults the
  table of transitions.
- The numerical, document, I/O and report code listed in `PROJECT.json`: a finite model
  would tell nothing apart there.
