# NestWeaver server mode in TLA+

NestWeaver indexes git repositories into a code graph. In server mode one daemon
keeps many repositories current: webhooks, polls and administrators put jobs into
a durable queue, a pool of workers fetches and parses, and one writer at a time
commits to the embedded graph store. This project models the part of that which
is concurrent, restartable and time-dependent: the job queue, the per-host
circuit breaker, the shutdown drain, the composition of queue, workers, write gate,
config and graph, the poll scheduler, the writer authority over a database file
between processes, the offline rebuild that publishes a new graph beside the old, and the
health of the upstream servers that clients query beside the local one.
TLC checks small instances; TLAPS proves every safety property the passing runs check for all
values of the constants (four of them under a condition that is named), and that the
authority registry implements a readers-writer lock. Liveness stays with TLC.

Paths below are relative to `src/crates/`, those of the command-line program to
`src/src/`.

## 1. Inventory

| Component | State it keeps | Operations | Talks to |
|---|---|---|---|
| Job queue, `nestweaver-engine/src/jobs.rs` | SQLite table `index_jobs`: one row per repository (status, priority, attempt, `requeue_needed`, `claimed_by` token, lease, `started_at`, `updated_at`) | `upsert`, `claim_next`, `complete`, `requeue_if_stale`, `fail`, `defer`, `reap_expired_leases`, `recover_stale`, `recover_all_running_at_startup`, `cancel_*`, `enqueue_declared_repo`, `reset_dead_letter_by_id`, `dismiss_dead_letter`, `claim_is_active` | everyone; one `std::sync::Mutex` around the connection |
| Worker pool, `nestweaver-engine/src/worker.rs` | a semaphore, `in_flight`, the tasks | claim loop; task: snapshot, fetch, prepare, check, plan, diff, gate closure, commit, outcome | queue, breaker, config map, gate, store |
| Circuit breaker, `nestweaver-engine/src/circuit_breaker.rs` | per host: failure times, `opened_at`, `probe_in_flight` | `admit`, `record_success`, `record_failure`, `release_neutral_probe` | fetches of the worker tasks |
| Shutdown drain, `nestweaver-engine/src/drain.rs`, `nestweaver-daemon/src/server.rs` | atomics `drained`, `shutdown_started`, `active_writes`, `in_flight`; the shutdown watch channel | write admission, `begin_shutdown_drain`, `run_drain`, admin drain and resume | RPC and admin writes, claim loop |
| Admin API, `nestweaver-web/src/routes/admin.rs` | none of its own | add, remove, reload, reindex, dead-letter retry and dismiss, drain, resume | queue, gate, config file and map, store |
| Webhooks, `nestweaver-daemon/src/webhook.rs` | an allow-list | verify, enqueue | queue |
| Poll scheduler, `nestweaver-engine/src/scheduler.rs`, poll loop of `nestweaver-daemon/src/server.rs` | schedule rows, `PollInFlight` (generation, entries, tasks), probe permits, a command channel | add, remove, reload, tick, dispatch, probe, join | admin, queue, store, remotes |
| Runtime config | `runtime_repo_configs` map and `instance.toml` | append, remove, replace | admin, workers |
| Write gate, `nestweaver-engine/src/write_gate.rs` | a tokio mutex with waiting metadata | acquire, release | workers, admin, RPC writes |
| Publication, `nestweaver-engine/src/publication.rs`, `publication_operation.rs`, `main.rs` | `CURRENT`, one slot per publication, one journal (`state.json`, `inputs.json`) per operation, a root lock | rebuild, resume, rescope, cancel, discard, activate, roll back, prune | sources, config, daemon startup |
| Write lease, `nestweaver-store/src/write_lease.rs`, `stable_anchor.rs`, `cli/backup.rs` | a process-wide claim, a registry entry, a namespace lock file, the record lock on the database, the flock on its sidecar | acquire, fail, release, probe; `daemon gc`; restore | every process that opens a database |
| Federation, `nestweaver-federation/src/upstream.rs`, `health.rs`, `nestweaver-client/src/hybrid.rs`, `nestweaver-web/src/federation.rs` | per upstream: four health atomics, a connection flag, latency estimates and a timeout streak; an ejection guard | query, cold connect, eject under a cap, probe, restore | upstream servers, clients |
| Watchers, parsers, resolvers, clients, MCP, lifecycle | see PROJECT.json | | |

What is hard about it:

* *Two tasks of one repository.* A lease is a timer, not a lock: a slow task loses
  its row, a second task claims it, and both report later.
* *Events during work.* A push that arrives while its repository is being indexed
  must survive that run's completion.
* *Crashes between autocommitted statements*, with admin handlers that edit four
  places one after the other.
* *Values read early and used late*: config snapshot, fetched commit, diff base
  and claim are read without the gate and used under it.
* *Counters sampled at different moments* while others increment, check and undo.
* *Late outcomes* of calls that were admitted under a previous breaker state, and of
  probes whose repository was removed and added again.
* *Locks on inodes, agreements on names.* `flock` and record locks belong to inodes,
  callers meet on path names, files are unlinked and renamed by others, and closing any
  descriptor drops a process's record lock.
* *A journal that two commands write*, a crash between any two of its checkpoints, and
  inputs that change under a rebuild that takes hours.
* *Health without locks.* Queries mark an upstream down, probes mark it up, and each does so
  in four Relaxed stores.

What makes each component correct: no accepted event is lost and only the newest
claim is honoured (queue); one probe per opening, at least a cooldown after the
last failure, and no hidden burst (breaker); nothing is running at the broadcast
and the broadcast comes (drain); what is served is the recorded commit, built
under current settings, and eventually the newest one (server); no name is blocked by a
probe that is gone, no stale answer is used, and no commit goes unnoticed (polling); one
writer, and none inside a directory that is being replaced (lease); a selector that always
points at a complete, sealed graph built from what its plan says (publication); a bounded
part of the upstreams out of rotation, and none of them for good (federation).
PROJECT.json lists
every hazard at its line with the properties that would catch it.

## 2. Modules

```
JobRows          the SQL statements as operators on the table
  |-- JobQueue         who issues them when; clock, crashes     -> JobQueueProofs, MCJobQueue
  |-- IndexServer      composition: tasks, gate, config, graph  -> IndexServerProofs, MCIndexServer
CircuitBreaker   one host                                       -> CircuitBreakerProofs, MCCircuitBreaker
ShutdownDrain    atomics, one action per atomic operation       -> ShutdownDrainProofs, MCShutdownDrain
PollScheduler    schedule, loop, probes, admin handlers         -> PollSchedulerProofs, MCPollScheduler
ReadersWriter    what an authority anchor promises
  ^  implemented by
StableAnchor     one registry entry, its callers, daemon gc     -> WriteLeaseProofs
  |-- WriteLease       the whole writer authority, restore      -> WriteLeaseProofs, MCWriteLease
Publication      rebuild, CURRENT, the daemon that opens it     -> PublicationProofs, MCPublication
UpstreamHealth   health atomics, ejection, recovery probes      -> UpstreamHealthProofs, MCUpstreamHealth
```

### JobRows and JobQueue

`jobs` maps each repository to its row, which is what `UNIQUE(repo_id)` makes of
the table; `status = "absent"` is "no row" and 0 is NULL. Each statement is an
operator with the statement's WHERE clause as its condition: `Fenced` is
`id = ? AND status = 'running' AND claimed_by IS ?`, `fail` and `defer` look rows up
by id, `requeue_if_stale` by `repo_id` alone, `complete` by both.

`JobQueue` has one action per caller. Statements issued under one mutex guard form
one action; `CompleteOnly` is a successful outcome whose second statement did not take
place (a crash in between, or its ignored error), `LoseOutcome` the ignored error of
`let _ = q.complete(..)`. After `CompleteOnly` the row is succeeded with its mark set,
and nothing reads marks at startup: it waits for the next event or poll.
Startup and reload hold the guard for a loop of autocommitted statements, so they
are phases in which nobody else touches the table but a crash may happen
(`StartDaemon`, `EnqueueDeclared`, `StartupCancel`, `RecoverAtStartup`,
`ReloadConfig`, `ReloadDone`). In phase `boot` webhooks and the reaper already
reach the queue while the worker task has not yet recovered the old running rows.
A crash inside the loop of `cancel_repos_not_in` needs no action of its own: the table
it leaves is that of a start with a larger config followed by a crash. Not modelled:
a reload during `boot`, and a failing statement of the reaper's pair.

Two history variables serve the properties: `owed[r]` is `Waiting` from an event
until a claim takes it, then that claim's token, then `Settled`; `spared[r]` counts
recoveries that did not check the attempt cap.

Abstractions: `trigger`, `error_msg`, `created_at`, `completed_at`, `branch` are left
out (a claim may take any row of the best priority tier, where the code takes the
oldest). An event may name any repository, declared or not, because the webhook
allow-list lags behind removals. Tokens are numbers handed out in order; the code
draws 16 random bytes, taken to be unique. A pool slot is a held claim.

### CircuitBreaker

One host; `opened_at = 0` is `None`. `failures` is a set of numbered instants: nobody reads
the order of the `Vec`, and the number tells two failures of one instant apart. `call[c]` is `Idle`, `ViaClosed` or the stamp of the
opening the probe was admitted under. Each method is one action because it runs
under the registry's mutex. Errors are classified by whoever records them: any
call may succeed, fail against the host (or panic) or fail neutrally. `sinceSuccess`
and `lastFailure` are history.

### ShutdownDrain

Every load, store and read-modify-write of the four atomics is an action of its
own. A write counts itself, checks `shutdown_started`, and undoes or proceeds; the
claim loop checks, waits for a permit, counts, checks again, claims; the drain loads
`active_writes` and then `in_flight`. All are taken to be sequentially consistent:
the counters and `shutdown_started` use SeqCst in the code; `drained` too, except for
the store of `begin_shutdown_drain` and the poller's loads, which are Relaxed, and no
property depends on `drained`. `claims_blocked` is two loads in the code; `shutdown_started`, the second,
never falls back, so "both clear" is linearised at the first load. The ceiling of
`run_drain` only logs and is left out.

### IndexServer

The variables are the job table, the remotes, the config file, the runtime map, the
graph (Repo row, commit, content of one file, settings it was built with, and the
publication-incomplete debt), the tasks, the gate and the running admin handler.
`TaskStep` is a task's way through `worker.rs`: `Snapshot`, `Fetch`, `Prepare`,
`CheckClaim`, `Plan`, `Diff`, `EnterGate` (the `acquire_write_guard` closure: gate, config,
claim), the write, `Finish`; `FailTask`, `FailWrite` and `DeferTask` are its error paths.

The write has two forms. An incremental index is one transaction (`Write`): content, sha and
policy together. A full index (first, forced, rewritten history, changed settings, torn
predecessor) is several, and the model has them: `RecordDebt`, `InsertRepo`,
`ReplaceContent`, `RecordSha`, `RecordPolicy`, `ClearDebt`, all under one hold of the gate.
The daemon may crash, and a step may fail (`FailWrite`), before any of them; what was
committed stays, with the debt. The debt is what makes this recoverable: `UpToDate`, which is
read before and after the claim is checked, is false while it is there, and `Plan` then picks
the full mode, whatever the sha says. The MCP tools refuse to answer while a visible repository
has it (`nestweaver-mcp/src/tools.rs` 4645), so a torn index is not counted as served.

The admin handlers hold the gate throughout but change file, map, queue and graph in
separate steps, and the graph in two transactions (`RemoveContent`, `RemoveNode`), so a crash,
an error (`FailRemove`) or a stray webhook can fall between them. An incremental write whose
repository row was removed after its diff fails (`RowGone`). Content is `Blob[commit]`: an
incremental write leaves the served content alone when its base and its commit agree on it.

Abstractions: no clock (`ExpireLease` is allowed `MaxLate` times; `JobQueue` has the
timing); branch, type, exclude and unskip are one `policy` value; commits form a
line; `ReindexTracker` is a free choice of `force`; the queue mutex is implicit
in the atomicity of the actions (it is always taken inside the gate, never the other
way round, which is argued here and not checked). `ReplaceContent` is one action for what a
full index commits between the debt and the sha: files, symbols and edges, for a first index
in two transactions, and the contracts, whose failure does not fail the job. A removal clears
the derived nodes between its two transactions and keeps policy and debt. `repo_index_incomplete`
also counts a sha with neither content nor policy; only stores from before the debt have that
(a removal that is cut short leaves the policy: see section 4). The real publication may
release and re-take the gate through the same closure; that is one `EnterGate` here. Not
modelled: vaults, and a reader that replaces its strategy during a full index.

### PollScheduler

A repository is known by its URL in the config and in the queue, and by a name in the
schedule and in `PollInFlight`; the two names it can have (the config's, and the one made of
the URL) are the constants `SchedName` and `UrlName`. `Tick` dispatches any set of due rows,
because the adaptive interval is left open; `Receive`, `Tick`, `Join` and `JoinDead` are the
branches of the loop's `select!`; `StartProbe`, `ProbeAnswers` and `ProbeFails` are the probe
tasks with their semaphore. Entries carry the generation they were dispatched under
(`Owns`). The admin handlers change config, queue and graph and send commands; each may end
early (`Fails`) and a reload sends after it gave the write gate back (`ReloadTells`).
`untold` is history: the URLs whose config entry is not the one the loop was last told of.
`probes[k].stale` is history too: the probe's repository was removed or reloaded since.
Abstractions: rows of other sources than config and admin calls (legacy repositories in the
graph) are left out, a `poll` override is only `never` or not, a worker's job is one step
(`Index`), and branches do not change.

### StableAnchor, ReadersWriter and WriteLease

`StableAnchor` is one entry of the authority registry: `entry` is the inode its name means,
`fd` and `flock` what each caller has open and locked. An acquisition opens (`AnchorBegin`,
`AnchorReopen`), locks, and looks whether the name still means the locked inode
(`AnchorVerify`); `GcOpen` to `GcUnlink` are `prune_authority_registry_in`, whose decision that
an entry is unused is left open. `ReadersWriter` is what callers rely on, and `AnchorIsLock`
says that the registry implements it under `holds <- Holds`: a caller holds its mode from
`AnchorVerify` on.

`WriteLease` extends it with the rest of `acquire_db_write_lease_inner_with_hook`, one action
per system call: the process claim, anchor and namespace lock, database open or creation,
record lock, sidecar open and flock; the undo path in the order Rust drops the locals; the
release in the order of `DbWriteLease`'s fields; the restore, which holds the namespace
exclusively, takes the lease of the database that is there under duplicated descriptors and
renames the directory; `write_lease_state`, whose last step closes a database descriptor; and
outside them writers of older releases (record lock only), a sidecar removed by someone, and
the death of a process. `leaked` is history: record locks a probe dropped. Bounded retries
are one attempt (a lock that is refused was refused for all of them). Not modelled: an
unwritable stable parent and system scratch roots, where no namespace lock is taken; the
created-lock proof of a restore; the replacement of the namespace lock file.

### Publication

`cli` is the command that holds the publication root lock: its place (`pc`), operation,
captured inputs, and whether the journal was written since it last read it (`stale`, which is
all that the comparison of revisions tells it). A journal has phase, cancellation, failure,
planned inputs, expected predecessor and checkpoints; a slot has the content each source's
graph and vectors were made from, the history imported, the derived indexes built, the
manifest that seals it, and whether a daemon wrote to it since. Every journal checkpoint,
slot write and switch of `CURRENT` is an action, so a crash, a cancellation or an edit of an
input falls between any two (`RecordEmbedded` and `Advance`, say, are two writes: the checkpoint
of the first complete embed, then the phase). Inputs have versions with contents (`Content`): a version may
be a mere touch, which the fingerprint of a source shows and its digest does not.

Abstractions: capturing all inputs is atomic; repositories and vaults are both `Sources`; the
derived indexes are marks, and so is the regex checkpoint, which only decides between a whole
and a partial build; the config's bytes are an input that a fingerprint sees and no part of a
slot, so `SealedMatchesPlan` speaks of sources, history and derived indexes; an operation and its
slot have one name. Not modelled: journals
that cannot be decoded and `discard --invalid`, incumbents of an older storage engine, a
change of producer or format version, the code-link base receipt, backups.

### UpstreamHealth

`healthy`, `ejection_count`, `rise` and `window` are the atomics of `HealthState`; `window` is
the time left until `ejected_until_ms`, so that the clock needs no variable (`Tick`). A caller
is a query on its way through `query_upstream` (or `flow_trace`, or `WebFederation::remote`):
`Start`, the cold connection, the query and its outcome, and `eject_with_cap`, which recounts
under `guard` and keeps it until `mark_down` is done. `Prober` is the maintenance task of a
command or MCP process; in the web server a query that meets an ejected upstream probes it
itself and looks at the flag again (`Recheck`). `mark_down`, `mark_up` and the fold of a failed
probe are sets of stores (`todo`) made in any order, because they are Relaxed; only the window
waits for the count it is computed from.

Abstractions: `level` is the adaptive deadline of one tool, from 0 to the mode ceiling `Top`
(an answer may move it anywhere, a missed deadline only up); counts beyond `MaxCount` are one
value, since the window is then the longest; which healthy upstream a query picks is left
open; each boundary of a flow trace is a call of its own. `env` says whether a server answers
in time; a failing one may also answer and refuse, which ejects nothing and fails a probe.
The web server takes its time before the probe it waits for, up to two seconds against windows
of thirty and more, which is not told apart here. Not modelled: merging and deduplication of
answers, staleness verdicts, discovery.

## 3. Runs

| Run | Module, cfg | Question and answer |
|---|---|---|
| `queue_timed` | MCJobQueue, JobQueueTimed | one repository, clock to 5, 4 claims, 2 permits: `TypeOK`, `NoLostEvent`, `OnlyNewestClaimActive`, `RetryBudget`, `QuarantineHolds` hold |
| `queue_two_repos` | MCJobQueue, JobQueueTwoRepos | two repositories, three row ids: reused ids do not mislead `fail` and `defer` (`OutcomesStayHome`), and `NoLostEvent` |
| `breaker` | MCCircuitBreaker, CircuitBreaker | four callers: `TypeOK`, `PermitMatchesProbe`, `BurstTrips`, `CooldownRespected` hold |
| `drain` | MCShutdownDrain, ShutdownDrain | `TypeOK`, `QuietAtBroadcast`, `OneDrain`, `DrainIsMonotone` and, under fairness, `ShutdownCompletes` hold |
| `server` | MCIndexServer, IndexServer | two commits, a crash, a failure and an admin operation at any step, no expired lease: `TypeOK`, `GraphMatchesSha`, `NoTornSuccess` and, under fairness, `Converges` hold |
| `server_late` | MCIndexServer, IndexServerLate | two settings, two admin operations or edits, an expired lease: `NoLateWrite`, `SettledMeansCurrent`, `CommitsUnderCurrentConfig` hold |
| `server_stale_base` | MCIndexServer, IndexServerStaleBase | violated: finding F1 |
| `poll` | MCPollScheduler, PollScheduler | `EntryHasItsProbe`, `StaleProbesUnwanted`, `ConfiguredIsScheduled` and, under fairness, `PollCatchesUp` hold |
| `lease` | MCWriteLease, WriteLease | `AtMostOneAuthority`, `RecordLockKept`, `RemovesWhatItCreated`, `CutsOverAlone` hold, and the refinement `AnchorIsLock` |
| `publication` | MCPublication, Publication | `CurrentIsSealed`, `DaemonServesCurrent`, `SealedMatchesPlan`, `NoOrphanSlot`, `CancelHonoured` hold |
| `publication_vectors` | MCPublication, PublicationVectors | violated: finding F2 |
| `upstreams` | MCUpstreamHealth, UpstreamHealth | `TypeOK`, `CapHeld` and, under fairness, `NeverLatched` hold |

### Bounds

* `queue_timed`: lease and debounce of one second and a clock of 5 let a lease expire
  twice and a debounce delay a claim; 4 claims with `MaxAttempts = 2` reach a dead
  letter, its release and a claim after that. `StaleSecs = LeaseSecs` as in the code
  (both 1800 s), which is what makes the second of expiry interesting.
* `queue_two_repos`: ids 1 to 3 with two rows allow a dismissed id to be handed out
  while the old task is alive; the clock stands still because this question has no
  time in it (crash, dismissal and re-insertion do).
* `breaker`: threshold 3 with four callers lets a burst open the circuit while a call
  admitted before is still out; clock 8 spans two openings with cooldown 2.
* `drain`: two writes, two triggers, one resume and two tasks are the fewest with
  which each pair of actors can race.
* IndexServer: two tasks on one repository; repositories interact only through the
  gate and the order of claims. Faults and operations have budgets (`MaxLate`, `MaxCrash`,
  `MaxFail`, `MaxAdmin`). `server` has two commits with different content, one crash, one
  failure and one admin operation: a full write torn by either fault is followed by a job at
  the same commit (to be rebuilt, not skipped) and by one at the next. One crash and one
  failure tear one write twice; each further job starts from a debt again. `server_late` has
  two settings, two admin operations or edits and an expired lease. `server_stale_base` has
  three commits, the third reverting the second, the shortest history in which a wrong base
  is visible.
* `poll`: one URL whose two names differ, two probe tasks per name (a stale one beside the
  current one) and one permit, so that a probe waits for another. Three admin operations
  are remove, add and reload in any order; one failure is a failing handler, enqueue or
  probe. Two URLs of one name are left to the divergences below. Rows of `never` are not
  among the run's configs.
* `lease`: two threads of one process (one of which probes) and one of another that also
  restores, one legacy writer, one gc pass at a time, two inodes each for entry, database
  and sidecar, one sidecar removal. Two inodes are what it takes for a name to change its
  meaning under a holder; crashes are not bounded.
* `publication`: two operations are a rebuild and its predecessor or successor; two sources
  make a scoped resume leave one alone; one edit, one crash or failure and one
  cancellation at any moment. The contents `1, 1, 2` are a touch and a change; nothing is
  changed back (see the divergences). `publication_vectors` needs an edit and a crash with
  one source.
* `upstreams`: of two upstreams one may be ejected, so two queries that fail at once compete
  for the place. Two calls and two changes of a server reach an ejection that races a
  recovery of the same upstream, two timeouts at the ceiling, and an answer followed by a
  miss below it. `MaxCount = 2` with a base of 1 and a longest window of 2 has both windows.

Deadlock is checked for `JobQueue` (a daemon that is down can always start, so it
never stops while the clock or the table can move). It is also checked for `publication`, where it shows that no command gets stuck: every
branch of the journal's checks has an action. The other systems stop
legitimately: a breaker's bounded clock, a finished shutdown, a server with spent
budgets, a stopped poll loop, a lease whose bounded inodes are used up, or a client that has
made its calls.

### Fairness

* `ShutdownDrain!Fairness`: the runtime schedules every runnable task, and an admitted
  write or claimed job ends (git has timeouts, the rest is bounded work). No request,
  trigger or resume is obliged to happen. `ShutdownCompletes` is for finitely many
  write requests: each refused one is counted for an instant, so an endless stream
  could keep a sample above zero.
* `IndexServer!Fairness`: weak fairness of a task's own steps, of the admin handler, of
  claiming (the loop keeps asking) and of polling (the scheduler visits every
  tracked repository); strong fairness of `EnterGate`, because tokio's mutex is FIFO
  and a waiter gets its turn although the gate is taken in between. Nothing is
  assumed of pushes, webhooks, faults, crashes or operators.
* `PollScheduler!FairSpec`: weak fairness of each branch of the loop (`select!` takes ready
  branches in random order, the interval ticks on, and every polled row is due again), of a
  reload handler that has begun, and of probes that end (git has a timeout); strong fairness
  of `StartProbe` per name, because the semaphore is FIFO and the permit is taken in between
  by others. Nothing is assumed of pushes, admin calls, failures or workers.
* `UpstreamHealth!Fairness`: strong fairness of each actor's own steps (every RPC has a
  timeout and the guard is held for a few stores, but it is taken in between by others), of
  `ProbeStart` per upstream (each round of the maintenance task visits every upstream that is
  due), and weak fairness of the clock. Nothing is assumed of queries, nor of servers:
  `NeverLatched` is about those that answer from some time on, and about processes that have
  the task. In the web server an ejected upstream waits for the next query.
* `WriteLease` and `Publication` state no fairness; their properties are safety.

## 4. Findings

* **F1** `index.rs` 8616: the diff base is not compared with `indexed_sha` under the gate. A
  task whose predecessor commits after the base was read commits a newer commit with
  a diff that omits what the predecessor wrote. The reaper's comment says the cost of two
  tasks is "not corrupted state" (`jobs.rs` 717).
* **F2** `main.rs` 34982: what a re-indexed source contained before is kept in memory only. A
  crash after the index and before the invalidation makes the next resume compare the slot
  with itself; the slot is sealed with vectors of the old content.

Divergences seen while modelling and not kept as runs (each is a trace of the model, or an
argument from the code, with the sentence it contradicts):

* `jobs.rs` 671: recovery at startup, and `recover_stale` in the second in which a lease
  expires, return a row to pending whatever its `attempt`, so a job that takes the daemon
  down each time is claimed without bound, although "the reaper's dead-letter cap still
  bounds a repeatedly-crashing job" (669). What does hold is `RetryBudget`.
* `jobs.rs` 328: every webhook, new commit seen by a poll, reindex or re-add releases a
  dead-lettered row, which "stays quarantined across reload and restart until retried"
  (`docs/server-mode.md` 710). What does hold is `QuarantineHolds`.
* `circuit_breaker.rs` 90: a late failure of a call admitted while closed clears the permit,
  so two probes may be in flight, although the field "Gates half-open to exactly one probe"
  (45). Per opening there is only one (`PermitMatchesProbe`).
* `admin.rs` 1049: a resume between the two stores of `begin_shutdown_drain` leaves `drained`
  false during the shutdown, which the comment at 1046 means to exclude. Admission and
  claims are unaffected: both look at `shutdown_started` (`DrainIsMonotone`).
* `admin.rs` 1525: a reload tells the scheduler after it released the write gate, so that a
  repository added in between is configured and not scheduled until the next reload or
  restart, although the command is sent "so it picks up added/removed repos without a daemon
  restart" (1502). An add that fails to enqueue has the same effect. `ConfiguredIsScheduled`
  and `PollCatchesUp` except these URLs (`untold`).
* `admin.rs` 548: a removal deletes the content, and only then the row. When it is cut short in
  between, row, sha and policy stay, without content and without debt, and
  `repo_index_incomplete` (`read.rs` 2773) takes that for a repository with nothing to index.
  Added again at the same commit and settings it is up to date, and served empty until the next
  commit or forced refresh, although an index with no content is meant to be seen as
  interrupted (2770). `GraphMatchesSha` excepts content that is empty in this way.
* `worker.rs` 869: the debt is looked at by the jobs only. After a torn write whose job was
  dead-lettered or cancelled nothing enqueues another: startup asks for a missing sha
  (`server.rs` 16747), a poll for another sha, a reload for a missing row or other settings. The
  repository stays refused until the next event. `Converges` excepts these rows.
* `worker.rs` 655: a crash between `complete` and `requeue_if_stale` leaves a succeeded row with
  its mark set. Nothing looks at marks on restart, so the event waits for the next one;
  `NoLostEvent` accepts that state.
* `scheduler.rs` 176: `remove_repo` drops every row of a name, while `add_repo` says that the
  name "alone is not an identity" and that two URLs of one name "must stay two rows" (93):
  removing one repository unschedules its namesake.
* `write_lease.rs` 956: a probe that passed the claim check before an acquisition of the same
  process began closes a database descriptor after it and drops the record lock that was
  taken meanwhile. `RecordLockKept` and `AtMostOneAuthority` except it (`leaked`).
* `write_lease.rs` 799: a failed acquisition closes its descriptor, and with it the record
  lock, before it unlinks the file; a writer of an older release can lock that inode in
  between and go on in an unlinked file. It is still the file the acquisition created
  (`RemovesWhatItCreated`).
* `publication-rebuild.md` 181: a staged graph "matches what a fresh rebuild of the changed
  sources produces". A source that changes during indexing and is changed back before the
  validation leaves the intermediate content in the slot: the checkpoint has the captured
  digest, not that of what was read. `SealedMatchesPlan` is for inputs never changed back.
* `publication-rebuild.md` 242: a rebuild that is running when a cancellation lands "does not
  ... switch the selected publication", but one that has just switched is Cancelled all the
  same and stays selected.
* `publication_operation.rs` 1251: once the next publication has the slot of such an operation
  as its predecessor, `discard` accepts the operation, which is Cancelled, and removes what a
  rollback needs, although "The predecessor remains retained after activation"
  (`publication-rebuild.md` 267).
* `publication.rs` 1335: "the expected predecessor will never be CURRENT again" is not so
  after a rollback.
* `main.rs` 35517: the result of `record_failure` is ignored, so a cancellation that lands
  just before leaves the failure unrecorded; the cancellation is acknowledged by the next
  resume. `main.rs` 34487: prune asks for a live daemon on the base database only; the slot a
  daemon serves is `CURRENT` and retained anyway (`DaemonServesCurrent`). An Activating
  operation whose inputs changed can neither be resumed nor rescoped, and resuming one with
  `--no-activate` still activates it.
* `health.rs` 82: `eject_with_cap` does not look whether its upstream is ejected already. With
  four or more upstreams the cap leaves room, and each query that was under way when a blip
  began raises the count and lengthens the window, although "a transient blip recovers fast"
  (`upstream.rs` 33).
* `hybrid.rs` 1487: a flow trace whose cold connection fails goes on without ejecting, although
  the comment in its query path wants no dead server left "healthy" for a client "that only
  ever calls flow_trace" (1529). `federation.rs` 124 of the web server returns likewise, with
  the "health accounting used by the CLI" (88) announced.
* `upstream.rs` 99: "a lost race just delays a verdict". A `mark_down` between the stores of a
  `mark_up` also leaves an ejected upstream without a window, or a healthy one whose next
  window is longer; `NeverLatched` shows that nothing worse comes of it.

Noted in passing: `upsert`'s comment calls it a no-op for a running row, while it sets
`requeue_needed`, lowers the priority value and refreshes `updated_at`; the code is what
`NoLostEvent` needs.

## 5. Proofs

`tlapm` checks every step of JobQueueProofs, CircuitBreakerProofs, ShutdownDrainProofs,
IndexServerProofs, PollSchedulerProofs, WriteLeaseProofs (which has the anchor's proofs too),
PublicationProofs and UpstreamHealthProofs. The assumptions are the named
ASSUMEs of the modules (`JobConstants`, `QueueBounds`, `BreakerConstants`, `DrainConstants`,
`ServerConstants`, `PollConstants`, `AnchorConstants`, `LeaseConstants`,
`PublicationConstants`, `HealthConstants`): constants are naturals of the right
sign, names of different kinds differ (a worker is not the admin, an operation not the base
database, a marker not a record), `StaleSecs = LeaseSecs`, the config file lists every URL
somewhere, and in ShutdownDrain the sets of writes and tasks, in UpstreamHealth those of
upstreams and callers, are finite. Repositories, workers, callers, triggers, threads,
processes, names, configs, operations, sources, histories and bounds are arbitrary.

Four theorems have a hypothesis of their own, because the property fails without it:
`ServedContentIsIndexed` and `SuccessIsWhole` are for runs in which no lease expires under a live
task (`MaxLate = 0`), since F1 is what happens otherwise, and a newer task may succeed while an
older one is in the middle of a full write; `SealedSlotsMatchPlan` is for inputs that are never
changed back to an older content (`NeverChangedBack`), `ConfiguredScheduled` for repositories
that share no name (`NamesDiffer`), for the divergences at `publication-rebuild.md` 181 and
`scheduler.rs` 176.

**Queue.** None of the properties is inductive.

* `TypeCorrect` gives the types everything else uses.
* `FencingSafe` (`OnlyNewestClaimActive`) needs `Fencing`: tokens on rows and in hands have
  been minted (`TokensMinted`), a held token that a row carries names that very row's
  repository (`TokenNamesRow`), and no held claim of a running row's repository is newer
  than the row's token (`NewestRuns`).
* `OutcomesHome` follows from `TokenNamesRow`: equal tokens mean the same repository,
  whatever the ids.
* `EventsNeverLost` (`NoLostEvent`) uses `Fencing` and type correctness: a completion by an
  older claim fails the fence or finds the mark.
* `RetriesBudgeted` (`RetryBudget`) needs that a pending row still has budget left
  (`BudgetLeft`), because a claim increments without looking.
* `QuarantineKept` (`QuarantineHolds`) needs `UniqueIds`: a dismissal or retry by id touches
  one repository only.

**Breaker.** `BreakerInv` adds to `PermitMatchesProbe` that stamps of calls and openings lie
in the past (`StampsAreOld`), so a new stamp differs from that of every probe in flight,
and that an open circuit carries the time of the last failure
(`StampedByLastFailure`), from which `CooldownKept` follows. `WindowInv` says that every
failure since the last success that is still in the window is in `failures` (`WindowKept`):
`retain` only drops what has left the window, and the clock does not run back. The failures
in the window of a new one can then be mapped one-to-one into what `record_failure` counts,
and fewer than the threshold of them leave the circuit closed (`BurstsTrip`).

**Drain.** `DrainInv` says that each counter equals the cardinality of the set it counts,
including provisional increments (`CountsRight`), and what the drain knows after
its first load (`DrainKnows`: after `shutdown_started`, once `active_writes` was zero, no
write is ever admitted again). `BroadcastIsQuiet`, `DrainMonotone` and `SingleDrain` follow, and with the flags' types
`CountersNeverUnderflow`.

**Server.** The invariants build on each other.

* The types (`TypeCorrect`) rest on what each SQL statement makes of a row (`Rewritten`).
* `GateInv` says who holds the gate: a task in the middle of a write, whose snapshot is what the
  config has now, because every edit of the config takes the gate. `WriterInv` adds what a full
  write has committed by each of its places (`StageOK`: the debt from the second on, then the
  row, the content, the sha, the policy). `CommitsConfigured` follows.
* `FenceInv`: claims in hands carry different tokens (`TokensDiffer`), and a task counted among
  the elders of a newer claim is no longer active, nor is a late one (`EldersFenced`). A
  token is drawn fresh, so a row that was claimed again never shows an old token again.
  `OvertakenNeverWrites` follows: the check of the claim is made under the gate.
* `CurrentInv`: while no crash has happened, a row that succeeded without a mark is served
  current (`RowsCurrent`); at any time an active task whose row has no mark either has a snapshot of
  the current settings, or the repository waits for a handler, and is current once it wrote
  (`TasksCurrent`). A handler that edits the settings marks or re-inserts the row before it
  ends, which is why `SettledIsCurrent` speaks of no handler at work.
* `BaseInv`: without late leases a task that writes has its claim (`WritersActive`); the base of
  an active incremental task is the commit the graph has, or the graph has no row any more and
  the write fails (`BasesIndexed`); and an active task with an unmarked row that is going to succeed
  without a write has seen an index without debt, which nobody can have torn since
  (`TasksClean`). A debt in the graph while nobody writes was left by a crash or an error, and
  only a full write clears it. `BasesIndexed` is what F1 breaks. With `GraphMatchesSha` itself
  this is inductive, and `ServedContentIsIndexed` and `SuccessIsWhole` follow.

**Anchor.** `AnchorInv` says that an open descriptor is of an inode that was created, and
inodes are not reused (`FdsMade`), that whoever holds or is about to unlink has the lock it
says on an inode (`LocksByStep`), that locks on one inode are compatible (`LocksCompatible`),
and that a caller at `held`, or a gc at `held`, has the inode the name means (`HeldIsNamed`). The last is the point: gc unlinks only
at `held`, under an exclusive lock of that very inode, so no caller is at `held` then.
`AnchorImplementsLock` maps each step to one of `ReadersWriter`: `AnchorVerify` to `Acquire`,
`AnchorDrop` and `AnchorGiveUp` to `Release`, everything else to a stutter.

**Lease.** `LeaseInv` has a part per authority: who is past the namespace has it in the mode
its role asks for, and an exclusive one is alone (`NamespaceInv`); a thread between claim and
`drop_claim` is its process's only one (`ClaimInv`); a database descriptor past `LockDb` has
the record lock or is in `leaked` (`RecordInv`); the sidecar flock belongs to the thread whose
descriptor it is on, and while nobody removed the sidecar that descriptor is of the inode
behind the path (`SideInv`); only a thread waiting for the anchor (`claimed`, `restore`) is in
the middle of acquiring it, every other one holds it or has nothing under way
(`SettledInv`); a created inode stays behind the path until
its creator is done, because replacing it takes the namespace (`CreatedInv`); and `AnchorInv`
carries over, since every action of WriteLease is an anchor step or leaves the anchor
alone. The five theorems follow from it.

**Polling.** `PollInv`: generations of probes and entries are not in the future (`ProbesOK`,
`EntriesOK`), a live probe of the current generation owns its entry
(`CurrentOwns`), a name has one live probe per generation (`OneOfAGeneration`), an entry has a
live probe (`EntryLive`), and a stale probe is of an earlier generation and owns no entry
(`StaleIsOlder`). `EntryHasItsProbe` is `EntryLive` with `OneOfAGeneration`, and
`StaleProbesUnwanted` is `StaleIsOlder`; without the increment in `forget_repo` neither would
be inductive.

`ToldInv` is about what the loop has been told: a configured repository outside `untold` is
on its way into the schedule (`OnItsWay`), that is, it has a row or some command in the channel
gives it one, and no later command drops it. A handler appends at the end (`AppendKeeps`,
`AppendGives`) and the loop takes the first command (`ReceiveKeeps`), so neither needs an
induction over the channel. With the channel empty only the row is left
(`ConfiguredScheduled`).

**Publication.** `SelectorInv` ties the place of the command to journal and slots: a command
knows its operation, its phase and whether its slot is there (`PlacesKnown`); the root lock
keeps a starting daemon and a rebuild apart (`RootLockHeld`); `CURRENT` names a sealed slot
(`CurrentIsSealed`); between the two steps of a discard the slot is gone already
(`EntombedIsEmpty`); and a journal not written since it was read has no cancellation in it
(`FreshIsUncancelled`), which is what the comparison of revisions under the journal's lock is
for. Four theorems follow. `PlanInv`, for `SealedSlotsMatchPlan`, is about versions: captures
are not in the future (`CapturesArePast`), a checkpoint says what the source was indexed at
(`CheckpointsRight`), a slot has what its phase has passed (`SlotFollowsPhase`), and the command
works by the plan's inputs (`CommandKnows`). What a source was indexed at lies between the
version captured and the version at the gate; if these have one content, then so has
everything between them, unless something was changed back.

**Federation.** `HealthInv` adds to `CapHeld` where actors can be and with what (`PlacesOK`),
that a caller in `mark_down` is the one that has the guard (`GuardOK`), and that while its
flag store is still to come there is room for it under the cap (`RoomLeft`). The last is the
point: others only store TRUE meanwhile, and the guard keeps a second ejection from counting
on the same room. `CapAlwaysHeld` and `HealthTypes` follow.

Only model-checked: `ShutdownCompletes`, `Converges`, `PollCatchesUp` and `NeverLatched`, because
liveness under fairness is out of the prover's reach. The two violations, F1 and F2, are
runs. Every other property of a run has a theorem.

## 6. Not modelled

PROJECT.json gives each component's status. The repository has more than half a million
lines; most of them are not a protocol and stay outside:

* parsers (`nestweaver-parser`), resolvers and graph algorithms compute over source text and
  graphs. Their state is their input, and what makes them right is a language's grammar or a
  ranking's definition; small instances would show nothing a unit test does not.
* the MCP tools, the RPC handlers of `server.rs`, the commands of `main.rs` other than those of
  publications, and the web pages translate requests and format answers.
* the store's readers and writers, the search indexes and the indexer's construction of nodes
  and edges are data. What the models keep of them is which transaction commits what: the
  several of a full index and of a removal are actions of IndexServer, the sidecar files
  and search indexes of the live server, written after the graph, are not modelled.
* generated code, fixtures and tests.

Of what is a protocol, these are still outside: the file watchers of local mode, the accounting of `WriteGate` (a mutex in IndexServer), the in-process publication
lease with its dirty marker (`index_publication.rs`), daemon lifecycle (pid files, launchd).

Of the hazards, these have no property: starvation through the debounce window (every upsert
refreshes `updated_at`); a settings edit followed by a crash in the middle of reload, which
the next start does not enqueue (`SettledMeansCurrent` is for runs without a crash for that
reason); an endless stream of refused writes during the drain; the lock order gate, then
queue. Error classification by substrings of messages (`worker.rs` 1534) is left to a choice
of the models.

## 7. Plan

1. Done: JobRows, JobQueue, CircuitBreaker, ShutdownDrain, IndexServer, PollScheduler,
   StableAnchor with ReadersWriter, WriteLease, Publication, UpstreamHealth, and the proofs of
   every safety property of their runs.
2. An abstract specification of the queue (a set of owed repositories, taken and settled)
   that JobQueue refines, with the refinement proved.
3. `WriteGate`: tickets, holder metadata, cancellation of waiters; then the watchers, if
   their state warrants a module.
