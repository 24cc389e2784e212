# Verification of Project Synthesis

TLA+ models of the concurrent core of Project Synthesis (`src/backend/app`, and
the part of `src/frontend` that talks to it), the TLC runs that check them on
small instances, and the TLAPS proofs of their safety properties for every value
of the constants. Paths below are relative to `src/`; `services/` stands for
`src/backend/app/services/`.

- [1. The system](#1-the-system)
- [2. Plan](#2-plan)
- [3. The modules and the code](#3-the-modules-and-the-code)
- [4. Runs, bounds, fairness](#4-runs-bounds-fairness)
- [5. Proofs](#5-proofs)
- [6. Where code and documentation disagree](#6-where-code-and-documentation-disagree)
- [7. What is not modelled](#7-what-is-not-modelled)

Every definition was read off the code; a comment above each property names the
behaviour it is about, and `PROJECT.json` maps each definition to its lines.
`PROJECT.json` also lists the hazards the properties are for, at the line where
each one bites. Section 6 has the disagreements between code and documentation
met on the way, those that no run states included.

## 1. The system

Project Synthesis optimizes prompts: it analyses, rewrites and scores a prompt
through an LLM, stores the result, and groups the results into a taxonomy of
clusters whose patterns feed later prompts. Three programs run at once: the
**backend** (FastAPI, asyncio), the **MCP server** (a second Python process over
the same SQLite database) and any number of **browsers**.

Inside a process everything is cooperative: a task runs undisturbed between two
`await`s. What is hard is what happens *at* the awaits: cancellation, timeouts,
state read before and used after, two processes over one database, and an
in-memory index that has to follow a database which may roll back.

### Components with a protocol of their own

| Component | State | Operations | Talks to | Hard because | Correct when |
|---|---|---|---|---|---|
| Write queue (`services/write_queue.py`) | bounded queue of callbacks, one future per call, one worker task, a supervisor, respawn budget, stop flags | `start`, `submit`, `stop`; worker loop; respawn; declare dead | every writer of the process; the database session | nested submissions, deadlines, cancellation during a shielded close, respawn against stop, full queue | each accepted callback runs at most once, one session at a time, in order; every caller is answered |
| Run orchestrator (`services/run_orchestrator.py`, `run_admin.py`, `gc.py`) | `run_row.status`, one task per run, `done_event`, `done_future` | `run`, `dispatch_async`, terminal writes, delete, hourly and start-up sweep | write queue of its process, generators, event bus | cancellation between commit and acknowledgement, two processes sweeping and deleting, restarts | a normal return saw its own verdict stored; a running row is settled; verdicts are kept |
| Event bus and web stream (`services/event_bus.py`, `routers/events.py`, `sse-health.svelte.ts`) | sequence number, replay buffer, one bounded queue per subscriber; the browser's `_lastSeq`, `_hadError`, timers | `publish`, `replay_since`, `/api/events`, `shutdown`; open, message, error, staleness, reconnect | every service that publishes; the page's stores | overflow, replay against live events, restart of the numbering, silent disconnects | no gap the client does not make up for, no duplicate, no reordering; it reconnects |
| Streams of one run (`routers/probes.py`, `routers/seed.py`) | a subscription filtered by run | subscribe, run, forward, close | bus, orchestrator, generators | closing event published before the terminal write; overflow; a generator that raises | the response closes, on its own run's event, and does not contradict the row |
| Taxonomy warm path (`services/taxonomy/engine.py`, `warm_path.py`, `main.py`) | clusters and members in the database, dirty set, age, lock, rejection counters; timer with its pending event | hot assignment, cycle of phases, snapshot, retry, forced cold path | write queue, indices, event bus | dirty set cleared before work, lock held by others, phases that fail half-way | a changed cluster is considered again; no membership is lost |
| Embedding indices (`services/taxonomy/*_index.py`) | in-memory vectors mirroring the clusters, pickle cache | upsert, remove, snapshot, restore, rebuild | hot, warm and cold path, prompt lifecycle | updated before commit, restored over newer updates, rebuilt from an older read | agrees with the committed clusters when quiet |
| Cold path (`services/taxonomy/cold_path.py`) | its own session and savepoint, quiesce flags | refit, re-embed, rebuild | warm lock, indices, all assigning peers | flags inside an uncommitted savepoint | no assignment is lost or applied to a cluster that is gone |
| Batch pipeline (`services/batch_*.py`) | pending results, one bulk write, one assignment pass | run, persist, assign | hot path (through the event its insert publishes), write queue | assigns what the hot path has assigned | each row is a member once |
| Orphan recovery (`services/orphan_recovery.py`) | attempts and backoff of a row | scan, recover | hot path, warm timer | competes with a slow assignment, gives up | every saved row is assigned or exhausted |
| Routing (`services/routing.py`, `mcp_session_file.py`, `mcp_server.py`) | per process: connected, capability, activity, deferred disconnect; a session file | initialize, activity, disconnect, reconcile, broadcast | MCP middleware, backend over HTTP, bus | timer handle overwritten, lost and reordered posts, two managers | the backend converges on what the MCP process knows |
| Rate-limit state (`services/rate_limit_state.py`) | limits per provider in a file both processes use | record, read, clear, watcher | providers, routing, browser store | expiry by three parties | a live limit is not cleared, an expired one is |
| Refinement (`tools/refine.py`, `services/refinement_*.py`, `refinement.svelte.ts`) | branches and turns of a result; the store of the tab | turn, rollback, delete; stream, recovery by polling | write queue, provider, event bus | read, then seconds of provider calls, then a write; streams that end without a verdict | a turn descends from what it was made from; the tab learns of its turn |
| Forge session (`services/pipeline*.py`, `sampling_pipeline.py`, `routers/optimize.py`, `tools/optimize.py`, `forge.svelte.ts`, `+page.svelte`) | an optimization and its row; in the tab status, followed trace, shown result, reconnection, what the browser remembers | optimize, prepare and save a passthrough, sample; stream, polls, auto-load, restore, open, cancel | write queue, event bus, providers, the MCP server | four ways to hear of one result, an IDE's optimizations meanwhile, a client that leaves | what is shown, remembered or announced as complete is stored; work ends |
| Templates, prompt lifecycle (`services/template_service.py`, `prompt_lifecycle.py`) | template state and counters, archive | fork, retire, curate | clusters, indices | counters against rows | counters match rows |
| Self-update (`services/update_service.py`, `init.sh`) | git tree and stash, schema, tracked optimizations, gate, resume marker | drain, stash, checkout, migrate, pop, restart, resume | uvicorn's reloader, git, pipelines | commands that outlive their timeout, a reload the checkout itself causes, crashes | restarts into a migrated program, local edits kept, tracked work not cut |
| GitHub link and repository index (`services/repo_index_*.py`, `routers/github_*.py`) | tokens, linked repository, index status | device flow, refresh, build, unlink | network, write queue | unlink during a build | the index belongs to the linked repository |
| Seed-agent promotion (`services/seed_agent_promoter.py`) | agent files, stamps on runs | promote | orchestrator | file before stamp | a stamp has its file, a file its stamp |
| Other frontend stores (`frontend/src/lib/stores`) | clusters, routing, toasts with undo | restore, act, undo | REST, event stream | answers out of order, restore against live events | shows the last state the server confirmed |

The remaining parts (scoring and heuristics, context enrichment, LLM providers,
repositories' file reading, preferences, REST routers, logs, migrations, visual
components, the VS Code extension, deployment) have no protocol of their own;
`PROJECT.json` lists each with the reason it is left out.

### How they interact

```
browser --REST--> routers --> services --submit--> WRITE QUEUE --> SQLite
   ^                 |            |                                  ^
   |                 |            +--publish--> EVENT BUS            |
   |                 +--run()--> RUN ORCHESTRATOR --submit--^        |
   +------/api/events, run streams------- EVENT BUS                  |
                                             |                       |
                                             +--> hot path, warm timer (taxonomy)
MCP server: its own orchestrator and write queue over the same SQLite;
            POSTs its events to the backend's bus, one attempt each
```

Every write of a process is a callback on its write queue, which makes the queue
the first thing to get right. Runs are the longest-lived protocol on top of it
and span both processes. The bus is how everything else learns that something
happened.

## 2. Plan

Modules in order of what depends on them. All are written and checked, and the
safety properties of each are proved (section 5).

1. `WriteQueue`, implementing the abstract `WriterService`; with proofs.
2. `RunLifecycle` over two write queues, one database, sweeps and restarts; with proofs.
3. `EventStream` (bus, generator, browser) and `RunStream`, which composes
   `RunLifecycle` with the bus.
4. The taxonomy, split where the code's state splits: `WarmPath` knows *which*
   clusters changed and when a cycle looks at them, `Membership` knows *who* is in
   a cluster and what the index says. They share no variable: a phase of
   `WarmPath` is a nondeterministic outcome, and a phase of `Membership` may come
   at any time.
5. `Routing`: the MCP server's manager, the backend's, and the file between them.
6. `RateLimit`: the store, its copy in routing, the watcher and the probes.
7. `SelfUpdate`: the apply, the tracker and its gate, uvicorn's reloader, git.
8. `Refinement`: requests, rollbacks, a deletion, and the store of the tab.
9. `Forge`: one optimization from the button to the row and back to the tab, with an
   optimization of an IDE beside it.

## 3. The modules and the code

An action is what one asyncio task (or one browser callback) does between two
awaits; that is the granularity at which the code can be interleaved. Operators
whose comment starts with "Mutant" are plausible bugs: they are used by no
specification and show that the property they are paired with in `PROJECT.json`
can fail.

### WriteQueue (`services/write_queue.py`) and WriterService

| Code | Model |
|---|---|
| `_queue`, bounded by `WRITE_QUEUE_MAX_QUEUE_DEPTH` | `queue`, `MaxDepth` |
| the future of each `submit()` | `fut[o]`: refused on entry, pending, answered, or abandoned by a cancelled caller |
| session of the callback in flight | `tx[o]`: open, committed, rolled back |
| `_worker_task`, `_supervisor_task` | `gen`, `wpc`, `sup` |
| `_respawns_in_window`, `_dead`, `_stopping`, `_stop_done` | `crashes`, `dead`, `stopping`, `stopDone` |
| `submit()` entry guards, in order | `Refusal`, `Submit`, `SubmitFromWork` |
| a task the callback spawns that submits and is awaited by it | `SpawnAndAwait`, `nested` |
| `_run_one`: commit, outcome, shielded close, answer | `WorkCommit`, `WorkReturn`/`WorkRaise`/`WorkCancels`/`WorkTimeout`, `WorkerExit`, `WorkerCrash`, `ShieldedClose` |
| `_supervisor` | `SupervisorReturn`, `SupervisorRespawn`, `SupervisorDeclareDead`, `WindowPasses` |
| `stop()`, first and second call | `StopFull`, `StopBegin`, `StopBeginLost`, `StopDrained`, `StopWorkerLost`, `StopTimeout`; `StopAgain` |

`submit_batch` is one callback of `submit`; metrics, slow-write logs and the
events about the queue are left out. `WorkMayCancel` says whether a callback may
end with a `CancelledError` of its own and `CleanupMayFail` whether closing a
session may raise: two things the code does not exclude. The run has both; the
properties say which promise survives which (`Wedged`, `NeverCrashed`).

`WriterService` is the promise in 50 lines: callbacks are refused, or accepted
into a backlog, begun one at a time from its head, finished, or dropped with the
rest of the backlog. `ServiceRefined` maps `fut`, `wpc` and the queue without its
sentinel onto it.

### RunLifecycle (`run_orchestrator.py`, `run_admin.py`, `gc.py`, `main.py`)

| Code | Model |
|---|---|
| `run_row.status`, its age, a delete | `row`, `old`, `deleted` |
| the write queue of each process, as its clients see it | `queue[p]`, `up[p]`, `Execute`, `ExecuteFails`, `Refused` |
| the coroutine of `run()` / `dispatch_async()` | `caller`, `mode`, `cancels` |
| `_run_to_completion`, `_persist_final`, `_mark_failed` | `task`, `ack`, `verdict`, `done` |
| `_reload` at the end of `run()` | `seen` |
| the hourly `recurring_gc`, the sweep at start-up | `SweepTick`, `Restart` |
| process stopping, exiting, starting | `Stop`, `Halt`, `Restart` |

`Execute` and `ExecuteFails` rest on what `WriteQueue` is shown to do: in order,
one at a time, each at most once, answered unless its caller went away. A failed
answer may follow a commit (a deadline or the close of the session turns it into
an error). What a generator does is one verdict; `RunStream` adds its events. The
cancellation forwarded by `run()` reaches the task in each of its phases
(`Interrupt`), also while `_mark_failed` is awaited. What belongs to a run and not
to its status (progress counters, the promotion of a completed probe) is left out.

### EventStream (`event_bus.py`, `routers/events.py`, `sse-health.svelte.ts`, `client.ts`)

An event is named by its place among all events ever published; the code's
sequence number is that minus `base`, the events of earlier servers. Server side:
`gen`, `sq`, `todo`, `upTo` are the generator of one stream, its queue, the rest of
its replay and `replayed_up_to`. `pipe` is the connection. Client side: `es`,
`last`, `hadError` are the `EventSource` and two fields of the store; `got` and
`fresh` record what it was told and what had been published when it last refetched.
`Break` is a connection the browser sees failing, `Stale` one that it does not.

The refetch (`onReconnect`, `+page.svelte:337-347`) covers a part of the state: health
with routing and rate limits, clusters, domains, readiness, observatory, strategies. The
events about these are the constant `Refetched`. The others (an optimization stored,
failed or deleted, a refinement turn, preferences, progress of an update or a seed) reach
the page by the stream or not at all. `Beyond` says which events the replay of a
reconnection cannot hold: everything, if the client has no number yet; what the buffer
forgot; what a sync passed that was ahead of the queue (`passed`); what an earlier
server's number hides (`foreign`). Those the client had not been given by then are its `lost`.

### RunStream (`routers/probes.py`, `routers/seed.py`, the generators)

`EXTENDS RunLifecycle` and adds, per run, the subscription: `stream`, `box` (its
queue), `heard` (the closing event that ended the response), `lost` (runs whose
closing event overflowed). `Other` is everything else on the bus, other runs'
closing events included. The task of a streamed run is not cancelled by a
disconnect, so `CancelCaller` is not a step of `RunStream`.

### WarmPath (`taxonomy/engine.py`, `warm_path.py`, `cold_path.py`, `main.py`)

| Code | Model |
|---|---|
| `_dirty_set` with the project of each mark | `dirty`, a partial function; `MarkDirty` |
| `_warm_path_age` | `age`: 0, then 1 to `Cadence` for the age modulo the cadence |
| `_maintenance_pending`, `_vocab_regen_pending`, `_cold_path_needed` | `maintPending`, `vocabPending`, `coldNeeded` |
| `_phase_rejection_counters` and the breaker | `rejects`, `CountRejections` |
| `_warm_path_lock`, taken without waiting | `lock`, `at`, `RunWarm`, `RunCold` |
| `AdaptiveScheduler`: boundary, mode, shares | `Modes`, `Budget`, `Scoped`; what is over the budget goes back (`Reinject`) |
| the phases, in order, each of which may raise | `Reconcile`, `Speculate`, `Refresh`, `Maintain`, `Audit`; `CycleRaises` |
| `_warm_path_timer` and its debounce | `timer`, `pending`, `Timer...` |
| `_taxonomy_listener` and `_apply_cross_process_dirty_marks` | `Publish`, `IgnoredTriggers`, `deletions`, `ListenDeletion` |
| the cold path and its gates | `ColdShortCircuit`, `ColdAdvance`, `ColdReject`, `ColdAccept`, `ColdRaises` |

What a phase does to a cluster is numeric and left out; what it does to the flags, the
dirty set and the bus is not. `unseen` and `lost` are history: changed clusters that no
completed cycle has considered, and those whose cycle raised after taking them.

### Membership (`engine.py`, `family_ops.py`, `warm_phases.py`, `split.py`, `lifecycle.py`, `orphan_recovery.py`, `batch_persistence.py`, `prompt_lifecycle.py`, `main.py`)

| Code | Model |
|---|---|
| `Optimization.cluster_id`, its `source` patterns, `member_count` | `home`, `sources`, `count` |
| a cluster's state: absent, candidate, active (or mature), archived | `state`, `Active`, `Live` |
| clusters in the database, in the index, in its cache file | `state`, `index`, `cached` |
| callbacks of the one write queue | `queue`: served one at a time, whole or rolled back |
| the hot path an `optimization_created` asks for | `told`, `dispatched`, `Dispatch`, `RunHot`, `Assign` |
| `scan_and_recover`, retries, exhaustion | `Scan`, `RunRecover`, `RunRetry`, `tries`, `exhausted` |
| the window of a scan, and the rows given up that fill it | `ScanLimit`, `Crowded`, `others`, `GiveUpOther` |
| the bulk write of a batch, then its assignment | `PersistBatch`, `SubmitAssign`, `RunBatch` |
| the promotion the hot path's task asks for when it is done | `following`, `FollowUp`, `RunPromote` |
| the parts of a cycle in order, each a callback of its own | `stage`, `StartCycle`, `AskEvaluate`, `Snapshot`, `EndCycle` |
| phase 0: zombies, semi-orphans, outliers, pattern repair | `RunReconcile`, `Peopled`, `SemiOrphans`, `Ejections`, `Eject`, `Repaired` |
| the judgement of candidates | `RunEvaluate`, `Reassign` |
| a phase with its snapshot of the index: split; merge; retire, dissolve | `RunPhase`, `SplitOne`, `MergeTwo`, `RetireOne`, `DissolveOne` |
| curation, backfill, seeding of a start, rebuild | `Curate`, `Backfill`, `Seed`, `Rebuild` |

A callback that fails is rolled back, but what it did to the index stays
(`AssignFails`): the code updates the index before it commits. The seeding of a start
has no queue: it runs the hot path in a session of its own, and a failure that
`process_optimization` keeps to itself (`engine.py:964`) is followed by the commit
(`main.py:988-989`): `CutShort` stores what was written by then, and `cut` records the row.
A scan reads twenty rows without an embedding, in no order, and puts aside those it has
given up only then (`orphan_recovery.py:112-122`): any other row may be found, and one is
for certain only while those do not fill the window. Which cluster a row
comes to is a choice, and a phase makes one operation or none. Clusters of clusters
(emergence, family splits), the repair of domains and the reassignments of a refit
are left out. The clusters that lose outliers do so one after the other, each count
reduced by `max(0, member_count - 1)` (`warm_phases.py:1112`), and one may receive rows
before or after it loses its own: `Eject` chooses which came early.

### Routing (`routing.py`, `mcp_session_file.py`, `mcp_server.py`)

| Code | Model |
|---|---|
| `RoutingState` of the MCP server; of the backend | `mcp.conn`, `mcp.cap`, `mcp.last`; `backend` |
| `_pending_disconnect`, the tasks it named, those being cancelled | `mcp.handle`, `mcp.asleep`, `mcp.dying`, `Deferred` |
| one posting task per change, one attempt | `mcp.out`: delivered in any order (`Notified`) or `Lost` |
| the session file; its deletion whenever one session ends | `mcp.file`, `Persist`, `Touched`, `Forget`; `SessionEnds` |
| the middleware: GET, POST, initialize, end of a stream, 4xx | `OpenStream`, `Chunk`, `Post`, `Initialize`, `CloseStream`, `Rejected` |
| `_disconnect_loop` of each process | `PollBackend`, `PollMcp` |

Time is three ages: fresh, over a minute, over five. A file that is not fresh is
always touched (the code touches every ten seconds); a stream nobody registered
counts as its client's posts; the grace of two polls after a start is left out; the
last activity of a client that is away is forgotten, since the next one overwrites it.

### RateLimit (`rate_limit_state.py`, `providers/base.py`, `routing.py`, `main.py`)

`entry` is the store with the kind of each limit (until a time, or guessed; elapsed
recently, or long ago), `limited` the copy routing decides by, `bus` the events between
them, `theirs` says that the MCP server has overwritten the shared file. `watcher` keeps
what it has decided to clear while it awaits a probe. A question that finds an elapsed
entry deletes it and tells nobody (`Reads`, `Health`), and so does a probe
(`ProbeAnswered`): `unheard` is the history of these. `excused` is the history of the
ways in which a limit may go although it has not elapsed.

### SelfUpdate (`update_service.py`, `pipeline.py`, `routers/optimize.py`, `init.sh`)

`pc` is the step of `apply_update`, from the preflight to the marker; `tracked` and
`gate` are the inflight tracker; `head`, `tree`, `stashes`, `schema` are what git and
alembic have on disk. A command that runs into its timeout is not killed by the code:
`late` names it, `LateEnds` is its effect, and while it is a git command it holds the
index lock against those after it (`Locked`). `ReloadBegins` and `ReloadEnds` are
uvicorn's reloader, which gives the apply ten seconds (`init.sh` passes
`--timeout-graceful-shutdown 10`) and then cancels it wherever it is. `Boot` and
`Resume` are the next start and its reading of the marker.

### Refinement (`tools/refine.py`, `refinement_service.py`, `routers/refinement.py`, `refinement.svelte.ts`)

| Code | Model |
|---|---|
| `refinement_branches`, `refinement_turns`, the deletion of their result | `branches`, `turns`, `gone` |
| `handle_refine`: read session 1, seeding write, read session 2, provider, write, event | `Check`, `Seed`, `Read`, `Fails`, `Persist`, `Notify`, by `task[k].pc` |
| the client that goes away during any of it | `Cut`; a write already in the queue is run all the same |
| `rollback` and its write | `Rollback`, `PersistFork` |
| foreign keys: deletion cascades, later inserts are refused | `Delete`, `Refused` |
| the store of the tab: branch, status, list; its stream | `tab`, `stream`, `Refine`, `StreamEnds`, `StreamErrs`, `StreamBreaks` |
| `attemptRecovery`, `reloadTurns` | `rec`, `Poll`, `PollAnswered`; `Hear`, `ReloadAnswered` |

A turn is what it was made from (`of`) and what it is (`text`). One result is
refined; the tab opens it before its first request and stays on it. A GET holds
what the server read when it was asked and arrives when it likes. The provider's four
calls and the wait in the queue are one step; a request over MCP is not cancelled. No
event of the stream is one the store knows (`refinement_complete`), so every stream
that ends goes to recovery.

### Forge (`pipeline.py`, `sampling_pipeline.py`, `routers/optimize.py`, `tools/optimize.py`, `forge.svelte.ts`, `+page.svelte`)

| Code | Model |
|---|---|
| `Optimization.status` by trace; the task behind a request | `row`, `pc` |
| callbacks in the write queues | `parked`: each runs once, in any order, also for a client that is gone |
| phases, failure, `persist_and_propagate`, the result | `Phase`, `Fail`, `Persist`, `Finish`; `Hangup` when the client leaves |
| the passthrough: prepared, saved here or by `synthesis_save_result`, collected after a week | `WritePending`, `Save`, `WriteSave`, `SaveElsewhere`, `Collect` |
| the passthrough of an IDE, whose pending row is rolled back (section 6) | `Offer`, then `SaveElsewhere` |
| the sampling tier: its start and phases on the bus, its result | `Sample`, `Announce`, `WriteSampled` |
| the deletion of a completed row, from the history panel or elsewhere | `Delete`, `deleted` |
| `GET /api/optimize/{trace_id}`: the row, whatever its status, or 404 | `Found` |
| response of the tab; events of the bus | `pipe`, `stream`; `bus` |
| `status`, `traceId`, `passthroughTraceId`, `result` | `status`, `trace`, `pt`, `shown` |
| `handleEvent`, `onError`, `onComplete`; `handleExternalEvent` and auto-load | `Receive`, `StreamFails`, `StreamEnds`; `Hear`, `GetAnswered` |
| `reconnect` | `rec`, `Poll`, `PollAnswered`, `GiveUp` |
| `localStorage`, `restoreSession` | `last`, `kept`, `Remember`, `Reload`, `Restored` |

The three statuses of work are two, by who set them: the tab's own stream
(`"working"`) or an IDE's events (`"following"`). `current` is history: the request the
user last made and has not turned away from. `deleted` is history too: the page hands
an `optimization_deleted` to the list of the history alone, so nothing takes a deleted
result from the tab (`+page.svelte:190-197`). A GET of a poll holds what the server
read when it was asked. Opening a record stands for the history panel; the result
tabs of the editor show cached results and ask for nothing.

## 4. Runs, bounds, fairness

| Run | Question | Result |
|---|---|---|
| `wq_serve` | calls, nested calls, deadlines, `stop()`, callbacks that cancel themselves, workers that crash: one session at a time? does nothing refused run? is anybody forgotten or never served? does it implement `WriterService`? | holds (480 798 states) |
| `run_faults` | one run in either process, by either entry point, under refused and failing writes, cancellations, a delete, sweeps and a restart | holds (192 694) |
| `es_serve` | overflow, replay, broken and silent connections, restart, shutdown: what is missed and what of it is refetched, duplicates, order, reconnection | holds (225 177) |
| `rs_serve` | a streamed run among others' events, failing writes, sweeps and a delete: what the stream said against what is stored, and its end | holds (428 785) |
| `warm_serve` | changes by every route, cycles that fail anywhere, an operator with the lock, a restart: is a changed cluster dropped or starved? is a refit attempted? does the timer rest? | holds (315 332) |
| `member_serve` | an insert, a batch, recovery, and warm cycles that split, judge, merge and dissolve, with two of: failures, half-stored seeds, rows given up, curation, the cold path, restarts: who names whom, who keeps a cluster, what the index knows, does a row settle? | holds (1 042 274) |
| `routing_serve` | a bridge and a plain client that come, speak and go, under debounced disconnects, lost or reordered notifications and restarts: what is said, what is offered, who is given up, who is found | holds (275 962) |
| `rate_serve` | limits recorded, elapsing, asked for, probed, cleared, with a second process over the file and restarts: does routing follow, why does a limit go, do limits lift? | holds (529 256) |
| `update_serve` | two applies, a client that leaves early, edits, refusals, timeouts, a crash, reloads, restarts: is the restarted program migrated, do edits come back, is drained work cut, does it end? | holds (500 007) |
| `refine_serve` | two requests, a rollback, a deletion, a lost event, a broken stream, failing polls: descent of turns, numbers, what the tab learns | holds (1 016 697) |
| `forge_serve` | requests of the tab and of an IDE, with two of: broken streams, failed writes, lost events, reloads, resets, opened and deleted records: is what is shown stored, is it what a reload asks for, does work end? | holds (1 918 195) |
| `forge_sampled` | is what is announced as completed stored? | violated, section 6 |

Each takes between a few seconds and four minutes with two workers. Every property
has a mutant in `PROJECT.json`: a plausible bug in a mapped definition under which
the same run fails.

**Bounds.** `wq_serve`: three calls on a queue that holds two, so that it fills, that a
call is refused for overload, that one is in flight while two wait, and that a callback,
its nested submission and a bystander meet; `MaxGen` worker tasks: three are two
respawns, the budget of one per window and the one beyond it. `run_faults`: one run,
because runs meet only in the order of a queue and in the sweep, which treats rows one
by one (the proofs cover any number); two faults, so that a terminal write *and* the
failure that follows it can fail; two cancellations, because the second is treated
differently from the first; one halt, after which the rest of the behaviour runs in the
restarted process. `es_serve`: queue and replay buffer of two and four events, so that
both overflow; a pipe of two messages, so that what is sent and what is received differ;
two breaks, so that the reconnection itself is interrupted; one restart; four events, of
which the refetch is about the two in the middle. `rs_serve`: a subscription of two,
filled by one progress event and two events of others. `warm_serve`: two clusters in up
to two projects, one of them the key of unscoped marks, and boundaries of one and two,
so that a cycle fits, is cut, and is shared with a share of less than one; a breaker and
a cadence as small as keeps "not yet" and "now" apart; two changes and one failure,
operator's run or restart, so that a change falls into any point of a cycle that fails.
`member_serve`: two rows, one of them of a batch, and three clusters, so that a merge
leaves a third to move to; the sizes from which clusters are split and lose outliers
scaled down to two, one outlier, one attempt of recovery, so that giving up is reached;
a window of one row, so that one row given up fills it; `MaxSlips` counts cycles, cold
paths, failures, curated clusters, rows given up and restarts together: two are a split
in one cycle and its judgement in the next, or one cycle and one failure.
`routing_serve`: one client of each kind, two notifications on their way, which can
cross, and two timers, so that a cancelled one outlives its successor. `rate_serve`: the
provider that is called and probed, and another; two events, which can wait behind each
other. `update_serve`: two applies, so that the second meets what the first left; two
edits, before and during; one timeout or crash. `refine_serve`: two requests that race,
or follow each other; a rollback of any version at any point; two polls, of which the
last gives up, where the code makes ten. `forge_serve`: two requests, both of the tab or
one of them of an IDE, so that one follows, precedes or accompanies the other; two polls
where the code makes thirty; two mishaps of any kind, such as a broken stream and a
reload, or a deletion and a restoration. `forge_sampled` needs none.

No run uses symmetry: there is one client or call of each kind in most, and liveness
is checked in the others.

**Deadlock** is not checked where the system really may stop (a stopped queue, a
finished run, a used-up bound): `warm_serve`, `routing_serve` and `rate_serve` check
it. What must not stop is stated as liveness.

**Fairness** (weak throughout):

- `WriteQueue`: the worker, its deadline (`asyncio.wait_for`), the supervisor and
  the parts of `stop()` that wait for a task that has ended. asyncio runs every
  ready task and fires every timer. A callback need not end by itself, nobody is
  obliged to submit or to stop, and nothing is said of crashes.
- `RunLifecycle`: the write queues serve, tasks whose await was answered go on,
  time passes (`Age`), the sweep recurs. A generator may never return and nobody
  restarts a process, which is why `EveryRunSettles` ends in "or the backend is
  not up" and needs the sweep.
- `EventStream`: the server sends, the network delivers, the client's timers fire,
  and a browser notices a stream that the server has ended. It does not have to
  notice a connection that died silently: the staleness timer does.
- `RunStream`: as `RunLifecycle`; responses are read, and a generator ends, one
  way or the other.
- `WarmPath`: the holder of the lock goes on, the timer's task goes on, the listener
  handles its events. Nobody is obliged to change a cluster or to fail.
- `Membership`: the queue's worker, the tasks its events asked for, the backfill
  and seeding of a start. The scan is one weak condition for all rows, and only
  while there is room in its window: then the timer finds some row that waits,
  whichever. `RowSettles` assumes that there is room for good from some time on.
- `Routing`: timers end, notifications are delivered or lost, time passes, both
  polls recur. Clients do what they like; `AllLetGo` assumes that they stop and
  `SteadySeen` that one goes on.
- `RateLimit`: limits elapse, the consumer takes events, the watcher wakes, a probe
  ends.
- `SelfUpdate`: the apply goes on (each command ends or times out), a restart that was
  asked for comes, a reload that has begun ends, a worker that is being replaced starts,
  and a start reads the marker. Nobody restarts a crashed worker.
- `Refinement`: one weak condition for the requests and the tab together: the event
  loop goes on with what it has, the provider answers or fails, the browser sees the
  end of a stream and its timers fire. What each has to do is finite, so no
  one is kept waiting by the others.
- `Forge`: two weak conditions: the server goes on with what it has begun (`Serves`),
  and what is on its way to the tab arrives (`Arrives`: messages, events, polls,
  answers). What each has to do is finite, so nobody is kept waiting within one. The
  user need not do anything.

Some liveness properties carry a disjunct because the code does: `EveryCallAnswered`
ends in "answered, or `Wedged`", the state after a callback's own
`CancelledError` has ended worker and supervisor, from which only `stop()` helps, "or a
session's closing has raised", which leaves one caller without an answer;
`ReturnedStreamEnds` excludes a stream whose own queue gave up the closing event;
`ComesToRest` excepts a system whose refits are rejected for ever; `LimitsLift` a
watcher that died and a limit that changed unheard; `OwnTurnListed` a tab whose list
was overwritten by an older answer; `RowSettles` a row that a start stored half-way.

## 5. Proofs

`tlapm` proves the theorems below, each for every value of the constants: any number
of calls, runs, clients, requests and providers, and any bound. The assumptions are
the named ones of the modules (`QueueAssumption`, `RunAssumption` and so on): bounds
are natural numbers and model values are distinct; TLC evaluates them in every run.

| Module | Obligations | | Module | Obligations |
|---|---|---|---|---|
| `WriteQueueProofs` | 1390 | | `RoutingProofs` | 1701 |
| `RunLifecycleProofs` | 1688 | | `SelfUpdateProofs` | 583 |
| `EventStreamProofs` | 2698 | | `RefinementProofs` | 1408 |
| `TaxonomyProofs` | 2981 | | `ForgeProofs` | 1748 |

`RunLifecycleProofs` is also about `RunStream`. `RoutingProofs` is about both `Routing` and
`RateLimit`, and `TaxonomyProofs` about both `WarmPath` and `Membership`. The two of a pair
share no variable; the names of the second specification begin with `Limit` and `Member` so
that they do not clash (`LimitSpec`, `limitVars`, `MemberSpec`, `memberVars`).

| Theorem | Says |
|---|---|
| `WriteQueueProofs!TypeCorrect` | `TypeOK` |
| `SessionsExclusive` | `SingleSession`: at most one writer session is open |
| `RefusalsFinal` | `RefusedNeverRuns`: a callback whose caller was refused or dropped never ran and never will |
| `NoCallerForgotten` | `NoLostFuture`: a waiting caller's callback is queued or in flight, unless a session's closing has raised |
| `StopLeavesNobody` | `StopAnswersAll`: nobody waits after `stop()`, with the same exception |
| `NobodyIsForgotten` | `NobodyForgotten`, the two together |
| `AcceptedIsServed` | `AcceptingHasWorker` |
| `ServiceImplemented` | `Spec => ServiceRefined`, the refinement of `WriterService` |
| `RunLifecycleProofs!TypeCorrect` | `TypeOK` |
| `RunReturnsItsVerdict` | `ReturnsVerdict` |
| `AcceptedRowIsThere` | `AcceptedRowExists` |
| `RunLeavesNoTask` | `NoTaskOutlivesRun` |
| `RunIsOver` | `RunOver`: `ReturnsVerdict` and `NoTaskOutlivesRun` together |
| `VerdictIsKept` | `VerdictKept`, an action property |
| `RunningRowIsOwned` | `RunningRowOwned` |
| `HeardStaysTrue` | `HeardIsStored` of `RunStream` |
| `StreamsAreRuns` | `StreamSpec => Init /\ [][Next]_vars /\ []RunOver`: a run with streams is a run |
| `EventStreamProofs!InOrder` | `DeliveredInOrder`: nothing reaches a client twice or out of order |
| `NothingIsMissed` | `NothingMissed`: what a client misses its queue gave up, or a reconnection found beyond any replay; and what of it the page refetches is refetched |
| `TaxonomyProofs!ChangesAreKept` | `Accounted` of `WarmPath`: no change is dropped silently |
| `PatternsNameHome` | `SourcesNameHome` of `Membership`, with the types of its variables |
| `MembersAreKept` | `MembershipKept`, an action property: no row leaves the live clusters |
| `IndexIsKept` | `IndexKept`, an action property: the index follows the live clusters |
| `RoutingProofs!ToldIsTrue` | `ToldUnlessLeaked` |
| `OfferIsHeard` | `SamplingHeard` |
| `RoutingAgrees` | `RoutingFollowsStore` of `RateLimit` |
| `LimitIsKept` | `LimitKept`, an action property |
| `SelfUpdateProofs!RestartIsMigrated` | `RestartsMigrated` |
| `StashIsReturned` | `StashReturned` |
| `DrainedAreSafe` | `DrainedSurvive` |
| `RefinementProofs!RowsAreSound` | `RowsSound`: every turn descends from what its request had read |
| `VersionsAreNumbered` | `Numbered` |
| `ForgeProofs!ToldIsStored` | `TruthTold`: what is shown or remembered as complete is stored, or was until somebody deleted it |
| `ShownIsRemembered` | `Recoverable` |

**The argument for the queue.** None of the properties is inductive. `IInv` adds
what the code keeps true without saying so: an element occurs in the queue at most
once and a queued callback has no session and is not in flight (`OpInv`, without
which a taken callback could be run again); the sentinel is unique and last
(`SentinelInv`, without which a stop could end a worker in front of accepted work);
a worker that is idle or over holds nothing and one at work holds exactly one
callback (`WorkerInv`). `AnswerInv` then follows each pending caller from the queue to
the worker to its answer; it holds as long as no session's closing has raised
(`NeverCrashed`), and since a crash is never undone (`CrashStays`) the implication is
inductive (`CalmInv`). `AcceptInv` knows that only a `CancelledError` of a callback
ends the supervisor of a queue that accepts. The
refinement uses `IInv` to show that each step is a step of `WriterService` or a
stutter; the sequence lemmas (`AppendElems`, `TailElems`, `PrefixElems`) relate a
queue to the set of its elements, because the provers know little of sequences.

**The argument for runs.** Per run, `IInv` says what its writes and answers may be:
no task before its insert was acknowledged (`Spawned`); no answer and no verdict before
something can have given one, and an error only after a fault (`Unanswered`); the
insert parked at most once, in the run's own process, before there is a row
(`CreateParked`); an acknowledged insert in the database unless deleted, and a deleted
row never back (`Inserted`); a parked terminal write carries a verdict, an acknowledged
one is what the row says, and any success a row states is its generator's
(`PersistParked`); a failure parked at most once, by a task that waits for it or that
a second cancellation ended, and over a verdict only after a cancellation or a fault
(`FailParked`); and what `run()` is about to return is the verdict (`Settling`).
Without `FailParked` a late failure could overtake an acknowledged success between the
end of the task and `_reload`; the sweep cannot, because it takes running rows only.
Steps that park a failure or end a task come in several
actions; they are proved once, as `FailParkedStep` and `EndedStep`, and each action
is shown to be such a step. `Execute` and `ExecuteFails` are both `Serves`.

`RunningRowOwned` has an invariant of its own (`OwnInv`): while nothing has failed, a
running row has somebody to change it, and a task that marks its row as failed waits for
a parked failure or has been answered that the row no longer runs (`MarkOwned`),
so that a second cancellation may end it. `RunStream` takes only steps of `RunLifecycle`
(`StreamsAreRuns`, with the identity as its mapping), which makes the invariant of runs
available to streams; for `HeardIsStored` it is enough to add that what a subscription
carries agrees with the verdict (`ToldTrue`) and that a streamed task, which nobody
cancels (`Undisturbed`), reports success only over its verdict or a deleted row
(`StoredTrue`).

**The argument for event streams.** What is on its way to a client is one rising
chain: what it got, what the connection holds, what is left to replay, what is queued.
`Flow` says so of these four sequences, `Bounded` relates their ends to the server's
numbers and to the client's `_lastSeq`, and `Phase` how the two ends of a stream go
together (no queue without a generator, an `open` first, an `end` last). From the
chain follows the order. Two parts of the invariant say where an event is. `Account`
leaves the refetch out: while there is a stream, each event since the client's first is
given to it, given up by its queue, in its `lost`, or in flight; and each event that its
number has passed is one of the former, or was passed by a sync, unless the number is an
earlier server's. So what the next `Accept` does not replay is `Beyond`, and goes to
`lost`. `Covered` counts the refetch: a stream that will not end in one has told its client
each event, still carries it, or the client has refetched since. `NothingMissed` is the two
with nothing in flight. A sentinel has no number, which `Quiet` confines to the shutdown.

**The argument for the warm path** follows what a cycle took. The dirty set is emptied
when a cycle takes it, so only the running cycle knows those clusters (`Quiet`: nobody
does between cycles). Without budgets its scope is all it took (`Whole`), so that
completing it considers them all; with budgets the audit puts back what the scope left
out, and a cycle that raises moves what it took to `lost`. The first cycle after a
start looks at every cluster (`First`), which is what excuses an empty dirty set
until it has completed. That each project with a changed cluster gets one looked at
(`Shared`) rests on a lemma about the scheduler's arithmetic: for any counts, boundary and
floor, a budget is never zero (`ShareIsSome`).

**Membership.** `SourcesNameHome` is nearly inductive: a pattern names the cluster of its
row or nothing live (`Named`). What could break it is a cluster that becomes live under
an old pattern, and none does, because a new cluster takes an identifier that no row,
pattern, index or cache names (`Unused`); and whatever moves rows out of a live cluster
moves their patterns along, or archives it. Phase 0 is the delicate step: it links rows,
moves outliers and archives empty clusters before it repairs patterns, and the lemma on it
(`EjectIs`) shows that a pattern which still names a live cluster names one that had
members, hence the row's own. The rest of the invariant says what may wait in the queue
(`Legal`, `Queued`): one recovery or retry, of the row that `scanning` names and that is not
given up, and at most one part of a cycle, the one `stage` names. Without it a retry could
be counted twice or for a row that is exhausted. Both action properties follow from one
lemma per action (`Sound`), in which an action either moves rows and index together
(`Stays`, `Follows`) or is one of the exceptions the property lists. The proof of the types
found that the model let a count become negative, where the code stops at zero.

**Routing** is proved method by method: each operator of the manager takes a `Sound`
manager to a sound one, and an action is one of them. `Said` is the invariant the
debounce needs: a handle of a disconnect has a broadcast asleep, so a manager that
differs from what it last told is waiting, or has leaked; a lone sleeper keeps what
was said before its client left.

**Rate limits.** The store and routing's copy differ only on providers whose event is
on the bus (`Agree`), a limit is announced before its time is over (`Fresh`), and one
that somebody has decided to clear although it is on is excused (`Justified`, from
which `LimitKept` follows step by step). An event is nothing there but whom it is
about and which way it goes; lemmas say what publishing and consuming do to these.

**Self-update.** The argument follows one apply: from its stash, or its checkout, to
its end no command of an earlier apply is left that could undo it, because a late git
command holds the lock on which the apply's own would have failed (`Checked`); nobody
else takes from the stashes (`Kept`, `Counted`); and whoever the drain owes a wait
started before the gate closed and is tracked until it ends (`Held`).

**Refinement.** What a request read before it called the provider still stands when
it writes, because turns are only added, or all of them are deleted (`Based`). A
branch that was not raced has at most one reader, who read its last turn (`Alone`),
hence no number twice. That numbers stay within the instance (`TypeOK`) needs
counting: branches by the requests that have not seeded yet and the rollbacks not
made, versions by the requests that have written (`Counted`, by cardinalities).

**Forge.** A completed row stays completed until somebody deletes it, and a deleted one
stays deleted, so `Stored` only grows (`Steady`), and it is enough that each of
the ways by which the tab hears of a result was taken when the row was there: a
message in the pipe (`Piped`), a poll's finding, a save's answer, what a reload waits
for (`Shown`). `JobInv` follows each optimization on the server: which row it has and
which writes may still be parked at each of its steps. A caller told of an error has
none left, so no late write can complete its row. That a passthrough on offer comes
of a pipeline that is over and failed nobody (`Offers`) is what lets the save of one
be parked safely.

`TypeOK` of each module is proved with its invariant; `WriteQueue` and `RunLifecycle`
state it as a theorem of its own, the others as a conjunct of their first invariant.
Each inductive invariant was checked by TLC on the module's run before it was proved.

**Only model-checked**: liveness, which is out of this prover's reach, as is
everything about `ENABLED`. `AnnouncedStored` of `Forge` is false
(section 6). No module uses `RECURSIVE`, which would take the SMT backend away; what a
recursive definition computes for every input could not be proved either, since the
provers cannot instantiate the induction theorems.

## 6. Where code and documentation disagree

`forge_sampled` is a run whose property quotes the repository and fails. The write
callback of the sampling tier adds its row and returns: "NO db.commit() — submit()
handles it" (`sampling_pipeline.py:939`, and `tools/optimize.py:147` of the pending row of
an IDE's passthrough). The queue leaves it to the callback (`write_queue.py:242-243`: work
"MUST commit (or explicitly rollback) before returning"); `_run_one` closes the session,
which rolls the insert back, and answers with a success. The optimization is announced
as completed, told to the IDE, and is not there. The tests of it compare source text
(`test_tools_v0_4_14_migrations.py:119-131`).

The others were met while modelling. Most are behaviours the models have, and the
properties are stated around them:

*Write queue and runs.* When closing a session raises, its caller is never answered,
also after the queue declares itself dead and fails "pending work". `stop()` on a full
queue raises `QueueFull` before draining anything and marks itself done. A second
cancellation, while the failure is being written, lets `done_event` be set over a row
that still says `running`. The hourly sweep fails rows by age; the run may be alive, here
or in the MCP server, and overwrites the verdict later.

*Streams.* The refetch of a reconnection is there "to cover any missed events"
(`docs/CHANGELOG.md:2128`) and covers a part of them: an event about an optimization, a
refinement turn, preferences or an update that was published while the client was
away is missed for ever once the buffer has forgotten it, the server has restarted, a
sync has overtaken the queue, or when the client had no number yet (hence `lost`). A
reconnection by the staleness timer does not refetch at all, and the sync
message has moved the client's number past what it never got (hence `c \notin stale`). A
generator that raises publishes no closing event, so its response stays open.

*Warm and cold path.* A rejected refit publishes `cold_path_rejected`
(`cold_path.py:2464`), which is not among the ignored triggers although
`main.py:1148-1154` says that warm and cold path events must not wake the timer: it runs
again after every debounce while the gate fails (hence the disjunct of `ComesToRest`). A
seed batch wakes the timer and marks nothing dirty (`batch_persistence.py:509-516`), so its
cycle is skipped. The quiesce flags of the cold path are set and cleared within one
uncommitted savepoint (`cold_path.py:397`): the peers that should skip never see them.

*Membership.* Recovery selects twenty rows in no order and puts aside the exhausted ones
after that: twenty of these that the database returns first keep every other orphan
from recovery for good (hence the premise of `RowSettles`). A seed of a start that fails
half-way is committed as far as it came, and counted as seeded; with an embedding and no
cluster or pattern it is not an orphan to recovery, though a later start may link it (hence
`cut`). The insert of a batch row is announced before the batch assigns it: the
hot path may come first, and the batch then adds a second `source` pattern although
`batch_persistence.py:16-17` excludes it (hence `SourcesNameHome` leaves batch rows out).
The removal of a curated cluster from the index is a coroutine nobody awaits
(`prompt_lifecycle.py:303`). `warm_phases.py:2025-2026` says that outliers leave before
the patterns are repaired "so that OP repair sees the updated cluster_id values", but the
repair looks only at patterns that name a dead cluster: an outlier's keeps naming the
live one it left, and the index is not told of the singleton it went to (hence `ejected`
and the second exception of `IndexKept`). Rejected candidates and dissolved clusters are
archived with their rows when no other cluster is active (hence `NoRefuge`), and the index
keeps the former. Forced splits of 6 to 11 members (`warm_phases.py:2470-2479`) always
fail, since `split.py:115` asks for twelve embeddings whoever calls.

*Routing.* An `initialize` carries no session identifier yet, and a session is
registered as sampling under the identifier of the request (`mcp_server.py:904`): such a
bridge is never known as one, and the requests of plain clients keep its capability
alive, which `mcp_server.py:818-819` rules out (hence "known as one" in `SamplingHeard`).
The session file is deleted "on shutdown" (`mcp_server.py:716`), in a lifespan that every
session enters and leaves: when one client deletes its session, the file of all of them
goes (`SessionEnds`), although the comment above the lifespan says that "clearing
per-session would race with the middleware writing the file" (`mcp_server.py:218-219`).

*Rate limits.* `get_active` deletes an elapsed entry and tells nobody, and an answered
probe clears one silently; the watcher looks at entries only, so routing keeps such a
limit until a batch of the provider is stored or the process restarts, although
`rate_limit_state.py:5-6` calls the store "the single source of truth".

*Optimization.* Auto-load is for a "web UI [that] was idle" (`+page.svelte:110-112`),
but asks only that no result is shown: an IDE's result replaces a request that works, a
passthrough that waits, or an error. `optimization_start` of an IDE always takes over
`traceId`, although `handleExternalEvent` is "guarding against cross-contamination": the
polls after a broken stream then ask for the other one (hence `WorkEnds` does not
promise that the tab's own result is shown). A failed optimization of an IDE is not
announced, and a tab that followed it stays at work (hence `"following"`).
`restoreSession` prefers the last result to a pending passthrough begun after it, its
late answer overwrites what was begun meanwhile, and its failure wipes the memory of a
passthrough begun meanwhile (hence `current` and the second disjuncts of `Recoverable`).
A completed optimization that is deleted stays shown and remembered: the next reload
asks for it, gets 404, and forgets a passthrough begun meanwhile with it (hence
`Stored`). A tab that follows an optimization of the sampling tier by its start and
status events stays at work: the row it is told of at the end is not there to be loaded.
Opening and restoring show any row they find as complete, without a look at its status.
Polls, saves and opened records load without looking at what the tab does by then. A
client that leaves cancels its pipeline, which then leaves no row at all; if the write
is parked already, the row is stored and not announced. A result that cannot be built
after the commit is announced as completed and told as an error.

*Self-update.* `init.sh` starts the backend under `uvicorn --reload --reload-dir app`,
so the checkout of an update makes uvicorn replace the very worker that applies it. If
dependencies and migrations take longer than the ten seconds of grace, the apply is
cancelled between the checkout and the pop (its handlers catch `Exception` only), and
the user's edits stay in the stash although `update_service.py:836` pops it "so user
customizations survive" (hence `excused` in `StashReturned`). The gate reopens before
the restart, so an optimization admitted in the last second is orphaned
(`update_service.py:49-51`). A refused pop over a dirty tree is reported as clean. The
exit status of the rollback is ignored and "Code rolled back" is said. `force` bypasses
every blocking issue. A client that leaves at the first event is tracked for ever
(`pipeline.py:245`), and batches, probes and MCP pipelines not at all. A crash between
checkout and migration leaves code and schema apart: nothing migrates at a start.

*Refinement.* Two turns that race get the same version and parent, although
`refinement_service.py:579-580` calls branch and version the unique key: the table has no
such constraint (hence `raced` in `Numbered`). Two first requests that race seed two
parentless branches. A rollback looks its version up across branches and takes any. The
tab may show an error for a turn that was stored: when the reload of the event has
counted the turn before the stream ends, recovery waits for one more. `reloadTurns` has no
guard against an older answer that comes last (hence `crossed`). `init` keeps the active
branch and the request of the result before.

*Repository index.* See section 7. Besides, the etag of a tree survives a failed build,
so that the next one answers "not modified" and calls the emptied index ready; and an
exception of `incremental_update` does not mark the index as failed, as its docstring says.

## 7. What is not modelled

- The contents of anything (prompts, scores, vectors, wording); numeric algorithms,
  whose properties are of real numbers and not of states. Most of the lines of
  `taxonomy/` are these: which clusters a phase merges or splits is a choice in
  `Membership`, whether it succeeds one in `WarmPath`. `PROJECT.json` lists every part
  with the reason.
- **Repository index** (`repo_index_service.py`), after reading it in full. The first
  statement of `build_index` writes through the read session
  (`repo_index_service.py:1974-1984`). The audit hook of the read engine refuses that by
  default (`database.py:256-295`, `config.py:248`), so the phases of a build are
  reached by tests with stubs only; with the hook off the open write holds SQLite's lock
  against the build's own first write through the queue. What would be modelled is not
  what the program does.
- Clusters of clusters (emergence, family splits) and the repair of domains; the window between the cold
  path's read of the clusters and its rebuild of the index (`Rebuild` is one step).
- Tier resolution of one request, a pure decision over the state `Routing` keeps.
- The banner of the browser about rate limits, and a change of the provider at run time.
- `init.sh update`, which updates by another way than `apply_update`, and the detection
  of versions.
- In `Refinement`, several results in one tab, and the page's other stores.
- The write queue's metrics; the relay of the MCP server's events other than routing
  changes and turns (in `EventStream` they are events like others); the replay a run
  stream offers to late subscribers, since the streaming endpoints subscribe before
  they start the run.
- Template counters, feedback, validation suites, seed-agent promotion, GitHub
  authentication: one row or one file per call, in one commit, without a second
  actor that could see it half done.

uvicorn ends the lifespan, and with it shuts the bus down, only after connections
have closed; `EventStream` allows a shutdown at any time, which includes that. SQLite is
taken at its word: a commit is atomic and durable, and foreign keys are enforced
(`database.py` switches them on for each connection).
