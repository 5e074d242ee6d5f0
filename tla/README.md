# TLA+ verification of ch_diag

ch_diag collects diagnostics from ClickHouse servers and their hosts and writes
them as one JSON/HTML report per target. This directory holds a TLA+ model of
its concurrent and failure-prone parts, the TLC runs that check them, and TLAPS
proofs. `PROJECT.json` maps every definition to the lines it translates.

    tlc -workers 2 -config CommandSafety.cfg MCCommandRun    # one run
    tlapm CommandRun_proofs.tla                              # proofs of one module

## 1. Inventory

| Component | State | Operations | Interacts with |
|---|---|---|---|
| ClickHouse adapter (`clickhouse.py`) | pinned server identity, identity lock, client registry, thread pool and its queue, closed flag | `detect_runtime_context`, `execute_query` (submit, time out, drain, reconnect), `close` | called by collector and window; threads run clickhouse-driver |
| Sampling window (`snapshots.py`) | per-source schedule loops and tasks, SQL semaphore, samples and diagnostics, markers, iostat task; selection of threads | `collect_metric_items`, `_run_scheduled_source`, `collect_*_once` | adapter (SQL), host transport (scripts), samplers |
| Samplers and charts (`samplers.py`, `linux_helpers.py`) | none of their own: the previous reading is passed in | counter deltas, process and thread rows, chart series, tables, coverage, chart budget | window |
| Collector (`collector.py`) | resources, items of the current target, artifacts | `_collect`, `_collect_target`, `_execute_item`, fallbacks, fail_fast, `_close_collection_resources` | everything below it; called by the command line |
| Command line (`cli.py`) | none beyond the call | `_run_collection`, `_run_machine`, `main`: exit status and envelope | collector, envelope, report files |
| Orchestration envelope (`orchestration.py`) | none | files with their hashes, a summary of every report | command line, report files |
| Report artifact (`artifact.py`, `artifact_schema.py`) | the artifact being built, the files | `finalize_collection_summary`, `omit_uncollected_items`, `validate_artifact`, `write_json`, `write_text_secure` | collector, render command |
| HTML renderer (`render/html.py`) | none | `render_from_json`, formatting | report files |
| Planner, versions (`planner.py`, `versioning.py`) | none (pure) | `resolve_lts_branch`, `select_variant`, `build_plan`, `collection_requirements` | content pack, collector |
| Content pack (`content_loader.py`) | none after loading | load and cross-validate YAML, SQL, scripts | planner |
| Host transports (`host.py`, `ssh_transport.py`) | SSH connection, tunnel listener | `run_script`, `connect`, `open_tunnel`, `close` | window, collector |
| Content SQL and scripts (`content/`) | none | queries, samplers, thread selection in `clickhouse_process.sh` | adapter, host transports |
| Configuration (`config.py`, `runtime_config.py`), progress (`progress.py`), `tools/` | none | parsing, logging, developer tooling | - |

What is hard in it, and what correctness means:

* **Adapter.** Coroutines, worker threads and driver connections run
  concurrently, any statement may never come back, and the endpoint may move to
  another server between two connections. Correct: one report never mixes two
  servers; the registry reaches every live client so that `close()` can cancel
  it; calls and `close()` return although drivers do not; no path leaves the
  identity lock held.
* **Window.** Absolute deadlines pass while observations of the same source
  still run, SQL sources compete for permits, and a run can be cancelled in any
  of these states. Correct: each scheduled point has exactly one verdict, a
  source does not overlap itself, permits come back, rates refer to the previous
  successful sample, nothing keeps running.
* **Samplers.** What they measure restarts, reuses its numbers and disappears
  between two samples. Correct: a rate belongs to one lifetime of one thing; a
  gap in what was observed is visible in the report; sampling recovers after a
  restart.
* **Charts and tables.** Points are missing, fail or are cut by a budget.
  Correct: a point is exactly the growth since the last reading, the newest
  points survive, nothing is dropped silently, and an item's status does not
  belie its samples.
* **Collector and command line.** Any step may fail, items have fallbacks,
  `fail_fast` stops in the middle, Ctrl-C strikes at any await, and the files
  are looked at again after they were written. Correct: exit status and envelope
  tell the truth about the files, each summary is of its own target, one answer
  is printed, and resources are closed.
* **Report files.** Runs and render commands share a directory; each may be
  killed, and the machine may lose power. Correct: a reader finds one whole
  report or none.
* **Planner and pack.** The loader, the choice of the transports, the plan and
  the sampling each look at the pack with other knowledge (no version yet, no
  transports yet). Correct: every planned item has a transport, exactly one
  variant and its fallback; an accepted pack never makes planning fail.

`PROJECT.json` lists each hazard with the line where it bites and the property
that covers it, or why none does.

## 2. Modules

| Module | Models | Extends / implements |
|---|---|---|
| `PinnedSession` | abstract promise of the adapter | - |
| `ClickHouseAdapter` | `clickhouse.py` query path | implements `PinnedSession` |
| `SampleLedger` | abstract promise of the window | - |
| `SamplingWindow` | timed part of `snapshots.py` | implements `SampleLedger` |
| `ProcessSampler` | process and thread sampler: `collect_process_once`, its rows, its script | - |
| `MetricSeries` | one metric item from its samples to chart or table and status | - |
| `CollectionRun` | a run of `collector.py` up to the exit status without `--machine` | - |
| `CommandRun` | `cli.py` and `orchestration.py` around it | extends `CollectionRun` |
| `ReportStore` | abstract promise of the report files | - |
| `ReportFiles` | `write_text_secure` and its callers over a file system | implements `ReportStore` |
| `ContentPlan` | loader's cross-checks, transports, versions and plan (`content_loader.py`, `planner.py`, `versioning.py`) | - |
| `*_proofs` | TLAPS proofs of the module they are named after | extend it |
| `MC*` | instances for TLC: plans, scopes, packs, metrics, symmetry | extend the above |

### PinnedSession and ClickHouseAdapter

`PinnedSession` has a pinned server and calls that are idle, pending or done. A
call ends with the rows of the pinned server or with an error; the first
detection pins; every call that began ends.

In `ClickHouseAdapter` a *call* is one `execute_query` or the collector's
`detect_runtime_context`. A call has one outstanding `_execute_raw`, so its
future, its client and its connection are functions of the call.

| Model | Code |
|---|---|
| `pc`, `step`, `tries` | the await a coroutine is suspended in, the statement it waits for, the attempts of `_execute_with_reconnect` |
| `Submit` | synchronous part of `_execute_raw`: closed check, client registered, work queued |
| `Timeout`, `DrainEnd` | `wait_for(shield(task), timeout)`, cancelling the client, `wait_for(task, 1.0)` with `except BaseException: pass` |
| `Reconnect`, `AcquireLock`, `ContextRead`, `IdentityVerified`, `IdentityCheckFailed` | the retry loop and `_verify_reconnect_identity` under the lock |
| `Take`, `IdentityConfirmed`, `IdentityRefused`, `RowsRead`, `StatementFails`, `WorkerEnds` | a pool thread running `execute()`; `WorkerEnds` is its `finally` |
| `CloseStart`, `Shutdown`, `WorkersJoined`, `CloseTimeout` | the parts of `close()` between which other threads run |
| `Failover` | environment: new connections reach another server |

Abstracted: SQL text, rows, type conversion, redaction of errors. The errors
are the classes the control flow tells apart: disconnect, identity change,
timeout, cancelled, closed, anything else. Assumed of the driver: a connection
stays with the server it was opened to.

The refinement maps `identity` to the pinned server and every suspended call to
a pending one. Reconnects, locks, workers and drains all become stutters.

### SampleLedger and SamplingWindow

`SampleLedger` keeps one verdict (sampled, failed, skipped) per source and
scheduled point: it is set once, in order for samples; a skip needs an earlier
undecided point of the same source; a window that closes has decided
everything, and a window does end.

`SamplingWindow` counts time in deadlines that have passed; the event loop may
be late by any number of them. A source's loop (`loop`, `next`, `active`) is
`_run_scheduled_source`; a `task` is `guarded_collect`, first waiting for a
permit (SQL), then executing. `Dispatch` and `SkipBusy` are the two outcomes of
waking at a deadline, `EndLoop` the final await. `Observe`, `ObservationFails`
and `ObservationCancelled` end a task and return its permit. `CancelWindow`
starts the unwinding of gather(); `CancelIostat` and `WindowCancelled` are the
`except` block behind it, `CancelIostatWait` a cancellation in the last await.

What an observation of a source brings is the business of the next two modules.
The preparation of the sources before the window is seen only by `ContentPlan`.

### ProcessSampler

The ClickHouse process sampler is the one host sampler whose next script depends
on what earlier ones returned: the first sample *selects* the busiest threads up
to `max_process_threads`, later ones ask for those. It is modelled next to a
server whose threads work, start (possibly with the tid of an exited one), exit,
and which may restart, also while the script runs (`SampleDyingServer`).

| Model | Code |
|---|---|
| `last` | `previous_process`: the latest successful reading |
| `selected`, `selectedPid`, `discovered` | `selected_thread_ids`, `selected_process_pid`, `discovered_thread_count` |
| `Busiest`, `Captured`, `Reading` | the two modes of `clickhouse_process.sh` and `parse_clickhouse_process` |
| `Coverage`, `Diagnosed` | `thread_coverage` and the diagnostics made from it |
| `UpdateSelection` | the select/forget branches at the end of `collect_process_once` |
| `ProcessCpu`, `ProcessIo`, `ThreadCpu`, `ThreadIo` | the rows of `normalized_clickhouse_*_rows` |

One unit of work counts as CPU ticks and as bytes. The elapsed time between two
samples is positive and left out, so a rate is a difference. `roster` and
`steady` are ghosts: what ran when the selection was made, and which threads all
samples of this server have seen.

### MetricSeries

One metric item of a window. A *key* is a series (specification and dimensions)
or a group of table rows, with counters of its own on a server that may restart.
`Sample` is one round of the loops of `build_chart_result` and
`build_table_result`: rows may be missing or lack numbers. `Assemble`,
`BoundSeries` and `Finish` are the end of `collect_metric_items`: the chart
budget is applied one series at a time (with Python's `points[-0:]` for what it
is), tables are sorted and cut, and the status is decided. `SampleFails(code)`
is a point without a sample, by its code. `since` is a ghost: what truly
happened to a key since it was last observed.

A value is a quotient of naturals; a rate has the denominator 1.
`build_table_result` computes no differences (rates in its rows are made by the
samplers), so a table's metric is a gauge; its sort column is an average, the
largest first, as in the thread tables of the pack. The code
assembles all samples at the end of the window; the model builds the
contribution of each sample when it arrives, from the same previous reading.

### CollectionRun and CommandRun

`stage` walks through `_collect` and `_collect_target`: SSH, adapter,
preparation, the primary sources with their fallbacks, the metrics, the report
files, the next target, the clean-up, the exit. `Raise` leaves the `try` block
for the clean-up with the class of the exception: one that `main()` catches
("reported"), one it does not ("unhandled"), or a cancellation. `primary` keeps
how an item's own source ended even after a fallback replaced it, `incomplete`
whether coverage was cut, `json` and `html` which target's report a path holds.
`AwaitsForGood` names the places
where the run waits at an await that nothing bounds (section 3).
`Interrupt` is Ctrl-C, with Python 3.11+'s `asyncio.run` (cancellation of the
main task; 3.10 raises KeyboardInterrupt instead). `InterruptSwallowed` is the
drain of the adapter seen from here. "ok" also stands for "empty" and "error"
for "permission_denied", which the control flow treats alike. The run has a
database adapter; both output formats are written.

`CommandRun` puts the command around it. Without `--machine` its `ExitPlain` is
the `Exit` of the run. With it, `_run_machine` goes on where the run ended:

| Model | Code |
|---|---|
| `LoadContent` | `load_content`, which may fail before anything is collected |
| `Dispatch`, `DispatchEnds` | `_dispatch`, and the `except` clauses behind it |
| `Describe` | `_machine_artifacts`: path, hash and size of each file that exists |
| `Summarize` | `_machine_result`: a summary of each file, or of the artifact in memory |
| `Emit`, `Return`, `EmitFailure` | the branches of the verdict, `_emit_machine`, the exit code |
| `InterruptCommand` | Ctrl-C outside of the collection |
| `Fetch` | environment: whoever waits for the reports moves them away |

`Describe` and `Summarize` look at the files at different times, which is what
`Fetch` is for. Standard output is taken to be writable.

### ReportStore and ReportFiles

`ReportStore` promises that each file shows one whole report at any time, and
that only the publication of another one changes which; a power loss may bring
back an earlier version.

`ReportFiles` takes apart `write_text_secure`: `Create` (mkstemp, lines 335-339),
`EnterTry` (340), `Write` (possibly in two parts), `Sync`, `Replace`, the chmod
behind it, and `Raise`, the `except BaseException` clean-up that any step inside the
`try` can enter. A call that has made its temporary file but has not entered the
`try` is at `made`; Ctrl-C there is `Slip`, which raises past the clean-up and leaves
the file. The callers are runs (`write_json`, then the HTML) and `render_from_json`,
which first reads the JSON (`Load`). The file system is external: a name is bound to an inode whose content
is safe once it was synchronised; the name itself may fall back, since the
directory is never synchronised. `Kill` and `PowerLoss` are the faults.

`CollectionRun` takes a write as one step; `ReportFiles` is what justifies that.

### ContentPlan

One run from the pack to the items of the report of one target, in the order of
the code: `Load` (the cross-checks of `validate_content`), `Connect` (what
`_collect` opens, from `collection_requirements`), `BuildPlan` (the branch and
the plan, once the version is known) and `Collect` (which planned items the
report shows). The pack, the request and the version are arbitrary; each stage
sees only what the code sees at that point, and the question is whether the
decisions of the four places, taken by different functions from different
inputs, fit together.

A definition of an item stands for its entry in report.yaml together with its
source and its fallback: a kind, the variants of its query and those of the
fallback's query. A variant has LTS branches and scopes. Branches and versions
are numbered in their order, which is all that `resolve_lts_branch` compares.
A run of several targets plans each of them from the same inputs.

## 3. Runs

| Run | Question | Instance |
|---|---|---|
| `AdapterSafety` | Are servers ever mixed, statements sent astray, clients or futures lost? Is every step one of the session? | 2 queries + detection, 2 servers, 2 workers, 1 reconnect each, 1 failover |
| `AdapterLiveness` | Do calls and `close()` return although drivers do not? | 2 queries + detection, 1 worker, 1 reconnect |
| `WindowSafety` | One verdict per point, permits, the ledger with its termination | 2 SQL sources, 1 permit, 3 points |
| `WindowScopes` | Rates across gaps, nothing left running | host sampler, `window_end` and `once` sources, iostat, 3 points |
| `SamplerSafety` | Whose work does a thread rate show? Is every gap of the selection reported? Does sampling recover? | 2 tids, 2 starts of the server, limits 1 and 2, 4 points |
| `SeriesSafety` | Is every point exact, every omission reported, the status honest? | 2 keys, 6 kinds of metrics of the pack, 4 budgets, 3 points |
| `FileSafety` | Can a reader meet a torn file, an HTML without its JSON, a stray temporary? | 2 runs and 1 render command on one directory, 1 power loss |
| `CommandSafety` | Are exit status and envelope truthful, is everything closed, are files decided, does the command end? | 2 targets, a source with fallback, a metric, an inapplicable item, SSH, both `fail_fast` values, with and without `--machine`, 1 file fetched early |
| `PlanSafety` | Is all that is planned served by what was opened before, with one variant? Can planning an accepted pack fail? | 2 items, 2 branches, versions before, at, between and after them |
| `RunHidden` | (finding) failures prevent status 0 | 1 target, 1 item |
| `SeriesRestart` | (finding) a restart makes a gap | 2 keys, `merge_row_rate`, 2 points |
| `CommandFiles` | (finding) the envelope lists the files that exist | 2 targets, 1 item each, nothing fetched |

**Bounds.** The bounds that are no parameters of the program are named
`Max...`: `MaxFailovers`, `MaxWork`, `MaxStarts`, `MaxPoints` (of
`ProcessSampler` and `MetricSeries`), `MaxGrowth`, `MaxRestarts`, `MaxLosses`
and `MaxFetched`.

* Adapter: one failover suffices to have connections to both servers open at
  once, before and after detection; two queries are needed for contention for
  the lock, the second worker for concurrent connections, the single worker
  (liveness) for work that queues behind a hung driver. A second reconnect
  repeats the first.
* Window: three points contain a sample, a gap and a sample after it; two SQL
  sources and one permit contain contention.
* Sampler: four points (`MaxPoints`) are a selection before a restart and the three
  samples that recovery takes after it; two tids with a limit of one leave a thread
  out; three starts (`MaxStarts`) contain a reused tid and a restart; two units of
  work (`MaxWork`) order the threads and let a new counter overtake an old one.
* Series: three points contain a key that is missed between two observations;
  growth by two and one restart contain a counter that fell and one that has
  overtaken. The budgets bind by series, by points, within a series and exactly
  with one; one does not bind.
* Files: two runs and a render command contain every pair of concurrent callers;
  a second power loss repeats the first on a file system without writers.
* Command: two targets contain a failure after an earlier report. With one
  fetched file, code 6 for an incomplete collection all of whose files are gone
  is not reached; the proofs cover every number.
* Plan: two items contain every way one item's needs open what another one
  lacks; of the five variant lists three are accepted (for both scopes, for one,
  split at a branch) and two are not (overlapping, incomplete).

**Type invariants** of all modules are proved (section 5); that of `MetricSeries`,
whose values are built by folds, is also an invariant of a run.

**Deadlock** is not checked: every one of these systems legitimately stops
(calls done and adapter closed, window closed, points sampled, reports written,
command ended, plan made), and a driver may legitimately never answer. That they
do not stop too early is what `ImplementsSession`, `CloseReturns`,
`ImplementsLedger` and `CommandEnds` check.

**Fairness.** Adapter: the event loop resumes coroutines and fires timers
(`EventLoop`); workers get none, because nothing bounds a driver. Window: time
passes, ready work of each source and of the window runs; an observation ends
because `execute_query` returns (`ImplementsSession`); the run that needs it
(`WindowSafety`) has SQL sources only, because a host script is not bounded in every
case (below). Cancellation is never fair. Command: a step of the collection that can be
taken is taken (`DispatchGoesOn`), and so is a step of the command around it
(`CommandGoesOn`), except where the code waits without a timeout (`Stuck`). These
awaits are (`AwaitsForGood`):

* `ssh_transport.py:94`, opening the tunnel (stage `creating`); 105, where asyncssh
  opens the session of a script before its timeout starts to run (`hostname`, and an
  item or metric with a host source); 127 and 130, closing listener and connection
  (`close_ssh`);
* `host.py:46`, `communicate()` after a timed-out script was killed: its children may
  still hold the pipes (an item or metric with a host source);
* `cli.py:450`, where `asyncio.run` joins the thread that runs
  `executor.shutdown(wait=True)` for a `close()` that timed out (`clickhouse.py:482`):
  a driver that never returns holds it (`exiting` after `close_failed`).

All other awaits have a timeout. So `CommandEnds` says that the command ends or stays
for good at one of these. Ctrl-C and whoever fetches files get no fairness. The
samplers, the series and the files state none: their properties are safety.

**Mutants.** Each property of a passing run has a plausible defect next to the
definition it changes (comments starting with "Mutant:") that violates it.

## 4. Findings

* **A failure can vanish** (`collector.py:355`, run `RunHidden`). A failed
  item whose fallback is unsupported is omitted and the run can exit with 0.
* **A rate can span a restart** (`samplers.py:475`, run `SeriesRestart`).
  Without `epoch_refs` only a fallen counter shows a restart; once the new one
  has overtaken the old, the difference of two lifetimes is drawn.
  `merge_row_rate.md:17` promises a gap; of the counters in `metrics.yaml` only
  `clickhouse.query_rate` (line 583) declares `epoch_refs`.
* **Files an envelope does not list** (`cli.py:471`, run `CommandFiles`). The
  envelope takes its files from what the collector returned. If it raises (the
  HTML or a later target fails, a close times out), reports already written are
  listed nowhere; docs/orchestration.md:38 promises the path, hash and size "when
  a file exists".

Met while modelling; they have no run of their own:

* Adapter: `close()` misses a statement that starts between the snapshot of
  the clients and the shutdown (`clickhouse.py:467`, docstring at 461). A query
  that times out while every worker is busy has its queued future cancelled,
  `execute()` and its `finally` never run, and its client stays registered
  (`clickhouse.py:455`). The drain swallows a cancellation, so Ctrl-C can be lost
  and the run continues (`clickhouse.py:456`). Context and readonly setting are
  read over two connections that may reach two servers (`clickhouse.py:161`).
* Window: the semaphore is acquired inside the observation, so a slow source
  makes others skip points as busy (`snapshots.py:578`); README.md:257-258 says it
  cannot. `schedule_offsets` accumulates floats (`snapshots.py:48`). A required
  field that was not seen because most points failed makes an item "unsupported",
  which omits it from the report (`snapshots.py:746-751`,
  `collector.py:388-392`, README.md:507-508).
* Samplers: processes are compared by pid only (`samplers.py:204`). In a container
  a restarted server often has the same pid; once its counters have overtaken the old
  ones, the process row shows a rate over the restart, although README.md:314-315 and
  `process_cpu.md:19` promise a gap. No run shows it: among pids that differ the
  comparison is the whole mechanism and a property would only repeat it. Threads that
  are born after the selection are not looked for and no diagnostic counts them
  (`snapshots.py:455-500`). Table groups keep the sample with the largest wall-clock text as the
  last one (`samplers.py:305`).
* Plan: the plan of a metric ignores the variants of its query
  (`planner.py:291`); one that does not declare the scope of the run is not
  sampled (`snapshots.py:267`) and shows as "empty". content/README.md:351-352 says
  that inapplicable items "are not invoked and do not appear in the final artifact",
  README.md:238 likewise: the second half is broken. `InapplicableIsNotInvoked` states
  both halves for all kinds of items with this one exception. The metrics of the
  shipped pack declare both scopes, so it takes another pack to see it.
* Collector: cluster names "x y" and "x/y" share a default output path
  (`collector.py:943`); the later report replaces the earlier one, and in machine
  mode both targets get its summary.
* Command: an exception of the driver that `main()` does not catch
  (`cli.py:624`; an `EOFError` of the detection) ends Python with status 1, in
  machine mode without an envelope (docs/orchestration.md:32). Ctrl-C after the
  envelope was printed prints a second one, Ctrl-C in a handler none. The exit
  codes 3, 4 and 8 of docs/orchestration.md are never used.
* Command: the awaits without a timeout of section 3. In particular a driver that
  never returns still keeps the command from exiting after `close()` has given up on
  it.
* Files: Ctrl-C between `mkstemp` and the `try` of `write_text_secure`
  (`artifact.py:335-340`; most likely in `render`, which runs outside of asyncio)
  leaves the temporary file. No directory is synchronised, so a power loss can bring an earlier
  report back; a kill leaves the temporary file; a chmod that fails after the
  replacement raises although the file was replaced; with two concurrent runs the
  JSON and the HTML that remain may be of different runs.

## 5. Proofs

All proofs hold for every value of the constants that satisfies the module's
assumption. Each invariant is strengthened to an inductive one, proved with one
step per action.

`ClickHouseAdapter_proofs` (`AdapterAssumption`: any number of queries, servers,
workers, attempts):

| Theorem | States |
|---|---|
| `TypeCorrect` | `[]TypeOK`, inductive by itself |
| `OneServerPerReport` | `[]NoMixedServers` |
| `StatementsStayHome` | `[]NoForeignStatement` |
| `RegistryAlways` | `[]RegistryMatchesWork` |
| `ClosedAdapterIsIdle` | `[]ClosedIsIdle` |
| `LockIsReleased` | `[]LockHeldByVerifier` |
| `AdapterIsSession` | `SafeSpec => SessionSafety` |

`NoMixedServers` is not inductive: a call returns the rows of a future that
finished earlier, on a connection opened earlier still. `PinnedInv` says that
a query has been touched only once an identity is pinned, and that the
connection of every query whose statement runs or has returned rows is one to
the pinned server. The delicate point is the detection itself, whose two
connections may reach two servers: what it returns is the server of the first.
`RegistryMatchesWork` is inductive by itself. `ShutdownInv` adds to `ClosedIsIdle`
that nothing is queued from the shutdown on, while workers are still being
joined. `LockInv` ties the lock to the statements of the
verification. `DetectInv` supplies what the refinement needs of the detection's
call.

`SamplingWindow_proofs` (`WindowAssumption`: any sources, scopes, points, permits):

| Theorem | States |
|---|---|
| `TypeCorrect` | `[]TypeOK` |
| `NoOverlap` | `[]NoSelfOverlap` |
| `PointsDecidedOnce` | `[]EverySlotDecidedOnce` |
| `PermitsBalance` | `[]PermitsConserved` |
| `AllEnded` | `[]NothingLeftRunning` |
| `Ordered`, `NeighbourRates` | `[]SamplesOrdered`, `[]RatesSpanNeighbours` |
| `WindowImplementsLedger` | `SafeSpec => LedgerSafety` |

The invariant has four parts per source. `LoopInv` says that a loop never runs
ahead of its last task, so at most that one is unfinished; `DecidedInv` that every
point the loop has passed has one verdict or is that task's; `OrderInv` that
samples are in order and the next rate starts at the last one; `PhaseInv` how far
the loop can be in every phase of the window. With them each step gives the
ledger one verdict or none.

`ProcessSampler_proofs` (`SamplerAssumption`: any threads, pids, limits, bounds):

| Theorem | States |
|---|---|
| `TypeCorrect` | `[]TypeOK` |
| `CoverageIsHonest` | `[]GapsAreReported` |
| `ThreadRates` | `ThreadRatesAreTrue` |
| `SamplingResumes` | `RatesResume`, if `FreshStarts` |

What makes thread rates true even when tids *and* pids are used again is that
a start time is never given twice: `LastInv` says that a thread of the latest
sample that still has its start time is the same thread, of the same server, and
its counter has not gone back. `SelectionInv` ties the selection to that sample and
to the diagnostics, and `IoInv` the captured threads without I/O counters;
`SteadyInv` follows the threads seen by all samples. `SamplingResumes` needs that each
start of the server has a pid of its own (`FreshStarts`): the selection is given up
only when the pid changes, so a server with the pid of the old one would be asked for
the threads of the old one. `CoverageIsHonest` speaks of the threads that were there when the selection
was made; it leaves out those born later.

`MetricSeries_proofs` (`SeriesAssumption`: any finite set of keys, any metrics,
budgets and bounds, values that are told apart from gaps):

| Theorem | States |
|---|---|
| `TypeCorrect` | `[]TypeOK` |
| `ExactPoints` | `PointsAreExact` |
| `ChartWithinBudget` | `[]BudgetHolds` |
| `OmissionsReported` | `[]OmissionsAreReported` |
| `TableShowsTheTop` | `[]TableIsTheTop` |
| `HonestStatus` | `[]StatusIsHonest` |

`ExactPoints` leaves one case open: a restart whose counter has overtaken the reading
before it, in a metric without `epoch_refs`, which run `SeriesRestart` shows to give a
point. It rests on the books of the keys (`Inv`), which relate the previous
observation of a key to what its server did since: unless it was restarted, the
previous value plus the growth is the counter. The report adds four parts (`IInv`).
`FirstSeen` says that the keys are listed once each, in the order of their first
row; `Staged` that there is no report before it is assembled and that the status is
that of the assembled one; `ChartFills` that, series by series, what is shown is the
end of the series it stands for, what is left to do are the series behind it, and
the points shown plus what remains of the budget are the budget.

From there `WholeChart` gives that a chart without the truncation flag shows the
series as they were built, `ValuesAreListed` that each value belongs to one of them.
For tables `AveragesCompose` (averages are compared by multiplication) and
`EarlierFacts` (the order of first appearance) make `Before` a strict total order of
the groups (`BeforeIsAnOrder`), and `TopOfOrder` gives the number of elements that
have fewer than the limit before them.

The library's sums (`SumFunction`) and the loop that drops empty series (`Drawn`) are
recursive functions over sets and numbers. The induction theorems of the library take
an operator as a parameter, so `NatSetInduction` and `SubsetInduction` state induction
for a *set* of good numbers or of good subsets and are proved from the well-foundedness
of `<` and of strict inclusion. With them `SumRecursion`, `SumSplits`, `SumMonotonic`
and `DrawnFacts` hold for all inputs.

`CollectionRun_proofs` (`RunAssumption`: any number of targets, any plan, both
`fail_fast` policies):

| Theorem | States |
|---|---|
| `TypeCorrect` | `[]TypeOK` |
| `ResourcesAreClosed` | `[]ResourcesClosed` |
| `HtmlIsNeverAhead` | `HtmlFollowsJson` |
| `FilesAreDecided` | `[]ReportsAreDecided` |
| `ExitZeroIsTruthful` | `[]ExitZeroIsComplete`, if `PathsDiffer` |
| `PartialRunsAreWritten` | `[]PartialRunIsWritten`, if `PathsDiffer` |
| `SharedPathsShowTheLast` | `[]LastTargetIsShown` |
| `RunsAreBounded` | `EveryStepCounts`, and `Init` bounds `StepsLeft` |

None of these is inductive. `StageInv` says which target, index and error fit the
place the run is at; `TypeOK` is inductive with it. `CloseInv` follows the two
closes to the exit. `ItemsInv` says which items are decided at each point of the
item loop and of the metric loop behind it, that later targets are untouched and
that only delivered results carry an incomplete coverage; `FilesInv` ties what
the files show to decided targets the run has left. `CompletionInv` and
`WrittenInv` keep what Finalize and the two writes established until the exit,
which is where two targets with one path would break them: `PathsDiffer` is the
assumption on `PathOf` that excludes this (section 6). `ExitInv` carries them to
the exit status. Without that assumption `SharedInv` says that later targets
overwrite earlier ones only, so a run without an error leaves the last target of each
path, as JSON and as HTML (`LastTargetIsShown`). Lemma `Frame` states once what a step may touch, so that most
invariants need no case for each action. These are theorems of the collection
without `--machine`, `SafeSpec`; the next module carries them over to the command.

`RunsAreBounded` is the part of `CommandEnds` that needs no fairness. `StepsLeft` counts
the steps a run can still take, from its place, target and index alone; every step
lowers it, those of a failure and of Ctrl-C too, so a run takes at most
`TargetCount * TargetLength + 8` steps and has no loop. What is left to TLC is that a
run that has not ended and waits at no await without a timeout can take a step.

`CommandRun_proofs` (`RunAssumption`, `CommandAssumption`: `CommandSafe`, with and
without `--machine`, any number of fetched files):

| Theorem | States |
|---|---|
| `BaseInductive` | `[]BaseInv` |
| `CommandTyped` | `[]CommandTypeOK` |
| `OneAnswer` | `[]MachineAnswersOnce` |
| `CommandClosesResources` | `[]ResourcesClosed` |
| `CommandFilesAreDecided` | `[]ReportsAreDecided` |
| `CommandHtmlIsNeverAhead` | `HtmlFollowsJson` |
| `CommandInductive` | `[]CommandInv`, if `PathsDiffer` |
| `EnvelopesAreTruthful` | `[]EnvelopeIsTruthful`, if `PathsDiffer` |
| `SummariesAreOwn` | `[]SummariesMatchTargets`, if `PathsDiffer` |
| `CommandExitZeroIsTruthful` | `[]ExitZeroIsComplete`, if `PathsDiffer` |
| `CommandPartialRunsAreWritten` | `[]PartialRunIsWritten`, if `PathsDiffer` |
| `CommandsAreBounded` | `EveryCommandStepCounts`, and `CommandInit` bounds `CommandSteps` |

A step of the command is a step of the collection (`BeforeStep`) or leaves it alone
(`CollectionRests`), so the step lemmas of `CollectionRun_proofs` are used as they
are. `KeptInv` says that the collection has its invariants until it ends, and that
afterwards the resources stay closed and the files decided; a command that fails to
load its content has opened none. `AnswerInv` counts the envelopes by the step the
command is at; `OneAnswer` says nothing of an interrupted command, nor of one whose
collection raises what `main()` does not handle: that prints none (section 4). With output paths that differ, `RunInv` and `ResultInv` say that from
the description of the files on every report is written and what the summaries made so
far are, `TruthInv` keeps what was printed true, and `DeedsInv` follows what the
targets conclude to the exit status: that of a machine command is made from its
envelope, and a handler never prepares the code of success. `CommandSteps` adds to
`StepsLeft` the summaries still to be made, the answer, and the reports that can still
be fetched; `AnswerShrinks` and `FetchShrinks` show that each step lowers it.

`ReportFiles_proofs` (`FilesAssumption`: any number of runs, render commands and
power losses):

| Theorem | States |
|---|---|
| `TypeCorrect` | `[]TypeOK` |
| `FilesImplementStore` | `Spec => ImplementsStore` |
| `JsonComesFirst` | `[]HtmlHasItsJson` |
| `CleanUp` | `[]TemporariesAreRemoved` |

`CallInv` says what the inode of a call contains at each of its steps, `BoundInv`
that every inode a name is bound to, or may fall back to, is whole and
synchronised and that the JSON of its report was known. So no power loss can bring
a torn file to a name. `CleanUp` accounts for every temporary file: it belongs to a call
that has not ended, or was left by a kill, a power loss, a failed unlink or a Ctrl-C
before the `try` (`Slip`). So whatever is raised inside the `try` leaves none.

`ContentPlan_proofs` (`PlanAssumption`: any items, definitions, branches and
versions):

| Theorem | States |
|---|---|
| `TypeCorrect` | `[]TypeOK` |
| `PlannedItemsAreServed` | `[]PlannedIsServed` |
| `ConnectionsAreUsed` | `[]NothingOpenedInVain` |
| `VariantsOfPlan` | `[]VariantsAreExact` |
| `FallbacksArePlanned` | `[]FallbackIsPlanned` |
| `PlanningSucceeds` | `[]PlanDoesNotFail` |
| `InapplicableStaysOut` | `[]InapplicableIsNotInvoked` |

Its invariant carries facts from stage to stage: what was accepted
(`PackAccepted`), what was opened and that the version is known exactly if it is
needed (`RequestOpened`), and that the plan is the one of the nearest branch
(`PlanIsOfBranch`). `OneMatch` and `MatchesInScope` turn the loader's checks into
what `select_variant` relies on; `QueryNeedsDatabase` and `PlannedIsRequired`
relate `build_plan` to `collection_requirements`.

**Only model-checked.** Liveness (`ImplementsSession` and `ImplementsLedger` beyond
their safety parts, `CloseReturns`, and of `CommandEnds` all but the bound on the steps):
the prover handles neither fairness nor `ENABLED`. Every other property of the passing
runs is a theorem.

## 6. Not modelled

* Collision of file names is not in the runs, which take paths as distinct:
  `ExitZeroIsComplete`, `PartialRunIsWritten` and what an envelope says of the
  reports hold only then (`PathsDiffer`). What is left on a shared path is proved
  (`SharedPathsShowTheLast`).
* A restarted server with the pid of the old one is not in the run (`FreshPids`), and
  `SamplingResumes` excludes it (`FreshStarts`). The other theorems of the sampler hold
  with it.
* Silent reconnects inside clickhouse-driver; what the driver does is external.
* What happens at an await without a timeout (section 3): the model can stay there for
  good, or go on.
* Host transports: a cancelled local script keeps running until its timeout
  (`host.py:36`), and closing an SSH session skips the connection if the tunnel
  listener fails to close (`ssh_transport.py:126`). Both are I/O of libraries
  outside of the repository; the run sees the session as one resource.
* Samplers: the parsers of procfs and iostat, which keep no state beyond their
  previous reading; the pools of threads; floats of `schedule_offsets`; the wall
  clock.
* Charts and tables: names, units, columns other than the sort column, and the
  transform "delta", which differs from "rate" in the elapsed time only.
* Content pack: the integrity baseline and the checks of a single source.
* Command line: argument parsing, the commands that only read (`explain-plan`,
  `validate`, `validate-artifact`, `summarize`, lists), failures of standard output, and a concurrent run that
  replaces a report while machine mode reads it.
* HTML formatting, progress output, configuration, `tools/`: pure or developer
  code without state.

## 7. Plan

1. *Done:* adapter with its session, window with its ledger, run with its exit
   status, plan from the pack to the report; proofs of their safety and
   refinements.
2. *Done:* process sampler, metric series, report files with crashes, the command
   with machine mode; proofs of every safety property the runs check.
3. Left: the window on top of the adapter (hung workers against the semaphore);
   the inner life of the SSH session and of host scripts; the inspection commands
   of machine mode (`validate-artifact`, `summarize`).
