# Verification of superpower-workflow

superpower-workflow (`sw`) drives `claude -p` through the milestones of a
`workflow.json`: it plans, implements and reviews each milestone, pushes it,
waits for CI, and keeps outcomes and costs in a state file so that a run that
was killed can be resumed. Everything that can go wrong expensively is in the
orchestration: two runs on one project, a budget that is checked by threads that
spend it, a state file that several writers rewrite, a run that dies between two
writes. This directory holds TLA+ modules of that orchestration, the TLC
configurations that check them, and proofs that TLAPS checks.

Paths below are relative to `src/src/superpower_workflow/` unless they start
with `docs/`, `README.md` or `CHANGELOG.md`.

Run one check or one proof from this directory:

    tlc -workers 2 -config lock_hazards.cfg MCWorkflowLock.tla
    tlapm WorkflowLockProofs.tla

---------------------------------------------------------------------------

## 1. Inventory

### 1.1 The core: what the models are for

| Component | State | Operations | Talks to |
|---|---|---|---|
| Workflow lock (`state.py:247-464`) | `.claude/.workflow.lock.json` (identity, heartbeat), `.filelock`, `.pid`, one heartbeat thread per run | `acquire_lock`, `update_lock_heartbeat`, `HeartbeatThread.start/stop`, `release_lock`; `sw lock force-clean` (`cli.py:1996-2066`) | the orchestrator acquires in preflight, releases in the `finally` of `run()` and in the signal handler; the file lock is the `filelock` package |
| State file (`state.py:17-246`) | `workflow-state.json`, one lock per path in the process | `load_state`, `save_state`, `_atomic_write` (temporary file, fsync, rename) | orchestrator, phases, parallel workers, `sw drift reset`, `sw breaker reset`, the MCP server |
| Milestone loop (`orchestrator.py:103-727, 844-983, 1841-2001`) | `self.state` (completed, failed, skipped, total, current milestone, phase, step), `consecutive_failures` | construct, preflight, pass over, skip, start, retry, record, announce, break, complete | every other component of this table |
| Cost accounting and run budget (`orchestrator.py:1041-1175`, `runner.py:184-350`) | `_in_flight_cost`, `state.total_cost_usd`, `state.last_budget_alert_pct`, `_in_flight_lock`, `_state_lock` | `_run_claude` (gate, charge, retry), `_accumulate_cost`, `BudgetAlert` | phases and quality loops call it; parallel workers share it |
| Phase pipeline (`phases/*.py`, `quality_gates.py`) | `.workflow-phase.json`, `.gap-report.json`, `.quality-gate-results.json`, `.spec-compliance.json`, `plan_commit_sha` | A plan, B implement, trust-but-verify, C review with fix loops, D push, E CI fix | `_run_claude`, git, the convergence gate, the CI fix loop |
| Parallel waves (`parallel/*.py`, `orchestrator.py:2003-2178`) | waves of milestones, one git worktree and branch per milestone, a thread pool | plan waves, create worktrees, run milestones, merge, prune | the state under `_state_lock`, git |
| Shutdown (`orchestrator.py:733-784`, `runner.py`) | `_shutdown_in_progress`, `_live_children` under `_live_children_lock` | `_handler`: kill children, save, stop the heartbeat, release, `SystemExit` | interrupts the main thread anywhere |
| Circuit breaker (`circuit_breaker.py`, `orchestrator.py:1388-1509`) | telemetry of failures, a window, per-class thresholds, last reset | decide, observe or enforce, reset | reads triage events of the telemetry; ends the loop |
| Cost ceilings (`budget_ceiling.py`, `orchestrator.py:1573-1737`) | rolling windows computed from `RunCompleted` events, `.budget-ceiling.lock` | check at run start, milestone start and phase-E retry | `SystemExit(7)` |
| Failure triage (`failure_triage.py`, `hooks/triage_hook.py`) | none of its own: the telemetry, the audit trail | `on_milestone_failed`: bundle the events of the failed milestone, first matching rule of `RULES`, write `FailureTriaged` | called after the last attempt of a milestone; the breaker reads what it writes |
| Audit trail (`audit.py`) | `audit.jsonl`, a hash chain | append (reads the tail, links, writes), verify | orchestrator and CLI |
| CI fix loop (`integrations/ci_fix.py`, `phases/ci_fix.py`) | latest CI run, attempts | wait for CI, fix, push, wait again | `gh`, `_run_claude` |
| Convergence gate (`hooks/convergence_gate.py`, `validation/gap_validator.py`) | `.gap-report.json`, iteration counter in `.workflow-phase.json` | exit code of the stop hook: let the session end or go on, after invalid gaps are taken off | a hook process of `claude` |
| Telemetry (`telemetry.py`) | `sw-telemetry.jsonl`, one lock | `emit`: the file, then the writer's queue | everything emits; triage, breaker, ceilings, forecasts, dashboards and the sync read |
| Database writer and sync (`db/writer.py`, `db/sync_adapter.py`) | a queue, the uuids of the rows it knows, five tables | `emit`, batches of a thread, `close`; `sw server sync` | the telemetry file, the dashboard's database |
| Drift, calibration, projection (`drift.py`, `calibration.py`, `projection.py`, `orchestrator.py:1177-1325, 1511-1571`) | `state.drift_alerts_emitted_this_milestone`; all else is read from the telemetry | after each phase: `RunCostProjection`, `DriftDetected`; at the end: `EstimateCalibrated` | advice: no decision of the run reads them |

### 1.2 The rest

Spec linting (`validation/spec_linter.py`: regular expressions over a text), the
MCP server (`mcp_server.py`), dashboards and server (`dashboard/`, `server/`:
views), and the command line, onboarding, plugins and integrations. They hold
little state of their own or take no part in the decisions above;
`PROJECT.json` lists each with the reason.

### 1.3 What is hard in this code

* **Threads.** One heartbeat thread; in parallel mode a pool of workers that
  share one `Orchestrator` object, its state, its in-flight counter and several
  fields (`_current_milestone_name`, `state.plan_commit_sha`).
* **Processes.** `sw run`, `sw resume`, `sw lock force-clean` and the commands
  that rewrite the state meet on files under `.claude/` and on the state file.
* **Signals.** The handler runs on the main thread, between any two byte codes,
  and takes locks that the interrupted code may hold.
* **Crashes.** A run may die between a claude call and the save of its cost,
  between the last phase and the record, or holding a lock.
* **Retries.** A call is tried four times, a milestone `max_retries + 1`
  times, and CI fixes are retried, each with money attached.
* **Stale data.** The state is loaded before the lock is taken, saves write a
  copy made earlier, the breaker and the ceilings read old events.

What each component must guarantee, in one line each:

* lock: one owner; the claim names it; a released or dead claim does not block;
* accounting: no cost is lost or counted twice, no attempt starts above the cap,
  every threshold alerts once;
* loop: what is completed stays so and is not run again, dependencies first,
  nothing is skipped without a reason, the reported status agrees with the
  outcomes, every run ends;
* waves: what is recorded as completed is merged; failures and skips hold back
  their dependents as in the sequential loop;
* shutdown: the handler returns, the children are dead;
* breaker and ceilings: they trip on what this project did within the window;
* phases: each report is read by the phase and the attempt it was written for;
  the gate lets a session end on its own merits; the pipeline ends;
* audit: what was verified once is verified for ever, whatever is cut off later;
* database: rows hang together, a run that nobody shares has one row, a sync makes
  up for what the writer lost;
* forecasts: nothing is priced twice or compared with itself, an alert is about
  an exception, and what is called calibrated is.

`PROJECT.json` lists the hazards one by one, each at its line, with the
properties that would catch it or why none does yet.

---------------------------------------------------------------------------

## 2. The modules

| Module | Models | Checked by | Proved in |
|---|---|---|---|
| `WorkflowLock` | the lock files, heartbeats, releases, force-clean | `MCWorkflowLock`: `lock_hazards` | `WorkflowLockProofs` |
| `BudgetGate` | the money: gate, attempts, settlement, alerts, state-file copies, crashes | `MCBudgetGate`: `budget_wave` | `BudgetGateProofs` |
| `LockSpec` | the abstract specification: what the workflow lock promises the runs | implemented by `WorkflowLock`, `MilestoneLoop` and `ParallelWaves` | `WorkflowLockProofs`, `MilestoneLoopProofs`, `ParallelWavesProofs` |
| `OutcomeLedger` | the abstract specification: what a user is promised of the outcomes | implemented by `MilestoneLoop` in `loop_resume` | `MilestoneLoopProofs` |
| `MilestoneLoop` | the sequential run and its resumes | `MCMilestoneLoop`: `loop_resume`, `loop_stale` | `MilestoneLoopProofs` |
| `ParallelWaves` | waves, worktrees, the pool, merges, records, signals and crashes of `sw run --parallel` | `MCParallelWaves`: `waves_resume`, `waves_conflict` | `ParallelWavesProofs` |
| `CostCeilings` | rolling windows over the `RunCompleted` events, and whether one blocks | through `RunGates` | `RunGatesProofs` |
| `CircuitBreaker` | the window of failures and its two rules | through `RunGates` | `RunGatesProofs` |
| `FailureTriage` | the ordered rules that give a failure its class | through `RunGates` | `RunGatesProofs` |
| `RunGates` | the three ceiling gates, bypasses, the triage, the breaker and the reset commands, across runs and crashes | `MCRunGates`: `gates_spend`, `gates_reset`, `gates_breaker` | `RunGatesProofs` |
| `GapValidator` | which gaps of a report are invalid, and duplicates | through `Phases` | `PhasesProofs` |
| `ConvergenceGate` | the verdict of the stop hook on a report | through `Phases` | `PhasesProofs` |
| `Phases` | the six phases of a milestone, the files they hand over, fix loops, strict mode, CI, crashes | `MCPhases`: `phases_resume` | `PhasesProofs` |
| `Records` | telemetry file, audit trail, database writer, sync, and the commands that append beside a run | `MCRecords`: `records_sync` | `RecordsProofs` |
| `Estimates` | the statistics of drift, calibration and projection | through `Forecast` | `ForecastProofs` |
| `Forecast` | when a run makes its forecasts, from which events, and what it compares them with | `MCForecast`: `forecast_runs` | `ForecastProofs` |

The modules are views of one program at different grain. `MilestoneLoop` takes the
lock as one step (`Acquire`: one holder, given up by death) where `WorkflowLock`
has every read and write of a file; both implement `LockSpec` (2.6). It takes a phase as one step with a cost
where `BudgetGate` has every attempt, lock and save. `ParallelWaves` takes a
whole milestone as one step of its worker; its workers are those of
`BudgetGate`, and its save of a worker is `SaveTotal` there. `Phases` opens the phase that
`MilestoneLoop` takes as one step, and leaves the money to `BudgetGate`; `Records`
and `Forecast` look at what a run writes and reads besides its state.

### 2.1 WorkflowLock

State: `claimant` and `fresh` are `.workflow.lock.json` (the identity
`_process_identity` writes, and whether the heartbeat is younger than
`HEARTBEAT_STALE_SECONDS`); `flock` is who holds the lock of the inode that the
path of the file lock names now; `hb` and `hbSeen` are the heartbeat threads and
what their read-modify-write has read; `pc` and `handler` are where each process
is and whether its signal handler is installed or has run; `hazards` is a ghost.

| Code | Action |
|---|---|
| `acquire_lock`, `state.py:341-374` | `TryFileLock`, `Judge` (with `Stale` = `_is_lock_stale`), `Claim` (`_write_lock_meta`), `Sign` (pid file, release of the file lock, `return True`) |
| preflight and `HeartbeatThread.start()`, handler installation | `StartRun`, `FailPreflight` |
| `update_lock_heartbeat` in the thread's loop | `ReadHeartbeat`, `WriteHeartbeat`: two steps, no lock |
| `HeartbeatThread.stop()`: event and `join(timeout=2.0)` | `StopHeartbeat` inside `Finish` and `Signal`; its second branch is a join that times out |
| `finally` of `run()`, `_handler` | `Finish`, `Signal`; after `Signal` the release happens twice (`handler = "ran"`) |
| `release_lock` | `UnlinkMeta`, `UnlinkFlock` |
| `sw lock force-clean` | `ForceClean`, then the two steps of the release |
| a kill; an exit that releases nothing | `Die` |

A pid that was reused carries another start time, so a process is its own
identity. Wall-clock time is one bit per claim (`fresh`), aged by
`HeartbeatAges` at any moment.

**The lock does not exclude unconditionally.** Five things the code permits
break it, and the ghost `hazards` records when one happens: a release unlinks
the file lock's path while an acquirer holds its inode (`state.py:464`); a
heartbeat writes back a claim that was replaced meanwhile (`state.py:377-383`);
the claim of a live but silent process is judged stale (`state.py:302`); a
release removes the claim of another live process (`release_lock` compares
nothing); `stop()` gives up its join and the heartbeat writes later. The
invariants say that mutual exclusion, the claim and the release are right until
one of those five, in any interleaving of everything else: crashes at every
point, failed preflights, claims of dead processes and of other hosts,
force-clean. `SomebodyGetsIn` says that contention never refuses everybody: all
runs are turned away only when a dead process of another host has left its claim
or a force-clean has interfered.

### 2.2 BudgetGate

State: `total`, `alerted` are `state.total_cost_usd` and
`state.last_budget_alert_pct` in memory, `disk` the same two in the file;
`inFlight` is `_in_flight_cost`; per worker `mine` is `my_charged`, `others`
what its gate read, `tries` the attempts of `run_claude`, `pending` what its
calls returned and it has not settled, `copy` a state copied by `save_state` and
not yet written. Ghosts keep the books: `spent`, `unsettled`, `lost`, and what
was counted and spent when the gate read.

| Code | Action |
|---|---|
| `_ok`, `orchestrator.py:1063-1073`: in-flight under its lock, total later and without one | `ReadInFlight`, `DecideGate` |
| one attempt of `run_claude` with its charge callback | `Attempt` |
| `finally` of `_run_claude` | `HandOff` |
| `_accumulate_cost` | `SettleNothing`, `AddToTotal`, `SaveTotal`, `NoAlert`, `RaiseAlert`, `Emit` |
| callers that settle after several calls (coverage, strict and CI loops) | `BatchMax > 1`: `StartCall` from "returned" |
| callers that drop the cost of a call whose result they cannot use | `Discard` |
| `save_state` of a phase: copy, then the path lock, then the write | `CopyState`, `WriteCopy` |
| death and `sw resume` | `CrashAndResume` |

Money is counted in units: an attempt costs `0 .. MaxCost`. The thresholds are
the code's 50, 75, 90 and 100 per cent.

### 2.3 MilestoneLoop

State: `disk` and each run's `mem` hold completed, failed, skipped and total;
`want` is the selection (`--milestone`, `--from`), `at`, `current`, `phase`,
`attempt`, `strikes` are the control of `run()` and `_run_milestone`; ghosts
count how often a milestone went through all phases and was announced.

| Code | Action |
|---|---|
| `__init__`: `load_state` before any lock | `Construct` |
| `acquire_lock` and `_preflight_checks` | `Acquire`, `Preflight`, `FailPreflight` |
| run-start ceiling | `EnterLoop`, `BlockRunStart` (releases nothing) |
| filter and skip rule, dependencies, budget, start, milestone ceiling | `PassOver`, `SkipMilestone`, `BreakOnBudget`, `StartMilestone`, `BlockInLoop`, `EndLoop` |
| `_run_milestone`: phases, `_PhaseError`, retry | `PhaseSucceeds`, `PhaseFails`, `Retry`, `GiveUp` |
| record, then announce; fail, then strike, then breaker | `RecordCompleted`, `Announce`, `RecordFailed`, `Trip`, `GoOn` |
| `_completion_notification`, `finally` | `Complete`, `Close` |
| handler, other exceptions, death | `Signal`, `Raise`, `Crash` |


Only phases A, B and C look at the error flag of their result; in the others a
failed call goes on to the next phase, as in the code. The breaker's decision is
free where it is class-aware (`"enforce"` may trip at any failure) and exact
where it is the legacy tripwire (`"off"`: three consecutive failures).

### 2.4 ParallelWaves

State: `disk`, `mem` and `lock` as in `MilestoneLoop`; per run `left`, `wave`
and `stage` are the waves to come, the present one and its futures, `todo`,
`half` and `exit` the loops over worktrees and where they lead; `tree` and
`branches` are what git has under `.worktrees/` and `sw-parallel/`. Ghosts say
which work is on HEAD (`main`) and in the base of each worktree (`base`), whose
merge failed, whose worktree or branch git failed to make or to remove
(`stuck`), what was finished, and who was signalled.

| Code | Action |
|---|---|
| `ParallelPlanner`, `DependencyGraph`: completed milestones dropped, unknown dependencies refused, waves by `depends_on` | `Begin`, `Ready` |
| `_run_parallel`, the head of its loop | `Runnable`, `SkipWave`, `StartWave`, `Complete` |
| `execute_wave_isolated`: worktrees, pool, merges, `finally` | `CreateTree`, `FailCreate`, `OpenPool`, `ClosePool`, `EndMerges` |
| `run_fn` in a thread of the pool | `StartWorker`, `WorkerSaves`, `WorkerSucceeds`, `WorkerFails` |
| `WorktreeManager.merge`, with its conflict and its timeout | `MergeBranch`, `FailMerge`, `RaiseInMerge` |
| `WorktreeManager.remove`: two git commands, whose return codes nobody looks at, and either of which may time out | `RemoveTree`, `DeleteBranch`, `RaiseInRemoval` |
| the end of a removal; `cleanup_all` over what `list` returns | `EndRemoval` |
| the record under `_state_lock` | `RecordWave` |
| the handler: `SystemExit` waits for the pool | `Signal`, state "drain", `CloseDrain` |
| other exceptions, death | `Raise`, `Crash` |

A merge that fails for a reason other than a conflict is a `FailMerge`. Every git
command may fail for a reason of its own, at most `Slips` times: `git worktree
add -b` before it made anything, after it made the branch, or after both
(`FailCreate`); `git worktree list`, which then counts as empty (`EndRemoval`);
`git worktree remove` and `git branch -D`, silently or by their timeout, whose
exception goes on to `cleanup_all` and, if it comes from there, out of the run
(`RaiseInRemoval`); `git merge` by its timeout (`RaiseInMerge`). git refuses to
delete a branch that is still checked out in a worktree (`DeleteBranch`). The
planner's waves are not stored: the next wave is `Ready`, which depends only on
what is left, as the code settles all waves from `depends_on` before the first.

### 2.5 RunGates, with CostCeilings, CircuitBreaker and FailureTriage

The three small modules hold pure functions as operators, without state:
`WindowSpend` and `Blocked` (`load_window_spend`, `evaluate_ceilings`), `Streak`
and `RuleMatched` (`circuit_breaker.evaluate`), `Classify` (`classify_failure`
over `RULES`). `RunGates` is the state machine around them. Its state: `ledger`
(the `RunCompleted` events), `log` and `triaged` (what the triage reads and the
last it wrote for each milestone), `checkpoints` (of the configuration), `file`
and `mem` (the state file and the run's state, with the breaker's window), `cli`
(the copy `sw breaker reset` holds between its load and its save), and the run's
place, milestone, attempt and projection. Ghosts say what was really charged and
when (`charged`, `reported`) and which failures the breaker was told of
(`history`, `failures`, `matched`); `lost` and `clobbered` remember that a
window of failures was not saved or a reset wrote over a newer state.

| Code | Action |
|---|---|
| `run()` up to the run_start gate | `StartRun` |
| the loop, the filter by outcome, the budget, the milestone_start gate | `PassOver`, `EndLoop`, `StartMilestone` |
| an attempt, with its cost and what it leaves in the telemetry | `Succeed`, `Fail` |
| the phase_e_retry gate | `Retry` |
| `_triage_milestone_failure`, the record, `_evaluate_circuit_breaker` | `Triage`, `RecordFailed`, `Evaluate`, `NoBreaker` |
| `_completion_notification` | `Complete` |
| `_check_cost_ceilings` at each gate: the event, the bypass, the exit | `Gate` |
| `sw budget reset`, `sw breaker reset` (load, then save) | `BudgetReset`, `LoadForReset`, `SaveReset` |
| death; time | `Crash`, `Tick` |

Time is counted in ticks, and the windows are some ticks long; what matters is
that an event is inside, at the very edge or outside. Every audit entry is in the
bundle of its milestone: the code leaves out those whose number exceeds the
anchor's among the telemetry events (`hooks/triage_hook.py:79,99`), and such an
attempt is one that left a signal less. A signal of the triage is
a type of event, a run and a milestone: what a predicate looks for inside an
event is left out, and so is a confidence above the floor. A projected cost is a
fraction, as the code divides by the milestones left. An attempt is one step,
since neither the gates nor the breaker look inside; the lock is taken as given.

### 2.6 LockSpec and OutcomeLedger

`LockSpec` is what is left of the lock when its files are forgotten: the runs of a
project work one at a time, each once, and whoever is refused, through or dead
does not come back. `WorkflowLock` implements it with the program points of its
processes as turns, as long as none of the five hazards has happened
(`KeepsLockBarHazards`); `MilestoneLoop` with the places of its runs, whether or
not they overlap (`KeepsLock`); `ParallelWaves` as long as no run was signalled
(`KeepsLockUnsignalled`), since the handler releases the lock while the pool
goes on. So the one step by which the last two take the lock stands for all that
the first has of reads and writes. A refusal is possible at any time in all
three: in `acquire_lock` the file lock of a competitor or the claim of another
host refuses a run although nobody works.


`OutcomeLedger` is what `sw run` promises of the outcomes of a workflow, without
runs, retries or files: what is completed stays completed; no milestone gets
completed or failed while one it depends on is failed or skipped; and only such a
one is skipped. Whether a failed or skipped milestone is ever tried again is left
open, as the repository has it both ways: `docs/cookbook.md:72-93` lets `sw
resume` recover a failed milestone, and the sequential loop passes over it
(`orchestrator.py:497`; section 5). `MilestoneLoop` instantiates the ledger with the outcome
that the state file records (`RecordedOutcome`); `KeepsLedger` is that
refinement. It holds of runs that do not overlap. Parallel mode does not
implement it: there a skip holds back nobody (section 5).

### 2.7 Phases, with ConvergenceGate and GapValidator

State: the milestone, its attempt and the saved outcomes; the place in the
pipeline (`pc`), the attempt of the present claude call, `ok` and the loop
counter; the files under `.claude/` that phases and hook hand to each other
(`phaseFile`, `gapFile`, `gateFile`, `specFile`), each with who wrote it;
`planSha`; `remote`, which is git and the latest CI run. Ghosts say on which
numbers the last session ended and whether a dead run left a report behind.

| Code | Action |
|---|---|
| `PhaseA.run`, `PhaseC._run_review`: phase file, session, events, archive, clear, and only then the verdict | `OpenPlan`, `OpenReview`, `Veto`, `ClosePlan`, `CloseReview` with `Clear` |
| the session: claude writes a report at any time, stops, is sent on by the hook, fails and is called again | `WriteReport`, `Stop`, `AttemptFails` |
| `compute_exit_code`, `_is_stuck`, `_increment_iteration` | `Why`, `IsStuck`, `Increment` of `ConvergenceGate`, within `Stop` |
| `validate_gaps` over a cached lint result, files, lines and symbols | `Invalid` of `GapValidator`, within `Why` |
| the gap curator; the event that fails on a report that is no object | `Curate`, `EmitRaises` |
| phase B, the checkpoint after B and C with its fixes, policies, coverage | `Implement`, `Gates`, `Policies`, `Fix`, `Coverage` |
| trust-but-verify and the strict loop, which repeats it | `Comply`, `Verify`, `StrictLoop` |
| phase D; phase E: wait, fix, push, wait again | `Push`, `WaitForCI`, `FixCI`, `Finish` |
| `_PhaseError`, retries, a dying process | `FailAttempt`, `Crash` |
| GitHub's CI | `CIRuns` |

A gap is a topic, the places it names and the tool it cites; that two texts are
similar or that a symbol is in a file is a relation given as a constant. What
claude writes, commits or pushes is free.

### 2.8 Records

State: the two files as sequences of lines, of which the last may be half a line;
the step of the live run in the fixed order of its records; the end of the audit
trail that the run (`trail`) and each command (`loaded`) has read; the queue of
the run's database writer, the batch it has taken and the rows it knows; the
tables; for each command, what its sync has read (`sync`) and what its transaction
is about to commit (`filed`). An entry of the audit trail is the number of the
entry whose hash it goes on from. Ghosts: `fresh` (a sync has read all there is),
`refused` (the events whose rows the database refused since), `shared` (the runs
that more than one of a live run and the syncs were filing), `broken` (how much of
the trail preceded its first mishap).

| Code | Action |
|---|---|
| the records of a run in their order, which `Script` lists | `Start`, `Emit`, `Load`, `AppendEntry`, `Close` |
| `TelemetryEmitter.emit`: the line, which an `OSError` loses or cuts in two while the run goes on; then the queue, which drops what it has no room for | `Emit` |
| `_flush_batch`: take, then commit or roll back | `TakeBatch`, `CommitBatch`, `LoseBatch` |
| `_write_event`: rows by uuid, adopted or new, finished by their last event | `WriteEvent` and its parts |
| `AuditTrail.verify` | `Verified` |
| `sw server sync`: read the file; one transaction over all events, each event row in a savepoint of its own; commit, or roll back | `SyncRead`, `SyncFile` with `SyncEvent`, `SyncCommit`, `SyncFails` |
| `sw budget reset`, `sw breaker reset`: load the trail, append later, or die in the line | `AuditLoad`, `AuditAppend`, `AuditTear` |
| `sw lint-spec` | `LintSpec` |
| death, between two lines or within one | `Crash`, `CrashInLine` |

Any number of syncs may be under way. A transaction sees what was committed when
it began to write, and others see its rows when it commits: `SyncFile` computes
the rows, `SyncCommit` merges them into what is there by then (`Merge`: rows are
added, and none that is done is opened again). Between two looks of one
transaction others may commit; the model has one look, so a sync sees one state of
the tables. The query for a run's row is not ordered, and which of several rows it
returns is free (`pick`). A sync that is refused the row of a run, a milestone or
a phase fails as a whole, one that is refused an event row leaves it out and
commits (`Refusable`). The row of the project, which a sync makes first, is taken
to be there.

### 2.9 Forecast, with Estimates

`Estimates` has the statistics as operators over the events of the telemetry:
`Severity` (drift), `Tiers` (calibration), `Project` (projection). Amounts are
integers and `log1p` is a piecewise-linear stand-in, `Scaled`; a z-score is
compared with its threshold by multiplying out, so that no root or division is
left; percentiles and moving averages are fractions. Where the average equals an
end of its band, the floats of the code find it on either side, and `Tiers` has
both outcomes. Bands and projections are compared and counted, never turned into
money.

`Forecast` is the run around them: `log` (the telemetry), `state` (outcomes, what
was spent, the alerts of the attempt), the place of the run, and the last
projection, alerts and estimate. Between runs `workflow.json` may be edited.

| Code | Action |
|---|---|
| `run()` | `StartRun`, `Skip`, `StartMilestone`, `Retry`, `GiveUp`, `EndRun` |
| one turn of the phase loop: the event of the phase, the projection, the drift, in that order | `RunPhase` with `Report`, `EmitRunCostProjection`, `EmitDrift` |
| `_PhaseError` | `FailPhase` |
| `MilestoneCompleted`, stamped with a model | `CompleteMilestone` |
| `_emit_estimate_calibrated` | `EmitEstimateCalibrated`, within `EndRun` |
| death | `Crash` |

---------------------------------------------------------------------------

## 3. The runs

| Run | Instance | What it shows |
|---|---|---|
| `lock_hazards` | two runs, a force-clean, an old claim of a dead process of this host or of another, ageing, abandoned joins, signals | exclusion, claim and release bar the five hazards, and that a dead run never blocks its host (about 0.2 million states) |
| `budget_wave` | two workers, cap 3, attempts of 0-2, two attempts per call, settlement after one or two calls, discarded results, failing and late saves, one crash | `CostsConserved`, `GateCountsBothCounters`, `NoAlertMissed`, `AlertsOnceBarRollback` (about 2 million states) |
| `loop_resume` | two runs, one after the other, over a chain of three milestones and two independent ones; all or only the last selected; two attempts each, a budget that one cost spends, ceilings, the class-aware breaker disabled, signals, exceptions, crashes, fair scheduling | dependencies first, finished once, announced from the record, three consecutive failures end the loop, every run ends, and the loop implements `OutcomeLedger` (about 1.5 million states) |
| `loop_stale` | two runs, one milestone, overlap | **violated**: a run constructed while another finishes a milestone keeps the state it loaded before it took the lock, and runs the milestone again (`orchestrator.py:139`) |
| `waves_resume` | two runs over `a`, `b` and `c` (`c` depends on `a`), all or all but `a` selected, two workers, conflicts, one git command that fails or hangs, exceptions, a signal per run, crashes | no worker starts on a failed or pending dependency, it has the work of its completed dependencies, only a failed merge loses recorded work, nobody removes a worktree under its worker, runs that end by themselves leave nothing behind but what git itself failed at, finished once (about 2.2 million states) |
| `waves_conflict` | one run, conflicts, no faults | **violated**: a milestone whose merge conflicts is recorded as completed and its branch deleted (`parallel/executor.py:78`) |
| `gates_spend` | three runs of one or both of two milestones, two attempts each, bypasses, crashes and a reset at any time; a day of one tick (ceiling 2) and a week of two (ceiling 4) | what was charged since the last reset of a window and before a run last reported is counted in that window, crashed and blocked runs included, and bars every attempt once it reaches a ceiling (about 6 million states) |
| `gates_reset` | two runs of one milestone, a daily ceiling of 1, one reset | **violated**: after `sw budget reset` the run_start gate still objects on account of a run that completed before the reset, since the checkpoint is written under `day` and looked up under `daily` (`budget_ceiling.py:360`, `cli.py:1845`) |
| `gates_breaker` | two runs of three milestones, an enforcing breaker, failures with and without evidence, triages that come to nothing, a bypassed ceiling, crashes, a reset of the window | no milestone begins after the threshold of confident failures of one class, nor after three of any; the same-class rule matches only such back-to-back failures, for a class that the triaged run showed (about 2 million states) |
| `phases_resume` | two milestones with a retry each, two iterations of the hook, two calls per session, validation and strict mode on, reports that are no JSON, no object, one critical gap twice, or a real gap among invented ones; one crash | who wrote what a phase reads, what was handed over, what a converged gate and a green CI mean, and that the pipeline ends (about 0.25 million states) |
| `records_sync` | two runs, with an audit trail, or with a database writer for the first of them, a queue of two; two commands at a time, two mishaps or commands (syncs, refused events and transactions, resets, lint, lines lost or cut in two) | the audit verifies up to its first mishap, no orphan rows, one row per run and milestone unless a sync met the run alive or another sync, and once a sync that read everything has committed the rows say all that the file says but the refused events (about 2.7 million states, with symmetry of the commands) |
| `forecast_runs` | two runs over `a` and `b` (which depends on `a`), of which `a` may be edited out in between; three phases, one of which may need costly fixes; a new project, fifteen milestones of history, or five and two that are too old; retries, a budget of 20, crashes, `--model` | each unpaid milestone is priced once but for the two named exceptions, what an alert is about is as bad as one earlier sample in five, ten or seventeen at most, by its severity, a warm band holds below eight samples that are not all alike, calibration is against runs with nothing left to do (about 0.4 million states) |

**Why the bounds are enough.** Every hazard of the lock needs one process that
is releasing, beating or being judged and one that acquires; force-clean is the
only other kind of actor. The gate of a wave needs one worker that reads and one
that moves cost; a cap of three with attempts of up to two is reached by two or
more attempts and can be stepped over, and each of the four thresholds is
crossed alone or together with others. A chain of three milestones has a
transitive dependency, and two runs are one death and one resume. With two
milestones that depend on nothing besides that chain, three can fail in a row.
In `ParallelWaves` two milestones share a wave and one waits for the next, and
the second run finds whatever the first left of worktrees, branches and records.
One git command that fails (`Slips`) can leave behind each of the things that
git can leave behind; the proofs are for any number. In `RunGates` an event can
be inside, at the edge of and outside a window of one tick within three, a first
run leaves spend and a second one meets it, and a third finds what a crash and a
reset between them left; three milestones are the fewest on which two failures
of one class are followed by a milestone that must not begin. In `Phases` a
second milestone, a second attempt and a run after a crash are the three kinds
of successor that may meet an old report; two iterations of the hook are one
that is sent on and one that may be stuck or capped. In `Records` a queue of two
is filled by a milestone's events; two commands are two overlapping syncs or two
processes that have loaded the trail; and two events are any pair of a sync, a
refused row, a lost batch, a lost or torn line and a reset, in any order. The
first run alone has a writer: the second shows what a sync makes of a run that
nothing filed. In `Forecast` the constants of the code are kept (a floor of 15
samples, warm from 5, a cap of 200) and the histories are placed around them:
none, five with two that are out of date, so that two runs make six to nine, and
fifteen, with which a drift can be seen. `MaxEvents`, `MaxRuns`, `MaxResets` and
`Horizon` bound the runs, commands and ticks. `MaxSpend` and `MaxCrashes` bound
only the exploration: no property mentions them, and the proofs hold for all
their values. TLC uses symmetry only in configurations without liveness; in
`loop_resume`, which has some, an action constraint has the two interchangeable
runs begin in order.

**Deadlock** is checked in `phases_resume`, where only the end of all milestones
may stand still, and in `budget_wave`, where a worker can always act (a state in which every attempt is at the
exploration bound still lets a phase save or the process crash, or the other
worker settle). The other configurations say `CHECK_DEADLOCK FALSE`: their runs
end.

**Fairness.** Two runs assume any: `loop_resume` weak fairness of `Step(r)` for
every run, and `phases_resume` weak fairness of `Driver`, which is that the
process is scheduled and that its calls return. The code justifies it:
`claude -p` runs under a timeout and is killed (`runner.py`), retries sleep for
bounded times, git and test commands have timeouts, waiting for CI has a
deadline, and the lock is taken without blocking. Nothing is assumed of signals,
exceptions and crashes, of what claude writes or pushes, or of GitHub's CI,
which may never answer.

**Types.** The type invariants of all modules are theorems (section 4), and that
of `Phases` is also checked by its run.

---------------------------------------------------------------------------

## 4. The proofs

All theorems are `Spec => []P`, `Spec => [][A]_vars` or that a specification
implements an abstract one, for every value of the constants, under the assumptions named in the modules (`LockAssumption`,
`BudgetAssumption`, `LoopAssumption`, `WavesAssumption`, `PhasesAssumption`,
`GatesAssumption` and so on: sets are disjoint, bounds are naturals, at least one
process). Three theorems have a hypothesis of their own, `CountsAreOfGaps`,
`~Conflicts` and `DiversityThreshold <= DiversityWindow`, explained below.

**WorkflowLockProofs.** The invariant `IInv` of mutual exclusion is stated under
`hazards = {}`, as all of it may be lost afterwards: an acquirer between `judge`
and `sign` holds the file lock (so there is one); from `sign` until the release
the claim names the process; a heartbeat that is about to write has read the
claim of its own process, and its process has not released; a claim that names a
process of this model is of one that has not released. Mutual exclusion alone
is not inductive: `Judge` admits a process because the claim it reads is absent
or stale, so the owner's claim must be on disk, and for that no heartbeat and no
release may be about to overwrite it. Theorems: `TypeCorrect`,
`ExclusionUnlessHazard`, `ClaimUnlessHazard`, `ReleaseLeavesNothing`.
`ContentionAdmitsOne` has an invariant of its own, `Contention`, which needs
neither exclusion nor the absence of hazards: as long as nobody has claimed, the
claim on disk is the one the first run found, so who is refused by the file lock is
refused by a run that still judges, and who is refused by the claim has found that
of a process on another host, which nobody here can see die. `FilesMakeALock`
says that all these files implement `LockSpec` until a hazard: with `IInv`, the
step that begins to work is `Sign`, whose process has its claim on disk, so that
no other can work; every other step goes on with the same turn or ends it.

**BudgetGateProofs.**
* `CostsAreConserved`: conservation is inductive with the types.
* `GateBinds` (invariant `GateInv`): between the two reads of the gate,
  `total` only grows, and what the gate saw of in-flight cost is what it
  counted, so a cap that was reached at the first read is reached at the second.
* `SoleWorkerStaysNearCap` (invariant `SoleInv`): with one worker that settles
  call by call, in-flight cost is its own, so below the cap by the gate before
  each attempt.
* `AlertsAtMostOnce` and `EveryCrossingAlerts` (invariants `AlertInv`,
  `CrossInv`): a threshold that was emitted or is about to be is at most
  `alerted`, one worker at most is about to emit each, and as long as no write
  was lost or rolled back the file remembers what memory does.

**MilestoneLoopProofs.** Three invariants over any workflow, with overlapping runs
included, and a fourth for runs that do not overlap.
* `OutcomeInv`: every state, in memory or in the file, is `Consistent` (no
  milestone in two lists, nothing skipped where nothing failed), and what a run
  works on has no outcome yet. `OneOutcome` alone is not inductive: that a
  milestone gets an outcome only when it has none must be carried from its start
  through all its phases and retries. Theorems `OneOutcomeEach`,
  `CompleteIsHonest` (the status looks only at `failed`; that nothing is skipped
  either follows from `Consistent`).
* `OrderInv`: preflight has found each dependency earlier in `workflow.json` or
  completed, and what the loop has passed is settled as far as it was asked for;
  a dependency that is settled and not bad is completed. Theorem
  `DependenciesComeFirst`.
* `StrikesInv`: theorem `ThreeStrikesEndTheLoop`.
* `SerialInv` (`~Overlap`): one run is active, its state is the file's, and what
  is finished is recorded, forgotten or about to be recorded. Theorems
  `FinishedAtMostOnce`, `AnnouncedAsRecorded`, `CompletedForEver`; `loop_stale`
  shows that they need `~Overlap`.
* `RunsKeepTheLedger` (`~Overlap`): the specification implements
  `OutcomeLedger`, by the step simulation `LedgerStep` under `SerialInv`. A step
  that does not touch the three lists stutters; each of the three that do
  (`SkipMilestone`, `RecordFailed`, `RecordCompleted`) settles one milestone that
  is not on the list of the completed, and `HopelessMeansBad` relates the guard of the loop, which
  looks at what the run has in memory, to that of the ledger, which looks at the
  recorded outcomes. The overlapping run of `loop_stale` does not keep the
  ledger: it takes back what another run has recorded.
* `RunsTakeTurns`: runs keep `LockSpec` even when they overlap, so what
  `loop_stale` shows is not that two work at once but that the second loaded its
  state before its turn.

**ParallelWavesProofs.** For any workflow, any number of runs, one at a time, and
any number of workers. `Planned` says of each run where its futures, worktrees
and merges can be at each point of a wave.
* `DependenciesSettleFirst` needs no more than that: a wave is `Ready`, and its
  runnable part leaves out what depends on a failure.
* `Merges`: what is recorded, or was merged or failed to merge in this wave, is on
  HEAD or in `unmerged`, and each worktree was created from a HEAD that had all
  that its milestone depends on. Theorems `WorktreesAreBuiltOnWork`,
  `OnlyConflictsLose`.
* `Serial`: as long as nobody was signalled, the run at work holds the lock, its
  outcomes are the saved ones, and the worktrees it uses are its own. Theorem
  `WorkersKeepTheirTrees`; the pool that survives a signal is why it says
  `signalled = {}`.
* `UnsignalledTakeTurns`, from `Serial`: until a signal parallel runs keep
  `LockSpec`.
* `Counting`: theorem `FinishedOnceUnsignalled`.
* `Clean`, under `Calm` (no signal, nobody died): what there is of worktrees and
  branches, and is not `stuck`, is what the run at work uses or has still to remove
  (`Owned`), also between the two git commands of a removal; between two runs
  there is none. A milestone is `stuck` from the git command that failed for it, or
  that a timeout kept from being tried, until its branch is deleted after all: a
  branch without a worktree is stuck or is about to be deleted (`Holds`), which
  is what `cleanup_all`, which sees worktrees only, needs. Theorem
  `RepositoryIsLeftClean`.
* `MergedWithoutConflicts` (`Intact`): the violation of `waves_conflict` needs a
  conflict, or a signal whose pool goes on beside the next run; without either
  every merge finds its branch, and what is recorded is on HEAD.

**PhasesProofs.** `Shape` adds to the types that the pipeline is at a step its
phase has, and that every file has one of the forms its writers give it; `Handing`
says, for every step, who wrote what lies there and what was pushed.
`GapReportIsOwn` is not inductive alone: between a session's first attempt and
its archive the file may be absent, its own or, after a crash, anybody's, and which
of them depends on what the previous phase cleared. Theorems `PhasesTyped`,
`ReportOfTheSession`, `ReportOfTheAttempt`, `HandedOverAlways`,
`GreenIsOfEverything`. `ConvergedMeansDone` assumes `CountsAreOfGaps`: the numbers
in a report are those of its gaps, of which there are at most six. The hook takes
the numbers on trust, so that without it claude may simply write another number,
and six is what `FallShort` of the model covers (see section 5 on `int()`).

**ForecastProofs.**
* `TypeCorrect`: every line of the telemetry is an `Event`, whoever wrote it.
* `CalibratedOnlyWhenDone` (`Calibrating`): skipped milestones imply failed ones
  (`Excused`), so that a run without failures has nothing left but what the budget
  took.
* `ProjectsEachOnce` (`Pricing`): the projection on show was made at the end of the
  phase before, for the phases ahead, and the number of outcomes has not
  changed since. The counting is about the cardinality of the settled milestones,
  among them some that `workflow.json` no longer has.
* `AlertsAreExceptions` (`Drifting`): an argument over all samples. If k of n samples
  are as far from the mean as the observation, the sum of squares is k times the
  square of that distance at least; a z-score of 2, 3 or 4, or a multiplied-out
  form of it, then leaves k below n/5, n/10 or n/17 (`Rarity`), also when the
  sigma is clamped.
* `WarmHolds` (`Banded`): an argument over all sequences of two to seven samples. The
  tenth percentile is the lowest value and (n - 1)/10 of the gap to the next
  (`TheLow`, `TenthAndNinetieth`). The average has covered n tenths of that gap where the
  lowest value comes first, and seven where it comes later (`Covers`, `AboveTheLow`),
  which is more for n up to 7. The ninetieth is the same with the signs changed
  (`BetweenTheEnds`). With eight samples the bound is met, and
  rounding decides.

**RunGatesProofs.**
* `TypeCorrect`.
* `StopsOnEvidence` (`Evidenced`): the class on record for a milestone is that of a
  rule which saw a signal of that run or the message, and signals are never taken
  back; the same-class rule needs a confident class, and only rules give one.
* `StopsForRepeats` (`Kept`): unless a window was lost, the window of the run, or
  that of the file between runs, is the end of the history of failures since the
  last reset. The streak that `same_class_repeat` counts in the window is then one of
  the history.
* `RepetitionStopsTheRun` (`Below`) assumes
  `DiversityThreshold <= DiversityWindow`. The code has 3 and 5 and compares the two
  nowhere (`circuit_breaker.py:147-148`): with a smaller window the second rule can
  never match, so the hypothesis is necessary.
* `SpendIsCounted` (`Counting`): the total in the file is the sum of all charges, of
  crashed runs too, so the last report alone tells at least all that was charged
  when a run last reported (`Reports`). If that report is in the window it covers
  what falls in the window, and a part of that since the last reset all the more;
  if it is not, nothing that was reported is either. A state that `sw breaker
  reset` writes back breaks the first step (`clobbered`). The second needs no
  report to be excluded by a checkpoint: `Keyed` says that the keys the gates
  read are never written. It is the flaw that `gates_reset` shows, and a correct
  reset would need the step for the reports after it only.
* `CeilingsHoldAttempts`: an action property, from the same invariant; the gate of
  a retry uses the projection of the first attempt, which is a fraction with a
  positive denominator, and that is all the proof needs.

**RecordsProofs.** For any number of runs, any queue, any set-ups, any number of
commands under way and of mishaps. The invariants are `TypeOK`, `Chain`, `Rows`, `Tale`
and `Undisturbed`.
* `AuditsVerify` (`Chain`): up to the first mishap each entry goes on from the line
  before it, the last line is whole, and whoever has loaded the trail, the run or a
  command, goes on from its end. What is intact when the first mishap happens is not
  touched after it, as both files are only ever appended to.
* `RowsHangTogether` (`Tabled`, `Knows`): every id in a table is below the next
  one, and what the live writer knows is a row of the run it writes for. That is
  what the rollback keeps and what `LoseBatchKeepingRows` destroys. A commit merges
  two sets of rows each of which hangs together, and no row is ever deleted.
* `RowsAreSingle` (`Once`, `Numbered`, `StartsFirst`, `Alone`, `Overlaps`,
  `Filings`): uniqueness is not inductive by itself. The writer adds a row for a run
  blindly, so there must not be one: `run_started` is the first event of a run and
  is in the queue, in the batch or filed, never twice (`StartsFirst`), rows are about
  runs that have begun (`Numbered`), and as long as no sync has met the live run, no
  sync has an event of it and no table a row that its writer does not know
  (`Alone`). A sync adopts the row it finds before it makes one, whichever of
  several rows the database returns; but it looks at what was there when it began.
  Two syncs at once share every run they have read of (`Overlaps`), so that for the
  other runs nobody else commits in between: what a sync is about to commit and
  what is there by then differ only in rows of its own runs or of shared ones, and
  an id belongs to one row whoever is about to commit it (`Filings`, of `Apart` and
  `Agree`). Hence the merge of the two is single as well.
* `SyncsAreComplete` relates the telemetry file to the tables, through the fold of a
  sync over all it has read. `Tale` says of the file that, if the start of a run can
  be read, it comes before every other line of that run, and the start of a
  milestone before its end (`InOrder`), although any line may be lost or torn: lines
  are never moved. A reader that leaves out what it cannot read keeps that order
  (`ReadableTells`). One event adds to the rows and takes nothing back (`Adds`,
  `Onward`), so that after k events the rows say what the first k tell
  (`SyncAllTells`), in whatever state the writers left them. `Complete` is the
  property for given lines, tables and refused events: it is kept by any commit
  of another sync (`CompleteOn`) and by further refusals, which only weaken it.
  `Undisturbed` says that no row of a run lacks its first event, which a sync does
  not add to a row it adopts and everybody commits together with the row, and
  that while `fresh` the tables are complete or some sync that has read the whole
  file is `Catching` up. When that one commits, the tables are complete; when any
  other sync under way commits, the tables or the one that catches up lose nothing.

**Data.** Sums, counts and streaks are defined by recursion in the community
modules or as recursive functions. The induction theorems of the library cannot be
used, but well-foundedness of the naturals can: `Smallest` takes the least element
of a set of naturals, and `ByInduction` is a consequence. With these, the modules
prove what their properties need of `Total`, `Latest`, `Chosen`,
`SumFunctionOnSet` and `Streak` for every input (`SumTakesAny`, `SumIsLess`,
`SumAfterCharge` and the like). `FoldLeft` is unfolded in the same way
(`FoldExists`, `FoldReaches`): a batch and a sync file their events one by one, and
an invariant of one step is one of the whole (`FoldOfBatch`, `FoldOfSync`,
`FoldOfReading`). The k-th smallest value is defined by how many are below it
(`Ranked`) and not by sorting, as the provers cannot expand `SortSeq`.

**Only model-checked**: liveness (`EveryRunEnds`, `PipelineEnds`), which is beyond
this prover together with `ENABLED`. Every other property of a passing run is
stated by a theorem.
`SoleWorkerNearCap`, `OneOutcome`, `CompleteMeansNoFailure`, `CompletedStays` and
the three implementations of `LockSpec` are theorems and have no run of their own.

---------------------------------------------------------------------------

## 5. Divergences met while modelling

The three violation runs of section 3 are listed as findings in `PROJECT.json`.
Others were met and have no run of their own:

* `release_lock` unlinks the file lock's path under an acquirer
  (`state.py:464`), and force-clean lets go of the file lock before it deletes
  (`cli.py:2054`, against its own comment at `cli.py:2020-2022`): hazard "inode
  unlinked".
* A heartbeat that is still writing after the two-second join brings a released
  claim back (`state.py:430`, against `orchestrator.py:460-462`): hazard "join
  abandoned".
* The run-start ceiling raises `SystemExit(7)` before the `try` whose `finally`
  releases (`orchestrator.py:415`, `:432`): the lock stays until its process is
  seen dead.
* The signal handler releases the lock and raises `SystemExit`, and the `finally`
  of `run()` releases it again (`orchestrator.py:775`, `:718`): the second
  release deletes the claim of a run that acquired in between. It is the hazard
  "a release removes the claim of another" of `ClaimBarHazards`.
* A milestone in `state.failed` is passed over by every later run
  (`orchestrator.py:497`), `sw resume` and `sw run --milestone` included, against
  `docs/cookbook.md:72-93`, which offers both as the way to recover from a failed
  milestone. `OutcomeLedger` leaves it open which of the two is meant.
* The coverage and strict loops settle after the loop (`orchestrator.py:2343`),
  and each call has left `_in_flight_cost` when it returns (`:1100`): the gate of
  the next call sees neither, against `runner.py:240-242`. This is why
  `SoleWorkerNearCap` says `BatchMax = 1`.
* The gap curator, the compliance check and the feature verification report a
  cost of 0.0 when they fail after their call (`orchestrator.py:2573`): `lost`
  in `CostsConserved`.
* A phase may write an older copy of the state after `_accumulate_cost` wrote a
  newer one (`state.py:174-176`); a resume then raises a `BudgetAlert` a second
  time (against `telemetry.py:389-391`): the condition of
  `AlertsOnceBarRollback`.
* A loop that breaks on the budget reports `complete` when nothing failed,
  although milestones were not attempted: `CompleteMeansNoFailure` says only
  what the code computes, that nothing failed or was skipped.
* Parallel mode treats skips unlike the sequential loop: a skipped milestone
  holds back nobody (`orchestrator.py:2036` against `:500-504`), so what depends
  on a skipped milestone runs; the skips of a wave of which nothing is left are
  not saved (`:2039-2040`).
* Parallel mode tries again what failed in an earlier run, which the sequential
  loop never does; if it succeeds, the milestone is in both lists, and its
  dependents stay skipped for ever.
* After a signal the pool still runs its queued milestones, without the lock
  (`orchestrator.py:775-781`, `parallel/executor.py:46`): these workers save the
  old state over the next run's and share its worktree paths. The properties of
  `waves_resume` that this would break say `signalled = {}`.
* A death between the two git commands of a removal, or a `git branch -D` that
  fails or times out, leaves a branch that `cleanup_all` does not list
  (`parallel/worktree.py:54`), and with it every later creation of that worktree
  fails; a `git worktree list` that fails leaves all worktrees
  (`parallel/worktree.py:72`): the conditions of `NothingLeftBehind`.
* `WindowAccounting` counts the spend of a resumed run again, as `RunCompleted`
  reports the total of the whole workflow, and does not count that of a killed run
  before its resume reports: `ReportedSpendIsCounted` is a lower bound, for
  reported spend.
* The breaker asks for the latest triage event of a milestone, whichever run wrote
  it (`orchestrator.py:1432`): after a triage that came to nothing it is told the
  class of an earlier failure. `TripIsEvidenced` speaks of the run that was
  triaged.
* `WorktreeMerged` is declared (`telemetry.py:186`) and listed in
  `docs/architecture.md:39`, and nothing emits it; `_in_parallel_worker`, which
  `docs/architecture.md:294-295` names, is set only in a test.
* The breaker's window is assigned, not saved (`orchestrator.py:1478` calls it
  "Persist updated window"): the last failure before a trip or the end of the run
  is not in the file. `TripMeansRepeats` sets those windows aside (`lost`).
* The diversity rule counts failures since the last reset, over all runs, where
  the docstring of `circuit_breaker.py` speaks of the last milestones; its window
  only ever holds failures.
* A ceiling that blocks and is bypassed leaves a `CostCeilingBlocked` without a
  `milestone` field; the bundle of every later failure of that run takes it in,
  and rule 1 classifies it `cost_ceiling_blocked`. `TripIsEvidenced` allows it.
* `--ignore-ceiling` confirmed at the prompt never bypasses: the orchestrator asks
  again with `stdin_is_tty=False`, so only the environment variable counts.
* `StrictModeIteration` carries no `max_iterations`, so that rule 10 of the triage
  never matches an event the code emits; the same holds of rules 3 and 4, whose
  events nothing emits, and of exit code 10 (`docs/architecture.md:182`).
* The gate before a retry asks again with the projection of before the first
  attempt, and windows count completed runs only (`orchestrator.py:565-573`):
  the retries of a run pass the ceiling that its own spend has reached, against
  the comment there.
* `int()` truncates the counts that the gate compares after it has taken a share
  of the invalid gaps off (`hooks/convergence_gate.py:126-127`): a valid critical
  gap may be counted as none. It is the exception in `NoCriticalLeft`.
* Phase A's hook reads the lint result of the previous milestone's review
  (`.quality-gate-results.json` is never cleared), and `validate_gaps` believes it.
* A gap report that is a JSON array makes the hook fail with exit code 1, which
  lets the session end, and `.get` raise in the orchestrator outside any `try`
  (`orchestrator.py:2383-2407`).
* Phase D's result is not looked at, CI is that of the latest run of the branch
  (`integrations/ci_fix.py`, `--limit 1`) and not of the commit, and the driver
  drops `ci_success` (`orchestrator.py:1952-1958`, against `phases/ci_fix.py:12-14`):
  red or green, the milestone is completed.
* Two syncs at once, or a sync beside the writer of a live run, both look for a row
  before they make one, and no column but the project's name is unique
  (`db/models.py:45-130`): a run gets two rows. It is the condition of
  `OneRowPerRun`.
* A sync files every event a second time that the writer has filed
  (`db/sync_adapter.py`), against
  `docs/superpowers/specs/2026-05-25-unified-dashboard-postgres.md:69-71`; with
  `--all` and `--project` it reads `.claude/telemetry.jsonl`, which nothing writes.
* After the last phase of a milestone no phase is left but the milestone has no
  outcome yet: the projection prices it in full once more, and its terminal
  branch (`projection.py:219-236`) is not reached. It is `JustFinished` in
  `PricedOnce`. Outcomes of milestones that were edited out of `workflow.json`
  count against those that are there.
* The baseline of a drift is what the phases' own calls cost (`extra_cost` of
  `_emit_phase_completed` is never passed, against `phases/base.py:78-79`), the
  observation is all the phase cost: a phase that always needs fixes is always
  out of line.
* Drift buckets are named after the configured model, but samples of all models
  are pooled under that name (against `drift.py:12-16`); the list that limits
  alerts is cleared at every attempt (`orchestrator.py:1904-1909`), and each phase
  runs once per attempt, so that it never suppresses one.
* A warm band whose moving average leaves its percentiles is replaced by the
  default table (`calibration.py:264`), and the event still says `warm`
  (`orchestrator.py:1553`). `WarmHoldsBelowEight` says where that begins. Samples that
  are all alike are the exception: 0.3x + 0.7x in floats is beside x for about a third of
  the amounts, so that five equal milestones may be estimated from the default table
  although `n >= 5` is warm (`calibration.py:222`).
* `estimate` reads `.claude/telemetry.jsonl`, which nothing writes, and the
  run-start gate a key that `estimate` does not return (`orchestrator.py:417-432`),
  so that it projects the whole budget. Parallel mode stamps no model
  (`orchestrator.py:2085`): its milestones are never samples.
* The MCP server looks for the key `last_heartbeat`, which the lock never
  writes (`mcp_server.py:543-578`).

---------------------------------------------------------------------------

## 6. Plan

The runs are few on purpose, one per question, and new ones would replace those
that show least.

1. **A run against the lock in `ParallelWaves`**: which milestones two runs can
   work on together after a signal, as a property that says what is lost.
2. **The fields that parallel workers share** (section 7) in `ParallelWaves`.

## 7. Not modelled, and why

* **Shutdown's own locks.** The handler takes `_live_children_lock` and the lock
  of the state path on the main thread, which may hold them at the byte code at
  which it was interrupted. The modules take the handler as one step that gets
  its locks; the deadlock is listed as a hazard without a property.
* **The lock of the ceilings** (`budget_ceiling.py:416-463`). Two preflights can
  both find it stale. What it guards is a reading of completed runs and the event
  of a decision: no later reading counts what is written under it.
* **What parallel workers share** besides state and money:
  `_current_milestone_name` and `plan_commit_sha`. `Phases` has one milestone at a
  time.
* **Amounts of money in the forecasts**: the widths of bands, the error ratio,
  the confidence of a projection; the per-milestone drift metrics, which the
  orchestrator never assesses; `sw drift --reset`.
* **Text**: the spec linter, the patterns of the triage, prompts and their
  context, policies and the security scan are lists of expressions over texts,
  and a model of them would be those lists again. Where a result of theirs decides
  something, it is free or a constant relation.
* **Views**: dashboards, server, GitHub and tracker calls, the MCP server's
  readers. They display or copy what the modelled parts produced.
* **In `Records`**: milestones after the first of a run, entries longer than the
  4096 bytes of the trail that are read back, a writer thread that outlives its
  join, a sync that looks at the tables again after others have committed, a line
  that an `OSError` leaves in the buffer and a later flush writes after all (the model
  loses it).
* **Outside the repository**: `claude`, `git`, `gh`, GitHub and the `filelock`
  package appear as the outcomes that the code distinguishes.
