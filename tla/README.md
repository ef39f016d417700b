# A model of async-energy-controller

TLA+ modules for the controller in `hmasync_controller/`: its loop, the client
and the profiler it works with, its store-and-forward queues, the files it
shares with other processes, its writers of the GPU's power limit, and the
benchmark that is shipped with it; the TLC runs that check them on small
instances, and TLAPS proofs, for every instance, of every safety property that
a passing run checks. Line numbers are those of the files under `src/`.

## The system

| Component | State it keeps | Operations | Talks to | What is hard | What makes it correct |
|---|---|---|---|---|---|
| Schedule executor (`executor.py`) | adopted schedule and version, attempted placements, all in memory | `tick`: sync, drain, plan, execute each due placement; `run_forever` | API client, adapters, profiler, power cap, reporter, job catalog | one clock reading per tick; due list computed ahead; restarts forget; exceptions between two acks | once per life, paired acks, bounded overrun, an answer for what is catalogued |
| Run reporter and spool (`reporter.py`, `spool.py`) | SQLite queue | `report_run`, `drain_spool` | API | calls that fail after taking effect; kills; two processes on one file; a report nobody accepts | nothing lost, duplicates accounted for, a queue |
| Power cap manager (`powercap.py`) | recommendation of the day, limit to restore, in memory | `apply`, `restore` around each job | API, NVML | kills and refused writes between the two; a second writer | the card is left as found, and never walked down |
| Adapters (`adapters.py`) | none | `fingerprint`, `preflight`, `run` | engines, subprocesses | what is checked, what is sent and what is remembered are computed apart | what `--check` passes runs; the key of a run is of what ran |
| Profiler (`profiler.py`, `nvml_reader.py`) | samples of the run, sampler thread | `start`, `stop` | NVML, `nvidia-smi` | a sampler that outlives `stop`; counter resets | samples are the run's own, energy was used |
| API client (`apiclient.py`) | tokens | authenticated calls, refresh, login | API | a renewal that fails between a call and its retry | one effect per call, no lock-out |
| SDK (`sdk.py`) | none | `next_window`, `measure` | API client, profiler | best-effort report around code of the user | the user's outcome, reported as it was |
| Job catalog and node (`cli.py`, `fingerprint.py`) | `jobs.json`, the watcher's copy, the salt | register, edit, watch | executor, API | lost updates, half a file, granularity of time stamps | no foreign entry is lost; the watcher has the file |
| Bench submission (`bench/submission.py`, `bundle.py`) | SQLite queue of bundles, consent | submit, drain, opt in and out | API | two drainers, lost answers | stored once, told the truth |
| Benchmark suite (`bench/quick.py`, `reference.py`, `prism.py`) | rows, limit found at the start | cells, tasks, power sweep, restore | engines, samplers, NVML | failure and cancellation anywhere | everything put back; all rows or none |
| Choice of models (`bench/roster.py`, `engines.py`) | none | detect an engine, pick a tier's models, verify pinned weights, resolve a cell | engines, NVML, `sysctl` | servers that are used by others between any two requests | a row is named after what ran; no cell is forgotten |
| Thermal breaker (`bench/thermal.py`) | trailing samples | pause, abort | sampler | window boundaries | a hot card does not hold the suite |
| Samplers, streams, metrics (`bench/sampler.py`, `apple_sampler.py`, `vllm_client.py`, `metrics/`, `bundle.py`) | samples, answers | sample, stream, compute, gate | NVML, IOReport, engines | counters that start again, sleeping machines, broken streams | energy that was drawn, latency that was measured |
| Benchmark tasks, artifacts | none | prompts, grading, tables | suite | text | |
| Configuration, command line, deployment | settings | parsing, wiring, `--check` | all of the above | consent read once | |

Components interact by synchronous calls within one process (in the benchmark,
by tasks of one event loop), and through what is shared between processes: the
API, the two spool files, `jobs.json`, `.env`, the salt, and the power limit of
the card.

## The modules

| Module | Models | Built on |
|---|---|---|
| `ScheduleExecutor`, `MCScheduleExecutor` | the loop | implements `AttemptLedger` |
| `RunReporter` | the reporter and its spool | implements `StoreAndForward` |
| `ReportingLoop`, `MCReportingLoop` | the loop with its reporter | composes `ScheduleExecutor` and `RunReporter` |
| `BenchSpool` | bundles, their spool, consent | implements `StoreAndForward` |
| `PowerLimit` | three writers of the limit | `PowerSweep`, the ladder |
| `ApiAuth` | the API client | |
| `Profiler` | the run thread and the sampler thread | |
| `SdkSession` | a program that uses the SDK | composes `ApiAuth` and `Profiler` |
| `JobCatalog` | `jobs.json`, its writers and its watcher, the salt | |
| `JobAdapter` | what an entry means to each adapter | |
| `JobRun` | one entry through `--check` and the executor | extends `JobAdapter` |
| `BenchSuite` | suites, cells, tasks, sweep, pauses, cancellation | |
| `BenchModels` | what a suite measures: engine, models of a tier, weights of a cell | |
| `BenchRow` | one row from its samples and streams | |
| `ScheduleExecutorProofs`, `RunReporterProofs`, `BenchSpoolProofs`, `PowerLimitProofs`, `SdkSessionProofs`, `JobCatalogProofs`, `BenchSuiteProofs`, `BenchModelsProofs` | the theorems about the module each is named for; `ScheduleExecutorProofs` has those about `ReportingLoop` too, `JobCatalogProofs` has those about `JobRun` too, `BenchModelsProofs` those about `BenchRow` | these modules |

### ScheduleExecutor, and the specification it implements, AttemptLedger

One process. `pc` says which call of `tick` or `_execute` comes next, and one
action is the code between two points where time passes, the environment may
act or the process may end:

| `pc` | action | code |
|---|---|---|
| sleep | `Wake` | the clock is read, once, into `tickNow` |
| sync | `SyncAdopts`, `SyncKeeps`, `SyncUnreachable` | `sync_schedule`: newer schedule, 204 or HTTP error, no contact |
| drain | `Drain` | `drain_spool` and the extra drain (their effect is the subject of RunReporter and ReportingLoop) |
| plan | `PlanIdle`, `Plan` | `_mode`, `_due` |
| next | `Skip`, `PreflightFails`, `PreflightPasses`, `EndTick` | one due placement of `_execute`, in the order of `_pending` |
| profile | `StartRun` | `profiler.start`, the cap, `adapter.run` with the bounded request |
| running | `EndRun` | the adapter returns: done, failed, or killed by its timeout |
| report | `Report` | restore, `profiler.stop`, `report_run` |
| ack | `FinalAck` | the terminal ack, and `_executed.add` |
| down | `Restart` | the supervisor or cron |

`Crash` (a kill, or the end of a `--once` invocation) and `StepRaises` (an
exception from a call that no `try` surrounds) forget the schedule, the version
and the attempted placements, as the code keeps them in memory only. The
environment is `Elapse`, `Publish` and, with `--watch-catalog`, `Register`.

A workflow is an id, `Job` gives what the code reads of its catalog entry
(deadline, declared timeout, framework), and a placement keeps workflow, start,
end and feasibility. Time counts units of `MIN_WINDOW_TIMEOUT_S`. Acks are best
effort in the code; `ackLog` records that they were sent.
It is assumed of the API that one schedule does not place a workflow twice at
one start, that a window does not end before it starts, and that it answers
with its newest version.

`starts`, `ackLog` and `answered` only observe; with the process they begin anew.

`AttemptLedger` is what the loop promises: placements are taken up one at a
time, each is taken up or passed over at most once per life, and what was taken
up is closed before anything else is looked at. `ImplementsLedger` is the
refinement: `status` is *taken* for the placement being executed and *closed*
for what is in `_executed`.

### RunReporter and BenchSpool, and the specification they implement, StoreAndForward

`RunReporter` has processes over one spool file. One step is one wire call or one
SQLite commit. `op[p]` is what a process is in the middle of: a live push, the
enqueue that follows a failed one, or a drain working from the list it read at
the start. The calls `push_run` and `push_samples` may succeed, fail without
effect, or fail after taking effect; reports in `Rejected` are always answered
with an HTTP error. Upstream rows are idempotent (`rows` is a set), samples are
appended. A redirect is not followed, and the client takes it for success: for the
push of a run it has no server id in its body, which fails that push; for a batch
(`Redirect`) the push goes on without it. So `trace` counts the batches that were taken
for appended, `redirected` those of them that a redirect was the answer to, and
`Appended` is the difference. `lost` and `abandoned` only observe.

`BenchSpool` is the other user of the same spool (`spool.py`): a daemon that
drains on its tick when it was started opted in, and `bench submit`, which
checks a file (`Check`: readable, no denylisted key, the schema), drains, and
then sends or spools it. `optin` is the line in `.env`, `wired` what the running
daemon was built with. `told` is what the operator was told of a bundle;
`unheard` and `shared` count lost answers and drains that overlapped. A redirect
here too is a success that stores nothing (`Redirected`): the operator is told
"submitted", or the bundle leaves the queue. `redirected` observes the bundles it
happened to, and the properties allow it for these alone, by `Served`: stored, or
answered by a redirect.

`StoreAndForward` is what both promise: items are enqueued at the tail, and what
leaves the queue leaves it as delivered. Delivered means complete upstream, for a
report its row and its whole trace, as far as the answers to its own calls can tell.

### ReportingLoop, which composes ScheduleExecutor and RunReporter

One process: the loop's own variables, and beside them one instance of `RunReporter`
with this process alone. `DrainSpool` is the loop's `Drain` together with the
reporter's `BeginDrain`, `ReportRun` is `Report` together with `report_run`; the
steps of the reporter (`CallAnswered`) come between two steps of the loop, which
waits for them (`Idle`), while the clock, the API and the operator go on. Whatever
ends the process ends the call it is in. Runs are numbered as they start (`ids`,
the run_ids), so that a report, an ack and an exit are about the same run although the
loop forgets everything when it ends; `acked` observes the last acks.

What the two together promise, `AckedIsReported` and `OneReportPerEnd`, is proved for
every instance, so `ReportingLoop` is not among the runs below. `ReportingLoop.cfg` checks
the two invariants on a small one (two jobs a night in each of two lives, 4 runs of 2
batches, one always rejected, 2 failed calls), for whoever changes the module, and with them
the one property that only TLC can check: `LoopDrains`, that what is queued behind nothing
rejected gets through by the drains of the ticks that reach the API, although jobs and
exits come between. It assumes that of the ticks that ask the API again and again some
reach it (strong fairness of `Contact`); that a drain follows is the code.

### PowerLimit, on PowerSweep

Three writers of one limit: `PowerCapManager` around each job, the benchmark
suite around its sweep, and the operator. Limits are counted in fractions of a
watt because the suite reads whole watts and the manager milliwatts. A write is
accepted or refused; a kill forgets what was to be restored. `PowerSweep` is
the pure part of the sweep, the ladder of caps. `Exclusive` says that the operator
does not start a benchmark while a job runs: nothing in the code enforces it, and
the run does without it. `disturbed` only observes: since the operator last
set the limit there was a kill, a refusal, or a job beside a benchmark. What
`LeftAsFound` leaves out because of it is real: a benchmark that starts while a job
runs reads the job's cap as the operator's and may leave it on the idle card. It
also allows for the resolution the suite restores: it reads the limit in whole
watts (`bench/sampler.py:278`), so a limit that is
not a whole number of watts comes back as the watt below it. One of the two limits of the operator is of that kind.

### ApiAuth, Profiler and SdkSession

`ApiAuth` takes one step per HTTP request. A call goes through
`_authed_request`: log in if there is no token, send, on a 401 refresh or log in
again and send once more. Tokens are *none*, *live* or *stale*, as the server
sees them; they expire and are revoked between any two requests. Endpoints are
those that only read, those the server recognises by content, and those that
append, for which a second effect would matter.

`Profiler` has the thread of the run and sampler threads. `StartSignals` and
`Start`, `StopSignals` and `StopReturns` are the two halves of `start` and `stop`
around a join that may time out (`JoinTimesOut`); a sampler checks its event
(`Check`) and appends its sample (`Collect`), both through attributes of the
object, so a late sampler meets the event and the list of the next run. `used`,
`reset`, `strays` and `strayed` only observe.

`SdkSession` runs a program through `next_window`, `Window.wait` and `measure`:
`phase` is the call it is in, `fate` how its body ended, `outcome` what the
program saw of `measure`. The variables of `ApiAuth` and `Profiler` are shared by
INSTANCE, and the session's actions are conjunctions with theirs (`PushRun` with
the end of a call, `StopReturns` with the profiler's). It goes through `measure`
repeatedly, so that one block meets what another left behind.

### JobCatalog, JobAdapter and JobRun

`JobCatalog` takes one step per system call on a file: a registrar creates its
workflow upstream (`Create`), reads `jobs.json` (`Read`), opens the temporary file
(`Open`, which truncates), writes it (`Write`) and renames it (`Replace`); the
watcher stats (`Stat`) and then reads (`Refresh`). `fd` says which file a
descriptor leads to after the other registrar renamed it. A file is its entries,
whether it is whole, and its stamp; `Tick` advances the clock that stamps are made
of, so that two writes may bear one stamp (`masked`). The salt of the node is
looked for and made in two steps (`FindSalt`, `MakeSalt`).

`JobAdapter` has no state: `Request` is what a catalog entry has of each field,
`Box` what the adapter meets (the prompt file, the process of a command and what it
prints, the server's list of models and its answer). `Shape` is what the entry alone
makes of itself: in order, *rejected* by the `AdapterError` that everybody expects, or
one that *crashes* with another exception, as an unbalanced quote does. `Fingerprinted`
adds the prompt file that is no text; `Ready`, `Keyed`, `Sent` and `Runs` are preflight,
`_prompt_length`, the payload and `run`. A run is rejected, crashes (also by output that
is no text, which `text=True` cannot decode, and by an answer that is JSON but no object),
fails or succeeds. `JobRun` takes one entry through `--check` (`CheckCatalog`,
`CheckAuth`, `CheckSchedule`) and then through `_execute` (`Lookup`, `Preflight`,
`Fingerprint`, `RunIt`), and picks the box anew at each step, since days may pass between
them. A schedule may place the workflow several times (`placed`); `_check_matching` keeps
them by workflow, so the last stands for all. The entry is the same from check to run.

### BenchSuite, BenchModels and BenchRow

`BenchSuite` takes one step per await of `_run_bench_suite` and of what calls it:

| `pc` | actions | code |
|---|---|---|
| detect | `Resolve`, `NotPulled`, `NoEngine`, `OtherWeights` | engine, model and card of a cell |
| begin | `BeginTask`, `LoadFails`, `BeginRung`, `EndSweep` | the loop over tasks, then over capped points |
| stream, fallback | `ItemDone`, `StreamFails`, `ItemRaises` | an item of `run_quick_task` |
| pause | `PausePolls` | `maybe_pause_for_thermal_throttle` |
| stopping | `Stop` | the finally of a task |
| restore | `Restore` | the finally of the suite |
| rows | `Rows`, `MetricsFail` | `_build_run_metrics` for each run |
| export | `Export` | artifacts and bundle |

`Sample` is the sampler's own task; `Backstop` is the timeout of the command,
which cancels at what is awaited, and `BackstopSwallowed` the case that
`sampler.stop()` takes that cancellation for the one it had asked for. A suite is
a list of tasks, the number of capped points, the number of cells, and whether a
dead cell ends it. A full suite is modelled with one task and two cells, a quick
one with two of its tasks: tasks differ by whether the sweep repeats them, so one
that it repeats and one that it does not are every kind there is. The rows are a
set: nothing that is said of them depends on their order.

The limit of the card is 0 for stock or one of the rungs. `Resolve` reads it (`found`)
before the sweep changes it, and `Restore` writes back the factory default or what was
found, as `managed` says. That write is best effort and nobody looks at its result: it
may be refused, and then the cap stays, for the next cell of a tier to find; also one that
was set but not confirmed, which may be on the card or not (`EndSweep`). `refused` and `restored` observe the
cells of whose writes the one and the other is true, and `CapLeft(c)` says that cell
`c` may find a cap for that reason.

`BenchModels` is about what comes before and between the cells, for each kind of
suite, one step per request:

| `pc` | actions | code |
|---|---|---|
| find | `Detect`, `NotThisOne`, `NoEngine` | `detect_engine` of the suite (quick has only that of its cell) |
| list | `SelectRoster`, `ListFails` | `run_tier_suite`: `list_models`, the budget, the roster |
| verify | `Verify` | reference and prism: what is served against what is pinned |
| next | `NextCell`, `TierDone` | the loop over cells; `full` goes through each model a second time with thinking, for which the same cell stands |
| attach | `Detect`, `NotThisOne`, `NoEngine` | `detect_engine` of the cell, of the engine the suite names |
| resolve, digest, card | `Resolve`, `Digest`, `Card` | `resolve_quick_model`, the digest of the tag, `gpu_info` |
| measure | `Measures`, `AllTasksFail` | the rest of `_run_bench_suite`, which is BenchSuite's subject |

Between any two requests the operator may start or stop an engine
(`StartOrStop`), pull or remove a tag (`PullOrRemove`), or start llama-server with
another file (`Load`). `up`, `pulled` and `loaded` are what the servers would
answer. Weights are numbers, in the roster the sizes that are compared with the
budget; a tag may hold other weights than the roster pins. `label` is what
identifies the weights in the row: the digest read from Ollama (or none), the
verified entry, or what llama-server says it has. `listed` and `dead` only
observe, as does `moved`: the weights were replaced after the label was taken.

`BenchRow` is about numbers: time in ticks of the sampler, energy in what an idle
card draws in one. `Draw` and `Takes` interleave with the chunks of a stream
(`Chunk`, `StreamEnds`, `StreamFails`, `PlainEnds`); `Reload` starts the counter
again, `Sleep` lets time pass without samples. `Compute` makes the row: counter
energy, integral, time to first token, gaps, and the energy of each item by
interpolation. `Export` applies the gate. Halves of the trapezoid rule are kept
whole by counting double (`integral2`). What the code filters out of a list is here
a set of indexes (`Readings`, `ReadBefore`, `Strip`), and what it sums is a recursive
function of the index (`Totals`), so that both can be proved about.

## Runs

Passing:

| Run | Shows | Bounds |
|---|---|---|
| `executor` | no placement started twice in a life; acks pair up; every ack quotes a published version that holds what it names and nothing runs early; overrun containment; a punctual job survives its timeout; the loop implements the ledger; a catalogued placement is answered or dropped by a newer schedule | 3 workflows, 2 schedules, 2 publications, clock to 3, the process ends once, killed or by an exception; calls take time |
| `reporter` | a report leaves only when complete upstream, but for batches answered by a redirect; duplicates are accounted for; no trace with a hole; a store-and-forward queue; what is queued behind nothing rejected gets through | 2 processes on one file, 3 reports of 2 batches, one always rejected, 2 calls that fail or are redirected, 1 kill |
| `power` | under preserve an idle card is at the limit the operator chose; no kill, refusal or overlap walks the card down; under managed a leftover cap does not stay | both policies, 2 operator limits, one of them no whole watt, a recommendation that is not a whole watt or none, 1 refusal, 1 kill |
| `session` | a call takes effect once; a denial has a cause in the same call; counter energy was used; what the caller and the API are told of a block is what its body did | API key or password, a base URL that redirects or not, 1 fault, 1 expired token, 2 sampler threads, 1 late join, 2 samples a run, with NVML, `nvidia-smi` or nothing |
| `bench_spool` | the operator is told the truth, and what leaves the queue is stored, but for bundles answered by a redirect; a bundle is stored once, or once more for what nobody heard of; a store-and-forward queue; with consent, what is queued behind nothing rejected is pushed and accepted | a daemon and one command at a time, 4 bundles, one denylisted, one rejected, 3 calls that fail or are redirected, 1 kill, 1 change of consent |
| `bench_suite` | the sampler is stopped whatever happens, and the limit put back unless that write was refused and until one goes through; a row is of a complete task at the cap it names, but for stock rows of a cell that found such a leftover cap; a cancelled suite leaves nothing, another one everything it measured; a suite ends | 5 kinds of suite, both policies, up to 2 rungs, 2 items a task, pause after 3 hot samples, 2 polls, 2 faults (refused writes among them), one backstop |
| `catalog` | the watcher runs from what was whole and catches up; a registrar that is alone is told the truth; hand-written entries stay; one identity | 2 registrars, 1 edit, 1 refusal or kill, 2 time stamps |
| `job_run` | what `--check` passed is not refused for anything that stands in its entry; a run is remembered by what was sent | every request and every box, the workflow placed at most twice |
| `bench_models` | a row is named after what ran, unless the weights were replaced after they were identified; a tier without an escaped exception has a cell for each model that was pulled, the largest first | 5 kinds of suite, 3 models of the roster and 1 rung, tags that hold other weights, a medium tier of 2, 2 changes to the servers |
| `bench_row` | energy of items within that of the row, and that within what was drawn; what is sent is not inflated; latencies were measured; a streamed answer is the plain one | 4 kinds of meter, 2 items, 2 pieces, 5 ticks, a nap of 2, 2 faults |

Why the bounds are enough: the two schedules of `MCScheduleExecutor` hold the cases
the code distinguishes (back-to-back windows, a replan that keeps one placement in
another window and moves another, an expired schedule, a window without an end, an
infeasible placement, a framework without an adapter, a job with and without a
timeout and a deadline), and two publications and one end of the process are the
least that make a placement meet every one of them twice. The safety properties of
all ten runs are also proved, without the bounds (see Proofs).
Two reports behind a first, with two batches each, are the least in which the
head, its successor and a partly pushed trace exist at once; the same holds of
four bundles, two of which reach the head. One kill leaves a cap behind for the
other writer to find. Two samplers are a late one and the one of the run it
disturbs; three could only be two late ones. Two registrars are the least that
share a temporary file, and two stamps the least that tell a change from none.
Three models are the least of which one is too large, one is left out by the count of
a medium tier, or one dies while others are before and behind it; two changes stop a
server and start it again, or move the weights of a tag away and back. `bench_models`
runs on Apple silicon, where the budget is known or not; an NVIDIA box is the case
that it is not.
Two items are the least with a neighbour to interpolate into, two pieces the
least with text in both channels, and two faults let something fail while
something else is being cleared up.

`CHECK_DEADLOCK FALSE` is given where the system of the model has nothing left to
do: every report or bundle delivered or rejected, the registrations over, the
job, the suite or the row finished. The runs of the executor, of the power limit
and of the session check for deadlock.

`TypeOK` of each module (`RunTypeOK`, `RowTypeOK`) states its types; no run lists it.
It is proved of each of the ten modules that a passing run checks; of `JobRun` it is a
part of its invariant and has no theorem of its own.

Fairness. The executor: the loop takes its next step (every call in it returns
or times out, the supervisor restarts it) and the clock moves. The reporter and
the bench spool: a call under way is answered or times out, and the daemon ticks;
finitely many calls fail. The power limit: jobs keep coming and a suite that has
begun comes to its end. The bench suite: its own next step, since every request
has a timeout and polls follow on each other; nothing is assumed of the card,
which may stay hot. The catalog: the watcher looks, which it does with every
placement; nothing is assumed of those who write. Kills, exceptions, refusals,
adoption, the operator, cancellation and the start of a benchmark are never fair.

### Where the code departs from what is said of it

Each of these runs ends in a counterexample; PROJECT.json quotes the line.

| Run | Said | Done |
|---|---|---|
| `opt_out` | after `bench opt-out` nothing further is sent (`README.md:448`, `cli.py:843`) | consent is read when the daemon starts; a running one goes on draining its queue |
| `fallback_killed` | a punctual job is never killed by arithmetic (`executor.py:75`) | in fallback mode the budget still comes from the planned end: a job started at its latest start has less than its duration, down to the one-minute floor |

What else the code does otherwise than one might read is in the models as it is,
and the properties are stated so that they are true of it:

* Budgets count from the clock of the tick, so what predecessors took is granted
  again (`executor.py:521`, against `adapters.py:25`); `OverrunBounded` adds the
  delay of the tick.
* A placement skipped for want of an entry is not looked at again when the entry
  comes (`executor.py:337`, against `README.md:301`); `CataloguedIsAnswered` is
  about what is catalogued when its turn comes.
* The profiler and the spool may raise between the two acks (`executor.py:517`,
  against the docstring at 484). Such an exit leaves a *started* that is never closed;
  `AcksPaired` is about the acks of one life, begins anew with the next, and so does
  not bound those. What is said of the exit is `ImplementsLedger` (the placement is open
  again) and `NothingLost`.
* A placement may be started again by the next life, as `_executed` is memory;
  `AttemptedOncePerLife` says so in its name.
* A report, or a bundle, that is always rejected holds back everything behind it
  (`reporter.py:120`, against `README.md:732`); `QueuedGetsThrough` is about what
  has none before it.
* Under preserve, the default, the suite restores the limit it found, not the
  factory default (`bench/quick.py:1375`, against `HARDWARE-SAFETY.md:36`). It
  reads that limit in whole watts, so a fraction of a watt is lost (`sampler.py:278`,
  against the exact limit of `README.md:688`); `LeftAsFound` allows for it.
* `restore` does nothing when `apply` wrote nothing, so `LeftoverHeals` holds where
  caps are recommended; and `Sanctioned` contains every recommendation and rung,
  because neither is compared with the limit found: a write may raise a limit
  the operator keeps low.
* Nothing is said of the deadlines of several fallback jobs: each latest start is
  computed alone, and the jobs run one after the other.
* A redirect counts as success (`apiclient.py:456`): a base URL that has moved
  answers everything and does nothing. A bundle that meets one is reported as
  submitted, or taken off the queue, with nothing stored (`bench/submission.py:229`,
  260), and a report loses the batches that meet one (`reporter.py:149`). The
  properties of both spools say so of those bundles and batches and of no others.
* The write that puts the limit back at the end of a cell is best effort
  (`bench/sampler.py:319`, `bench/quick.py:1378`). Refused, it leaves the last cap on
  the card; in a tier the stock rows of the next cell are then measured under it, and
  where what was found is put back, so is that cap. `Unwound` and `RowsComplete` say when.
* A sampler that is late for its join appends to the next run (`profiler.py:300`);
  `ReportIsTheRuns` is about blocks before which no join timed out.
* Two registrars, or one and an editor, can lose an entry, and a reader can meet
  half of `jobs.json` (`cli.py:682`, against the docstring there);
  `RegisteredAlone` and `HandWrittenStays` are about registrars that are alone.
  A write within one time stamp is not noticed by the watcher.
* `--check` passes an empty command, which `run` then rejects; an entry with an
  unbalanced quote (`adapters.py:303`) or a prompt file that is no text (217) ends it in a
  traceback. Output of a command that is no text (336), and an answer that is no object
  (427, 533), raise out of the adapter, though the executor catches it. `CheckedIsRun`
  leaves these to the command, the file and the server, not to the entry.
* `--check` looks at the last placement of a workflow only (`cli.py:545`): an infeasible
  one hides that an earlier one, in a window, has no entry. `CheckedIsRun` is about
  workflows whose last placement has a window.
* With a prompt and messages, the history key is of the prompt and the messages
  are what is sent (`adapters.py:188`).
* A failed point of the sweep discards the points before it
  (`bench/quick.py:1349`, against the comment at 701).
* A sample whose power could not be read makes the metrics of its run raise, and
  nothing catches it (`MetricsFail`): the rows of the whole suite go with it.
* `sampler.stop()` may swallow the cancellation of the suite, which then runs on
  past its backstop (`bench/sampler.py:236`).
* Without a counter, or with one that stands still, nothing gates an integral
  that a sleep has inflated; `SentNotInflated` is about counters that move.
* The reference suite and the prism suite verify the weights that are served,
  and the suite asks again before it measures without comparing
  (`bench/reference.py:178`); `LabelTrue` leaves out rows whose weights were replaced
  after that. An Ollama row whose digest could not be read is named by its tag only.
* The budget of an NVIDIA box is asked for by `asyncio.run` within the running loop
  of the suite, which raises; the budget is taken to be unknown, and the tier is
  unlimited (`bench/roster.py:258`, against `README.md:556`, by which a model too
  large for the box is skipped). `Budgets` says so.
* An engine that restarts between two cells of a tier raises what the tier does not
  catch, and the rows of earlier cells are lost (`bench/quick.py:1568`, against the
  comment below it); `CellsAccounted` is about tiers that no exception ends.
* A tier for which nothing is pulled, or whose engine is llama-server, ends in an
  exception the command does not catch (`cli.py:1096`), as does any request that
  meets a server that has gone.

## Proofs

The theorems hold for every value of the constants that meets the assumptions of
the module they are about, or, for `ReportingLoop`, that meets its `LoopConstants`; no
bound of a run is among these. What is assumed is
what the code or its use justifies: bounds are natural numbers; the kinds, policies
and credentials are those of the code; the sentinels of a model are none of its
values (`NoSchedule`, `Nobody`, `None`, the words that stand for no registrar in
`RegistrarsAssumption`); the API's schedules are as described above; and finitely many
processes share a spool file (`ProcAssumption`, `ProcessAssumption`), because the
properties count them. TLC evaluates every one of them, and each invariant below was
model-checked before it was proved.

Types are the first conjunct of nearly every inductive invariant, and seldom
inductive alone. Every proof has the same outline: what an action changes, stated once as a lemma (`...Is`, `...Effect`); one
lemma for each part of the invariant, by cases over the actions; then the theorems.

| Module | Theorem | Property |
|---|---|---|
| `ScheduleExecutorProofs` | `TypeCorrect` | `TypeOK` |
| | `OncePerLife` | `AttemptedOncePerLife` |
| | `LoopImplementsLedger` | `ImplementsLedger`, a refinement |
| | `AcksArePaired`, `AcksMatch` | `AcksPaired`, `AcksMatchSchedule` |
| | `OverrunIsBounded`, `PunctualSurvives` | `OverrunBounded`, `PunctualNeverKilled` |
| | `LoopIsTheLoop`, `LoopUsesTheReporter` | the specifications of `ScheduleExecutor` and of `RunReporter`, both implemented by `ReportingLoop` |
| | `AckMeansReported`, `EachEndCostsOneReport` | `AckedIsReported`, `OneReportPerEnd` of `ReportingLoop` |
| `RunReporterProofs` | `TypeCorrect` | `TypeOK` |
| | `NothingIsLost` | `NothingLost` |
| | `SpoolIsStoreAndForward` | `ImplementsStoreAndForward`, a refinement |
| | `TracesHaveNoHole`, `DuplicatesAreAccounted` | `TraceHasNoHole`, `DuplicatesAccounted` |
| `BenchSpoolProofs` | `TypeCorrect` | `TypeOK` |
| | `OperatorIsToldTheTruth` | `ToldTheTruth` |
| | `SpoolIsStoreAndForward` | `ImplementsQueue`, a refinement |
| | `StoredOnceEach` | `StoredOnce` |
| `PowerLimitProofs` | `LadderIsGood` | of `DeriveCaps`: distinct rungs, below stock, in the card's range |
| | `TypeCorrect` | `TypeOK` |
| | `PreserveLeavesAsFound`, `NobodyWalksDown` | `LeftAsFound`, `NoWalkDown` |
| `SdkSessionProofs` | `TypeCorrect` | `TypeOK` |
| | `SessionUsesTheClient` | the specification of `ApiAuth`, a refinement |
| | `CallsTakeEffectOnce`, `DeniedOnlyForCause` | `CallEffectAtMostOnce`, `DeniedForCause` |
| | `CounterEnergyWasUsed`, `WhatIsToldIsSo` | `CounterHonest`, `ReportIsTheRuns` |
| `JobCatalogProofs` | `TypeCorrect` | `TypeOK` |
| | `TheWatcherHasTheFile` | `WatchedIsTheFile` |
| | `TheBoxHasOneIdentity` | `OneIdentity` |
| | `RegistrationIsKept` | `RegisteredAlone` |
| | `HandsOff` | `HandWrittenStays`, an action property |
| | `CheckedWorkflowRuns`, `FiledUnderWhatRan` | `CheckedIsRun`, `KeyOfWhatRan` of `JobRun` |
| `BenchSuiteProofs` | `TypeCorrect` | `TypeOK` |
| | `SuiteUnwinds`, `SuiteRowsComplete` | `Unwound`, `RowsComplete` |
| | `SuiteGivesAllOrNothing` | `AllOrNothing` |
| `BenchModelsProofs` | `ModelsTyped` | `TypeOK` |
| | `LabelsAreTrue`, `TierAccounts` | `LabelTrue`, `CellsAccounted` |
| | `RowTyped` | `RowTypeOK` of `BenchRow` |
| | `ItemsShare`, `NotInflated` | `ItemsShareTheRow`, `SentNotInflated` |
| | `LatencyMeasured`, `ReadTheSame` | `LatencyIsMeasured`, `StreamedAsPlain` |

### The loop

`Core` is the inductive invariant everything rests on: types, the schedule in force
being the published version it claims to be, a run in hand exactly between its two
acks, and what is due or running being a feasible placement of the schedule in force
whose time has come (a key is only known to be a key because it comes from a
schedule, so not even the types are inductive alone). On it, `Attempts` says that
what is due or running is not remembered as attempted, that no identity is due
twice, and that a started run is remembered or still being executed: `_executed` is
written after the run, so `starts[k] <= 1` is not inductive without the last part.
`Acknowledged` ties the last ack to the run in hand, `Timed` the budget of a run to
the clock of its tick. The refinement proof maps every step to a ledger step or a
stutter from `Core` and `Attempts`.

### The two spools

Both queues are drained by processes that work from a list read at the start, so a
step of one process is about items that others may have removed meanwhile. What
makes it a queue nonetheless is `InOrder`: the list of a drain is what has left the
spool, followed by the head of the spool (`Follows`). So the item a drain removes is
the head or gone, never one from the middle. Each of the two modules begins with the
facts about such lists, so that it can be read and checked alone.

`RunReporterProofs`: `Core` has the types and says where the only copy of a report
is (`OnePlace`: still to run, in the hands of one process, in the spool, or lost)
and that at most one was lost for each kill (`LostCounted`). `Delivered` says that
what a push was answered is upstream, and so is all that is in no place any more.
`Core`, `Delivered` and `InOrder` are inductive together, and give `NothingLost` and the
refinement. The two counting properties need more, because several processes may
push one report at once. Without the pushes under way, `Ended`, each batch was
taken for appended at most as often as any before it (`Layered`), whatever batch a push
failed at; and while a report has a place every ended push of it was given up, and once it
has left, only such processes may have pushed it to its end as no longer list it
(`Paid`). Both count sets of processes, which is why there are finitely many.

`BenchSpoolProofs` has the same parts for bundles (`Shaped`, `OnePlace`, `InOrder`,
`Delivered`); `ToldTheTruth` is inductive with them. `Paid` bounds the stores that
were heard of by the processes that are about to act on one and, once the bundle has
left, by those that do not list it; `Alone` says that a bundle that no two lists ever
named at one time is on no list once it has left, so it is not stored again.

### The loop with its reporter

`ReportingLoop` is proved about by putting two proofs together. Every step of it is a
step of the loop or leaves the loop alone (`LoopStep`), and a step of the reporter or
leaves the reporter alone (`ReporterStep`); so all that is proved of `ScheduleExecutor`
and of `RunReporter`, with one process over the spool, holds of it, and the invariant
`Safe` of the reporter is taken over by instantiating `RunReporterProofs` (`RP`). What is left
to prove is `Linked`, how the state of the one goes with that of the other: a report is
in the reporter's hands only while the loop is at the ack of that very run, a run that
is acked is neither lost nor still to be reported, and at an ack the run is neither.
With `NothingLost` it gives `AckedIsReported`. For `OneReportPerEnd` it counts what is lost
together with the runs that died before they were reported; the run under way is left
out of the count, and enters it when the process ends.

### The power limit

The properties are about the card; the invariant is about what each process
remembers and may yet write to it. `AsFound`: while nothing was killed, refused or
beside another, one process has the card, and what it remembers, or the card if it
remembers nothing, is as the operator left it. `Accounted`: the limit, the cap a job
is about to set, the prior it keeps, and the limit a benchmark has observed are all
accounted for; without the memories it is not inductive, since a leftover cap is
found and put back by another process. That the ladder starts from the factory
default, not from what was found, is the conjunct that stops the walk. `LadderIsGood`
is proved of `DeriveCaps` for any card; it is written as three steps, one for each
fraction, not as a fold, so that this can be proved.

### The session

The invariant has a part for each component. `Client`: a call has no effect until
it is answered (`Settled`), so the request that is sent again had none; what is sent
again after a renewal bears a live token, or something went wrong since (`Renewed`),
which is what `DeniedForCause` lacks to be inductive. `Meter`: between the two readings
the counter moved by what was used, or stands at no more than that since it was
reset (`CounterMoved`); and unless a join timed out no sampler but the run's own is
alive, so the samples are its own and, after a stop that returned, complete
(`OnlySampler`). `Told` says in each phase what was already said and what may yet be:
before the body ended no row exists, and the trace in hand is the block's.
`SessionUsesTheClient` shows that the composition respects the client: every step of
the session is a step of `ApiAuth` or leaves its variables alone.

### The catalog

Four parts that do not need each other. `Watched` adds to the property that what is in
the file now has been held. `Alone` says, as long as no two were in each other's way,
that one registrar at a time is between its read and its rename, that until then
the file is as it read it and the temporary file its own (`OnItsWay`), and that the
file has the entries of those who were told so (`Told`). `OneMaker`: only who found
no salt makes one. `Opened`, that who writes has a file open, belongs to the types.
`HandsOff` follows from the types and the steps.

### One entry through the check and the run

TLC meets every request and every box, and a workflow placed up to `MaxPlacements`
times; the proof, for any such bound, says why
it comes out well. What each adapter makes of a request is one of a few words, and the
lemmas relate them: what a run that is rejected or crashes has in it (`RejectedFor`,
`CrashesFor`), and when the text
of the key is not the text that is sent (`KeyMeetsText`). `RunInv` carries what the
stages found out: a check that has found nothing was of an entry in order
(`NothingFound`), a run that ended badly names its cause in the request
(`EndTellsWhy`), and key and payload are what the adapter makes of the request on some
box, each on one of its own (`KeyAndText`), since the box is another at each step.

### The choice of models

Again `Core` is what the others rest on: types, and which engine and which entry
a cell may have at each `pc`. A cell that asks Ollama asks for a tag of the roster,
and a cell that is given to llama-server has an entry only if it was verified;
without the first, `pulled` is asked for what it has no tag for, so the types are
not inductive alone; the mutant of `FoundBy` breaks the second. On it, `Labels` says
that the label in hand is what would be served, unless the weights moved, and
`Accounts` that the models that were listed are those measured, dead, under way or
still to do, and that what is still to do is smaller than what was done, which is
what makes the four disjoint.

### The numbers of a row

`RowInv` says what the samples, the items and the counter may be at any step; what is
computed from them follows from it, whatever the draw. The samples are in the order of
time (`Sampled`), the items one after the other, with their pieces in between
(`OneByOne`). `Counted` is about a counter that may start again or miss a window: no
reading is below where the counter started (`Floor`), none is more than the whole draw
above an earlier one (`Spread`), and unless it started again the readings grow and
none is above the counter (`Rising`). `Spread` gives that the row costs no more than
was drawn, and needs `Floor`: after a restart the next reading is compared with those
before it.

That items share the row takes an argument about interpolation. `Level(t)` is what the
counter has shown by `t`: the first reading before all of them, the last one after,
and what `_interpolate` gives in between. It lies between the first and the last
reading (`LevelLies`) and grows with time (`LevelGrows`, by two lemmas about integer
division: within one pair of readings, and across pairs). An item is worth at most the
growth of the level from its start to its end, items do not overlap, and so their sum
is at most last less first. Sums are by induction on their index, which the prover's
library states for an operator and so cannot be used: `SetInduction` states it for a
set of numbers, from the least element that any such set has. `TotalIsBounded` is what
items and gaps need of it: a total that grows by no more than `g` does, step by step,
is within `g`.

`RowIsComputed` keeps the row equal to what would be computed now; it is what makes
the properties of the finished row those of `Computed`.

### The suites

`Wound` says at which `pc` a sampler may run, and that the limit is then the one on the
label of the run; a limit below stock comes only after the last task, so it is steady at
every item, or the cell found it, and then a cell before it had its restoring write
refused (`Cap`, which is `CapLeft`). `Left` is what `Cap` is of the two sets of cells, so
that one lemma can say how it fares as they grow. `Labelled` carries the same for what is
a row or may become one, also of cells that are over.
`Kept` says where what was earned is at each `pc`: among the rows, or among the runs
that will be rows; `Whole` is what a run must be to be either. `Cancelled` follows a
cancellation from its delivery to the end it leads to, before which nothing is
exported. The types are not needed for these and are proved beside them: `Control`,
`Running` and `Books`, with the one fact that a request under way means an item left.

### Only model-checked

* Liveness under fairness, which the prover does not reach: `CataloguedIsAnswered`,
  `QueuedGetsThrough` of both spools, `LeftoverHeals`, `SuiteEnds`, `WatcherCatchesUp`.

Every other property of a passing run is stated by a theorem. `LoopDrains` of
`ReportingLoop` is checked by `ReportingLoop.cfg` alone.

## Plan

All components are modelled as far as they will be. What is left are the
safety halves of the liveness properties, that nothing in the spools, the catalog and
the suite is stuck (a step is possible) wherever something is owed.

## Not modelled

Parsing of settings and arguments, logging and output; the artifact files of rows; prompts and grading of the benchmark's
tasks; the statistics of finished rows (regressions, quantiles, flexibility):
pure functions of their input or presentation, most of them in floating point.
Of the samplers, counters of CPU and memory, clocks and names; of the choice of
models, how a served file name is matched with a pinned one (weights are
compared as such), and whether a chat template controls thinking, which is
advice. Of the streams of `BenchRow`, chunks that are JSON of another shape than the
client reads (`bench/vllm_client.py:286`): what such a chunk raises is caught by nothing in
the task and ends it without a row, and no property of `BenchRow` is about it. The optimizer API, the inference engines, the driver and the file
system appear as the answers the code can get from them.
