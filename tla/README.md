# A TLA+ model of the local text-to-SQL system

This directory specifies and verifies the parts of `agentic_text2sql` whose
correctness depends on order, interruption and recovery: the guarded model runs
that must survive kills, reboots and resource stops, with the sequences above them
and the sensors below; the checkpoints they leave, whose rows must all have been made
in one frozen world while indexes and databases are rebuilt beside them; the
application's query runs, which several processes share through one SQLite file; and
the two pipelines that turn a question into SQL, whose drafts, critics and repairs
compete for one budget of requests and seconds.

Paths are relative to the repository.

## 1. The system

| Part | Code | State | Operations | Interacts through |
| --- | --- | --- | --- | --- |
| Suite supervisor | `scripts/_guarded_suite.py`, entered from `run_guarded_spider.py`, `run_guarded_acceptance.py` | `<report>.suite-state.json`, `<report>.pause-request.json`, `<report>.suite.lock`, local state object | start/refuse, READY, one-case batches, PAUSED, COMPLETE, FAILED, RESOURCE_STOP | files, signals, the resource guard |
| Resource guard | `resource_guard.py` | workload lease (`flock`), `<report>.resource-stop.json` latch, child process | preflight, spawn, sampling, stop, unload, latch, cooldown | process groups, Ollama HTTP, monitors |
| Case worker | `scripts/run_benchmark.py`, `run_olist_acceptance.py`, `inference_runner.py`, `runtime_checkpoint.py` | predictions JSONL (a prefix of the manifest), frozen identity files, final report | read the prefix, run one case, replace the checkpoint, evaluate | files, the pipelines |
| Monitors | `gpu_monitor.py`, `windows_monitor.py`, `hardware.py` | newest sample, reader thread, native process | start, accept a line, sample, close | pipes |
| Benchmark sequence | `scripts/tmux_benchmarks.py`, `tmux_experiment.py` | `sequence-state.json`, owned server and proxy, pilots passed | launch, execute, pause, recover, status | suite wrappers, pause files, native server |
| Guarded server, proxy | `serve_ollama_guarded.py`, `ollama_gateway_proxy.py` | heartbeat, child | start, forward, stop | HTTP, files |
| Run store | `layer6_application/run_store.py` | tables `runs`, `trace_events` of `application.sqlite` | create, set_status, append_event, recover_incomplete, queries | SQLite |
| Query service | `layer6_application/service.py`, `catalog_registry.py` | none of its own | prepare, execute, run | run store, registry, pipelines |
| API and CLI | `interfaces/api/*`, `interfaces/cli/app.py` | single-thread executor and queue, event streams | submit, close, stream; `ask`, `serve` | query service, store |
| A1 pipeline | `layer6_application/a1_service.py` | budget, trace, selected candidate | draft, evaluate, critique, repair, admit | provider, policy, executor |
| P6 pipeline | `query_service.py`, `layer5_correction/*` | correction session | plan, generate, validate, correct | same |
| Provider | `adapters/llm/ollama_provider.py` | request budget, retries | generate, retry, time out | HTTP |
| Grounding index | `layer2_grounding/service.py`, `scripts/build_indexes.py` | versioned bundle directories, `current` pointer, build lock | build, activate, load | files, locks |
| SQL policy, execution, static analysis | `layer4_validation/*` | none | functions over SQL and catalogs | called by both pipelines |
| Everything else | data builds, evaluation, reports, audits, UI | files written once | — | — |

What is hard, and what makes each part correct:

* **Suites.** A supervisor can die at any point while its worker lives on; the next
  start knows only what the files say. Correct means: no checkpointed case is lost,
  a resource stop is final, an interrupted batch is followed by a one-case pilot,
  a cooldown is waited for by whoever comes next, a pause request is answered,
  COMPLETE means complete, and every start ends.
* **Guard.** One lease for the machine, taken by supervisors that may die. Correct
  means batches and their cooldowns exclude each other, and no failure during the
  cleanup hides a latch.
* **Query runs.** Several processes write the same tables in several transactions
  per run. Correct means: the trace of a decided run matches its status, a decided
  run stays decided but for the one overlap the code allows, open runs are always
  somebody's, accepted runs are decided and their streams end.
* **Pipelines.** One budget for all requests of a run; a failing repair keeps the
  draft.
* **Index and checkpoints.** Builders, workers, database builds and migrations share
  files and hardly any lock. Correct means: a reader always finds a complete bundle
  that never changes, and the rows of a checkpoint were made in the world its
  identity names, resumed and continued checkpoints included.
* **Monitors.** Sensors are processes that may hang, die or repeat themselves, read
  by threads of their own, while the guard may be waiting for another of them. Correct
  means: an unsafe or missing observation is never followed by success, and the guard
  ends whatever its sensors do.
* **Sequence.** Sequence, wrapper, guardian, native server and proxy die separately.
  Correct means: the server outlives the worker, nothing is running when the state says
  so, a restart finds what was left behind or refuses, and everything ends.

`PROJECT.json` lists every component with its status and, under `hazards`, the lines
where these difficulties bite and the properties that guard them.

## 2. Modules

| Module | What it models |
| --- | --- |
| `GuardedSuite` | supervisors, resource guard, workers and their files |
| `MCGuardedSuite` | its small instances |
| `GuardedSuite_proofs`, `SuiteFiles_proofs` | its theorems: the guard and its files; the suite's files across restarts |
| `SuiteRegister` | what a sequence or an operator may read off the files of a suite: the abstract specification of both |
| `BenchmarkSequence` | a sequence, its guardian, native server, proxy and wrappers |
| `MCBenchmarkSequence` | its small instance |
| `BenchmarkSequence_proofs` | its theorems |
| `IndexBundle` | the index bundles of a database and their builders |
| `BundleRegister` | what readers of bundles may rely on: the abstract specification |
| `FrozenRun` | case workers, frozen identities, rows, continuations, and the world beside them; extends `IndexBundle` |
| `MCFrozenRun` | its small instance |
| `FrozenRun_proofs` | theorems about both |
| `ResourceWatch` | one guard with its sensors, reader threads and workload |
| `MCResourceWatch` | its small instance |
| `ResourceWatch_proofs` | its theorems |
| `QueryRuns` | run store, query service, container, `ask` |
| `RunLifecycle` | what a client may rely on about one run: the abstract specification |
| `QueryStream` | one event stream beside `QueryRuns` |
| `MCQueryRuns`, `MCQueryStream` | their small instances |
| `QueryRuns_proofs` | theorems about `QueryRuns` |
| `CandidateGate` | what a pipeline promises its caller: the abstract specification |
| `CandidateChecks` | Layer 4 as functions of a candidate and a question: policy, error classes, clause assessment, contracts, admission |
| `A1Pipeline` | one run of the A1 pipeline, with its budget and the provider's retries |
| `MCA1Pipeline` | its small instances |
| `A1Pipeline_proofs` | its theorems |
| `DirectBaseline` | one run of the P6 pipeline with its correction loop |
| `MCDirectBaseline` | its small instance |
| `DirectBaseline_proofs` | its theorems |

Operators whose comment begins with "Mutant" are deliberately wrong variants of the
definition that follows them. No specification uses them; each shows that a property
notices the bug.

### GuardedSuite

`pc[s]` follows `main()` and `guarded_process()` of suite `s`:

    off -> loaded -> (dropping) -> waiting -> top -> lease -> preflight -> spawned
        -> watch -> stop -> unload -> record -> cool -> cooling -> check -> top ...

with `failed` for the `except` branch. `mem[s]` holds the arguments, local variables
and the in-memory `SuiteState`; `disk[s]` the state file; `prefix[s]` the length of
the checkpoint; `report`, `latch`, `pause`, `deadline` the other files. `worker[p]` is
a process group: it reads the checkpoint once (`new`), infers one case (`infer`),
replaces the checkpoint (`saved`), writes the report if the manifest is complete and
exits. `resident` are the suites with a model loaded in Ollama.

Steps are cut where another actor can interfere: the prefix is read at `Launch`,
everything else at `Admit` (the code reads the checkpoint first, then state, latch and
the worker's liveness, and the first of these can go stale while an orphaned worker
checkpoints); the pause file's `stat()` and `unlink()` are two steps
(`FindStalePause`, `DropPause`); `Popen` and the recording of the pid are two steps
(`Spawn`, `RecordChild`); each stage of the guard's `finally` is one.

Abstractions:

* *Time.* `deadline[s]` says that the recorded `cooldown_until` is ahead. Sleeps end
  when it no longer is. File times are compared exactly: a pause file is `old` once a
  state write follows it.
* *Samples* are safe or breaching. A monitor failure is a breach, as in the code.
* *Cases* are counted: `prediction_prefix` admits a prefix of the manifest only.
* `max_batches` is the pause a signal also takes. The configuration identity is
  constant, so "configuration changed" does not occur. The report, once written, is
  valid: only `evaluate_*` over the complete manifest writes it, atomically.
* A supervisor has no resource but its locks; the kernel drops them when it dies.
* A worker is one process group. Its leader may exit before it (`LeaderExits`: "uv may
  exit before its Python worker"); after a clean exit what is left of the group writes
  nothing more, since the leader returns what its Python worker did. The guard stops the
  group in either case, and may fail to in either case.
* `resident` over-approximates: a worker that starts to infer loads its model.

History variables: `dirty` (a batch was cut short and none has ended cleanly since),
`asked` (an unanswered pause file), `lost` (the supervisor died between `Popen` and
`on_spawn`), `raced` (an orphan checkpointed while its successor was reading).

### BenchmarkSequence

`pc` follows `execute()` of `tmux_benchmarks.py`; the actor is the one process of the
tmux pane:

    off -> launched -> prepared -> guard -> owned -> ready -> top -> spawned -> watch
        -> ended -> top ... -> finishing -> finished -> off

with `reap` when the server fails under a worker, `except` for the `except` branch and
`final`, `closing` for `finally`. `st` is the `SequenceState` object and `disk` its file:
between `Popen` and `save()` they differ, and a kill there leaves a process no file
names (`lost`). `worker[w]` is a wrapper, reduced to what `GuardedSuite` establishes of
one batch: it refuses, pauses, checkpoints a case, fails, latches. `server[g]` is the
guardian (`relay`, and the `native` server on the Windows side) and its `proxy`. The
guardian reads `stop` and the heartbeat and writes `latch`; whether its cleanup could be
verified is part of the latch, since `close()` asks for it.

What may go wrong beside kills: occupied ports, resident models or a failing probe
(`StartRefused`), the proxy's `Popen` (`StartProxyFails`), the save of the worker's pid or
the start of its reader (`SaveWorkerFails`), a heartbeat (`CheckRaises`, `ReapFails`), the
checkpoint or save of the `except` branch (`RecordFails`), and `_stop()` of a worker,
relay or proxy that does not die (`ReapFails`, `StopRaises`). But for the first two of
`StartRefused` and the failing `Popen` they count as faults, with kills and reboots
(`MaxFaults`). `mem.abandoned` records that one of them has left the worker alive. The
save of the `finally` branch, those at a boundary and those of a start are assumed to
succeed.

Abstractions: a heartbeat is stale only when no sequence polls (it is 0.2 s old otherwise,
against a limit of 10 s); `--max-batches` is a pause; a recycled process id is not
modelled: ids that anything still refers to are not used again. A wrapper has no worker
process of its own here, so `WrapperRefuses` leaves out the refusal over a stale worker
(`_guarded_suite.py:133`), which `GuardedSuite` has. History variables: `dirty` as in
`GuardedSuite`; `lost`, the processes no file can name, because their sequence died before
it saved them or could not save them, and the native servers whose relay was killed while
no sequence was waiting for it, or that outlived WSL; and `author`, the guardian whose
cleanup the latch tells of.

`ShutdownIsSafe` is what an operator relies on before switching the machine off. With
null pids in the state file nothing of the sequence is running, natively either; when
the status window shows PAUSED and no longer PAUSING, nothing is running in WSL. It
excepts `lost`, and a native server for which the latch of another guardian vouched
(see below).

### SuiteRegister

The sequence, the status window and an operator know a suite by its checkpoint, report,
state file and latch. `SuiteRegister` says what these four may do: a case is added only
while the state says RUNNING, or under a latch that came first; nothing moves at PAUSED
and COMPLETE; COMPLETE takes every case and the report; and a latched suite neither begins
nor reaches a boundary. `GuardedSuite` implements it with all its supervisors, and the
wrappers of `BenchmarkSequence`, which stand for whole batches, implement it too: what the
sequence's model assumes of a batch and what the suite's model shows of it are one
specification. The one difference is a worker that no file names: after a kill between
`Popen` and the write of its pid it may replace the checkpoint at any time (`astray`).
`GuardedSuite` has such workers (`astray <- lost`); the model of a sequence has no worker
below its wrappers and hence none (`astray <- {}`).

### IndexBundle, BundleRegister, FrozenRun

A builder follows `build()`: lock, temporary directory, artifacts and manifest, rename,
pointer file, activation, unlock; it may be killed at each of them, and then its lock
stays. A version stands for all that its id is a hash of, so two builds of a version
write the same bytes.

A worker follows the set-up of a case in the order of the code, cut at every read of a
file that somebody else may replace: hash the world (`comparing`), compare with or
write the frozen identity (`copying`), copy and inspect the database (`opening`), read
the pointer for the provenance (`loading`), read it again to load the index
(`pinning`), record the provenance (`running`), append one row. Only the workload lease
is shared, and builders, database builds and editors do not take it. `migrate()` writes
its files one after the other, and the plan last. A row records what it was made of;
`raced` names the race its worker lost: `"identity"`, the pointer or the database was
replaced after the worker had hashed it and before it opened or copied it; `"pin"`, the
pointer was replaced between the two reads of `RuntimeBundle`. What is replaced after the
last read is no race.

Abstractions: contents of documents, vectors and cases; a database or a bundle is its
name; `.manifest.json` of the database is not read by workers.

### ResourceWatch

One guard observes one workload: `guard.at` follows the set-up of the monitors, the loop
(`gpu`, `ask`, `ram`, `judge`, `spawn`, `poll`) and the cleanup, and `guard.phase` says
which observation it is (`preflight`, `running`, `final`, then `over`). `guard.kind`
tells a batch (`resource_guard.py`) from the Linux model server
(`serve_ollama_guarded.py`), which differ in the final observation and in their
cleanup. The GPU's reader is a thread of its own: a frame is in its `hand` with the age
its timestamp has by the time it is judged; `pending` is what the guard has not taken.
The host's memory is asked for by request and answer, and an answer may be old, late or
sent twice. Ages and waits are counted in ticks: `FRESH_SECONDS` (0.5 s) is one tick and
`RESPONSE_TIMEOUT_SECONDS` (1 s) two, and the start-up limits (5 s, 15 s) are shortened to
two; an age stops one beyond the limit.

A level is safe or unsafe: what `unsafe_reason` makes of a sample. History: `unsafe` and
`silent`, what was measured before the guard last looked.

### QueryRuns, RunLifecycle, QueryStream

A process is `down`, `starting` (recovery runs), `up`, `closing` (its queue is cancelled
and the running query drains) or `asking` (the CLI). Its one working thread follows a
script of steps, the store calls of the code in order; `append_event` is two of them,
because it selects the next sequence number outside the transaction that inserts. A script
is extended when the runtime returns (`Answered`) or raises (`Failing`), and abandoned
when an exception escapes (`Raise`). `raised` is history: the runs an exception has ended
since a recovery last saw them. With FAILED stored such a run is an ordinary failure;
still open, it is one that nobody has any more (`Abandoned`). `submit()` is two steps, the
row and the job. Two servers overlap only while the older one drains, or until the newer
one fails to bind the port; `ask` overlaps with anything.

`RunLifecycle` is the abstract specification: accepted once, forward only, final when
COMPLETED or FAILED. `StatusFollowsLifecycle` states that `QueryRuns` implements it
through `life <- status`. It holds with one process at a time (kills and restarts
included) and not with two; what holds then is `OnlyRecoveryIsOverruled`.

`QueryStream` adds a client's stream: read the events after the cursor, then the
status, until the run is decided. uvicorn's graceful shutdown is external: it lets
open responses end before the lifespan hook closes the container.

Abstractions: the five layer events are `LayerEvents` equal ones; configuration and
timestamps are left out (`update_config` among them); a result is an answer or a
restart notice; a query's model calls end at their deadline.

### CandidateGate, CandidateChecks, A1Pipeline, DirectBaseline

A pipeline run is one thread. What is uncertain is what the model answers, whether
the server answers, what an execution raises, and how long each takes.

`A1Pipeline` follows `A1PipelineService.run`:

    route -> ground -> request (draft) -> evaluate -> critic -> request (critic)
          -> decide -> request (repair) -> evaluate -> finish -> done

with shorter ways through it: no critic, a compiled edit that is evaluated without a
request, a skipped repair, and every failure. `request` is one call of the provider:
`Refused` before anything is sent, `Send` with its outcomes `Unanswered`, `Malformed`
(asked again) and `Replied`. `attempts`, `sent` and `left` are the `RequestBudget`;
`evals`, `candidates`, `index` and `skipped` are the trace; `chosen` is the local
`selected`. One `StageFails` says where run() goes on when a stage raises: the draft
ends the run, the critic is passed over, the repair leaves the draft.

* *Time.* `left` is 2, 1 (less than the second that `can_request` and the repair ask
  for) or 0, and falls by any amount in every step that calls out.
* *SQL* is a record of what Layer 4 reads of its tree (`Sql`): whether it parses, passes
  and executes, the shape of its body, its ORDER BY keys, direction and LIMIT. A
  *question* is a record of what Layer 4 reads of it; the English and the Vietnamese word
  for a direction are two fields, because the clause critic and the repair contract read
  both and prefer different ones. `CandidateChecks` then follows the code function by
  function, so that a repair is assessed again by the same rules as the draft, never by
  assumption.
* Confidence, prompts, catalogs and the wording of findings are left out. A critic's
  answer decides nothing in the code either.

`DirectBaseline` follows `DirectBaselineService.run` and `CorrectionService.run`. No
SQL is validated twice there, so a candidate is a name and its report is chosen when
it is validated. `late` says that less than `min_remaining_seconds` are left; `repairs`
and `calls` are the two counters of the `LoopController`.

`CandidateGate` is what both implement: candidates are judged one after the other, at
most `Limit` of them (2 and 3), and the answer is one that was judged good, or none.

## 3. Properties and runs

| Run | Instance | Checks | States |
| --- | --- | --- | --- |
| `suite_restarts` | 1 suite, 2 cases, 2 worker pids, 1 fault, both ways to pause, fairness | `OrphansAreRecorded`, `CompleteIsTruthful`, `PilotFirst`, `PauseIsNotLost`, `WorkersStartAlone`, `FilesAreARegister`, `EveryLaunchEnds` | 550 000 |
| `suite_lease` | 2 suites, 1 case each, 1 pid, 1 fault | `OneBatchAtATime`, `CooldownIsKept` | 3 210 000 |
| `suite_stale` | 1 suite, 2 cases, 2 pids, 1 fault | `NoLaunchBesideStaleWorker` is **violated** | — |
| `sequence` | suites of 2 cases and 1 case, 2 servers, 2 wrappers, 1 fault, fairness | `ServerOutlivesWorker`, `ShutdownIsSafe`, `OrphansAreFound`, `RecoveryFirst`, `FilesAreARegister`, `SequenceAdvances`, `EveryRunEnds`, `NativesEnd` | 533 000 |
| `provenance` | 2 builders, 2 versions, 2 databases, 2 cases, 2 builds, 1 fault, 1 edit | `RowsMatchIdentity`, `RowsMatchPin`, `ContinuationIsFaithful`, `BundlesAreImmutable` | 2 620 000 |
| `sensors` | 1 guard of each kind, freshness 1 tick, answer and start-up 2 ticks, fairness | `BreachesAreJudged`, `SilenceIsNoticed`, `NothingIsLeft`, `EveryWatchEnds` | 1 340 000 |
| `query_overlap` | 2 processes, 2 runs, 1 fault | `TerminalHasTrace`, `OnlyRecoveryIsOverruled` | 1 140 000 |
| `query_streams` | 1 process, 2 runs, 2 faults, one stream, fairness | `OpenRunsAreOwned`, `StatusFollowsLifecycle`, `RunsAreDecided`, `EveryStreamEnds` | 64 500 |
| `query_stream` | 1 process, 1 run, no fault | `TerminalComesLast` is **violated** | — |
| `pipeline_a1` | 7 configurations, 8 questions, 42 answers, 1 retry | `RepairNeverHurts`, `EditIsLicensed`, `PlannedEditIsAdmitted`, `CriticLeavesBudget`, `OnlyAcceptedIsAnswered` | 1 670 000 |
| `pipeline_timeout` | as above | `TimeoutIsReported` is **violated** | — |
| `pipeline_p6` | 6 configurations, 3 candidates, 2 signals, 1 retry | `LoopMakesProgress`, `OnlyRepairableIsRetried`, `ResultIsOfCandidate`, `OnlyAcceptedIsAnswered` | 166 000 |

Some properties are theorems (section 4) and in no run. `CheckpointsAreKept` and, but for
the choice between FAILED and RESOURCE_STOP, `LatchIsFinal` follow from
`FilesAreARegister`; `LaunchAdvances` is the safety half of `EveryLaunchEnds`;
`RequestsAreBudgeted`, `LoopIsBounded`, `RunAdvances` and `IndexNamesSelection` bound one
thread's counters. Each can be added to the configuration of its module as it stands.

`OnlyRecoveryIsOverruled` speaks of everything a client can read of a decided run: its
status, its result and its events change only if a recovery had found it open.
`WorkersStartAlone` is the promise of the violated `NoLaunchBesideStaleWorker` with its
only exception.

Why the bounds are enough. Two cases tell the first, the last and an exhausted manifest
apart; a third adds another middle case. Two pids allow an orphan beside a new worker. One
fault is what the temporal formulas of `suite_restarts` leave room for; `Launch` and the
ordinary failures are not bounded, so refused, paused and failed starts follow it in any
number, and the theorems about the same properties hold for any number of faults: a kill
during the recovery from a kill is theirs. Two suites suffice for a lease that every suite
treats alike; that run leaves the pauses out, which touch no lease, and in it the operator
passes `--recovery-pilot` only where it is required (`PilotsRecover`) and a machine with
both suites latched is not followed further (`OneLatch`). The theorems below need none of
these bounds.

For the sequence, one suite of two cases gives a pilot, a second batch and a completion,
and the other suite a pilot that is also the last case; two servers and wrappers allow an
orphan of each beside a new one. One fault is one kill, reboot, failing write or process
that cannot be stopped; starts that are refused, batches that fail or pause and breaches
are not counted, and follow it in any number. Two builders and two versions give a rebuild
of the same and of another bundle while the first is read, and a return to an earlier
version; two cases let a row be appended after a change and leave a proper prefix to
continue from. `MaxEdits = 1` allows one replaced database or edited source for each run
of builds, and the continuation needs exactly one; a database that changes and changes
back is beyond this instance, but not beyond the theorems. The safety properties of the
sequence are theorems for any number of faults. In `sensors` an answer may take twice as
long as a GPU frame stays fresh, which is the case the code's order of sampling makes
difficult: its constants are 0.5 s and 1 s.

Two processes show every overlap of two writers of one run; `LayerEvents = 1` keeps a
script that can be interrupted between a layer event and PRESENTED. Pids, suites,
processes and runs are symmetric in the runs without temporal formulas over them. The
configurations of the pipelines are what `service_factory.py` and the profiles use and
what the unit tests vary, one field at a time; one retry tells the first answer, the last
and an exhausted provider apart; two of the eight questions name opposite directions in
two languages; three candidates are the most the loop can judge, and two signals give two
errors of one class with different fingerprints.

Fairness. `suite_restarts` assumes that a live supervisor keeps executing, that a worker
gets on (its requests have deadlines) and that time passes. It does not assume that
anyone starts, pauses or kills anything, that a child exits by itself with success, or
that a breach is ever seen. `sequence` assumes the same of a live sequence and a live
wrapper (what `EveryLaunchEnds` shows of the latter), and that a guardian polls: it
neither assumes a breach nor that anything is launched, paused or cleaned up. `sensors`
assumes that the guard's process is scheduled, that time passes and that a workload
ends at its deadline, and nothing at all of the sensors and the threads that read them.
`query_streams` assumes that a live process keeps executing its script and that the
event loop keeps polling. Kills, store failures and commands are never fair. The
pipelines and `provenance` have safety properties only.

Deadlock is not checked where the system really stops: a latched sequence may not be
launched again, a watch ends, and an index or a run that nobody begins again stays as it
is once the bounds on builds and edits are spent.

What the violations show:

* **A lost worker** (`suite_stale`). `Popen` (`resource_guard.py:209`) and the write of
  the child's pid (`:216`) are two steps. After a kill in between, the next
  `--recovery-pilot` start launches a second worker beside the first, in spite of
  "Stale worker is still alive; do not launch another model run". `lost` names this
  window; the passing properties except exactly those suites from what they say.
* **`terminal` before the last events** (`query_stream`). The stream reads events and
  then status; a run that completes in between ends the stream without them, although
  the integration test expects every layer of a finished stream.
* **Timeouts are not reported as such** (`pipeline_timeout`). `QueryTimeoutError` says
  "Query execution exceeded its deadline" (`executor.py:117`), and `normalize_error`
  looks for "timeout" or "interrupted". The class is UNKNOWN_RUNTIME_ERROR, whose
  message is not the one `error_normalizer.py` keeps for TIMEOUT.

Further observations. The passing properties hold in a form that allows for them, or
nothing in the repository says otherwise.

Query runs and pipelines:

* A recovery can fail a run that another process is still executing (a draining server,
  `ask`). Its COMPLETED then overwrites FAILED: `OnlyRecoveryIsOverruled` says that
  this is the only way a decided run is decided again.
* An exception before the `try` of `execute()` (the catalog is resolved there), or a
  store call that fails inside its `except`, leaves the run undecided; `_finish` assumes
  that "the service has already persisted FAILED". The run is decided by the next
  start's recovery. Until then it is `Abandoned`: `OpenRunsAreOwned`, `RunsAreDecided` and
  `EveryStreamEnds` except these runs and no others.
* A question may name a direction in English and the opposite one in Vietnamese ("the most
  ... 3 ... thấp"). The repair contract follows the English word (`repair_contract.py:66`),
  the assessment the Vietnamese one (`clause_critic.py:60`): the edit is compiled, executed
  and then refused, over a contradiction it was made to remove. `PlannedEditIsAdmitted`
  excepts these questions, and only a refusal for the direction.
* `run()` of the A1 pipeline catches the exceptions it expects (`a1_service.py:495`,
  `:616`). Another one leaves it without a result and fails the run in the query service;
  these are not modelled.
* With `max_repairs = 2`, a corrector that repeats the draft ends the loop with the
  draft's SQL beside the report and the rows of the first repair. The factory
  configures one repair, for which `ResultIsOfCandidate` holds.

Suites and sequences:

* An orphan that checkpoints the last case while its successor is between the prefix
  and the state file lets that successor complete without a final unload
  (`raced` in `CompleteIsTruthful`).
* A pause request that replaces an answered file between its `stat()` and its
  `unlink()` is dropped (`asked` does not count it). The launchers of the tmux scripts
  (`tmux_benchmarks.py:583`) remove pause requests without asking whether they were
  answered, those of an orphaned wrapper included.
* The `finally` branch closes the server beside a live worker when the worker's pid could
  not be saved or its reader not be started (`tmux_benchmarks.py:435`, before the `try`
  that interrupts the worker), when the heartbeat could not be written while it was waited
  for (`:313`), or when `_stop()` could not kill it (`:318`). `ServerOutlivesWorker` says
  that there is no fourth way, and that the worker is still in the state then.
* `close()` may raise ResourceGuardError from its own `_stop()` (`:270`, `:281`). The
  `finally` branch does not catch it (`:522`), so the sequence ends with neither a latch
  nor a saved state (`CloseRaises`). An `httpx.HTTPError` of `start()` passes the `except`
  branch by in the same way, and `checkpoint()` may raise once more inside it (`:512`).
* The guardian of a killed sequence latches after ten seconds without a heartbeat. A
  resume is therefore refused from then on until the latch is remediated.
* An orphaned proxy has no heartbeat: it blocks resumes until it is killed by hand.
* The latch does not say whose cleanup it verifies. When a guardian is killed and an
  earlier one has latched meanwhile, `close()` (`tmux_benchmarks.py:274`) accepts the
  earlier one's evidence for the later one's native server. It takes two guardians and
  two kills, since a sequence that finds a latch is refused its start: `author` in
  `ShutdownIsSafe`.
* The status window reads only whether the recorded guardian and proxy live. If both are
  killed while a sequence ends, it shows PAUSED before `close()` has judged their native
  server.
* COMPLETE is written from checkpoints and reports; the states of the suites are not read
  again (`tmux_benchmarks.py:390`), and the latches are not read again between the
  check and the `Popen` of a later batch.
* A second `execute` that loses `sequence.lock` does so inside the `try` and saves
  FAILED over the state of the one that holds it. The tmux pane starts one at a time, and
  the model has that restriction.
* A restart of WSL alone leaves the native server without an owner until its guardian
  notices: `lost` in `ShutdownIsSafe` and `OrphansAreFound`. `docs/v6_reproduction.md`
  (line 217) documents the boundary.

Indexes and checkpoints:

* A killed build leaves `.build.lock`; every later build is refused until somebody
  removes it (`RemoveStaleLock`).
* The identity hashes every file of the index directory. An identity frozen while a build
  is under way contains its lock and temporary files and is never met again: the
  checkpoint cannot be resumed.
* The provenance and the index are taken from two reads of the pointer
  (`service_factory.py:118`, `service.py:208`), with a request to the embedding server
  between them. An activation between the two pins one version and uses another
  (`"pin"` in `raced`); one between the hash and the load lets a row in that was made with
  another index than its identity names (`"identity"`), in spite of "A changed index cannot
  be mixed into a resume" (`runtime_checkpoint.py:54`), and an activation and its return
  make the next worker's comparison succeed. `RowsMatchPin` and `RowsMatchIdentity` except
  the rows of a worker that lost such a race, and say that nothing else (an activation
  outside the window, a resume, a rebuilt database, a continuation) mixes anything. Even a
  row that lost the race has an index and a database of one catalog.
* The database and its build manifest are replaced in two steps, two concurrent builds
  share one `.tmp`, and a download that is complete but not published asks for a range
  beyond the end at every further attempt. These are read from the code; no run is about
  them.

Sensors:

* The final observation of a short child (`resource_guard.py:230`) may consist of GPU
  frames accepted before the child was spawned or exited.
* The first answer of the Windows helper only shows that it works and is not judged.
* `serve_ollama_guarded.py` stops nothing once the server's first process has exited, so
  that runners of its group may live on; it makes no final observation, and a GPU monitor
  that fails to close is not latched. `NothingIsLeft` says of a server only what the
  latch says.

The workload lease dies with its supervisor, but the worker does not: `OneBatchAtATime`
is about supervisors. README's "one workload at a time" holds of workers only as long
as no supervisor is killed.

## 4. Proofs

`GuardedSuite_proofs` proves, for every number of suites, cases, pids and faults:

| Theorem | States | Inductive invariant |
| --- | --- | --- |
| `TypeCorrect` | `Spec => []TypeOK` | `TypeOK` |
| `OneBatch` | `Spec => []OneBatchAtATime` | `LeaseHeld`: a batch under way holds the lease |
| `LatchFinal` | `Spec => LatchIsFinal` | `LatchedIsLeaving`: a latched suite's supervisor has not passed the checks of `main()`, or is on the failing path out |
| `CooldownKept` | `Spec => CooldownIsKept` | `DeadlineIsAwaited` (a deadline ahead is being waited for, or will be) with `LeaseHeld` |
| `PauseKept` | `Spec => PauseIsNotLost` | `PausedAnswers` (an old file beside PAUSED is answered), `DroppingIsAnswered` |

`OneBatchAtATime` alone is not inductive: a state with one batch under way and a free
lease satisfies it and is one step from two batches. `LatchIsFinal` needs that the reason
for the latch survives the cooldown, for otherwise the batch would be taken for a success
and the suite would go on. Each invariant has a step lemma (one leaf per group of actions)
and a temporal lemma. The only assumption is `SuiteConstants`.

`SuiteFiles_proofs`, about the same specification, for every number of suites, cases, pids
and faults:

| Theorem | States |
| --- | --- |
| `OrphansRecorded` | `Spec => []OrphansAreRecorded` |
| `CompleteTruthful` | `Spec => []CompleteIsTruthful` |
| `CheckpointsKept` | `Spec => CheckpointsAreKept` |
| `PilotIsFirst` | `Spec => PilotFirst` |
| `WorkersAlone` | `Spec => WorkersStartAlone` |
| `FilesRegister` | `Spec => FilesAreARegister` |
| `AlwaysAdvances` | `Spec => LaunchAdvances` |

The first five rest on `KeptInv`: `LeaseHeld` and `LatchedIsLeaving` from above and, for
every suite, `Kept`. Its parts say that a supervisor beyond its start holds its own suite
lock (`HoldsItsOwn`, with what the exit status of its worker's leader says of the group);
that during a batch the state file names it (`BatchIsRecorded`); that a live worker is in
the state file, in the hands of a live supervisor or `lost` (`WorkersAreFound`); that what
a worker has read is a prefix of the checkpoint (`BaseIsCurrent`); that a batch that was
cut short is recorded as such (`CutIsRecorded`); that a failed cleanup is owed until it is
made good (`CleanupIsOwed`), and COMPLETE is not written before (`Truthful`). Since a
batch holds the lease, a step of one suite leaves what is said of the others alone: the
frame lemmas `Untouched` and `OthersUntouched` reduce every step to one suite.

`FilesRegister` is a refinement (READY, RUNNING and COOLING are "it runs"), and its hard
steps are those of a worker whose supervisor is dead. `LeftInv` says that while such a
worker lives, and is not `lost`, the suite says that it runs or is latched (`LeftBehind`),
and that between two batches it says that it runs (`BoundarySays`). A worker that could not
be stopped may therefore checkpoint after a latch, and nothing else moves at a boundary.

`AlwaysAdvances` rests on `LoopInv`: a batch without a reason to fail had a worker that
exited with 0, and such a worker leaves a report when it leaves no case open
(`ExitIsJudged`), even if its group lives on. The lemma `OwnStepAdvances` is the bound
itself. A suite with a `lost` worker is excepted, since that worker may replace the
checkpoint by a shorter one.

Type correctness rests on one fact worth naming: a worker that infers has a case left
(`Worker`), so that `prefix` never exceeds the manifest.

One idiom is deliberate: records inside functions are updated as
`[f EXCEPT ![s] = [@ EXCEPT !.a = .., !.b = ..]]`. The prover release used here
mistranslates two nested paths under the same function argument.

`A1Pipeline_proofs`, for every set of configurations, questions and answers and every
number of retries:

| Theorem | States | Inductive invariant |
| --- | --- | --- |
| `TypeCorrect` | `Spec => []TypeOK` | `Typed`: with `Staged`, which control point has how many evaluations |
| `BudgetKept` | `Spec => []RequestsAreBudgeted` | `Charged` |
| `DraftNeverLost` | `Spec => []RepairNeverHurts` | `Sound`: with `Traced`, the trace is what its evaluations say |
| `EditLicensed` | `Spec => []EditIsLicensed` | `Sound` |
| `PlannedAdmitted` | `Spec => []PlannedEditIsAdmitted` | `Sound` |
| `IndexKept` | `Spec => []IndexNamesSelection` | `Indexed` with `Sound` |
| `BudgetReserved` | `Spec => []CriticLeavesBudget` | `Reserved` with `Sound` |
| `GateImplemented` | `Spec => OnlyAcceptedIsAnswered` | `Sound` |
| `AlwaysAdvances` | `Spec => RunAdvances` | `Typed` |

The core of it is `PlannedEditHelps`, over the lemmas `OutputEditHelps` and
`RankEditHelps`: assessed again, SQL edited by the projection or the ranking contract has
strictly fewer contradictions and no new unknown, and differs only in the clauses that were
flagged. For a ranking edit this takes that the two rules read the same direction off the
question; where they do not (`OppositeDirections`) the edit may keep RANK_DIRECTION, and
then `PlannedAdmitted` says no more than that. The contracts for group counts and scalar
averages (`output_contract.py:173`) are in neither model nor theorem.
`Traced` carries this to the states: an evaluation is Layer 4's word on its SQL, the
contract is that of the draft, and the second evaluation was chosen if and only if it
was admitted. The assumption is `A1Constants`.

`DirectBaseline_proofs`, for every set of configurations, candidates and signals:

| Theorem | States | Inductive invariant |
| --- | --- | --- |
| `TypeCorrect` | `Spec => []TypeOK` | `Typed`: with `Counted`, the counters of the loop are those of `judged` |
| `BoundsKept` | `Spec => []LoopIsBounded` | `Paid`: what was sent before the current call, and by it |
| `RetriedWhenRepairable` | `Spec => []OnlyRepairableIsRetried` | `Repairable` |
| `ProgressMade` | `Spec => []LoopMakesProgress` | `Fresh` with `Repairable` |
| `ResultFits` | `Spec => []ResultIsOfCandidate` | `Returns`: a result carries no candidate, the last, or a repeated one |
| `GateImplemented` | `Spec => OnlyAcceptedIsAnswered` | all of them |
| `AlwaysAdvances` | `Spec => RunAdvances` | `Typed` |

`TypeOK` alone is not inductive: `repairs` stays below 3 because a correction is asked
for only below the configured maximum. `LoopMakesProgress` needs `Repairable`, for an
accepted repair of an accepted draft would repeat its fingerprint without
REPEATED_ERROR. The refinement maps the answer to a position in `judged`, which is
unique because no SQL is validated twice. The assumption is `DirectConstants`.

`FrozenRun_proofs`, for every number of builders, versions, databases, cases, builds,
faults and edits:

| Theorem | States | Inductive invariant |
| --- | --- | --- |
| `TypeCorrect` | `Spec => []TypeOK` | `TypeOK` |
| `BundlesKept` | `Spec => BundlesAreImmutable` | `IndexInv`: a builder past its lock excludes the others; what is renamed is complete |
| `IdentityMatched` | `Spec => []RowsMatchIdentity` | `WorkerInv` with `IndexInv` |
| `PinMatched` | `Spec => []RowsMatchPin` | `WorkerInv` with `IndexInv` |
| `ContinuationKept` | `Spec => []ContinuationIsFaithful` | `ParentInv`, `MigrationInv` |

`WorkerInv` relates, at each control point, what the worker has hashed and read to the
files as they are now, until its last read of them, unless `raced` says that they were
replaced before it, and what it has hashed to the frozen identity. `ParentInv`
says that a stopped parent is not extended any more, and `MigrationInv` what the
destination contains while its files are created. `BundlesKept` is a refinement: every
step of a builder publishes a complete bundle, activates a published one or stutters.
The assumptions are `IndexConstants` and `RunConstants`.

`QueryRuns_proofs`, for every number of processes, runs, layer events and faults:

| Theorem | States | Inductive invariant |
| --- | --- | --- |
| `TypeCorrect` | `Spec => []TypeOK` | `Typed`: with `IdleIsIdle`, `OnlyServersQueue` |
| `TraceKept` | `Spec => []TerminalHasTrace` | `TraceInv`: with `ScriptInv`, what is left of a script announces a decision before it writes it and writes nothing afterwards |
| `OverruledByRecovery` | `Spec => OnlyRecoveryIsOverruled` | `PlaceInv`: a run that no recovery has found open is in one place (a request, a queue or a thread), and nobody writes its row or its events once it is decided |
| `RunsOwned` | `OneProcess /\ Spec => []OpenRunsAreOwned` | `AloneInv`: `StatusFits`, `RecoveryIsApart`, `NobodyForgotten` |
| `LifecycleImplemented` | `OneProcess /\ Spec => StatusFollowsLifecycle` | `AloneInv` |

`OneProcess` says that there is one process; with two, the last two statements are false.
The assumption is `QueryConstants`.

`BenchmarkSequence_proofs`, for every number of suites, cases, servers, wrappers and
faults:

| Theorem | States | Part of `SequenceInv` |
| --- | --- | --- |
| `TypeCorrect` | `Spec => []TypeOK` | `Typed`: with `Engaged`, whom the sequence works with at each point of `execute()` |
| `ServerOutlives` | `Spec => []ServerOutlivesWorker` | `Known` with `LeftAlive`: a worker a failing step has left alive is in the state |
| `OrphansFound` | `Spec => []OrphansAreFound` | `Known`: a live process is `lost`, or known to the sequence while it runs and to the state file afterwards |
| `ShutdownSafe` | `Spec => []ShutdownIsSafe` | `Recording`, what the state file says of the run, and `Natives`, who answers for a native server |
| `RecoveryIsFirst` | `Spec => RecoveryFirst` | `Recovering`: that a batch was cut short is in the state file, or its recovery is under way |
| `FilesRegister` | `Spec => FilesAreARegister` | `FilesInv`, beside it: a wrapper past its refusals has its suite to itself, which says RUNNING and is not latched |
| `AlwaysAdvances` | `Spec => SequenceAdvances` | `BatchInv`, over `FilesInv`: the wrapper of a batch has ended well only with something done or because a pause was requested |

`BatchInv` is where the pause file, the suites' own pause files and the exit status of a
wrapper meet: a suite is told to pause only when the sequence is, or after a failing check
from which no batch returns (`ToldIsPaused`), and no exit status survives into the next
batch (`CodeIsFresh`). `Known` is not inductive alone: a kill hands the processes over
from the sequence's memory to its state file, and `Recording` says that the two agree by
then, or that the save itself had failed and the worker is left to `lost`. The assumption
is `SequenceConstants`.

`ResourceWatch_proofs`, for all deadlines:

| Theorem | States | Part of `WatchInv` |
| --- | --- | --- |
| `TypeCorrect` | `Spec => []TypeOK` | `Typed` |
| `BreachesJudged` | `Spec => []BreachesAreJudged` | `UnsafeKept`: an unsafe value is pending, in the guard's sample, in the answer it waits for, or has been judged |
| `SilenceNoticed` | `Spec => []SilenceIsNoticed` | `SilenceKept` with `Framed`: a silence shows in the age of the last frame or in the gap before the one in hand, until the guard looks |
| `NothingLeft` | `Spec => []NothingIsLeft` | `CleanedUp`: what each stage of the cleanup has achieved |

`Ordered` says which sensor is running at each point of the watch. The assumptions are
`WatchConstants` and `NothingIsNoFrame`.

`AlwaysAdvances` is said of four programs: a suite's start, a sequence and the two
pipelines. Its properties order the control points as the code does and say which step may
go back, and at what price. Another batch of a suite costs a case more than the batch began
with, and after the last case, or a batch that only makes a cleanup good, there is none.
Another batch of a sequence costs a case or the report, so that a wrapper that was paused
before its case is not counted (`tmux_benchmarks.py:481`). A request is repeated only
within the provider's attempts, and a correction within the loop's calls. They are the
safety half of "it ends": with them nothing goes round for ever, whoever is scheduled. That
a step is taken at all is the other half, and needs fairness. The sum of open cases that
makes a bound on the number of batches is left to the reader, since a sum over a set is an
induction over data.

Only model-checked: the liveness properties `EveryLaunchEnds`, `EveryRunEnds`,
`NativesEnd`, `EveryWatchEnds`, `RunsAreDecided` and `EveryStreamEnds`, because the proof
system handles neither fairness nor ENABLED. Every safety property of a passing run is a
theorem.

## 5. Plan

Every component whose state another one depends on is modelled, and every safety property
that a passing run checks is proved. What would be added next, in this order:

1. the SQLite authorizer with the row and byte caps of the executor (`executor.py`): a
   step budget, a deadline and a cap that end one query in different ways, now reduced to
   the error class `CandidateChecks` takes;
2. the two remaining output contracts and the semantic rules of P6, as operators on the
   clauses they read, with the theorem that an edit they license removes its contradiction;
3. the stages of one batch as an abstract specification of their own, which the guard of
   `GuardedSuite` and that of `ResourceWatch` both implement, as `SuiteRegister` is for the
   files;
4. what a client's stream may show of a run (`QueryStream`) as a theorem, beside the
   lifecycle that is one already.

Not modelled, and not planned:

* retrieval algorithms, introspection and profiling: functions of a bundle or a database
  file, without state of their own. What a state model can say about them is which bundle
  they read, and `FrozenRun` says it;
* planning, prompts, parsing and the text level of the SQL analysis: text in, text out;
  what they decide is in `CandidateChecks`;
* the feedback store: one INSERT per call into a table that nothing else reads;
* evaluation, reports and audits: sequential batch code over finished files, of which the
  suites need only that a report exists;
* the Streamlit UI: a client of the event streams;
* `update_config` of the run store reads, merges and writes the configuration in two
  transactions; only the thread that executes a run calls it, once (`service.py:83`), and
  nothing that is modelled reads the column. Its failure is modelled.

`PROJECT.json` gives the reason for each component that is modelled in part.
