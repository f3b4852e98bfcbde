# ai_fuzz_bounty: the verification project

TLA+ modules of the part of `fuzz_target_scout` that keeps state and must not
lose it: the discovery of repositories and the making of jobs from them, the
durable pipeline that takes a job through policy recheck, build, review, fuzzing,
triage and validation, the central agent that recovers jobs and reports to the
operator, and the housekeeping, all on a host that may stop at any moment.

Paths below are relative to the repository root `src/`; `fts/` stands for
`src/fuzz_target_scout/`.

## 1. The system

### 1.1 Processes and shared state

One service process runs the central agent (`fts/central_agent.py`). Its main
loop refreshes the candidates when that is due (`fts/engine.py`, `fts/storage.py`),
plans jobs from them (`fts/pipeline.py`), and runs a batch of the pipeline worker
(`fts/pipeline_worker.py`) in an executor thread; in a batch one job is advanced per
thread, sessions of the fuzzer run in parallel, and all other stages are serialised
by a lock. While the batch runs, the main thread is the monitor: it reviews the
jobs, recovers failed ones, queues strategies, cleans up, and tells the operator.
The operator's CLI (`fts/pipeline_cli.py`, `fts/cli.py`) is another process on the
same files.

There is no database between them, except for the candidates (SQLite), which only
discovery and `export` touch. The shared state is the run directory of a job: `job.json` (immutable), `state.json` (stage, status, counters), and one JSON
file per artifact: `integration-result.json`, `integration-manifest.json`,
`smoke-result.json`, `probe-result.json`, `quartet-review.json`,
`coverage-plan.json`, `fuzz-run.json`, `fuzz-progress.json`,
`afl-cmplog-run.json`, `triage-summary.json`, the validation report, and
`adaptive-strategy.json`. A file is written by rename, hence atomically; a
*handler* reads `state.json` once and makes several such writes. Nothing locks a
run directory, and nothing ties two of its files together except the session id,
which `state.json`, `fuzz-run.json` and `fuzz-progress.json` share.

### 1.2 Components

| Component | State | Operations | Correct when |
|---|---|---|---|
| Worker loop (`pipeline_worker.py`) | `state.json`; transitions of the call | select, advance through the stages, record an error, stop | no job spins, fails for ever or is picked up after its end; every job comes to rest |
| Pipeline runner (`pipeline_runner.py`) | all artifacts | prepare, integrate, build, smoke, probe, review, repair, analyse, generate, fuzz, AFL++ lane | no session runs an unapproved build; no handler misses a file; evidence is of the build it is used for |
| Fuzz accounting (`fuzz`, `afl_cmplog`) | `fuzz-run.json`, `fuzz-progress.json`, `afl-cmplog-run.json`, session ids | session, replay of a saved result, interruption, checkpoint, stall, continuation | each session is counted once, the budget holds, no finding is lost, the campaign ends |
| Triage (`triage.py`) | crash directory, `triage-summary.json` | minimise, reproduce, group, decide | only a reproduced crash reaches validation; a false alarm resumes fuzzing |
| Validation (`validation_agent.py`) | report | validate | a failure ends with a person |
| Recovery and follow-up (`central_agent.py`) | state, artifacts, the list of applied recoveries | retry stage, restart from integration, skip target, follow-up harness | bounded, never undoes a decision, never loses a finding |
| Adaptive strategies (`adaptive_strategy.py`, `yield_policy.py`, `stagnation.py`) | `adaptive-strategy.json` | queue, activate, evaluate, complete | each strategy once; no strategy hides a result |
| Harness generation, repair, gates | the harness, review and plan | generate, repair, gate, analyse | bounded generations; the gate is of this build |
| Discovery (`engine.py`, `storage.py`, `arm_preflight.py`) | candidates, search cursors, probe cache | scan, probe a build, score, export | only proven candidates are exported; a fitting one has its turn, but for the limits of a scan |
| Job creation (`pipeline.py`) | run directories | plan, quarantine | a repository is fuzzed in one job; a failed plan is made up for |
| Monitor and notifications (`central_agent.py`) | agent state, health incident, keys of events | look, review, notify, alert, recover | told once, not repeated, nothing forgotten |
| Housekeeping (`operations.py`) | corpus, build copies, containers, `state.json` | compact, strip, limit, remove orphans | costs no coverage, no session, no build in use; happens in the end |
| Operator's commands (`retarget.py`, `harness_repair.py`) | the job's files, its history directories | archive and generate anew, replace the harness | no finding is put aside, no unapproved build runs afterwards |
| Resources, migrations, VistaFuzz | see `PROJECT.json` | | |

`PROJECT.json` lists every component with its status, and every hazard with its
source line.

### 1.3 What makes it hard

* **Crashes between writes.** Handlers make two to fifteen writes. The host may
  stop between any two; the next worker has only the files to go by.
* **Interleaving.** The monitor rewrites `state.json` and moves artifacts
  while a handler of the same job works on the state it read before.
* **Long legal sequences.** Targets, repairs, generated harnesses, retries,
  restarts and follow-ups replace some of the artifacts, never all of them.
* **Accounting.** Interrupted sessions have fractions of seconds, the remaining
  budget has whole ones; a session may be counted by the handler that ran it or,
  after a restart, from its result file.
* **Reads that age.** Housekeeping merges a corpus for minutes between the read of
  the state and the removal of files; a plan is made from a look at the run
  directories that another planner changes; a monitor acts on what it saw before it
  asked the AI.
* **Deliveries.** A message may be lost, or arrive while its answer is lost; the
  agent may stop between sending and recording.
* **Starvation.** Discovery has few slots (pages, backlog, probes) and many reasons
  to leave a repository out for a time.
* **Termination.** Every one of these loops has its own counter, and some
  recoveries reset some of the counters.

## 2. The modules

| Module | Models | Uses |
|---|---|---|
| `JobPipeline` | one job from `queued` to its end: worker, all handlers, monitor, follow-up, the operator's `retarget` and `repair-harness`, crashes, stops | |
| `FuzzCampaign` | the inside of stage `fuzzing`: sessions, books, checkpoints, stall, strategies, AFL++ lane | instantiates `CampaignLedger` |
| `CampaignLedger` | what the books promise: an abstract ledger | |
| `FuzzCampaignProofs` | theorems about `FuzzCampaign` | extends it |
| `JobPipelineProofs` | theorems about `JobPipeline`: bounds, ends, reproduced crashes | extends it |
| `JobEvidenceProofs` | the theorem that only approved harnesses are fuzzed | extends `JobPipelineProofs` |
| `JobTargetsProofs` | the theorems on the targets that are tried and rejected | extends `JobEvidenceProofs` |
| `JobResultsProofs` | the theorems on time, findings and evidence between two handlers | extends `JobTargetsProofs` |
| `AgentAlerts` | the monitor's round, events, the health incident, the outage of the batch review, deliveries | `AlertsMC`, `AgentAlertsProofs` (theorems) extend it |
| `Upkeep` | housekeeping of one job next to its sessions | `UpkeepMC`, `UpkeepProofs` (theorems) extend it |
| `TargetSupply` | the main loop, discovery, probes, export, planning, quarantine, the operator's commands | `SupplyMC`, `TargetSupplyProofs` (theorems) extend it |

`JobPipeline` and `FuzzCampaign` overlap on purpose. `JobPipeline` takes a session
for one unit of time and one step of the handler; `FuzzCampaign` opens that step
and has a program counter for each write.

### 2.1 JobPipeline

`disk` is the run directory, one field per file; a field holds what the properties
tell apart (a verdict, a target, a kind of finding). A handler is one action: it
reads `disk` and sets `pending`, the writes it will make, in the code's order, and
`raised`, how it ends. `Write` brings one of them to disk. So each handler's
control flow is read in one place, and every interleaving with the monitor
(`Recover`, `MonitorWrite`) and with `Crash` falls between two writes as it does
in the program. Note that a handler's later writes carry the state it read before:
the lost update of the code is a lost update of the model.

| Code | Definition |
|---|---|
| `PipelineWorker._advance` | `AtStage` guards, `Ready`, `NeedsAttention`, `GiveUp`, `Return`, `StopSeen` |
| `PipelineWorker._record_worker_error` | `Recorded`, `RecordWorkerError` |
| `PipelineRunner.prepare ... probe` | `Prepare`, `Integrate`, `Build`, `Smoke`, `Probe` |
| `quartet`, `_apply_quartet_state`, `_retry_with_next_fuzz_target` | `Quartet`, `ApplyQuartetState`, `Candidates` |
| `_repair_quartet_harness`, `_archive_pre_generation_results` | `RepairQuartetHarness`, `ArchivePreGenerationResults` |
| `analyze`, `generate` and the limit on generations | `Analyze`, `Generate`, `GenerationLimit` |
| `fuzz`, `_apply_fuzz_result`, `_run_fuzz_session` | `Fuzz`, `ApplyFuzzResult`, `FuzzSession` |
| `afl_cmplog` | `Afl` |
| `triage`, `validate` | `Triage`, `Validate` |
| recovery options and their application (`central_agent.py`) | `Eligible`, `Options`, `Recovered`, `Recover` |
| follow-up harness | `FollowupAvailable`, `FollowupHarness` |
| `retarget_native_job` and its checks | `Replaceable`, `FreeOfFindings`, `FreeOfCrashes`, `OperatorMoves`, `Retarget` |
| `repair_native_harness` | `RepairHarness` |

The two commands hold the locks of the agent and of the worker, so that they start when
both are idle (`mode = "operator"`), and are handlers like the others: their moves are
`pending` writes, and `Crash` stands for a command that is killed as well. A command that
fails undoes its moves in reverse order, through the states it came by: it is not an
action of its own, for its end is the beginning and a kill on the way is a kill before.

External tools (container, compiler, fuzzer, AI review) are the free choice of
their outcome, with one kind of error for all of them (`ToolErrors`).

Two history variables serve the properties: `spent`, the most time ever recorded,
and `current`, the artifacts made with the build that is there now. No guard reads
them.

### 2.2 FuzzCampaign

Time is in ticks, `Second` of them a second, so that `int()` and the fractions of
interrupted sessions are as in the code. `progress.sessions` counts how often each
session was entered: it is the `sessions` list of `fuzz-progress.json`. `pc` names
the next write of the running handler; `Crash` sends it back to `idle`.

| Code | Definitions |
|---|---|
| `fuzz`, up to the session | `Refuse`, `ScheduleHarness`, `CheckStrategy`, `Replay`, `LowYieldFollowup`, `Finish`, `NoResultArtifact`, `StartSession` |
| the session and its three ends | `SessionEnds`, `SessionStopped`, `CountLost`, `SaveInterrupted` |
| `_apply_fuzz_result`, `_account_*` | `EvaluateStrategy`, `Account`, `EndCampaign`, `LogLimit`, `ApplyDictionary`, `SaveReady` |
| `_schedule_stagnation_harness` | `ReplanTo`, `ReplanStalled`, `MarkHarnessScheduled`, `SaveHarnessWork` |
| `afl_cmplog` | `AflStart` ... `AflDecide` |
| `generate` with `analyze` after it, as one step | `Generate` |
| triage of a false alarm | `FalseAlarm` |
| the agent's strategies | `QueueStrategy`, `CloseHarnessStrategy` |

### 2.3 AgentAlerts

`mem` is what the agent holds, `disk` what its state file has; a step either saves
or does not, as the code does, and `Crash` goes back to `disk`. `round` is the
monitor's round, with what it read before it asked the AI. A message is two steps:
`Send` (it arrives, is lost, or arrives while the answer is lost), and the recording.
`view`, `told` and `again` are the operator: what he believes, what he heard.
Events come and go (`EventVanishes`: triage moves the crash files of a false alarm away, a
summary is overwritten). All the agent's lists are limited: `digests` and `others` are the
digests of delivered messages, those that are looked up by name and the rest by number;
`forgotten` counts, for the properties only, how often the record of an event was
dropped for want of room.

| Code | Definitions |
|---|---|
| `monitor`, up to the review | `Look`, `Starves`, `OperationalProblems`, `NewFindings`, `NewJudgments`, `Ask`, `Abandon` |
| `_notify`, `TelegramNotifier.send` | `Send`, `SendOutcomes`, `Kept`, `Filed`, `Noted`, `RecordDigest`, `OtherMessage` |
| `_notify_adaptive_outcomes`, `_notify_campaign_rotations` | `PendingNotices`, `SendNotice`, `RecordNotice` |
| `_apply_health_improvements` | `Improve` |
| `_notify_findings`, `_notify_judgments` | `SendFindings`, `KeepFindings`, `RecordFindings`, `Recorded`, `SendJudgment`, `RecordJudgment`, `RecordJudgments` |
| the incident in `monitor` | `ShouldNotify`, `EffectiveSeverity`, `IncidentKey`, `StallHandled`, `InCooldown`, `Suppress`, `SendAlert`, `RecordAlert`, `SendRecovery`, `RecordRecovery`, `Quiet` |
| `_review_cycle` and the save after it | `ReviewFails`, `ReviewMessages`, `ReviewRecovers`, `TellReview`, `RecordReview` |

### 2.4 Upkeep

One job with its corpus, sessions and containers, and one housekeeping run at a time
(`.housekeeper.lock`), which the agent, the worker or the operator begins. A corpus
file is an input and a number that changes when it is written anew (inode, size and
time); features are what an input covers. `keeper` holds what the run has read.

| Code | Definitions |
|---|---|
| `Housekeeper.run`, its callers | `Begin`, `BeginByAgent`, `AgentFindsItBusy`, `BeginByWorker`, `BeginByOperator`, `End`, `Fail` |
| `_compact_corpus` | `Walk`, `Merge`, `Verify`, `Check`, `Unlink`, `StaysOver` |
| `_clean_job` | `Strip`, `MayStrip`, `Limit`, `MayStop` |
| `_active_containers`, `_clean_orphan_containers` | `Owners`, `Orphans` |
| `_scheduled_housekeeping` | `Attempted`, `HourPasses`, `Fail`, `End` |
| sessions, probes, the follow-up harness | `Register`, `StartProbe`, `Find`, `EndSession`, `Reopen` |

### 2.5 TargetSupply

The agent's process on an aarch64 host with the AI enabled, where every job needs
a probe of the native build. The world has a handful of repositories, of which it is
known whether their build works, whether the AI would refuse them, of which owner and
build family they are, and where a search lists them; commits, policies and existence
change. `agent` is the process' memory, with the phase of the discovery (seed, focused,
broad; active while jobs run; refresh for a plan without a discovery); everything else is
on disk.

| Code | Definitions |
|---|---|
| `CentralAgent.run`, `_refresh_candidates_if_due` | `Loop`, `AfterRefresh`, `WaitEnds`, `StartBatch`, `BatchEnds`, `EndPlan`, `ScanFails`, `IntervalPasses` |
| `ScoutEngine.scan`, `_discover` | `Discover`, `Found`, `FirstOfOwners`, `Excluded`, `Backlog`, `SeenLast`, `NextPage`, `Upsert` |
| `_preflight_arm_candidates`, `ArmPreflight.check` | `Probed`, `Before`, `Probe`, `Results`, `Leads`, `ProbedBefore`, `FirstAttempts`, `DeferProbes` |
| `_apply_ai`, `upsert_candidate`, `export_rows` | `Chosen`, `Score`, `Row`, `Eligible`, `ExportRow` |
| `_export_verified_candidates`, `prepare_jobs`, `make_work_order` | `Export`, `BeginPlan`, `WorkOrder`, `Passes`, `MakeDirectory`, `WriteJob`, `DirectoryInTheWay` |
| `quarantine_previously_selected_jobs`, `_runnable_jobs` | `Kept`, `Quarantined`, `Look` |
| `export` and `plan` of the CLI | `OperatorExports`, `OperatorPlans`, `InTheWay`, `Wanted`, `OperatorCreates` |

### 2.6 Slips

The modules contain definitions commented "A slip: ..." or "Slip: ...". Each is a plausible
mistake in the definition after it (a counter not reset, a guard dropped, a bound
one too late). They are used nowhere in the specifications; `PROJECT.json`
("mutants") names for each checked property a slip that makes it false, which
shows that the property says something about the code.

## 3. The runs

All runs take the specification as it is, without replacements and without state
constraints; bounds are the constants. The runs of `JobPipeline` and `FuzzCampaign`
say `CHECK_DEADLOCK FALSE`: a job that is over or waits for a person rightly has no
next step. The other modules follow a process that never ends, and their runs check
for deadlock.

### 3.1 Bounds and why they suffice

* `Routes`: a generated route, for which an integration may be rebuilt, and the route
  of an existing OSS-Fuzz project, which has the AFL++ lane.
* `Targets`: two, so that a rejected one leaves another; three in `JobHealthy`, where at
  most two may be tried (`MaxTargets`), so that the bound is met with a target left.
* `Budget` (JobPipeline): two sessions, so that a campaign can stall in the first
  one, get a new harness, and resume with time on the books; one in `JobFaults`,
  where errors in every stage are the interesting part.
* `MaxFailures = 2`: the failure that is retried, and the one that stops the job.
* `MaxGenerations`, `MaxRecoveries`, `MaxImprovements = 1`: each loop is entered
  once and refused once. `JobSecondHarness` has two generations.
* `Commands`, `MaxCommands`: one command of the operator, a `retarget` or a
  `repair-harness` in `JobHealthy`, one of these or a stop in `JobCrashes`.
* `MaxCrashes`, and `MaxStops` of FuzzCampaign: one. A second crash meets files that are no stranger
  than after the first in these handlers, except for what is said in 3.4.
* `MaxTransitions = 40` in `JobHealthy`, for 100 in the code: a job with a budget
  of two sessions has no legal path that long, hence reaching it is spinning.
* FuzzCampaign: 3 seconds of budget at 2 ticks per second, checkpoints of 2 s and
  halved to 1 s, a stall after 1 s, 10 session ids, which no behaviour of the
  passing runs uses up: the bound in `StartSession` never refuses a session there.
* `Alerts`: one job with one reason to fail, besides the system's own trouble, so that
  the set of problems grows and shrinks; two findings for the limit of a batch
  (`BatchLimit = 1`, 100 in the code) and of the recorded keys (`KeyLimit = 1`, 5000 in the
  code), so that the second finding drops the first; room for one digest (`DigestLimit`,
  500 in the code), so that every delivered message drops the one before; `Often = 3` is
  one more than one fault allows. Opinions of the review: nothing, a stall that got
  critical, a failure of the review itself. `Threshold = 1`: with 2 the run passes as well,
  and takes a third longer. Three changes of the world let a problem come, go and come
  back; `MaxFaults = 1` is one crash, stop, lost message or lost answer anywhere.
* `Housekeeping`: a limit of one file; two files at the start, of which one covers
  what the other does, a copy of it under another name, and a smaller input that can
  replace one; `MaxErrors = 3`, after which the agent waits longest. The times to the
  next attempt are shortened, in the order of the code's.
* `Supply`: three repositories: one that does not build and comes first in every order,
  one known from an earlier scan that no search lists, one on the second page of the
  general search. One slot in the backlog, two probes and one review a scan. One change of
  the world, one fault anywhere, one command of the operator.
* `SupplyProgress`: a fourth repository, listed after the third and of the same owner and
  build family, where a scan takes one of an owner (`OwnerLimit = 1`, 3 in the code), so
  that it has its turn only when the other got a job; one probe a scan, so that each order
  decides who is passed over. No catalog: the backlog and the search have to find them.
* `SupplyWedge`: `SupplyProgress` with three repositories, and without changes of the world.

### 3.2 Passing runs

| Run | Shows |
|---|---|
| `JobHealthy` | Tools that work, hence all that goes wrong is the pipeline's own: no handler misses a file (`InputsPresent`), triage and validation have their evidence (`EvidencePresent`), no crash file is left behind in an exhausted job (`NoFindingLeftBehind`), no time on the books is forgotten (`NoTimeForgotten`), a campaign closed as exhausted had its budget (`ExhaustedMeansSpent`), no more targets are tried than may be (`TargetsBounded`), no job spins (`TransitionsSuffice`); the same after the operator has started the job anew. |
| `JobFaults` | Failing tools and policy rechecks: `TypeOK`, all bounds over the whole life of the job (`AttemptsBounded`), a worker never selects a job that failed as often as it may (`FailuresStopTheJob`), a rejected target is not fuzzed (`RejectedNeverFuzzed`), and every job comes to rest (`JobSettles`). |
| `JobCrashes` | A crash between any two writes and a stop, a `retarget` or a `repair-harness` by the operator, which the crash may cut short: sessions start only on a build that was smoke-tested, probed, approved and analysed as it is (`ApprovedBeforeFuzzing`), a job that ended stays ended (`EndedStaysEnded`), and a crash that was reproduced is never put aside (`ReproducedKept`). |
| `CampaignNative` | Native route with crashes, runtime strategies and the operator's `afl-cmplog`: `CountedOnce`, `BudgetHolds`, `EveryResultCounted`, `TypeOK`. |
| `CampaignAfl` | OSS-Fuzz route with crashes: `AflCountedOnce`, `FindingEndsSession`, and the refinement `LedgerKept`. |
| `CampaignCalm` | No crashes, an operator's stop, follow-up harnesses: `PlanMatchesState`, and the campaign ends (`CampaignEnds`). |
| `Alerts` | With one fault anywhere, events that vanish, and lists that are full: an event is told once, and again only after a fault or when its record had to make room (`ToldOnce`); an event whose file stays reaches the operator (`EventsTold`); an alert is not repeated (`AlertsNotRepeated`); at rest the operator believes what the agent has on record (`ViewMatches`); trouble that stays is what he was told last, with exactly its reasons (`TroubleTold`); `TypeOK`. |
| `Housekeeping` | Three callers next to the sessions of a job, failures and a crash: the corpus keeps what it covered (`CorpusCovered`), a registered session is neither killed nor forgotten (`SessionKept`), build copies stay while the job may go on (`BuildKept`) and go once it is over for good (`CompletedCleaned`); `TypeOK`. |
| `Supply` | Discovery, planning and the operator's commands, with a fault anywhere: a job's commit has a proven build (`JobsProven`), a repository is fuzzed in one job (`OneCampaign`); `TypeOK`. |
| `SupplyProgress` | A repository that fits is selected in the end (`Supplied`): exclusions, cursors, the backlog's rotation and the order of probes do not pass it over, and one behind another of its owner has its turn when that has its job. |

### 3.3 Fairness

`JobPipeline`: `WF(Worker)`, `WF(Monitor)`. The service restarts its worker batch
for as long as a job can be selected, and a handler that has begun goes on; the
monitor is a loop with a sleep. Outcomes of tools are choices inside an action, so
that no fairness makes a tool succeed. Crashes, stops and the follow-up are not
fair. `FuzzCampaign`: `WF(Worker)`, for the same reason. Both liveness properties
hold because counters run out, not because some fortunate outcome must come.

`AgentAlerts`: the monitor's steps, the tail of a review, `Discovered` and `Restart`
are weakly fair: the run loop comes back to the monitor when idle, between batches and
at every `monitor_interval_seconds`, looks for candidates when nothing can run, and the
service is started again. A delivery is not fair: it is a choice inside the step, which
fails at most `MaxFaults` times. The world settles after `MaxChanges` changes.

`Upkeep`: a run that holds the lock goes on (merge and verification have deadlines);
hours pass; the agent's monitor, which comes by every few minutes, begins what is due; a
session ends, for it has a time limit. `Age` is strongly fair: the hours of retention
pass between runs, which are shorter. Nothing is assumed of the worker's and
the operator's runs, nor of failures, except that there are finitely many.

`TargetSupply`: the agent goes on or is started again (`WF(AgentSteps \/ Restart)`; the
unit file `scripts/install_central_agent_service.sh:65` restarts it after a failure, an
operator after a pause or a stop), the operator's command ends, and the discovery
interval passes while the agent waits again and again (`SF(IntervalPasses)`). Searches
and probes that fail are faults, of which there are finitely many.

### 3.4 Disagreements with the documentation

Runs that end in a violation, one property each. Each states what a document of
the repository says; `PROJECT.json` quotes the line.

| Run | Property | What the code does |
|---|---|---|
| `SupplyWedge` | `SupplyRecovers` | A host that stops between the making of a job's directory and its `job.json` leaves a directory that every later plan of this candidate fails on: the agent ends with an error or the discovery does, every time, and nothing after it in the export gets a job. `docs/FUZZ_PIPELINE.md:152-153` has it that `plan` makes job directories idempotently. |
| `JobSecondHarness` | `FurtherHarness` | `generate` refuses the second of two allowed generations, for the first one rewrote the harness that is compared with the pinned evidence. |

Further ones came up while modelling. They are not runs of their own; the model
has the behaviour, and the table says how to see it.

| Behaviour | Where | How to see it |
|---|---|---|
| A policy recheck that failed in a stage from `quartet_gate` on is retried automatically like a tool's failure, while `docs/OPERATIONS.md:94-96` says that a failed recheck ("정책 재검증 실패") is never handled automatically. | `fts/central_agent.py:1499` | in `JobFaults`, `Recover` is enabled with `last_error = "policy"` |
| A crash while results are archived, after `fuzz-progress.json` was moved and before the time is carried over, loses the time already fuzzed, while `docs/FUZZ_PIPELINE.md:241-242` says that after a reboot only the budget without that time is requested ("이미 완료한 실행 시간을 제외한 예산만 요청한다"). | `fts/pipeline_runner.py:3310` | `MaxCrashes = 1` in `JobHealthy.cfg`: `NoTimeForgotten` |
| A crash in the AFL++ lane leaves `afl_cmplog_running`, for which no worker has a handler, while `README.md:183-185` says that only the remaining budget is resumed after a stop ("남은 퍼징 예산만 재개한다"). | `fts/pipeline_runner.py:1511` | in `JobCrashes`, that status is reachable with `mode = "idle"` |
| A stopped session does not list its crash files; the campaign may end without anybody having looked at them, while `README.md:181-182` says that the worker minimises and reproduces what appears. | `fts/pipeline_runner.py:3034` | `Commands = {"stop"}` in `JobHealthy.cfg`: `NoFindingLeftBehind` |
| A session that a crash interrupts after it wrote a crash file leaves the file beside the earlier, quiet result; the next `fuzz` may close the campaign on that result (low yield, or no budget left), and triage then finds nothing listed. | `fts/pipeline_runner.py:998` | `MaxCrashes = 1` in `JobHealthy.cfg`: `NoFindingLeftBehind` |
| With a follow-up harness pending, a result saved just before a crash is archived uncounted, while `docs/FUZZ_PIPELINE.md:243-244` says that each checkpoint is counted exactly once ("한 번만 합산한다"). | `fts/pipeline_runner.py:956` | `HarnessStrategy = TRUE` in `CampaignNative.cfg`: `EveryResultCounted` |
| Crash files of a false alarm that triage moved away, and a summary that was written over or archived, before the next monitor has looked are never told, while `docs/CENTRAL_AGENT.md:22-25` promises a message on the crash and one on the verdict. | `fts/triage.py:86` | in `EventsTold`, `<>(e \in produced)` for `<>[](e \in produced)` |
| Of more than 5000 recorded findings or verdicts the oldest are forgotten, and those whose files are still there are told again, without a fault, while `docs/CENTRAL_AGENT.md:25-26` says that a finding is told once. | `fts/central_agent.py:2055` | drop `forgotten[e]` from `ToldOnce` |
| Of more than 500 delivered messages, of whatever kind, the oldest digests are forgotten: an outcome of a strategy or a rotation that is still on file is told again. | `fts/central_agent.py:2147` | the same |
| A recovery message that arrives just before a crash leaves the incident on record: the same problem, when it comes back, is taken for known and never told. | `fts/central_agent.py:832` | drop `unsure` from `TroubleTold` |
| The operator's `housekeep` removes the containers of probes, smoke tests and triage, which no state names, while `docs/FUZZ_PIPELINE.md:277` and its own help (`fts/pipeline_cli.py:130`) speak of orphans. | `fts/operations.py:563` | in `Housekeeping`, `Orphans` takes the container of a session with `step = "probe"` |
| The operator's `housekeep` may compact the corpus of a session that starts while it removes files, and overwrite the state of one that starts between its last read and its write. | `fts/operations.py:420` | drop `raced` from `CorpusCovered` and `SessionKept` |
| The operator's `plan` takes no lock: a second job of a repository, made between the agent's look at the queue and the batch, is fuzzed as well. | `fts/pipeline.py:94` | drop `raced` from `OneCampaign` |
| A crash between `job.json` and `state.json` leaves a repository that counts as selected for ever and has no job. | `fts/pipeline.py:147` | in `Supply`, a job that stays `"order"` |
| A repository that vanished from GitHub stays first in the backlog, for its row is never written again; as many of them as the backlog has slots stop it. | `fts/storage.py:424` | in `Supplied`, `Fine(r)` without `gone = {}` for the `Known` |
| A small repository whose probe is too slow is tried again every 15 minutes and may take every probe ahead of a bigger one that failed once. | `fts/engine.py:599` | in `Supplied`, without `\/ HasFailed(r)` |
| A scan keeps three repositories of an owner from what its searches list, while the cursor goes on: one behind three others that never get a job is never looked at. | `fts/engine.py:369` | in `SupplyProgress`, `Listed` without `FirstOfOwners`: "able" loses its policy, and "behind" waits |
| The AI reviews five candidates of a scan by static score, and those whose verdict is cached take a place as well: refused ones with a high score can keep one from its review that needs it to be handed off. | `fts/engine.py:745` | in `SupplyProgress`, "broken" in `Buildable`, `Refused` and `Catalog`, and `Fine(r)` without `GetsReview(r)` |
| A crash in triage after the crash files of a false alarm were moved closes the job as exhausted, budget unspent. | `fts/triage.py:86` | `MaxCrashes = 1` in `JobHealthy.cfg`: `ExhaustedMeansSpent` |
| A crash between `coverage-plan.json` and the state: `analyze` returns at once for ever. | `fts/pipeline_runner.py:703` | the same: `TransitionsSuffice` |
| A crash before `triage-summary.json`: validation without a summary. | `fts/triage.py:157` | the same: `EvidencePresent` |
| Interrupted sessions use the budget up and leave no result to finish with; the failure counts, while `docs/DESIGN_CONFORMANCE.md:20` says a service stop uses no failure budget. | `fts/pipeline_runner.py:1021` | `Commands = {"stop"}`, or `ToolErrors = {"tool"}`, in `JobHealthy.cfg`: `InputsPresent` |
| The operator's stop ends the AFL++ lane for good, for `afl_cmplog` takes it for a failure. | `fts/pipeline_runner.py:1525` | action `Afl`, `failed("stopped")` |
| A `retarget` that is killed, or interrupted from the keyboard (only `Exception` is caught), after it moved `generic-integration.json` leaves a job that it refuses from then on, and whose state still names the old stage. | `fts/retarget.py:296` | in `JobCrashes`, `Retarget` and then `Crash`: `Replaceable` is false at rest |
| A worker still holding the state it read overwrites the monitor's decision to skip the target. | `fts/pipeline_worker.py:292` | the invariant that `skipped_after_recovery` is final fails in every run of `JobPipeline` |
| A false alarm of the probe goes to fuzzing without review and analysis; the session is refused and the job charged with a failure. | `fts/triage.py:141` | `raised = "gate"` is reachable in `JobHealthy` |
| Retrying a failed generation calls the fuzzer, which refuses. | `fts/central_agent.py:104` | `raised = "harness"` is reachable in `JobFaults` |
| A crash between the plan and the state leaves a fuzzable job whose sessions are all refused. | `fts/pipeline_runner.py:1649` | `MaxCrashes = 1` in `CampaignCalm.cfg`: `PlanMatchesState` |
| After a further harness the operator's `afl-cmplog` counts the old run again, for the archive drops the flag and keeps the artifact. | `fts/pipeline_runner.py:3316` | `OperatorAfl = TRUE` in `CampaignAfl.cfg`: `AflCountedOnce` |
| The operator's `afl-cmplog`, applied to an artifact that is there while the job waits for its harness, sets the job `ready` with a plan that asks for the harness: its sessions are refused. | `fts/pipeline_runner.py:1489` | `OperatorAfl = TRUE` in `CampaignCalm.cfg`: `PlanMatchesState` |
| The monitor finds a job waiting for a review after a failed repair, begins a recovery, and completes that after the worker has recorded the failure and closed the job. | `fts/pipeline_worker.py:366` | drop `recovery # <<>>` from `EndedStaysEnded` |

## 4. The proofs

Eight modules prove, for every value of the constants (any budget, clock, bound, set of
targets, corpus, world of repositories, and any number of crashes, faults and commands),
what the runs check on small instances. Each extends the module it is about. None of the
properties is inductive as it stands; below is what has to be added, and why. Every
inductive invariant was an invariant of TLC's runs before it was proved; of those on
sequences of writes (4.2), which range over infinite sets, TLC had the part that speaks of
the disk.

Where a theorem assumes something, the statement is false without it, and a line in
3.4 shows how; for `NotCutOff`, see 4.2.

### 4.1 FuzzCampaignProofs

| Theorem | States | Assuming |
|---|---|---|
| `TypeCorrect` | `Spec => []TypeOK` | - |
| `EverySessionCountedOnce` | `Spec => []CountedOnce` | - |
| `BudgetAlwaysHolds` | `Spec => []BudgetHolds` | `~OperatorAfl` |
| `AflLaneCountedOnce` | `Spec => []AflCountedOnce` | `~OperatorAfl` |
| `EveryResultReachesTheBooks` | `Spec => EveryResultCounted` | `~OperatorAfl`, `~HarnessStrategy` |
| `FindingsGoToTriage` | `Spec => FindingEndsSession` | - |
| `PlanAgreesAtRest` | `Spec => []PlanMatchesState` | `~OperatorAfl`, `MaxCrashes = 0` |
| `CampaignImplementsLedger` | `Spec => LedgerKept` | `~OperatorAfl` |

* `SessionInv` adds to `CountedOnce` what makes counting once right: ids not given
  out are in no file (`FreshIds`); a session under way is not on the books and no
  complete result is its own (`UnderWay`); a complete result is on the books only
  if `progress.accounted` names it (`ResultOnce`). The last is what lets a restarted
  worker tell a counted result from one that was not.
* `TimeInv` adds the time: a session under way was given no more than remains
  (`TimeFits`), and the AFL++ run is on the books exactly when its flag is set
  (`AflOnce`). With `Whole(x) * Second <= x < (Whole(x) + 1) * Second` the budget and
  its grace of less than a second follow.
* `ResultKept` says when a complete result may be replaced: only when it is on the
  books. `EveryResultCounted` is an action property from it.
* `FindingAside`: a finding with its crash files still there belongs to the active
  session, which the next handler counts and sends to triage, or the job is over, or the
  AFL++ lane found something at the same time, which leads to triage as well.
* `PlanAside`: a plan that asks for a harness is only seen inside the handler that
  leads to `harness_work_pending`.
* The refinement maps the books to `charged` and the set of sessions with an entry
  to `booked`. A step that enters nothing is a stutter; one that enters a session
  is `Charge`, because `EnterOnce` and `TimeInv` give its guard.

### 4.2 JobPipelineProofs, JobEvidenceProofs, JobTargetsProofs and JobResultsProofs

| Theorem | States | Assuming |
|---|---|---|
| `TypeCorrect` | `Spec => []TypeOK` | - |
| `AttemptsHold` | `Spec => []AttemptsBounded` | - |
| `FailuresStop` | `Spec => []FailuresStopTheJob` | - |
| `ReproducedIsKept` | `Spec => ReproducedKept` | - |
| `EndsHold` | `Spec /\ []NotCutOff => EndedStaysEnded` | (in the statement) |
| `EvidenceHolds` | `Spec => [](PendingFine /\ RecoveryFine)` | - |
| `ApprovedHolds` | `Spec => ApprovedBeforeFuzzing` | - |
| `TargetsFit` | `Spec => [](PendingSound /\ RecoverySound)` | - |
| `TargetsAreBounded` | `Spec => []TargetsBounded` | - |
| `RejectedAreNotFuzzed` | `Spec => []RejectedNeverFuzzed` | - |
| `ResultsRest` | `Spec => [](crashes = 0 => PendingRests /\ RecoveryRests)` | - |
| `TimeIsNotForgotten` | `Spec => []NoTimeForgotten` | `MaxCrashes = 0` |
| `EvidenceIsPresent` | `Spec => []EvidencePresent` | `MaxCrashes = 0` |
| `ExhaustedIsSpent` | `Spec => []ExhaustedMeansSpent` | `MaxCrashes = 0` |
| `FindingsAreNotLeft` | `Spec => []NoFindingLeftBehind` | `MaxCrashes = 0`, no `"stop"` |

`NotCutOff` is `TransitionsSuffice`, where transitions are counted at all: a worker whose
call ends after 100 transitions records an error over whatever it wrote last.

The difficulty of this module is that a handler hands over its writes at once, while
crashes and the monitor come between them. An invariant of the disk alone says nothing of
the state that will be written tomorrow from what was read today.

* `CoreInv` therefore speaks of the disk (`TypeInv`: the states a handler may save,
  `GoodStates`, have all their counters within bounds), of the writes that are left
  (`PendingInv`: early ones, that leave the job to its worker, and then an end), of a
  reproduced crash (`ReproducedInv`: only validation and its writes follow) and of the
  two writers (`WorkerAlone`: while the worker writes, the job is in no status in which
  the monitor begins).
* `RecoveryInv` says the same of the monitor's writes: until it has saved the state,
  the worker has nothing left to write and may at most record the failure of its last
  handler.
* There is one lemma per handler (`...Does`), which describes the sequence of its writes;
  the bounds, the end of a job and the reproduced crash are then argued from the shape of
  the sequence, not handler by handler.
* `EndInv`, for `EndedStaysEnded`: the error that a handler raises next to such an end
  counts no failure, and nothing but a summary is still to be written.

`ApprovedBeforeFuzzing` needs more: after every single write the evidence has to fit the
stage, in every order in which targets, repairs, generations, recoveries and commands
replace it. `Fits` says what fits: up to the build there is no evidence; a stage that
makes the next piece has none of the later ones; a favourable review is of the build that
is there, unless there is none to run, or the plan asks for another. A crash may fall
between any two writes of a handler. So the invariant is on the rest of the writes: `Fine` is the set of all pairs
of a view of the disk and a sequence of writes after each of which the files fit, and of
which none begins a session that is not approved; it is defined as the union of all sets
that are closed under making the first write (`Sustained`), so that no induction over
sequences is needed. `PendingFine` says that this holds of the present disk and
`pending`; `Leads` composes pieces of a handler. `RecoveryFine` says it of the monitor's
writes, from every state in which the worker may leave the job in between (`Held`).

`TargetsBounded` and `RejectedNeverFuzzed` speak of the targets that the gate rejected
(`attempted` in the state), while three other files hold a target as well: the build, the
smoke test and the review. Each is written by a handler of its own and moved away by others,
and a crash may leave any of them behind, so that the gate rejects what an older file says.

* `Suits` says how the files fit the state. `Supplied`: whichever of the three targets is
  rejected next, there is room for it (`Room`), and the first target is always the first to
  go; otherwise a build, which prefers the first target, would come back to it later.
  `OutOfTurn`: the one moment in which a build has another target before a rejection is
  saved. `Unaided`: as long as no harness was rewritten and no recovery was begun, a tested
  target that is already rejected has nothing that speaks for it (`Unfavoured`), and no
  target was rejected while the job is still being prepared. `RepairPending`: a job whose
  harness is to be repaired was tested and probed.
* `Safe(G, S)` is, for any set `G` of snapshots of the files and any set `S`, the largest
  relation of writes and snapshots in which making the first write leads to another member,
  all snapshots on the way are in `G`, and the last one is in `S`. `PendingSound` is that relation for the
  snapshots that suit, of `pending` and the present files. `Reaches` composes pieces of a
  handler. This part of the module knows nothing of targets.
* `RecoverySound` says it of the monitor's writes, from every state in which the worker may
  leave the job while the monitor is at work (`Attended`).
* There is one lemma per handler again (`...Sound`), and for the moves of the operator and
  of the monitor one per file (`...Moved`).

The last four theorems are about a host that does not stop. They hold for any errors of the
tools, any recoveries, follow-ups and commands, and any interleaving of the monitor, while
the run `JobHealthy`, which checks them, has no errors of tools. (With crashes each of them
is false, see 3.4: a handler that is cut short leaves results, books and state at odds.)
They need to hold only when a handler has made all its writes, so `PendingRests` uses the
same `Safe(G, S)` with an `S` of its own:

* `Rests` says what the files have to say at rest. The time on the books is all that was
  ever recorded. A job in triage has the artifact its state names (`ThereIn`), and crash
  files with a result that lists them (`ListedIn`) or a campaign that is over (`TriageRests`):
  without the second half triage would close a job whose budget is not spent. Only the
  AFL++ lane's artifact is named by states before and after triage, and stays there
  (`ArtifactRests`). A finding of the probe has its crash file, and a probe without one has
  none (`CrashRests`), which is what the gate relies on; a stop by the operator between the
  crash and its record is the one exception (`Unstopped`). A follow-up harness at work is
  counted in the state (`Floor`), which is what an exhausted job may refer to later.
* `Open` is what an exhausted job must not lose even between two writes.
* `RecoveryRests` says that each single write of the monitor leaves the files at rest,
  from every state the worker may leave in between (`Steady`).
* There is one lemma per handler again (`...Rests`); `Gets` and `Keeps` follow the files
  through a sequence of writes one by one.

### 4.3 UpkeepProofs

| Theorem | States |
|---|---|
| `TypeCorrect` | `Spec => []TypeOK` |
| `BuildSafe` | `Spec => []BuildKept` |
| `SessionSafe` | `Spec => []SessionKept` |
| `CorpusSafe` | `Spec => []CorpusCovered` |

A run of the housekeeping acts on what it read before. `BuildInv` says that what was read
as complete and old is still complete, and that nobody with an earlier state in his hands
can take the job on once the copies are gone. `SessionInv` says that the state about to be
written and the list of owners name a registered session. `CorpusInv` follows the
compaction: every file is newer than a snapshot that missed it (`Inodes`), a session's
inputs are on disk (`HeldCovers`), a file that did not change since the snapshot has
nothing that the merge left out (`SnapshotSelected`), what remains once all redundant
files are gone covers everything (`SurvivorsCover`), and files are removed only while
there is no session (`UnlinkAlone`).

### 4.4 TargetSupplyProofs

| Theorem | States |
|---|---|
| `JobsAreProven` | `Spec => []JobsProven` |
| `OneCampaignHolds` | `Spec => []OneCampaign` |

They hold in every world: any repositories, owners, build families, listings and limits.

`SupplyInv`: evidence is of a commit that passed, wherever a row has got to: database,
export, the agent's plan, the operator's plan (`EvidenceInv`), and a probe that is under
way does not probe again what passed (`ProbeInv`). `CampaignInv`: at most one job of a
repository is running or over, and what a look at the queue left waiting has no second job
beside it until the batch starts (`AloneInQueue`), unless a job was made in between.

### 4.5 AgentAlertsProofs

| Theorem | States |
|---|---|
| `TypeCorrect` | `Spec => []TypeOK` |
| `AlertsAreNotRepeated` | `Spec => []AlertsNotRepeated` |
| `EventsAreToldOnce` | `Spec => []ToldOnce` |
| `OperatorKnowsTheRecord` | `Spec => []ViewMatches` |

They hold for any limits of the lists, any number of events and of messages.

`AlertInv` counts a repetition against the fault that made it possible: an alert that was
lost, or delivered and not recorded, is owed one (`Owed`). `ToldInv` does the same for
events: an event was told as often as there were faults and as its record was dropped,
and once more if it is marked, in a list or by the message on its way (`Marked`). For that,
every step that drops a mark must count it: `FiledStates` and `KeptStates` say what a full
list of digests loses, `RecordedList` what a full list of keys does, and `FileMarks` that
whatever loses its mark is counted in `forgotten`. The round must tell only what is not yet
on record (`FlowInv`). `OperatorKnowsTheRecord` adds that without a fault every message
has arrived (`Acknowledged`), so that the operator's beliefs and the record change together
(`HealthKnown`, `ReviewKnown`, `ToldKnown`).

### 4.6 What stays with TLC

* Liveness: `JobSettles`, `CampaignEnds`, `TroubleTold`, `EventsTold`, `CompletedCleaned`,
  `Supplied`. Temporal reasoning under fairness and `ENABLED` are out of the prover's reach.
* `TypeOK` of `TargetSupply`: it says what the selections from its sequences of candidates
  hold (`SelectSeq`), an operator that the prover cannot expand and the library has no
  facts on. The theorems there rest on a type invariant of their own (`TypeInv`), without
  the sequences, which is proved.
* `InputsPresent` of `JobPipeline`, which holds only where neither a crash, a stop nor an
  error of a tool cuts a session short (3.4): a theorem would be about undisturbed jobs,
  and needs one more invariant at rest, on the files that each stage reads.
* `TransitionsSuffice`: true of small budgets only (see 3.1).

Each step lemma has one step per action, and one below it for each conjunct that
the action can disturb.

## 5. Abstractions

* Vendored and native harnesses differ in some recovery options; the model takes
  the larger set of options.
* The copies that archives leave in `history/`, and the cap on the length of the
  history lists in `state.json`, are left out: no handler reads them.
* The integration manifests of the routes are one file. A missing
  `fuzz-progress.json` is one with zero time.
* `JobPipeline`: stagnation of coverage is a free choice; checkpoints, dictionaries
  and adaptive strategies are in `FuzzCampaign` only.
  Its `Fuzz` reschedules a native job of low yield whenever the follow-up may still be
  made, with budget left; which strategy must have failed first is in `FuzzCampaign`.
* The CLI's commands that run a single stage are not in `JobPipeline`; `afl-cmplog` by hand is in
  `FuzzCampaign`, between handlers.
* A failed policy recheck in the follow-up ends the agent's process in the code; the
  model takes the recheck there as passed.
* The three runtime strategies are one. A strategy file's read and write are one
  step; the race between the monitor and the worker on this file is planned.
* The agent decides on an overview of the jobs that may be out of date: `QueueStrategy`
  therefore does not read the present progress.
* The yield verdict, above the minimum time, is a free choice.
* Session ids are time stamps, never reused. In `JobPipeline` only four exist at a
  time, of which one is always free.

* `AgentAlerts`: the text of a message is left out, and with it that an alert names
  only the first six problems and a finding's message the first fifteen. Messages about
  anything else (`OtherMessage`) are only their digest. Which digest a full list drops is a
  free choice: the code drops by the order of a dictionary, which is that of insertion, and
  after a restart that of its keys. An empty crash file is one that was not produced yet.
  An event whose file comes back under the same key is the same event. The first
  look of an agent upgraded from a version without verdicts, which takes the old ones as
  told, is not modelled. What the review of the AI says is free, in each round.
  `StillUnavailable` is in the model and never decides anything there: an idle agent
  always has the system's own problem.
* `AgentAlerts` shows what the operator is told, not that it is good to tell it: an
  undelivered alert takes the place of a delivered one on record; a recovery notice of the
  batch review is not tried again; a stop during a review counts as its outage.
  `candidate_supply_*` and `periodic_housekeeping_failed` are saved before they are sent
  and may be lost: not modelled.
* `Upkeep`: one job. The corpus' size in bytes, the caps on a merge, links and unreadable
  files are the free choice to leave a corpus over its limit. A directory
  `.fts-merge-*` that a crash leaves behind, and that the next run takes for a corpus,
  is left out, and so is `_prune_files`. An exception that ends the worker's batch is not
  modelled. A housekeeping run is shorter than the time of retention, and a follow-up
  harness comes within that time of the job's end.
* `TargetSupply`: an aarch64 host with the AI enabled. On x86_64 no probe is needed, and
  `stop_after_success` never applies with the AI. The cooldowns of repositories with a
  job are redundant (each is excluded for good), as are the guards of the probe that the
  exclusion before the scan has made already. The limit of candidates of a scan, several
  queries or pages in one scan (the cap for an owner therefore counts within one page), and
  scores apart from "near" and "enough" are left out: which of the candidates with the best
  scores the AI reviews is a free choice. The operator's plan makes its jobs in one step,
  unless a directory is in the way, and then any part of them. A lookup in the catalog that
  fails is only a warning in the code.
  The focus of the next search is taken for durable. A worker takes its jobs once for a
  batch. GitHub does not list a repository on a page after an empty one.
* `TargetSupply`: an AI review that fails leaves the static score, so that a candidate it
  would refuse can get a job; the operator's export replaces the file in place. Neither
  breaks a promise of the documents.

## 6. The plan

Done: the job's life cycle with recovery, crashes, stops and the operator's commands; the
fuzz accounting with its abstract ledger; the monitor's alerts; housekeeping; the supply of
jobs; the proofs of section 4.

Next, in this order:

1. `JobLifecycle`: the stages and statuses without files, implemented by `JobPipeline`.
2. `StrategyFile`: the read-modify-write race on `adaptive-strategy.json`.
3. `WorkerBatch`: the parallel batch, its lock and the stop.

Not modelled: `migrate`, which adds missing fields to states of the first schema;
`resources.py`, which is arithmetic without state; the VistaFuzz adapter and the CLI's
displays, which only print; the texts of policies, prompts and reports, and the HTTP
client. Their outcomes appear as free choices where they matter.
