----------------------------- MODULE FuzzCampaign -----------------------------
(***************************************************************************)
(* One fuzzing campaign (PipelineRunner.fuzz and afl_cmplog): sessions of  *)
(* at most one checkpoint each, until the budget is spent, and the books   *)
(* kept about them.  JobPipeline takes a session for one unit of time;     *)
(* here time has fractions of a second, every session has its id, and the  *)
(* files state.json, fuzz-run.json, fuzz-progress.json,                    *)
(* afl-cmplog-run.json, coverage-plan.json and adaptive-strategy.json are  *)
(* written one after the other, so that the host may stop in between.      *)
(*                                                                         *)
(* The session id links the three files that mention a session: the state  *)
(* names the active one before it starts, the result names the one it is   *)
(* of, the progress names the last one it counted.                         *)
(***************************************************************************)
EXTENDS Integers

CONSTANTS
  Native,           \* whether the job's route is native_generated
  Budget,           \* budgets.fuzz_seconds
  Second,           \* clock ticks per second
  Checkpoint,       \* pipeline.fuzz_checkpoint_seconds
  MinCheckpoint,    \* 300 s: the least adaptive checkpoint, the least run before an RSS restart
  MinTriageCheckpoint,  \* 60 s: the least that triage reduces the checkpoint to
  StallLimit,       \* pipeline.coverage_stall_seconds
  MinYieldSeconds,  \* pipeline.low_yield_min_seconds
  AflSeconds,       \* pipeline.afl_cmplog_seconds
  AutoImprove,      \* agent.auto_improve: the monitor queues strategies
  HarnessStrategy,  \* whether it may queue generate_followup_harness
  OperatorAfl,      \* whether the operator may call afl-cmplog by hand
  MaxGenerations,   \* pipeline.max_generation_cycles
  MaxFailures,      \* pipeline.max_stage_failures
  MaxSessions,      \* bound: session ids
  MaxCrashes,       \* bound: how often the host stops dead
  MaxStops          \* bound: how often the operator stops the service

ASSUME ConstantsAssumption ==
  /\ {Budget, Second, Checkpoint, MinCheckpoint, MinTriageCheckpoint, AflSeconds} \subseteq Nat \ {0}
  /\ {StallLimit, MinYieldSeconds, MaxGenerations, MaxFailures, MaxSessions, MaxCrashes, MaxStops}
       \subseteq Nat
  /\ {Native, AutoImprove, HarnessStrategy, OperatorAfl} \subseteq BOOLEAN

VARIABLES
  state,        \* state.json, as far as the campaign goes
  progress,     \* fuzz-progress.json
  run,          \* fuzz-run.json
  crash_files,  \* whether files lie in crashes/<target>/
  afl,          \* afl-cmplog-run.json
  plan_ready,   \* coverage-plan.json: review.execution_ready
  strategy,     \* adaptive-strategy.json: the current entry and the names used
  pc,           \* the next write of the running handler
  elapsed,      \* ticks that the session just lost had run
  next_id,      \* the next session id (time.time_ns())
  crashes, stops

vars == <<state, progress, run, crash_files, afl, plan_ready, strategy, pc, elapsed,
          next_id, crashes, stops>>
environment == <<next_id, crashes, stops>>

Ids == 1..MaxSessions
AFL == 0                                    \* the entry of the AFL++ lane in the list of sessions
HARNESS == "generate_followup_harness"
RUNTIME == "enable_value_profile"           \* stands for the three runtime strategies

FUZZABLE == {"ready", "running", "interrupted"}
Statuses == FUZZABLE \cup
  {"afl_cmplog_pending", "afl_cmplog_running", "harness_work_pending", "triage_pending",
   "manual_review", "recovery_pending"}

\* What a session may end with; a "broken" one failed without a sanitizer artifact.
Results == {"passed", "finding", "rss_restart", "log_limit", "broken"}
NoRun == [result |-> "none", session |-> 0, accounted |-> 0, advanced |-> FALSE]
NoAfl == [result |-> "none", ticks |-> 0]

SmallerOf(a, b) == IF a <= b THEN a ELSE b
LargerOf(a, b) == IF a >= b THEN a ELSE b
Whole(ticks) == ticks \div Second           \* int() of a number of seconds

Limit == Budget * Second
Remaining == Budget - Whole(progress.completed)
CheckpointSeconds ==
  SmallerOf(Checkpoint, IF progress.checkpoint = 0 THEN Checkpoint ELSE LargerOf(1, progress.checkpoint))

CanReplan == state.generations < MaxGenerations
Complete(r) == r.result \in {"passed", "finding", "rss_restart"}
\* A slip: only a session that passed is looked for after a restart.
CachedPassed == run.result = "passed" /\ run.session = state.active

Cached == Complete(run) /\ run.session = state.active

Flag(status) == [state EXCEPT !.status = status]
Idle(status) == [state EXCEPT !.status = status, !.active = 0]

-----------------------------------------------------------------------------
(* PipelineRunner.fuzz, as far as the start of a session.  It is called by *)
(* the worker with the job's state fresh from the disk.                    *)

Selected == pc = "idle" /\ state.status \in FUZZABLE
Queued(name) == strategy.status = "pending" /\ strategy.current = name

\* The plan asks for a further harness: no session before there is one.
Refuse ==
  /\ Selected /\ ~plan_ready
  /\ pc' = "error"
  /\ UNCHANGED <<state, progress, run, crash_files, afl, plan_ready, strategy, elapsed, environment>>

\* A follow-up harness queued by the agent: the plan is turned, then the strategy closed,
\* then the state saved.
ScheduleHarness ==
  /\ Selected /\ plan_ready /\ Queued(HARNESS) /\ CanReplan
  /\ plan_ready' = FALSE
  /\ pc' = "scheduled"
  /\ UNCHANGED <<state, progress, run, crash_files, afl, strategy, elapsed, environment>>

CloseHarnessStrategy ==
  /\ pc = "scheduled"
  /\ strategy' = [strategy EXCEPT !.status = "scheduled"]
  /\ pc' = "to_generate"
  /\ UNCHANGED <<state, progress, run, crash_files, afl, plan_ready, elapsed, environment>>

\* Any other strategy is activated, or fails when no candidate is left for a harness.
CheckStrategy ==
  /\ Selected /\ plan_ready
  /\ strategy' = IF Queued(RUNTIME) THEN [strategy EXCEPT !.status = "active"]
                 ELSE IF Queued(HARNESS) THEN [strategy EXCEPT !.status = "failed"]
                 ELSE strategy
  /\ pc' = "checked"
  /\ UNCHANGED <<state, progress, run, crash_files, afl, plan_ready, elapsed, environment>>

\* A result saved just before the service went down is counted instead of fuzzing again.
Replay ==
  /\ pc = "checked" /\ Cached
  /\ pc' = "evaluate"
  /\ UNCHANGED <<state, progress, run, crash_files, afl, plan_ready, strategy, elapsed, environment>>

Fresh == pc = "checked" /\ ~Cached
LowYield == run # NoRun /\ run.result # "finding" /\ progress.completed >= MinYieldSeconds * Second

\* The campaign is over: by the verdict of the yield policy, or with the budget spent.
Finish ==
  /\ Fresh
  /\ LowYield \/ (Remaining <= 0 /\ run # NoRun)
  /\ state' = Idle("triage_pending")
  /\ pc' = "idle"
  /\ UNCHANGED <<progress, run, crash_files, afl, plan_ready, strategy, elapsed, environment>>

NoResultArtifact ==
  /\ Fresh /\ Remaining <= 0 /\ run = NoRun
  /\ pc' = "error"
  /\ UNCHANGED <<state, progress, run, crash_files, afl, plan_ready, strategy, elapsed, environment>>

\* A slip: the last session is as long as the others.
SessionBudgetWhole == CheckpointSeconds

SessionBudget == SmallerOf(Remaining, CheckpointSeconds)

StartSession ==
  /\ Fresh /\ Remaining > 0
  /\ next_id \in Ids
  /\ state' = [Flag("running") EXCEPT !.active = next_id, !.seconds = SessionBudget]
  /\ next_id' = next_id + 1
  /\ pc' = "running"
  /\ UNCHANGED <<progress, run, crash_files, afl, plan_ready, strategy, elapsed, crashes, stops>>

-----------------------------------------------------------------------------
(* The session itself, and the exception that ends it without a result.    *)

Requested == state.seconds * Second

\* The ticks that a session may be counted for, by the way it ended.
Accountable(result) ==
  CASE result = "passed" -> {Requested}
    [] result \in {"finding", "log_limit"} -> 1..Requested
    [] result = "rss_restart" ->
         {t \in 1..Requested + 1 : t >= MinCheckpoint * Second /\ 4 * t >= Requested}
    [] result = "broken" -> 0..Requested

\* A session that fails may have written its useless result first.
SessionEnds ==
  /\ pc = "running"
  /\ \E result \in Results, advanced \in BOOLEAN : \E ticks \in Accountable(result) :
       LET broken == result = "broken"
           file   == [result |-> result, session |-> state.active,
                      accounted |-> IF broken THEN 0 ELSE ticks, advanced |-> advanced]
       IN  /\ run' = file \/ (broken /\ run' = run)
           /\ crash_files' = (crash_files \/ result = "finding")
           /\ elapsed' = IF broken THEN ticks ELSE 0
           /\ pc' = IF broken THEN "lost" ELSE "evaluate"
  /\ UNCHANGED <<state, progress, afl, plan_ready, strategy, environment>>

\* The operator stops the service: no result is written.
SessionStopped ==
  /\ pc = "running" /\ stops < MaxStops
  /\ stops' = stops + 1
  /\ \E ticks \in 0..Requested : elapsed' = ticks
  /\ pc' = "stopped"
  /\ UNCHANGED <<state, progress, run, crash_files, afl, plan_ready, strategy, next_id, crashes>>

\* An entry in the list of sessions.
Entered(p, id, ticks) ==
  [p EXCEPT !.completed = @ + ticks, !.sessions[id] = @ + 1]

CountLost ==
  /\ pc \in {"lost", "stopped"}
  /\ progress' = Entered(progress, state.active, elapsed)
  /\ pc' = IF pc = "lost" THEN "lost_state" ELSE "stopped_state"
  /\ UNCHANGED <<state, run, crash_files, afl, plan_ready, strategy, elapsed, environment>>

\* The worker returns after an operator's stop and counts any other failure.
SaveInterrupted ==
  /\ pc \in {"lost_state", "stopped_state"}
  /\ state' = Idle("interrupted")
  /\ pc' = IF pc = "lost_state" THEN "error" ELSE "idle"
  /\ elapsed' = 0
  /\ UNCHANGED <<progress, run, crash_files, afl, plan_ready, strategy, environment>>

\* A slip: _record_worker_error stores the stage in place of a status.
ErrorStatusStage == IF state.failures + 1 >= MaxFailures THEN "manual_review" ELSE "fuzzing"

ErrorStatus ==
  IF state.failures + 1 >= MaxFailures THEN "manual_review"
  ELSE IF state.status = "interrupted" THEN "interrupted" ELSE "recovery_pending"

\* A slip: a failure sends the job back without being counted.
RecordWorkerErrorUncounted ==
  /\ pc = "error"
  /\ state' = Flag("interrupted")
  /\ pc' = "idle"
  /\ UNCHANGED <<progress, run, crash_files, afl, plan_ready, strategy, elapsed, environment>>

RecordWorkerError ==
  /\ pc = "error"
  /\ state' = [Flag(ErrorStatus) EXCEPT !.failures = @ + 1]
  /\ pc' = "idle"
  /\ UNCHANGED <<progress, run, crash_files, afl, plan_ready, strategy, elapsed, environment>>

-----------------------------------------------------------------------------
(* _apply_fuzz_result: the books, then what the result leads to.           *)

\* A slip: the last session counted is not remembered.
CountedNever == FALSE

Counted == progress.accounted = run.session
SessionTime == SmallerOf(run.accounted, LargerOf(0, Limit - progress.completed))

\* evaluate_runtime_strategy writes its file before the progress is written.
EvaluateStrategy ==
  /\ pc = "evaluate"
  /\ IF Counted \/ SessionTime = 0 \/ strategy.status # "active" THEN UNCHANGED strategy
     ELSE \E over \in BOOLEAN :
            strategy' = [strategy EXCEPT !.status = IF run.advanced THEN "succeeded"
                                                    ELSE IF over THEN "ineffective" ELSE @]
  /\ pc' = "account"
  /\ UNCHANGED <<state, progress, run, crash_files, afl, plan_ready, elapsed, environment>>

AdaptedCheckpoint ==
  LargerOf(MinCheckpoint,
           SmallerOf(IF progress.checkpoint = 0 THEN Checkpoint ELSE progress.checkpoint,
                     LargerOf(Second, run.accounted) \div (2 * Second)))

Accounted ==
  LET stalled == IF run.advanced THEN 0 ELSE progress.stalled_seconds + Whole(SessionTime)
      entered == Entered(progress, run.session, SessionTime)
  IN  [entered EXCEPT !.accounted = run.session,
                      !.checkpoint = IF run.result = "rss_restart" THEN AdaptedCheckpoint ELSE @,
                      !.stalled_seconds = stalled, !.stalled = (stalled >= StallLimit)]

Account ==
  /\ pc = "account"
  /\ progress' = IF Counted \/ SessionTime = 0 THEN progress ELSE Accounted
  /\ pc' = "decide"
  /\ UNCHANGED <<state, run, crash_files, afl, plan_ready, strategy, elapsed, environment>>

Spent == progress.completed >= Limit

\* A finding, or the end of the campaign, goes to triage; endless logs to a person.
EndCampaign ==
  /\ pc = "decide" /\ run.result # "log_limit"
  /\ run.result = "finding" \/ LowYield \/ Spent
  /\ state' = Idle("triage_pending")
  /\ pc' = "idle"
  /\ UNCHANGED <<progress, run, crash_files, afl, plan_ready, strategy, elapsed, environment>>

LogLimit ==
  /\ pc = "decide" /\ run.result = "log_limit"
  /\ state' = [Idle("manual_review") EXCEPT !.failures = LargerOf(1, @)]
  /\ pc' = "idle"
  /\ UNCHANGED <<progress, run, crash_files, afl, plan_ready, strategy, elapsed, environment>>

\* A slip: a finding is left for the end of the campaign.
GoesOnAfterFinding == pc = "decide" /\ run.result # "log_limit" /\ ~Spent

GoesOn == pc = "decide" /\ run.result \notin {"finding", "log_limit"} /\ ~Spent

\* A stalled native campaign first gets a dictionary made of the source's strings.  With
\* auto_improve the stall stays visible, for the agent to queue a strategy.
NeedsDictionary == Native /\ progress.stalled /\ progress.dictionary = "none"

WithDictionary(p, tokens, reset) ==
  LET applied == [p EXCEPT !.dictionary = "applied"]
  IN  IF ~tokens THEN [p EXCEPT !.dictionary = "empty"]
      ELSE IF reset THEN [applied EXCEPT !.stalled = FALSE, !.stalled_seconds = 0] ELSE applied

ApplyDictionary ==
  /\ GoesOn
  /\ IF NeedsDictionary
     THEN \E tokens \in BOOLEAN : progress' = WithDictionary(progress, tokens, ~AutoImprove)
     ELSE UNCHANGED progress
  /\ pc' = "continue"
  /\ UNCHANGED <<state, run, crash_files, afl, plan_ready, strategy, elapsed, environment>>

NeedsHarness ==
  /\ progress.stalled /\ ~progress.harness_scheduled /\ ~AutoImprove
  /\ IF Native THEN progress.dictionary # "none"
     ELSE progress.dictionary = "applied" /\ afl # NoAfl

\* A slip: the AFL++ lane runs whenever the coverage stalls.
WantsAflAgain == ~Native /\ progress.stalled

\* The next session, or the AFL++ lane, which runs once.
WantsAfl == ~Native /\ progress.stalled /\ afl = NoAfl

SaveReady ==
  /\ pc = "continue"
  /\ state' = Idle(IF WantsAfl THEN "afl_cmplog_pending" ELSE "ready")
  /\ pc' = "idle"
  /\ UNCHANGED <<progress, run, crash_files, afl, plan_ready, strategy, elapsed, environment>>

-----------------------------------------------------------------------------
(* The ways to a further harness: the plan, the progress, the state.       *)

ReplanTo(next) ==
  /\ CanReplan
  /\ plan_ready' = FALSE
  /\ pc' = next
  /\ UNCHANGED <<state, progress, run, crash_files, afl, strategy, elapsed, environment>>

ReplanStalled == pc = "continue" /\ NeedsHarness /\ ReplanTo("replanned")

\* The one further harness that the yield policy grants a native job before it gives up.
LowYieldFollowup ==
  /\ Fresh \/ (pc = "decide" /\ run.result # "log_limit")
  /\ LowYield /\ Native /\ ~Spent /\ ~state.followup
  /\ progress.stalled /\ progress.dictionary # "none"
  /\ strategy.status \in {"ineffective", "failed"} /\ strategy.current = RUNTIME
  /\ ReplanTo("followup")

MarkHarnessScheduled ==
  /\ pc \in {"replanned", "followup", "afl_replanned"}
  /\ progress' = [progress EXCEPT !.harness_scheduled = TRUE]
  /\ pc' = CASE pc = "replanned" -> "replanned_state"
             [] pc = "followup" -> "followup_state"
             [] pc = "afl_replanned" -> "to_generate"
  /\ UNCHANGED <<state, run, crash_files, afl, plan_ready, strategy, elapsed, environment>>

\* Only the paths that start with a result have put the session aside.
SaveHarnessWork ==
  /\ pc \in {"to_generate", "replanned_state", "followup_state"}
  /\ state' = IF pc = "to_generate" THEN Flag("harness_work_pending")
              ELSE [Idle("harness_work_pending") EXCEPT !.followup = (@ \/ pc = "followup_state")]
  /\ pc' = "idle"
  /\ UNCHANGED <<progress, run, crash_files, afl, plan_ready, strategy, elapsed, environment>>

-----------------------------------------------------------------------------
(* afl_cmplog: the optional AFL++ lane, one run of which is counted.       *)

MayRunAfl == progress.stalled /\ plan_ready
ByOperator ==
  /\ OperatorAfl /\ state.status \notin {"triage_pending", "manual_review", "recovery_pending"}
  /\ afl # NoAfl \/ MayRunAfl

\* An artifact that is already there is applied instead of running again.
AflStart ==
  /\ pc = "idle" /\ (state.status = "afl_cmplog_pending" \/ ByOperator)
  /\ pc' = CASE afl = NoAfl -> IF MayRunAfl THEN "afl" ELSE "error"
             [] afl.result = "failed" -> "afl_failed"
             [] OTHER -> "afl_account"
  /\ state' = IF pc' = "afl" THEN Flag("afl_cmplog_running") ELSE state
  /\ UNCHANGED <<progress, run, crash_files, afl, plan_ready, strategy, elapsed, environment>>

AflEnds ==
  /\ pc = "afl" /\ ~Native /\ Remaining > 0
  /\ \E result \in {"quiet", "advanced", "finding"},
        ticks \in 0..(SmallerOf(AflSeconds, Remaining) * Second) :
       /\ afl' = [result |-> result, ticks |-> ticks]
       /\ crash_files' = (crash_files \/ result = "finding")
  /\ pc' = "afl_account"
  /\ UNCHANGED <<state, progress, run, plan_ready, strategy, elapsed, environment>>

\* A tool's failure, the operator's stop, a spent budget: the lane has failed for good.
AflFails ==
  /\ pc = "afl"
  /\ afl' = [result |-> "failed", ticks |-> 0]
  /\ pc' = "afl_failed"
  /\ UNCHANGED <<state, progress, run, crash_files, plan_ready, strategy, elapsed, environment>>

SaveAflFailed ==
  /\ pc = "afl_failed"
  /\ state' = Flag("ready")
  /\ pc' = "idle"
  /\ UNCHANGED <<progress, run, crash_files, afl, plan_ready, strategy, elapsed, environment>>

AflAccount ==
  /\ pc = "afl_account"
  /\ \E tokens \in BOOLEAN :
       LET p == [Entered(progress, AFL, afl.ticks) EXCEPT !.afl_accounted = TRUE]
       IN  progress' = CASE progress.afl_accounted -> progress
                         [] ~progress.afl_accounted /\ afl.result = "advanced" ->
                              [p EXCEPT !.stalled = FALSE, !.stalled_seconds = 0]
                         [] ~progress.afl_accounted /\ afl.result = "quiet" ->
                              WithDictionary(p, tokens, TRUE)
                         [] ~progress.afl_accounted /\ afl.result = "finding" -> p
  /\ pc' = "afl_decide"
  /\ UNCHANGED <<state, run, crash_files, afl, plan_ready, strategy, elapsed, environment>>

AflDecide ==
  /\ pc = "afl_decide"
  /\ LET over == afl.result = "finding" \/ Spent
         want == progress.dictionary = "empty" /\ ~progress.harness_scheduled
     IN  \/ ~over /\ want /\ ReplanTo("afl_replanned")
         \/ /\ state' = Flag(IF over THEN "triage_pending" ELSE "ready")
            /\ pc' = "idle"
            /\ UNCHANGED <<progress, run, crash_files, afl, plan_ready, strategy, elapsed, environment>>

-----------------------------------------------------------------------------
(* Around the campaign: generator, triage, monitor, host.                  *)

\* A further harness, through build, smoke, probe, review and analysis (JobPipeline), which
\* may ask for work again.  The archive keeps the time, the sessions and the checkpoint.
CarriedOver ==
  [progress EXCEPT !.stalled = FALSE, !.stalled_seconds = 0, !.dictionary = "none",
                   !.harness_scheduled = FALSE, !.afl_accounted = FALSE]

\* A slip: a generated harness is fuzzed whatever the analysis says of it.
AnalyzedAnyway(ready) == "ready"

Analyzed(ready) == IF ready THEN "ready" ELSE "harness_work_pending"

Generate ==
  /\ pc = "idle" /\ state.status = "harness_work_pending" /\ CanReplan
  /\ run' = NoRun /\ crash_files' = FALSE
  /\ progress' = CarriedOver
  /\ plan_ready' \in BOOLEAN
  /\ state' = [Flag(Analyzed(plan_ready')) EXCEPT !.generations = @ + 1]
  /\ UNCHANGED <<afl, strategy, pc, elapsed, environment>>

GenerationLimit ==
  /\ pc = "idle" /\ state.status = "harness_work_pending" /\ ~CanReplan
  /\ state' = [Flag("manual_review") EXCEPT !.failures = LargerOf(1, @)]
  /\ UNCHANGED <<progress, run, crash_files, afl, plan_ready, strategy, pc, elapsed, environment>>

\* Triage finds that nothing reproduces: it moves the crash files away, halves the checkpoint
\* if memory was the reason, and the campaign resumes.
FalseAlarm ==
  /\ pc = "idle" /\ state.status = "triage_pending" /\ crash_files
  /\ crash_files' = FALSE
  /\ \/ UNCHANGED progress
     \/ progress' = [progress EXCEPT !.checkpoint =
                       LargerOf(MinTriageCheckpoint, (IF @ = 0 THEN Checkpoint ELSE @) \div 2)]
  /\ state' = Flag("ready")
  /\ UNCHANGED <<run, afl, plan_ready, strategy, pc, elapsed, environment>>

\* The agent's monitor queues a strategy for a stalled campaign, whatever the handler is at.
\* The stall may be that of the overview taken before the AI was asked, over by now; there
\* was one, for only a stall leads to a dictionary or to the AFL++ artifact.
QueueStrategy ==
  /\ AutoImprove /\ state.status \in FUZZABLE
  /\ strategy.status \notin {"pending", "active"}
  /\ progress.dictionary # "none" \/ (~Native /\ afl # NoAfl)
  /\ \E name \in {RUNTIME, HARNESS} \ strategy.attempted :
       /\ name = HARNESS => HarnessStrategy
       /\ strategy' = [current |-> name, status |-> "pending",
                       attempted |-> strategy.attempted \cup {name}]
  /\ UNCHANGED <<state, progress, run, crash_files, afl, plan_ready, pc, elapsed, environment>>

\* The host stops dead: the running handler is gone, the files stay.
Crash ==
  /\ pc # "idle" /\ crashes < MaxCrashes
  /\ crashes' = crashes + 1
  /\ pc' = "idle" /\ elapsed' = 0
  /\ UNCHANGED <<state, progress, run, crash_files, afl, plan_ready, strategy, next_id, stops>>

-----------------------------------------------------------------------------

Init ==
  /\ state = [status |-> "ready", active |-> 0, seconds |-> 0, failures |-> 0,
              generations |-> 0, followup |-> FALSE]
  /\ progress = [completed |-> 0, accounted |-> 0, sessions |-> [id \in {AFL} \cup Ids |-> 0],
                 stalled_seconds |-> 0, stalled |-> FALSE, checkpoint |-> 0,
                 dictionary |-> "none", harness_scheduled |-> FALSE, afl_accounted |-> FALSE]
  /\ run = NoRun /\ afl = NoAfl /\ crash_files = FALSE
  /\ plan_ready = TRUE
  /\ strategy = [current |-> "none", status |-> "none", attempted |-> {}]
  /\ pc = "idle" /\ elapsed = 0 /\ next_id = 1 /\ crashes = 0 /\ stops = 0

Fuzz ==
  Refuse \/ ScheduleHarness \/ CloseHarnessStrategy \/ CheckStrategy \/ Replay \/ Finish
    \/ NoResultArtifact \/ StartSession \/ SessionEnds \/ CountLost \/ SaveInterrupted
    \/ EvaluateStrategy \/ Account \/ EndCampaign \/ LogLimit \/ ApplyDictionary \/ SaveReady
    \/ ReplanStalled \/ LowYieldFollowup \/ MarkHarnessScheduled \/ SaveHarnessWork
Afl == AflStart \/ AflEnds \/ AflFails \/ SaveAflFailed \/ AflAccount \/ AflDecide
Worker == Fuzz \/ Afl \/ Generate \/ GenerationLimit \/ RecordWorkerError
Next == Worker \/ SessionStopped \/ FalseAlarm \/ QueueStrategy \/ Crash

Spec == Init /\ [][Next]_vars /\ WF_vars(Worker)

-----------------------------------------------------------------------------
(* Properties.                                                             *)

PCs == {"idle", "error", "scheduled", "to_generate", "checked", "running", "lost", "stopped",
        "lost_state", "stopped_state", "evaluate", "account", "decide", "continue", "replanned",
        "replanned_state", "followup", "followup_state", "afl", "afl_failed", "afl_account",
        "afl_decide", "afl_replanned"}

StateType ==
  [status: Statuses, active: {0} \cup Ids, seconds: Nat, failures: Nat, generations: Nat,
   followup: BOOLEAN]
ProgressType ==
  [completed: Nat, accounted: {0} \cup Ids, sessions: [{AFL} \cup Ids -> Nat],
   stalled_seconds: Nat, stalled: BOOLEAN, checkpoint: Nat,
   dictionary: {"none", "applied", "empty"}, harness_scheduled: BOOLEAN, afl_accounted: BOOLEAN]
RunType ==
  [result: Results \cup {"none"}, session: {0} \cup Ids, accounted: Nat, advanced: BOOLEAN]
AflType == [result: {"none", "quiet", "advanced", "finding", "failed"}, ticks: Nat]
StrategyType ==
  [current: {"none", RUNTIME, HARNESS}, attempted: SUBSET {RUNTIME, HARNESS},
   status: {"none", "pending", "active", "succeeded", "ineffective", "scheduled", "failed"}]

\* The files hold what the handlers may write.
TypeOK ==
  /\ state \in StateType /\ progress \in ProgressType /\ run \in RunType /\ afl \in AflType
  /\ strategy \in StrategyType /\ crash_files \in BOOLEAN /\ plan_ready \in BOOLEAN
  /\ pc \in PCs /\ elapsed \in Nat
  /\ next_id \in 1..MaxSessions + 1 /\ crashes \in 0..MaxCrashes /\ stops \in 0..MaxStops

\* Every session is entered in the books at most once, wherever the host stopped between its
\* result, the progress and the state, and however often the result is applied again.
CountedOnce == \A id \in Ids : progress.sessions[id] <= 1

\* The AFL++ lane's one run is entered at most once.
AflCountedOnce == progress.sessions[AFL] <= 1

\* The time on the books passes the budget by less than a second: the remaining budget is
\* computed from whole seconds, interrupted sessions count fractions.
BudgetHolds == progress.completed < (Budget + 1) * Second

\* A complete result that reached the disk is on the books before anything replaces it: a
\* crash after the session costs no fuzzing time and hides no finding.
EveryResultCounted ==
  [][run' # run /\ Complete(run) => progress.sessions[run.session] = 1]_vars

\* The plan and the state agree at rest: a job that may be fuzzed has a plan that allows it.
PlanMatchesState == pc = "idle" /\ state.status \in FUZZABLE => plan_ready

\* A finding in the result file never leaves the campaign open once it is on the books: the
\* job goes to triage before another session replaces the result.
FindingEndsSession ==
  [][state'.active # state.active /\ state'.active # 0 /\ run.result = "finding" => ~crash_files]_vars

Over == state.status \in {"triage_pending", "manual_review", "recovery_pending"}

\* Every campaign comes to its end, and stays there: to triage, or to a person or the agent.
CampaignEnds == <>[](Over /\ pc = "idle")

\* The books of the campaign are a ledger: see CampaignLedger.
Ledger ==
  INSTANCE CampaignLedger WITH
    Sessions <- {AFL} \cup Ids, Ceiling <- (Budget + 1) * Second,
    charged <- progress.completed,
    booked <- {id \in {AFL} \cup Ids : progress.sessions[id] # 0}

LedgerKept == Ledger!Spec

=============================================================================
