----------------------------- MODULE JobPipeline -----------------------------
(***************************************************************************)
(* The life of one fuzzing job: the durable files of its run directory     *)
(* (state.json and the artifacts), the worker that advances it             *)
(* (pipeline_worker.py), the stage handlers it calls (pipeline_runner.py,  *)
(* triage.py, validation_agent.py), the central agent's monitor, which     *)
(* recovers a failed job while the worker runs in a thread of its own, and *)
(* its follow-up harness (central_agent.py), and the operator's commands   *)
(* that start a job anew with other harnesses (retarget.py,                *)
(* harness_repair.py).                                                     *)
(*                                                                         *)
(* Every handler reads state.json once, works, and then writes several     *)
(* files one after the other.  Each single write is atomic (a temporary    *)
(* file and a rename), a handler is not: it leaves in `pending' the writes *)
(* still to be made, the host may stop between any two of them, and the    *)
(* monitor may write in between.                                           *)
(***************************************************************************)
EXTENDS Integers, FiniteSets, Sequences, SequencesExt

CONSTANTS
  Routes,          \* the integration routes a job may have been given
  Targets,         \* the fuzz targets a build of the project produces
  ToolErrors,      \* the errors an external tool may fail with
  PolicyMayFail,   \* whether a policy recheck may fail
  Budget,          \* the job's fuzzing budget, in sessions of the checkpoint length
  MaxTransitions,  \* transitions one call of the worker may make (100); 0: not counted
  MaxFailures,     \* pipeline.max_stage_failures
  MaxGenerations,  \* pipeline.max_generation_cycles
  MaxTargets,      \* pipeline.max_fuzz_target_attempts
  MaxRecoveries,   \* agent.max_automatic_recoveries_per_job
  MaxImprovements, \* agent.max_improvement_cycles_per_job
  MaxCrashes,      \* bound: how often the host stops dead
  Commands,        \* what the operator may do
  MaxCommands      \* bound: how often he does

None == "none"

\* The errors the pipeline raises itself, by the check that raises them.
OwnErrors == {None, "policy", "missing", "gate", "harness", "limit", "exhausted",
              "untriaged", "repair", "evidence", "afl", "stage", "stopped", "unsupported"}

ASSUME RoutesAssumption ==
  Routes \subseteq {"native_generated", "oss_fuzz_generated", "oss_fuzz_existing", "oss_fuzz_gen"}
ASSUME TargetsAssumption == IsFiniteSet(Targets) /\ Targets # {} /\ None \notin Targets
ASSUME BoundsAssumption ==
  /\ {Budget, MaxFailures, MaxTargets} \subseteq Nat \ {0}
  /\ {MaxTransitions, MaxGenerations, MaxRecoveries, MaxImprovements, MaxCrashes,
      MaxCommands} \subseteq Nat
  /\ Commands \subseteq {"stop", "retarget", "repair-harness"}
  /\ PolicyMayFail \in BOOLEAN
  /\ ToolErrors \cap OwnErrors = {}

VARIABLES
  route,     \* job.json's route, fixed when the job is created
  disk,      \* the files of the run directory
  mode,      \* what the worker is doing with the job
  steps,     \* transitions of the current call of _advance
  pending,   \* writes the running handler has still to make, in order
  raised,    \* the exception the handler raises once they are made
  recovery,  \* writes the monitor has still to make
  crashes, commands,
  spent,     \* history: the most fuzzing time fuzz-progress.json ever recorded
  current    \* history: the artifacts on disk that were made with the present build

history == <<spent, current>>
environment == <<crashes, commands>>
vars == <<route, disk, mode, steps, pending, raised, recovery, environment, history>>

-----------------------------------------------------------------------------
(* The stages and statuses of state.json.                                  *)

STAGE_ORDER == <<"policy_recheck", "source_checkout", "tool_sync", "integration">>
Stages == {"policy_recheck", "source_checkout", "tool_sync", "integration", "build",
           "smoke", "quartet_gate", "coverage_analysis", "fuzzing", "triage",
           "validation", "complete"}

\* Statuses that no worker selects: the job is over or waits for a person or for the agent.
MANUAL_STATUSES ==
  {"recovery_pending", "quartet_review_required", "manual_review", "complete",
   "exhausted", "unsupported_integration", "ready_for_human",
   "skipped_operator_rotation", "skipped_previously_attempted",
   "triage_review_required", "resource_limit_required", "validation_review_required"}

\* The statuses of stage "fuzzing" for which the worker has a handler.
FUZZABLE == {"ready", "running", "interrupted", "worker_failed"}
GENERABLE == {"harness_work_pending", "generation_failed"}

RECOVERABLE_FAILURE_STAGES ==
  {"source_checkout", "tool_sync", "integration", "build", "smoke", "quartet_gate",
   "coverage_analysis", "fuzzing"}
RESTARTABLE_FAILURE_STAGES ==
  {"build", "smoke", "quartet_gate", "coverage_analysis", "fuzzing"}
RECOVERY_STAGE_STATUS ==
  [source_checkout |-> "preparing", tool_sync |-> "preparing",
   integration |-> "prepared", build |-> "integrated", smoke |-> "built",
   quartet_gate |-> "quartet_pending", coverage_analysis |-> "analysis_pending",
   fuzzing |-> "interrupted"]

Statuses ==
  MANUAL_STATUSES \cup FUZZABLE \cup GENERABLE
    \cup {RECOVERY_STAGE_STATUS[s] : s \in RECOVERABLE_FAILURE_STAGES}
    \cup {"queued", "failed", "quartet_repair_pending", "target_retry_pending",
          "generated", "afl_cmplog_pending", "afl_cmplog_running", "triage_pending",
          "validation_pending", "validation_running", "skipped_after_recovery"}

Errors == OwnErrors \cup ToolErrors
Actions == {"retry_stage", "restart_from_integration", "skip_target"}

(* The ids of fuzz sessions are time stamps, never reused.  Only their     *)
(* equality matters, between the three places that hold one, so that four  *)
(* ids always leave a fresh one.                                           *)
Sessions == 1..4
NoSession == 0

Findings == {"sanitizer_error", "uncaught_cpp_exception", "untriaged"}
NoRun == [result |-> None, session |-> NoSession, time |-> 0]
NoReview == [verdict |-> None, target |-> None]

State == [stage: Stages, status: Statuses, last_error: Errors, bounded: BOOLEAN,
          triage_artifact: {None, "probe", "run", "afl"}, active: {NoSession} \cup Sessions,
          worker_failures: Nat, automatic_recoveries: Nat, harness_generation: Nat,
          quartet_repair: Nat, central_improvement: Nat, attempted: SUBSET Targets,
          low_yield: BOOLEAN]

\* The files of a run directory, by what the handlers tell apart in them.
Disk == [state: State,
         integration: BOOLEAN,                     \* integration manifest, generic-integration.json
         rewritten: SUBSET Targets,                \* generated harnesses in the build tree
         manifest: Targets \cup {None},            \* build-manifest.json: the target smoke will select
         smoke: Targets \cup {None},               \* smoke.json: the target that passed
         probe: {None, "clean", "broken"} \cup Findings,     \* probe-run.json
         quartet: [verdict: {None, "ready", "rejected"}, target: Targets \cup {None}],
         plan: {None, "ready", "work"},            \* coverage-plan.json
         run: [result: {None, "quiet", "finding", "broken"},     \* fuzz-run.json
               session: {NoSession} \cup Sessions, time: 0..1],
         progress: [completed: 0..Budget, stalled: BOOLEAN, accounted: {NoSession} \cup Sessions],
         afl: {None, "quiet", "finding", "failed"},
         crash_files: BOOLEAN,                     \* files in crashes/<target>/
         summary: {None, "reproduced", "other"},   \* triage-summary.json
         report: BOOLEAN,                          \* validation-agent-report.json
         applied: SUBSET [stage: Stages, error: Errors, action: Actions]]

\* What a file reads as once it has been moved away.
Absent == [integration |-> FALSE, manifest |-> None, smoke |-> None, probe |-> None,
           quartet |-> NoReview, plan |-> None, run |-> NoRun, afl |-> None, crash_files |-> FALSE,
           summary |-> None,
           progress |-> [completed |-> 0, stalled |-> FALSE, accounted |-> NoSession]]

W(file, value) == [file |-> file, value |-> value]
Save(state) == <<W("state", state)>>

\* Moving a file to a history directory, if it is there.
Moved(name) ==
  IF disk[name] = Absent[name] THEN <<>> ELSE <<W(name, Absent[name])>>

\* The state of a job that has done nothing yet.
NewState(stage, status) ==
  [stage |-> stage, status |-> status, last_error |-> None, bounded |-> FALSE,
   triage_artifact |-> None, active |-> NoSession, worker_failures |-> 0,
   automatic_recoveries |-> 0, harness_generation |-> 0, quartet_repair |-> 0,
   central_improvement |-> 0, attempted |-> {}, low_yield |-> FALSE]

To(s, stage, status) == [s EXCEPT !.stage = stage, !.status = status, !.last_error = None]
Flag(s, status, error) == [s EXCEPT !.status = status, !.last_error = error]
AtLeastOneFailure(s) ==
  [s EXCEPT !.worker_failures = IF @ = 0 THEN 1 ELSE @]

st == disk.state
SelectTarget(S) == CHOOSE t \in S : TRUE     \* the same for the same set, by its names
FreshSession == CHOOSE id \in Sessions :
                  id \notin {st.active, disk.run.session, disk.progress.accounted}
\* A slip: the last unit of the budget is never asked for.
RemainingShort(progress) == Budget - progress.completed - 1

Remaining(progress) == Budget - progress.completed

-----------------------------------------------------------------------------
(* The worker's loop.  A handler starts at the top of the loop, when all   *)
(* writes of the previous one are made and none raised.                    *)

Exhausted == MaxTransitions > 0 /\ steps = MaxTransitions
Counted == IF MaxTransitions = 0 THEN 0 ELSE steps + 1

BetweenHandlers == mode # "idle" /\ pending = <<>> /\ raised = None
AtTop == BetweenHandlers /\ ~Exhausted /\ st.status \notin MANUAL_STATUSES
AtStage(stage) == AtTop /\ st.stage = stage

\* A handler that makes the writes `ws' and raises `error' (or returns, if None).
Do(ws, error) ==
  /\ pending' = ws
  /\ raised' = error
  /\ steps' = Counted
  /\ UNCHANGED <<route, disk, mode, recovery, environment, history>>

OperatorDoes(command) ==
  command \in Commands /\ commands < MaxCommands /\ commands' = commands + 1

\* The same, for a handler whose subprocess the operator stops.
Interrupted(ws) ==
  /\ OperatorDoes("stop")
  /\ pending' = ws
  /\ raised' = "stopped"
  /\ steps' = Counted
  /\ UNCHANGED <<route, disk, mode, recovery, crashes, history>>

BuildErrors == IF ToolErrors = {} THEN {} ELSE ToolErrors \cup {"unsupported"}
PolicyErrors == IF PolicyMayFail THEN {"policy"} ELSE {}

Generated == route \in {"native_generated", "oss_fuzz_generated"}

-----------------------------------------------------------------------------
(* Preparation, integration, build, smoke.                                 *)

Prepared(s, k) == To(s, STAGE_ORDER[k], IF k = Len(STAGE_ORDER) THEN "prepared" ELSE "preparing")

\* One call goes through all preparation stages, saving the state after each.
Prepare ==
  /\ AtTop
  /\ \E from \in 1..3, to \in 1..4 :
       /\ STAGE_ORDER[from] = st.stage /\ from <= to
       /\ LET done == [k \in 1..(to - from) |-> W("state", Prepared(st, from + k))]
              last == IF to = from THEN st ELSE Prepared(st, to)
          IN \/ to = 4 /\ Do(done, None)
             \/ \E e \in (IF to = 1 THEN PolicyErrors ELSE ToolErrors) :
                  to < 4 /\ Do(done \o Save(Flag(last, "failed", e)), e)
             \/ to \in {2, 3} /\ Interrupted(done \o Save(Flag(last, "failed", "stopped")))

StageFailed(e) ==
  IF e = "unsupported"
  THEN [Flag(st, "unsupported_integration", e) EXCEPT !.stage = "complete"]
  ELSE Flag(st, "failed", e)

SingleStage(expected, possible, errors, product, next_stage, next_status) ==
  /\ AtStage(expected)
  /\ \/ possible /\ Do(product \o Save(To(st, next_stage, next_status)), None)
     \/ \E e \in (IF possible THEN errors ELSE {"missing"}) : Do(Save(StageFailed(e)), e)
     \/ possible /\ Interrupted(<<>>)

\* A generated integration is written anew, an existing build tree is kept as it is.
Integrate ==
  LET harnesses == IF Generated THEN {} ELSE disk.rewritten
  IN  SingleStage("integration", TRUE, BuildErrors,
                  <<W("rewritten", harnesses), W("integration", TRUE)>>, "build", "integrated")
Build ==
  SingleStage("build", disk.integration, BuildErrors,
              <<W("manifest", SelectTarget(Targets))>>, "smoke", "built")
Smoke ==
  SingleStage("smoke", disk.manifest # None /\ disk.integration, ToolErrors,
              <<W("smoke", disk.manifest)>>, "quartet_gate", "quartet_pending")

-----------------------------------------------------------------------------
(* The short probe run, the Quartet review of the harness, its repair.     *)

Runnable == disk.manifest # None /\ disk.smoke # None

Probe ==
  /\ AtStage("quartet_gate") /\ st.status # "quartet_repair_pending"
  /\ disk.probe = None
  /\ \/ ~Runnable /\ Do(<<>>, "missing")
     \/ Runnable /\ ~disk.crash_files /\ Do(<<W("probe", "clean")>>, None)
     \/ Runnable /\ \E kind \in Findings :
          Do(<<W("crash_files", TRUE), W("probe", kind)>>, None)
     \/ Runnable /\ \E e \in ToolErrors :                   \* no sanitizer artifact
          Do(<<>>, e) \/ (~disk.crash_files /\ Do(<<W("probe", "broken")>>, e))
     \/ Runnable /\ (Interrupted(<<>>) \/ Interrupted(<<W("crash_files", TRUE)>>))

Finding == disk.probe \in Findings

ReviewRequired(s, error) ==
  AtLeastOneFailure([Flag(s, "quartet_review_required", error) EXCEPT !.stage = "quartet_gate"])

\* A slip: a rejected target is offered again.
CandidatesAgain(attempted) == Targets

\* The targets still to be tried once those of `attempted' were rejected.
Candidates(attempted) == Targets \ attempted

\* A slip: one target more than may be.
OneTargetMore(attempted) == Cardinality(attempted) <= MaxTargets

\* Another target may be tried.
MayTryAnother(attempted) == Cardinality(attempted) < MaxTargets

\* What the gate decides on a review, after the writes `before'.
ApplyQuartetState(review, before) ==
  LET ready      == review.verdict = "ready"
      rejected   == ~ready /\ ~Finding /\ disk.manifest # None
      attempted  == IF rejected THEN st.attempted \cup {review.target} ELSE st.attempted
      candidates == Candidates(attempted)
      retry      == rejected /\ candidates # {} /\ MayTryAnother(attempted)
      s          == [st EXCEPT !.attempted = attempted]
      moves      == IF ~retry THEN <<>> ELSE
                      <<W("manifest", SelectTarget(candidates))>> \o Moved("smoke") \o Moved("probe")
                      \o <<W("quartet", NoReview)>> \o Moved("plan")
      decision   ==
        IF Finding /\ (ready \/ disk.probe = "sanitizer_error")
        THEN [To(s, "triage", "triage_pending") EXCEPT !.triage_artifact = "probe"]
        ELSE IF Finding /\ disk.probe # "uncaught_cpp_exception"
        THEN ReviewRequired(s, "untriaged")
        ELSE IF ready /\ disk.plan # None THEN To(s, "fuzzing", "ready")
        ELSE IF ready THEN To(s, "coverage_analysis", "analysis_pending")
        ELSE IF retry THEN To(s, "smoke", "target_retry_pending")
        ELSE IF Generated /\ disk.integration /\ s.quartet_repair < MaxGenerations
        THEN To(s, "quartet_gate", "quartet_repair_pending")
        ELSE [ReviewRequired(s, "exhausted") EXCEPT !.bounded = TRUE]
  IN  Do(before \o moves \o Save(decision), None)

Quartet ==
  /\ AtStage("quartet_gate") /\ st.status # "quartet_repair_pending"
  /\ disk.probe # None
  /\ IF disk.quartet # NoReview THEN ApplyQuartetState(disk.quartet, <<>>)
     ELSE IF ~Runnable THEN Do(<<>>, "missing")
     ELSE \/ \E v \in {"ready", "rejected"} :
               LET review == [verdict |-> v, target |-> disk.smoke]
               IN  ApplyQuartetState(review, <<W("quartet", review)>>)
          \/ \E e \in ToolErrors : Do(<<>>, e)

\* A build writes its manifest anew, without the target preferred so far, which is added after.
Rebuilt(target) == <<W("manifest", SelectTarget(Targets)), W("manifest", target)>>

\* A slip: the build is archived with the results.
ResultsAndBuild ==
  Moved("manifest") \o Moved("smoke") \o Moved("probe") \o Moved("quartet") \o Moved("plan")
    \o Moved("run") \o Moved("progress")

\* A slip: the archive leaves the old review in place.
ResultsButReview ==
  Moved("smoke") \o Moved("probe") \o Moved("plan") \o Moved("run") \o Moved("progress")

\* The results measured with the old harness, moved away one after the other.
Results ==
  Moved("smoke") \o Moved("probe") \o Moved("quartet") \o Moved("plan") \o Moved("run")
    \o Moved("progress")

\* A slip: the archive takes the fuzzed time along.
TimeForgotten == <<>>

\* The time already fuzzed is carried over: its file is moved too, then rewritten.
TimeCarriedOver ==
  IF disk.progress = Absent.progress THEN <<>>
  ELSE <<W("progress", [disk.progress EXCEPT !.stalled = FALSE])>>

ArchivePreGenerationResults == Results \o TimeCarriedOver \o Moved("crash_files")

\* A slip: a harness repair is not counted.
RepairedUncounted(s) == To(s, "smoke", "generated")

Repaired(s) == [To(s, "smoke", "generated") EXCEPT !.quartet_repair = @ + 1]

\* The repair rewrites the harness and the copy it is compared with.
RepairQuartetHarness ==
  /\ AtStage("quartet_gate") /\ st.status = "quartet_repair_pending"
  /\ \/ \E e \in PolicyErrors : Do(<<>>, e)
     \/ ~(disk.integration /\ disk.quartet # NoReview) /\ Do(<<>>, "missing")
     \/ /\ disk.integration /\ disk.quartet # NoReview
        /\ IF Finding /\ disk.probe # "uncaught_cpp_exception"
           THEN ApplyQuartetState(disk.quartet, <<>>)
           ELSE \/ \E e \in ToolErrors : Do(<<>>, e)        \* the adapter, or its harness
                \/ \E e \in BuildErrors :
                     Do(Save(Flag(st, "quartet_review_required", "repair")), e)
                \/ Interrupted(<<>>)
                \/ Do(<<W("rewritten", {})>> \o Rebuilt(disk.quartet.target)
                      \o ArchivePreGenerationResults \o Save(Repaired(st)), None)

-----------------------------------------------------------------------------
(* Coverage analysis and the generation of a further harness.              *)

Approved == disk.quartet.verdict = "ready"

\* A plan that is already there is returned as it is, and the state left alone.
Analyze ==
  /\ AtStage("coverage_analysis")
  /\ IF ~Approved THEN Do(<<>>, "gate")
     ELSE IF disk.plan # None THEN Do(<<>>, None)
     ELSE IF disk.probe = None \/ disk.manifest = None THEN Do(<<>>, "missing")
     ELSE \/ Do(<<W("plan", "ready")>> \o Save(To(st, "fuzzing", "ready")), None)
          \/ Do(<<W("plan", "work")>> \o Save(To(st, "fuzzing", "harness_work_pending")), None)
          \/ \E e \in ToolErrors : Do(<<>>, e)

\* The new harness replaces, in the build tree, the one that the pinned evidence holds;
\* a native integration has no second copy.  What fails is put back.
Generate ==
  /\ AtStage("fuzzing") /\ st.status \in GENERABLE
  /\ st.harness_generation < MaxGenerations
  /\ LET target == IF disk.smoke # None THEN disk.smoke ELSE disk.manifest
         write  == W("rewritten", IF route = "native_generated" THEN disk.rewritten
                                  ELSE disk.rewritten \cup {target})
         undone == <<write, W("rewritten", disk.rewritten)>>
     IN
       IF disk.plan = None \/ disk.manifest = None THEN Do(<<>>, "missing")
       ELSE IF target \in disk.rewritten THEN Do(<<>>, "evidence")
       ELSE \/ \E e \in BuildErrors : Do(undone \o Save(Flag(st, "generation_failed", e)), e)
            \/ Interrupted(undone)
            \/ Do(<<write>> \o Rebuilt(target) \o ArchivePreGenerationResults
                  \o Save([To(st, "smoke", "generated") EXCEPT !.harness_generation = @ + 1]), None)

GenerationLimit ==
  /\ AtStage("fuzzing") /\ st.status \in GENERABLE
  /\ st.harness_generation >= MaxGenerations
  /\ Do(Save(AtLeastOneFailure([Flag(st, "manual_review", "exhausted") EXCEPT !.bounded = TRUE])),
        "return")

-----------------------------------------------------------------------------
(* The campaign: sessions of at most one checkpoint until the budget is    *)
(* spent.  A session's result and its time are saved before the state.     *)

\* A slip: every campaign points triage at the AFL++ artifact.
FinishedByAfl(s) == [To(s, "triage", "triage_pending") EXCEPT !.triage_artifact = "afl"]

Finished(s) == To(s, "triage", "triage_pending")
Add(progress, time) ==
  [progress EXCEPT !.completed = IF @ + time > Budget THEN Budget ELSE @ + time]

\* Turning the plan into one that asks for a further harness.
Replan(s) == <<W("plan", "work")>> \o Save(To(s, "fuzzing", "harness_work_pending"))
CanReplan == st.harness_generation < MaxGenerations /\ disk.plan # None

LowYield(s) == Save([Finished(s) EXCEPT !.low_yield = TRUE])

\* Accounting of a session's result, once per session, and what it leads to.
ApplyFuzzResult(s, run, before) ==
  \E advanced \in BOOLEAN :
    LET old   == disk.progress
        new   == [Add(old, run.time) EXCEPT !.accounted = run.session,
                                            !.stalled = IF run.time = 0 THEN @ ELSE ~advanced]
        known == old.accounted = run.session
        p     == IF known THEN old ELSE new
        saved == before \o (IF known THEN <<>> ELSE <<W("progress", new)>>)
        idle  == [s EXCEPT !.active = NoSession]
        next  == To(idle, "fuzzing", "ready")
        afl   == route # "native_generated" /\ p.stalled /\ disk.afl = None
    IN
      \/ /\ run.result = "finding"
         /\ Do(saved \o Save([Finished(idle) EXCEPT !.triage_artifact = "run"]), None)
      \/ /\ run.result = "broken"                                \* excessive log output
         /\ Do(saved \o Save(AtLeastOneFailure(
                 [Flag(idle, "manual_review", "exhausted") EXCEPT !.bounded = TRUE])), None)
      \/ /\ run.result = "quiet"
         /\ \/ disk.probe # None /\ p.completed > 0 /\ Do(saved \o LowYield(idle), None)
            \/ p.completed = Budget /\ Do(saved \o Save(Finished(idle)), None)
            \/ /\ p.completed < Budget /\ ~afl /\ p.stalled /\ CanReplan
               /\ Do(saved \o Replan(idle), None)
            \/ /\ p.completed < Budget
               /\ Do(saved \o Save(IF afl THEN [next EXCEPT !.status = "afl_cmplog_pending"]
                                          ELSE next), None)

\* A session that ends without a result: its time is saved, then the state.
SessionLost(start, s, time, leftovers) ==
  start \o leftovers
    \o (IF time = 0 THEN <<>> ELSE <<W("progress", Add(disk.progress, time))>>)
    \o Save([s EXCEPT !.active = NoSession, !.status = "interrupted"])

FuzzSession(s) ==
  LET id      == FreshSession
      running == [s EXCEPT !.status = "running", !.last_error = None, !.active = id]
      start   == Save(running)
      Ended(result, time, files) ==
        LET run == [result |-> result, session |-> id, time |-> time]
        IN  ApplyFuzzResult(running, run, start \o files \o <<W("run", run)>>)
  IN  IF ~Runnable THEN Do(SessionLost(start, Flag(running, "running", "missing"), 0, <<>>), "missing")
      ELSE
        \/ ~disk.crash_files /\ Ended("quiet", 1, <<>>)
        \/ Ended("finding", 1, <<W("crash_files", TRUE)>>)
        \/ ~disk.crash_files /\ ToolErrors # {} /\ Ended("broken", 1, <<>>)
        \/ \E time \in 0..1, e \in ToolErrors, written \in BOOLEAN :
             Do(SessionLost(start, Flag(running, "running", e), time,
                  IF written THEN <<W("run", [result |-> "broken", session |-> id, time |-> time])>>
                             ELSE <<>>), e)
        \/ \E time \in 0..1, found \in BOOLEAN :
             Interrupted(SessionLost(start, Flag(running, "running", "stopped"), time,
                                     IF found THEN <<W("crash_files", TRUE)>> ELSE <<>>))

Fuzz ==
  /\ AtStage("fuzzing") /\ st.status \in FUZZABLE /\ mode = "run"
  /\ LET idle   == [st EXCEPT !.active = NoSession]
         cached == /\ st.active # NoSession /\ disk.run.session = st.active
                   /\ disk.run.result \in {"quiet", "finding"}
     IN
       IF ~Approved \/ disk.plan = None THEN Do(<<>>, "gate")
       ELSE IF disk.plan # "ready" THEN Do(<<>>, "harness")
       ELSE
         \/ \E e \in PolicyErrors : Do(<<>>, e)
         \/ cached /\ ApplyFuzzResult(st, disk.run, <<>>)
         \/ ~cached /\
              \/ /\ disk.run.result \in {"quiet", "broken"} /\ disk.probe # None
                 /\ disk.progress.completed > 0
                 /\ \/ Do(LowYield(idle), None)
                    \/ /\ route = "native_generated" /\ disk.progress.completed < Budget
                       /\ disk.progress.stalled /\ CanReplan /\ Do(Replan(idle), None)
              \/ /\ Remaining(disk.progress) = 0 /\ disk.run # NoRun
                 /\ Do(Save(Finished(idle)), None)
              \/ Remaining(disk.progress) = 0 /\ disk.run = NoRun /\ Do(<<>>, "missing")
              \/ Remaining(disk.progress) > 0 /\ FuzzSession(idle)

\* The optional AFL++ lane.  Whatever stops it, an operator included, it fails
\* for good: its artifact is written and the campaign goes on without it.
Afl ==
  /\ AtStage("fuzzing") /\ st.status = "afl_cmplog_pending" /\ mode = "run"
  /\ IF ~disk.progress.stalled \/ ~Approved \/ disk.plan # "ready" THEN Do(<<>>, "afl")
     ELSE
       LET start == Save(Flag(st, "afl_cmplog_running", None))
           failed(e) == start \o <<W("afl", "failed")>> \o Save(Flag(st, "ready", e))
       IN
         \/ \E e \in PolicyErrors : Do(<<>>, e)
         \/ \E e \in ToolErrors : Do(failed(e), None)
         \/ /\ OperatorDoes("stop")
            /\ pending' = failed("stopped") /\ raised' = None /\ steps' = Counted
            /\ UNCHANGED <<route, disk, mode, recovery, crashes, history>>
         \/ \E time \in 0..1, improved, found \in BOOLEAN :
              LET p     == [Add(disk.progress, time) EXCEPT !.stalled = ~improved]
                  saved == start \o (IF found THEN <<W("crash_files", TRUE)>> ELSE <<>>)
                           \o <<W("afl", IF found THEN "finding" ELSE "quiet"), W("progress", p)>>
                  over  == found \/ p.completed = Budget
              IN
                \/ over /\ Do(saved \o Save([Finished(st) EXCEPT !.triage_artifact = "afl"]), None)
                \/ ~over /\ Do(saved \o Save(To(st, "fuzzing", "ready")), None)
                \/ ~over /\ p.stalled /\ CanReplan /\ Do(saved \o Replan(st), None)

-----------------------------------------------------------------------------
(* Triage of the crash files and validation of a reproduced one.           *)

\* A slip: triage reads the libFuzzer result whatever artifact sent the job.
ListedInTheRun == disk.run.result = "finding"

\* Whether the artifact that sent the job to triage lists crash files.
Listed == CASE st.triage_artifact = "probe" -> Finding
            [] st.triage_artifact \in {"run", None} -> disk.run.result = "finding"
            [] st.triage_artifact = "afl" -> disk.afl = "finding"
ArtifactThere == CASE st.triage_artifact = "probe" -> disk.probe # None
                   [] st.triage_artifact \in {"run", None} -> disk.run # NoRun
                   [] st.triage_artifact = "afl" -> disk.afl # None

Triage ==
  /\ AtStage("triage")
  /\ LET verdict(before, stage, status, summary) ==
           Do(before \o Save([To(st, stage, status) EXCEPT !.triage_artifact =
                                IF stage = "fuzzing" THEN None ELSE @])
              \o <<W("summary", summary)>>, None)
         crash == Listed /\ disk.crash_files
     IN
       IF ~ArtifactThere \/ disk.manifest = None THEN Do(<<>>, "missing")
       ELSE
         \/ crash /\ verdict(<<>>, "validation", "validation_pending", "reproduced")
         \/ crash /\ verdict(<<W("crash_files", FALSE)>>, "fuzzing", "ready", "other")
         \/ crash /\ verdict(<<>>, "complete", "triage_review_required", "other")
         \/ ~crash /\ verdict(<<>>, "complete", "exhausted", "other")
         \/ \E e \in ToolErrors : crash /\ Do(<<>>, e)

Validate ==
  /\ AtStage("validation")
  /\ LET done == Save(To(st, "complete", "ready_for_human"))
         run  == Save([st EXCEPT !.status = "validation_running"])
     IN
       IF disk.report THEN Do(done, "return")
       ELSE IF disk.summary # "reproduced" THEN Do(<<>>, "missing")
       ELSE \/ Do(run \o <<W("report", TRUE)>> \o done, "return")
            \/ \E e \in ToolErrors : Do(run \o Save(Flag(st, "validation_review_required", e)), e)

-----------------------------------------------------------------------------
(* The worker around the handlers.                                         *)

Start ==
  /\ mode = "idle"
  /\ st.status \notin MANUAL_STATUSES /\ st.stage # "complete"
  /\ mode' = "setup" /\ steps' = 0
  /\ UNCHANGED <<route, disk, pending, raised, recovery, environment, history>>

\* A write of the manifest is a new build, or another of its targets.
Current(w) ==
  IF w.file = "manifest" THEN {}
  ELSE IF w.file \notin {"smoke", "probe", "quartet", "plan"} THEN current
  ELSE IF w.value = Absent[w.file] THEN current \ {w.file}
  ELSE current \cup {w.file}

\* One write of the running handler reaches the disk.
Write ==
  /\ pending # <<>>
  /\ LET w == Head(pending) IN
       /\ disk' = [disk EXCEPT ![w.file] = w.value]
       /\ spent' = IF w.file = "progress" /\ (mode = "operator" \/ w.value.completed > spent)
                   THEN w.value.completed ELSE spent
       /\ current' = Current(w)
  /\ pending' = Tail(pending)
  /\ UNCHANGED <<route, mode, steps, raised, recovery, environment>>

Leave == mode' = "idle" /\ raised' = None /\ steps' = 0

\* The setup pass ends where fuzzing could start.  A worker then runs the job; the
\* central agent's follow-up closes it instead, for its probe was all that was wanted.
Ready ==
  /\ AtStage("fuzzing") /\ mode \in {"setup", "followup"}
  /\ st.status \in FUZZABLE \cup {"afl_cmplog_pending"}
  /\ IF mode = "setup"
     THEN mode' = "run" /\ steps' = 0 /\ UNCHANGED <<pending, raised>>
     ELSE /\ pending' = Save([st EXCEPT !.stage = "complete", !.status = "exhausted"])
          /\ raised' = "return"
          /\ UNCHANGED <<mode, steps>>
  /\ UNCHANGED <<route, disk, recovery, environment, history>>

\* The job is left to a person or to the agent: over, waiting, or in a
\* status of stage "fuzzing" that has no handler.
NeedsAttention ==
  /\ BetweenHandlers
  /\ \/ st.status \in MANUAL_STATUSES /\ ~Exhausted
     \/ AtStage("fuzzing") /\ st.status \notin FUZZABLE \cup GENERABLE \cup {"afl_cmplog_pending"}
  /\ Leave
  /\ UNCHANGED <<route, disk, pending, recovery, environment, history>>

\* A stage without a handler, or too many transitions in one call.
GiveUp ==
  /\ BetweenHandlers
  /\ Exhausted \/ AtStage("complete")
  /\ raised' = IF Exhausted THEN "limit" ELSE "stage"
  /\ UNCHANGED <<route, disk, mode, steps, pending, recovery, environment, history>>

\* The operator's stop, seen at the top of the loop; or raised by the handler, which
\* leaves the loop like a handler after which the worker returns.
StopSeen ==
  /\ AtTop /\ OperatorDoes("stop")
  /\ Leave
  /\ UNCHANGED <<route, disk, pending, recovery, crashes, history>>
Return ==
  /\ raised \in {"stopped", "return"} /\ pending = <<>>
  /\ Leave
  /\ UNCHANGED <<route, disk, pending, recovery, environment, history>>

Failures(s) == s.worker_failures + 1

\* A slip: the limit is noticed one failure late.
TooManyFailuresLate(s) == Failures(s) > MaxFailures

TooManyFailures(s) == Failures(s) >= MaxFailures

\* _record_worker_error reads the state anew and counts the failure.
Recorded(s, e) ==
  IF e = "unsupported"
  THEN [s EXCEPT !.stage = "complete", !.status = "unsupported_integration", !.last_error = e]
  ELSE [s EXCEPT !.worker_failures = Failures(s),
                 !.status = IF TooManyFailures(s) THEN "manual_review"
                            ELSE IF @ = "interrupted" THEN @ ELSE "recovery_pending",
                 !.last_error = e]
RecordWorkerError ==
  /\ raised \notin {None, "stopped", "return"} /\ pending = <<>>
  /\ disk' = [disk EXCEPT !.state = Recorded(st, raised)]
  /\ Leave
  /\ UNCHANGED <<route, pending, recovery, environment, history>>

-----------------------------------------------------------------------------
(* The central agent: its monitor, its follow-up harness.                  *)

Eligible(s) ==
  /\ s.status \in {"recovery_pending", "manual_review", "quartet_review_required"}
  /\ s.stage \in RECOVERABLE_FAILURE_STAGES
  /\ s.worker_failures > 0 /\ s.last_error # None

Applied(s, action) == [stage |-> s.stage, error |-> s.last_error, action |-> action]

Bounded(s) == s.bounded \/ s.status = "quartet_review_required"
\* A slip: recoveries are not limited.
MayRecoverForEver(s) == ~Bounded(s)

MayRecover(s) == ~Bounded(s) /\ s.automatic_recoveries < MaxRecoveries

\* A slip: a job that may not be recovered is not given up either.
OptionsWhileOpen(s) == {a \in {"retry_stage", "skip_target"} : MayRecover(s)}

\* What the monitor may offer for a failed job; giving the target up is always possible.
Options(s) ==
  LET open    == MayRecover(s)
      rebuild == \/ s.stage \in RESTARTABLE_FAILURE_STAGES
                 \/ /\ s.stage = "integration" /\ ~disk.integration
                    /\ s.last_error = "generated_harness"
  IN  {"skip_target"}
      \cup {a \in {"retry_stage"} : open /\ Applied(s, a) \notin disk.applied}
      \cup {a \in {"restart_from_integration"} :
              open /\ rebuild /\ Generated /\ Applied(s, a) \notin disk.applied}

RecoveryMoves ==
  Moved("integration") \o Moved("manifest") \o Moved("smoke") \o Moved("probe")
    \o Moved("quartet") \o Moved("plan")

\* A slip: recovery stores the stage in place of a status.
RetryStageName(s) == s.stage

RetryStatus(s) == RECOVERY_STAGE_STATUS[s.stage]

Recovered(s, action) ==
  LET t == CASE action = "restart_from_integration" -> To(s, "integration", "prepared")
             [] action = "retry_stage" -> To(s, s.stage, RetryStatus(s))
             [] action = "skip_target" -> [s EXCEPT !.stage = "complete",
                                                    !.status = "skipped_after_recovery"]
  IN  [t EXCEPT !.worker_failures = 0, !.automatic_recoveries = @ + 1]

Recover ==
  /\ mode \notin {"followup", "operator"} /\ recovery = <<>> /\ Eligible(st)
  /\ \E action \in Options(st) :
       recovery' = (IF action = "restart_from_integration" THEN RecoveryMoves ELSE <<>>)
                   \o Save(Recovered(st, action))
                   \o <<W("applied", disk.applied \cup {Applied(st, action)})>>
  /\ UNCHANGED <<route, disk, mode, steps, pending, raised, environment, history>>

MonitorWrite ==
  /\ recovery # <<>>
  /\ LET w == Head(recovery) IN disk' = [disk EXCEPT ![w.file] = w.value]
  /\ recovery' = Tail(recovery)
  /\ UNCHANGED <<route, mode, steps, pending, raised, environment, history>>

\* A slip: a follow-up harness for any complete job.
FollowupForAny ==
  /\ st.stage = "complete"
  /\ st.central_improvement < MaxImprovements
  /\ CanReplan

\* A job that ended without a finding may get a further harness, built and probed at once.
FollowupAvailable ==
  /\ st.status = "exhausted" /\ st.stage = "complete"
  /\ st.central_improvement < MaxImprovements
  /\ CanReplan

FollowupHarness ==
  /\ mode = "idle" /\ recovery = <<>> /\ FollowupAvailable
  /\ mode' = "followup"
  /\ pending' = Replan([st EXCEPT !.central_improvement = @ + 1])
  /\ UNCHANGED <<route, disk, steps, raised, recovery, environment, history>>

-----------------------------------------------------------------------------
(* The operator's commands.  They take the locks of the agent and of the   *)
(* worker, so that neither runs, and start the job anew: its files are     *)
(* moved to a history directory one after the other, in the order of their *)
(* names, and its state is written last.  A command that fails puts back   *)
(* what it has moved, last first, as if it had gone back along its steps;  *)
(* one that is killed leaves the job as it is then.                        *)

\* _check_finding_evidence of both commands: no crash waits for triage, for validation or
\* for a person, and none was reproduced.
FreeOfFindings ==
  /\ st.triage_artifact = None
  /\ disk.summary # "reproduced" /\ ~disk.report

\* What retarget looks for besides: reviews that are pending, crash files, and results that list them.
FreeOfCrashes ==
  /\ st.status \notin {"triage_pending", "triage_review_required", "validation_pending",
                      "validation_running", "validation_review_required", "ready_for_human"}
  /\ ~disk.crash_files /\ ~Finding /\ disk.run.result # "finding" /\ disk.afl # "finding"

OperatorMoves ==
  Moved("afl") \o Moved("manifest") \o Moved("plan") \o Moved("progress") \o Moved("run")
    \o Moved("integration") \o Moved("probe") \o Moved("quartet") \o Moved("smoke")
    \o Moved("summary") \o Moved("crash_files")

\* The attempts are counted anew, while central-recovery.json stays.
Rework(command, ws) ==
  /\ mode = "idle" /\ recovery = <<>> /\ route = "native_generated"
  /\ OperatorDoes(command)
  /\ mode' = "operator" /\ pending' = ws /\ raised' = "return"
  /\ UNCHANGED <<route, disk, steps, recovery, crashes, history>>

\* There is a harness to be replaced, or its generation failed and the agent gave the job up.
Replaceable ==
  disk.integration \/ (st.status = "skipped_after_recovery" /\ st.last_error # None)

\* A slip: findings are not looked for.
RetargetUnchecked ==
  Replaceable /\ Rework("retarget", OperatorMoves \o Save(NewState("integration", "prepared")))

\* Another harness is to be generated.
Retarget ==
  /\ Replaceable
  /\ FreeOfFindings /\ FreeOfCrashes
  /\ Rework("retarget", OperatorMoves \o Save(NewState("integration", "prepared")))

\* A harness that a person has reviewed replaces the generated one and is built.
RepairHarness ==
  /\ st.status \in {"quartet_review_required", "skipped_after_recovery"}
  /\ FreeOfFindings /\ disk.integration
  /\ Finding \/ disk.crash_files => disk.probe = "uncaught_cpp_exception"
  /\ Rework("repair-harness", OperatorMoves \o <<W("integration", TRUE)>> \o Save(NewState("build", "integrated")))

-----------------------------------------------------------------------------

\* The host stops dead, or a command is killed: what was not written is lost.
Crash ==
  /\ crashes < MaxCrashes /\ (mode # "idle" \/ recovery # <<>>)
  /\ crashes' = crashes + 1
  /\ pending' = <<>> /\ recovery' = <<>>
  /\ Leave
  /\ UNCHANGED <<route, disk, commands, history>>

Init ==
  /\ route \in Routes
  /\ disk = [state |-> NewState("policy_recheck", "queued"), integration |-> FALSE,
             rewritten |-> {}, manifest |-> None, smoke |-> None, probe |-> None,
             quartet |-> NoReview, plan |-> None, run |-> NoRun, progress |-> Absent.progress,
             afl |-> None, crash_files |-> FALSE, summary |-> None, report |-> FALSE, applied |-> {}]
  /\ mode = "idle" /\ steps = 0 /\ pending = <<>> /\ raised = None /\ recovery = <<>>
  /\ crashes = 0 /\ commands = 0
  /\ spent = 0 /\ current = {}

Handler ==
  Prepare \/ Integrate \/ Build \/ Smoke \/ Probe \/ Quartet \/ RepairQuartetHarness
    \/ Analyze \/ Generate \/ GenerationLimit \/ Fuzz \/ Afl \/ Triage \/ Validate
Worker == Start \/ Handler \/ Write \/ Ready \/ NeedsAttention \/ GiveUp \/ Return \/ RecordWorkerError
Monitor == Recover \/ MonitorWrite
Operator == Retarget \/ RepairHarness
Next == Worker \/ Monitor \/ FollowupHarness \/ Operator \/ StopSeen \/ Crash

Spec == Init /\ [][Next]_vars /\ WF_vars(Worker) /\ WF_vars(Monitor)

-----------------------------------------------------------------------------
(* Properties.                                                             *)

\* The files hold what the handlers may write, and every counter stays in its bounds.
TypeOK ==
  /\ route \in Routes
  /\ disk \in Disk
  /\ mode \in {"idle", "setup", "run", "followup", "operator"} /\ steps \in 0..MaxTransitions
  /\ raised \in Errors \cup {"return"}
  /\ crashes \in 0..MaxCrashes /\ commands \in 0..MaxCommands /\ spent \in 0..Budget
  /\ current \subseteq {"smoke", "probe", "quartet", "plan"}

\* A session only starts on a harness that was approved: the smoke test, the probe, the
\* favourable review and the plan are all of the very build and target that will run.
\* Retries, repairs, generation, recovery, the operator's commands and crashes replace some
\* of these files, never all at once, and none of the files names the build it belongs to.
\* (After a killed command a session may be recorded for a build that was moved away; it
\* ends before it runs anything.)
ApprovedBeforeFuzzing ==
  [][st'.active \notin {NoSession, st.active} /\ Runnable =>
       /\ {"smoke", "probe", "quartet", "plan"} \subseteq current
       /\ disk.smoke = disk.manifest
       /\ disk.quartet.verdict = "ready" /\ disk.plan = "ready"]_vars

\* A target whose harness was rejected is never fuzzed, unless the harness was rewritten since.
RejectedNeverFuzzed ==
  st.stage = "fuzzing" /\ st.harness_generation = 0 /\ st.quartet_repair = 0
    /\ st.automatic_recoveries = 0
  => disk.smoke \notin st.attempted

\* No handler ever misses a file it needs: each stage's files are there when it is
\* reached, by whatever sequence of retries, repairs, recoveries and follow-ups.
InputsPresent == raised # "missing"

\* At rest, a job sent to validation has a summary with a reproduced crash, and a job
\* sent to triage has the artifact that lists the crash.
EvidencePresent ==
  pending = <<>> =>
    /\ st.stage = "triage" => ArtifactThere
    /\ st.stage = "validation" => disk.summary = "reproduced" \/ disk.report

\* The bounds on automatic attempts hold over the whole life of the job: recoveries,
\* generated harnesses, repairs, follow-ups; only giving up exceeds the recovery bound.
AttemptsBounded ==
  /\ st.automatic_recoveries <= MaxRecoveries + 1
  /\ st.automatic_recoveries > MaxRecoveries => st.stage = "complete"
  /\ st.harness_generation <= MaxGenerations /\ st.quartet_repair <= MaxGenerations
  /\ st.central_improvement <= MaxImprovements

\* No more targets are tried than may be, although a build, a repair and a recovery each
\* select a target of their own.
TargetsBounded == Cardinality(st.attempted) <= MaxTargets

\* A worker never selects a job that has failed as often as it may.
FailuresStopTheJob ==
  mode = "idle" /\ st.status \notin MANUAL_STATUSES /\ st.stage # "complete"
    => st.worker_failures < MaxFailures

\* A campaign is closed as exhausted only with its budget spent, for low yield, or after
\* the follow-up harness was probed.
ExhaustedMeansSpent ==
  st.status = "exhausted" /\ mode # "operator" =>
    disk.progress.completed = Budget \/ st.low_yield \/ st.central_improvement > 0

\* A job is never closed as exhausted while an untriaged crash file lies in its directory.
NoFindingLeftBehind == st.status = "exhausted" => ~disk.crash_files

\* Time once recorded in fuzz-progress.json is never forgotten (between two handlers).
NoTimeForgotten == pending = <<>> => disk.progress.completed = spent

Closed == {"ready_for_human", "triage_review_required", "unsupported_integration"}

\* A job that ended for a person is never touched again, but for one that had no build and
\* gets another harness from the operator; one that ended without a finding is only ever
\* taken up again by the follow-up harness or by the operator.  (The monitor may overtake a
\* failed repair that the worker has yet to record: it finds the job waiting for a review,
\* begins a recovery, and completes that after the worker has closed the job.)
EndedStaysEnded ==
  [][/\ st.stage = "complete" /\ st.status \in Closed /\ st' # st =>
          st.status = "unsupported_integration" /\ (mode = "operator" \/ recovery # <<>>)
     /\ st.stage = "complete" /\ st.status = "exhausted" /\ st' # st =>
          mode \in {"followup", "operator"}]_vars

\* A crash that triage reproduced is never put aside: its input, its summary and the build
\* it was reproduced with stay where they are, and the job stays with validation or with
\* people, whatever is started again, recovered, retargeted, repaired or killed half-way.
ReproducedKept ==
  [][disk.summary = "reproduced" =>
       /\ UNCHANGED <<disk.summary, disk.crash_files, disk.manifest>>
       /\ st'.stage \in {"validation", "complete"}]_vars

\* A stagnant campaign gets its further harness, up to the bound on generations: the
\* generator never refuses because of the harness that it generated before.
FurtherHarness == raised # "evidence"

\* No job uses up the transitions of a worker's call: none spins without progress.
TransitionsSuffice == raised # "limit"

\* Every job settles: it ends, or waits for a person with nothing left that the worker or
\* the monitor would do to it.
Settled ==
  /\ mode = "idle" /\ recovery = <<>>
  /\ st.stage = "complete" \/ (st.status \in MANUAL_STATUSES /\ ~Eligible(st))
JobSettles == <>[]Settled

=============================================================================
