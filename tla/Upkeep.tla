-------------------------------- MODULE Upkeep --------------------------------
(* Housekeeping of one job (src/src/fuzz_target_scout/operations.py) while its  *)
(* handlers work: the compaction of its corpus, the removal of build copies, of *)
(* containers nobody owns, the disk limit that stops the job; and the schedule  *)
(* by which the central agent calls it (central_agent.py:863).  Three callers   *)
(* share the lock .housekeeper.lock: the worker between its batches, the agent  *)
(* for completed jobs at any time, the operator's command at any time.          *)
EXTENDS Integers, FiniteSets

CONSTANTS
  Inputs,        \* names of corpus files
  Features,      \* what each input covers: Inputs -> set of features
  Content,       \* the content of each name: two names may hold the same bytes
  Seeds,         \* the names a corpus starts with
  MaxFiles,      \* corpus_max_files
  RetryAfter,    \* hours after the first, second and third failure in a row: 1, 2, 6
  Interval,      \* hours between the agent's runs (housekeeping_interval_seconds)
  MaxEdits,      \* files that sessions write
  MaxErrors,     \* runs of the agent that end in an exception
  MaxCrashes     \* times the host dies

ASSUME UpkeepConstants ==
  /\ Interval \in 1..6 /\ RetryAfter \in [1..3 -> 1..6] /\ Seeds \subseteq Inputs /\ DOMAIN Features = Inputs /\ DOMAIN Content = Inputs
  /\ \A a, b \in Inputs : Content[a] = Content[b] => Features[a] = Features[b]

VARIABLES
  job,         \* state.json: stage, status, active container registered
  fresh,       \* state.json is younger than runtime_retention_hours
  workspace,   \* the build copies are there
  files,       \* corpus: the inode each name has, 0 when there is no such file
  session,     \* the handler at work: its step, its copy of the state, what it holds
  container,   \* the container it started is running
  killed,      \* a housekeeper removed the container of a registered session
  keeper,      \* the housekeeping run that holds the lock
  schedule,    \* the agent's record: failures in a row, hours until it is due
  covered,     \* every feature the corpus had
  raced,       \* a session met one of the moments in which a run does not look
  edits, errors, crashes

vars == <<job, fresh, workspace, files, session, container, killed, keeper, schedule,
          covered, raced, edits, errors, crashes>>
bounds == <<edits, errors, crashes>>

Present == {n \in Inputs : files[n] > 0}
Covers(names) == UNION {Features[n] : n \in names}

NoSession == [step |-> "none", copy |-> [stage |-> "fuzzing", status |-> "ready", active |-> FALSE],
              held |-> {}]
NoKeeper == [by |-> "nobody", pc |-> "idle", state |-> NoSession.copy, snapshot |-> [n \in Inputs |-> 0],
             selected |-> {}, redundant |-> {}, over |-> FALSE, owned |-> FALSE]

Init ==
  /\ job = [stage |-> "fuzzing", status |-> "ready", active |-> FALSE]
  /\ fresh = TRUE /\ workspace = TRUE
  /\ files = [n \in Inputs |-> IF n \in Seeds THEN 1 ELSE 0]
  /\ session = NoSession /\ container = FALSE /\ killed = FALSE /\ keeper = NoKeeper
  /\ schedule = [failures |-> 0, wait |-> Interval]
  /\ covered = Covers(Seeds) /\ raced = FALSE
  /\ edits = 0 /\ errors = 0 /\ crashes = 0

WriteState(value) == job' = value /\ fresh' = TRUE

----------------------------------------------------------------------------
(* The job's handlers, as far as housekeeping can meet them *)

WorkerIdle == session.step = "none" /\ keeper.by # "worker"

\* A fuzz session registers its container in the state before it starts it.
Register ==
  /\ WorkerIdle /\ job.stage = "fuzzing" /\ job.status \in {"ready", "running"}
  /\ LET running == [job EXCEPT !.status = "running", !.active = TRUE]
     IN  WriteState(running)
         /\ session' = [step |-> "fuzz", copy |-> running, held |-> Present]
  /\ container' = TRUE /\ killed' = FALSE
  /\ raced' = (raced \/ keeper.pc \in {"unlink", "limit", "orphans"})
  /\ UNCHANGED <<workspace, files, keeper, schedule, covered, bounds>>

\* A probe, a smoke test, a triage: a container that the state does not name.
StartProbe ==
  /\ WorkerIdle /\ job.stage = "fuzzing" /\ job.status = "ready"
  /\ session' = [NoSession EXCEPT !.step = "probe", !.copy = job]
  /\ container' = TRUE
  /\ UNCHANGED <<job, fresh, workspace, files, killed, keeper, schedule, covered, raced, bounds>>

\* libFuzzer writes an input it found, and may delete the one the new input replaces:
\* a smaller one with what the old one alone had among the inputs it loaded.
Find ==
  /\ session.step = "fuzz" /\ container /\ edits < MaxEdits
  /\ \E new \in Inputs \ session.held :
       \E replaced \in SUBSET (session.held \intersect Present) :
         LET held == (session.held \ replaced) \union {new}
         IN  /\ Cardinality(replaced) <= 1
             /\ Covers(session.held) \subseteq Covers(held)
             /\ files' = [n \in Inputs |->
                            IF n = new THEN (IF files[n] = 0 THEN edits + 2 ELSE files[n])
                            ELSE IF n \in replaced THEN 0 ELSE files[n]]
             /\ session' = [session EXCEPT !.held = held]
             /\ covered' = covered \union Features[new]
  /\ edits' = edits + 1
  /\ UNCHANGED <<job, fresh, workspace, container, killed, keeper, schedule, raced, errors, crashes>>

\* The handler ends and saves its own copy of the state: to be continued, or over.
EndSession ==
  /\ session.step # "none"
  /\ \E stage \in (IF session.step = "fuzz" THEN {"fuzzing", "complete"} ELSE {"fuzzing"}) :
       WriteState([session.copy EXCEPT !.active = FALSE, !.stage = stage,
                     !.status = IF stage = "complete" THEN "exhausted" ELSE "ready"])
  /\ session' = NoSession /\ container' = FALSE
  /\ raced' = (raced \/ (keeper.pc = "check" /\ session.step = "fuzz"))
  /\ UNCHANGED <<workspace, files, killed, keeper, schedule, covered, bounds>>

\* The review of the batch in which the job ended asks for a further harness: the
\* job goes on from its build copies.
Reopen ==
  /\ WorkerIdle /\ keeper.by # "agent" /\ job.stage = "complete" /\ fresh
  /\ WriteState([job EXCEPT !.stage = "fuzzing", !.status = "ready"])
  /\ UNCHANGED <<workspace, files, session, container, killed, keeper, schedule, covered, raced, bounds>>

\* The time of retention (hours) passes without a write; a housekeeping run is
\* shorter than that (a merge has ten minutes).
Age ==
  /\ fresh /\ session.step = "none" /\ keeper.by = "nobody" /\ fresh' = FALSE
  /\ UNCHANGED <<job, workspace, files, session, container, killed, keeper, schedule, covered,
                 raced, bounds>>

\* The operator answers a job that was stopped for its size.
MakeRoom ==
  /\ job.status = "resource_limit_required" /\ session.step = "none" /\ keeper.by = "nobody"
  /\ WriteState([job EXCEPT !.status = "ready"])
  /\ UNCHANGED <<workspace, files, session, container, killed, keeper, schedule, covered, raced, bounds>>

JobSteps == Register \/ StartProbe \/ Find \/ EndSession \/ Reopen \/ Age \/ MakeRoom

----------------------------------------------------------------------------
(* A housekeeping run *)

\* The lock is taken without waiting; a caller that finds it taken does nothing.
\* The agent skips a job that is not complete or has a container.
Begin(by) ==
  /\ keeper.by = "nobody"
  /\ keeper' = [NoKeeper EXCEPT !.by = by, !.state = job,
                  !.pc = IF by = "agent" /\ (job.stage # "complete" \/ job.active)
                           THEN "end" ELSE "walk"]
  /\ UNCHANGED <<job, fresh, workspace, files, session, container, killed, covered, raced, bounds>>

\* The time of the attempt is saved before the run: after a failure the next attempt
\* waits from here, otherwise a run that does not succeed stays due.
Attempted ==
  schedule' = [schedule EXCEPT !.wait =
                 IF schedule.failures > 0 THEN RetryAfter[schedule.failures] ELSE 0]

BeginByAgent == schedule.wait = 0 /\ Begin("agent") /\ Attempted

AgentFindsItBusy ==
  /\ schedule.wait = 0 /\ keeper.by \in {"worker", "cli"} /\ Attempted
  /\ UNCHANGED <<job, fresh, workspace, files, session, container, killed, keeper, covered, raced, bounds>>

\* Time is counted where it matters for this job: while it is complete (the agent
\* skips it before) and no run is under way.
HourPasses ==
  /\ keeper.by = "nobody" /\ job.stage = "complete"
  /\ schedule.wait > 0 /\ schedule' = [schedule EXCEPT !.wait = @ - 1]
  /\ UNCHANGED <<job, fresh, workspace, files, session, container, killed, keeper, covered, raced, bounds>>

BeginByWorker == session.step = "none" /\ Begin("worker") /\ UNCHANGED schedule
BeginByOperator == Begin("cli") /\ UNCHANGED schedule

Busy(pc) == keeper.pc = pc
Keep(new) ==
  /\ keeper' = new
  /\ UNCHANGED <<job, fresh, workspace, session, container, killed, schedule, covered, raced, bounds>>

\* _compact_corpus gives up, and the corpus is over its limit.
StaysOver(k) == [k EXCEPT !.pc = "strip", !.over = TRUE,
                          !.snapshot = NoKeeper.snapshot, !.selected = {}, !.redundant = {}]

\* _clean_job reads the state, and _compact_corpus takes its snapshot.  A corpus
\* within its limit is left alone; one of a job that is fuzzed, or that cannot be
\* merged, stays over it.
Walk ==
  /\ Busy("walk")
  /\ LET over == Cardinality(Present) > MaxFiles
         walked == [keeper EXCEPT !.state = job]
     IN  \/ ~over /\ Keep([walked EXCEPT !.pc = "strip"])
         \/ over /\ Keep(StaysOver(walked))
         \/ over /\ ~job.active /\ Keep([walked EXCEPT !.pc = "merge", !.snapshot = files])
  /\ UNCHANGED files

\* libFuzzer -merge=1 keeps, of what it finds in the directory, inputs that cover as
\* much; the run may fail, time out or be refused for its output.
Merge ==
  /\ Busy("merge")
  /\ \/ Keep(StaysOver(keeper))
     \/ \E selected \in SUBSET {Content[n] : n \in Present} :
          /\ Covers({n \in Present : Content[n] \in selected}) = Covers(Present)
          /\ Keep([keeper EXCEPT !.pc = "verify", !.selected = selected])
  /\ UNCHANGED files

\* The files of the snapshot are hashed as they are now: every selected input must be
\* among them, one file is kept for each, and the kept ones must fit the limit.
Originals == {n \in Inputs : keeper.snapshot[n] > 0}
Kept == {CHOOSE n \in Originals : Content[n] = c : c \in keeper.selected}

Verify ==
  /\ Busy("verify")
  /\ LET valid == /\ Originals \subseteq Present
                  /\ keeper.selected \subseteq {Content[n] : n \in Originals}
     IN  IF valid /\ Cardinality(Kept) <= MaxFiles
           THEN Keep([keeper EXCEPT !.pc = "check", !.snapshot = NoKeeper.snapshot, !.selected = {},
                                     !.redundant = {<<n, keeper.snapshot[n]>> : n \in Originals \ Kept}])
           ELSE Keep(StaysOver(keeper))
  /\ UNCHANGED files

\* The state is read once more: a session that has started in the meantime defers
\* the removal.
\* Slip: the state read with the snapshot is trusted.
CheckSkipped ==
  /\ Busy("check") /\ Keep([keeper EXCEPT !.pc = "unlink"])
  /\ UNCHANGED files

Check ==
  /\ Busy("check")
  /\ Keep(IF job.active THEN StaysOver(keeper)
                        ELSE [keeper EXCEPT !.pc = "unlink"])
  /\ UNCHANGED files

\* A redundant file goes if it is the file the snapshot saw.
UnlinkOne(file) ==
  files' = IF files[file[1]] = file[2] THEN [files EXCEPT ![file[1]] = 0] ELSE files

\* The redundant files, one after the other; the deadline may end that early.
Unlink ==
  /\ Busy("unlink")
  /\ \/ \E file \in keeper.redundant :
          UnlinkOne(file) /\ Keep([keeper EXCEPT !.redundant = @ \ {file}])
     \/ keeper.redundant = {} /\ UNCHANGED files
          /\ Keep([keeper EXCEPT !.pc = "strip", !.over = Cardinality(Present) > MaxFiles])
     \/ keeper.redundant # {} /\ UNCHANGED files
          /\ Keep(StaysOver(keeper))

\* The build copies of a job that was complete and has not been written since the
\* time of retention; then the state is read again for the disk limit.
\* Slips: no time of retention; only once the corpus is within its limit.
MayStripAtOnce == keeper.state.stage = "complete"
MayStripIfCompacted == keeper.state.stage = "complete" /\ ~fresh /\ ~keeper.over

MayStrip == keeper.state.stage = "complete" /\ ~fresh

\* Slip: the state read at the beginning of the run serves for the limit too.
StripReadsNothing ==
  /\ Busy("strip")
  /\ workspace' = (workspace /\ ~MayStrip)
  /\ keeper' = [keeper EXCEPT !.pc = "limit"]
  /\ UNCHANGED <<job, fresh, files, session, container, killed, schedule, covered, raced, bounds>>

Strip ==
  /\ Busy("strip")
  /\ workspace' = (workspace /\ ~MayStrip)
  /\ keeper' = [keeper EXCEPT !.pc = "limit", !.state = job]
  /\ UNCHANGED <<job, fresh, files, session, container, killed, schedule, covered, raced, bounds>>

\* A job over its limit stops, unless it is complete or a session is running; the
\* whole state that was read before is written.
\* Slip: completed jobs are stopped too.
MayStopAny == keeper.over /\ ~keeper.state.active

MayStop == keeper.over /\ keeper.state.stage # "complete" /\ ~keeper.state.active

Limit ==
  /\ Busy("limit")
  /\ IF MayStop THEN WriteState([keeper.state EXCEPT !.status = "resource_limit_required"])
                ELSE UNCHANGED <<job, fresh>>
  /\ keeper' = [keeper EXCEPT !.pc = IF keeper.by = "agent" THEN "end" ELSE "owners"]
  /\ UNCHANGED <<workspace, files, session, container, killed, schedule, covered, raced, bounds>>

\* _active_containers: those the states of running jobs name.
Owners ==
  /\ Busy("owners")
  /\ Keep([keeper EXCEPT !.pc = "orphans", !.owned = job.status = "running" /\ job.active])
  /\ UNCHANGED files

\* Every other container of the project is removed.
Orphans ==
  /\ Busy("orphans")
  /\ container' = (container /\ keeper.owned)
  /\ killed' = (killed \/ (container /\ ~keeper.owned /\ session.step = "fuzz"))
  /\ keeper' = [keeper EXCEPT !.pc = "end"]
  /\ UNCHANGED <<job, fresh, workspace, files, session, schedule, covered, raced, bounds>>

\* The run ends and gives the lock back; the agent books its success.
End ==
  /\ Busy("end")
  /\ keeper' = NoKeeper
  /\ schedule' = IF keeper.by = "agent"
                   THEN [failures |-> 0, wait |-> Interval] ELSE schedule
  /\ UNCHANGED <<job, fresh, workspace, files, session, container, killed, covered, raced, bounds>>

\* The agent's run ends in an exception; the agent counts it and tells the operator
\* of the third in a row.
Fail ==
  /\ keeper.by = "agent" /\ keeper.pc \in {"walk", "strip"} /\ errors < MaxErrors
  /\ keeper' = NoKeeper
  /\ LET failures == IF schedule.failures < 3 THEN schedule.failures + 1 ELSE 3
     IN  schedule' = [failures |-> failures, wait |-> RetryAfter[failures]]
  /\ errors' = errors + 1
  /\ UNCHANGED <<job, fresh, workspace, files, session, container, killed, covered, raced, edits, crashes>>

\* The host dies; containers may survive it, and the states keep what they say.
Crash ==
  /\ crashes < MaxCrashes /\ crashes' = crashes + 1
  /\ session' = NoSession /\ keeper' = NoKeeper
  /\ container' \in {FALSE, container}
  /\ UNCHANGED <<job, fresh, workspace, files, killed, schedule, covered, raced, edits, errors>>

KeeperSteps ==
  Walk \/ Merge \/ Verify \/ Check \/ Unlink \/ Strip \/ Limit \/ Owners \/ Orphans \/ End

Next ==
  \/ JobSteps \/ KeeperSteps
  \/ BeginByWorker \/ BeginByOperator \/ BeginByAgent \/ AgentFindsItBusy \/ HourPasses
  \/ Fail \/ Crash

\* A run that holds the lock goes on (merge and verification have deadlines), time
\* passes, and the agent's monitor comes by; nobody else is obliged to anything.
Spec ==
  /\ Init /\ [][Next]_vars
  /\ WF_vars(KeeperSteps) /\ WF_vars(HourPasses) /\ WF_vars(BeginByAgent)
  /\ SF_vars(Age) /\ WF_vars(EndSession)

----------------------------------------------------------------------------
(* Properties *)

States == [stage : {"fuzzing", "complete"},
           status : {"ready", "running", "exhausted", "resource_limit_required"},
           active : BOOLEAN]

\* state.json is one of the states the handlers and the housekeeping write; a complete
\* job is never marked for its size, and the agent's counters keep their range.
TypeOK ==
  /\ job \in States /\ keeper.state \in States /\ session.copy \in States
  /\ job.stage = "complete" => job.status = "exhausted" /\ ~job.active
  /\ schedule.failures \in 0..3 /\ schedule.wait \in 0..6

\* Compaction never costs coverage: whatever sessions add and replace, whatever
\* files were there when the snapshot was taken, merged and hashed, the corpus
\* keeps every feature it has had, also when the operator's run meets a session:
\* only one that ends between the hashing and the last look at the state, or
\* starts while files are removed, is out of its sight.
CorpusCovered == raced \/ covered \subseteq Covers(Present)

\* A registered session is neither stopped nor forgotten by a housekeeping run,
\* whenever either began: its container lives and the state still names it, unless
\* it registered between a read of the state and the use of it (disk limit, orphans).
SessionKept == session.step = "fuzz" /\ ~raced => ~killed /\ job.active

\* A job that is not complete has its build copies, also one that was complete and
\* goes on with a further harness.
BuildKept == job.stage # "complete" => workspace

\* The build copies of a job that stays complete are removed in the end, whatever
\* fails in between and whoever holds the lock.
CompletedCleaned == <>[](job.stage = "complete") => <>(~workspace)

=============================================================================
