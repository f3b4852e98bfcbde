--------------------------- MODULE JobPipelineProofs ---------------------------
(* A job's life is safe for every budget, every bound and every number of crashes  *)
(* and commands: theorems about JobPipeline.                                       *)
(*                                                                                 *)
(* A handler hands over its writes at once and they reach the disk one by one, so  *)
(* that an invariant speaks of the disk and of the writes to come.  The heart of   *)
(* every proof is one lemma per handler (`...Does'), which says what the sequence  *)
(* of its writes looks like: early writes, that leave the job to its worker, and   *)
(* an end, after which the job may belong to the monitor, to a person or to nobody.*)
EXTENDS JobPipeline, TLAPS, SequenceTheorems

-----------------------------------------------------------------------------
(* What may be written.                                                    *)

\* The states a handler may save.
GoodStates ==
  {s \in State :
     /\ s.automatic_recoveries <= MaxRecoveries + 1
     /\ s.automatic_recoveries > MaxRecoveries => s.stage = "complete" /\ s.status # "exhausted"
     /\ s.harness_generation <= MaxGenerations /\ s.quartet_repair <= MaxGenerations
     /\ s.central_improvement <= MaxImprovements
     /\ s.status = "quartet_repair_pending" => s.quartet_repair < MaxGenerations
     /\ \/ s.stage # "complete" /\ s.status \notin MANUAL_STATUSES
        \/ s.status = "exhausted"
        => s.worker_failures < MaxFailures}

\* Those of a job that goes on.
LiveStates ==
  {s \in State :
     /\ s.stage # "complete"
     /\ s.automatic_recoveries <= MaxRecoveries
     /\ s.harness_generation <= MaxGenerations /\ s.quartet_repair <= MaxGenerations
     /\ s.central_improvement <= MaxImprovements
     /\ s.status = "quartet_repair_pending" => s.quartet_repair < MaxGenerations
     /\ s.worker_failures < MaxFailures}

Reviews == {NoReview} \cup [verdict: {"ready", "rejected"}, target: Targets]
Runs == [result: {None, "quiet", "finding", "broken"}, session: {NoSession} \cup Sessions,
         time: 0..1]
Progresses == [completed: 0..Budget, stalled: BOOLEAN, accounted: {NoSession} \cup Sessions]
Records == [stage: Stages, error: Errors, action: Actions]
GoodDisks == {d \in Disk : d.state \in GoodStates /\ d.quartet \in Reviews}

FileWrites ==
  [file: {"integration", "crash_files", "report"}, value: BOOLEAN]
    \cup [file: {"rewritten"}, value: SUBSET Targets]
    \cup [file: {"manifest", "smoke"}, value: Targets \cup {None}]
    \cup [file: {"probe"}, value: {None, "clean", "broken"} \cup Findings]
    \cup [file: {"quartet"}, value: Reviews]
    \cup [file: {"plan"}, value: {None, "ready", "work"}]
    \cup [file: {"run"}, value: Runs]
    \cup [file: {"progress"}, value: Progresses]
    \cup [file: {"afl"}, value: {None, "quiet", "finding", "failed"}]
    \cup [file: {"summary"}, value: {None, "other"}]

\* Statuses in which the monitor may take a job up.
Stuck == {"recovery_pending", "manual_review", "quartet_review_required"}

\* Writes after which the job is still the worker's.
Early == FileWrites \cup [file: {"state"}, value: {s \in LiveStates : s.status \notin Stuck}]

Writes ==
  FileWrites \cup [file: {"state"}, value: GoodStates] \cup [file: {"summary"}, value: {"reproduced"}]
    \cup [file: {"applied"}, value: SUBSET Records]

\* A job that is over, for a person or without a finding.
Ended(s) == s.stage = "complete" /\ s.status \in Closed \cup {"exhausted"}

\* The exception raised next to such a state counts no failure.
EndsWell(s, e) ==
  Ended(s) => \/ e \in {None, "return", "stopped"}
              \/ e = "unsupported" /\ s.status = "unsupported_integration" /\ s.last_error = e

\* The end of a handler's writes.
Concludes(end, e) ==
  \/ end = <<>>
  \/ \E s \in GoodStates : EndsWell(s, e) /\ end = Save(s)
  \/ \E s \in GoodStates, v \in {"reproduced", "other"} :
       /\ EndsWell(s, e) /\ s.status \notin Stuck
       /\ v = "reproduced" => s.stage = "validation" /\ s.status = "validation_pending"
       /\ end = Save(s) \o <<W("summary", v)>>

\* What validation may write of a reproduced crash.
Confirming ==
  [file: {"report"}, value: BOOLEAN]
    \cup [file: {"state"}, value: {s \in GoodStates : /\ s.stage \in {"validation", "complete"}
                                                       /\ s.status # "exhausted"}]

Handed(ws, e) ==
  /\ e \in Errors \cup {"return"}
  /\ \E early \in Seq(Early), end \in Seq(Writes) : Concludes(end, e) /\ ws = early \o end
  /\ disk.summary = "reproduced" => ws \in Seq(Confirming)

\* What every handler does.
HandlerStep ==
  /\ Handed(pending', raised')
  /\ steps' = Counted /\ commands' \in 0..MaxCommands
  /\ UNCHANGED <<route, disk, mode, recovery, crashes, history>>

-----------------------------------------------------------------------------
(* The invariants.                                                         *)

TypeInv ==
  /\ TypeOK
  /\ disk \in GoodDisks
  /\ pending \in Seq(Writes) /\ recovery \in Seq(Writes)
  /\ mode = "idle" => pending = <<>> /\ raised = None

\* The writes to come, when some are made already.
PendingInv ==
  \/ \E early \in Seq(Early), end \in Seq(Writes) : Concludes(end, raised) /\ pending = early \o end
  \/ pending = <<W("summary", "reproduced")>> /\ st.stage = "validation" /\ st.status = "validation_pending"

\* A reproduced crash is only written about by validation.
ReproducedInv ==
  disk.summary = "reproduced" =>
    /\ st.stage \in {"validation", "complete"} /\ st.status # "exhausted"
    /\ pending \in Seq(Confirming)

\* While the worker or a person is writing, the monitor has nothing to begin with.
WorkerAlone == pending # <<>> => mode \in {"followup", "operator"} \/ st.status \notin Stuck

CoreInv == TypeInv /\ PendingInv /\ ReproducedInv /\ WorkerAlone

\* What the monitor moves away, and what it writes last.
Moves == {w \in FileWrites : w.file # "summary"}
AppliedWrites == [file: {"applied"}, value: SUBSET Records]

\* As long as the monitor has to write the job's state, the worker has nothing to write and
\* the job waits; the worker may only record the failure of its last handler.
RecoveryInv ==
  \/ recovery \in Seq(AppliedWrites)
  \/ /\ pending = <<>> /\ mode \notin {"followup", "operator"}
     /\ disk.summary # "reproduced"
     /\ st.status \in MANUAL_STATUSES /\ (Ended(st) => st.status = "unsupported_integration")
     /\ \E moves \in Seq(Moves), s \in GoodStates, a \in AppliedWrites :
          ~Ended(s) /\ recovery = moves \o <<W("state", s), a>>

\* Nothing is written about a job that is over, except to start it again.
Aside == {w \in Writes : w.file # "state"}
EndInv ==
  Ended(st) =>
    /\ EndsWell(st, raised)
    /\ \/ pending \in Seq(Aside)
       \/ mode = "operator" /\ st.status \in {"exhausted", "unsupported_integration"}
       \/ mode = "followup" /\ st.status = "exhausted"

-----------------------------------------------------------------------------
(* Sequences of writes.                                                    *)

LEMMA Bounds ==
  /\ Budget \in Nat /\ Budget >= 1 /\ MaxFailures \in Nat /\ MaxFailures >= 1
  /\ MaxTransitions \in Nat /\ MaxGenerations \in Nat /\ MaxRecoveries \in Nat
  /\ MaxImprovements \in Nat /\ MaxCrashes \in Nat /\ MaxCommands \in Nat
BY BoundsAssumption

LEMMA LiveIsGood == LiveStates \subseteq GoodStates
BY Bounds DEF LiveStates, GoodStates, State

LEMMA EarlyIsWrites == FileWrites \subseteq Early /\ Early \subseteq Writes
<1>1. [file: {"state"}, value: {s \in LiveStates : s.status \notin Stuck}]
        \subseteq [file: {"state"}, value: GoodStates]
  BY LiveIsGood
<1> QED
  BY <1>1 DEF Early, Writes

LEMMA Single ==
  ASSUME NEW S, NEW w \in S
  PROVE  <<w>> \in Seq(S) /\ <<w>> # <<>> /\ Head(<<w>>) = w /\ Tail(<<w>>) = <<>>
OBVIOUS

LEMMA Pair ==
  ASSUME NEW S, NEW v \in S, NEW w \in S
  PROVE  /\ <<v, w>> \in Seq(S) /\ <<v, w>> # <<>> /\ Head(<<v, w>>) = v /\ Tail(<<v, w>>) = <<w>>
         /\ <<v>> \o <<w>> = <<v, w>>
<1>1. <<v>> \in Seq(S) /\ <<w>> \in Seq(S) /\ <<v, w>> \in Seq(S)
  OBVIOUS
<1>2. <<v>> \o <<w>> = Append(<<v>>, w)
  BY <1>1, AppendIsConcat
<1>3. Append(<<v>>, w) = <<v, w>>
  <2>1. Append(<<v>>, w) \in Seq(S) /\ Len(Append(<<v>>, w)) = 2 /\ Len(<<v, w>>) = 2
    OBVIOUS
  <2>2. \A i \in 1..2 : Append(<<v>>, w)[i] = <<v, w>>[i]
    OBVIOUS
  <2> QED
    BY <1>1, <2>1, <2>2, SeqEqual
<1>4. <<v, w>> # <<>> /\ Head(<<v, w>>) = v /\ Len(<<v, w>>) = 2
  OBVIOUS
<1>5. Tail(<<v, w>>) = <<w>>
  <2>1. Tail(<<v, w>>) \in Seq(S) /\ Len(Tail(<<v, w>>)) = 1 /\ Len(<<w>>) = 1
    BY <1>1, <1>4, HeadTailProperties
  <2>2. Tail(<<v, w>>)[1] = <<w>>[1]
    BY <1>1, <1>4, <2>1, HeadTailProperties
  <2> QED
    BY <1>1, <2>1, <2>2, SeqEqual
<1> QED
  BY <1>1, <1>2, <1>3, <1>4, <1>5

\* The first of several writes, and the others.
LEMMA FirstAndRest ==
  ASSUME NEW S, NEW a \in Seq(S), NEW b \in Seq(S), a # <<>>
  PROVE  a \o b # <<>> /\ Head(a \o b) = Head(a) /\ Tail(a \o b) = Tail(a) \o b
<1>1. Head(a) \in S /\ Tail(a) \in Seq(S) /\ Len(Tail(a)) = Len(a) - 1 /\ Len(a) \in Nat \ {0}
  BY HeadTailProperties, EmptySeq
<1>2. a \o b \in Seq(S) /\ a \o b # <<>> /\ Len(a \o b) = Len(a) + Len(b)
  BY ConcatProperties, ConcatEqualIffEmpty
<1>3. Head(a \o b) = Head(a)
  BY <1>1, <1>2, ConcatProperties
<1>4. Tail(a \o b) \in Seq(S) /\ Tail(a) \o b \in Seq(S)
  BY <1>1, <1>2, HeadTailProperties, ConcatProperties
<1>5. Len(Tail(a \o b)) = Len(Tail(a) \o b)
  BY <1>1, <1>2, HeadTailProperties, ConcatProperties
<1>6. ASSUME NEW i \in 1 .. Len(Tail(a \o b))
      PROVE  Tail(a \o b)[i] = (Tail(a) \o b)[i]
  <2>1. Len(a) \in Nat /\ Len(b) \in Nat /\ i \in Nat /\ i >= 1 /\ i + 1 <= Len(a) + Len(b)
    BY <1>1, <1>2, HeadTailProperties, LenProperties
  <2>2. Tail(a \o b)[i] = (a \o b)[i + 1]
    BY <1>2, HeadTailProperties
  <2>3. (a \o b)[i + 1] = IF i + 1 <= Len(a) THEN a[i + 1] ELSE b[i + 1 - Len(a)]
    BY <2>1, ConcatProperties
  <2>4. (Tail(a) \o b)[i] = IF i <= Len(Tail(a)) THEN Tail(a)[i] ELSE b[i - Len(Tail(a))]
    BY <1>1, <2>1, ConcatProperties
  <2>5. i <= Len(Tail(a)) => Tail(a)[i] = a[i + 1]
    BY <1>1, <2>1, HeadTailProperties
  <2> QED
    BY <1>1, <2>1, <2>2, <2>3, <2>4, <2>5
<1> QED
  BY <1>2, <1>3, <1>4, <1>5, <1>6, SeqEqual

LEMMA WriteType ==
  ASSUME NEW d \in GoodDisks, NEW w \in Writes
  PROVE  [d EXCEPT ![w.file] = w.value] \in GoodDisks
<1>1. GoodStates \subseteq State
  BY DEF GoodStates
<1>2. Reviews \subseteq [verdict: {None, "ready", "rejected"}, target: Targets \cup {None}]
  BY DEF Reviews, NoReview
<1>3. [d EXCEPT ![w.file] = w.value] \in Disk
  BY <1>1, <1>2 DEF GoodDisks, Writes, FileWrites, Disk, Runs, Progresses, Records
<1>4. /\ [d EXCEPT ![w.file] = w.value].state = IF w.file = "state" THEN w.value ELSE d.state
      /\ [d EXCEPT ![w.file] = w.value].quartet = IF w.file = "quartet" THEN w.value ELSE d.quartet
  BY DEF GoodDisks, Disk
<1>5. /\ w.file = "state" => w.value \in GoodStates
      /\ w.file = "quartet" => w.value \in Reviews
  BY DEF Writes, FileWrites
<1> QED
  BY <1>3, <1>4, <1>5 DEF GoodDisks

\* A file that is moved away is one early write or none.
LEMMA MovedIsEarly ==
  ASSUME NEW name \in DOMAIN Absent
  PROVE  Moved(name) \in Seq(Early)
<1>1. W(name, Absent[name]) \in FileWrites
  <2>1. name \in {"integration", "manifest", "smoke", "probe", "quartet", "plan", "run", "afl",
                  "crash_files", "summary", "progress"}
    BY DEF Absent
  <2>2. /\ Absent["integration"] = FALSE /\ Absent["manifest"] = None /\ Absent["smoke"] = None
        /\ Absent["probe"] = None /\ Absent["plan"] = None /\ Absent["afl"] = None
        /\ Absent["crash_files"] = FALSE /\ Absent["summary"] = None
    BY DEF Absent
  <2>3. Absent["quartet"] \in Reviews /\ Absent["run"] \in Runs /\ Absent["progress"] \in Progresses
    BY Bounds DEF Absent, NoRun, NoReview, NoSession, Reviews, Runs, Progresses
  <2> QED
    BY <2>1, <2>2, <2>3 DEF W, FileWrites
<1>2. <<W(name, Absent[name])>> \in Seq(Early)
  BY <1>1, EarlyIsWrites, Single
<1>3. <<>> \in Seq(Early)
  OBVIOUS
<1> QED
  BY <1>2, <1>3 DEF Moved

LEMMA EarlyJoin ==
  ASSUME NEW a \in Seq(Early), NEW b \in Seq(Early)
  PROVE  a \o b \in Seq(Early)
BY ConcatProperties

\* Every way of moving results away.
LEMMA ArchivesAreEarly ==
  /\ Results \in Seq(Early) /\ RecoveryMoves \in Seq(Early) /\ OperatorMoves \in Seq(Early)
<1>1. \A name \in {"integration", "manifest", "smoke", "probe", "quartet", "plan", "run", "afl",
                   "crash_files", "summary", "progress"} : Moved(name) \in Seq(Early)
  BY MovedIsEarly DEF Absent
<1> HIDE DEF Moved
<1>2. Results \in Seq(Early)
  BY <1>1, EarlyJoin DEF Results
<1>3. RecoveryMoves \in Seq(Early)
  BY <1>1, EarlyJoin DEF RecoveryMoves
<1>4. OperatorMoves \in Seq(Early)
  BY <1>1, EarlyJoin DEF OperatorMoves
<1> QED
  BY <1>2, <1>3, <1>4

LEMMA ArchiveIsEarly ==
  ASSUME disk \in Disk
  PROVE  ArchivePreGenerationResults \in Seq(Early)
<1>1. [disk.progress EXCEPT !.stalled = FALSE] \in Progresses
  BY DEF Disk, Progresses
<1>2. W("progress", [disk.progress EXCEPT !.stalled = FALSE]) \in Early
  BY <1>1 DEF W, FileWrites, Early
<1>3. TimeCarriedOver \in Seq(Early)
  BY <1>2, Single, EmptySeq DEF TimeCarriedOver
<1>4. Moved("crash_files") \in Seq(Early)
  BY MovedIsEarly DEF Absent
<1> QED
  BY <1>3, <1>4, ArchivesAreEarly, EarlyJoin DEF ArchivePreGenerationResults

LEMMA SelectedTarget ==
  ASSUME NEW S \in SUBSET Targets, S # {}
  PROVE  SelectTarget(S) \in S
BY DEF SelectTarget

LEMMA FileWriteIsEarly ==
  ASSUME NEW value
  PROVE  /\ value \in BOOLEAN => /\ W("integration", value) \in Early
                                 /\ W("crash_files", value) \in Early
                                 /\ W("report", value) \in Early
         /\ value \in SUBSET Targets => W("rewritten", value) \in Early
         /\ value \in Targets \cup {None} => W("manifest", value) \in Early /\ W("smoke", value) \in Early
         /\ value \in {None, "clean", "broken"} \cup Findings => W("probe", value) \in Early
         /\ value \in Reviews => W("quartet", value) \in Early
         /\ value \in {None, "ready", "work"} => W("plan", value) \in Early
         /\ value \in Runs => W("run", value) \in Early
         /\ value \in Progresses => W("progress", value) \in Early
         /\ value \in {None, "quiet", "finding", "failed"} => W("afl", value) \in Early
         /\ value \in {None, "other"} => W("summary", value) \in Early
         /\ value \in LiveStates /\ value.status \notin Stuck => W("state", value) \in Early
<1> QED
  BY DEF W, Early, FileWrites

LEMMA RebuiltIsEarly ==
  ASSUME NEW target \in Targets \cup {None}
  PROVE  Rebuilt(target) \in Seq(Early)
<1>1. SelectTarget(Targets) \in Targets
  BY TargetsAssumption, SelectedTarget
<1> QED
  BY <1>1, FileWriteIsEarly, Pair DEF Rebuilt

-----------------------------------------------------------------------------
(* States.                                                                 *)

\* A job that has a handler has not failed too often and has not given up.
LEMMA LiveAtTop ==
  ASSUME TypeInv, AtTop, st.stage # "complete"
  PROVE  st \in LiveStates
BY Bounds DEF st, TypeInv, GoodDisks, AtTop, LiveStates, GoodStates, State

LEMMA MovesOn ==
  ASSUME NEW s \in LiveStates, NEW stage \in Stages, NEW status \in Statuses,
         status = "quartet_repair_pending" => s.quartet_repair < MaxGenerations
  PROVE  /\ To(s, stage, status).stage = stage /\ To(s, stage, status).status = status
         /\ To(s, stage, status) \in State
         /\ stage # "complete" => To(s, stage, status) \in LiveStates
         /\ To(s, stage, status) \in GoodStates
<1>1. None \in Errors
  BY DEF Errors, OwnErrors
<1>2. s \in State
  BY DEF LiveStates
<1>3. /\ To(s, stage, status) \in State
      /\ To(s, stage, status).stage = stage /\ To(s, stage, status).status = status
  BY <1>1, <1>2 DEF To, State
<1>4. /\ To(s, stage, status).automatic_recoveries = s.automatic_recoveries
      /\ To(s, stage, status).harness_generation = s.harness_generation
      /\ To(s, stage, status).quartet_repair = s.quartet_repair
      /\ To(s, stage, status).central_improvement = s.central_improvement
      /\ To(s, stage, status).worker_failures = s.worker_failures
  BY <1>2 DEF To, State
<1>5. stage # "complete" => To(s, stage, status) \in LiveStates
  BY <1>3, <1>4 DEF LiveStates
<1>6. To(s, stage, status) \in GoodStates
  BY <1>2, <1>3, <1>4, Bounds DEF LiveStates, GoodStates, State
<1> QED
  BY <1>3, <1>5, <1>6

LEMMA Flagged ==
  ASSUME NEW s \in LiveStates, NEW status \in Statuses, NEW e \in Errors,
         status # "quartet_repair_pending"
  PROVE  /\ Flag(s, status, e) \in LiveStates
         /\ Flag(s, status, e).stage = s.stage /\ Flag(s, status, e).status = status
BY DEF Flag, LiveStates, State

\* A failure of a person's kind is counted at least once.
LEMMA FailedOnce ==
  ASSUME NEW s \in LiveStates, s.status \in MANUAL_STATUSES, s.status # "exhausted"
  PROVE  AtLeastOneFailure(s) \in GoodStates /\ ~Ended(AtLeastOneFailure(s))
BY Bounds DEF AtLeastOneFailure, LiveStates, GoodStates, State, Ended

LEMMA GoesOnWell ==
  ASSUME NEW s \in LiveStates, NEW e
  PROVE  s \in GoodStates /\ EndsWell(s, e)
BY LiveIsGood DEF LiveStates, EndsWell, Ended

-----------------------------------------------------------------------------
(* What a handler hands over.                                              *)

LEMMA NothingConcludes ==
  ASSUME NEW e
  PROVE  Concludes(<<>>, e) /\ <<>> \in Seq(Writes)
BY DEF Concludes

LEMMA EarlyHanded ==
  ASSUME NEW early \in Seq(Early), NEW e \in Errors \cup {"return"}, disk.summary # "reproduced"
  PROVE  Handed(early, e)
<1>1. early = early \o <<>>
  BY ConcatEmptySeq
<1> QED
  BY <1>1, NothingConcludes DEF Handed

LEMMA SaveConcludes ==
  ASSUME NEW s \in GoodStates, NEW e, EndsWell(s, e)
  PROVE  Concludes(Save(s), e) /\ Save(s) \in Seq(Writes)
<1>1. W("state", s) \in Writes
  BY DEF W, Writes
<1> QED
  BY <1>1, Single DEF Concludes, Save

LEMMA SaveHanded ==
  ASSUME NEW early \in Seq(Early), NEW s \in GoodStates, NEW e \in Errors \cup {"return"},
         EndsWell(s, e), disk.summary # "reproduced"
  PROVE  Handed(early \o Save(s), e) /\ Handed(Save(s), e)
<1>1. Save(s) = <<>> \o Save(s) /\ <<>> \in Seq(Early)
  BY SaveConcludes, ConcatEmptySeq
<1> QED
  BY <1>1, SaveConcludes DEF Handed

LEMMA DoHands ==
  ASSUME TypeInv, NEW ws, NEW e, Handed(ws, e), Do(ws, e)
  PROVE  HandlerStep
BY DEF Do, HandlerStep, environment, TypeInv, TypeOK

LEMMA InterruptedHands ==
  ASSUME TypeInv, NEW ws, Handed(ws, "stopped"), Interrupted(ws)
  PROVE  HandlerStep
<1>1. commands' \in 0..MaxCommands
  BY Bounds DEF Interrupted, OperatorDoes, TypeInv, TypeOK
<1> QED
  BY <1>1 DEF Interrupted, HandlerStep

\* The errors that handlers raise.
LEMMA ErrorTypes ==
  /\ BuildErrors \subseteq Errors /\ PolicyErrors \subseteq Errors /\ ToolErrors \subseteq Errors
  /\ OwnErrors \subseteq Errors
BY DEF BuildErrors, PolicyErrors, Errors, OwnErrors

\* No handler but that of validation runs on a job with a reproduced crash.
LEMMA NotReproduced ==
  ASSUME ReproducedInv, st.stage \notin {"validation", "complete"}
  PROVE  disk.summary # "reproduced"
BY DEF ReproducedInv

-----------------------------------------------------------------------------
(* The handlers: preparation, integration, build, smoke.                   *)

LEMMA PrepareDoes ==
  ASSUME CoreInv, Prepare
  PROVE  HandlerStep
<1> USE DEF CoreInv
<1>1. PICK from \in 1..3, to \in 1..4 :
        /\ STAGE_ORDER[from] = st.stage /\ from <= to
        /\ LET done == [k \in 1..(to - from) |-> W("state", Prepared(st, from + k))]
               last == IF to = from THEN st ELSE Prepared(st, to)
           IN \/ to = 4 /\ Do(done, None)
              \/ \E e \in (IF to = 1 THEN PolicyErrors ELSE ToolErrors) :
                   to < 4 /\ Do(done \o Save(Flag(last, "failed", e)), e)
              \/ to \in {2, 3} /\ Interrupted(done \o Save(Flag(last, "failed", "stopped")))
  BY DEF Prepare
<1> DEFINE done == [k \in 1..(to - from) |-> W("state", Prepared(st, from + k))]
           last == IF to = from THEN st ELSE Prepared(st, to)
<1>2. st.stage \in {"policy_recheck", "source_checkout", "tool_sync"}
  BY <1>1 DEF STAGE_ORDER
<1>3. st \in LiveStates /\ disk.summary # "reproduced"
  BY <1>2, LiveAtTop, NotReproduced DEF Prepare
<1>4. ASSUME NEW k \in 1..4
      PROVE  Prepared(st, k) \in LiveStates /\ Prepared(st, k).status \in {"prepared", "preparing"}
  <2>1. STAGE_ORDER[k] \in {"policy_recheck", "source_checkout", "tool_sync", "integration"}
    BY DEF STAGE_ORDER
  <2>2. STAGE_ORDER[k] \in Stages \ {"complete"} /\ {"prepared", "preparing"} \subseteq Statuses
    BY <2>1 DEF Stages, Statuses, RECOVERY_STAGE_STATUS, RECOVERABLE_FAILURE_STAGES
  <2> QED
    BY <1>3, <2>2, MovesOn DEF Prepared
<1>5. done \in Seq(Early)
  <2>1. to - from \in Nat
    BY <1>1
  <2>2. ASSUME NEW k \in 1..(to - from)
        PROVE  W("state", Prepared(st, from + k)) \in Early
    <3>1. from + k \in 1..4
      BY <2>1
    <3> QED
      BY <3>1, <1>4, FileWriteIsEarly DEF Stuck
  <2> QED
    BY <2>1, <2>2
<1>6. last \in LiveStates
  BY <1>3, <1>4
<1>7. "failed" \in Statuses /\ None \in Errors /\ "stopped" \in Errors
  BY DEF Statuses, Errors, OwnErrors
<1>8. ASSUME NEW e \in Errors
      PROVE  Handed(done \o Save(Flag(last, "failed", e)), e)
  BY <1>3, <1>5, <1>6, <1>7, <1>8, Flagged, GoesOnWell, SaveHanded
<1>9. CASE to = 4 /\ Do(done, None)
  BY <1>3, <1>5, <1>7, <1>9, EarlyHanded, DoHands
<1>10. CASE \E e \in (IF to = 1 THEN PolicyErrors ELSE ToolErrors) :
              to < 4 /\ Do(done \o Save(Flag(last, "failed", e)), e)
  BY <1>8, <1>10, ErrorTypes, DoHands
<1>11. CASE to \in {2, 3} /\ Interrupted(done \o Save(Flag(last, "failed", "stopped")))
  BY <1>7, <1>8, <1>11, InterruptedHands
<1> QED
  BY <1>1, <1>9, <1>10, <1>11

LEMMA StageFailedEnds ==
  ASSUME TypeInv, st \in LiveStates, NEW e \in Errors
  PROVE  StageFailed(e) \in GoodStates /\ EndsWell(StageFailed(e), e)
<1>1. CASE e = "unsupported"
  <2>1. "unsupported_integration" \in Statuses /\ "complete" \in Stages
    BY DEF Statuses, MANUAL_STATUSES, Stages
  <2>2. Flag(st, "unsupported_integration", e) \in LiveStates
    BY <2>1, Flagged
  <2>3. StageFailed(e) = [Flag(st, "unsupported_integration", e) EXCEPT !.stage = "complete"]
    BY <1>1 DEF StageFailed
  <2>4. StageFailed(e) \in GoodStates
    BY <2>1, <2>2, <2>3, Bounds DEF LiveStates, GoodStates, State
  <2>5. StageFailed(e).status = "unsupported_integration" /\ StageFailed(e).last_error = e
    BY <2>1, <2>3 DEF Flag, LiveStates, State
  <2> QED
    BY <1>1, <2>4, <2>5 DEF EndsWell
<1>2. CASE e # "unsupported"
  <2>1. "failed" \in Statuses
    BY DEF Statuses
  <2> QED
    BY <1>2, <2>1, Flagged, GoesOnWell DEF StageFailed
<1> QED
  BY <1>1, <1>2

LEMMA SingleStageDoes ==
  ASSUME CoreInv, NEW expected \in Stages \ {"validation", "complete"}, NEW possible,
         NEW errors \in SUBSET Errors, NEW product \in Seq(Early),
         NEW next_stage \in Stages, NEW next_status \in Statuses, next_stage # "complete",
         next_status # "quartet_repair_pending",
         SingleStage(expected, possible, errors, product, next_stage, next_status)
  PROVE  HandlerStep
<1> USE DEF CoreInv
<1>1. st \in LiveStates /\ disk.summary # "reproduced"
  BY LiveAtTop, NotReproduced DEF SingleStage, AtStage
<1>2. CASE possible /\ Do(product \o Save(To(st, next_stage, next_status)), None)
  BY <1>1, <1>2, MovesOn, GoesOnWell, SaveHanded, DoHands, ErrorTypes DEF OwnErrors
<1>3. CASE \E e \in (IF possible THEN errors ELSE {"missing"}) : Do(Save(StageFailed(e)), e)
  <2>1. PICK e \in Errors : Do(Save(StageFailed(e)), e)
    BY <1>3, ErrorTypes DEF OwnErrors
  <2>2. Handed(Save(StageFailed(e)), e)
    BY <1>1, StageFailedEnds, SaveHanded, EmptySeq
  <2> QED
    BY <2>1, <2>2, DoHands
<1>4. CASE possible /\ Interrupted(<<>>)
  BY <1>1, <1>4, EarlyHanded, EmptySeq, ErrorTypes, InterruptedHands DEF OwnErrors
<1> QED
  BY <1>2, <1>3, <1>4 DEF SingleStage

LEMMA PreparationStages ==
  /\ {"integration", "build", "smoke", "quartet_gate"} \subseteq Stages \ {"validation", "complete"}
  /\ {"integrated", "built", "quartet_pending"} \subseteq Statuses
BY DEF Stages, Statuses, RECOVERY_STAGE_STATUS, RECOVERABLE_FAILURE_STAGES

LEMMA IntegrateDoes ==
  ASSUME CoreInv, Integrate
  PROVE  HandlerStep
<1> DEFINE harnesses == IF Generated THEN {} ELSE disk.rewritten
<1>1. harnesses \in SUBSET Targets
  BY DEF CoreInv, TypeInv, TypeOK, Disk
<1>2. <<W("rewritten", harnesses), W("integration", TRUE)>> \in Seq(Early)
  BY <1>1, FileWriteIsEarly, Pair
<1> QED
  BY <1>2, PreparationStages, ErrorTypes, SingleStageDoes DEF Integrate

LEMMA BuildDoes ==
  ASSUME CoreInv, Build
  PROVE  HandlerStep
<1>1. <<W("manifest", SelectTarget(Targets))>> \in Seq(Early)
  BY TargetsAssumption, SelectedTarget, FileWriteIsEarly, Single
<1> QED
  BY <1>1, PreparationStages, ErrorTypes, SingleStageDoes DEF Build

LEMMA SmokeDoes ==
  ASSUME CoreInv, Smoke
  PROVE  HandlerStep
<1>1. <<W("smoke", disk.manifest)>> \in Seq(Early)
  BY FileWriteIsEarly, Single DEF CoreInv, TypeInv, TypeOK, Disk
<1> QED
  BY <1>1, PreparationStages, ErrorTypes, SingleStageDoes DEF Smoke

-----------------------------------------------------------------------------
(* The handlers: the probe, the review, the repair.                        *)

LEMMA GateFacts ==
  ASSUME CoreInv, AtStage("quartet_gate")
  PROVE  st \in LiveStates /\ disk.summary # "reproduced" /\ disk \in Disk
BY LiveAtTop, NotReproduced DEF CoreInv, AtStage, TypeInv, TypeOK

\* Without a write, or with early ones alone.
LEMMA EarlyDoes ==
  ASSUME CoreInv, disk.summary # "reproduced", NEW early \in Seq(Early), NEW e \in Errors \cup {"return"}
  PROVE  /\ Do(early, e) => HandlerStep
         /\ Do(<<>>, e) => HandlerStep
         /\ Interrupted(early) => HandlerStep
         /\ Interrupted(<<>>) => HandlerStep
<1>1. "stopped" \in Errors
  BY DEF Errors, OwnErrors
<1>2. \A x \in Errors \cup {"return"} : Handed(early, x) /\ Handed(<<>>, x)
  BY EarlyHanded, EmptySeq
<1> QED
  BY <1>1, <1>2, DoHands, InterruptedHands DEF CoreInv

\* With early writes and a state in which the job goes on.
LEMMA SaveDoes ==
  ASSUME CoreInv, disk.summary # "reproduced", NEW early \in Seq(Early), NEW e \in Errors \cup {"return"},
         NEW s \in GoodStates, EndsWell(s, e)
  PROVE  /\ Do(early \o Save(s), e) => HandlerStep
         /\ Do(Save(s), e) => HandlerStep
BY SaveHanded, DoHands DEF CoreInv

LEMMA ProbeDoes ==
  ASSUME CoreInv, Probe
  PROVE  HandlerStep
<1>1. disk.summary # "reproduced"
  BY GateFacts DEF Probe
<1>2. {"missing", None} \subseteq Errors
  BY DEF Errors, OwnErrors
<1>3. /\ <<W("probe", "clean")>> \in Seq(Early) /\ <<W("probe", "broken")>> \in Seq(Early)
      /\ <<W("crash_files", TRUE)>> \in Seq(Early)
      /\ \A kind \in Findings : <<W("crash_files", TRUE), W("probe", kind)>> \in Seq(Early)
  BY FileWriteIsEarly, Single, Pair
<1>4. CASE ~Runnable /\ Do(<<>>, "missing")
  BY <1>1, <1>2, <1>3, <1>4, EarlyDoes
<1>5. CASE Runnable /\ ~disk.crash_files /\ Do(<<W("probe", "clean")>>, None)
  BY <1>1, <1>2, <1>3, <1>5, EarlyDoes
<1>6. CASE \E kind \in Findings : Do(<<W("crash_files", TRUE), W("probe", kind)>>, None)
  BY <1>1, <1>2, <1>3, <1>6, EarlyDoes
<1>7. CASE \E e \in ToolErrors : Do(<<>>, e) \/ (~disk.crash_files /\ Do(<<W("probe", "broken")>>, e))
  BY <1>1, <1>3, <1>7, ErrorTypes, EarlyDoes
<1>8. CASE Interrupted(<<>>) \/ Interrupted(<<W("crash_files", TRUE)>>)
  BY <1>1, <1>2, <1>3, <1>8, EarlyDoes
<1> QED
  BY <1>4, <1>5, <1>6, <1>7, <1>8 DEF Probe

\* The gate decides on every review that a file may hold.
LEMMA GateDecides ==
  ASSUME CoreInv, AtStage("quartet_gate"), NEW review \in Reviews, NEW before \in Seq(Early),
         ApplyQuartetState(review, before), review.target \in Targets
  PROVE  HandlerStep
<1> DEFINE ready      == review.verdict = "ready"
           rejected   == ~ready /\ ~Finding /\ disk.manifest # None
           attempted  == IF rejected THEN st.attempted \cup {review.target} ELSE st.attempted
           candidates == Candidates(attempted)
           retry      == rejected /\ candidates # {} /\ MayTryAnother(attempted)
           s          == [st EXCEPT !.attempted = attempted]
           moves      == IF ~retry THEN <<>> ELSE
                           <<W("manifest", SelectTarget(candidates))>> \o Moved("smoke") \o Moved("probe")
                           \o <<W("quartet", NoReview)>> \o Moved("plan")
           decision   ==
             IF Finding /\ (ready \/ disk.probe = "sanitizer_error")
             THEN [To(s, "triage", "triage_pending") EXCEPT !.triage_artifact = "probe"]
             ELSE IF Finding /\ disk.probe # "uncaught_cpp_exception"
             THEN ReviewRequired(s, "untriaged")
             ELSE IF ready /\ disk.plan # None THEN To(s, "fuzzing", "ready")
             ELSE IF ready THEN To(s, "coverage_analysis", "analysis_pending")
             ELSE IF retry THEN To(s, "smoke", "target_retry_pending")
             ELSE IF Generated /\ disk.integration /\ s.quartet_repair < MaxGenerations
             THEN To(s, "quartet_gate", "quartet_repair_pending")
             ELSE [ReviewRequired(s, "exhausted") EXCEPT !.bounded = TRUE]
<1>1. st \in LiveStates /\ disk.summary # "reproduced"
  BY GateFacts
<1>2. s \in LiveStates
  <2>1. attempted \in SUBSET Targets
    BY <1>1 DEF LiveStates, State
  <2> QED
    BY <1>1, <2>1 DEF LiveStates, State
<1>3. before \o moves \in Seq(Early)
  <2>1. retry => SelectTarget(candidates) \in Targets
    BY SelectedTarget DEF Candidates
  <2>2. retry => <<W("manifest", SelectTarget(candidates))>> \in Seq(Early)
    BY <2>1, FileWriteIsEarly, Single
  <2>3. /\ Moved("smoke") \in Seq(Early) /\ Moved("probe") \in Seq(Early) /\ Moved("plan") \in Seq(Early)
    BY MovedIsEarly DEF Absent
  <2>4. <<W("quartet", NoReview)>> \in Seq(Early)
    BY FileWriteIsEarly, Single DEF NoReview, Reviews
  <2>5. moves \in Seq(Early)
    BY <2>2, <2>3, <2>4, EarlyJoin, EmptySeq
  <2> QED
    BY <2>5, EarlyJoin
<1>4. decision \in GoodStates /\ EndsWell(decision, None)
  <2>1. /\ {"triage", "fuzzing", "coverage_analysis", "smoke", "quartet_gate"} \subseteq Stages \ {"complete"}
        /\ {"triage_pending", "ready", "analysis_pending", "target_retry_pending", "quartet_repair_pending",
            "quartet_review_required"} \subseteq Statuses
        /\ {"untriaged", "exhausted"} \subseteq Errors
    BY DEF Stages, Statuses, MANUAL_STATUSES, FUZZABLE, RECOVERY_STAGE_STATUS, RECOVERABLE_FAILURE_STAGES,
           Errors, OwnErrors
  <2> HIDE DEF s
  <2>2. [To(s, "triage", "triage_pending") EXCEPT !.triage_artifact = "probe"] \in LiveStates
    <3>1. To(s, "triage", "triage_pending") \in LiveStates
      BY <1>2, <2>1, MovesOn
    <3> QED
      BY <3>1 DEF LiveStates, State
  <2>3. ASSUME NEW e \in {"untriaged", "exhausted"}
        PROVE  /\ ReviewRequired(s, e) \in GoodStates /\ ~Ended(ReviewRequired(s, e))
               /\ [ReviewRequired(s, e) EXCEPT !.bounded = TRUE] \in GoodStates
               /\ ~Ended([ReviewRequired(s, e) EXCEPT !.bounded = TRUE])
    <3> DEFINE f == Flag(s, "quartet_review_required", e)
               g == [f EXCEPT !.stage = "quartet_gate"]
    <3>0. e \in Errors /\ "quartet_review_required" \in Statuses /\ s \in LiveStates
      BY <1>2, <2>1
    <3>1. f \in LiveStates /\ f.status = "quartet_review_required"
      BY <3>0, Flagged
    <3>2. g \in LiveStates /\ g.status = "quartet_review_required"
      BY <2>1, <3>1 DEF LiveStates, State
    <3>3. AtLeastOneFailure(g) \in GoodStates /\ ~Ended(AtLeastOneFailure(g))
      BY <3>2, FailedOnce DEF MANUAL_STATUSES
    <3>4. ReviewRequired(s, e) = AtLeastOneFailure(g)
      BY DEF ReviewRequired
    <3> HIDE DEF g
    <3>5. [AtLeastOneFailure(g) EXCEPT !.bounded = TRUE] \in GoodStates
      BY <3>3 DEF GoodStates, State
    <3>6. ~Ended([AtLeastOneFailure(g) EXCEPT !.bounded = TRUE])
      BY <3>3 DEF GoodStates, State, Ended
    <3> QED
      BY <3>3, <3>4, <3>5, <3>6
  <2>4. /\ To(s, "fuzzing", "ready") \in LiveStates
        /\ To(s, "coverage_analysis", "analysis_pending") \in LiveStates
        /\ To(s, "smoke", "target_retry_pending") \in LiveStates
        /\ s.quartet_repair < MaxGenerations => To(s, "quartet_gate", "quartet_repair_pending") \in LiveStates
    BY <1>2, <2>1, MovesOn
  <2> HIDE DEF retry, ready
  <2>5. \/ decision \in LiveStates
        \/ decision \in GoodStates /\ ~Ended(decision)
    BY <2>2, <2>3, <2>4
  <2> QED
    BY <2>5, GoesOnWell DEF EndsWell
<1>5. Do(before \o moves \o Save(decision), None)
  BY DEF ApplyQuartetState
<1> HIDE DEF moves, decision
<1> QED
  BY <1>1, <1>3, <1>4, <1>5, SaveDoes, ErrorTypes DEF OwnErrors

LEMMA QuartetDoes ==
  ASSUME CoreInv, Quartet
  PROVE  HandlerStep
<1>1. AtStage("quartet_gate") /\ disk.summary # "reproduced" /\ disk \in GoodDisks /\ disk \in Disk
  BY GateFacts DEF Quartet, CoreInv, TypeInv
<1>2. CASE disk.quartet # NoReview /\ ApplyQuartetState(disk.quartet, <<>>)
  <2>1. disk.quartet \in Reviews /\ disk.quartet.target \in Targets
    BY <1>1, <1>2 DEF GoodDisks, Reviews
  <2> QED
    BY <1>1, <1>2, <2>1, GateDecides, EmptySeq
<1>3. CASE Do(<<>>, "missing")
  BY <1>1, <1>3, EarlyDoes, EmptySeq, ErrorTypes DEF OwnErrors
<1>4. CASE Runnable /\ \E v \in {"ready", "rejected"} :
             LET review == [verdict |-> v, target |-> disk.smoke]
             IN  ApplyQuartetState(review, <<W("quartet", review)>>)
  <2>1. PICK v \in {"ready", "rejected"} :
          LET review == [verdict |-> v, target |-> disk.smoke]
          IN  ApplyQuartetState(review, <<W("quartet", review)>>)
    BY <1>4
  <2> DEFINE review == [verdict |-> v, target |-> disk.smoke]
  <2>2. disk.smoke \in Targets
    BY <1>1, <1>4 DEF Runnable, Disk
  <2>3. review \in Reviews /\ review.target \in Targets
    BY <2>2 DEF Reviews
  <2>4. <<W("quartet", review)>> \in Seq(Early)
    BY <2>3, FileWriteIsEarly, Single
  <2> QED
    BY <1>1, <2>1, <2>3, <2>4, GateDecides
<1>5. CASE \E e \in ToolErrors : Do(<<>>, e)
  BY <1>1, <1>5, EarlyDoes, EmptySeq, ErrorTypes
<1> QED
  BY <1>2, <1>3, <1>4, <1>5 DEF Quartet

\* A counter is moved on below its bound.
LEMMA CountedOn ==
  ASSUME NEW s \in LiveStates
  PROVE  /\ s.quartet_repair < MaxGenerations => Repaired(s) \in LiveStates
         /\ s.harness_generation < MaxGenerations =>
              [To(s, "smoke", "generated") EXCEPT !.harness_generation = @ + 1] \in LiveStates
<1>1. "smoke" \in Stages \ {"complete"} /\ "generated" \in Statuses
  BY DEF Stages, Statuses
<1>2. To(s, "smoke", "generated") \in LiveStates /\ To(s, "smoke", "generated").status = "generated"
  BY <1>1, MovesOn
<1>3. /\ To(s, "smoke", "generated").quartet_repair = s.quartet_repair
      /\ To(s, "smoke", "generated").harness_generation = s.harness_generation
  BY DEF To, LiveStates, State
<1> HIDE DEF To
<1>4. /\ s.quartet_repair < MaxGenerations =>
           [To(s, "smoke", "generated") EXCEPT !.quartet_repair = @ + 1] \in LiveStates
      /\ s.harness_generation < MaxGenerations =>
           [To(s, "smoke", "generated") EXCEPT !.harness_generation = @ + 1] \in LiveStates
  BY <1>2, <1>3, Bounds DEF LiveStates, State
<1> QED
  BY <1>4 DEF Repaired

LEMMA RepairQuartetHarnessDoes ==
  ASSUME CoreInv, RepairQuartetHarness
  PROVE  HandlerStep
<1>1. /\ AtStage("quartet_gate") /\ disk.summary # "reproduced" /\ disk \in GoodDisks /\ disk \in Disk
      /\ st \in LiveStates
  BY GateFacts DEF RepairQuartetHarness, CoreInv, TypeInv
<1>2. CASE \E e \in PolicyErrors \cup ToolErrors \cup {"missing"} : Do(<<>>, e)
  BY <1>1, <1>2, EarlyDoes, EmptySeq, ErrorTypes DEF OwnErrors
<1>3. CASE Interrupted(<<>>)
  BY <1>1, <1>3, EarlyDoes, EmptySeq, ErrorTypes DEF OwnErrors
<1> SUFFICES ASSUME disk.quartet # NoReview PROVE HandlerStep
  BY <1>2, <1>3 DEF RepairQuartetHarness
<1>4. disk.quartet \in Reviews /\ disk.quartet.target \in Targets
  BY <1>1 DEF GoodDisks, Reviews
<1>5. CASE ApplyQuartetState(disk.quartet, <<>>)
  BY <1>1, <1>4, <1>5, GateDecides, EmptySeq
<1>6. CASE \E e \in BuildErrors : Do(Save(Flag(st, "quartet_review_required", "repair")), e)
  <2>1. "quartet_review_required" \in Statuses /\ "repair" \in Errors
    BY ErrorTypes DEF Statuses, MANUAL_STATUSES, OwnErrors
  <2>2. PICK e \in BuildErrors : Do(Save(Flag(st, "quartet_review_required", "repair")), e)
    BY <1>6
  <2>3. /\ Flag(st, "quartet_review_required", "repair") \in GoodStates
        /\ EndsWell(Flag(st, "quartet_review_required", "repair"), e)
    BY <1>1, <2>1, Flagged, GoesOnWell
  <2> QED
    BY <1>1, <2>2, <2>3, SaveDoes, ErrorTypes, EmptySeq
<1>7. CASE Do(<<W("rewritten", {})>> \o Rebuilt(disk.quartet.target)
                \o ArchivePreGenerationResults \o Save(Repaired(st)), None)
      /\ st.quartet_repair < MaxGenerations
  <2>1. <<W("rewritten", {})>> \in Seq(Early)
    BY FileWriteIsEarly, Single
  <2>2. <<W("rewritten", {})>> \o Rebuilt(disk.quartet.target) \o ArchivePreGenerationResults \in Seq(Early)
    BY <1>1, <1>4, <2>1, RebuiltIsEarly, ArchiveIsEarly, EarlyJoin
  <2>3. Repaired(st) \in GoodStates /\ EndsWell(Repaired(st), None)
    BY <1>1, <1>7, CountedOn, GoesOnWell
  <2> QED
    BY <1>1, <1>7, <2>2, <2>3, SaveDoes, ErrorTypes DEF OwnErrors
<1>8. st.quartet_repair < MaxGenerations
  BY <1>1 DEF RepairQuartetHarness, LiveStates
<1> QED
  BY <1>2, <1>3, <1>5, <1>6, <1>7, <1>8 DEF RepairQuartetHarness

-----------------------------------------------------------------------------
(* The handlers: coverage analysis, generation.                            *)

LEMMA FuzzingStatuses ==
  /\ {"fuzzing", "smoke", "triage"} \subseteq Stages \ {"complete"}
  /\ {"ready", "harness_work_pending", "running", "interrupted", "generation_failed", "manual_review",
      "triage_pending", "afl_cmplog_pending", "afl_cmplog_running"} \subseteq Statuses
  /\ {None, "missing", "gate", "harness", "evidence", "exhausted", "afl", "stopped"} \subseteq Errors
BY DEF Stages, Statuses, FUZZABLE, GENERABLE, MANUAL_STATUSES, Errors, OwnErrors

LEMMA StageFacts ==
  ASSUME CoreInv, NEW stage, AtStage(stage), stage \notin {"validation", "complete"}
  PROVE  st \in LiveStates /\ disk.summary # "reproduced" /\ disk \in GoodDisks /\ disk \in Disk
BY LiveAtTop, NotReproduced DEF CoreInv, AtStage, TypeInv, TypeOK

LEMMA ReplanHanded ==
  ASSUME NEW early \in Seq(Early), NEW s \in LiveStates, disk.summary # "reproduced"
  PROVE  Handed(early \o Replan(s), None) /\ Handed(Replan(s), None)
<1> DEFINE next == To(s, "fuzzing", "harness_work_pending")
<1>1. next \in GoodStates /\ EndsWell(next, None)
  BY FuzzingStatuses, MovesOn, GoesOnWell
<1>2. <<W("plan", "work")>> \in Seq(Early)
  BY FileWriteIsEarly, Single
<1>3. early \in Seq(Writes) /\ <<W("plan", "work")>> \in Seq(Writes) /\ Save(next) \in Seq(Writes)
  BY <1>1, <1>2, EarlyIsWrites, SaveConcludes, SeqMonotonic
<1>4. (early \o <<W("plan", "work")>>) \o Save(next) = early \o (<<W("plan", "work")>> \o Save(next))
  BY <1>3, ConcatAssociative
<1>5. early \o <<W("plan", "work")>> \in Seq(Early)
  BY <1>2, EarlyJoin
<1>6. Handed((early \o <<W("plan", "work")>>) \o Save(next), None) /\ Handed(<<W("plan", "work")>> \o Save(next), None)
  BY <1>1, <1>2, <1>5, SaveHanded, FuzzingStatuses
<1> QED
  BY <1>4, <1>6 DEF Replan

LEMMA AnalyzeDoes ==
  ASSUME CoreInv, Analyze
  PROVE  HandlerStep
<1>1. st \in LiveStates /\ disk.summary # "reproduced"
  BY StageFacts DEF Analyze
<1>2. CASE \E e \in ToolErrors \cup {"gate", "missing", None} : Do(<<>>, e)
  BY <1>1, <1>2, EarlyDoes, EmptySeq, ErrorTypes, FuzzingStatuses
<1>3. /\ To(st, "fuzzing", "ready") \in LiveStates /\ To(st, "fuzzing", "harness_work_pending") \in LiveStates
  BY <1>1, FuzzingStatuses, MovesOn
<1>4. /\ <<W("plan", "ready")>> \in Seq(Early) /\ <<W("plan", "work")>> \in Seq(Early)
  BY FileWriteIsEarly, Single
<1>5. CASE Do(<<W("plan", "ready")>> \o Save(To(st, "fuzzing", "ready")), None)
  BY <1>1, <1>3, <1>4, <1>5, GoesOnWell, SaveDoes, FuzzingStatuses
<1>6. CASE Do(<<W("plan", "work")>> \o Save(To(st, "fuzzing", "harness_work_pending")), None)
  BY <1>1, <1>3, <1>4, <1>6, GoesOnWell, SaveDoes, FuzzingStatuses
<1> QED
  BY <1>2, <1>5, <1>6 DEF Analyze

LEMMA GenerateDoes ==
  ASSUME CoreInv, Generate
  PROVE  HandlerStep
<1>1. st \in LiveStates /\ disk.summary # "reproduced" /\ disk \in Disk
  BY StageFacts DEF Generate
<1> DEFINE target == IF disk.smoke # None THEN disk.smoke ELSE disk.manifest
           write  == W("rewritten", IF route = "native_generated" THEN disk.rewritten
                                    ELSE disk.rewritten \cup {target})
           undone == <<write, W("rewritten", disk.rewritten)>>
           counted == [To(st, "smoke", "generated") EXCEPT !.harness_generation = @ + 1]
<1>2. CASE \E e \in {"missing", "evidence"} : Do(<<>>, e)
  BY <1>1, <1>2, EarlyDoes, EmptySeq, FuzzingStatuses
<1> SUFFICES ASSUME disk.manifest # None,
               \/ \E e \in BuildErrors : Do(undone \o Save(Flag(st, "generation_failed", e)), e)
               \/ Interrupted(undone)
               \/ Do(<<write>> \o Rebuilt(target) \o ArchivePreGenerationResults \o Save(counted), None)
    PROVE HandlerStep
  BY <1>2 DEF Generate
<1>3. target \in Targets
  BY <1>1 DEF Disk
<1>4. write \in Early /\ W("rewritten", disk.rewritten) \in Early
  <2>1. disk.rewritten \in SUBSET Targets
    BY <1>1 DEF Disk
  <2> QED
    BY <1>3, <2>1, FileWriteIsEarly
<1> HIDE DEF write, target
<1>5. undone \in Seq(Early) /\ <<write>> \in Seq(Early)
  BY <1>4, Pair, Single
<1> HIDE DEF undone
<1>6. CASE \E e \in BuildErrors : Do(undone \o Save(Flag(st, "generation_failed", e)), e)
  <2>1. PICK e \in BuildErrors : Do(undone \o Save(Flag(st, "generation_failed", e)), e)
    BY <1>6
  <2>2. Flag(st, "generation_failed", e) \in LiveStates
    BY <1>1, FuzzingStatuses, ErrorTypes, Flagged
  <2> QED
    BY <1>1, <1>5, <2>1, <2>2, GoesOnWell, SaveDoes, ErrorTypes
<1>7. CASE Interrupted(undone)
  BY <1>1, <1>5, <1>7, EarlyDoes, FuzzingStatuses
<1>8. CASE Do(<<write>> \o Rebuilt(target) \o ArchivePreGenerationResults \o Save(counted), None)
  <2>1. <<write>> \o Rebuilt(target) \o ArchivePreGenerationResults \in Seq(Early)
    BY <1>1, <1>3, <1>5, RebuiltIsEarly, ArchiveIsEarly, EarlyJoin
  <2>2. counted \in LiveStates
    BY <1>1, CountedOn DEF Generate
  <2> QED
    BY <1>1, <1>8, <2>1, <2>2, GoesOnWell, SaveDoes, FuzzingStatuses
<1> QED
  BY <1>6, <1>7, <1>8

\* A campaign is given up to a person.
LEMMA GivenToPerson ==
  ASSUME NEW s \in LiveStates
  PROVE  /\ AtLeastOneFailure([Flag(s, "manual_review", "exhausted") EXCEPT !.bounded = TRUE]) \in GoodStates
         /\ \A e : EndsWell(AtLeastOneFailure([Flag(s, "manual_review", "exhausted") EXCEPT !.bounded = TRUE]), e)
<1> DEFINE f == [Flag(s, "manual_review", "exhausted") EXCEPT !.bounded = TRUE]
<1>1. Flag(s, "manual_review", "exhausted") \in LiveStates /\ Flag(s, "manual_review", "exhausted").status = "manual_review"
  BY FuzzingStatuses, Flagged
<1>2. f \in LiveStates /\ f.status = "manual_review"
  BY <1>1 DEF LiveStates, State
<1> HIDE DEF f
<1>3. AtLeastOneFailure(f) \in GoodStates /\ ~Ended(AtLeastOneFailure(f))
  BY <1>2, FailedOnce DEF MANUAL_STATUSES
<1>4. \A e : EndsWell(AtLeastOneFailure(f), e)
  BY <1>3 DEF EndsWell
<1> QED
  BY <1>3, <1>4 DEF f

LEMMA GenerationLimitDoes ==
  ASSUME CoreInv, GenerationLimit
  PROVE  HandlerStep
<1>1. st \in LiveStates /\ disk.summary # "reproduced"
  BY StageFacts DEF GenerationLimit
<1> QED
  BY <1>1, GivenToPerson, SaveDoes, EmptySeq DEF GenerationLimit

-----------------------------------------------------------------------------
(* The handlers: the campaign.                                             *)

\* A session that is over, and what comes next.
LEMMA SessionStates ==
  ASSUME NEW s \in LiveStates
  PROVE  /\ [s EXCEPT !.active = NoSession] \in LiveStates
         /\ Finished(s) \in LiveStates
         /\ [Finished(s) EXCEPT !.triage_artifact = "run"] \in LiveStates
         /\ [Finished(s) EXCEPT !.triage_artifact = "afl"] \in LiveStates
         /\ [Finished(s) EXCEPT !.low_yield = TRUE] \in LiveStates
         /\ To(s, "fuzzing", "ready") \in LiveStates
         /\ [To(s, "fuzzing", "ready") EXCEPT !.status = "afl_cmplog_pending"] \in LiveStates
<1>1. Finished(s) \in LiveStates /\ To(s, "fuzzing", "ready") \in LiveStates
  BY FuzzingStatuses, MovesOn DEF Finished
<1>2. [s EXCEPT !.active = NoSession] \in LiveStates
  BY DEF LiveStates, State
<1> HIDE DEF Finished, To
<1>3. /\ [Finished(s) EXCEPT !.triage_artifact = "run"] \in LiveStates
      /\ [Finished(s) EXCEPT !.triage_artifact = "afl"] \in LiveStates
      /\ [Finished(s) EXCEPT !.low_yield = TRUE] \in LiveStates
  BY <1>1 DEF LiveStates, State
<1>4. [To(s, "fuzzing", "ready") EXCEPT !.status = "afl_cmplog_pending"] \in LiveStates
  BY <1>1, FuzzingStatuses DEF LiveStates, State
<1> QED
  BY <1>1, <1>2, <1>3, <1>4

LEMMA TimeAdds ==
  ASSUME NEW p \in Progresses, NEW time \in 0..1
  PROVE  /\ Add(p, time) \in Progresses
         /\ Add(p, time).stalled = p.stalled /\ Add(p, time).accounted = p.accounted
         /\ Add(p, time).completed >= p.completed
BY Bounds DEF Add, Progresses

LEMMA SaveHandsOver ==
  ASSUME disk.summary # "reproduced", NEW early \in Seq(Early), NEW s \in LiveStates
  PROVE  Handed(early \o Save(s), None) /\ Handed(Save(s), None)
BY SaveHanded, GoesOnWell, FuzzingStatuses

\* The accounting of a session's result.
LEMMA ResultApplied ==
  ASSUME CoreInv, disk.summary # "reproduced", NEW s \in LiveStates, NEW run \in Runs,
         NEW before \in Seq(Early), ApplyFuzzResult(s, run, before)
  PROVE  HandlerStep
<1>1. PICK advanced \in BOOLEAN :
    LET old   == disk.progress
        new   == [Add(old, run.time) EXCEPT !.accounted = run.session,
                                            !.stalled = IF run.time = 0 THEN @ ELSE ~advanced]
        known == old.accounted = run.session
        p     == IF known THEN old ELSE new
        saved == before \o (IF known THEN <<>> ELSE <<W("progress", new)>>)
        idle  == [s EXCEPT !.active = NoSession]
        next  == To(idle, "fuzzing", "ready")
        afl   == route # "native_generated" /\ p.stalled /\ disk.afl = None
    IN
      \/ /\ run.result = "finding"
         /\ Do(saved \o Save([Finished(idle) EXCEPT !.triage_artifact = "run"]), None)
      \/ /\ run.result = "broken"
         /\ Do(saved \o Save(AtLeastOneFailure(
                 [Flag(idle, "manual_review", "exhausted") EXCEPT !.bounded = TRUE])), None)
      \/ /\ run.result = "quiet"
         /\ \/ disk.probe # None /\ p.completed > 0 /\ Do(saved \o LowYield(idle), None)
            \/ p.completed = Budget /\ Do(saved \o Save(Finished(idle)), None)
            \/ /\ p.completed < Budget /\ ~afl /\ p.stalled /\ CanReplan
               /\ Do(saved \o Replan(idle), None)
            \/ /\ p.completed < Budget
               /\ Do(saved \o Save(IF afl THEN [next EXCEPT !.status = "afl_cmplog_pending"]
                                          ELSE next), None)
  BY DEF ApplyFuzzResult
<1> DEFINE old   == disk.progress
           new   == [Add(old, run.time) EXCEPT !.accounted = run.session,
                                               !.stalled = IF run.time = 0 THEN @ ELSE ~advanced]
           known == old.accounted = run.session
           p     == IF known THEN old ELSE new
           saved == before \o (IF known THEN <<>> ELSE <<W("progress", new)>>)
           idle  == [s EXCEPT !.active = NoSession]
           next  == To(idle, "fuzzing", "ready")
           afl   == route # "native_generated" /\ p.stalled /\ disk.afl = None
           person == AtLeastOneFailure([Flag(idle, "manual_review", "exhausted") EXCEPT !.bounded = TRUE])
<1>2. idle \in LiveStates
  BY SessionStates
<1>3. new \in Progresses
  <2>1. old \in Progresses /\ run.time \in 0..1 /\ run.session \in {NoSession} \cup Sessions
    BY DEF CoreInv, TypeInv, TypeOK, Disk, Progresses, Runs
  <2>2. Add(old, run.time) \in Progresses
    BY <2>1, TimeAdds
  <2> QED
    BY <2>1, <2>2 DEF Progresses
<1>4. saved \in Seq(Early)
  <2>1. <<W("progress", new)>> \in Seq(Early)
    BY <1>3, FileWriteIsEarly, Single
  <2> HIDE DEF new, known
  <2> QED
    BY <2>1, EarlyJoin, EmptySeq
<1> HIDE DEF idle, saved, p
<1>5. CASE Do(saved \o Save([Finished(idle) EXCEPT !.triage_artifact = "run"]), None)
  BY <1>2, <1>4, <1>5, SessionStates, SaveHandsOver, DoHands DEF CoreInv
<1>6. CASE Do(saved \o Save(person), None)
  BY <1>2, <1>4, <1>6, GivenToPerson, SaveDoes, FuzzingStatuses
<1>7. CASE Do(saved \o LowYield(idle), None)
  BY <1>2, <1>4, <1>7, SessionStates, SaveHandsOver, DoHands DEF CoreInv, LowYield
<1>8. CASE Do(saved \o Save(Finished(idle)), None)
  BY <1>2, <1>4, <1>8, SessionStates, SaveHandsOver, DoHands DEF CoreInv
<1>9. CASE Do(saved \o Replan(idle), None)
  BY <1>2, <1>4, <1>9, ReplanHanded, DoHands DEF CoreInv
<1>10. CASE Do(saved \o Save(IF afl THEN [next EXCEPT !.status = "afl_cmplog_pending"] ELSE next), None)
  <2>1. (IF afl THEN [next EXCEPT !.status = "afl_cmplog_pending"] ELSE next) \in LiveStates
    BY <1>2, SessionStates
  <2> QED
    BY <1>4, <1>10, <2>1, SaveHandsOver, DoHands DEF CoreInv
<1> QED
  BY <1>1, <1>5, <1>6, <1>7, <1>8, <1>9, <1>10 DEF idle, saved, p

\* A session that ends without a result.
LEMMA LostHanded ==
  ASSUME disk \in Disk, disk.summary # "reproduced", NEW start \in Seq(Early), NEW leftovers \in Seq(Early),
         NEW s \in LiveStates, NEW time \in 0..1, NEW e \in Errors
  PROVE  Handed(SessionLost(start, s, time, leftovers), e)
<1> DEFINE books == IF time = 0 THEN <<>> ELSE <<W("progress", Add(disk.progress, time))>>
           over  == [s EXCEPT !.active = NoSession, !.status = "interrupted"]
<1>1. Add(disk.progress, time) \in Progresses
  BY TimeAdds DEF Disk, Progresses
<1>2. books \in Seq(Early)
  BY <1>1, FileWriteIsEarly, Single, EmptySeq
<1>3. over \in LiveStates
  BY FuzzingStatuses DEF LiveStates, State
<1>4. start \o leftovers \o books \in Seq(Early)
  BY <1>2, EarlyJoin
<1> QED
  BY <1>3, <1>4, GoesOnWell, SaveHanded DEF SessionLost

LEMMA FreshSessionType == FreshSession \in Sessions
<1>1. \E id \in Sessions : id \notin {st.active, disk.run.session, disk.progress.accounted}
  BY DEF Sessions
<1> QED
  BY <1>1 DEF FreshSession

LEMMA FuzzSessionDoes ==
  ASSUME CoreInv, disk \in Disk, disk.summary # "reproduced", NEW s \in LiveStates, FuzzSession(s)
  PROVE  HandlerStep
<1> DEFINE id      == FreshSession
           running == [s EXCEPT !.status = "running", !.last_error = None, !.active = id]
           start   == Save(running)
<1>1. running \in LiveStates /\ running.status = "running"
  BY FreshSessionType, FuzzingStatuses DEF LiveStates, State
<1>2. start \in Seq(Early)
  BY <1>1, FileWriteIsEarly, Single DEF Save, Stuck
<1>3. /\ Flag(running, "running", "missing") \in LiveStates
      /\ Flag(running, "running", "stopped") \in LiveStates
      /\ \A e \in ToolErrors : Flag(running, "running", e) \in LiveStates
  BY <1>1, Flagged, FuzzingStatuses, ErrorTypes
<1> HIDE DEF running, start
<1>4. <<>> \in Seq(Early) /\ <<W("crash_files", TRUE)>> \in Seq(Early)
  BY FileWriteIsEarly, Single, EmptySeq
<1>5. ASSUME NEW result \in {"quiet", "finding", "broken"}, NEW time \in 0..1
      PROVE  /\ [result |-> result, session |-> id, time |-> time] \in Runs
             /\ <<W("run", [result |-> result, session |-> id, time |-> time])>> \in Seq(Early)
  <2>1. [result |-> result, session |-> id, time |-> time] \in Runs
    BY FreshSessionType DEF Runs
  <2> QED
    BY <2>1, FileWriteIsEarly, Single
<1>6. ASSUME NEW result \in {"quiet", "finding", "broken"}, NEW files \in Seq(Early),
             LET run == [result |-> result, session |-> id, time |-> 1]
             IN  ApplyFuzzResult(running, run, start \o files \o <<W("run", run)>>)
      PROVE  HandlerStep
  <2> DEFINE run == [result |-> result, session |-> id, time |-> 1]
  <2>1. run \in Runs /\ <<W("run", run)>> \in Seq(Early)
    BY <1>5
  <2>2. start \o files \o <<W("run", run)>> \in Seq(Early)
    BY <1>2, <2>1, EarlyJoin
  <2> QED
    BY <1>1, <1>6, <2>1, <2>2, ResultApplied
<1>7. CASE ~Runnable /\ Do(SessionLost(start, Flag(running, "running", "missing"), 0, <<>>), "missing")
  <2>1. 0 \in 0..1 /\ "missing" \in Errors
    BY FuzzingStatuses
  <2>2. Handed(SessionLost(start, Flag(running, "running", "missing"), 0, <<>>), "missing")
    BY <1>2, <1>3, <1>4, <2>1, LostHanded
  <2> QED
    BY <1>7, <2>2, DoHands DEF CoreInv
<1>8. CASE \E time \in 0..1, e \in ToolErrors, written \in BOOLEAN :
             Do(SessionLost(start, Flag(running, "running", e), time,
                  IF written THEN <<W("run", [result |-> "broken", session |-> id, time |-> time])>>
                             ELSE <<>>), e)
  <2>1. PICK time \in 0..1, e \in ToolErrors, written \in BOOLEAN :
             Do(SessionLost(start, Flag(running, "running", e), time,
                  IF written THEN <<W("run", [result |-> "broken", session |-> id, time |-> time])>>
                             ELSE <<>>), e)
    BY <1>8
  <2> DEFINE leftovers == IF written THEN <<W("run", [result |-> "broken", session |-> id, time |-> time])>>
                                     ELSE <<>>
  <2>2. leftovers \in Seq(Early)
    BY <1>4, <1>5
  <2> HIDE DEF leftovers
  <2>3. Handed(SessionLost(start, Flag(running, "running", e), time, leftovers), e)
    BY <1>2, <1>3, <2>2, LostHanded, ErrorTypes
  <2> QED
    BY <2>1, <2>3, DoHands DEF CoreInv, leftovers
<1>9. CASE \E time \in 0..1, found \in BOOLEAN :
             Interrupted(SessionLost(start, Flag(running, "running", "stopped"), time,
                                     IF found THEN <<W("crash_files", TRUE)>> ELSE <<>>))
  <2>1. PICK time \in 0..1, found \in BOOLEAN :
             Interrupted(SessionLost(start, Flag(running, "running", "stopped"), time,
                                     IF found THEN <<W("crash_files", TRUE)>> ELSE <<>>))
    BY <1>9
  <2>2. (IF found THEN <<W("crash_files", TRUE)>> ELSE <<>>) \in Seq(Early)
    BY <1>4
  <2> QED
    BY <1>2, <1>3, <2>1, <2>2, LostHanded, InterruptedHands, FuzzingStatuses DEF CoreInv
<1> QED
  BY <1>4, <1>6, <1>7, <1>8, <1>9 DEF FuzzSession, running, start

LEMMA FuzzDoes ==
  ASSUME CoreInv, Fuzz
  PROVE  HandlerStep
<1> DEFINE idle == [st EXCEPT !.active = NoSession]
<1>1. st \in LiveStates /\ disk.summary # "reproduced" /\ disk \in Disk
  BY StageFacts DEF Fuzz
<1>2. idle \in LiveStates
  BY <1>1, SessionStates
<1> HIDE DEF idle
<1>3. CASE \E e \in PolicyErrors \cup {"gate", "harness", "missing"} : Do(<<>>, e)
  BY <1>1, <1>3, EarlyDoes, EmptySeq, ErrorTypes, FuzzingStatuses
<1>4. CASE ApplyFuzzResult(st, disk.run, <<>>)
  <2>1. disk.run \in Runs
    BY <1>1 DEF Disk, Runs
  <2> QED
    BY <1>1, <1>4, <2>1, ResultApplied, EmptySeq
<1>5. CASE Do(LowYield(idle), None)
  BY <1>1, <1>2, <1>5, SessionStates, SaveHandsOver, DoHands, EmptySeq DEF CoreInv, LowYield
<1>6. CASE Do(Replan(idle), None)
  BY <1>1, <1>2, <1>6, ReplanHanded, DoHands, EmptySeq DEF CoreInv
<1>7. CASE Do(Save(Finished(idle)), None)
  BY <1>1, <1>2, <1>7, SessionStates, SaveHandsOver, DoHands, EmptySeq DEF CoreInv
<1>8. CASE FuzzSession(idle)
  BY <1>1, <1>2, <1>8, FuzzSessionDoes
<1> QED
  BY <1>3, <1>4, <1>5, <1>6, <1>7, <1>8 DEF Fuzz, idle

LEMMA AflDoes ==
  ASSUME CoreInv, Afl
  PROVE  HandlerStep
<1> DEFINE start == Save(Flag(st, "afl_cmplog_running", None))
           failed(e) == start \o <<W("afl", "failed")>> \o Save(Flag(st, "ready", e))
<1>1. st \in LiveStates /\ disk.summary # "reproduced" /\ disk \in Disk
  BY StageFacts DEF Afl
<1>2. start \in Seq(Early)
  <2>1. Flag(st, "afl_cmplog_running", None) \in LiveStates
        /\ Flag(st, "afl_cmplog_running", None).status = "afl_cmplog_running"
    BY <1>1, FuzzingStatuses, Flagged
  <2> QED
    BY <2>1, FileWriteIsEarly, Single DEF Save, Stuck
<1> HIDE DEF start
<1>3. ASSUME NEW e \in Errors
      PROVE  Handed(failed(e), None)
  <2>1. Flag(st, "ready", e) \in LiveStates
    BY <1>1, FuzzingStatuses, Flagged
  <2>2. start \o <<W("afl", "failed")>> \in Seq(Early)
    BY <1>2, FileWriteIsEarly, Single, EarlyJoin
  <2> QED
    BY <1>1, <2>1, <2>2, SaveHandsOver
<1>4. CASE \E e \in PolicyErrors \cup {"afl"} : Do(<<>>, e)
  BY <1>1, <1>4, EarlyDoes, EmptySeq, ErrorTypes, FuzzingStatuses
<1>5. CASE \E e \in ToolErrors : Do(failed(e), None)
  BY <1>3, <1>5, DoHands, ErrorTypes DEF CoreInv
<1>6. CASE /\ OperatorDoes("stop")
           /\ pending' = failed("stopped") /\ raised' = None /\ steps' = Counted
           /\ UNCHANGED <<route, disk, mode, recovery, crashes, history>>
  <2>1. commands' \in 0..MaxCommands
    BY <1>6, Bounds DEF OperatorDoes, CoreInv, TypeInv, TypeOK
  <2> QED
    BY <1>3, <1>6, <2>1, FuzzingStatuses DEF HandlerStep
<1>7. ASSUME NEW time \in 0..1, NEW improved \in BOOLEAN, NEW found \in BOOLEAN,
             LET p     == [Add(disk.progress, time) EXCEPT !.stalled = ~improved]
                 saved == start \o (IF found THEN <<W("crash_files", TRUE)>> ELSE <<>>)
                          \o <<W("afl", IF found THEN "finding" ELSE "quiet"), W("progress", p)>>
                 over  == found \/ p.completed = Budget
             IN
               \/ over /\ Do(saved \o Save([Finished(st) EXCEPT !.triage_artifact = "afl"]), None)
               \/ ~over /\ Do(saved \o Save(To(st, "fuzzing", "ready")), None)
               \/ ~over /\ p.stalled /\ CanReplan /\ Do(saved \o Replan(st), None)
      PROVE HandlerStep
  <2> DEFINE p     == [Add(disk.progress, time) EXCEPT !.stalled = ~improved]
             saved == start \o (IF found THEN <<W("crash_files", TRUE)>> ELSE <<>>)
                      \o <<W("afl", IF found THEN "finding" ELSE "quiet"), W("progress", p)>>
  <2>1. p \in Progresses
    <3>1. Add(disk.progress, time) \in Progresses
      BY <1>1, TimeAdds DEF Disk, Progresses
    <3> QED
      BY <3>1 DEF Progresses
  <2> HIDE DEF p
  <2>2. <<W("afl", IF found THEN "finding" ELSE "quiet"), W("progress", p)>> \in Seq(Early)
    BY <2>1, FileWriteIsEarly, Pair
  <2>3. (IF found THEN <<W("crash_files", TRUE)>> ELSE <<>>) \in Seq(Early)
    BY FileWriteIsEarly, Single, EmptySeq
  <2>4. saved \in Seq(Early)
    BY <1>2, <2>2, <2>3, EarlyJoin
  <2> HIDE DEF saved
  <2>5. /\ Handed(saved \o Save([Finished(st) EXCEPT !.triage_artifact = "afl"]), None)
        /\ Handed(saved \o Save(To(st, "fuzzing", "ready")), None)
        /\ Handed(saved \o Replan(st), None)
    BY <1>1, <2>4, SessionStates, SaveHandsOver, ReplanHanded
  <2> QED
    BY <1>7, <2>5, DoHands DEF CoreInv, p, saved
<1>8. CASE \E time \in 0..1, improved, found \in BOOLEAN :
             LET p     == [Add(disk.progress, time) EXCEPT !.stalled = ~improved]
                 saved == start \o (IF found THEN <<W("crash_files", TRUE)>> ELSE <<>>)
                          \o <<W("afl", IF found THEN "finding" ELSE "quiet"), W("progress", p)>>
                 over  == found \/ p.completed = Budget
             IN
               \/ over /\ Do(saved \o Save([Finished(st) EXCEPT !.triage_artifact = "afl"]), None)
               \/ ~over /\ Do(saved \o Save(To(st, "fuzzing", "ready")), None)
               \/ ~over /\ p.stalled /\ CanReplan /\ Do(saved \o Replan(st), None)
  BY <1>7, <1>8, ZenonT(60)
<1> QED
  <2> HIDE DEF failed
  <2> QED
    BY <1>4, <1>5, <1>6, <1>8 DEF Afl, start, failed

-----------------------------------------------------------------------------
(* The handlers: triage and validation.                                    *)

LEMMA TriageDoes ==
  ASSUME CoreInv, Triage
  PROVE  HandlerStep
<1>1. st \in LiveStates /\ disk.summary # "reproduced" /\ disk \in Disk /\ st.status \notin MANUAL_STATUSES
  BY StageFacts DEF Triage, AtStage, AtTop
<1> DEFINE saved(stage, status) ==
             [To(st, stage, status) EXCEPT !.triage_artifact = IF stage = "fuzzing" THEN None ELSE @]
           verdict(before, stage, status, summary) ==
             Do(before \o Save(saved(stage, status)) \o <<W("summary", summary)>>, None)
<1>2. CASE \E e \in ToolErrors \cup {"missing"} : Do(<<>>, e)
  BY <1>1, <1>2, EarlyDoes, EmptySeq, ErrorTypes, FuzzingStatuses
<1>3. ASSUME NEW before \in Seq(Early), NEW stage \in Stages, NEW status \in Statuses \ Stuck,
             NEW summary \in {"reproduced", "other"}, verdict(before, stage, status, summary),
             status # "quartet_repair_pending",
             summary = "reproduced" => stage = "validation" /\ status = "validation_pending"
      PROVE  HandlerStep
  <2> DEFINE s == saved(stage, status)
             end == Save(s) \o <<W("summary", summary)>>
  <2>1. s \in GoodStates /\ s.stage = stage /\ s.status = status
    <3>1. /\ To(st, stage, status) \in GoodStates
          /\ To(st, stage, status).stage = stage /\ To(st, stage, status).status = status
      BY <1>1, <1>3, MovesOn
    <3> HIDE DEF To
    <3> QED
      BY <3>1 DEF GoodStates, State
  <2> HIDE DEF s
  <2>2. W("summary", summary) \in Writes
    BY DEF W, Writes, FileWrites
  <2>3. Save(s) \in Seq(Writes) /\ <<W("summary", summary)>> \in Seq(Writes) /\ before \in Seq(Writes)
    BY <2>1, <2>2, Single, SaveConcludes, SeqMonotonic, EarlyIsWrites DEF EndsWell
  <2>4. end \in Seq(Writes)
    BY <2>3, ConcatProperties
  <2>5. Concludes(end, None)
    BY <1>3, <2>1 DEF Concludes, EndsWell
  <2>6. before \o Save(s) \o <<W("summary", summary)>> = before \o end
    BY <2>3, ConcatAssociative
  <2>7. Handed(before \o end, None)
    BY <1>1, <2>4, <2>5, FuzzingStatuses DEF Handed
  <2> HIDE DEF end
  <2> QED
    BY <1>3, <2>6, <2>7, DoHands DEF CoreInv, s
<1>4. /\ {"validation", "fuzzing", "complete"} \subseteq Stages
      /\ {"validation_pending", "ready", "triage_review_required", "exhausted"} \subseteq Statuses \ Stuck
  BY DEF Stages, Statuses, MANUAL_STATUSES, FUZZABLE, Stuck
<1>5. <<>> \in Seq(Early) /\ <<W("crash_files", FALSE)>> \in Seq(Early)
  BY FileWriteIsEarly, Single, EmptySeq
<1>6. CASE verdict(<<>>, "validation", "validation_pending", "reproduced")
  BY <1>3, <1>4, <1>5, <1>6
<1>7. CASE verdict(<<W("crash_files", FALSE)>>, "fuzzing", "ready", "other")
  BY <1>3, <1>4, <1>5, <1>7
<1>8. CASE verdict(<<>>, "complete", "triage_review_required", "other")
  BY <1>3, <1>4, <1>5, <1>8
<1>9. CASE verdict(<<>>, "complete", "exhausted", "other")
  BY <1>3, <1>4, <1>5, <1>9
<1> QED
  BY <1>2, <1>6, <1>7, <1>8, <1>9 DEF Triage

LEMMA ConfirmingWrites ==
  ASSUME NEW s \in GoodStates, s.stage \in {"validation", "complete"}, s.status # "exhausted"
  PROVE  W("state", s) \in Confirming /\ W("report", TRUE) \in Confirming
BY DEF W, Confirming

LEMMA ValidateDoes ==
  ASSUME CoreInv, Validate
  PROVE  HandlerStep
<1> DEFINE over    == To(st, "complete", "ready_for_human")
           running == [st EXCEPT !.status = "validation_running"]
           failed(e) == Flag(st, "validation_review_required", e)
<1>1. st \in LiveStates /\ st.stage = "validation"
  BY LiveAtTop DEF Validate, CoreInv, AtStage
<1>2. /\ "complete" \in Stages
      /\ {"ready_for_human", "validation_running", "validation_review_required"} \subseteq Statuses
  BY DEF Stages, Statuses, MANUAL_STATUSES
<1>3. over \in GoodStates /\ over.stage = "complete" /\ over.status = "ready_for_human"
  BY <1>1, <1>2, MovesOn
<1>4. running \in LiveStates /\ running.stage = "validation" /\ running.status = "validation_running"
  BY <1>1, <1>2 DEF LiveStates, State
<1>5. ASSUME NEW e \in Errors
      PROVE  failed(e) \in LiveStates /\ failed(e).stage = "validation"
             /\ failed(e).status = "validation_review_required"
  BY <1>1, <1>2, Flagged
<1> HIDE DEF over, running, failed
<1>6. EndsWell(over, "return") /\ \A e \in Errors : EndsWell(failed(e), e) /\ failed(e) \in GoodStates
  BY <1>5, GoesOnWell DEF EndsWell
<1>7. <<W("report", TRUE)>> \in Seq(Early) /\ Save(running) \in Seq(Early)
  BY <1>4, FileWriteIsEarly, Single DEF Save, Stuck
<1>8. /\ Save(over) \in Seq(Confirming) /\ Save(running) \in Seq(Confirming)
      /\ <<W("report", TRUE)>> \in Seq(Confirming)
      /\ \A e \in Errors : Save(failed(e)) \in Seq(Confirming)
  BY <1>3, <1>4, <1>5, LiveIsGood, ConfirmingWrites, Single DEF Save
<1>9. ASSUME NEW early \in Seq(Early), early \in Seq(Confirming), NEW s \in GoodStates,
             Save(s) \in Seq(Confirming), NEW e \in Errors \cup {"return"}, EndsWell(s, e)
      PROVE  Handed(early \o Save(s), e)
  <2>1. early \o Save(s) \in Seq(Confirming)
    BY <1>9, ConcatProperties
  <2> QED
    BY <1>9, <2>1, SaveConcludes DEF Handed
<1>10. Handed(Save(over), "return")
  <2>1. Save(over) = <<>> \o Save(over) /\ <<>> \in Seq(Early)
    BY <1>8, ConcatEmptySeq
  <2> QED
    BY <1>3, <1>6, <1>8, <2>1, SaveConcludes DEF Handed
<1>11. CASE Do(Save(over), "return")
  BY <1>10, <1>11, DoHands DEF CoreInv
<1>12. CASE disk.summary # "reproduced" /\ Do(<<>>, "missing")
  BY <1>12, EarlyDoes, EmptySeq, FuzzingStatuses
<1>13. CASE Do(Save(running) \o <<W("report", TRUE)>> \o Save(over), "return")
  <2>1. Save(running) \o <<W("report", TRUE)>> \in Seq(Early)
    BY <1>7, EarlyJoin
  <2>2. Save(running) \o <<W("report", TRUE)>> \in Seq(Confirming)
    BY <1>8, ConcatProperties
  <2> QED
    BY <1>3, <1>6, <1>8, <1>9, <1>13, <2>1, <2>2, DoHands DEF CoreInv
<1>14. CASE \E e \in ToolErrors : Do(Save(running) \o Save(failed(e)), e)
  BY <1>6, <1>7, <1>8, <1>9, <1>14, ErrorTypes, DoHands DEF CoreInv
<1> QED
  BY <1>11, <1>12, <1>13, <1>14 DEF Validate, over, running, failed

\* All of them.
LEMMA HandlersDo ==
  ASSUME CoreInv, Handler
  PROVE  HandlerStep
BY PrepareDoes, IntegrateDoes, BuildDoes, SmokeDoes, ProbeDoes, QuartetDoes, RepairQuartetHarnessDoes,
   AnalyzeDoes, GenerateDoes, GenerationLimitDoes, FuzzDoes, AflDoes, TriageDoes, ValidateDoes
   DEF Handler

LEMMA HandlersAtTop ==
  ASSUME Handler
  PROVE  AtTop
BY DEF Handler, Prepare, Integrate, Build, Smoke, SingleStage, Probe, Quartet, RepairQuartetHarness, Analyze,
       Generate, GenerationLimit, Fuzz, Afl, Triage, Validate, AtStage

-----------------------------------------------------------------------------
(* The writes reach the disk.                                              *)

\* The first of the writes to come is an early one, or the state that concludes the
\* handler, or the summary after it.
LEMMA FirstWrite ==
  ASSUME CoreInv, pending # <<>>
  PROVE  \/ /\ Head(pending) \in Early
            /\ \E early \in Seq(Early), end \in Seq(Writes) :
                 Concludes(end, raised) /\ Tail(pending) = early \o end
         \/ \E s \in GoodStates : /\ EndsWell(s, raised) /\ Head(pending) = W("state", s)
                                  /\ Tail(pending) = <<>>
         \/ \E s \in GoodStates, v \in {"reproduced", "other"} :
              /\ EndsWell(s, raised) /\ s.status \notin Stuck
              /\ v = "reproduced" => s.stage = "validation" /\ s.status = "validation_pending"
              /\ Head(pending) = W("state", s) /\ Tail(pending) = <<W("summary", v)>>
         \/ /\ Head(pending) = W("summary", "reproduced") /\ Tail(pending) = <<>>
            /\ st.stage = "validation" /\ st.status = "validation_pending"
<1>1. CASE pending = <<W("summary", "reproduced")>> /\ st.stage = "validation"
           /\ st.status = "validation_pending"
  <2>1. W("summary", "reproduced") \in {W("summary", "reproduced")}
    OBVIOUS
  <2>2. /\ Head(<<W("summary", "reproduced")>>) = W("summary", "reproduced")
        /\ Tail(<<W("summary", "reproduced")>>) = <<>>
    BY <2>1, Single
  <2> QED
    BY <1>1, <2>2
<1>2. ASSUME NEW early \in Seq(Early), NEW end \in Seq(Writes), Concludes(end, raised),
             pending = early \o end, early # <<>>
      PROVE  Head(pending) \in Early /\ Tail(early) \in Seq(Early) /\ Tail(pending) = Tail(early) \o end
  <2>1. Head(early) \in Early /\ Tail(early) \in Seq(Early)
    BY <1>2, HeadTailProperties
  <2>2. early \in Seq(Writes)
    BY EarlyIsWrites, SeqMonotonic
  <2> QED
    BY <1>2, <2>1, <2>2, FirstAndRest
<1>3. ASSUME NEW end \in Seq(Writes), Concludes(end, raised), pending = end
      PROVE  \/ \E s \in GoodStates : /\ EndsWell(s, raised) /\ Head(pending) = W("state", s)
                                      /\ Tail(pending) = <<>>
             \/ \E s \in GoodStates, v \in {"reproduced", "other"} :
                  /\ EndsWell(s, raised) /\ s.status \notin Stuck
                  /\ v = "reproduced" => s.stage = "validation" /\ s.status = "validation_pending"
                  /\ Head(pending) = W("state", s) /\ Tail(pending) = <<W("summary", v)>>
  <2>1. CASE \E s \in GoodStates : EndsWell(s, raised) /\ end = Save(s)
    <3>1. PICK s \in GoodStates : EndsWell(s, raised) /\ end = <<W("state", s)>>
      BY <2>1 DEF Save
    <3>2. Head(<<W("state", s)>>) = W("state", s) /\ Tail(<<W("state", s)>>) = <<>>
      BY Single
    <3> QED
      BY <1>3, <3>1, <3>2
  <2>2. CASE \E s \in GoodStates, v \in {"reproduced", "other"} :
               /\ EndsWell(s, raised) /\ s.status \notin Stuck
               /\ v = "reproduced" => s.stage = "validation" /\ s.status = "validation_pending"
               /\ end = Save(s) \o <<W("summary", v)>>
    <3>1. PICK s \in GoodStates, v \in {"reproduced", "other"} :
               /\ EndsWell(s, raised) /\ s.status \notin Stuck
               /\ v = "reproduced" => s.stage = "validation" /\ s.status = "validation_pending"
               /\ end = <<W("state", s)>> \o <<W("summary", v)>>
      BY <2>2 DEF Save
    <3>2. W("state", s) \in Writes /\ W("summary", v) \in Writes
      BY DEF W, Writes, FileWrites
    <3>3. end = <<W("state", s), W("summary", v)>>
      BY <3>1, <3>2, Pair
    <3>4. Head(end) = W("state", s) /\ Tail(end) = <<W("summary", v)>>
      BY <3>2, <3>3, Pair
    <3> QED
      BY <1>3, <3>1, <3>4
  <2> QED
    BY <1>3, <2>1, <2>2 DEF Concludes
<1>4. CASE \E early \in Seq(Early), end \in Seq(Writes) : Concludes(end, raised) /\ pending = early \o end
  <2>1. PICK early \in Seq(Early), end \in Seq(Writes) : Concludes(end, raised) /\ pending = early \o end
    BY <1>4
  <2>2. CASE early # <<>>
    BY <1>2, <2>1, <2>2
  <2>3. CASE early = <<>>
    <3>1. <<>> \o end = end
      BY ConcatEmptySeq
    <3> QED
      BY <1>3, <2>1, <2>3, <3>1
  <2> QED
    BY <2>2, <2>3
<1> QED
  BY <1>1, <1>4 DEF CoreInv, PendingInv

\* With nothing to write the invariants of the writes hold.
LEMMA NothingPending ==
  ASSUME NEW e
  PROVE  \E early \in Seq(Early), end \in Seq(Writes) : Concludes(end, e) /\ <<>> = early \o end
<1>1. <<>> \in Seq(Early) /\ <<>> \in Seq(Writes) /\ <<>> = <<>> \o <<>>
  BY ConcatEmptySeq, EmptySeq
<1> QED
  BY <1>1, NothingConcludes

LEMMA HandedPending ==
  ASSUME NEW ws, NEW e, Handed(ws, e)
  PROVE  /\ ws \in Seq(Writes)
         /\ \E early \in Seq(Early), end \in Seq(Writes) : Concludes(end, e) /\ ws = early \o end
<1>1. PICK early \in Seq(Early), end \in Seq(Writes) : Concludes(end, e) /\ ws = early \o end
  BY DEF Handed
<1>2. early \in Seq(Writes)
  BY EarlyIsWrites, SeqMonotonic
<1> QED
  BY <1>1, <1>2, ConcatProperties

LEMMA WriteDoes ==
  ASSUME CoreInv, Write
  PROVE  CoreInv'
<1> DEFINE w == Head(pending)
<1>1. /\ pending # <<>> /\ pending' = Tail(pending) /\ disk' = [disk EXCEPT ![w.file] = w.value]
      /\ UNCHANGED <<route, mode, steps, raised, recovery, crashes, commands>>
  BY DEF Write, environment
<1>2. w \in Writes /\ pending' \in Seq(Writes)
  BY <1>1, HeadTailProperties DEF CoreInv, TypeInv
<1>3. disk \in GoodDisks /\ disk' \in GoodDisks
  BY <1>1, <1>2, WriteType DEF CoreInv, TypeInv
<1>4. w.file = "progress" => w.value.completed \in 0..Budget
  BY <1>2 DEF Writes, FileWrites, Progresses
<1>5. spent' \in 0..Budget
  BY <1>4 DEF Write, CoreInv, TypeInv, TypeOK
<1>6. current' \subseteq {"smoke", "probe", "quartet", "plan"}
  BY DEF Write, Current, CoreInv, TypeInv, TypeOK
<1>7. mode # "idle"
  BY <1>1 DEF CoreInv, TypeInv
<1>8. TypeInv'
  BY <1>1, <1>2, <1>3, <1>5, <1>6, <1>7 DEF CoreInv, TypeInv, TypeOK, GoodDisks
<1>9. st' = IF w.file = "state" THEN w.value ELSE st
  BY <1>1, <1>3 DEF st, GoodDisks, Disk
<1>10. disk'.summary = IF w.file = "summary" THEN w.value ELSE disk.summary
  BY <1>1, <1>3 DEF GoodDisks, Disk
<1>11. disk.summary = "reproduced" => ReproducedInv'
  <2> SUFFICES ASSUME disk.summary = "reproduced" PROVE ReproducedInv'
    OBVIOUS
  <2>1. w \in Confirming /\ Tail(pending) \in Seq(Confirming)
    BY <1>1, HeadTailProperties DEF CoreInv, ReproducedInv
  <2>2. st'.stage \in {"validation", "complete"} /\ st'.status # "exhausted"
    BY <1>9, <2>1 DEF Confirming, CoreInv, ReproducedInv
  <2> QED
    BY <1>1, <2>1, <2>2 DEF ReproducedInv
<1> HIDE DEF w
<1>12. CASE /\ w \in Early
            /\ \E early \in Seq(Early), end \in Seq(Writes) :
                 Concludes(end, raised) /\ Tail(pending) = early \o end
  <2>1. PendingInv'
    BY <1>1, <1>12 DEF PendingInv
  <2>2. disk'.summary = "reproduced" => disk.summary = "reproduced"
    BY <1>10, <1>12 DEF Early, FileWrites, None
  <2>3. st' = st \/ st'.status \notin Stuck
    BY <1>9, <1>12 DEF Early, FileWrites
  <2> QED
    BY <1>1, <1>8, <1>11, <2>1, <2>2, <2>3 DEF CoreInv, ReproducedInv, WorkerAlone
<1>13. CASE \E s \in GoodStates : w = W("state", s) /\ Tail(pending) = <<>>
  <2>1. PendingInv'
    BY <1>1, <1>13, NothingPending DEF PendingInv
  <2>2. disk'.summary = "reproduced" => disk.summary = "reproduced"
    BY <1>10, <1>13 DEF W
  <2> QED
    BY <1>1, <1>8, <1>11, <1>13, <2>1, <2>2 DEF CoreInv, ReproducedInv, WorkerAlone
<1>14. CASE \E s \in GoodStates, v \in {"reproduced", "other"} :
              /\ s.status \notin Stuck
              /\ v = "reproduced" => s.stage = "validation" /\ s.status = "validation_pending"
              /\ w = W("state", s) /\ Tail(pending) = <<W("summary", v)>>
  <2>1. PICK s \in GoodStates, v \in {"reproduced", "other"} :
              /\ s.status \notin Stuck
              /\ v = "reproduced" => s.stage = "validation" /\ s.status = "validation_pending"
              /\ w = W("state", s) /\ Tail(pending) = <<W("summary", v)>>
    BY <1>14
  <2>2. st' = s
    BY <1>9, <2>1 DEF W
  <2>3. disk'.summary = "reproduced" => disk.summary = "reproduced"
    BY <1>10, <2>1 DEF W
  <2>4. PendingInv'
    <3>1. CASE v = "reproduced"
      BY <1>1, <2>1, <2>2, <3>1 DEF PendingInv
    <3>2. CASE v = "other"
      <4>1. <<W("summary", v)>> \in Seq(Early)
        BY <3>2, FileWriteIsEarly, Single
      <4>2. <<W("summary", v)>> = <<W("summary", v)>> \o <<>>
        BY <4>1, ConcatEmptySeq
      <4>3. Concludes(<<>>, raised) /\ <<>> \in Seq(Writes)
        BY NothingConcludes
      <4> QED
        BY <1>1, <2>1, <4>1, <4>2, <4>3 DEF PendingInv
    <3> QED
      BY <3>1, <3>2
  <2> QED
    BY <1>1, <1>8, <1>11, <2>1, <2>2, <2>3, <2>4 DEF CoreInv, ReproducedInv, WorkerAlone
<1>15. CASE /\ w = W("summary", "reproduced") /\ Tail(pending) = <<>>
            /\ st.stage = "validation" /\ st.status = "validation_pending"
  <2>1. st' = st
    BY <1>9, <1>15 DEF W
  <2>2. PendingInv' /\ WorkerAlone'
    BY <1>1, <1>15, NothingPending DEF PendingInv, WorkerAlone
  <2>3. ReproducedInv'
    BY <1>1, <1>15, <2>1, EmptySeq DEF ReproducedInv
  <2> QED
    BY <1>8, <2>2, <2>3 DEF CoreInv
<1> QED
  BY <1>1, <1>12, <1>13, <1>14, <1>15, FirstWrite DEF w

-----------------------------------------------------------------------------
(* The steps around the handlers.                                          *)

LEMMA HandlerKeepsCore ==
  ASSUME CoreInv, Handler
  PROVE  CoreInv'
<1>1. HandlerStep /\ AtTop
  BY HandlersDo, HandlersAtTop
<1>2. /\ Handed(pending', raised') /\ steps' = Counted /\ commands' \in 0..MaxCommands
      /\ UNCHANGED <<route, disk, mode, recovery, crashes, spent, current>>
  BY <1>1 DEF HandlerStep, history
<1>3. pending' \in Seq(Writes) /\ PendingInv'
  BY <1>2, HandedPending DEF PendingInv
<1>4. steps' \in 0..MaxTransitions
  BY <1>1, <1>2, Bounds DEF Counted, AtTop, Exhausted, CoreInv, TypeInv, TypeOK
<1>5. raised' \in Errors \cup {"return"}
  BY <1>2 DEF Handed
<1>6. mode # "idle" /\ st.status \notin Stuck /\ st' = st
  BY <1>1, <1>2 DEF AtTop, BetweenHandlers, MANUAL_STATUSES, Stuck, st
<1>7. TypeInv'
  BY <1>2, <1>3, <1>4, <1>5, <1>6 DEF CoreInv, TypeInv, TypeOK
<1>8. ReproducedInv'
  BY <1>2, <1>6 DEF CoreInv, ReproducedInv, Handed
<1> QED
  BY <1>3, <1>6, <1>7, <1>8 DEF CoreInv, WorkerAlone

\* A step that leaves the files, and hands nothing over.
LEMMA NothingHandedKeepsCore ==
  ASSUME CoreInv, UNCHANGED <<route, disk, spent, current>>, pending' = pending \/ pending' = <<>>,
         pending # <<>> /\ pending' # <<>> => raised' = raised /\ mode' = mode,
         recovery' = recovery \/ recovery' \in Seq(Writes),
         mode' \in {"idle", "setup", "run", "followup", "operator"},
         mode' = "idle" => pending' = <<>> /\ raised' = None,
         steps' \in 0..MaxTransitions, raised' \in Errors \cup {"return"},
         crashes' \in 0..MaxCrashes, commands' \in 0..MaxCommands
  PROVE  CoreInv'
<1>1. TypeInv'
  BY EmptySeq DEF CoreInv, TypeInv, TypeOK
<1>2. st' = st
  BY DEF st
<1>3. PendingInv'
  <2>1. CASE pending' = <<>>
    BY <2>1, NothingPending DEF PendingInv
  <2>2. CASE pending' # <<>>
    BY <1>2, <2>2 DEF CoreInv, PendingInv
  <2> QED
    BY <2>1, <2>2
<1>4. ReproducedInv'
  BY <1>2, EmptySeq DEF CoreInv, ReproducedInv
<1>5. WorkerAlone'
  BY <1>2 DEF CoreInv, WorkerAlone
<1> QED
  BY <1>1, <1>3, <1>4, <1>5 DEF CoreInv

\* A step that hands the writes of an operator's command or of the follow-up over.
LEMMA HandedKeepsCore ==
  ASSUME CoreInv, NEW early \in Seq(Early), NEW s \in GoodStates, EndsWell(s, raised'),
         pending' = early \o Save(s), disk.summary # "reproduced",
         UNCHANGED <<route, disk, steps, recovery, crashes, spent, current>>,
         mode' \in {"followup", "operator"} \/ (mode' \in {"setup", "run"} /\ st.status \notin Stuck),
         raised' \in Errors \cup {"return"}, commands' \in 0..MaxCommands
  PROVE  CoreInv'
<1>1. Concludes(Save(s), raised') /\ Save(s) \in Seq(Writes)
  BY SaveConcludes
<1>2. PendingInv' /\ pending' \in Seq(Writes)
  <2>1. early \in Seq(Writes)
    BY EarlyIsWrites, SeqMonotonic
  <2> QED
    BY <1>1, <2>1, ConcatProperties DEF PendingInv
<1>3. TypeInv'
  BY <1>2 DEF CoreInv, TypeInv, TypeOK
<1>4. ReproducedInv' /\ WorkerAlone'
  BY DEF ReproducedInv, WorkerAlone, st
<1> QED
  BY <1>2, <1>3, <1>4 DEF CoreInv

LEMMA RecordedIsGood ==
  ASSUME NEW s \in GoodStates, NEW e \in Errors
  PROVE  /\ Recorded(s, e) \in GoodStates
         /\ Recorded(s, e).stage \in {s.stage, "complete"}
         /\ Recorded(s, e).status \in {"unsupported_integration", "manual_review", "interrupted", "recovery_pending"}
         /\ Recorded(s, e).status = "interrupted" => s.status = "interrupted"
         /\ Recorded(s, e).status = "unsupported_integration" <=> e = "unsupported"
         /\ Recorded(s, e).last_error = e
<1>1. {"unsupported_integration", "manual_review", "recovery_pending"} \subseteq Statuses /\ "complete" \in Stages
  BY DEF Statuses, MANUAL_STATUSES, Stages
<1>2. s \in State
  BY DEF GoodStates
<1>3. CASE e = "unsupported"
  <2>1. Recorded(s, e) = [s EXCEPT !.stage = "complete", !.status = "unsupported_integration", !.last_error = e]
    BY <1>3 DEF Recorded
  <2>2. Recorded(s, e) \in State
    BY <1>1, <1>2, <2>1 DEF State
  <2>3. /\ Recorded(s, e).stage = "complete" /\ Recorded(s, e).status = "unsupported_integration"
        /\ Recorded(s, e).last_error = e
        /\ Recorded(s, e).automatic_recoveries = s.automatic_recoveries
        /\ Recorded(s, e).harness_generation = s.harness_generation
        /\ Recorded(s, e).quartet_repair = s.quartet_repair
        /\ Recorded(s, e).central_improvement = s.central_improvement
    BY <1>2, <2>1 DEF State
  <2> QED
    BY <1>3, <2>2, <2>3 DEF GoodStates
<1>4. CASE e # "unsupported"
  <2> DEFINE status == IF TooManyFailures(s) THEN "manual_review"
                       ELSE IF s.status = "interrupted" THEN "interrupted" ELSE "recovery_pending"
  <2>1. Recorded(s, e) = [s EXCEPT !.worker_failures = Failures(s), !.status = status, !.last_error = e]
    BY <1>2, <1>4 DEF Recorded, State
  <2>2. s.worker_failures \in Nat /\ s.status \in Statuses
    BY <1>2 DEF State
  <2>3. Failures(s) \in Nat /\ status \in Statuses
    BY <1>1, <2>2 DEF Failures
  <2>4. status # "manual_review" => Failures(s) < MaxFailures
    BY <2>2, Bounds DEF TooManyFailures, Failures
  <2>5. /\ status \in {"manual_review", "interrupted", "recovery_pending"}
        /\ status = "interrupted" => s.status = "interrupted"
    OBVIOUS
  <2> HIDE DEF status
  <2>6. Recorded(s, e) \in State
    BY <1>2, <2>1, <2>3 DEF State
  <2>7. /\ Recorded(s, e).stage = s.stage /\ Recorded(s, e).status = status
        /\ Recorded(s, e).last_error = e
        /\ Recorded(s, e).worker_failures = Failures(s)
        /\ Recorded(s, e).automatic_recoveries = s.automatic_recoveries
        /\ Recorded(s, e).harness_generation = s.harness_generation
        /\ Recorded(s, e).quartet_repair = s.quartet_repair
        /\ Recorded(s, e).central_improvement = s.central_improvement
    BY <1>2, <2>1 DEF State
  <2>8. Recorded(s, e) \in GoodStates
    BY <2>4, <2>5, <2>6, <2>7 DEF GoodStates, MANUAL_STATUSES
  <2> QED
    BY <1>4, <2>5, <2>7, <2>8
<1> QED
  BY <1>3, <1>4

LEMMA RecordKeepsCore ==
  ASSUME CoreInv, RecordWorkerError
  PROVE  CoreInv' /\ st' = Recorded(st, raised) /\ raised \in Errors /\ disk'.summary = disk.summary
         /\ st \in GoodStates
<1>1. /\ raised \in Errors /\ pending = <<>> /\ disk \in GoodDisks /\ disk \in Disk /\ st \in GoodStates
      /\ disk' = [disk EXCEPT !.state = Recorded(st, raised)]
      /\ mode' = "idle" /\ raised' = None /\ steps' = 0
      /\ UNCHANGED <<route, pending, recovery, crashes, commands, spent, current>>
  BY DEF RecordWorkerError, CoreInv, TypeInv, TypeOK, GoodDisks, st, Leave, environment, history
<1>2. Recorded(st, raised) \in GoodStates
  BY <1>1, RecordedIsGood
<1>3. disk' \in GoodDisks /\ disk' \in Disk /\ st' = Recorded(st, raised) /\ disk'.summary = disk.summary
  BY <1>1, <1>2 DEF GoodDisks, GoodStates, Disk, st
<1>4. TypeInv'
  BY <1>1, <1>3, Bounds, FuzzingStatuses DEF CoreInv, TypeInv, TypeOK
<1>5. PendingInv' /\ WorkerAlone'
  BY <1>1, NothingPending DEF PendingInv, WorkerAlone
<1>6. ReproducedInv'
  BY <1>1, <1>3, RecordedIsGood, EmptySeq DEF CoreInv, ReproducedInv
<1> QED
  BY <1>1, <1>3, <1>4, <1>5, <1>6 DEF CoreInv

-----------------------------------------------------------------------------
(* The monitor.                                                            *)

LEMMA MovesAreWrites ==
  /\ Moves \subseteq Early /\ Moves \subseteq Writes
  /\ AppliedWrites \subseteq Writes
  /\ RecoveryMoves \in Seq(Moves)
<1>1. Moves \subseteq Early /\ Moves \subseteq Writes /\ AppliedWrites \subseteq Writes
  BY EarlyIsWrites DEF Moves, AppliedWrites, Writes
<1>2. ASSUME NEW name \in {"integration", "manifest", "smoke", "probe", "quartet", "plan"}
      PROVE  Moved(name) \in Seq(Moves)
  <2>1. name \in DOMAIN Absent
    BY DEF Absent
  <2>2. Moved(name) \in Seq(Early)
    BY <2>1, MovedIsEarly
  <2>3. CASE Moved(name) = <<>>
    BY <2>3, EmptySeq
  <2>4. CASE Moved(name) = <<W(name, Absent[name])>>
    <3>1. Head(<<W(name, Absent[name])>>) = W(name, Absent[name])
      OBVIOUS
    <3>2. W(name, Absent[name]) \in Early
      BY <2>2, <2>4, <3>1, HeadTailProperties, EmptySeq, Single
    <3>3. W(name, Absent[name]) \in Moves
      BY <3>2 DEF W, Moves, Early
    <3> QED
      BY <2>4, <3>3, Single
  <2> QED
    BY <2>3, <2>4 DEF Moved
<1>3. \A a, b : a \in Seq(Moves) /\ b \in Seq(Moves) => a \o b \in Seq(Moves)
  BY ConcatProperties
<1>4. RecoveryMoves \in Seq(Moves)
  <2> HIDE DEF Moved
  <2> QED
    BY <1>2, <1>3 DEF RecoveryMoves
<1> QED
  BY <1>1, <1>4

\* A recovery that the monitor decides on.
LEMMA RecoveredIsGood ==
  ASSUME NEW s \in GoodStates, Eligible(s), NEW action \in Options(s)
  PROVE  /\ Recovered(s, action) \in GoodStates /\ ~Ended(Recovered(s, action))
         /\ Applied(s, action) \in Records
<1>1. s \in State /\ s.stage \in RECOVERABLE_FAILURE_STAGES /\ s.automatic_recoveries <= MaxRecoveries
  <2>1. s \in State /\ s.stage \in RECOVERABLE_FAILURE_STAGES
    BY DEF Eligible, GoodStates
  <2>2. s.stage # "complete"
    BY <2>1 DEF RECOVERABLE_FAILURE_STAGES
  <2> QED
    BY <2>1, <2>2, Bounds DEF GoodStates, State
<1>2. action \in Actions /\ (action # "skip_target" => s.automatic_recoveries < MaxRecoveries)
  BY DEF Options, Actions, MayRecover
<1> DEFINE t == CASE action = "restart_from_integration" -> To(s, "integration", "prepared")
                  [] action = "retry_stage" -> To(s, s.stage, RetryStatus(s))
                  [] action = "skip_target" -> [s EXCEPT !.stage = "complete",
                                                         !.status = "skipped_after_recovery"]
           r == [t EXCEPT !.worker_failures = 0, !.automatic_recoveries = @ + 1]
<1>3. /\ {"integration", "complete"} \subseteq Stages /\ RECOVERABLE_FAILURE_STAGES \subseteq Stages \ {"complete"}
      /\ {"prepared", "skipped_after_recovery"} \subseteq Statuses /\ RetryStatus(s) \in Statuses
      /\ RetryStatus(s) \in {"preparing", "prepared", "integrated", "built", "quartet_pending",
                             "analysis_pending", "interrupted"}
  BY <1>1 DEF Stages, Statuses, RECOVERY_STAGE_STATUS, RECOVERABLE_FAILURE_STAGES, RetryStatus
<1>4. None \in Errors
  BY FuzzingStatuses
<1>5. /\ t \in State
      /\ t.automatic_recoveries = s.automatic_recoveries /\ t.harness_generation = s.harness_generation
      /\ t.quartet_repair = s.quartet_repair /\ t.central_improvement = s.central_improvement
      /\ t.status \notin {"exhausted", "quartet_repair_pending"} \cup Closed
      /\ action = "skip_target" => t.stage = "complete"
  <2>1. CASE action = "restart_from_integration"
    BY <1>1, <1>3, <1>4, <2>1 DEF To, State, Closed
  <2>2. CASE action = "retry_stage"
    BY <1>1, <1>3, <1>4, <2>2 DEF To, State, Closed
  <2>3. CASE action = "skip_target"
    BY <1>1, <1>3, <1>4, <2>3 DEF To, State, Closed
  <2> QED
    BY <1>2, <2>1, <2>2, <2>3 DEF Actions
<1> HIDE DEF t
<1>6. /\ r \in State /\ r.stage = t.stage /\ r.status = t.status /\ r.worker_failures = 0
      /\ r.automatic_recoveries = s.automatic_recoveries + 1
      /\ r.harness_generation = s.harness_generation
      /\ r.quartet_repair = s.quartet_repair /\ r.central_improvement = s.central_improvement
  <2>1. t \in State /\ t.automatic_recoveries \in Nat /\ t.automatic_recoveries + 1 \in Nat
    BY <1>5 DEF State
  <2>2. /\ r.stage = t.stage /\ r.status = t.status /\ r.worker_failures = 0
        /\ r.automatic_recoveries = t.automatic_recoveries + 1
        /\ r.harness_generation = t.harness_generation
        /\ r.quartet_repair = t.quartet_repair /\ r.central_improvement = t.central_improvement
    BY <2>1 DEF State
  <2>3. r \in State
    BY <2>1 DEF State
  <2> QED
    BY <1>5, <2>2, <2>3
<1>7. Recovered(s, action) = r
  BY DEF Recovered, t
<1> HIDE DEF r
<1>8. r \in GoodStates
  BY <1>1, <1>2, <1>5, <1>6, Bounds DEF GoodStates, State
<1>9. Applied(s, action) \in Records
  BY <1>1, <1>2 DEF Applied, Records, State
<1> QED
  BY <1>5, <1>6, <1>7, <1>8, <1>9 DEF Ended

LEMMA RecoverDoes ==
  ASSUME CoreInv, Recover
  PROVE  CoreInv' /\ RecoveryInv'
<1>1. /\ mode \notin {"followup", "operator"} /\ recovery = <<>> /\ Eligible(st)
      /\ UNCHANGED <<route, disk, mode, steps, pending, raised, crashes, commands, spent, current>>
  BY DEF Recover, environment, history
<1>2. PICK action \in Options(st) :
        recovery' = (IF action = "restart_from_integration" THEN RecoveryMoves ELSE <<>>)
                    \o Save(Recovered(st, action))
                    \o <<W("applied", disk.applied \cup {Applied(st, action)})>>
  BY DEF Recover
<1> DEFINE moves == IF action = "restart_from_integration" THEN RecoveryMoves ELSE <<>>
           s == Recovered(st, action)
           a == W("applied", disk.applied \cup {Applied(st, action)})
<1>3. disk \in GoodDisks /\ disk \in Disk /\ st \in GoodStates /\ disk.applied \in SUBSET Records
  BY DEF CoreInv, TypeInv, TypeOK, GoodDisks, st, Disk, Records
<1>4. s \in GoodStates /\ ~Ended(s) /\ Applied(st, action) \in Records
  BY <1>1, <1>2, <1>3, RecoveredIsGood
<1>5. moves \in Seq(Moves)
  BY MovesAreWrites, EmptySeq
<1>6. a \in AppliedWrites
  BY <1>3, <1>4 DEF W, AppliedWrites
<1> HIDE DEF moves, s, a
<1>7. recovery' = moves \o Save(s) \o <<a>>
  BY <1>2 DEF moves, s, a
<1>8. moves \in Seq(Writes) /\ W("state", s) \in Writes /\ a \in Writes
  BY <1>4, <1>5, <1>6, MovesAreWrites, SeqMonotonic DEF W, Writes
<1>9. recovery' = moves \o <<W("state", s), a>>
  <2>1. <<W("state", s)>> \in Seq(Writes) /\ <<a>> \in Seq(Writes) /\ <<W("state", s)>> \o <<a>> = <<W("state", s), a>>
    BY <1>8, Single, Pair
  <2> QED
    BY <1>7, <1>8, <2>1, ConcatAssociative DEF Save
<1>10. recovery' \in Seq(Writes)
  BY <1>8, <1>9, Pair, ConcatProperties
<1>11. pending = <<>>
  BY <1>1 DEF CoreInv, WorkerAlone, Eligible, Stuck
<1>12. st.stage \notin {"validation", "complete"} /\ st.status \in MANUAL_STATUSES
  BY <1>1 DEF Eligible, RECOVERABLE_FAILURE_STAGES, MANUAL_STATUSES
<1>13. disk.summary # "reproduced"
  BY <1>12, NotReproduced DEF CoreInv
<1>14. st' = st
  BY <1>1 DEF st
<1>15. RecoveryInv'
  BY <1>1, <1>4, <1>5, <1>6, <1>9, <1>11, <1>12, <1>13, <1>14 DEF RecoveryInv, Ended
<1>16. CoreInv'
  BY <1>1, <1>10, NothingHandedKeepsCore DEF CoreInv, TypeInv, TypeOK
<1> QED
  BY <1>15, <1>16

\* What the monitor writes next.
LEMMA FirstMonitorWrite ==
  ASSUME RecoveryInv, recovery # <<>>
  PROVE  \/ Head(recovery) \in AppliedWrites /\ Tail(recovery) \in Seq(AppliedWrites)
         \/ /\ pending = <<>> /\ mode \notin {"followup", "operator"} /\ disk.summary # "reproduced"
            /\ st.status \in MANUAL_STATUSES /\ (Ended(st) => st.status = "unsupported_integration")
            /\ \/ /\ Head(recovery) \in Moves
                  /\ \E moves \in Seq(Moves), s \in GoodStates, a \in AppliedWrites :
                       ~Ended(s) /\ Tail(recovery) = moves \o <<W("state", s), a>>
               \/ \E s \in GoodStates :
                    ~Ended(s) /\ Head(recovery) = W("state", s) /\ Tail(recovery) \in Seq(AppliedWrites)
<1>1. CASE recovery \in Seq(AppliedWrites)
  BY <1>1, HeadTailProperties
<1>2. CASE recovery \notin Seq(AppliedWrites)
  <2>1. PICK moves \in Seq(Moves), s \in GoodStates, a \in AppliedWrites :
          ~Ended(s) /\ recovery = moves \o <<W("state", s), a>>
    BY <1>2 DEF RecoveryInv
  <2>2. W("state", s) \in Writes /\ a \in Writes /\ moves \in Seq(Writes)
    BY MovesAreWrites, SeqMonotonic DEF W, Writes
  <2>3. <<W("state", s), a>> \in Seq(Writes) /\ Head(<<W("state", s), a>>) = W("state", s)
        /\ Tail(<<W("state", s), a>>) = <<a>>
    BY <2>2, Pair
  <2>4. CASE moves # <<>>
    <3>1. Head(recovery) = Head(moves) /\ Tail(recovery) = Tail(moves) \o <<W("state", s), a>>
      BY <2>1, <2>2, <2>3, <2>4, FirstAndRest
    <3>2. Head(moves) \in Moves /\ Tail(moves) \in Seq(Moves)
      BY <2>4, HeadTailProperties
    <3> QED
      BY <1>2, <2>1, <3>1, <3>2 DEF RecoveryInv
  <2>5. CASE moves = <<>>
    <3>1. recovery = <<W("state", s), a>>
      BY <2>1, <2>3, <2>5, ConcatEmptySeq
    <3>2. <<a>> \in Seq(AppliedWrites)
      BY Single
    <3> QED
      BY <1>2, <2>1, <2>3, <3>1, <3>2 DEF RecoveryInv
  <2> QED
    BY <2>4, <2>5
<1> QED
  BY <1>1, <1>2

LEMMA MonitorWriteDoes ==
  ASSUME CoreInv, RecoveryInv, MonitorWrite
  PROVE  CoreInv' /\ RecoveryInv'
<1> DEFINE w == Head(recovery)
<1>1. /\ recovery # <<>> /\ recovery' = Tail(recovery) /\ disk' = [disk EXCEPT ![w.file] = w.value]
      /\ UNCHANGED <<route, mode, steps, pending, raised, crashes, commands, spent, current>>
  BY DEF MonitorWrite, environment, history
<1>2. w \in Writes /\ recovery' \in Seq(Writes)
  BY <1>1, HeadTailProperties DEF CoreInv, TypeInv
<1>3. disk \in GoodDisks /\ disk \in Disk /\ disk' \in GoodDisks
  BY <1>1, <1>2, WriteType DEF CoreInv, TypeInv, GoodDisks
<1>4. TypeInv'
  BY <1>1, <1>2, <1>3 DEF CoreInv, TypeInv, TypeOK, GoodDisks
<1>5. st' = IF w.file = "state" THEN w.value ELSE st
  BY <1>1, <1>3 DEF st, Disk
<1>6. disk'.summary = IF w.file = "summary" THEN w.value ELSE disk.summary
  BY <1>1, <1>3 DEF Disk
<1> HIDE DEF w
<1>7. CASE w \in AppliedWrites /\ Tail(recovery) \in Seq(AppliedWrites)
  <2>1. st' = st /\ disk'.summary = disk.summary
    BY <1>5, <1>6, <1>7 DEF AppliedWrites
  <2>2. PendingInv' /\ ReproducedInv' /\ WorkerAlone'
    BY <1>1, <2>1 DEF CoreInv, PendingInv, ReproducedInv, WorkerAlone
  <2> QED
    BY <1>1, <1>4, <1>7, <2>2 DEF CoreInv, RecoveryInv
<1>8. CASE /\ pending = <<>> /\ mode \notin {"followup", "operator"} /\ disk.summary # "reproduced"
           /\ st.status \in MANUAL_STATUSES /\ (Ended(st) => st.status = "unsupported_integration")
           /\ w \in Moves
           /\ \E moves \in Seq(Moves), s \in GoodStates, a \in AppliedWrites :
                ~Ended(s) /\ Tail(recovery) = moves \o <<W("state", s), a>>
  <2>1. st' = st /\ disk'.summary = disk.summary
    BY <1>5, <1>6, <1>8 DEF Moves, FileWrites
  <2>2. PendingInv' /\ ReproducedInv' /\ WorkerAlone'
    BY <1>1, <2>1 DEF CoreInv, PendingInv, ReproducedInv, WorkerAlone
  <2>3. RecoveryInv'
    BY <1>1, <1>8, <2>1 DEF RecoveryInv
  <2> QED
    BY <1>4, <2>2, <2>3 DEF CoreInv
<1>9. CASE /\ pending = <<>> /\ disk.summary # "reproduced"
           /\ \E s \in GoodStates :
                ~Ended(s) /\ w = W("state", s) /\ Tail(recovery) \in Seq(AppliedWrites)
  <2>1. disk'.summary = disk.summary
    BY <1>6, <1>9 DEF W
  <2>2. PendingInv' /\ ReproducedInv' /\ WorkerAlone'
    BY <1>1, <1>9, <2>1, NothingPending DEF PendingInv, ReproducedInv, WorkerAlone
  <2> QED
    BY <1>1, <1>4, <1>9, <2>2 DEF CoreInv, RecoveryInv
<1> QED
  BY <1>1, <1>7, <1>8, <1>9, FirstMonitorWrite DEF w

-----------------------------------------------------------------------------
(* The steps around the handlers.                                          *)

\* A job that goes on is never over: only its recoveries and its end may exceed a bound.
LEMMA FollowupDoes ==
  ASSUME CoreInv, FollowupHarness
  PROVE  CoreInv'
<1> DEFINE s == [st EXCEPT !.central_improvement = @ + 1]
           t == To(s, "fuzzing", "harness_work_pending")
<1>1. /\ st.status = "exhausted" /\ st.stage = "complete" /\ st.central_improvement < MaxImprovements
      /\ mode' = "followup" /\ pending' = <<W("plan", "work")>> \o Save(t)
      /\ UNCHANGED <<route, disk, steps, raised, recovery, crashes, commands, spent, current>>
  BY DEF FollowupHarness, FollowupAvailable, Replan, environment, history
<1>2. st \in State /\ st \in GoodStates
  BY DEF CoreInv, TypeInv, GoodDisks, GoodStates, st
<1>3. s \in LiveStates \cup {s} /\ s \in State /\ s.automatic_recoveries = st.automatic_recoveries
      /\ s.harness_generation = st.harness_generation /\ s.quartet_repair = st.quartet_repair
      /\ s.central_improvement = st.central_improvement + 1 /\ s.worker_failures = st.worker_failures
  BY <1>2 DEF State
<1>4. st.automatic_recoveries <= MaxRecoveries /\ st.worker_failures < MaxFailures
      /\ st.harness_generation <= MaxGenerations /\ st.quartet_repair <= MaxGenerations
  BY <1>1, <1>2, Bounds DEF GoodStates, State
<1>5. /\ t \in State /\ t.stage = "fuzzing" /\ t.status = "harness_work_pending"
      /\ t.automatic_recoveries = s.automatic_recoveries
      /\ t.harness_generation = s.harness_generation /\ t.quartet_repair = s.quartet_repair
      /\ t.central_improvement = s.central_improvement /\ t.worker_failures = s.worker_failures
  <2>1. "fuzzing" \in Stages /\ "harness_work_pending" \in Statuses /\ None \in Errors
    BY DEF Stages, Statuses, GENERABLE, Errors, OwnErrors
  <2> HIDE DEF s
  <2> QED
    BY <1>3, <2>1 DEF To, State
<1> HIDE DEF s, t
<1>6. t \in LiveStates
  <2>1. st.central_improvement \in Nat /\ MaxImprovements \in Nat
    BY <1>2, Bounds DEF State
  <2> QED
    BY <1>1, <1>3, <1>4, <1>5, <2>1 DEF LiveStates
<1>7. disk.summary # "reproduced"
  BY <1>1 DEF CoreInv, ReproducedInv
<1>8. <<W("plan", "work")>> \in Seq(Early)
  BY FileWriteIsEarly, Single
<1>9. t \in GoodStates /\ EndsWell(t, raised')
  BY <1>6, GoesOnWell
<1>10. raised' \in Errors \cup {"return"} /\ commands' \in 0..MaxCommands
  BY <1>1 DEF CoreInv, TypeInv, TypeOK
<1> QED
  BY <1>1, <1>7, <1>8, <1>9, <1>10, HandedKeepsCore

LEMMA StartedAnew ==
  ASSUME NEW stage \in Stages \ {"complete"}, NEW status \in Statuses, status # "quartet_repair_pending"
  PROVE  NewState(stage, status) \in LiveStates
BY Bounds DEF NewState, LiveStates, State, Errors, OwnErrors, NoSession

LEMMA ReworkDoes ==
  ASSUME CoreInv, NEW command, NEW early \in Seq(Early), NEW stage \in Stages \ {"complete"},
         NEW status \in Statuses, status # "quartet_repair_pending", FreeOfFindings,
         Rework(command, early \o Save(NewState(stage, status)))
  PROVE  CoreInv'
<1>1. NewState(stage, status) \in GoodStates /\ EndsWell(NewState(stage, status), raised')
  BY StartedAnew, GoesOnWell
<1>2. /\ mode' = "operator" /\ raised' = "return" /\ pending' = early \o Save(NewState(stage, status))
      /\ commands' = commands + 1 /\ commands < MaxCommands
      /\ UNCHANGED <<route, disk, steps, recovery, crashes, spent, current>>
  BY DEF Rework, OperatorDoes, history
<1>3. commands' \in 0..MaxCommands
  BY <1>2, Bounds DEF CoreInv, TypeInv, TypeOK
<1>4. disk.summary # "reproduced"
  BY DEF FreeOfFindings
<1> QED
  BY <1>1, <1>2, <1>3, <1>4, HandedKeepsCore

LEMMA OperatorKeepsCore ==
  ASSUME CoreInv, Operator
  PROVE  CoreInv'
<1>1. /\ {"integration", "build"} \subseteq Stages \ {"complete"}
      /\ {"prepared", "integrated"} \subseteq Statuses
  BY DEF Stages, Statuses, RECOVERY_STAGE_STATUS, RECOVERABLE_FAILURE_STAGES
<1>2. CASE Retarget
  BY <1>1, <1>2, ArchivesAreEarly, ReworkDoes DEF Retarget
<1>3. CASE RepairHarness
  <2>1. OperatorMoves \o <<W("integration", TRUE)>> \in Seq(Early)
    BY ArchivesAreEarly, FileWriteIsEarly, Single, EarlyJoin
  <2> QED
    BY <1>1, <1>3, <2>1, ReworkDoes DEF RepairHarness
<1> QED
  BY <1>2, <1>3 DEF Operator

LEMMA ReadyKeepsCore ==
  ASSUME CoreInv, Ready
  PROVE  CoreInv'
<1>1. /\ pending = <<>> /\ st.stage = "fuzzing" /\ mode \in {"setup", "followup"} /\ AtTop
      /\ UNCHANGED <<route, disk, recovery, crashes, commands, spent, current>>
  BY DEF Ready, AtStage, AtTop, BetweenHandlers, environment, history
<1>2. CASE mode = "setup"
  <2>1. mode' = "run" /\ steps' = 0 /\ UNCHANGED <<pending, raised>>
    BY <1>2 DEF Ready
  <2>2. steps' \in 0..MaxTransitions /\ raised' \in Errors \cup {"return"}
        /\ crashes' \in 0..MaxCrashes /\ commands' \in 0..MaxCommands
    BY <1>1, <2>1, Bounds DEF CoreInv, TypeInv, TypeOK
  <2> QED
    BY <1>1, <2>1, <2>2, NothingHandedKeepsCore
<1>3. CASE mode = "followup"
  <2> DEFINE s == [st EXCEPT !.stage = "complete", !.status = "exhausted"]
  <2>1. pending' = Save(s) /\ raised' = "return" /\ UNCHANGED <<mode, steps>>
    BY <1>3 DEF Ready
  <2>2. st \in LiveStates
    BY <1>1, LiveAtTop DEF CoreInv
  <2>3. s \in State /\ s.status = "exhausted" /\ s.automatic_recoveries = st.automatic_recoveries
        /\ s.harness_generation = st.harness_generation /\ s.quartet_repair = st.quartet_repair
        /\ s.central_improvement = st.central_improvement /\ s.worker_failures = st.worker_failures
    BY <2>2 DEF LiveStates, State, Stages, Statuses, MANUAL_STATUSES
  <2> HIDE DEF s
  <2>4. s \in GoodStates
    BY <2>2, <2>3, Bounds DEF GoodStates, LiveStates, State
  <2>5. EndsWell(s, raised')
    BY <2>1 DEF EndsWell
  <2>6. <<>> \in Seq(Early) /\ Save(s) = <<>> \o Save(s)
    BY SaveConcludes, <2>4, <2>5, ConcatEmptySeq, EmptySeq
  <2>7. disk.summary # "reproduced"
    BY <1>1, NotReproduced DEF CoreInv
  <2>8. raised' \in Errors \cup {"return"} /\ commands' \in 0..MaxCommands
    BY <1>1, <2>1 DEF CoreInv, TypeInv, TypeOK
  <2> QED
    BY <1>1, <1>3, <2>1, <2>4, <2>5, <2>6, <2>7, <2>8, HandedKeepsCore
<1> QED
  BY <1>1, <1>2, <1>3

\* The steps that write nothing.
LEMMA QuietStepsKeepCore ==
  ASSUME CoreInv, Start \/ NeedsAttention \/ GiveUp \/ StopSeen \/ Return \/ Crash
  PROVE  CoreInv'
<1>1. UNCHANGED <<route, disk, spent, current>>
  BY DEF Start, NeedsAttention, GiveUp, StopSeen, Return, Crash, history
<1>2. pending' = <<>>
  BY DEF CoreInv, TypeInv, Start, NeedsAttention, GiveUp, StopSeen, Return, Crash, AtTop, BetweenHandlers
<1>3. recovery' = recovery \/ recovery' \in Seq(Writes)
  BY EmptySeq DEF Start, NeedsAttention, GiveUp, StopSeen, Return, Crash
<1>4. /\ mode' \in {"idle", "setup", "run", "followup", "operator"}
      /\ mode' = "idle" => raised' = None
  BY DEF CoreInv, TypeInv, TypeOK, Start, NeedsAttention, GiveUp, StopSeen, Return, Crash, Leave, BetweenHandlers
<1>5. steps' \in 0..MaxTransitions
  BY Bounds
     DEF CoreInv, TypeInv, TypeOK, Start, NeedsAttention, GiveUp, StopSeen, Return, Crash, Leave
<1>6. raised' \in Errors \cup {"return"}
  BY DEF CoreInv, TypeInv, TypeOK, Start, NeedsAttention, GiveUp, StopSeen, Return, Crash, Leave, Errors, OwnErrors
<1>7. crashes' \in 0..MaxCrashes /\ commands' \in 0..MaxCommands
  BY Bounds
     DEF CoreInv, TypeInv, TypeOK, Start, NeedsAttention, GiveUp, StopSeen, Return, Crash, OperatorDoes, environment
<1> QED
  BY <1>1, <1>2, <1>3, <1>4, <1>5, <1>6, <1>7, NothingHandedKeepsCore
-----------------------------------------------------------------------------
(* The inductive invariant.                                                *)

LEMMA InitGood ==
  ASSUME Init
  PROVE  CoreInv /\ RecoveryInv /\ ~Ended(st)
<1>1. /\ disk.state = NewState("policy_recheck", "queued") /\ disk.quartet = NoReview
      /\ disk.summary = None /\ st = disk.state
  BY DEF Init, st
<1>2. NewState("policy_recheck", "queued") \in GoodStates
  BY StartedAnew, LiveIsGood DEF Stages, Statuses
<1>3. disk \in Disk
  BY <1>1, <1>2, Bounds
     DEF Init, Disk, GoodStates, NoReview, NoRun, NoSession, Absent, Findings
<1>4. disk \in GoodDisks
  BY <1>1, <1>2, <1>3 DEF GoodDisks, Reviews
<1>5. TypeInv
  BY <1>3, <1>4, Bounds, EmptySeq DEF Init, TypeInv, TypeOK, Errors, OwnErrors
<1>6. PendingInv
  BY NothingPending DEF Init, PendingInv
<1>7. ReproducedInv /\ WorkerAlone
  BY <1>1 DEF Init, ReproducedInv, WorkerAlone, None
<1>8. RecoveryInv
  BY EmptySeq DEF Init, RecoveryInv
<1>9. ~Ended(st)
  BY <1>1 DEF NewState, Ended
<1> QED
  BY <1>5, <1>6, <1>7, <1>8, <1>9 DEF CoreInv

LEMMA CoreStep ==
  ASSUME CoreInv, RecoveryInv, [Next]_vars
  PROVE  CoreInv'
<1>1. CASE UNCHANGED vars
  <2>1. /\ UNCHANGED <<route, disk, mode, steps, pending, raised, recovery, crashes, commands, spent, current>>
        /\ UNCHANGED st
    BY <1>1 DEF vars, environment, history, st
  <2> QED
    BY <2>1 DEF CoreInv, TypeInv, TypeOK, PendingInv, ReproducedInv, WorkerAlone
<1>2. CASE Handler
  BY <1>2, HandlerKeepsCore
<1>3. CASE Write
  BY <1>3, WriteDoes
<1>4. CASE Ready
  BY <1>4, ReadyKeepsCore
<1>5. CASE Start \/ NeedsAttention \/ GiveUp \/ StopSeen \/ Return \/ Crash
  BY <1>5, QuietStepsKeepCore
<1>6. CASE RecordWorkerError
  BY <1>6, RecordKeepsCore
<1>7. CASE Recover
  BY <1>7, RecoverDoes
<1>8. CASE MonitorWrite
  BY <1>8, MonitorWriteDoes
<1>9. CASE FollowupHarness
  BY <1>9, FollowupDoes
<1>10. CASE Operator
  BY <1>10, OperatorKeepsCore
<1> QED
  BY <1>1, <1>2, <1>3, <1>4, <1>5, <1>6, <1>7, <1>8, <1>9, <1>10 DEF Next, Worker, Monitor

\* The worker and the operator leave a recovery alone that has begun.
LEMMA RecoveryStep ==
  ASSUME CoreInv, RecoveryInv, [Next]_vars
  PROVE  RecoveryInv'
<1>1. CASE Monitor
  BY <1>1, RecoverDoes, MonitorWriteDoes DEF Monitor
<1>2. CASE /\ recovery \in Seq(AppliedWrites)
           /\ recovery' = recovery \/ recovery' = <<>>
  BY <1>2, EmptySeq DEF RecoveryInv
<1>3. CASE ~Monitor
  <2>1. recovery' = recovery \/ recovery' = <<>>
    <3>1. CASE Handler
      BY <3>1, HandlersDo DEF HandlerStep
    <3>2. CASE ~Handler
      BY <1>3, <3>2
         DEF Next, Worker, Operator, vars, Start, Write, Ready, NeedsAttention, GiveUp, Return,
             RecordWorkerError, FollowupHarness, Retarget, RepairHarness, Rework, StopSeen, Crash
    <3> QED
      BY <3>1, <3>2
  <2>2. CASE recovery \notin Seq(AppliedWrites)
    <3>1. /\ pending = <<>> /\ mode \notin {"followup", "operator"} /\ disk.summary # "reproduced"
          /\ st.status \in MANUAL_STATUSES /\ (Ended(st) => st.status = "unsupported_integration")
          /\ recovery # <<>>
      BY <2>2, EmptySeq DEF RecoveryInv
    <3>2. ~AtTop /\ ~Write /\ ~FollowupHarness /\ ~Operator /\ ~Start
      BY <3>1 DEF AtTop, Write, FollowupHarness, Operator, Retarget, RepairHarness, Rework, Start
    <3>3. ~Handler /\ ~Ready /\ ~StopSeen
      BY <3>2, HandlersAtTop DEF Ready, StopSeen, AtStage
    <3>4. CASE RecordWorkerError
      <4>1. /\ st' = Recorded(st, raised) /\ raised \in Errors /\ disk'.summary = disk.summary
            /\ st \in GoodStates
        BY <3>4, RecordKeepsCore
      <4>2. st'.status \in {"unsupported_integration", "manual_review", "recovery_pending"}
        BY <3>1, <4>1, RecordedIsGood DEF MANUAL_STATUSES
      <4>3. st'.status \in MANUAL_STATUSES /\ (Ended(st') => st'.status = "unsupported_integration")
        BY <4>2 DEF MANUAL_STATUSES, Ended, Closed
      <4>4. pending' = <<>> /\ mode' = "idle" /\ recovery' = recovery
        BY <3>1, <3>4 DEF RecordWorkerError, Leave
      <4> QED
        BY <2>2, <3>1, <4>1, <4>3, <4>4 DEF RecoveryInv
    <3>5. CASE Crash
      BY <3>5, EmptySeq DEF Crash, RecoveryInv
    <3>6. CASE NeedsAttention \/ GiveUp \/ Return \/ UNCHANGED vars
      <4>1. UNCHANGED <<disk, pending, recovery>> /\ (mode' = mode \/ mode' = "idle")
        BY <3>6 DEF NeedsAttention, GiveUp, Return, vars, Leave
      <4>2. st' = st
        BY <4>1 DEF st
      <4> QED
        BY <2>2, <3>1, <4>1, <4>2 DEF RecoveryInv
    <3> QED
      BY <1>3, <3>2, <3>3, <3>4, <3>5, <3>6 DEF Next, Worker
  <2> QED
    BY <1>2, <2>1, <2>2
<1> QED
  BY <1>1, <1>3

-----------------------------------------------------------------------------
(* A job that is over.                                                     *)

\* No call of the worker is cut off by the bound on its transitions.
NotCutOff == MaxTransitions > 0 => TransitionsSuffice

LEMMA EndedIsManual ==
  ASSUME Ended(st)
  PROVE  st.status \in MANUAL_STATUSES /\ st.status \notin Stuck /\ st.stage = "complete" /\ ~AtTop
BY DEF Ended, Closed, MANUAL_STATUSES, Stuck, AtTop

LEMMA SummaryIsAside ==
  ASSUME NEW v \in {"reproduced", "other"}
  PROVE  <<W("summary", v)>> \in Seq(Aside)
<1>1. W("summary", v) \in Aside
  BY DEF W, Aside, Writes, FileWrites
<1> QED
  BY <1>1, Single

LEMMA WriteKeepsEnd ==
  ASSUME CoreInv, EndInv, Write
  PROVE  EndInv'
<1> DEFINE w == Head(pending)
<1>1. /\ pending # <<>> /\ pending' = Tail(pending) /\ disk' = [disk EXCEPT ![w.file] = w.value]
      /\ UNCHANGED <<mode, raised>>
  BY DEF Write
<1>2. disk \in Disk
  BY DEF CoreInv, TypeInv, GoodDisks
<1>3. st' = IF w.file = "state" THEN w.value ELSE st
  BY <1>1, <1>2 DEF st, Disk
<1> HIDE DEF w
<1>4. CASE w.file # "state"
  <2>1. pending \in Seq(Aside) => pending' \in Seq(Aside)
    BY <1>1, HeadTailProperties
  <2> QED
    BY <1>1, <1>3, <1>4, <2>1 DEF EndInv
<1>5. CASE w.file = "state" /\ w \in Early
  <2>1. w.value.stage # "complete"
    BY <1>5 DEF Early, FileWrites, LiveStates
  <2> QED
    BY <1>3, <1>5, <2>1 DEF EndInv, Ended
<1>6. CASE \E s \in GoodStates : EndsWell(s, raised) /\ w = W("state", s) /\ pending' \in Seq(Aside)
  BY <1>1, <1>3, <1>6 DEF EndInv, W
<1>7. w.file # "state" \/ w \in Early \/ \E s \in GoodStates : /\ EndsWell(s, raised) /\ w = W("state", s)
                                                             /\ pending' \in Seq(Aside)
  <2>1. <<>> \in Seq(Aside) /\ W("summary", "reproduced").file # "state"
    BY EmptySeq DEF W
  <2>2. CASE w \in Early
    BY <2>2
  <2>3. CASE \E s \in GoodStates : EndsWell(s, raised) /\ w = W("state", s) /\ pending' = <<>>
    BY <2>1, <2>3
  <2>4. CASE \E s \in GoodStates, v \in {"reproduced", "other"} :
               EndsWell(s, raised) /\ w = W("state", s) /\ pending' = <<W("summary", v)>>
    BY <2>4, SummaryIsAside
  <2> QED
    BY <1>1, <2>1, <2>2, <2>3, <2>4, FirstWrite DEF w
<1> QED
  BY <1>4, <1>5, <1>6, <1>7

LEMMA MonitorKeepsEnd ==
  ASSUME CoreInv, RecoveryInv, EndInv, MonitorWrite
  PROVE  EndInv' /\ (Ended(st) /\ st' # st => st.status = "unsupported_integration")
<1> DEFINE w == Head(recovery)
<1>1. /\ recovery # <<>> /\ disk' = [disk EXCEPT ![w.file] = w.value]
      /\ UNCHANGED <<mode, raised, pending>>
  BY DEF MonitorWrite
<1>2. disk \in Disk
  BY DEF CoreInv, TypeInv, GoodDisks
<1>3. st' = IF w.file = "state" THEN w.value ELSE st
  BY <1>1, <1>2 DEF st, Disk
<1> HIDE DEF w
<1>4. CASE w.file # "state"
  BY <1>1, <1>3, <1>4 DEF EndInv
<1>5. CASE /\ Ended(st) => st.status = "unsupported_integration"
           /\ \E s \in GoodStates : ~Ended(s) /\ w = W("state", s)
  BY <1>3, <1>5 DEF EndInv, W
<1> QED
  BY <1>1, <1>4, <1>5, FirstMonitorWrite DEF w, AppliedWrites, Moves, FileWrites

\* Nothing but a write changes a file.
LEMMA OnlyWritesChangeFiles ==
  ASSUME CoreInv, [Next]_vars, ~Write, ~MonitorWrite, ~RecordWorkerError
  PROVE  disk' = disk
<1>1. CASE Handler
  BY <1>1, HandlersDo DEF HandlerStep
<1>2. CASE ~Handler
  BY <1>2
     DEF Next, Worker, Monitor, Operator, vars, Start, Ready, NeedsAttention, GiveUp, Return, Recover,
         FollowupHarness, Retarget, RepairHarness, Rework, StopSeen, Crash
<1> QED
  BY <1>1, <1>2

LEMMA EndStep ==
  ASSUME CoreInv, RecoveryInv, EndInv, [Next]_vars, NotCutOff'
  PROVE  EndInv'
<1>1. CASE Write
  BY <1>1, WriteKeepsEnd
<1>2. CASE MonitorWrite
  BY <1>2, MonitorKeepsEnd
<1>3. CASE RecordWorkerError
  <2>1. pending' = <<>> /\ raised' = None
    BY <1>3 DEF RecordWorkerError, Leave
  <2> QED
    BY <2>1, EmptySeq DEF EndInv, EndsWell
<1>4. CASE ~Ended(st) /\ st' = st
  BY <1>4 DEF EndInv
<1>5. CASE Ended(st) /\ ~Write /\ ~MonitorWrite /\ ~RecordWorkerError
  <2>1. /\ st.status \in MANUAL_STATUSES /\ st.status \notin Stuck /\ st.stage = "complete" /\ ~AtTop
    BY <1>5, EndedIsManual
  <2>2. ~Handler /\ ~Start /\ ~Ready /\ ~StopSeen /\ ~Recover
    BY <2>1, HandlersAtTop DEF Start, Ready, StopSeen, AtStage, Recover, Eligible, Stuck
  <2>3. ~GiveUp
    BY <2>1 DEF GiveUp, Exhausted, AtStage, NotCutOff, TransitionsSuffice
  <2>4. CASE NeedsAttention \/ Return \/ Crash
    <3>1. disk' = disk /\ raised' = None /\ pending' = <<>>
      BY <2>4 DEF NeedsAttention, Return, Crash, Leave, BetweenHandlers
    <3> QED
      BY <3>1, EmptySeq DEF EndInv, EndsWell
  <2>5. CASE FollowupHarness
    <3>1. disk' = disk /\ raised' = None /\ mode' = "followup" /\ st.status = "exhausted"
      BY <2>5 DEF FollowupHarness, FollowupAvailable, CoreInv, TypeInv
    <3>2. st' = st
      BY <3>1 DEF st
    <3> QED
      BY <3>1, <3>2 DEF EndInv, EndsWell
  <2>6. CASE Operator
    <3>1. disk' = disk /\ raised' = "return" /\ mode' = "operator"
      BY <2>6 DEF Operator, Retarget, RepairHarness, Rework
    <3>2. st' = st
      BY <3>1 DEF st
    <3>3. st.status \in {"exhausted", "unsupported_integration"}
      BY <1>5, <2>6 DEF Operator, Retarget, FreeOfCrashes, RepairHarness, Ended, Closed
    <3> QED
      BY <3>1, <3>2, <3>3 DEF EndInv, EndsWell
  <2>7. CASE UNCHANGED vars
    <3>1. UNCHANGED <<disk, raised, pending, mode>> /\ st' = st
      BY <2>7 DEF vars, st
    <3> QED
      BY <3>1 DEF EndInv
  <2> QED
    BY <1>5, <2>2, <2>3, <2>4, <2>5, <2>6, <2>7 DEF Next, Worker, Monitor
<1>6. CASE ~Write /\ ~MonitorWrite /\ ~RecordWorkerError
  <2>1. disk' = disk
    BY <1>6, OnlyWritesChangeFiles
  <2>2. st' = st
    BY <2>1 DEF st
  <2> QED
    BY <1>4, <1>5, <1>6, <2>2
<1> QED
  BY <1>1, <1>2, <1>3, <1>6
LEMMA EndsAreLasting ==
  ASSUME CoreInv, RecoveryInv, EndInv, [Next]_vars, Ended(st), st' # st
  PROVE  \/ mode = "operator" /\ st.status \in {"exhausted", "unsupported_integration"}
         \/ mode = "followup" /\ st.status = "exhausted"
         \/ recovery # <<>> /\ st.status = "unsupported_integration"
<1>1. CASE Write
  <2> DEFINE w == Head(pending)
  <2>1. pending # <<>> /\ disk' = [disk EXCEPT ![w.file] = w.value]
    BY <1>1 DEF Write
  <2>2. st' = IF w.file = "state" THEN w.value ELSE st
    BY <2>1 DEF st, CoreInv, TypeInv, GoodDisks, Disk
  <2>3. pending \notin Seq(Aside)
    BY <2>1, <2>2, HeadTailProperties DEF Aside
  <2> QED
    BY <2>3 DEF EndInv
<1>2. CASE MonitorWrite
  BY <1>2, MonitorKeepsEnd DEF MonitorWrite
<1>3. CASE RecordWorkerError
  <2>1. raised = "unsupported" /\ st.status = "unsupported_integration" /\ st.last_error = raised
    BY <1>3 DEF RecordWorkerError, EndInv, EndsWell
  <2>2. st \in State /\ st.stage = "complete"
    BY <1>3, RecordKeepsCore DEF GoodStates, Ended
  <2>3. st' = [st EXCEPT !.stage = "complete", !.status = "unsupported_integration", !.last_error = raised]
    BY <1>3, <2>1, RecordKeepsCore DEF Recorded
  <2>4. st' = st
    BY <2>1, <2>2, <2>3 DEF State
  <2> QED
    BY <2>4
<1>4. CASE ~Write /\ ~MonitorWrite /\ ~RecordWorkerError
  BY <1>4, OnlyWritesChangeFiles DEF st
<1> QED
  BY <1>1, <1>2, <1>3, <1>4

\* What is written of a job whose crash was reproduced.
LEMMA ReproducedStays ==
  ASSUME CoreInv, RecoveryInv, [Next]_vars, disk.summary = "reproduced"
  PROVE  /\ UNCHANGED <<disk.summary, disk.crash_files, disk.manifest>>
         /\ st'.stage \in {"validation", "complete"}
<1>1. disk \in Disk /\ st.stage \in {"validation", "complete"} /\ pending \in Seq(Confirming)
  BY DEF CoreInv, TypeInv, GoodDisks, ReproducedInv
<1>2. CASE Write
  <2> DEFINE w == Head(pending)
  <2>1. w \in Confirming /\ disk' = [disk EXCEPT ![w.file] = w.value]
    BY <1>1, <1>2, HeadTailProperties DEF Write
  <2> HIDE DEF w
  <2>2. /\ w.file \in {"report", "state"}
        /\ w.file = "state" => w.value.stage \in {"validation", "complete"}
    BY <2>1 DEF Confirming
  <2> QED
    BY <1>1, <2>1, <2>2 DEF st, Disk
<1>3. CASE MonitorWrite
  <2> DEFINE w == Head(recovery)
  <2>1. recovery # <<>> /\ disk' = [disk EXCEPT ![w.file] = w.value]
    BY <1>3 DEF MonitorWrite
  <2>2. w.file = "applied"
    BY <2>1, FirstMonitorWrite DEF AppliedWrites
  <2> HIDE DEF w
  <2> QED
    BY <1>1, <2>1, <2>2 DEF st, Disk
<1>4. CASE RecordWorkerError
  <2>1. disk' = [disk EXCEPT !.state = Recorded(st, raised)]
    BY <1>4 DEF RecordWorkerError
  <2>2. st' = Recorded(st, raised) /\ Recorded(st, raised).stage \in {st.stage, "complete"}
    BY <1>4, RecordKeepsCore, RecordedIsGood
  <2> QED
    BY <1>1, <2>1, <2>2 DEF Disk
<1>5. CASE ~Write /\ ~MonitorWrite /\ ~RecordWorkerError
  BY <1>1, <1>5, OnlyWritesChangeFiles DEF st
<1> QED
  BY <1>2, <1>3, <1>4, <1>5

-----------------------------------------------------------------------------
(* The theorems.                                                           *)

\* The inductive invariant: what is on the disk, what is still to be written, by the worker
\* and by the monitor.
THEOREM CoreHolds == Spec => [](CoreInv /\ RecoveryInv)
<1>1. Init => CoreInv /\ RecoveryInv
  BY InitGood
<1>2. CoreInv /\ RecoveryInv /\ [Next]_vars => (CoreInv /\ RecoveryInv)'
  BY CoreStep, RecoveryStep
<1> QED
  BY <1>1, <1>2, PTL DEF Spec

\* The files hold what the handlers may write and every counter stays in its bounds,
\* whatever is interrupted, recovered or commanded.
THEOREM TypeCorrect == Spec => []TypeOK
<1>1. CoreInv /\ RecoveryInv => TypeOK
  BY DEF CoreInv, TypeInv
<1> QED
  BY <1>1, CoreHolds, PTL

\* No job is recovered, repaired, generated anew or followed up more often than it may be,
\* over its whole life.
THEOREM AttemptsHold == Spec => []AttemptsBounded
<1>1. CoreInv /\ RecoveryInv => AttemptsBounded
  <2> SUFFICES ASSUME CoreInv PROVE AttemptsBounded
    OBVIOUS
  <2>1. st \in GoodStates
    BY DEF CoreInv, TypeInv, GoodDisks, st
  <2> QED
    BY <2>1 DEF AttemptsBounded, GoodStates
<1> QED
  BY <1>1, CoreHolds, PTL

\* A worker never selects a job that has failed as often as it may.
THEOREM FailuresStop == Spec => []FailuresStopTheJob
<1>1. CoreInv /\ RecoveryInv => FailuresStopTheJob
  <2> SUFFICES ASSUME CoreInv PROVE FailuresStopTheJob
    OBVIOUS
  <2>1. st \in GoodStates
    BY DEF CoreInv, TypeInv, GoodDisks, st
  <2> QED
    BY <2>1 DEF FailuresStopTheJob, GoodStates
<1> QED
  BY <1>1, CoreHolds, PTL

\* A reproduced crash, its summary and its build stay where they are, and the job stays with
\* validation or with people.
THEOREM ReproducedIsKept == Spec => ReproducedKept
<1>1. CoreInv /\ RecoveryInv /\ [Next]_vars
        => [disk.summary = "reproduced" =>
              /\ UNCHANGED <<disk.summary, disk.crash_files, disk.manifest>>
              /\ st'.stage \in {"validation", "complete"}]_vars
  BY ReproducedStays
<1> QED
  BY <1>1, CoreHolds, PTL DEF Spec, ReproducedKept

\* A job that ended for a person or without a finding is only ever taken up again by the
\* operator, by the follow-up harness, or by a recovery that overtook its end.
THEOREM EndsHold == Spec /\ []NotCutOff => EndedStaysEnded
<1>1. Init => EndInv
  BY InitGood DEF EndInv
<1>2. CoreInv /\ RecoveryInv /\ EndInv /\ NotCutOff' /\ [Next]_vars => EndInv'
  BY EndStep
<1>3. CoreInv /\ RecoveryInv /\ EndInv /\ [Next]_vars
        => [/\ st.stage = "complete" /\ st.status \in Closed /\ st' # st =>
                 st.status = "unsupported_integration" /\ (mode = "operator" \/ recovery # <<>>)
            /\ st.stage = "complete" /\ st.status = "exhausted" /\ st' # st =>
                 mode \in {"followup", "operator"}]_vars
  BY EndsAreLasting DEF Ended, Closed
<1> QED
  BY <1>1, <1>2, <1>3, CoreHolds, PTL DEF Spec, EndedStaysEnded
================================================================================
