--------------------------- MODULE JobResultsProofs ----------------------------
(* No result of a campaign is lost, as long as the host does not stop: theorems on *)
(* the files of JobPipeline between two handlers.                                  *)
(*                                                                                 *)
(* The books, the results and the crash files are written at different times of a  *)
(* handler.  They need to agree when all its writes are made, whatever the monitor *)
(* and the operator write in between; a crash would cut a handler short (see the   *)
(* README for what it breaks).                                                     *)
EXTENDS JobTargetsProofs

-----------------------------------------------------------------------------
(* What the files have to say at rest.                                     *)

\* The files that results are kept in.
ResultFiles == {"state", "probe", "run", "progress", "afl", "crash_files", "summary", "report"}

Facts(y) ==
  [state |-> y.disk.state, probe |-> y.disk.probe, run |-> y.disk.run,
   progress |-> y.disk.progress, afl |-> y.disk.afl, crash_files |-> y.disk.crash_files,
   summary |-> y.disk.summary, report |-> y.disk.report, spent |-> y.spent, own |-> y.own]
Known ==
  [state : GoodStates, probe : {None, "clean", "broken"} \cup Findings, run : Runs,
   progress : Progresses, afl : {None, "quiet", "finding", "failed"}, crash_files : BOOLEAN,
   summary : {None, "reproduced", "other"}, report : BOOLEAN, spent : 0..Budget, own : BOOLEAN]

Unstopped == "stop" \notin Commands
BeforeGate == Preparation \cup {"smoke"}
Fuzzed == {"coverage_analysis", "fuzzing"}
Over == {"triage", "validation", "complete"}

\* The campaign had its budget, or is given up for low yield or after a follow-up harness.
Worked(v) ==
  v.progress.completed = Budget \/ v.state.low_yield \/ v.state.central_improvement > 0

\* What Listed and ArtifactThere say, of any files.
ListedIn(v) ==
  \/ v.state.triage_artifact = "probe" /\ v.probe \in Findings
  \/ v.state.triage_artifact \in {"run", None} /\ v.run.result = "finding"
  \/ v.state.triage_artifact = "afl" /\ v.afl = "finding"
ThereIn(v) ==
  \/ v.state.triage_artifact = "probe" /\ v.probe # None
  \/ v.state.triage_artifact \in {"run", None} /\ v.run # NoRun
  \/ v.state.triage_artifact = "afl" /\ v.afl # None

\* A job in triage has crash files to be looked at, or its campaign is over.
TriageRests(v) ==
  v.state.stage = "triage" =>
    /\ ThereIn(v)
    /\ (ListedIn(v) /\ v.crash_files) \/ (v.state.triage_artifact \in {None, "afl"} /\ Worked(v))
    /\ Unstopped /\ v.crash_files => ListedIn(v)

\* The state names the artifact of a triage only from then on, but for that of the AFL++
\* lane, which stays there for good.
ArtifactRests(v) ==
  /\ v.state.stage \notin Over \/ v.state.status = "exhausted" => v.state.triage_artifact \in {None, "afl"}
  /\ v.state.triage_artifact = "afl" => v.afl # None

\* A finding of the probe has its crash file; without a finding there is none.
CrashRests(v) ==
  /\ v.state.stage \in BeforeGate => v.probe = None
  /\ v.state.stage = "quartet_gate" /\ v.probe \in Findings => v.crash_files
  /\ Unstopped => /\ v.state.stage \in Fuzzed \/ v.state.status = "exhausted" => ~v.crash_files
                  /\ v.state.stage = "quartet_gate" /\ v.probe \in {"clean", "broken"} => ~v.crash_files

\* A job whose follow-up harness is at work counts it.
Floor == IF mode = "followup" THEN 1 ELSE 0

\* The files between two handlers.
Rests(v) ==
  /\ v.progress.completed = v.spent /\ v.state.active = NoSession
  /\ v.state.central_improvement >= Floor
  /\ TriageRests(v) /\ ArtifactRests(v) /\ CrashRests(v)
  /\ v.state.stage = "validation" => v.summary = "reproduced" \/ v.report
  /\ v.state.status = "exhausted" => Worked(v)

\* The files at any time: an exhausted job, unless the operator is moving its files away.
Open(v) ==
  v.state.status = "exhausted" => (v.own \/ Worked(v)) /\ (Unstopped => ~v.crash_files)

Opened == {y \in Snapshots : Open(Facts(y))}
Rested == {y \in Opened : Rests(Facts(y))}
PendingRests == From(pending, Snapshot) \in Safe(Opened, Rested)

LEMMA FactsKnown ==
  ASSUME NEW y \in Snapshots
  PROVE  Facts(y) \in Known
BY DEF Facts, Known, Snapshots, GoodDisks, Disk, Runs, Progresses

\* What a write makes of them.
Effect(v, w) ==
  LET new(f) == IF w.file = f THEN w.value ELSE v[f]
  IN  [state |-> new("state"), probe |-> new("probe"), run |-> new("run"),
       progress |-> new("progress"), afl |-> new("afl"), crash_files |-> new("crash_files"),
       summary |-> new("summary"), report |-> new("report"),
       spent |-> IF w.file = "progress" /\ (v.own \/ w.value.completed > v.spent)
                 THEN w.value.completed ELSE v.spent,
       own |-> v.own]

LEMMA FactsStore ==
  ASSUME NEW y \in Snapshots, NEW w \in Writes
  PROVE  Store(y, w) \in Snapshots /\ Facts(Store(y, w)) = Effect(Facts(y), w)
<1> DEFINE z == Store(y, w)
<1>1. /\ z \in Snapshots /\ z.own = y.own
      /\ z.disk.state = IF w.file = "state" THEN w.value ELSE y.disk.state
      /\ z.disk.probe = IF w.file = "probe" THEN w.value ELSE y.disk.probe
      /\ z.disk.run = IF w.file = "run" THEN w.value ELSE y.disk.run
      /\ z.disk.progress = IF w.file = "progress" THEN w.value ELSE y.disk.progress
      /\ z.disk.afl = IF w.file = "afl" THEN w.value ELSE y.disk.afl
      /\ z.disk.crash_files = IF w.file = "crash_files" THEN w.value ELSE y.disk.crash_files
      /\ z.disk.summary = IF w.file = "summary" THEN w.value ELSE y.disk.summary
      /\ z.disk.report = IF w.file = "report" THEN w.value ELSE y.disk.report
  BY StoreReads
<1>2. z.spent = IF w.file = "progress" /\ (y.own \/ w.value.completed > y.spent)
                THEN w.value.completed ELSE y.spent
  BY DEF Store
<1> HIDE DEF z
<1>3. Facts(z) = Effect(Facts(y), w)
  BY <1>1, <1>2 DEF Facts, Effect
<1> QED
  BY <1>1, <1>3 DEF z

\* A write of one file.
LEMMA EffectOf ==
  ASSUME NEW v \in Known, NEW w
  PROVE  /\ w.file \notin ResultFiles => Effect(v, w) = v
         /\ w.file \in ResultFiles \ {"progress"} => Effect(v, w) = [v EXCEPT ![w.file] = w.value]
         /\ w.file = "progress" =>
              Effect(v, w) = [v EXCEPT !.progress = w.value,
                                       !.spent = IF v.own \/ w.value.completed > v.spent
                                                 THEN w.value.completed ELSE v.spent]
<1>1. ASSUME w.file \notin ResultFiles
      PROVE  Effect(v, w) = v
  BY <1>1 DEF Effect, Known, ResultFiles
<1>2. ASSUME w.file = "progress"
      PROVE  Effect(v, w) = [v EXCEPT !.progress = w.value,
                                      !.spent = IF v.own \/ w.value.completed > v.spent
                                                THEN w.value.completed ELSE v.spent]
  <2> DEFINE n == IF v.own \/ w.value.completed > v.spent THEN w.value.completed ELSE v.spent
             z == [state |-> v.state, probe |-> v.probe, run |-> v.run, progress |-> w.value,
                   afl |-> v.afl, crash_files |-> v.crash_files, summary |-> v.summary,
                   report |-> v.report, spent |-> n, own |-> v.own]
  <2>1. Effect(v, w) = z
    BY <1>2 DEF Effect
  <2> HIDE DEF n
  <2> DEFINE u == [v EXCEPT !.progress = w.value]
  <2>2. u = [state |-> v.state, probe |-> v.probe, run |-> v.run, progress |-> w.value,
             afl |-> v.afl, crash_files |-> v.crash_files, summary |-> v.summary,
             report |-> v.report, spent |-> v.spent, own |-> v.own]
    BY DEF Known
  <2>3. [v EXCEPT !.progress = w.value, !.spent = n] = [u EXCEPT !.spent = n]
    OBVIOUS
  <2> HIDE DEF u
  <2>4. [u EXCEPT !.spent = n] = z
    BY <2>2
  <2> QED
    BY <2>1, <2>3, <2>4 DEF n
<1>3. w.file = "state" => Effect(v, w) = [v EXCEPT !.state = w.value]
  BY DEF Effect, Known
<1>4. w.file = "probe" => Effect(v, w) = [v EXCEPT !.probe = w.value]
  BY DEF Effect, Known
<1>5. w.file = "run" => Effect(v, w) = [v EXCEPT !.run = w.value]
  BY DEF Effect, Known
<1>6. w.file = "afl" => Effect(v, w) = [v EXCEPT !.afl = w.value]
  BY DEF Effect, Known
<1>7. w.file = "crash_files" => Effect(v, w) = [v EXCEPT !.crash_files = w.value]
  BY DEF Effect, Known
<1>8. w.file = "summary" => Effect(v, w) = [v EXCEPT !.summary = w.value]
  BY DEF Effect, Known
<1>9. w.file = "report" => Effect(v, w) = [v EXCEPT !.report = w.value]
  BY DEF Effect, Known
<1> QED
  BY <1>1, <1>2, <1>3, <1>4, <1>5, <1>6, <1>7, <1>8, <1>9 DEF ResultFiles

\* The snapshots with these files.
Of(v) == {y \in Snapshots : Facts(y) = v}

\* Writes that lead to these files.
Gets(ws, x, v) == /\ ws \in Seq(Writes) /\ v \in Known /\ Open(v)
                  /\ Reaches(Opened, Rested, ws, x, Of(v))

LEMMA GetsNone ==
  ASSUME NEW x \in Opened
  PROVE  Gets(<<>>, x, Facts(x))
<1>1. x \in Snapshots /\ Open(Facts(x)) /\ x \in Of(Facts(x))
  BY DEF Opened, Of
<1> QED
  BY <1>1, FactsKnown, ReachNone DEF Gets

LEMMA EffectKnown ==
  ASSUME NEW v \in Known, NEW w \in Writes
  PROVE  Effect(v, w) \in Known
<1>1. /\ w.file = "state" => w.value \in GoodStates
      /\ w.file = "probe" => w.value \in {None, "clean", "broken"} \cup Findings
      /\ w.file = "run" => w.value \in Runs
      /\ w.file = "progress" => w.value \in Progresses /\ w.value.completed \in 0..Budget
      /\ w.file = "afl" => w.value \in {None, "quiet", "finding", "failed"}
      /\ w.file = "crash_files" => w.value \in BOOLEAN
      /\ w.file = "summary" => w.value \in {None, "reproduced", "other"}
      /\ w.file = "report" => w.value \in BOOLEAN
  BY DEF Writes, FileWrites, Progresses
<1> QED
  BY <1>1 DEF Effect, Known

LEMMA GetsWrite ==
  ASSUME NEW ws, NEW x, NEW v, Gets(ws, x, v), NEW w \in Writes, Open(Effect(v, w))
  PROVE  Gets(ws \o <<w>>, x, Effect(v, w))
<1> DEFINE z == Effect(v, w)
<1>1. z \in Known /\ Open(z)
  BY EffectKnown DEF Gets
<1>2. ASSUME NEW y \in Of(v)
      PROVE  y \in Snapshots /\ y \in Opened /\ Store(y, w) \in Of(z)
  BY FactsStore DEF Of, Opened, Gets
<1> HIDE DEF z
<1>3. \A y \in Of(v) : Reaches(Opened, Rested, <<w>>, y, Of(z))
  BY <1>2, ReachOne
<1>4. <<w>> \in Seq(Writes)
  BY Single
<1>5. Reaches(Opened, Rested, ws \o <<w>>, x, Of(z)) /\ ws \o <<w>> \in Seq(Writes)
  BY <1>3, <1>4, ReachOn DEF Gets
<1> QED
  BY <1>1, <1>5 DEF Gets, z

\* The other files make no difference.
Idle == {w \in Writes : w.file \notin ResultFiles}

LEMMA GetsIdle ==
  ASSUME NEW ws, NEW x, NEW v, Gets(ws, x, v), NEW u \in Seq(Idle)
  PROVE  Gets(ws \o u, x, v)
<1> DEFINE X == Of(v)
<1>1. X \in SUBSET Snapshots /\ X \subseteq Opened /\ Idle \in SUBSET Writes
  BY DEF Of, Opened, Gets, Idle
<1>2. ASSUME NEW y \in X, NEW w \in Idle
      PROVE  Store(y, w) \in X
  <2>1. y \in Snapshots /\ Facts(y) = v /\ v \in Known /\ w \in Writes /\ w.file \notin ResultFiles
    BY DEF Of, Idle, Gets
  <2>2. Effect(v, w) = v
    BY <2>1, EffectOf
  <2> QED
    BY <2>1, <2>2, FactsStore DEF Of
<1> HIDE DEF X
<1>3. u \in Seq(Writes) /\ \A y \in X : Reaches(Opened, Rested, u, y, X)
  <2>1. \A t \in Seq(Idle), y \in X : t \in Seq(Writes) /\ Reaches(Opened, Rested, t, y, X)
    BY <1>1, <1>2, ReachStays
  <2>2. u \in Seq(Writes)
    BY <1>1, SeqMonotonic
  <2> QED
    BY <2>1, <2>2
<1>4. Reaches(Opened, Rested, ws \o u, x, X) /\ ws \o u \in Seq(Writes)
  BY <1>3, ReachOn DEF Gets, X
<1> QED
  BY <1>4 DEF Gets, X

\* Writes that lead to files at rest may be made.
LEMMA GetsRest ==
  ASSUME NEW ws, NEW x, NEW v, Gets(ws, x, v), Rests(v)
  PROVE  From(ws, x) \in Safe(Opened, Rested)
<1> DEFINE X == Of(v)
<1>1. X \in SUBSET Snapshots /\ X \subseteq Opened /\ X \subseteq Rested
  BY DEF Of, Opened, Rested, Gets
<1>2. ws \in Seq(Writes) /\ Reaches(Opened, Rested, ws, x, X)
  BY DEF Gets
<1> HIDE DEF X
<1> QED
  BY <1>1, <1>2, ReachSafe

\* One file after another.
LEMMA GetsFile ==
  ASSUME NEW ws, NEW x, NEW v, Gets(ws, x, v), NEW f \in ResultFiles \ {"state", "progress"},
         NEW value, W(f, value) \in Writes,
         v.state.status # "exhausted" \/ f # "crash_files" \/ value = FALSE
  PROVE  Gets(ws \o <<W(f, value)>>, x, [v EXCEPT ![f] = value])
<1> DEFINE w == W(f, value)
           z == [v EXCEPT ![f] = value]
<1>1. w.file = f /\ w.value = value /\ w \in Writes /\ v \in Known /\ Open(v)
  BY DEF W, Gets
<1> HIDE DEF w
<1>2. Effect(v, w) = z
  BY <1>1, EffectOf
<1>3. z.state = v.state /\ z.progress = v.progress /\ z.own = v.own
      /\ (z.crash_files = v.crash_files \/ (f = "crash_files" /\ z.crash_files = value))
  BY <1>1 DEF Known, ResultFiles
<1>4. Open(z)
  BY <1>1, <1>3 DEF Open, Worked
<1> HIDE DEF z
<1>5. Gets(ws \o <<w>>, x, z)
  BY <1>1, <1>2, <1>4, GetsWrite
<1> QED
  BY <1>5 DEF w, z

LEMMA GetsState ==
  ASSUME NEW ws, NEW x, NEW v, Gets(ws, x, v), NEW s \in GoodStates,
         s.status = "exhausted" => Open([v EXCEPT !.state = s])
  PROVE  Gets(ws \o Save(s), x, [v EXCEPT !.state = s])
<1> DEFINE w == W("state", s)
           z == [v EXCEPT !.state = s]
<1>1. w.file = "state" /\ w.value = s /\ w \in Writes /\ v \in Known
  BY DEF W, Writes, Gets
<1> HIDE DEF w
<1>2. Effect(v, w) = z
  <2>1. Effect(v, w) = [v EXCEPT ![w.file] = w.value]
    BY <1>1, EffectOf DEF ResultFiles
  <2> QED
    BY <1>1, <2>1
<1>3. z.state = s
  BY <1>1 DEF Known
<1>4. Open(z)
  BY <1>3 DEF Open
<1> HIDE DEF z
<1>5. Gets(ws \o <<w>>, x, z)
  BY <1>1, <1>2, <1>4, GetsWrite
<1> QED
  BY <1>5 DEF Save, w, z

LEMMA GetsTime ==
  ASSUME NEW ws, NEW x, NEW v, Gets(ws, x, v), NEW p \in Progresses,
         v.state.status # "exhausted" \/ v.own
  PROVE  Gets(ws \o <<W("progress", p)>>, x,
              [v EXCEPT !.progress = p,
                        !.spent = IF v.own \/ p.completed > v.spent THEN p.completed ELSE v.spent])
<1> DEFINE w == W("progress", p)
           n == IF v.own \/ p.completed > v.spent THEN p.completed ELSE v.spent
           z == [v EXCEPT !.progress = p, !.spent = n]
<1>1. w.file = "progress" /\ w.value = p /\ w \in Writes /\ v \in Known /\ Open(v)
  BY FileWriteIsEarly, EarlyIsWrites DEF W, Gets
<1> HIDE DEF w
<1>2. Effect(v, w) = z
  <2>1. w.file = "progress" =>
              Effect(v, w) = [v EXCEPT !.progress = w.value,
                                       !.spent = IF v.own \/ w.value.completed > v.spent
                                                 THEN w.value.completed ELSE v.spent]
    BY <1>1, EffectOf
  <2> QED
    BY <1>1, <2>1
<1> HIDE DEF n
<1>3. z.state = v.state /\ z.own = v.own /\ z.crash_files = v.crash_files
  BY <1>1 DEF Known
<1>4. Open(z)
  BY <1>1, <1>3 DEF Open
<1> HIDE DEF z
<1>5. Gets(ws \o <<w>>, x, z)
  BY <1>1, <1>2, <1>4, GetsWrite
<1> QED
  BY <1>5 DEF w, z, n

\* Moving a result away that is as it was.
LEMMA GetsMoved ==
  ASSUME NEW ws, NEW x, NEW v, Gets(ws, x, v),
         NEW f \in {"probe", "run", "afl", "crash_files", "summary"}, v[f] = disk[f]
  PROVE  Gets(ws \o Moved(f), x, [v EXCEPT ![f] = Absent[f]])
<1>1. f \in DOMAIN Absent /\ f \in ResultFiles \ {"state", "progress"}
  BY DEF Absent, ResultFiles
<1>2. W(f, Absent[f]) \in Writes
  BY <1>1, MovedWrite
<1>3. CASE disk[f] = Absent[f]
  <2>1. Moved(f) = <<>>
    BY <1>3 DEF Moved
  <2>2. [v EXCEPT ![f] = Absent[f]] = v
    BY <1>3 DEF Gets, Known
  <2>3. ws \o Moved(f) = ws
    BY <2>1, ConcatEmptySeq DEF Gets
  <2> QED
    BY <2>2, <2>3
<1>4. CASE disk[f] # Absent[f]
  <2>1. Moved(f) = <<W(f, Absent[f])>>
    BY <1>4 DEF Moved
  <2>2. f # "crash_files" \/ Absent[f] = FALSE
    BY DEF Absent
  <2>3. Gets(ws \o <<W(f, Absent[f])>>, x, [v EXCEPT ![f] = Absent[f]])
    BY <1>1, <1>2, <2>2, GetsFile
  <2> QED
    BY <2>1, <2>3
<1> QED
  BY <1>3, <1>4

-----------------------------------------------------------------------------
(* Handlers that leave the results alone.                                  *)

Now == Facts(Snapshot)

LEMMA RestNow ==
  ASSUME CoreInv, PendingRests, pending = <<>>
  PROVE  /\ Snapshot \in Rested /\ Snapshot \in Opened /\ Snapshot \in Snapshots
         /\ Gets(<<>>, Snapshot, Now) /\ Now \in Known /\ Rests(Now) /\ Open(Now)
<1>1. Snapshot \in Rested /\ Snapshot \in Opened /\ Snapshot \in Snapshots
  BY SafeNow DEF PendingRests
<1>2. Rests(Now) /\ Open(Now)
  BY <1>1 DEF Rested, Opened, Now
<1>3. Gets(<<>>, Snapshot, Now) /\ Now \in Known
  BY <1>1, GetsNone, FactsKnown DEF Now
<1> QED
  BY <1>1, <1>2, <1>3

LEMMA NowReads ==
  /\ Now.state = st /\ Now.state = disk.state /\ Now.probe = disk.probe /\ Now.run = disk.run
  /\ Now.progress = disk.progress /\ Now.afl = disk.afl /\ Now.crash_files = disk.crash_files
  /\ Now.summary = disk.summary /\ Now.report = disk.report /\ Now.spent = spent
  /\ Now.own = (mode = "operator")
BY DEF Now, Facts, Snapshot, st

LEMMA RestedStays ==
  ASSUME Floor' = Floor
  PROVE  Rested' = Rested
BY DEF Rested, Rests

LEMMA DoRests ==
  ASSUME NEW ws, NEW e, From(ws, Snapshot) \in Safe(Opened, Rested), Do(ws, e) \/ Interrupted(ws)
  PROVE  PendingRests'
<1>1. pending' = ws /\ Snapshot' = Snapshot /\ mode' = mode
  BY DEF Do, Interrupted, Snapshot, history
<1>2. Rested' = Rested
  BY <1>1, RestedStays DEF Floor
<1> QED
  BY <1>1, <1>2 DEF PendingRests

LEMMA DoGets ==
  ASSUME NEW ws, NEW v, Gets(ws, Snapshot, v), Rests(v), NEW e, Do(ws, e) \/ Interrupted(ws)
  PROVE  PendingRests'
BY GetsRest, DoRests

\* States with the same results.
Alike(s) ==
  {t \in GoodStates : /\ t.active = s.active /\ t.triage_artifact = s.triage_artifact
                      /\ t.low_yield = s.low_yield /\ t.central_improvement = s.central_improvement}

\* A job may go on from state s to t without any new result.
Steadily(s, t) ==
  /\ t \in Alike(s) /\ t.status # "exhausted"
  /\ t.stage \in {"triage", "validation"} \cup Fuzzed => s.stage = t.stage \/ {s.stage, t.stage} \subseteq Fuzzed
  /\ t.stage = "quartet_gate" => s.stage \in BeforeGate \cup {"quartet_gate"}
  /\ t.stage \in BeforeGate => s.stage \in BeforeGate
  /\ t.stage \notin Over => s.stage \notin Over
Steady(s) == {t \in GoodStates : Steadily(s, t)}

LEMMA SteadyRests ==
  ASSUME NEW v \in Known, Rests(v), NEW t, Steadily(v.state, t)
  PROVE  /\ Rests([v EXCEPT !.state = t]) /\ Open([v EXCEPT !.state = t])
         /\ [v EXCEPT !.state = t] \in Known
<1> DEFINE z == [v EXCEPT !.state = t]
<1>1. /\ z.state = t /\ z.probe = v.probe /\ z.run = v.run /\ z.progress = v.progress
      /\ z.afl = v.afl /\ z.crash_files = v.crash_files /\ z.summary = v.summary
      /\ z.report = v.report /\ z.spent = v.spent /\ z.own = v.own
  BY DEF Known
<1>2. z \in Known
  BY DEF Known, Steadily, Alike
<1> HIDE DEF z
<1>3. TriageRests(z)
  BY <1>1 DEF TriageRests, Rests, Steadily, Alike, Worked, ListedIn, ThereIn, Fuzzed
<1>4. ArtifactRests(z)
  BY <1>1 DEF ArtifactRests, Rests, Steadily, Alike
<1>5. CrashRests(z)
  <2>1. CrashRests(v) /\ t.status # "exhausted"
    BY DEF Rests, Steadily
  <2>2. t.stage \in Fuzzed => v.state.stage \in Fuzzed
    BY DEF Steadily, Fuzzed
  <2>3. t.stage = "quartet_gate" => v.state.stage = "quartet_gate" \/ v.probe = None
    BY <2>1 DEF Steadily, CrashRests
  <2>4. t.stage \in BeforeGate => v.probe = None
    BY <2>1 DEF Steadily, CrashRests
  <2>5. None \notin Findings \cup {"clean", "broken"}
    BY DEF None, Findings
  <2> QED
    BY <1>1, <2>1, <2>2, <2>3, <2>4, <2>5 DEF CrashRests
<1>6. Rests(z)
  BY <1>1, <1>3, <1>4, <1>5 DEF Rests, Steadily, Alike, Fuzzed
<1>7. Open(z)
  BY <1>1 DEF Open, Steadily
<1> QED
  BY <1>2, <1>6, <1>7 DEF z

\* Writes of such states, and of files without results.
Plain(s) == Idle \cup {w \in Writes : w.file = "state" /\ Steadily(s, w.value)}

LEMMA PlainRests ==
  ASSUME CoreInv, PendingRests, pending = <<>>, NEW ws \in Seq(Plain(st))
  PROVE  From(ws, Snapshot) \in Safe(Opened, Rested)
<1> DEFINE X == Of(Now) \cup {y \in Snapshots : Steadily(st, y.disk.state)
                                  /\ Facts(y) = [Now EXCEPT !.state = y.disk.state]}
           Q == Plain(st)
<1>1. Now \in Known /\ Rests(Now) /\ Open(Now) /\ Now.state = st
  BY RestNow, NowReads
<1>2. Snapshot \in X
  BY RestNow DEF Of, Now
<1>3. X \in SUBSET Snapshots /\ X \subseteq Opened /\ X \subseteq Rested
  <2>1. ASSUME NEW y \in Of(Now)
        PROVE  y \in Snapshots /\ y \in Opened /\ y \in Rested
    BY <1>1 DEF Of, Opened, Rested
  <2>2. ASSUME NEW y \in Snapshots, Steadily(st, y.disk.state),
               Facts(y) = [Now EXCEPT !.state = y.disk.state]
        PROVE  y \in Opened /\ y \in Rested
    BY <1>1, <2>2, SteadyRests DEF Opened, Rested
  <2> QED
    BY <2>1, <2>2
<1>4. ASSUME NEW y \in X, NEW w \in Q
      PROVE  Store(y, w) \in X
  <2> DEFINE z == Store(y, w)
  <2>1. y \in Snapshots /\ w \in Writes
    BY DEF Of, Plain, Idle
  <2>2. z \in Snapshots /\ Facts(z) = Effect(Facts(y), w) /\ Facts(y) \in Known
        /\ z.disk.state = (IF w.file = "state" THEN w.value ELSE y.disk.state)
    BY <2>1, FactsStore, FactsKnown, StoreReads
  <2> HIDE DEF z
  <2>3. CASE w.file \notin ResultFiles
    <3>1. Facts(z) = Facts(y) /\ z.disk.state = y.disk.state
      BY <2>2, <2>3, EffectOf DEF ResultFiles
    <3>2. z \in X
      BY <2>2, <3>1 DEF Of
    <3> QED
      BY <3>2 DEF z
  <2>4. CASE w.file = "state" /\ Steadily(st, w.value)
    <3>1. Facts(z) = [Facts(y) EXCEPT ![w.file] = w.value]
      BY <2>2, <2>4, EffectOf DEF ResultFiles
    <3>2. Facts(z) = [Facts(y) EXCEPT !.state = w.value]
      BY <2>4, <3>1
    <3>3. Facts(y) = Now \/ Facts(y) = [Now EXCEPT !.state = y.disk.state]
      BY DEF Of
    <3>4. Facts(z) = [Now EXCEPT !.state = w.value]
      BY <1>1, <3>2, <3>3 DEF Known
    <3>5. z \in X
      BY <2>2, <2>4, <3>4
    <3> QED
      BY <3>5 DEF z
  <2> QED
    BY <2>3, <2>4 DEF Plain, Idle
<1>5. Q \in SUBSET Writes
  BY DEF Plain, Idle
<1> HIDE DEF X, Q
<1>6. ws \in Seq(Writes) /\ Reaches(Opened, Rested, ws, Snapshot, X)
  <2>1. \A u \in Seq(Q), y \in X : u \in Seq(Writes) /\ Reaches(Opened, Rested, u, y, X)
    BY <1>3, <1>4, <1>5, ReachStays
  <2> QED
    BY <1>2, <2>1 DEF Q
<1> QED
  BY <1>3, <1>6, ReachSafe

LEMMA DoPlain ==
  ASSUME CoreInv, PendingRests, pending = <<>>, NEW ws \in Seq(Plain(st)), NEW e, Do(ws, e) \/ Interrupted(ws)
  PROVE  PendingRests'
BY PlainRests, DoRests

LEMMA NothingRests ==
  ASSUME CoreInv, PendingRests, pending = <<>>, NEW e, Do(<<>>, e) \/ Interrupted(<<>>)
  PROVE  PendingRests'
BY EmptySeq, DoPlain

LEMMA TopRests ==
  ASSUME CoreInv, PendingRests, AtTop
  PROVE  /\ pending = <<>> /\ st.status # "exhausted" /\ st \in GoodStates /\ st \in State
         /\ st.active = NoSession /\ st \in Alike(st) /\ st.central_improvement >= Floor
         /\ st.stage # "complete" => st \in LiveStates
         /\ disk \in Disk /\ disk.progress \in Progresses /\ disk.progress.completed = spent
<1>1. pending = <<>> /\ st.status # "exhausted"
  BY DEF AtTop, BetweenHandlers, MANUAL_STATUSES
<1>2. st \in GoodStates /\ st \in State /\ disk \in Disk
  BY DEF CoreInv, TypeInv, TypeOK, GoodDisks, Disk, st
<1>3. Rests(Now) /\ Now.state = st /\ Now.progress = disk.progress /\ Now.spent = spent
  BY <1>1, RestNow, NowReads
<1>4. st.stage # "complete" => st \in LiveStates
  BY LiveAtTop DEF CoreInv
<1>5. disk.progress \in Progresses
  BY <1>2 DEF Disk, Progresses
<1> QED
  BY <1>1, <1>2, <1>3, <1>4, <1>5 DEF Rests, Alike

LEMMA AlikeMoves ==
  ASSUME NEW r, NEW s \in LiveStates, s \in Alike(r)
  PROVE  /\ \A stage \in Stages, status \in Statuses : status # "quartet_repair_pending" =>
              /\ To(s, stage, status) \in Alike(r)
              /\ To(s, stage, status).stage = stage /\ To(s, stage, status).status = status
         /\ \A status \in Statuses, e \in Errors : status # "quartet_repair_pending" =>
              /\ Flag(s, status, e) \in Alike(r) /\ Flag(s, status, e) \in LiveStates
              /\ Flag(s, status, e).stage = s.stage /\ Flag(s, status, e).status = status
<1>1. ASSUME NEW stage \in Stages, NEW status \in Statuses, status # "quartet_repair_pending"
      PROVE  /\ To(s, stage, status) \in Alike(r)
             /\ To(s, stage, status).stage = stage /\ To(s, stage, status).status = status
  <2>1. /\ To(s, stage, status) \in GoodStates
        /\ To(s, stage, status).stage = stage /\ To(s, stage, status).status = status
    BY <1>1, MovesOn
  <2> QED
    BY <2>1 DEF To, Alike, GoodStates, State
<1>2. ASSUME NEW status \in Statuses, NEW e \in Errors, status # "quartet_repair_pending"
      PROVE  /\ Flag(s, status, e) \in Alike(r) /\ Flag(s, status, e) \in LiveStates
             /\ Flag(s, status, e).stage = s.stage /\ Flag(s, status, e).status = status
  <2>1. /\ Flag(s, status, e) \in LiveStates /\ Flag(s, status, e) \in GoodStates
        /\ Flag(s, status, e).stage = s.stage /\ Flag(s, status, e).status = status
    BY <1>2, Flagged, LiveIsGood
  <2> QED
    BY <2>1 DEF Flag, Alike, GoodStates, State
<1> QED
  BY <1>1, <1>2

LEMMA PlainState ==
  ASSUME NEW r, NEW s, Steadily(r, s)
  PROVE  W("state", s) \in Plain(r) /\ Save(s) \in Seq(Plain(r)) /\ s \in GoodStates
<1>1. s \in GoodStates
  BY DEF Steadily, Alike
<1>2. W("state", s) \in Writes /\ W("state", s).file = "state" /\ W("state", s).value = s
  BY <1>1 DEF W, Writes
<1>3. W("state", s) \in Plain(r)
  BY <1>2 DEF Plain
<1> QED
  BY <1>1, <1>3, Single DEF Save

LEMMA IdleFiles ==
  /\ \A v \in SUBSET Targets : W("rewritten", v) \in Idle
  /\ \A v \in Targets \cup {None} : W("manifest", v) \in Idle /\ W("smoke", v) \in Idle
  /\ \A v \in BOOLEAN : W("integration", v) \in Idle
  /\ \A v \in Reviews : W("quartet", v) \in Idle
  /\ \A v \in {None, "ready", "work"} : W("plan", v) \in Idle
<1>1. ASSUME NEW f \in {"rewritten", "manifest", "smoke", "integration", "quartet", "plan"},
             NEW v, W(f, v) \in Early
      PROVE  W(f, v) \in Idle
  <2>1. W(f, v) \in Writes /\ W(f, v).file = f
    BY <1>1, EarlyIsWrites DEF W
  <2> QED
    BY <2>1 DEF Idle, ResultFiles
<1> QED
  BY <1>1, FileWriteIsEarly

LEMMA IdleIsPlain ==
  ASSUME NEW r
  PROVE  Seq(Idle) \subseteq Seq(Plain(r)) /\ Idle \subseteq Plain(r)
<1>1. Idle \subseteq Plain(r)
  BY DEF Plain
<1> QED
  BY <1>1, SeqMonotonic

LEMMA PrepareRests ==
  ASSUME CoreInv, PendingRests, Prepare
  PROVE  PendingRests'
<1> USE DEF CoreInv
<1>1. PICK from \in 1..3, to \in 1..4 :
        /\ STAGE_ORDER[from] = st.stage /\ from <= to
        /\ LET done == [k \in 1..(to - from) |-> W("state", Prepared(st, from + k))]
               last == IF to = from THEN st ELSE Prepared(st, to)
           IN \/ to = 4 /\ Do(done, None)
              \/ \E e \in (IF to = 1 THEN PolicyErrors ELSE ToolErrors) :
                   to < 4 /\ Do(done \o Save(Flag(last, "failed", e)), e)
              \/ to \in {2, 3} /\ Interrupted(done \o Save(Flag(last, "failed", "stopped")))
  BY DEF Prepare
<1> DEFINE done == [k \in 1..(to - from) |-> W("state", Prepared(st, from + k))]
           last == IF to = from THEN st ELSE Prepared(st, to)
           Q == Plain(st)
<1>2. st.stage \in {"policy_recheck", "source_checkout", "tool_sync"}
  BY <1>1 DEF STAGE_ORDER
<1>3. st \in LiveStates /\ st \in Alike(st) /\ st.stage \in Preparation /\ pending = <<>>
  BY <1>2, TopRests DEF Prepare, Preparation
<1>4. ASSUME NEW s \in Alike(st), s.stage \in Preparation, s.status # "exhausted"
      PROVE  W("state", s) \in Q /\ Save(s) \in Seq(Q)
  <2>1. Steadily(st, s)
    BY <1>2, <1>4 DEF Steadily, Preparation, BeforeGate, Fuzzed, Over
  <2> QED
    BY <2>1, PlainState
<1> HIDE DEF Q
<1>5. ASSUME NEW k \in 1..4
      PROVE  /\ Prepared(st, k) \in LiveStates /\ Prepared(st, k) \in Alike(st)
             /\ Prepared(st, k).stage \in Preparation /\ Prepared(st, k).status # "exhausted"
  <2>1. STAGE_ORDER[k] \in {"policy_recheck", "source_checkout", "tool_sync", "integration"}
    BY DEF STAGE_ORDER
  <2>2. STAGE_ORDER[k] \in Stages \ {"complete"} /\ {"prepared", "preparing"} \subseteq Statuses
    BY <2>1 DEF Stages, Statuses, RECOVERY_STAGE_STATUS, RECOVERABLE_FAILURE_STAGES
  <2> QED
    BY <1>3, <2>1, <2>2, MovesOn, AlikeMoves DEF Prepared, Preparation
<1>6. done \in Seq(Q)
  <2>1. to - from \in Nat
    BY <1>1
  <2>2. ASSUME NEW k \in 1..(to - from)
        PROVE  W("state", Prepared(st, from + k)) \in Q
    <3>1. from + k \in 1..4
      BY <2>1
    <3> QED
      BY <3>1, <1>4, <1>5
  <2> QED
    BY <2>1, <2>2
<1>7. last \in LiveStates /\ last \in Alike(st) /\ last.stage \in Preparation
  BY <1>3, <1>5
<1> HIDE DEF done, last
<1>8. ASSUME NEW e \in Errors
      PROVE  done \o Save(Flag(last, "failed", e)) \in Seq(Q)
  <2>1. "failed" \in Statuses /\ "failed" # "quartet_repair_pending"
    BY DEF Statuses
  <2>2. /\ Flag(last, "failed", e) \in Alike(st) /\ Flag(last, "failed", e).stage \in Preparation
        /\ Flag(last, "failed", e).status = "failed"
    BY <1>7, <2>1, AlikeMoves
  <2>3. Save(Flag(last, "failed", e)) \in Seq(Q)
    BY <1>4, <2>2
  <2> QED
    BY <1>6, <2>3, ConcatProperties
<1>9. None \in Errors /\ "stopped" \in Errors
  BY DEF Errors, OwnErrors
<1>10. CASE to = 4 /\ Do(done, None)
  BY <1>3, <1>6, <1>10, DoPlain DEF Q
<1>11. CASE \E e \in (IF to = 1 THEN PolicyErrors ELSE ToolErrors) :
              to < 4 /\ Do(done \o Save(Flag(last, "failed", e)), e)
  BY <1>3, <1>8, <1>11, ErrorTypes, DoPlain DEF Q
<1>12. CASE to \in {2, 3} /\ Interrupted(done \o Save(Flag(last, "failed", "stopped")))
  BY <1>3, <1>8, <1>9, <1>12, DoPlain DEF Q
<1> QED
  BY <1>1, <1>10, <1>11, <1>12 DEF done, last

\* A stage with one product, that either makes it or fails.
LEMMA SingleStageRests ==
  ASSUME CoreInv, PendingRests, NEW expected \in BeforeGate, NEW possible,
         NEW errors \in SUBSET Errors, NEW product \in Seq(Idle),
         NEW next_stage \in BeforeGate \cup {"quartet_gate"}, NEW next_status \in Statuses \ {"exhausted"},
         next_status # "quartet_repair_pending",
         SingleStage(expected, possible, errors, product, next_stage, next_status)
  PROVE  PendingRests'
<1>1. /\ st \in LiveStates /\ st.stage = expected /\ pending = <<>> /\ st \in Alike(st)
      /\ st.stage \in BeforeGate
  BY TopRests DEF SingleStage, AtStage, BeforeGate, Preparation
<1>2. ASSUME NEW s \in Alike(st), s.status # "exhausted", s.stage \in BeforeGate \cup {"quartet_gate", "complete"}
      PROVE  Save(s) \in Seq(Plain(st))
  <2>1. Steadily(st, s)
    BY <1>1, <1>2 DEF Steadily, Preparation, BeforeGate, Fuzzed, Over
  <2> QED
    BY <2>1, PlainState
<1>3. ASSUME NEW e \in Errors, Do(Save(StageFailed(e)), e)
      PROVE  PendingRests'
  <2>1. StageFailed(e) \in GoodStates
    BY <1>1, StageFailedEnds DEF CoreInv
  <2>2. /\ StageFailed(e) \in Alike(st)
        /\ \/ StageFailed(e).stage = st.stage /\ StageFailed(e).status = "failed"
           \/ StageFailed(e).stage = "complete" /\ StageFailed(e).status = "unsupported_integration"
    BY <1>1, <2>1 DEF StageFailed, Flag, LiveStates, State, Alike
  <2>3. Save(StageFailed(e)) \in Seq(Plain(st))
    BY <1>1, <1>2, <2>2
  <2> QED
    BY <1>1, <1>3, <2>3, DoPlain
<1>4. CASE \E e \in (IF possible THEN errors ELSE {"missing"}) : Do(Save(StageFailed(e)), e)
  BY <1>3, <1>4, FuzzingStatuses
<1>5. CASE possible /\ Do(product \o Save(To(st, next_stage, next_status)), None)
  <2>1. next_stage \in Stages
    BY DEF BeforeGate, Preparation, Stages
  <2>2. Save(To(st, next_stage, next_status)) \in Seq(Plain(st))
    BY <1>1, <1>2, <2>1, AlikeMoves
  <2>3. product \in Seq(Plain(st))
    BY IdleIsPlain
  <2>4. product \o Save(To(st, next_stage, next_status)) \in Seq(Plain(st))
    BY <2>2, <2>3, ConcatProperties
  <2> QED
    BY <1>1, <1>5, <2>4, DoPlain
<1>6. CASE possible /\ Interrupted(<<>>)
  BY <1>1, <1>6, NothingRests
<1> QED
  BY <1>4, <1>5, <1>6 DEF SingleStage

LEMMA StagesRest ==
  ASSUME CoreInv, PendingRests, Integrate \/ Build \/ Smoke
  PROVE  PendingRests'
<1>1. /\ {"integration", "build", "smoke"} \subseteq BeforeGate
      /\ {"integrated", "built", "quartet_pending"} \subseteq Statuses \ {"exhausted"}
  BY PreparationStages DEF BeforeGate, Preparation
<1>2. CASE Integrate
  <2> DEFINE harnesses == IF Generated THEN {} ELSE disk.rewritten
             product == <<W("rewritten", harnesses), W("integration", TRUE)>>
  <2>1. harnesses \in SUBSET Targets
    BY DEF CoreInv, TypeInv, TypeOK, Disk
  <2> HIDE DEF harnesses
  <2>2. product \in Seq(Idle)
    BY <2>1, IdleFiles, Pair
  <2> HIDE DEF product
  <2>3. SingleStage("integration", TRUE, BuildErrors, product, "build", "integrated")
    BY <1>2 DEF Integrate, product, harnesses
  <2> QED
    BY <1>1, <2>2, <2>3, ErrorTypes, SingleStageRests
<1>3. CASE Build
  <2> DEFINE product == <<W("manifest", SelectTarget(Targets))>>
  <2>1. SelectTarget(Targets) \in Targets
    BY NoTargets DEF FirstTarget
  <2>2. product \in Seq(Idle)
    BY <2>1, IdleFiles, Single
  <2> HIDE DEF product
  <2>3. SingleStage("build", disk.integration, BuildErrors, product, "smoke", "built")
    BY <1>3 DEF Build, product
  <2> QED
    BY <1>1, <2>2, <2>3, ErrorTypes, SingleStageRests
<1>4. CASE Smoke
  <2> DEFINE product == <<W("smoke", disk.manifest)>>
             possible == disk.manifest # None /\ disk.integration
  <2>1. disk.manifest \in Targets \cup {None}
    BY DEF CoreInv, TypeInv, TypeOK, Disk
  <2>2. product \in Seq(Idle)
    BY <2>1, IdleFiles, Single
  <2> HIDE DEF product
  <2>3. SingleStage("smoke", possible, ToolErrors, product, "quartet_gate", "quartet_pending")
    BY <1>4 DEF Smoke, product
  <2> HIDE DEF possible
  <2> QED
    BY <1>1, <2>2, <2>3, ErrorTypes, SingleStageRests
<1> QED
  BY <1>2, <1>3, <1>4

LEMMA AnalyzeRests ==
  ASSUME CoreInv, PendingRests, Analyze
  PROVE  PendingRests'
<1>1. st \in LiveStates /\ st \in Alike(st) /\ st.stage = "coverage_analysis" /\ pending = <<>>
  BY TopRests DEF Analyze, AtStage
<1>2. \/ \E e \in ToolErrors \cup {"gate", "missing", None} : Do(<<>>, e)
      \/ Do(<<W("plan", "ready")>> \o Save(To(st, "fuzzing", "ready")), None)
      \/ Do(<<W("plan", "work")>> \o Save(To(st, "fuzzing", "harness_work_pending")), None)
  BY DEF Analyze
<1>3. (\E e \in ToolErrors \cup {"gate", "missing", None} : Do(<<>>, e)) => PendingRests'
  BY <1>1, NothingRests
<1>4. ASSUME NEW p \in {"ready", "work"}, NEW status \in {"ready", "harness_work_pending"}
      PROVE  <<W("plan", p)>> \o Save(To(st, "fuzzing", status)) \in Seq(Plain(st))
  <2>1. <<W("plan", p)>> \in Seq(Plain(st))
    BY IdleFiles, IdleIsPlain, Single
  <2>2. "fuzzing" \in Stages /\ status \in Statuses /\ status \notin {"quartet_repair_pending", "exhausted"}
    BY FuzzingStatuses
  <2>3. Steadily(st, To(st, "fuzzing", status))
    <3>1. /\ To(st, "fuzzing", status) \in Alike(st) /\ To(st, "fuzzing", status).stage = "fuzzing"
          /\ To(st, "fuzzing", status).status = status
      BY <1>1, <2>2, AlikeMoves
    <3> HIDE DEF To
    <3> QED
      BY <1>1, <2>2, <3>1 DEF Steadily, Preparation, BeforeGate, Fuzzed, Over
  <2> QED
    BY <2>1, <2>3, PlainState, ConcatProperties
<1> QED
  BY <1>1, <1>2, <1>3, <1>4, DoPlain

LEMMA GenerationLimitRests ==
  ASSUME CoreInv, PendingRests, GenerationLimit
  PROVE  PendingRests'
<1> DEFINE s == AtLeastOneFailure([Flag(st, "manual_review", "exhausted") EXCEPT !.bounded = TRUE])
<1>1. st \in LiveStates /\ st \in Alike(st) /\ st.stage = "fuzzing" /\ pending = <<>>
  BY TopRests DEF GenerationLimit, AtStage
<1>2. s \in GoodStates /\ s.stage = st.stage /\ s.status = "manual_review"
  BY <1>1, GivenToPerson, GivenUp
<1>3. s \in Alike(st)
  BY <1>1, <1>2 DEF AtLeastOneFailure, Flag, Alike, GoodStates, State
<1>4. Do(Save(s), "return")
  BY DEF GenerationLimit
<1> HIDE DEF s
<1>5. Steadily(st, s)
  BY <1>1, <1>2, <1>3 DEF Steadily, Preparation, BeforeGate, Fuzzed, Over
<1> QED
  BY <1>1, <1>4, <1>5, PlainState, DoPlain

-----------------------------------------------------------------------------
(* The probe and the gate.                                                 *)

LEMMA ProbedRests ==
  ASSUME NEW v \in Known, Rests(v), v.state.stage = "quartet_gate", v.state.status # "exhausted",
         NEW c, NEW p, p \in Findings => c, Unstopped /\ c => p \in Findings \cup {None}
  PROVE  Rests([[v EXCEPT !.crash_files = c] EXCEPT !.probe = p])
<1> DEFINE u == [v EXCEPT !.crash_files = c]
           z == [u EXCEPT !.probe = p]
<1>1. /\ z.state = v.state /\ z.run = v.run /\ z.progress = v.progress /\ z.afl = v.afl
      /\ z.summary = v.summary /\ z.report = v.report /\ z.spent = v.spent
      /\ z.crash_files = c /\ z.probe = p
  BY DEF Known
<1> HIDE DEF z
<1>2. {"clean", "broken"} \cap (Findings \cup {None}) = {}
  BY DEF Findings, None
<1>3. CrashRests(z)
  BY <1>1, <1>2 DEF CrashRests, BeforeGate, Preparation, Fuzzed
<1>4. TriageRests(z) /\ ArtifactRests(z)
  BY <1>1 DEF Rests, TriageRests, ArtifactRests
<1> QED
  BY <1>1, <1>3, <1>4 DEF Rests, z

LEMMA ProbeRests ==
  ASSUME CoreInv, PendingRests, Probe
  PROVE  PendingRests'
<1>1. /\ st.stage = "quartet_gate" /\ st.status # "exhausted" /\ pending = <<>> /\ disk.probe = None
  BY TopRests DEF Probe, AtStage
<1>2. /\ Gets(<<>>, Snapshot, Now) /\ Now \in Known /\ Rests(Now)
      /\ Now.state = st /\ Now.crash_files = disk.crash_files
  BY <1>1, RestNow, NowReads
<1>3. ASSUME NEW kind \in {"clean", "broken"}, ~disk.crash_files, NEW e, Do(<<W("probe", kind)>>, e)
      PROVE  PendingRests'
  <2>1. W("probe", kind) \in Writes
    BY FileWriteIsEarly, EarlyIsWrites
  <2>2. Gets(<<>> \o <<W("probe", kind)>>, Snapshot, [Now EXCEPT !.probe = kind])
    BY <1>1, <1>2, <2>1, GetsFile DEF ResultFiles
  <2>3. <<>> \o <<W("probe", kind)>> = <<W("probe", kind)>>
    BY <2>1, Single, ConcatEmptySeq
  <2>4. [Now EXCEPT !.crash_files = disk.crash_files] = Now
    BY <1>2 DEF Known
  <2>5. kind \notin Findings
    BY DEF Findings
  <2>6. Rests([Now EXCEPT !.probe = kind])
    BY <1>1, <1>2, <1>3, <2>4, <2>5, ProbedRests
  <2> QED
    BY <1>3, <2>2, <2>3, <2>6, DoGets
<1>4. /\ W("crash_files", TRUE) \in Writes
      /\ Gets(<<W("crash_files", TRUE)>>, Snapshot, [Now EXCEPT !.crash_files = TRUE])
      /\ [Now EXCEPT !.crash_files = TRUE] \in Known
      /\ [Now EXCEPT !.crash_files = TRUE].state = st
  <2>1. W("crash_files", TRUE) \in Writes
    BY FileWriteIsEarly, EarlyIsWrites
  <2>2. Gets(<<>> \o <<W("crash_files", TRUE)>>, Snapshot, [Now EXCEPT !.crash_files = TRUE])
    BY <1>1, <1>2, <2>1, GetsFile DEF ResultFiles
  <2>3. <<>> \o <<W("crash_files", TRUE)>> = <<W("crash_files", TRUE)>>
    BY <2>1, Single, ConcatEmptySeq
  <2> QED
    BY <1>2, <2>1, <2>2, <2>3 DEF Known
<1>5. ASSUME NEW kind \in Findings, Do(<<W("crash_files", TRUE), W("probe", kind)>>, None)
      PROVE  PendingRests'
  <2> DEFINE z == [Now EXCEPT !.crash_files = TRUE]
  <2>1. W("probe", kind) \in Writes
    BY FileWriteIsEarly, EarlyIsWrites
  <2>2. Gets(<<W("crash_files", TRUE)>>, Snapshot, z) /\ z \in Known /\ z.state.status # "exhausted"
    BY <1>1, <1>4
  <2> HIDE DEF z
  <2>3. Gets(<<W("crash_files", TRUE)>> \o <<W("probe", kind)>>, Snapshot, [z EXCEPT !.probe = kind])
    BY <2>1, <2>2, GetsFile DEF ResultFiles
  <2>4. <<W("crash_files", TRUE)>> \o <<W("probe", kind)>> = <<W("crash_files", TRUE), W("probe", kind)>>
    BY <1>4, <2>1, Pair
  <2>5. Rests([z EXCEPT !.probe = kind])
    BY <1>1, <1>2, ProbedRests DEF z
  <2> QED
    BY <1>5, <2>3, <2>4, <2>5, DoGets
<1>6. ASSUME Interrupted(<<W("crash_files", TRUE)>>)
      PROVE  PendingRests'
  <2>1. ~Unstopped
    BY <1>6 DEF Interrupted, OperatorDoes, Unstopped
  <2>2. None \notin Findings
    BY DEF Findings, None
  <2> DEFINE z == [Now EXCEPT !.crash_files = TRUE]
  <2>3. [z EXCEPT !.probe = None] = z
    BY <1>1, NowReads, <1>2 DEF Known
  <2>4. Rests([z EXCEPT !.probe = None])
    BY <1>1, <1>2, <2>1, <2>2, ProbedRests
  <2>5. Gets(<<W("crash_files", TRUE)>>, Snapshot, z) /\ Rests(z)
    BY <1>4, <2>3, <2>4
  <2> HIDE DEF z
  <2> QED
    BY <1>6, <2>5, DoGets
<1>7. \/ Do(<<>>, "missing") \/ Interrupted(<<>>) \/ Interrupted(<<W("crash_files", TRUE)>>)
      \/ ~disk.crash_files /\ Do(<<W("probe", "clean")>>, None)
      \/ \E kind \in Findings : Do(<<W("crash_files", TRUE), W("probe", kind)>>, None)
      \/ \E e \in ToolErrors : Do(<<>>, e)
      \/ \E e \in ToolErrors : ~disk.crash_files /\ Do(<<W("probe", "broken")>>, e)
  BY DEF Probe
<1>8. (\E e \in ToolErrors \cup {"missing"} : Do(<<>>, e) \/ Interrupted(<<>>)) => PendingRests'
  BY <1>1, NothingRests
<1>9. (\E e \in ToolErrors : ~disk.crash_files /\ Do(<<W("probe", "broken")>>, e)) => PendingRests'
  BY <1>3
<1> QED
  BY <1>3, <1>5, <1>6, <1>7, <1>8, <1>9

\* What the gate decides of a job, given what the probe found.
GateDecision(v, d) ==
  /\ d \in GoodStates /\ d.status # "exhausted" /\ d.active = NoSession
  /\ d.low_yield = v.state.low_yield /\ d.central_improvement = v.state.central_improvement
  /\ \/ d.stage = "triage" /\ d.triage_artifact = "probe" /\ v.probe \in Findings
     \/ d.stage = "quartet_gate" /\ d.triage_artifact = v.state.triage_artifact
     \/ d.stage \in Fuzzed /\ d.triage_artifact = v.state.triage_artifact /\ v.probe \notin Findings
     \/ d.stage = "smoke" /\ d.triage_artifact = v.state.triage_artifact

LEMMA DecidedRests ==
  ASSUME NEW v \in Known, Rests(v), v.state.stage = "quartet_gate", v.state.status # "exhausted",
         v.probe # None, NEW d, GateDecision(v, d)
  PROVE  /\ d.stage # "smoke" => Rests([v EXCEPT !.state = d])
         /\ d.stage = "smoke" => Rests([[v EXCEPT !.probe = None] EXCEPT !.state = d])
<1>1. v.state.triage_artifact \in {None, "afl"} /\ "quartet_gate" \notin Over
      /\ v.probe \in {"clean", "broken"} \cup Findings
  BY DEF Rests, ArtifactRests, Over, Known
<1>2. ASSUME d.stage # "smoke"
      PROVE  Rests([v EXCEPT !.state = d])
  <2> DEFINE z == [v EXCEPT !.state = d]
  <2>1. /\ z.state = d /\ z.probe = v.probe /\ z.run = v.run /\ z.progress = v.progress
        /\ z.afl = v.afl /\ z.crash_files = v.crash_files /\ z.summary = v.summary
        /\ z.report = v.report /\ z.spent = v.spent
    BY DEF Known
  <2> HIDE DEF z
  <2>2. TriageRests(z)
    BY <1>1, <1>2, <2>1 DEF TriageRests, Rests, CrashRests, GateDecision, ListedIn, ThereIn, Fuzzed
  <2>3. ArtifactRests(z)
    BY <1>1, <1>2, <2>1 DEF ArtifactRests, Rests, GateDecision, Over, Fuzzed
  <2>4. CrashRests(z)
    BY <1>1, <1>2, <2>1 DEF CrashRests, Rests, GateDecision, BeforeGate, Preparation, Fuzzed
  <2>5. Rests(z)
    BY <1>2, <2>1, <2>2, <2>3, <2>4 DEF Rests, GateDecision, Fuzzed
  <2> QED
    BY <2>5 DEF z
<1>3. ASSUME d.stage = "smoke"
      PROVE  Rests([[v EXCEPT !.probe = None] EXCEPT !.state = d])
  <2> DEFINE z == [[v EXCEPT !.probe = None] EXCEPT !.state = d]
  <2>1. /\ z.state = d /\ z.probe = None /\ z.run = v.run /\ z.progress = v.progress
        /\ z.afl = v.afl /\ z.summary = v.summary /\ z.report = v.report /\ z.spent = v.spent
    BY DEF Known
  <2> HIDE DEF z
  <2>2. TriageRests(z) /\ CrashRests(z)
    BY <1>3, <2>1 DEF TriageRests, CrashRests, GateDecision, Fuzzed
  <2>3. ArtifactRests(z)
    BY <1>1, <1>3, <2>1 DEF ArtifactRests, Rests, GateDecision, Over, Fuzzed
  <2>4. Rests(z)
    BY <1>3, <2>1, <2>2, <2>3 DEF Rests, GateDecision, Fuzzed
  <2> QED
    BY <2>4 DEF z
<1> QED
  BY <1>2, <1>3

LEMMA MovedIdle ==
  ASSUME NEW f \in {"integration", "manifest", "smoke", "quartet", "plan"}
  PROVE  Moved(f) \in Seq(Idle)
<1>1. W(f, Absent[f]) \in Idle
  <2>1. f \in DOMAIN Absent
    BY DEF Absent
  <2>2. W(f, Absent[f]) \in Writes
    BY <2>1, MovedWrite
  <2> QED
    BY <2>2 DEF Idle, W, ResultFiles
<1> QED
  BY <1>1, Single, EmptySeq DEF Moved

LEMMA GateRests ==
  ASSUME CoreInv, PendingRests, AtStage("quartet_gate"), pending' \in Seq(Writes), disk.probe # None,
         NEW review \in Reviews, NEW before \in Seq(Idle), ApplyQuartetState(review, before)
  PROVE  PendingRests'
<1> DEFINE ready      == review.verdict = "ready"
           rejected   == ~ready /\ ~Finding /\ disk.manifest # None
           attempted  == IF rejected THEN st.attempted \cup {review.target} ELSE st.attempted
           candidates == Candidates(attempted)
           retry      == rejected /\ candidates # {} /\ MayTryAnother(attempted)
           s          == [st EXCEPT !.attempted = attempted]
           chosen     == W("manifest", SelectTarget(candidates))
           moves      == IF ~retry THEN <<>> ELSE
                           <<chosen>> \o Moved("smoke") \o Moved("probe")
                           \o <<W("quartet", NoReview)>> \o Moved("plan")
           decision   ==
             IF Finding /\ (ready \/ disk.probe = "sanitizer_error")
             THEN [To(s, "triage", "triage_pending") EXCEPT !.triage_artifact = "probe"]
             ELSE IF Finding /\ disk.probe # "uncaught_cpp_exception"
             THEN ReviewRequired(s, "untriaged")
             ELSE IF ready /\ disk.plan # None THEN To(s, "fuzzing", "ready")
             ELSE IF ready THEN To(s, "coverage_analysis", "analysis_pending")
             ELSE IF retry THEN To(s, "smoke", "target_retry_pending")
             ELSE IF Generated /\ disk.integration /\ s.quartet_repair < MaxGenerations
             THEN To(s, "quartet_gate", "quartet_repair_pending")
             ELSE [ReviewRequired(s, "exhausted") EXCEPT !.bounded = TRUE]
<1>1. /\ st.stage = "quartet_gate" /\ st.status # "exhausted" /\ st \in State /\ pending = <<>>
      /\ st.active = NoSession
  BY TopRests DEF AtStage
<1>2. /\ Gets(<<>>, Snapshot, Now) /\ Now \in Known /\ Rests(Now)
      /\ Now.state = st /\ Now.probe = disk.probe
  BY <1>1, RestNow, NowReads
<1>3. Do(before \o moves \o Save(decision), None)
  BY DEF ApplyQuartetState
<1>4. /\ decision.status # "exhausted" /\ decision.active = NoSession
      /\ decision.low_yield = st.low_yield /\ decision.central_improvement = st.central_improvement
      /\ retry <=> decision.stage = "smoke"
      /\ \/ decision.stage = "triage" /\ decision.triage_artifact = "probe" /\ disk.probe \in Findings
         \/ decision.stage = "quartet_gate" /\ decision.triage_artifact = st.triage_artifact
         \/ decision.stage \in Fuzzed /\ decision.triage_artifact = st.triage_artifact /\ disk.probe \notin Findings
         \/ decision.stage = "smoke" /\ decision.triage_artifact = st.triage_artifact
  <2> HIDE DEF attempted, candidates
  <2>1. /\ s.stage = "quartet_gate" /\ s.active = NoSession
        /\ s.low_yield = st.low_yield /\ s.central_improvement = st.central_improvement
        /\ s.triage_artifact = st.triage_artifact
        /\ DOMAIN s = DOMAIN st
    BY <1>1 DEF State
  <2>2. DOMAIN st = {"stage", "status", "last_error", "bounded", "triage_artifact", "active",
                     "worker_failures", "automatic_recoveries", "harness_generation",
                     "quartet_repair", "central_improvement", "attempted", "low_yield"}
    BY <1>1 DEF State
  <2> HIDE DEF s
  <2> DEFINE Like(d) == /\ d.active = NoSession
                        /\ d.low_yield = st.low_yield
                        /\ d.central_improvement = st.central_improvement
  <2>3. \A stage, status : /\ Like(To(s, stage, status)) /\ To(s, stage, status).stage = stage
                           /\ To(s, stage, status).status = status
                           /\ To(s, stage, status).triage_artifact = st.triage_artifact
    BY <2>1, <2>2 DEF To
  <2>4. /\ Like([To(s, "triage", "triage_pending") EXCEPT !.triage_artifact = "probe"])
        /\ [To(s, "triage", "triage_pending") EXCEPT !.triage_artifact = "probe"].stage = "triage"
        /\ [To(s, "triage", "triage_pending") EXCEPT !.triage_artifact = "probe"].triage_artifact = "probe"
        /\ [To(s, "triage", "triage_pending") EXCEPT !.triage_artifact = "probe"].status = "triage_pending"
    BY <2>1, <2>2 DEF To
  <2>5. \A e : /\ Like(ReviewRequired(s, e)) /\ ReviewRequired(s, e).stage = "quartet_gate"
               /\ ReviewRequired(s, e).triage_artifact = st.triage_artifact
               /\ ReviewRequired(s, e).status = "quartet_review_required"
    BY <2>1, <2>2 DEF ReviewRequired, Flag, AtLeastOneFailure
  <2>6. LET d == [ReviewRequired(s, "exhausted") EXCEPT !.bounded = TRUE]
        IN  /\ Like(d) /\ d.stage = "quartet_gate" /\ d.triage_artifact = st.triage_artifact
            /\ d.status = "quartet_review_required"
    BY <2>1, <2>2 DEF ReviewRequired, Flag, AtLeastOneFailure
  <2>7. rejected => ~ready /\ ~Finding
    OBVIOUS
  <2>8. retry => rejected
    OBVIOUS
  <2> HIDE DEF Like, ready, rejected, retry
  <2>9. Like(decision) /\ decision.status # "exhausted"
    BY <2>3, <2>4, <2>5, <2>6
  <2>10. \/ decision.stage = "triage" /\ decision.triage_artifact = "probe" /\ Finding /\ ~retry
         \/ decision.stage = "quartet_gate" /\ decision.triage_artifact = st.triage_artifact /\ ~retry
         \/ decision.stage \in Fuzzed /\ decision.triage_artifact = st.triage_artifact /\ ~Finding /\ ~retry
         \/ decision.stage = "smoke" /\ decision.triage_artifact = st.triage_artifact /\ retry
    BY <2>3, <2>4, <2>5, <2>6, <2>7, <2>8 DEF Fuzzed, Finding
  <2> HIDE DEF decision
  <2> QED
    BY <2>9, <2>10 DEF Like, Finding, Fuzzed
<1> HIDE DEF decision
<1>5. before \in Seq(Writes) /\ Gets(before, Snapshot, Now)
  <2>1. <<>> \o before = before /\ before \in Seq(Writes)
    BY SeqMonotonic, ConcatEmptySeq DEF Idle
  <2> QED
    BY <1>2, <2>1, GetsIdle
<1>6. moves \in Seq(Writes) /\ (retry => W("manifest", SelectTarget(candidates)) \in Idle)
  <2>1. CASE ~retry
    BY <2>1, EmptySeq
  <2>2. CASE retry
    <3>1. SelectTarget(candidates) \in Targets
      <4> HIDE DEF attempted
      <4>1. candidates \subseteq Targets /\ candidates # {}
        BY <2>2 DEF Candidates
      <4> HIDE DEF candidates
      <4> QED
        BY <4>1, SelectedTarget
    <3>2. chosen \in Idle /\ W("quartet", NoReview) \in Idle
      BY <3>1, IdleFiles DEF Reviews
    <3>3. <<chosen>> \in Seq(Writes) /\ <<W("quartet", NoReview)>> \in Seq(Writes)
      BY <3>2, Single DEF Idle
    <3>4. Moved("smoke") \in Seq(Writes) /\ Moved("probe") \in Seq(Writes) /\ Moved("plan") \in Seq(Writes)
      BY MovedIsEarly, EarlyIsWrites, SeqMonotonic DEF Absent
    <3>5. moves = <<chosen>> \o Moved("smoke") \o Moved("probe") \o <<W("quartet", NoReview)>> \o Moved("plan")
      BY <2>2
    <3> HIDE DEF chosen, moves
    <3> QED
      BY <3>2, <3>3, <3>4, <3>5, ConcatProperties DEF chosen
  <2> QED
    BY <2>1, <2>2
<1>7. decision \in GoodStates
  <2>1. before \o moves \o Save(decision) \in Seq(Writes)
    BY <1>3 DEF Do
  <2> HIDE DEF moves
  <2>2. before \o moves \in Seq(Writes)
    BY <1>5, <1>6, ConcatProperties
  <2>3. W("state", decision) \in Writes
    BY <2>1, <2>2, LastIsWrite DEF Save
  <2> QED
    BY <2>3 DEF W, Writes, FileWrites
<1>8. GateDecision(Now, decision)
  <2> HIDE DEF retry
  <2> QED
    BY <1>2, <1>4, <1>7 DEF GateDecision
<1>9. CASE ~retry
  <2>1. before \o moves = before
    <3>1. moves = <<>>
      BY <1>9
    <3> QED
      BY <1>5, <3>1, ConcatEmptySeq
  <2> HIDE DEF moves, retry
  <2>2. Rests([Now EXCEPT !.state = decision])
    BY <1>1, <1>2, <1>4, <1>8, <1>9, DecidedRests
  <2>3. Gets(before \o Save(decision), Snapshot, [Now EXCEPT !.state = decision])
    BY <1>4, <1>5, <1>7, GetsState
  <2> QED
    BY <1>3, <2>1, <2>2, <2>3, DoGets
<1>10. CASE retry
  <2> DEFINE c == Moved("smoke")
             d == Moved("probe")
             e == <<W("quartet", NoReview)>>
             f == Moved("plan")
             b == <<chosen>>
             t == Save(decision)
             v == [Now EXCEPT !.probe = None]
  <2>1. moves = b \o c \o d \o e \o f
    BY <1>10
  <2>2. b \in Seq(Idle) /\ c \in Seq(Idle) /\ e \in Seq(Idle) /\ f \in Seq(Idle)
    <3>1. W("quartet", NoReview) \in Idle
      BY IdleFiles DEF Reviews
    <3>2. chosen \in Idle
      BY <1>6, <1>10
    <3> HIDE DEF chosen
    <3> QED
      BY <3>1, <3>2, Single, MovedIdle
  <2>3. b \in Seq(Writes) /\ c \in Seq(Writes) /\ d \in Seq(Writes) /\ e \in Seq(Writes) /\ f \in Seq(Writes)
        /\ t \in Seq(Writes)
    <3>1. d \in Seq(Writes)
      BY MovedIsEarly, EarlyIsWrites, SeqMonotonic DEF Absent
    <3>2. t \in Seq(Writes)
      BY <1>7, Single DEF Save, W, Writes
    <3>3. \A u \in Seq(Idle) : u \in Seq(Writes)
      BY SeqMonotonic DEF Idle
    <3> HIDE DEF b, c, d, e, f, t
    <3> QED
      BY <2>2, <3>1, <3>2, <3>3
  <2> HIDE DEF chosen, candidates, attempted, retry, moves, b, c, e, f
  <2>4. Gets((before \o b) \o c, Snapshot, Now)
    BY <1>5, <2>2, GetsIdle
  <2>5. Gets(((before \o b) \o c) \o d, Snapshot, v)
    <3>1. Absent["probe"] = None /\ Now["probe"] = disk["probe"]
      BY <1>2 DEF Absent
    <3> QED
      BY <2>4, <3>1, GetsMoved
  <2> HIDE DEF d
  <2>6. Gets(((((before \o b) \o c) \o d) \o e) \o f, Snapshot, v)
    BY <2>2, <2>5, GetsIdle
  <2> HIDE DEF v
  <2>7. Gets((((((before \o b) \o c) \o d) \o e) \o f) \o t, Snapshot, [v EXCEPT !.state = decision])
    BY <1>4, <1>7, <2>6, GetsState DEF t
  <2> HIDE DEF t
  <2>8. (((((before \o b) \o c) \o d) \o e) \o f) \o t = before \o (b \o c \o d \o e \o f) \o t
    <3>1. Join(Join(Join(Join(Join(before, b), c), d), e), f)
            = Join(before, Join(Join(Join(Join(b, c), d), e), f))
      <4>1. Join(b, c) \in Seq(Writes) /\ Join(Join(before, b), c) = Join(before, Join(b, c))
        BY <1>5, <2>3, JoinAssociates
      <4> DEFINE g == Join(b, c)
      <4> HIDE DEF g
      <4>2. Join(g, d) \in Seq(Writes) /\ Join(Join(before, g), d) = Join(before, Join(g, d))
        BY <1>5, <2>3, <4>1, JoinAssociates DEF g
      <4> DEFINE h == Join(g, d)
      <4> HIDE DEF h
      <4>3. Join(h, e) \in Seq(Writes) /\ Join(Join(before, h), e) = Join(before, Join(h, e))
        BY <1>5, <2>3, <4>2, JoinAssociates DEF h
      <4> DEFINE i == Join(h, e)
      <4> HIDE DEF i
      <4>4. Join(Join(before, i), f) = Join(before, Join(i, f))
        BY <1>5, <2>3, <4>3, JoinAssociates DEF i
      <4> QED
        BY <4>1, <4>2, <4>3, <4>4 DEF g, h, i
    <3> QED
      BY <3>1 DEF Join
  <2>9. before \o moves \o Save(decision) = (((((before \o b) \o c) \o d) \o e) \o f) \o t
    BY <2>1, <2>8 DEF t
  <2>10. Rests([v EXCEPT !.state = decision])
    BY <1>1, <1>2, <1>4, <1>8, <1>10, DecidedRests DEF v
  <2> QED
    BY <1>3, <2>7, <2>9, <2>10, DoGets
<1> QED
  BY <1>9, <1>10

LEMMA QuartetRests ==
  ASSUME CoreInv, PendingRests, Quartet, pending' \in Seq(Writes)
  PROVE  PendingRests'
<1>1. /\ AtStage("quartet_gate") /\ disk \in GoodDisks /\ disk \in Disk /\ disk.probe # None /\ pending = <<>>
  BY TopRests DEF Quartet, CoreInv, TypeInv, AtStage
<1>2. CASE ApplyQuartetState(disk.quartet, <<>>)
  <2>1. disk.quartet \in Reviews /\ <<>> \in Seq(Idle)
    BY <1>1, EmptySeq DEF GoodDisks
  <2> QED
    BY <1>1, <1>2, <2>1, GateRests
<1>3. ASSUME NEW v \in {"ready", "rejected"}, Runnable,
             ApplyQuartetState([verdict |-> v, target |-> disk.smoke],
                               <<W("quartet", [verdict |-> v, target |-> disk.smoke])>>)
      PROVE  PendingRests'
  <2> DEFINE review == [verdict |-> v, target |-> disk.smoke]
  <2>1. review \in Reviews
    BY <1>1, <1>3 DEF Runnable, Disk, Reviews
  <2>2. ApplyQuartetState(review, <<W("quartet", review)>>)
    BY <1>3
  <2> HIDE DEF review
  <2>3. <<W("quartet", review)>> \in Seq(Idle)
    BY <2>1, IdleFiles, Single
  <2> QED
    BY <1>1, <2>1, <2>2, <2>3, GateRests
<1>4. (\E e \in ToolErrors \cup {"missing"} : Do(<<>>, e)) => PendingRests'
  BY <1>1, NothingRests
<1>5. \/ ApplyQuartetState(disk.quartet, <<>>)
      \/ /\ Runnable
         /\ \E v \in {"ready", "rejected"} :
              ApplyQuartetState([verdict |-> v, target |-> disk.smoke],
                                <<W("quartet", [verdict |-> v, target |-> disk.smoke])>>)
      \/ \E e \in ToolErrors \cup {"missing"} : Do(<<>>, e)
  BY DEF Quartet
<1> QED
  BY <1>2, <1>3, <1>4, <1>5

-----------------------------------------------------------------------------
(* A build made anew, its results archived.                                *)

\* The files once the results are archived.
Archived(v) ==
  /\ v \in Known /\ v.state = st /\ v.probe = None /\ v.run = NoRun /\ v.progress.completed = v.spent
  /\ v.afl = disk.afl /\ v.summary = disk.summary /\ v.report = disk.report /\ v.crash_files = FALSE

\* What Moved makes of a result, by its name.
LEMMA AbsentReads ==
  /\ Absent["probe"] = None /\ Absent["run"] = NoRun /\ Absent["afl"] = None
  /\ Absent["crash_files"] = FALSE /\ Absent["summary"] = None
  /\ Absent["progress"] = Absent.progress
  /\ Absent.progress \in Progresses /\ Absent.progress.completed = 0
<1>1. Absent.progress = [completed |-> 0, stalled |-> FALSE, accounted |-> NoSession]
  BY DEF Absent
<1>2. 0 \in 0..Budget
  BY Bounds
<1> QED
  BY <1>1, <1>2 DEF Absent, Progresses

LEMMA MovedTypes ==
  ASSUME NEW f \in {"integration", "manifest", "smoke", "probe", "quartet", "plan", "run",
                    "progress", "afl", "crash_files", "summary"}
  PROVE  Moved(f) \in Seq(Writes)
<1>1. W(f, Absent[f]) \in Writes
  <2>1. f \in DOMAIN Absent
    BY DEF Absent
  <2> QED
    BY <2>1, MovedWrite
<1> QED
  BY <1>1, Single, EmptySeq DEF Moved

\* The time already fuzzed is moved away and then written anew.
LEMMA TimeGets ==
  ASSUME NEW ws, NEW x, NEW v, Gets(ws, x, v), v.progress = disk.progress,
         v.progress.completed = v.spent, v.state.status # "exhausted"
  PROVE  \E z : /\ Gets((ws \o Moved("progress")) \o TimeCarriedOver, x, z)
                /\ z.state = v.state /\ z.probe = v.probe /\ z.run = v.run /\ z.afl = v.afl
                /\ z.crash_files = v.crash_files /\ z.summary = v.summary /\ z.report = v.report
                /\ z.own = v.own /\ z.progress.completed = z.spent
                /\ TimeCarriedOver \in Seq(Writes)
<1>1. v \in Known /\ ws \in Seq(Writes) /\ v.progress \in Progresses
  BY DEF Gets, Known
<1>2. CASE disk.progress = Absent["progress"]
  <2>1. Moved("progress") = <<>> /\ TimeCarriedOver = <<>>
    BY <1>2, AbsentReads DEF Moved, TimeCarriedOver
  <2>2. (ws \o <<>>) \o <<>> = ws /\ <<>> \in Seq(Writes)
    BY <1>1, ConcatEmptySeq, EmptySeq
  <2> QED
    BY <2>1, <2>2
<1>3. CASE disk.progress # Absent["progress"]
  <2> DEFINE p == Absent.progress
             q == [disk.progress EXCEPT !.stalled = FALSE]
             n == IF v.own \/ p.completed > v.spent THEN p.completed ELSE v.spent
             y == [v EXCEPT !.progress = p, !.spent = n]
             m == IF y.own \/ q.completed > y.spent THEN q.completed ELSE y.spent
             z == [y EXCEPT !.progress = q, !.spent = m]
  <2>1. Moved("progress") = <<W("progress", p)>> /\ TimeCarriedOver = <<W("progress", q)>>
    BY <1>3, AbsentReads DEF Moved, TimeCarriedOver
  <2>2. p \in Progresses /\ p.completed = 0 /\ q \in Progresses /\ q.completed = disk.progress.completed
    BY <1>1, AbsentReads DEF Progresses
  <2> HIDE DEF p, q
  <2>3. Gets(ws \o <<W("progress", p)>>, x, y)
    BY <2>2, GetsTime
  <2>4. /\ y.state = v.state /\ y.probe = v.probe /\ y.run = v.run /\ y.afl = v.afl
        /\ y.crash_files = v.crash_files /\ y.summary = v.summary /\ y.report = v.report
        /\ y.own = v.own /\ y.spent = n
    BY <1>1 DEF Known
  <2>5. y \in Known
    BY <2>3 DEF Gets
  <2>6. v.spent \in 0..Budget /\ disk.progress.completed \in 0..Budget /\ Budget \in Nat
    BY <1>1, Bounds DEF Known, Progresses
  <2>7. m = disk.progress.completed
    BY <2>2, <2>4, <2>6
  <2> HIDE DEF n, y
  <2>8. Gets((ws \o <<W("progress", p)>>) \o <<W("progress", q)>>, x, z)
    BY <2>2, <2>3, <2>4, GetsTime
  <2>9. /\ z.state = y.state /\ z.probe = y.probe /\ z.run = y.run /\ z.afl = y.afl
        /\ z.crash_files = y.crash_files /\ z.summary = y.summary /\ z.report = y.report
        /\ z.own = y.own /\ z.spent = m /\ z.progress = q
    BY <2>5 DEF Known
  <2>10. <<W("progress", q)>> \in Seq(Writes)
    BY <2>2, FileWriteIsEarly, EarlyIsWrites, Single
  <2> HIDE DEF m, z
  <2> QED
    BY <2>1, <2>2, <2>4, <2>7, <2>8, <2>9, <2>10
<1> QED
  BY <1>2, <1>3

LEMMA ArchiveGets ==
  ASSUME CoreInv, Rests(Now), st.status # "exhausted", NEW ws, Gets(ws, Snapshot, Now)
  PROVE  \E z : /\ Gets(ws \o ArchivePreGenerationResults, Snapshot, z) /\ Archived(z)
                /\ ArchivePreGenerationResults \in Seq(Writes)
<1> DEFINE a == Moved("smoke")
           b == Moved("probe")
           c == Moved("quartet")
           d == Moved("plan")
           e == Moved("run")
           f == Moved("progress")
           g == TimeCarriedOver
           h == Moved("crash_files")
<1>1. /\ a \in Seq(Writes) /\ b \in Seq(Writes) /\ c \in Seq(Writes) /\ d \in Seq(Writes)
      /\ e \in Seq(Writes) /\ f \in Seq(Writes) /\ h \in Seq(Writes)
  BY MovedTypes
<1>2. a \in Seq(Idle) /\ c \in Seq(Idle) /\ d \in Seq(Idle)
  BY MovedIdle
<1>3. ws \in Seq(Writes) /\ Now \in Known /\ Now.progress.completed = Now.spent
  BY DEF Gets, Rests
<1> DEFINE v == [Now EXCEPT !.probe = None]
           u == [v EXCEPT !.run = NoRun]
<1>4. /\ v.state = st /\ v.probe = None /\ v.run = disk.run
      /\ v.progress = disk.progress /\ v.afl = disk.afl /\ v.crash_files = disk.crash_files
      /\ v.summary = disk.summary /\ v.report = disk.report /\ v.spent = Now.spent
      /\ Now.probe = disk.probe
  BY <1>3, NowReads DEF Known
<1>5. /\ u.state = st /\ u.probe = None /\ u.run = NoRun
      /\ u.progress = disk.progress /\ u.afl = disk.afl /\ u.crash_files = disk.crash_files
      /\ u.summary = disk.summary /\ u.report = disk.report /\ u.spent = Now.spent
  BY <1>3, NowReads DEF Known
<1>6. Gets((ws \o a) \o b, Snapshot, v)
  <2>1. Gets(ws \o a, Snapshot, Now)
    BY <1>2, GetsIdle
  <2> HIDE DEF a
  <2> QED
    BY <1>4, <2>1, AbsentReads, GetsMoved
<1> HIDE DEF v
<1>7. Gets(((ws \o a) \o b) \o c, Snapshot, v) /\ ws \o a \in Seq(Writes)
  <2>1. ws \o a \in Seq(Writes)
    BY <1>1, <1>3, ConcatProperties
  <2> HIDE DEF a, b, c
  <2> QED
    BY <1>2, <1>6, <2>1, GetsIdle
<1>8. Gets((((ws \o a) \o b) \o c) \o d, Snapshot, v)
  <2> HIDE DEF a, b, c, d
  <2> QED
    BY <1>2, <1>7, GetsIdle
<1>9. Gets(((((ws \o a) \o b) \o c) \o d) \o e, Snapshot, u)
  <2> HIDE DEF a, b, c, d
  <2> QED
    BY <1>4, <1>8, AbsentReads, GetsMoved
<1> HIDE DEF u
<1>10. PICK y : /\ Gets(((((((ws \o a) \o b) \o c) \o d) \o e) \o f) \o g, Snapshot, y)
                /\ y.state = u.state /\ y.probe = u.probe /\ y.run = u.run /\ y.afl = u.afl
                /\ y.crash_files = u.crash_files /\ y.summary = u.summary /\ y.report = u.report
                /\ y.progress.completed = y.spent /\ g \in Seq(Writes)
  <2> HIDE DEF a, b, c, d, e
  <2>1. u.progress.completed = u.spent /\ u.state.status # "exhausted"
    BY <1>3, <1>5, NowReads
  <2> QED
    BY <1>5, <1>9, <2>1, TimeGets
<1>11. \E z : Gets((((((((ws \o a) \o b) \o c) \o d) \o e) \o f) \o g) \o h, Snapshot, z) /\ Archived(z)
  <2> DEFINE z == [y EXCEPT !.crash_files = FALSE]
  <2>1. y.crash_files = disk.crash_files /\ y \in Known
    BY <1>5, <1>10 DEF Gets
  <2> HIDE DEF a, b, c, d, e, f, g
  <2>2. Gets((((((((ws \o a) \o b) \o c) \o d) \o e) \o f) \o g) \o h, Snapshot, z)
    BY <1>10, <2>1, AbsentReads, GetsMoved
  <2>3. /\ z.state = y.state /\ z.probe = y.probe /\ z.run = y.run /\ z.afl = y.afl
        /\ z.crash_files = FALSE /\ z.summary = y.summary /\ z.report = y.report
        /\ z.progress = y.progress /\ z.spent = y.spent /\ z \in Known
    BY <2>1, <2>2 DEF Known, Gets
  <2> HIDE DEF z
  <2>4. Archived(z)
    BY <1>5, <1>10, <2>3 DEF Archived
  <2> QED
    BY <2>2, <2>4
<1>12. PICK z : Gets((((((((ws \o a) \o b) \o c) \o d) \o e) \o f) \o g) \o h, Snapshot, z) /\ Archived(z)
  BY <1>11
<1> HIDE DEF a, b, c, d, e, f, g, h
<1> DEFINE i == Join(a, b)
<1>13. i \in Seq(Writes) /\ Join(Join(ws, a), b) = Join(ws, i)
  BY <1>1, <1>3, JoinAssociates
<1> HIDE DEF i
<1> DEFINE j == Join(i, c)
<1>14. j \in Seq(Writes) /\ Join(Join(ws, i), c) = Join(ws, j)
  BY <1>1, <1>3, <1>13, JoinAssociates
<1> HIDE DEF j
<1> DEFINE k == Join(j, d)
<1>15. k \in Seq(Writes) /\ Join(Join(ws, j), d) = Join(ws, k)
  BY <1>1, <1>3, <1>14, JoinAssociates
<1> HIDE DEF k
<1> DEFINE l == Join(k, e)
<1>16. l \in Seq(Writes) /\ Join(Join(ws, k), e) = Join(ws, l)
  BY <1>1, <1>3, <1>15, JoinAssociates
<1> HIDE DEF l
<1> DEFINE m == Join(l, f)
<1>17. m \in Seq(Writes) /\ Join(Join(ws, l), f) = Join(ws, m)
  BY <1>1, <1>3, <1>16, JoinAssociates
<1> HIDE DEF m
<1> DEFINE n == Join(m, g)
<1>18. n \in Seq(Writes) /\ Join(Join(ws, m), g) = Join(ws, n)
  BY <1>3, <1>10, <1>17, JoinAssociates
<1> HIDE DEF n
<1> DEFINE o == Join(n, h)
<1>19. o \in Seq(Writes) /\ Join(Join(ws, n), h) = Join(ws, o)
  BY <1>1, <1>3, <1>18, JoinAssociates
<1> HIDE DEF o
<1>20. Join(Join(Join(Join(Join(Join(Join(Join(ws, a), b), c), d), e), f), g), h) = Join(ws, o)
  BY <1>13, <1>14, <1>15, <1>16, <1>17, <1>18, <1>19
<1>21. o = ArchivePreGenerationResults
  BY DEF o, n, m, l, k, j, i, a, b, c, d, e, f, g, h, Join, ArchivePreGenerationResults, Results
<1> QED
  BY <1>12, <1>19, <1>20, <1>21 DEF Join

LEMMA ReplacedRests ==
  ASSUME CoreInv, PendingRests, AtTop, st.stage \notin Over, NEW harnesses \in SUBSET Targets,
         NEW t \in Targets, NEW s \in Alike(st), s.stage = "smoke", s.status # "exhausted",
         NEW e,
         Do(<<W("rewritten", harnesses)>> \o Rebuilt(t) \o ArchivePreGenerationResults \o Save(s), e)
  PROVE  PendingRests'
<1>1. /\ pending = <<>> /\ st.status # "exhausted" /\ s.active = NoSession
      /\ s.central_improvement >= Floor /\ s \in GoodStates
  BY TopRests DEF Alike
<1>2. Gets(<<>>, Snapshot, Now) /\ Now \in Known /\ Rests(Now) /\ Now.state = st /\ Now.afl = disk.afl
  BY <1>1, RestNow, NowReads
<1> DEFINE r == <<W("rewritten", harnesses)>>
           b == Rebuilt(t)
<1>3. Gets(r \o b, Snapshot, Now)
  <2>1. r \in Seq(Idle)
    BY IdleFiles, Single
  <2>2. b \in Seq(Idle)
    <3>1. W("manifest", SelectTarget(Targets)) \in Idle /\ W("manifest", t) \in Idle
      BY NoTargets, IdleFiles DEF FirstTarget
    <3> QED
      BY <3>1, Pair DEF Rebuilt
  <2>3. <<>> \o r = r
    BY <2>1, ConcatEmptySeq
  <2> HIDE DEF r, b
  <2> QED
    BY <1>2, <2>1, <2>2, <2>3, GetsIdle
<1> HIDE DEF r, b
<1>4. PICK z : Gets((r \o b) \o ArchivePreGenerationResults, Snapshot, z) /\ Archived(z)
  BY <1>1, <1>2, <1>3, ArchiveGets
<1> DEFINE a == (r \o b) \o ArchivePreGenerationResults
           y == [z EXCEPT !.state = s]
<1>5. Gets(a \o Save(s), Snapshot, y)
  <2> HIDE DEF a
  <2> QED
    BY <1>1, <1>4, GetsState DEF a
<1>6. /\ y.state = s /\ y.probe = None /\ y.run = NoRun /\ y.progress.completed = y.spent
      /\ y.afl = disk.afl /\ y.summary = disk.summary /\ y.report = disk.report /\ y.crash_files = FALSE
  BY <1>4 DEF Archived, Known
<1> HIDE DEF y
<1>7. TriageRests(y) /\ CrashRests(y)
  BY <1>6 DEF TriageRests, CrashRests
<1>8. ArtifactRests(y)
  BY <1>2, <1>6 DEF ArtifactRests, Rests, Alike
<1>9. Rests(y)
  BY <1>1, <1>6, <1>7, <1>8 DEF Rests
<1> QED
  BY <1>5, <1>9, DoGets DEF a, r, b

LEMMA RepairRests ==
  ASSUME CoreInv, PendingRests, RepairQuartetHarness, pending' \in Seq(Writes)
  PROVE  PendingRests'
<1>1. /\ AtStage("quartet_gate") /\ AtTop /\ st.stage = "quartet_gate"
      /\ st \in LiveStates /\ st \in Alike(st) /\ pending = <<>> /\ disk \in GoodDisks
  BY TopRests DEF RepairQuartetHarness, CoreInv, TypeInv, AtStage
<1>2. disk.quartet \in Reviews
  BY <1>1 DEF GoodDisks
<1>3. (\E e \in PolicyErrors \cup ToolErrors \cup {"missing"} : Do(<<>>, e) \/ Interrupted(<<>>)) => PendingRests'
  BY <1>1, NothingRests
<1>4. CASE Finding /\ ApplyQuartetState(disk.quartet, <<>>)
  <2>1. disk.probe # None /\ <<>> \in Seq(Idle)
    BY <1>4, EmptySeq DEF Finding, Findings, None
  <2> QED
    BY <1>1, <1>2, <1>4, <2>1, GateRests
<1>5. ASSUME NEW e, Do(Save(Flag(st, "quartet_review_required", "repair")), e)
      PROVE  PendingRests'
  <2> DEFINE s == Flag(st, "quartet_review_required", "repair")
  <2>1. s \in Alike(st) /\ s.stage = "quartet_gate" /\ s.status = "quartet_review_required"
    <3>1. "quartet_review_required" \in Statuses /\ "repair" \in Errors
          /\ "quartet_review_required" # "quartet_repair_pending"
      BY ErrorTypes DEF Statuses, MANUAL_STATUSES, OwnErrors
    <3> QED
      BY <1>1, <3>1, AlikeMoves
  <2> HIDE DEF s
  <2>2. Steadily(st, s)
    BY <1>1, <2>1 DEF Steadily, BeforeGate, Preparation, Fuzzed, Over
  <2> QED
    BY <1>1, <1>5, <2>2, PlainState, DoPlain DEF s
<1>6. CASE /\ disk.quartet # NoReview
           /\ Do(<<W("rewritten", {})>> \o Rebuilt(disk.quartet.target)
                   \o ArchivePreGenerationResults \o Save(Repaired(st)), None)
  <2> DEFINE s == Repaired(st)
             t == disk.quartet.target
  <2>1. t \in Targets
    BY <1>2, <1>6 DEF Reviews
  <2>2. s \in Alike(st) /\ s.stage = "smoke" /\ s.status = "generated"
    <3>1. s \in GoodStates
      BY <1>1, CountedOn, GoesOnWell DEF LiveStates, RepairQuartetHarness
    <3> QED
      BY <1>1, <3>1 DEF Repaired, To, Alike, GoodStates, State
  <2> HIDE DEF s, t
  <2>3. st.stage \notin Over /\ {} \in SUBSET Targets
    BY <1>1 DEF Over
  <2> QED
    BY <1>1, <1>6, <2>1, <2>2, <2>3, ReplacedRests DEF s, t
<1>7. \/ \E e \in PolicyErrors \cup ToolErrors \cup {"missing"} : Do(<<>>, e) \/ Interrupted(<<>>)
      \/ Finding /\ ApplyQuartetState(disk.quartet, <<>>)
      \/ \E e \in BuildErrors : Do(Save(Flag(st, "quartet_review_required", "repair")), e)
      \/ /\ disk.quartet # NoReview
         /\ Do(<<W("rewritten", {})>> \o Rebuilt(disk.quartet.target)
                 \o ArchivePreGenerationResults \o Save(Repaired(st)), None)
  BY DEF RepairQuartetHarness
<1>8. (\E e \in BuildErrors : Do(Save(Flag(st, "quartet_review_required", "repair")), e)) => PendingRests'
  BY <1>5
<1> QED
  BY <1>3, <1>4, <1>6, <1>7, <1>8

LEMMA GenerateRests ==
  ASSUME CoreInv, PendingRests, Generate
  PROVE  PendingRests'
<1>1. /\ AtTop /\ st \in LiveStates /\ st \in Alike(st) /\ st.stage = "fuzzing" /\ pending = <<>>
      /\ disk \in Disk
  BY TopRests DEF Generate, AtStage
<1> DEFINE target == IF disk.smoke # None THEN disk.smoke ELSE disk.manifest
           harnesses == IF route = "native_generated" THEN disk.rewritten ELSE disk.rewritten \cup {target}
           write  == W("rewritten", harnesses)
           undone == <<write, W("rewritten", disk.rewritten)>>
           s == [To(st, "smoke", "generated") EXCEPT !.harness_generation = @ + 1]
<1>2. CASE \E e \in {"missing", "evidence"} : Do(<<>>, e)
  BY <1>1, <1>2, NothingRests
<1> SUFFICES ASSUME disk.manifest # None,
               \/ \E e \in BuildErrors : Do(undone \o Save(Flag(st, "generation_failed", e)), e)
               \/ Interrupted(undone)
               \/ Do(<<write>> \o Rebuilt(target) \o ArchivePreGenerationResults \o Save(s), None)
    PROVE PendingRests'
  BY <1>2 DEF Generate
<1>3. target \in Targets /\ harnesses \in SUBSET Targets /\ disk.rewritten \in SUBSET Targets
  BY <1>1 DEF Disk
<1> HIDE DEF harnesses, target
<1>4. undone \in Seq(Plain(st))
  <2>1. undone \in Seq(Idle)
    BY <1>3, IdleFiles, Pair
  <2> QED
    BY <2>1, IdleIsPlain
<1> HIDE DEF undone
<1>5. Interrupted(undone) => PendingRests'
  BY <1>1, <1>4, DoPlain
<1>6. ASSUME NEW e \in BuildErrors, Do(undone \o Save(Flag(st, "generation_failed", e)), e)
      PROVE  PendingRests'
  <2> DEFINE t == Flag(st, "generation_failed", e)
  <2>1. t \in Alike(st) /\ t.stage = "fuzzing" /\ t.status = "generation_failed"
    <3>1. "generation_failed" \in Statuses /\ e \in Errors /\ "generation_failed" # "quartet_repair_pending"
      BY FuzzingStatuses, ErrorTypes
    <3> QED
      BY <1>1, <3>1, AlikeMoves
  <2> HIDE DEF t
  <2>2. Steadily(st, t)
    BY <1>1, <2>1 DEF Steadily, BeforeGate, Preparation, Fuzzed, Over
  <2>3. undone \o Save(t) \in Seq(Plain(st))
    BY <1>4, <2>2, PlainState, ConcatProperties
  <2> QED
    BY <1>1, <1>6, <2>3, DoPlain DEF t
<1>7. CASE Do(<<write>> \o Rebuilt(target) \o ArchivePreGenerationResults \o Save(s), None)
  <2>1. s \in Alike(st) /\ s.stage = "smoke" /\ s.status = "generated"
    <3>1. s \in GoodStates
      BY <1>1, CountedOn, GoesOnWell DEF Generate
    <3> QED
      BY <1>1, <3>1 DEF To, Alike, GoodStates, State
  <2> HIDE DEF s
  <2>2. st.stage \notin Over
    BY <1>1 DEF Over
  <2> QED
    BY <1>1, <1>3, <1>7, <2>1, <2>2, ReplacedRests
<1>8. (\E e \in BuildErrors : Do(undone \o Save(Flag(st, "generation_failed", e)), e)) => PendingRests'
  BY <1>6
<1> QED
  BY <1>5, <1>7, <1>8

-----------------------------------------------------------------------------
(* The campaign.                                                           *)

\* The files during a campaign, its time booked.
InCampaign(v) ==
  /\ v \in Known /\ v.progress.completed = v.spent /\ v.state.status # "exhausted"
  /\ v.state.central_improvement >= Floor
  /\ v.state.triage_artifact \in {None, "afl"} /\ (v.state.triage_artifact = "afl" => v.afl # None)

\* A state the campaign goes on or ends with.
Goes(s, d) ==
  /\ d \in GoodStates /\ d.status # "exhausted" /\ d.active = NoSession
  /\ d.central_improvement = s.central_improvement
Silent(v) == Unstopped => ~v.crash_files
Ends(v, d) ==
  /\ Goes(v.state, d)
  /\ \/ /\ d.stage = "fuzzing" /\ d.triage_artifact = v.state.triage_artifact /\ Silent(v)
     \/ /\ d.stage = "triage" /\ d.triage_artifact = "run"
        /\ v.run.result = "finding" /\ v.crash_files
     \/ /\ d.stage = "triage" /\ d.triage_artifact = v.state.triage_artifact
        /\ v.run # NoRun /\ (d.low_yield \/ v.progress.completed = Budget) /\ Silent(v)
     \/ /\ d.stage = "triage" /\ d.triage_artifact = "afl"
        /\ v.afl = "finding" /\ v.crash_files
     \/ /\ d.stage = "triage" /\ d.triage_artifact = "afl"
        /\ v.afl # None /\ v.progress.completed = Budget /\ Silent(v)

LEMMA CampaignEnds ==
  ASSUME NEW v, InCampaign(v), NEW d, Ends(v, d)
  PROVE  Rests([v EXCEPT !.state = d])
<1> DEFINE z == [v EXCEPT !.state = d]
<1>1. /\ z.state = d /\ z.probe = v.probe /\ z.run = v.run /\ z.progress = v.progress
      /\ z.afl = v.afl /\ z.crash_files = v.crash_files /\ z.summary = v.summary
      /\ z.report = v.report /\ z.spent = v.spent
  BY DEF InCampaign, Known
<1> HIDE DEF z
<1>2. NoRun.result # "finding" /\ None # "finding"
  BY DEF NoRun, None
<1>3. TriageRests(z)
  BY <1>1, <1>2 DEF TriageRests, InCampaign, Ends, Silent, ListedIn, ThereIn, Worked
<1>4. ArtifactRests(z)
  BY <1>1, <1>2 DEF ArtifactRests, InCampaign, Ends, Goes, Over
<1>5. CrashRests(z)
  BY <1>1 DEF CrashRests, Ends, Goes, Silent, BeforeGate, Preparation, Fuzzed
<1>6. Rests(z)
  BY <1>1, <1>3, <1>4, <1>5 DEF Rests, InCampaign, Ends, Goes
<1> QED
  BY <1>6 DEF z

LEMMA CampaignSaves ==
  ASSUME NEW ws, NEW v, Gets(ws, Snapshot, v), InCampaign(v), NEW d, Ends(v, d), NEW e,
         Do(ws \o Save(d), e) \/ Interrupted(ws \o Save(d))
  PROVE  PendingRests'
<1>1. Gets(ws \o Save(d), Snapshot, [v EXCEPT !.state = d])
  BY GetsState DEF Ends, Goes
<1> QED
  BY <1>1, CampaignEnds, DoGets

LEMMA CampaignReplans ==
  ASSUME NEW ws, NEW v, Gets(ws, Snapshot, v), InCampaign(v), NEW s,
         Ends(v, To(s, "fuzzing", "harness_work_pending")), NEW e, Do(ws \o Replan(s), e)
  PROVE  PendingRests'
<1> DEFINE d == To(s, "fuzzing", "harness_work_pending")
           p == <<W("plan", "work")>>
           t == Save(d)
<1>1. p \in Seq(Idle) /\ p \in Seq(Writes) /\ ws \in Seq(Writes) /\ t \in Seq(Writes)
  <2>1. W("plan", "work") \in Idle
    BY IdleFiles
  <2>2. d \in GoodStates
    BY DEF Ends, Goes
  <2> QED
    BY <2>1, <2>2, Single DEF Idle, Gets, Save, W, Writes
<1>2. ws \o Replan(s) = ws \o (p \o t)
  BY DEF Replan
<1> HIDE DEF p, d
<1>3. Gets(ws \o p, Snapshot, v)
  BY <1>1, GetsIdle
<1>4. ws \o (p \o t) = (ws \o p) \o t
  <2> HIDE DEF t
  <2>1. Join(ws, Join(p, t)) = Join(Join(ws, p), t)
    BY <1>1, JoinAssociates
  <2> QED
    BY <2>1 DEF Join
<1>5. Do((ws \o p) \o Save(d), e) /\ Ends(v, d)
  BY <1>2, <1>4 DEF t, d
<1> QED
  BY <1>3, <1>5, CampaignSaves

LEMMA CampaignStates ==
  ASSUME NEW s \in LiveStates, s.stage = "fuzzing"
  PROVE  LET idle == [s EXCEPT !.active = NoSession]
             Onwards(d) == Goes(s, d) /\ d.stage = "fuzzing" /\ d.triage_artifact = s.triage_artifact
             Triaged(d) == Goes(s, d) /\ d.stage = "triage"
         IN  /\ Onwards(To(idle, "fuzzing", "ready"))
             /\ Onwards(To(idle, "fuzzing", "harness_work_pending"))
             /\ Onwards([To(idle, "fuzzing", "ready") EXCEPT !.status = "afl_cmplog_pending"])
             /\ Onwards(AtLeastOneFailure([Flag(idle, "manual_review", "exhausted") EXCEPT !.bounded = TRUE]))
             /\ Onwards([s EXCEPT !.active = NoSession, !.status = "interrupted"])
             /\ Triaged(Finished(idle)) /\ Finished(idle).triage_artifact = s.triage_artifact
             /\ Triaged([Finished(idle) EXCEPT !.low_yield = TRUE])
             /\ [Finished(idle) EXCEPT !.low_yield = TRUE].triage_artifact = s.triage_artifact
             /\ [Finished(idle) EXCEPT !.low_yield = TRUE].low_yield
             /\ Triaged([Finished(idle) EXCEPT !.triage_artifact = "run"])
             /\ [Finished(idle) EXCEPT !.triage_artifact = "run"].triage_artifact = "run"
             /\ Triaged([Finished(idle) EXCEPT !.triage_artifact = "afl"])
             /\ [Finished(idle) EXCEPT !.triage_artifact = "afl"].triage_artifact = "afl"
<1> DEFINE idle == [s EXCEPT !.active = NoSession]
           person == AtLeastOneFailure([Flag(idle, "manual_review", "exhausted") EXCEPT !.bounded = TRUE])
           Onwards(d) == Goes(s, d) /\ d.stage = "fuzzing" /\ d.triage_artifact = s.triage_artifact
           Triaged(d) == Goes(s, d) /\ d.stage = "triage"
<1>1. /\ idle \in LiveStates /\ idle.stage = "fuzzing" /\ idle.active = NoSession
      /\ idle.central_improvement = s.central_improvement /\ idle.triage_artifact = s.triage_artifact
      /\ idle \in State
  BY SessionStates DEF LiveStates, State
<1>2. Onwards([s EXCEPT !.active = NoSession, !.status = "interrupted"])
  <2>1. [s EXCEPT !.active = NoSession, !.status = "interrupted"] \in LiveStates
    BY FuzzingStatuses DEF LiveStates, State
  <2> QED
    BY <2>1, LiveIsGood DEF Goes, LiveStates, State
<1> HIDE DEF idle
<1>3. person \in GoodStates
  BY <1>1, GivenToPerson
<1>4. Onwards(person)
  BY <1>1, <1>3 DEF AtLeastOneFailure, Flag, Goes, State
<1>5. To(idle, "fuzzing", "harness_work_pending") \in GoodStates
  BY <1>1, FuzzingStatuses, MovesOn
<1>6. /\ Finished(idle) \in GoodStates
      /\ [Finished(idle) EXCEPT !.triage_artifact = "run"] \in GoodStates
      /\ [Finished(idle) EXCEPT !.triage_artifact = "afl"] \in GoodStates
      /\ [Finished(idle) EXCEPT !.low_yield = TRUE] \in GoodStates
      /\ To(idle, "fuzzing", "ready") \in GoodStates
      /\ [To(idle, "fuzzing", "ready") EXCEPT !.status = "afl_cmplog_pending"] \in GoodStates
  BY <1>1, SessionStates, LiveIsGood
<1>7. Onwards(To(idle, "fuzzing", "ready")) /\ Onwards(To(idle, "fuzzing", "harness_work_pending"))
  BY <1>1, <1>5, <1>6 DEF To, Goes, State
<1>8. Onwards([To(idle, "fuzzing", "ready") EXCEPT !.status = "afl_cmplog_pending"])
  BY <1>1, <1>6 DEF To, Goes, State
<1>9. Triaged(Finished(idle)) /\ Finished(idle).triage_artifact = s.triage_artifact
  BY <1>1, <1>6 DEF To, Finished, Goes, State
<1>10. /\ Triaged([Finished(idle) EXCEPT !.low_yield = TRUE])
       /\ [Finished(idle) EXCEPT !.low_yield = TRUE].triage_artifact = s.triage_artifact
       /\ [Finished(idle) EXCEPT !.low_yield = TRUE].low_yield
  BY <1>1, <1>6 DEF To, Finished, Goes, State
<1>11. /\ Triaged([Finished(idle) EXCEPT !.triage_artifact = "run"])
       /\ [Finished(idle) EXCEPT !.triage_artifact = "run"].triage_artifact = "run"
  BY <1>1, <1>6 DEF To, Finished, Goes, State
<1>12. /\ Triaged([Finished(idle) EXCEPT !.triage_artifact = "afl"])
       /\ [Finished(idle) EXCEPT !.triage_artifact = "afl"].triage_artifact = "afl"
  BY <1>1, <1>6 DEF To, Finished, Goes, State
<1> QED
  BY <1>2, <1>4, <1>7, <1>8, <1>9, <1>10, <1>11, <1>12 DEF idle

\* The time of a session is added.
Booked(v, p, z) ==
  /\ z \in Known /\ z.progress = p /\ z.spent = p.completed
  /\ z.state = v.state /\ z.probe = v.probe /\ z.run = v.run /\ z.afl = v.afl
  /\ z.crash_files = v.crash_files /\ z.summary = v.summary /\ z.report = v.report

LEMMA GetsBooked ==
  ASSUME NEW ws, NEW x, NEW v, Gets(ws, x, v), v.state.status # "exhausted",
         NEW p \in Progresses, p.completed >= v.spent
  PROVE  \E z : Booked(v, p, z) /\ Gets(ws \o <<W("progress", p)>>, x, z)
<1> DEFINE n == IF v.own \/ p.completed > v.spent THEN p.completed ELSE v.spent
           z == [v EXCEPT !.progress = p, !.spent = n]
<1>1. v \in Known
  BY DEF Gets
<1>2. p.completed \in 0..Budget /\ v.spent \in 0..Budget /\ Budget \in Nat
  BY <1>1, Bounds DEF Progresses, Known
<1>3. n = p.completed
  BY <1>2
<1>4. Gets(ws \o <<W("progress", p)>>, x, z)
  BY GetsTime
<1>5. z \in Known
  BY <1>4 DEF Gets
<1> HIDE DEF n
<1>6. /\ z.progress = p /\ z.spent = n
      /\ z.state = v.state /\ z.probe = v.probe /\ z.run = v.run /\ z.afl = v.afl
      /\ z.crash_files = v.crash_files /\ z.summary = v.summary /\ z.report = v.report
  BY <1>1 DEF Known
<1> HIDE DEF z
<1> QED
  BY <1>3, <1>4, <1>5, <1>6 DEF Booked

LEMMA ResultRests ==
  ASSUME CoreInv, NEW run \in Runs, run # NoRun, NEW before, NEW v, Gets(before, Snapshot, v), InCampaign(v),
         v.state \in LiveStates, v.state.stage = "fuzzing",
         v.run = run, v.progress = disk.progress,
         run.result = "finding" => v.crash_files, run.result # "finding" => Silent(v),
         ApplyFuzzResult(v.state, run, before)
  PROVE  PendingRests'
<1> DEFINE s == v.state
<1>1. PICK advanced \in BOOLEAN :
    LET old   == disk.progress
        new   == [Add(old, run.time) EXCEPT !.accounted = run.session,
                                            !.stalled = IF run.time = 0 THEN @ ELSE ~advanced]
        known == old.accounted = run.session
        p     == IF known THEN old ELSE new
        saved == before \o (IF known THEN <<>> ELSE <<W("progress", new)>>)
        idle  == [s EXCEPT !.active = NoSession]
        next  == To(idle, "fuzzing", "ready")
        afl   == route # "native_generated" /\ p.stalled /\ disk.afl = None
    IN
      \/ /\ run.result = "finding"
         /\ Do(saved \o Save([Finished(idle) EXCEPT !.triage_artifact = "run"]), None)
      \/ /\ run.result = "broken"
         /\ Do(saved \o Save(AtLeastOneFailure(
                 [Flag(idle, "manual_review", "exhausted") EXCEPT !.bounded = TRUE])), None)
      \/ /\ run.result = "quiet"
         /\ \/ disk.probe # None /\ p.completed > 0 /\ Do(saved \o LowYield(idle), None)
            \/ p.completed = Budget /\ Do(saved \o Save(Finished(idle)), None)
            \/ /\ p.completed < Budget /\ ~afl /\ p.stalled /\ CanReplan
               /\ Do(saved \o Replan(idle), None)
            \/ /\ p.completed < Budget
               /\ Do(saved \o Save(IF afl THEN [next EXCEPT !.status = "afl_cmplog_pending"]
                                          ELSE next), None)
  BY DEF ApplyFuzzResult
<1> DEFINE old   == disk.progress
           new   == [Add(old, run.time) EXCEPT !.accounted = run.session,
                                               !.stalled = IF run.time = 0 THEN @ ELSE ~advanced]
           known == old.accounted = run.session
           p     == IF known THEN old ELSE new
           saved == before \o (IF known THEN <<>> ELSE <<W("progress", new)>>)
           idle  == [s EXCEPT !.active = NoSession]
           next  == To(idle, "fuzzing", "ready")
           afl   == route # "native_generated" /\ p.stalled /\ disk.afl = None
           person == AtLeastOneFailure([Flag(idle, "manual_review", "exhausted") EXCEPT !.bounded = TRUE])
           delayed == [next EXCEPT !.status = "afl_cmplog_pending"]
<1>2. v \in Known /\ before \in Seq(Writes)
  BY DEF Gets
<1>3. \E z : Gets(saved, Snapshot, z) /\ Booked(v, p, z)
  <2>1. old \in Progresses /\ old.completed = v.spent /\ v.state.status # "exhausted"
    BY <1>2 DEF InCampaign, Known
  <2>2. CASE known
    <3>1. saved = before
      <4> HIDE DEF known, new
      <4>1. saved = before \o <<>>
        BY <2>2
      <4> QED
        BY <1>2, <4>1, ConcatEmptySeq
    <3>2. Booked(v, p, v)
      BY <1>2, <2>1, <2>2 DEF Booked
    <3> QED
      BY <3>1, <3>2
  <2>3. CASE ~known
    <3>1. new \in Progresses /\ new.completed >= old.completed
      <4>1. run.time \in 0..1 /\ run.session \in {NoSession} \cup Sessions
        BY DEF Runs
      <4>2. Add(old, run.time) \in Progresses /\ Add(old, run.time).completed >= old.completed
        BY <2>1, <4>1, TimeAdds
      <4> QED
        BY <4>1, <4>2 DEF Progresses
    <3> HIDE DEF new, known
    <3>2. \E z : Booked(v, new, z) /\ Gets(before \o <<W("progress", new)>>, Snapshot, z)
      BY <2>1, <3>1, GetsBooked
    <3>3. saved = before \o <<W("progress", new)>> /\ p = new
      BY <2>3
    <3> QED
      BY <3>2, <3>3
  <2> QED
    BY <2>2, <2>3
<1>4. PICK z : Gets(saved, Snapshot, z) /\ Booked(v, p, z)
  BY <1>3
<1>5. /\ z.state = s /\ z.run = run /\ z.progress = p /\ InCampaign(z)
      /\ run.result = "finding" => z.crash_files
      /\ run.result # "finding" => Silent(z)
  BY <1>4 DEF Booked, InCampaign, Silent
<1>6. /\ Goes(s, next) /\ next.stage = "fuzzing" /\ next.triage_artifact = s.triage_artifact
      /\ Goes(s, delayed) /\ delayed.stage = "fuzzing" /\ delayed.triage_artifact = s.triage_artifact
      /\ Goes(s, To(idle, "fuzzing", "harness_work_pending"))
      /\ To(idle, "fuzzing", "harness_work_pending").stage = "fuzzing"
      /\ To(idle, "fuzzing", "harness_work_pending").triage_artifact = s.triage_artifact
      /\ Goes(s, person) /\ person.stage = "fuzzing" /\ person.triage_artifact = s.triage_artifact
  BY CampaignStates
<1>7. /\ Goes(s, Finished(idle)) /\ Finished(idle).stage = "triage"
      /\ Finished(idle).triage_artifact = s.triage_artifact
      /\ Goes(s, [Finished(idle) EXCEPT !.low_yield = TRUE])
      /\ [Finished(idle) EXCEPT !.low_yield = TRUE].stage = "triage"
      /\ [Finished(idle) EXCEPT !.low_yield = TRUE].triage_artifact = s.triage_artifact
      /\ [Finished(idle) EXCEPT !.low_yield = TRUE].low_yield
      /\ Goes(s, [Finished(idle) EXCEPT !.triage_artifact = "run"])
      /\ [Finished(idle) EXCEPT !.triage_artifact = "run"].stage = "triage"
      /\ [Finished(idle) EXCEPT !.triage_artifact = "run"].triage_artifact = "run"
  BY CampaignStates
<1>8. "quiet" # "finding" /\ "broken" # "finding"
  OBVIOUS
<1> HIDE DEF next, delayed, person, idle, saved, p, s, To, Finished
<1>9. CASE run.result = "finding" /\ Do(saved \o Save([Finished(idle) EXCEPT !.triage_artifact = "run"]), None)
  <2>1. Ends(z, [Finished(idle) EXCEPT !.triage_artifact = "run"])
    BY <1>5, <1>7, <1>9 DEF Ends
  <2> QED
    BY <1>4, <1>5, <1>9, <2>1, CampaignSaves
<1>10. CASE run.result = "broken" /\ Do(saved \o Save(person), None)
  <2>1. Ends(z, person)
    BY <1>5, <1>6, <1>8, <1>10 DEF Ends
  <2> QED
    BY <1>4, <1>5, <1>10, <2>1, CampaignSaves
<1>11. CASE run.result = "quiet" /\ Do(saved \o Save([Finished(idle) EXCEPT !.low_yield = TRUE]), None)
  <2>1. Ends(z, [Finished(idle) EXCEPT !.low_yield = TRUE])
    BY <1>5, <1>7, <1>8, <1>11 DEF Ends
  <2> QED
    BY <1>4, <1>5, <1>11, <2>1, CampaignSaves
<1>12. CASE run.result = "quiet" /\ p.completed = Budget /\ Do(saved \o Save(Finished(idle)), None)
  <2>1. Ends(z, Finished(idle))
    BY <1>5, <1>7, <1>8, <1>12 DEF Ends
  <2> QED
    BY <1>4, <1>5, <1>12, <2>1, CampaignSaves
<1>13. CASE run.result = "quiet" /\ Do(saved \o Replan(idle), None)
  <2>1. Ends(z, To(idle, "fuzzing", "harness_work_pending"))
    BY <1>5, <1>6, <1>8, <1>13 DEF Ends
  <2> QED
    BY <1>4, <1>5, <1>13, <2>1, CampaignReplans
<1>14. CASE run.result = "quiet" /\ \E d \in {next, delayed} : Do(saved \o Save(d), None)
  <2>1. Ends(z, next) /\ Ends(z, delayed)
    BY <1>5, <1>6, <1>8, <1>14 DEF Ends
  <2> QED
    BY <1>4, <1>5, <1>14, <2>1, CampaignSaves
<1>15. \/ run.result = "finding" /\ Do(saved \o Save([Finished(idle) EXCEPT !.triage_artifact = "run"]), None)
       \/ run.result = "broken" /\ Do(saved \o Save(person), None)
       \/ run.result = "quiet" /\ Do(saved \o Save([Finished(idle) EXCEPT !.low_yield = TRUE]), None)
       \/ run.result = "quiet" /\ p.completed = Budget /\ Do(saved \o Save(Finished(idle)), None)
       \/ run.result = "quiet" /\ Do(saved \o Replan(idle), None)
       \/ run.result = "quiet" /\ \E d \in {next, delayed} : Do(saved \o Save(d), None)
  BY <1>1 DEF idle, saved, p, person, next, delayed, LowYield, s
<1> QED
  BY <1>9, <1>10, <1>11, <1>12, <1>13, <1>14, <1>15

LEMMA LostRests ==
  ASSUME CoreInv, NEW ws, NEW leftovers, NEW v, Gets(ws \o leftovers, Snapshot, v), InCampaign(v),
         v.progress = disk.progress, Silent(v), NEW s \in LiveStates, s.stage = "fuzzing",
         s.triage_artifact = v.state.triage_artifact, s.central_improvement = v.state.central_improvement,
         NEW time \in 0..1, NEW e,
         Do(SessionLost(ws, s, time, leftovers), e) \/ Interrupted(SessionLost(ws, s, time, leftovers))
  PROVE  PendingRests'
<1> DEFINE p     == Add(disk.progress, time)
           books == IF time = 0 THEN <<>> ELSE <<W("progress", p)>>
           over  == [s EXCEPT !.active = NoSession, !.status = "interrupted"]
           a     == ws \o leftovers
<1>1. v \in Known /\ a \in Seq(Writes)
  BY DEF Gets
<1>2. p \in Progresses /\ p.completed >= v.spent /\ v.state.status # "exhausted"
  <2>1. disk.progress \in Progresses /\ disk.progress.completed = v.spent
    BY <1>1 DEF InCampaign, Known
  <2> QED
    BY <2>1, TimeAdds DEF InCampaign
<1>3. Goes(s, over) /\ over.stage = "fuzzing" /\ over.triage_artifact = s.triage_artifact
  BY CampaignStates
<1>4. SessionLost(ws, s, time, leftovers) = a \o books \o Save(over)
  BY DEF SessionLost
<1> HIDE DEF p, over, a
<1>5. \E z : Gets(a \o books, Snapshot, z) /\ InCampaign(z) /\ Silent(z) /\ z.state = v.state
  <2>1. CASE time = 0
    <3>1. a \o books = a
      BY <1>1, <2>1, ConcatEmptySeq
    <3> HIDE DEF books
    <3> QED
      BY <3>1 DEF a
  <2>2. CASE time # 0
    <3>1. books = <<W("progress", p)>>
      BY <2>2
    <3>2. PICK z : Booked(v, p, z) /\ Gets(a \o <<W("progress", p)>>, Snapshot, z)
      BY <1>2, GetsBooked DEF a
    <3>3. InCampaign(z) /\ Silent(z) /\ z.state = v.state
      BY <3>2 DEF Booked, InCampaign, Silent
    <3> HIDE DEF books
    <3> QED
      BY <3>1, <3>2, <3>3
  <2> QED
    BY <2>1, <2>2
<1>6. PICK z : Gets(a \o books, Snapshot, z) /\ InCampaign(z) /\ Silent(z) /\ z.state = v.state
  BY <1>5
<1> HIDE DEF books
<1>7. Ends(z, over)
  BY <1>3, <1>6 DEF Ends, Goes
<1> QED
  BY <1>4, <1>6, <1>7, CampaignSaves

\* The files while a session runs, and once its result is saved.
InSession(v, running) == /\ InCampaign(v) /\ v.state = running /\ v.progress = disk.progress

LEMMA SessionGets ==
  ASSUME CoreInv, PendingRests, AtStage("fuzzing"), NEW running \in LiveStates, running.stage = "fuzzing",
         running.triage_artifact = st.triage_artifact, running.central_improvement = st.central_improvement,
         running.status = "running"
  PROVE  /\ Save(running) \o <<>> = Save(running)
         /\ \E v : Gets(Save(running), Snapshot, v) /\ InSession(v, running) /\ Silent(v)
         /\ \E v : /\ Gets(Save(running) \o <<W("crash_files", TRUE)>>, Snapshot, v)
                   /\ InSession(v, running) /\ v.crash_files
<1>1. /\ pending = <<>> /\ st.stage = "fuzzing" /\ st.status # "exhausted" /\ running \in GoodStates
  BY TopRests, LiveIsGood DEF AtStage
<1>2. /\ Gets(<<>>, Snapshot, Now) /\ Now \in Known /\ Rests(Now) /\ Now.state = st
      /\ Now.progress = disk.progress
  BY <1>1, RestNow, NowReads
<1>3. Save(running) \in Seq(Writes)
  BY <1>1, Single DEF Save, W, Writes
<1> DEFINE v == [Now EXCEPT !.state = running]
           z == [v EXCEPT !.crash_files = TRUE]
           a == Save(running)
<1>4. Gets(a, Snapshot, v)
  <2>1. <<>> \o a = a
    BY <1>3, ConcatEmptySeq
  <2>2. Gets(<<>> \o a, Snapshot, v)
    BY <1>1, <1>2, GetsState
  <2> QED
    BY <2>1, <2>2
<1>5. v.state = running /\ v.afl = Now.afl /\ v.spent = Now.spent /\ v.progress = disk.progress
      /\ v.crash_files = Now.crash_files /\ v \in Known
  BY <1>2, <1>4 DEF Known, Gets
<1>6. z.state = running /\ z.afl = Now.afl /\ z.spent = Now.spent /\ z.progress = disk.progress
      /\ z.crash_files = TRUE /\ z \in Known
  BY <1>2, <1>5 DEF Known
<1> HIDE DEF v
<1>7. Gets(a \o <<W("crash_files", TRUE)>>, Snapshot, z)
  <2>1. W("crash_files", TRUE) \in Writes
    BY FileWriteIsEarly, EarlyIsWrites
  <2> HIDE DEF a
  <2> QED
    BY <1>4, <1>5, <2>1, GetsFile DEF ResultFiles
<1> HIDE DEF z, a
<1>8. /\ st.triage_artifact \in {None, "afl"} /\ (st.triage_artifact = "afl" => Now.afl # None)
      /\ Now.progress.completed = Now.spent /\ st.central_improvement >= Floor
      /\ (Unstopped => ~Now.crash_files)
  BY <1>1, <1>2 DEF Rests, ArtifactRests, CrashRests, Over, Fuzzed
<1>9. InSession(v, running) /\ Silent(v) /\ InSession(z, running)
  BY <1>2, <1>5, <1>6, <1>8 DEF InSession, InCampaign, Silent
<1>10. Save(running) \o <<>> = Save(running)
  BY <1>3, ConcatEmptySeq
<1> QED
  BY <1>4, <1>6, <1>7, <1>9, <1>10 DEF a

LEMMA RunGets ==
  ASSUME NEW ws, NEW v, Gets(ws, Snapshot, v), NEW running, running.status # "exhausted",
         InSession(v, running), NEW run \in Runs
  PROVE  \E z : /\ Gets(ws \o <<W("run", run)>>, Snapshot, z) /\ InSession(z, running)
                /\ z.run = run /\ z.crash_files = v.crash_files
<1> DEFINE z == [v EXCEPT !.run = run]
<1>1. W("run", run) \in Writes
  BY FileWriteIsEarly, EarlyIsWrites
<1>2. Gets(ws \o <<W("run", run)>>, Snapshot, z)
  BY <1>1, GetsFile DEF ResultFiles, InSession
<1>3. z.state = v.state /\ z.afl = v.afl /\ z.spent = v.spent /\ z.progress = v.progress
      /\ z.crash_files = v.crash_files /\ z.run = run /\ z \in Known
  BY <1>2 DEF Known, Gets
<1> HIDE DEF z
<1>4. InSession(z, running)
  BY <1>3 DEF InSession, InCampaign
<1> QED
  BY <1>2, <1>3, <1>4

LEMMA FuzzSessionRests ==
  ASSUME CoreInv, PendingRests, AtStage("fuzzing"),
         NEW s \in LiveStates, s \in Alike(st), s.stage = "fuzzing", FuzzSession(s)
  PROVE  PendingRests'
<1> DEFINE id      == FreshSession
           running == [s EXCEPT !.status = "running", !.last_error = None, !.active = id]
           start   == Save(running)
           crash   == <<W("crash_files", TRUE)>>
<1>1. /\ running \in LiveStates /\ running.stage = "fuzzing" /\ running.status = "running"
      /\ running.triage_artifact = st.triage_artifact
      /\ running.central_improvement = st.central_improvement
  BY FreshSessionType, FuzzingStatuses DEF LiveStates, State, Alike
<1> HIDE DEF running
<1>2. ASSUME NEW e \in {"missing", "stopped"} \cup ToolErrors
      PROVE  /\ Flag(running, "running", e) \in LiveStates /\ Flag(running, "running", e).stage = "fuzzing"
             /\ Flag(running, "running", e).triage_artifact = running.triage_artifact
             /\ Flag(running, "running", e).central_improvement = running.central_improvement
  <2>1. e \in Errors /\ "running" \in Statuses /\ "running" # "quartet_repair_pending"
    BY FuzzingStatuses, ErrorTypes
  <2>2. Flag(running, "running", e) \in LiveStates
    BY <1>1, <2>1, Flagged
  <2> QED
    BY <1>1, <2>2 DEF Flag, LiveStates, State
<1>3. /\ start \o <<>> = start
      /\ \E v : Gets(start, Snapshot, v) /\ InSession(v, running) /\ Silent(v)
      /\ \E v : Gets(start \o crash, Snapshot, v) /\ InSession(v, running) /\ v.crash_files
  BY <1>1, SessionGets
<1> HIDE DEF start, crash
<1>4. PICK u : Gets(start, Snapshot, u) /\ InSession(u, running) /\ Silent(u)
  BY <1>3
<1>5. PICK v : Gets(start \o crash, Snapshot, v) /\ InSession(v, running) /\ v.crash_files
  BY <1>3
<1>6. ASSUME NEW result \in {"quiet", "finding", "broken"}, NEW time \in 0..1
      PROVE  [result |-> result, session |-> id, time |-> time] \in Runs
  BY FreshSessionType DEF Runs
<1>7. ASSUME NEW result \in {"quiet", "finding", "broken"}, NEW files \in {<<>>, crash},
             (result = "finding") = (files = crash),
             LET run == [result |-> result, session |-> id, time |-> 1]
             IN  ApplyFuzzResult(running, run, start \o files \o <<W("run", run)>>)
      PROVE  PendingRests'
  <2> DEFINE run == [result |-> result, session |-> id, time |-> 1]
  <2>1. run \in Runs /\ run # NoRun /\ run.result = result
    <3>1. 1 \in 0..1
      OBVIOUS
    <3>2. run.result = result
      OBVIOUS
    <3>3. NoRun.result \notin {"quiet", "finding", "broken"}
      BY DEF NoRun, None
    <3> QED
      BY <1>6, <3>1, <3>2, <3>3
  <2>2. ApplyFuzzResult(running, run, start \o files \o <<W("run", run)>>)
    BY <1>7
  <2> HIDE DEF run
  <2>3. \E y : /\ Gets(start \o files, Snapshot, y) /\ InSession(y, running)
               /\ (result = "finding" => y.crash_files) /\ (result # "finding" => Silent(y))
    <3>1. CASE files = crash
      BY <1>5, <1>7, <3>1
    <3>2. CASE files = <<>> /\ files # crash
      BY <1>3, <1>4, <1>7, <3>2
    <3> QED
      BY <3>1, <3>2
  <2>4. PICK y : /\ Gets(start \o files, Snapshot, y) /\ InSession(y, running)
                 /\ (result = "finding" => y.crash_files) /\ (result # "finding" => Silent(y))
    BY <2>3
  <2> DEFINE a == start \o files
  <2>5. PICK z : /\ Gets(a \o <<W("run", run)>>, Snapshot, z) /\ InSession(z, running)
                 /\ z.run = run /\ z.crash_files = y.crash_files
    <3> HIDE DEF a
    <3> QED
      BY <1>1, <2>1, <2>4, RunGets DEF a
  <2>6. /\ result = "finding" => z.crash_files
        /\ result # "finding" => Silent(z)
    BY <2>4, <2>5 DEF Silent
  <2>7. InCampaign(z) /\ z.state = running /\ z.progress = disk.progress
    BY <2>5 DEF InSession
  <2> QED
    BY <1>1, <2>1, <2>2, <2>5, <2>6, <2>7, ResultRests
<1>8. ASSUME NEW e \in {"missing", "stopped"} \cup ToolErrors, NEW time \in 0..1,
             NEW leftovers, NEW y, Gets(start \o leftovers, Snapshot, y), InSession(y, running), Silent(y),
             \/ Do(SessionLost(start, Flag(running, "running", e), time, leftovers), e)
             \/ Interrupted(SessionLost(start, Flag(running, "running", e), time, leftovers))
      PROVE  PendingRests'
  <2>1. InCampaign(y) /\ y.state = running /\ y.progress = disk.progress
    BY <1>8 DEF InSession
  <2> QED
    BY <1>2, <1>8, <2>1, LostRests
<1>9. Do(SessionLost(start, Flag(running, "running", "missing"), 0, <<>>), "missing") => PendingRests'
  <2>1. 0 \in 0..1
    OBVIOUS
  <2> QED
    BY <1>3, <1>4, <1>8, <2>1
<1>10. ASSUME NEW time \in 0..1, NEW e \in ToolErrors, NEW written \in BOOLEAN,
             Do(SessionLost(start, Flag(running, "running", e), time,
                  IF written THEN <<W("run", [result |-> "broken", session |-> id, time |-> time])>>
                             ELSE <<>>), e)
      PROVE  PendingRests'
  <2>1. CASE written
    <3> DEFINE run == [result |-> "broken", session |-> id, time |-> time]
    <3>1. run \in Runs
      BY <1>6
    <3>2. Do(SessionLost(start, Flag(running, "running", e), time, <<W("run", run)>>), e)
      BY <1>10, <2>1
    <3> HIDE DEF run
    <3>3. PICK z : /\ Gets(start \o <<W("run", run)>>, Snapshot, z) /\ InSession(z, running)
                   /\ z.run = run /\ z.crash_files = u.crash_files
      BY <1>1, <1>4, <3>1, RunGets
    <3>4. Silent(z)
      BY <1>4, <3>3 DEF Silent
    <3> QED
      BY <1>8, <3>2, <3>3, <3>4
  <2>2. CASE ~written
    <3>1. Do(SessionLost(start, Flag(running, "running", e), time, <<>>), e)
      BY <1>10, <2>2
    <3> QED
      BY <1>3, <1>4, <1>8, <3>1
  <2> QED
    BY <2>1, <2>2
<1>11. ASSUME NEW time \in 0..1, NEW found \in BOOLEAN,
             Interrupted(SessionLost(start, Flag(running, "running", "stopped"), time,
                                     IF found THEN crash ELSE <<>>))
      PROVE  PendingRests'
  <2>1. CASE found
    <3>1. Interrupted(SessionLost(start, Flag(running, "running", "stopped"), time, crash))
      BY <1>11, <2>1
    <3>2. Silent(v)
      BY <3>1 DEF Silent, Unstopped, Interrupted, OperatorDoes
    <3> QED
      BY <1>5, <1>8, <3>1, <3>2
  <2>2. CASE ~found
    <3>1. Interrupted(SessionLost(start, Flag(running, "running", "stopped"), time, <<>>))
      BY <1>11, <2>2
    <3> QED
      BY <1>3, <1>4, <1>8, <3>1
  <2> QED
    BY <2>1, <2>2
<1>12. <<>> # crash
  BY DEF crash
<1>13. \/ Do(SessionLost(start, Flag(running, "running", "missing"), 0, <<>>), "missing")
       \/ \E result \in {"quiet", "finding", "broken"}, files \in {<<>>, crash} :
            /\ (result = "finding") = (files = crash)
            /\ LET run == [result |-> result, session |-> id, time |-> 1]
               IN  ApplyFuzzResult(running, run, start \o files \o <<W("run", run)>>)
       \/ \E time \in 0..1, e \in ToolErrors, written \in BOOLEAN :
             Do(SessionLost(start, Flag(running, "running", e), time,
                  IF written THEN <<W("run", [result |-> "broken", session |-> id, time |-> time])>>
                             ELSE <<>>), e)
       \/ \E time \in 0..1, found \in BOOLEAN :
             Interrupted(SessionLost(start, Flag(running, "running", "stopped"), time,
                                     IF found THEN crash ELSE <<>>))
  BY <1>12 DEF FuzzSession, running, start, crash
<1>14. CASE \E result \in {"quiet", "finding", "broken"}, files \in {<<>>, crash} :
              /\ (result = "finding") = (files = crash)
              /\ LET run == [result |-> result, session |-> id, time |-> 1]
                 IN  ApplyFuzzResult(running, run, start \o files \o <<W("run", run)>>)
  BY <1>7, <1>14, Zenon
<1>15. CASE \E time \in 0..1, e \in ToolErrors, written \in BOOLEAN :
             Do(SessionLost(start, Flag(running, "running", e), time,
                  IF written THEN <<W("run", [result |-> "broken", session |-> id, time |-> time])>>
                             ELSE <<>>), e)
  BY <1>10, <1>15, Zenon
<1>16. CASE \E time \in 0..1, found \in BOOLEAN :
             Interrupted(SessionLost(start, Flag(running, "running", "stopped"), time,
                                     IF found THEN crash ELSE <<>>))
  BY <1>11, <1>16, Zenon
<1> QED
  BY <1>9, <1>13, <1>14, <1>15, <1>16

LEMMA NowInCampaign ==
  ASSUME CoreInv, PendingRests, AtStage("fuzzing")
  PROVE  /\ pending = <<>> /\ st \in LiveStates /\ st \in Alike(st) /\ st.stage = "fuzzing"
         /\ [st EXCEPT !.active = NoSession] = st
         /\ Gets(<<>>, Snapshot, Now) /\ Now.state = st /\ InCampaign(Now) /\ Silent(Now)
         /\ Now.run = disk.run /\ Now.progress = disk.progress
<1>1. /\ pending = <<>> /\ st \in LiveStates /\ st \in Alike(st) /\ st.stage = "fuzzing"
      /\ st.status # "exhausted" /\ st.active = NoSession /\ st \in State
      /\ st.central_improvement >= Floor
  BY TopRests DEF AtStage
<1>2. /\ Gets(<<>>, Snapshot, Now) /\ Now \in Known /\ Rests(Now) /\ Now.state = st
      /\ Now.run = disk.run /\ Now.progress = disk.progress
  BY <1>1, RestNow, NowReads
<1>3. [st EXCEPT !.active = NoSession] = st
  BY <1>1 DEF State
<1>4. InCampaign(Now) /\ Silent(Now)
  BY <1>1, <1>2 DEF InCampaign, Silent, Rests, ArtifactRests, CrashRests, Over, Fuzzed
<1> QED
  BY <1>1, <1>2, <1>3, <1>4

LEMMA FuzzRests ==
  ASSUME CoreInv, PendingRests, Fuzz
  PROVE  PendingRests'
<1> DEFINE idle == [st EXCEPT !.active = NoSession]
           low == [Finished(idle) EXCEPT !.low_yield = TRUE]
           over == Finished(idle)
           again == To(idle, "fuzzing", "harness_work_pending")
<1>1. /\ AtStage("fuzzing") /\ pending = <<>> /\ st \in LiveStates /\ st \in Alike(st)
      /\ st.stage = "fuzzing" /\ idle = st /\ st.active = NoSession
      /\ Gets(<<>>, Snapshot, Now) /\ Now.state = st /\ InCampaign(Now) /\ Silent(Now)
      /\ Now.run = disk.run /\ Now.progress = disk.progress
  BY NowInCampaign, TopRests DEF Fuzz, AtStage
<1>2. /\ Goes(st, again) /\ again.stage = "fuzzing" /\ again.triage_artifact = st.triage_artifact
      /\ Goes(st, over) /\ over.stage = "triage" /\ over.triage_artifact = st.triage_artifact
      /\ Goes(st, low) /\ low.stage = "triage" /\ low.triage_artifact = st.triage_artifact /\ low.low_yield
  BY <1>1, CampaignStates
<1>3. /\ disk.run.result \in {"quiet", "broken"} => disk.run # NoRun
      /\ Remaining(disk.progress) = 0 => disk.progress.completed = Budget
  <2>1. disk.progress.completed \in 0..Budget /\ Budget \in Nat
    BY Bounds DEF CoreInv, TypeInv, TypeOK, Disk
  <2> QED
    BY <2>1 DEF NoRun, None, Remaining
<1>4. \/ \E e \in PolicyErrors \cup {"gate", "harness", "missing"} : Do(<<>>, e)
      \/ disk.run.result \in {"quiet", "broken"} /\ Do(Save(low), None)
      \/ Do(Replan(idle), None)
      \/ Remaining(disk.progress) = 0 /\ disk.run # NoRun /\ Do(Save(over), None)
      \/ FuzzSession(idle)
  BY <1>1 DEF Fuzz, LowYield
<1> HIDE DEF low, over, again
<1>5. \A d \in GoodStates : <<>> \o Save(d) = Save(d)
  <2>1. \A d \in GoodStates : Save(d) \in Seq(Writes)
    BY Single DEF Save, W, Writes
  <2> QED
    BY <2>1, ConcatEmptySeq
<1>6. (\E e \in PolicyErrors \cup {"gate", "harness", "missing"} : Do(<<>>, e)) => PendingRests'
  BY <1>1, NothingRests
<1>7. CASE disk.run.result \in {"quiet", "broken"} /\ Do(Save(low), None)
  <2>1. Ends(Now, low)
    BY <1>1, <1>2, <1>3, <1>7 DEF Ends
  <2>2. Do(<<>> \o Save(low), None)
    BY <1>2, <1>5, <1>7 DEF Goes
  <2> QED
    BY <1>1, <2>1, <2>2, CampaignSaves
<1>8. CASE Remaining(disk.progress) = 0 /\ disk.run # NoRun /\ Do(Save(over), None)
  <2>1. Ends(Now, over)
    BY <1>1, <1>2, <1>3, <1>8 DEF Ends
  <2>2. Do(<<>> \o Save(over), None)
    BY <1>2, <1>5, <1>8 DEF Goes
  <2> QED
    BY <1>1, <2>1, <2>2, CampaignSaves
<1>9. CASE Do(Replan(idle), None)
  <2>1. Ends(Now, again)
    BY <1>1, <1>2 DEF Ends
  <2>2. Do(<<>> \o Replan(idle), None)
    <3>1. Replan(idle) \in Seq(Writes)
      <4>1. <<W("plan", "work")>> \in Seq(Writes) /\ Save(again) \in Seq(Writes)
        BY <1>2, IdleFiles, Single DEF Idle, Goes, Save, W, Writes
      <4>2. Replan(idle) = <<W("plan", "work")>> \o Save(again)
        BY DEF Replan, again
      <4> QED
        BY <4>1, <4>2, ConcatProperties
    <3> QED
      BY <1>9, <3>1, ConcatEmptySeq
  <2> QED
    BY <1>1, <2>1, <2>2, CampaignReplans DEF again
<1>10. FuzzSession(idle) => PendingRests'
  BY <1>1, FuzzSessionRests
<1> QED
  BY <1>4, <1>6, <1>7, <1>8, <1>9, <1>10

\* The result of the AFL++ lane is written.
Lane(v, a, z) ==
  /\ InCampaign(z) /\ z.afl = a
  /\ z.state = v.state /\ z.progress = v.progress /\ z.crash_files = v.crash_files

LEMMA GetsLane ==
  ASSUME NEW ws, NEW v, Gets(ws, Snapshot, v), InCampaign(v), NEW a \in {"quiet", "finding", "failed"}
  PROVE  \E z : Lane(v, a, z) /\ Gets(ws \o <<W("afl", a)>>, Snapshot, z)
<1> DEFINE z == [v EXCEPT !.afl = a]
<1>1. W("afl", a) \in Writes
  BY FileWriteIsEarly, EarlyIsWrites
<1>2. Gets(ws \o <<W("afl", a)>>, Snapshot, z)
  BY <1>1, GetsFile DEF ResultFiles, InCampaign
<1>3. /\ z.state = v.state /\ z.progress = v.progress /\ z.crash_files = v.crash_files
      /\ z.spent = v.spent /\ z.afl = a /\ z \in Known
  BY <1>2 DEF InCampaign, Known, Gets
<1> HIDE DEF z
<1>4. InCampaign(z)
  BY <1>3 DEF InCampaign, None
<1> QED
  BY <1>2, <1>3, <1>4 DEF Lane

LEMMA AflRests ==
  ASSUME CoreInv, PendingRests, Afl
  PROVE  PendingRests'
<1> DEFINE begun == Flag(st, "afl_cmplog_running", None)
           start == Save(begun)
           crash == <<W("crash_files", TRUE)>>
           failed(e) == start \o <<W("afl", "failed")>> \o Save(Flag(st, "ready", e))
           v == [Now EXCEPT !.state = begun]
           again == To(st, "fuzzing", "harness_work_pending")
           next == To(st, "fuzzing", "ready")
           found_one == [Finished(st) EXCEPT !.triage_artifact = "afl"]
<1>1. /\ AtStage("fuzzing") /\ pending = <<>> /\ st \in LiveStates /\ st \in Alike(st)
      /\ st.stage = "fuzzing" /\ [st EXCEPT !.active = NoSession] = st
      /\ Gets(<<>>, Snapshot, Now) /\ Now.state = st /\ InCampaign(Now) /\ Silent(Now)
      /\ Now.progress = disk.progress
  BY NowInCampaign DEF Afl
<1>2. ASSUME NEW status \in {"afl_cmplog_running", "ready"}, NEW e \in Errors
      PROVE  /\ Goes(st, Flag(st, status, e)) /\ Flag(st, status, e).stage = "fuzzing"
             /\ Flag(st, status, e).triage_artifact = st.triage_artifact
             /\ Flag(st, status, e).status = status
  <2>1. status \in Statuses /\ status # "quartet_repair_pending"
    BY FuzzingStatuses
  <2>2. Flag(st, status, e) \in Alike(st) /\ Flag(st, status, e).stage = "fuzzing"
        /\ Flag(st, status, e).status = status
    BY <1>1, <2>1, AlikeMoves
  <2>3. st.active = NoSession
    BY <1>1, TopRests DEF AtStage
  <2> QED
    BY <2>2, <2>3 DEF Goes, Alike
<1>3. /\ Goes(st, again) /\ again.stage = "fuzzing" /\ again.triage_artifact = st.triage_artifact
      /\ Goes(st, next) /\ next.stage = "fuzzing" /\ next.triage_artifact = st.triage_artifact
      /\ Goes(st, found_one) /\ found_one.stage = "triage" /\ found_one.triage_artifact = "afl"
  <2> DEFINE idle == [st EXCEPT !.active = NoSession]
             onwards == To(idle, "fuzzing", "harness_work_pending")
             resting == To(idle, "fuzzing", "ready")
             triaged == [Finished(idle) EXCEPT !.triage_artifact = "afl"]
  <2>1. /\ Goes(st, onwards) /\ onwards.stage = "fuzzing" /\ onwards.triage_artifact = st.triage_artifact
        /\ Goes(st, resting) /\ resting.stage = "fuzzing" /\ resting.triage_artifact = st.triage_artifact
        /\ Goes(st, triaged) /\ triaged.stage = "triage" /\ triaged.triage_artifact = "afl"
    BY <1>1, CampaignStates
  <2>2. idle = st
    BY <1>1
  <2> HIDE DEF idle
  <2>3. onwards = again /\ resting = next /\ triaged = found_one
    BY <2>2
  <2> HIDE DEF onwards, resting, triaged, again, next, found_one
  <2> QED
    BY <2>1, <2>3
<1>4. /\ begun \in GoodStates /\ begun.status # "exhausted" /\ begun.triage_artifact = st.triage_artifact
      /\ begun.central_improvement = st.central_improvement
  BY <1>2, FuzzingStatuses DEF Goes
<1> HIDE DEF begun, again, next, found_one
<1>5. Gets(start, Snapshot, v) /\ start \in Seq(Writes)
  <2>1. start \in Seq(Writes)
    BY <1>4, Single DEF Save, W, Writes
  <2>2. <<>> \o start = start
    BY <2>1, ConcatEmptySeq
  <2>3. Gets(<<>> \o start, Snapshot, v)
    BY <1>1, <1>4, GetsState
  <2> QED
    BY <2>1, <2>2, <2>3
<1>6. /\ v.state = begun /\ v.progress = disk.progress /\ v.crash_files = Now.crash_files
      /\ v.spent = Now.spent /\ v.afl = Now.afl /\ v \in Known
  BY <1>1, <1>5 DEF InCampaign, Known, Gets
<1>7. InCampaign(v) /\ Silent(v)
  BY <1>1, <1>4, <1>6 DEF InCampaign, Silent
<1> HIDE DEF v, start, crash
<1>9. ASSUME NEW e \in Errors
      PROVE  From(failed(e), Snapshot) \in Safe(Opened, Rested)
  <2>1. PICK z : Lane(v, "failed", z) /\ Gets(start \o <<W("afl", "failed")>>, Snapshot, z)
    BY <1>5, <1>7, GetsLane
  <2>10. InCampaign(z) /\ z.state = begun /\ z.afl = "failed" /\ z.crash_files = v.crash_files
    BY <1>6, <2>1 DEF Lane
  <2> DEFINE d == Flag(st, "ready", e)
             a == start \o <<W("afl", "failed")>>
  <2>2. Goes(st, d) /\ d.stage = "fuzzing" /\ d.triage_artifact = st.triage_artifact
    BY <1>2
  <2> HIDE DEF d
  <2>3. Ends(z, d)
    BY <1>4, <1>7, <2>2, <2>10 DEF Ends, Goes, Silent
  <2>4. Gets(a \o Save(d), Snapshot, [z EXCEPT !.state = d])
    BY <2>1, <2>2, GetsState DEF Goes
  <2> QED
    BY <2>3, <2>4, <2>10, CampaignEnds, GetsRest DEF d
<1>10. ASSUME NEW e \in Errors, Do(failed(e), None)
       PROVE  PendingRests'
  BY <1>9, <1>10, DoRests
<1>11. ASSUME pending' = failed("stopped"), UNCHANGED <<disk, mode, history>>
       PROVE  PendingRests'
  <2>1. Snapshot' = Snapshot /\ Rested' = Rested
    BY <1>11, RestedStays DEF Snapshot, history, Floor
  <2>2. "stopped" \in Errors
    BY FuzzingStatuses
  <2> QED
    BY <1>9, <1>11, <2>1, <2>2 DEF PendingRests
<1> DEFINE LaneRun(time, improved, found) ==
              LET p     == [Add(disk.progress, time) EXCEPT !.stalled = ~improved]
                  saved == start \o (IF found THEN crash ELSE <<>>)
                           \o <<W("afl", IF found THEN "finding" ELSE "quiet"), W("progress", p)>>
                  over  == found \/ p.completed = Budget
              IN
                \/ over /\ Do(saved \o Save(found_one), None)
                \/ ~over /\ Do(saved \o Save(next), None)
                \/ ~over /\ p.stalled /\ CanReplan /\ Do(saved \o Replan(st), None)
<1>12. ASSUME NEW time \in 0..1, NEW improved \in BOOLEAN, NEW found \in BOOLEAN,
              LaneRun(time, improved, found)
       PROVE  PendingRests'
  <2> DEFINE p     == [Add(disk.progress, time) EXCEPT !.stalled = ~improved]
             files == IF found THEN crash ELSE <<>>
             lane  == IF found THEN "finding" ELSE "quiet"
             b     == start \o files
             saved == b \o <<W("afl", lane), W("progress", p)>>
  <2>1. \/ (found \/ p.completed = Budget) /\ Do(saved \o Save(found_one), None)
        \/ ~found /\ Do(saved \o Save(next), None)
        \/ ~found /\ Do(saved \o Replan(st), None)
    BY <1>12
  <2>2. p \in Progresses /\ p.completed >= disk.progress.completed
    <3>1. disk.progress \in Progresses
      BY <1>6 DEF Known
    <3>2. Add(disk.progress, time) \in Progresses /\ Add(disk.progress, time).completed >= disk.progress.completed
      BY <3>1, TimeAdds
    <3> HIDE DEF Add
    <3> QED
      BY <3>2 DEF Progresses
  <2> HIDE DEF p
  <2>3. \E y : /\ Gets(b, Snapshot, y) /\ InCampaign(y) /\ y.state = begun /\ y.progress = disk.progress
               /\ (found => y.crash_files) /\ (~found => Silent(y))
    <3>1. CASE found
      <4> DEFINE y == [v EXCEPT !.crash_files = TRUE]
      <4>1. W("crash_files", TRUE) \in Writes
        BY FileWriteIsEarly, EarlyIsWrites
      <4>2. Gets(start \o <<W("crash_files", TRUE)>>, Snapshot, y)
        BY <1>4, <1>5, <1>6, <4>1, GetsFile DEF ResultFiles
      <4>3. b = start \o <<W("crash_files", TRUE)>>
        BY <3>1 DEF crash
      <4>4. /\ y.state = begun /\ y.progress = disk.progress /\ y.crash_files = TRUE
            /\ y.spent = v.spent /\ y.afl = v.afl /\ y \in Known
        BY <1>6, <4>2 DEF Known, Gets
      <4> HIDE DEF y, b
      <4>5. InCampaign(y)
        BY <1>6, <1>7, <4>4 DEF InCampaign
      <4> QED
        BY <3>1, <4>2, <4>3, <4>4, <4>5
    <3>2. CASE ~found
      <4>1. b = start
        <5>1. b = start \o <<>>
          BY <3>2
        <5> QED
          BY <1>5, <5>1, ConcatEmptySeq
      <4> HIDE DEF b
      <4> QED
        BY <1>5, <1>6, <1>7, <3>2, <4>1
    <3> QED
      BY <3>1, <3>2
  <2>4. PICK y : /\ Gets(b, Snapshot, y) /\ InCampaign(y) /\ y.state = begun /\ y.progress = disk.progress
                 /\ (found => y.crash_files) /\ (~found => Silent(y))
    BY <2>3
  <2>5. lane \in {"quiet", "finding"} /\ (found => lane = "finding") /\ (~found => lane = "quiet")
    OBVIOUS
  <2>6. b \in Seq(Writes) /\ W("afl", lane) \in Writes /\ W("progress", p) \in Writes
    BY <2>2, <2>4, <2>5, FileWriteIsEarly, EarlyIsWrites DEF Gets
  <2> HIDE DEF files, b, lane
  <2>7. PICK z : /\ Gets(b \o <<W("afl", lane)>>, Snapshot, z) /\ InCampaign(z) /\ z.state = begun
                 /\ z.progress = disk.progress /\ z.afl = lane /\ z.crash_files = y.crash_files
    <3>1. lane \in {"quiet", "finding", "failed"}
      BY <2>5
    <3>2. PICK z : Lane(y, lane, z) /\ Gets(b \o <<W("afl", lane)>>, Snapshot, z)
      BY <2>4, <3>1, GetsLane
    <3> QED
      BY <2>4, <3>2 DEF Lane
  <2> DEFINE c == b \o <<W("afl", lane)>>
  <2>8. PICK x : Booked(z, p, x) /\ Gets(c \o <<W("progress", p)>>, Snapshot, x)
    <3> HIDE DEF c
    <3>1. z.state.status # "exhausted" /\ p.completed >= z.spent
      BY <2>2, <2>7 DEF InCampaign
    <3> QED
      BY <2>2, <2>7, <3>1, GetsBooked DEF c
  <2>9. saved = c \o <<W("progress", p)>>
    <3>1. <<W("afl", lane), W("progress", p)>> = <<W("afl", lane)>> \o <<W("progress", p)>>
      BY <2>6, Pair
    <3> DEFINE i == <<W("afl", lane)>>
               j == <<W("progress", p)>>
    <3>2. i \in Seq(Writes) /\ j \in Seq(Writes)
      BY <2>6, Single
    <3>3. saved = b \o (i \o j)
      BY <3>1
    <3>4. c = b \o i
      OBVIOUS
    <3> HIDE DEF i, j, saved, c
    <3>5. Join(b, Join(i, j)) = Join(Join(b, i), j)
      BY <2>6, <3>2, JoinAssociates
    <3> QED
      BY <3>3, <3>4, <3>5 DEF Join, j
  <2> HIDE DEF saved, c
  <2>10. /\ Gets(saved, Snapshot, x) /\ InCampaign(x) /\ x.state = begun /\ x.progress = p
         /\ x.afl = lane /\ (found => x.crash_files) /\ (~found => Silent(x))
    BY <2>4, <2>7, <2>8, <2>9 DEF Booked, InCampaign, Silent
  <2>11. CASE (found \/ p.completed = Budget) /\ Do(saved \o Save(found_one), None)
    <3>1. lane # None
      BY <2>5 DEF None
    <3>2. Ends(x, found_one)
      BY <1>3, <1>4, <2>5, <2>10, <2>11, <3>1 DEF Ends, Goes
    <3> QED
      BY <2>10, <2>11, <3>2, CampaignSaves
  <2>12. CASE ~found /\ Do(saved \o Save(next), None)
    <3>1. Ends(x, next)
      BY <1>3, <1>4, <2>10, <2>12 DEF Ends, Goes
    <3> QED
      BY <2>10, <2>12, <3>1, CampaignSaves
  <2>13. CASE ~found /\ Do(saved \o Replan(st), None)
    <3>1. Ends(x, again)
      BY <1>3, <1>4, <2>10, <2>13 DEF Ends, Goes
    <3> QED
      BY <2>10, <2>13, <3>1, CampaignReplans DEF again
  <2> QED
    BY <2>1, <2>11, <2>12, <2>13
<1>13. \/ \E e \in PolicyErrors \cup {"afl"} : Do(<<>>, e)
       \/ \E e \in ToolErrors : Do(failed(e), None)
       \/ pending' = failed("stopped") /\ UNCHANGED <<disk, mode, history>>
       \/ \E time \in 0..1, improved \in BOOLEAN, found \in BOOLEAN :
              LaneRun(time, improved, found)
  BY DEF Afl, start, begun, crash, found_one, next
<1>14. (\E e \in PolicyErrors \cup {"afl"} : Do(<<>>, e)) => PendingRests'
  BY <1>1, NothingRests
<1>15. (\E e \in ToolErrors : Do(failed(e), None)) => PendingRests'
  <2> HIDE DEF failed
  <2> QED
    BY <1>10, ErrorTypes
<1>16. CASE \E time \in 0..1, improved \in BOOLEAN, found \in BOOLEAN :
              LaneRun(time, improved, found)
  <2> HIDE DEF LaneRun
  <2> QED
    BY <1>12, <1>16
<1> QED
  BY <1>11, <1>13, <1>14, <1>15, <1>16

-----------------------------------------------------------------------------
(* Triage and validation.                                                  *)

LEMMA VerdictWritten ==
  ASSUME NEW before, NEW v, Gets(before, Snapshot, v), NEW d \in GoodStates,
         d.status = "exhausted" => Open([v EXCEPT !.state = d]), NEW a \in {"reproduced", "other"},
         Rests([[v EXCEPT !.state = d] EXCEPT !.summary = a]),
         Do(before \o Save(d) \o <<W("summary", a)>>, None)
  PROVE  PendingRests'
<1> DEFINE u == [v EXCEPT !.state = d]
           z == [u EXCEPT !.summary = a]
<1>1. Gets(before \o Save(d), Snapshot, u)
  BY GetsState
<1>2. W("summary", a) \in Writes
  BY DEF W, Writes, FileWrites
<1>3. Rests(z) /\ "summary" \in ResultFiles \ {"state", "progress"} /\ "summary" # "crash_files"
  BY DEF ResultFiles
<1> HIDE DEF u
<1>4. Gets((before \o Save(d)) \o <<W("summary", a)>>, Snapshot, z)
  BY <1>1, <1>2, <1>3, GetsFile
<1> HIDE DEF z
<1> QED
  BY <1>3, <1>4, DoGets

LEMMA TriageReads ==
  ASSUME CoreInv, PendingRests, AtStage("triage")
  PROVE  /\ pending = <<>> /\ st \in LiveStates /\ st.stage = "triage" /\ st.active = NoSession
         /\ Gets(<<>>, Snapshot, Now) /\ Now \in Known /\ Now.state = st /\ Rests(Now)
         /\ Now.crash_files = disk.crash_files
         /\ ThereIn(Now) <=> ArtifactThere
         /\ ListedIn(Now) <=> Listed
<1>1. pending = <<>> /\ st \in LiveStates /\ st.stage = "triage" /\ st.active = NoSession /\ st \in State
  BY TopRests DEF AtStage, Stages
<1>2. st.triage_artifact \in {None, "probe", "run", "afl"} /\ None \notin {"probe", "run", "afl"}
  BY <1>1 DEF State, None
<1>3. (ThereIn(Now) <=> ArtifactThere) /\ (ListedIn(Now) <=> Listed)
  <2>1. CASE st.triage_artifact = "probe"
    BY <1>2, <2>1, NowReads DEF ThereIn, ArtifactThere, ListedIn, Listed, Finding
  <2>2. CASE st.triage_artifact \in {"run", None}
    BY <1>2, <2>2, NowReads DEF ThereIn, ArtifactThere, ListedIn, Listed, Finding
  <2>3. CASE st.triage_artifact = "afl"
    BY <1>2, <2>3, NowReads DEF ThereIn, ArtifactThere, ListedIn, Listed, Finding
  <2> QED
    BY <1>2, <2>1, <2>2, <2>3
<1> QED
  BY <1>1, <1>3, RestNow, NowReads

LEMMA TriageStepRests ==
  ASSUME CoreInv, PendingRests, Triage
  PROVE  PendingRests'
<1> DEFINE saved(stage, status) ==
             [To(st, stage, status) EXCEPT !.triage_artifact = IF stage = "fuzzing" THEN None ELSE @]
           verdict(before, stage, status, summary) ==
             Do(before \o Save(saved(stage, status)) \o <<W("summary", summary)>>, None)
           crash == Listed /\ disk.crash_files
           known == saved("validation", "validation_pending")
           other == saved("fuzzing", "ready")
           person == saved("complete", "triage_review_required")
           over == saved("complete", "exhausted")
<1>1. /\ pending = <<>> /\ st \in LiveStates /\ st.stage = "triage" /\ st.active = NoSession
      /\ Gets(<<>>, Snapshot, Now) /\ Now \in Known /\ Now.state = st /\ Rests(Now)
      /\ Now.crash_files = disk.crash_files
      /\ ThereIn(Now) <=> ArtifactThere
      /\ ListedIn(Now) <=> Listed
  BY TriageReads DEF Triage
<1>2. ASSUME NEW stage \in {"validation", "fuzzing", "complete"},
             NEW status \in {"validation_pending", "ready", "triage_review_required", "exhausted"}
      PROVE  /\ saved(stage, status) \in GoodStates
             /\ saved(stage, status).stage = stage /\ saved(stage, status).status = status
             /\ saved(stage, status).active = NoSession
             /\ saved(stage, status).central_improvement = st.central_improvement
             /\ saved(stage, status).low_yield = st.low_yield
             /\ saved(stage, status).triage_artifact =
                  IF stage = "fuzzing" THEN None ELSE st.triage_artifact
  <2>1. stage \in Stages /\ status \in Statuses \ {"quartet_repair_pending"}
    BY DEF Stages, Statuses, MANUAL_STATUSES, FUZZABLE
  <2>2. /\ To(st, stage, status) \in GoodStates
        /\ To(st, stage, status).stage = stage /\ To(st, stage, status).status = status
    BY <1>1, <2>1, MovesOn
  <2>3. /\ To(st, stage, status).active = NoSession
        /\ To(st, stage, status).central_improvement = st.central_improvement
        /\ To(st, stage, status).low_yield = st.low_yield
        /\ To(st, stage, status).triage_artifact = st.triage_artifact
    BY <1>1 DEF To, LiveStates, State
  <2> HIDE DEF To
  <2> QED
    BY <2>2, <2>3 DEF GoodStates, State
<1>3. /\ known \in GoodStates /\ known.stage = "validation" /\ known.status = "validation_pending"
      /\ known.active = NoSession /\ known.central_improvement = st.central_improvement
      /\ known.low_yield = st.low_yield /\ known.triage_artifact = st.triage_artifact
  <2> HIDE DEF saved
  <2> QED
    BY <1>2
<1>4. /\ other \in GoodStates /\ other.stage = "fuzzing" /\ other.status = "ready"
      /\ other.active = NoSession /\ other.central_improvement = st.central_improvement
      /\ other.low_yield = st.low_yield /\ other.triage_artifact = None
  <2> HIDE DEF saved
  <2> QED
    BY <1>2
<1>5. /\ person \in GoodStates /\ person.stage = "complete" /\ person.status = "triage_review_required"
      /\ person.active = NoSession /\ person.central_improvement = st.central_improvement
      /\ person.low_yield = st.low_yield /\ person.triage_artifact = st.triage_artifact
  <2> HIDE DEF saved
  <2> QED
    BY <1>2
<1>6. /\ over \in GoodStates /\ over.stage = "complete" /\ over.status = "exhausted"
      /\ over.active = NoSession /\ over.central_improvement = st.central_improvement
      /\ over.low_yield = st.low_yield /\ over.triage_artifact = st.triage_artifact
  <2> HIDE DEF saved
  <2> QED
    BY <1>2
<1>7. \/ \E e \in ToolErrors \cup {"missing"} : Do(<<>>, e)
      \/ crash /\ Do(<<>> \o Save(known) \o <<W("summary", "reproduced")>>, None)
      \/ crash /\ Do(<<W("crash_files", FALSE)>> \o Save(other) \o <<W("summary", "other")>>, None)
      \/ crash /\ Do(<<>> \o Save(person) \o <<W("summary", "other")>>, None)
      \/ ~crash /\ Do(<<>> \o Save(over) \o <<W("summary", "other")>>, None)
  BY DEF Triage
<1> HIDE DEF known, other, person, over
<1>8. ASSUME NEW v, NEW d \in GoodStates, NEW a, v = Now \/ v = [Now EXCEPT !.crash_files = FALSE]
      PROVE  LET z == [[v EXCEPT !.state = d] EXCEPT !.summary = a]
             IN  /\ z.state = d /\ z.summary = a /\ z.probe = Now.probe /\ z.run = Now.run
                 /\ z.progress = Now.progress /\ z.afl = Now.afl /\ z.crash_files = v.crash_files
                 /\ z.spent = Now.spent /\ z.report = Now.report
  BY <1>1, <1>8 DEF Known
<1>9. /\ Now.progress.completed = Now.spent /\ st.central_improvement >= Floor
      /\ st.triage_artifact = "afl" => Now.afl # None
      /\ (ListedIn(Now) /\ Now.crash_files) \/ (st.triage_artifact \in {None, "afl"} /\ Worked(Now))
      /\ Unstopped /\ Now.crash_files => ListedIn(Now)
  BY <1>1 DEF Rests, TriageRests, ArtifactRests
<1>10. CASE crash /\ Do(<<>> \o Save(known) \o <<W("summary", "reproduced")>>, None)
  <2> DEFINE z == [[Now EXCEPT !.state = known] EXCEPT !.summary = "reproduced"]
  <2>1. /\ z.state = known /\ z.summary = "reproduced" /\ z.afl = Now.afl
        /\ z.progress = Now.progress /\ z.spent = Now.spent
    BY <1>3, <1>8
  <2> HIDE DEF z
  <2>2. TriageRests(z) /\ ArtifactRests(z) /\ CrashRests(z)
    BY <1>3, <1>9, <2>1 DEF TriageRests, ArtifactRests, CrashRests, Over, BeforeGate, Preparation, Fuzzed
  <2>3. Rests(z)
    BY <1>3, <1>9, <2>1, <2>2 DEF Rests
  <2> QED
    BY <1>1, <1>3, <1>10, <2>3, VerdictWritten DEF z
<1>11. CASE crash /\ Do(<<W("crash_files", FALSE)>> \o Save(other) \o <<W("summary", "other")>>, None)
  <2> DEFINE v == [Now EXCEPT !.crash_files = FALSE]
             z == [[v EXCEPT !.state = other] EXCEPT !.summary = "other"]
             b == <<W("crash_files", FALSE)>>
  <2>1. v.crash_files = FALSE
    BY <1>1 DEF Known
  <2>2. /\ z.state = other /\ z.summary = "other" /\ z.afl = Now.afl /\ z.crash_files = FALSE
        /\ z.progress = Now.progress /\ z.spent = Now.spent
    BY <1>4, <1>8, <2>1
  <2>3. Gets(b, Snapshot, v)
    <3>1. W("crash_files", FALSE) \in Writes
      BY FileWriteIsEarly, EarlyIsWrites
    <3>2. Gets(<<>> \o b, Snapshot, v)
      BY <1>1, <3>1, GetsFile DEF ResultFiles
    <3>3. b \in Seq(Writes)
      BY <3>1, Single
    <3> HIDE DEF b, v
    <3> QED
      BY <3>2, <3>3, ConcatEmptySeq
  <2> HIDE DEF z, v, b
  <2>4. TriageRests(z) /\ ArtifactRests(z) /\ CrashRests(z)
    BY <1>4, <1>9, <2>2 DEF TriageRests, ArtifactRests, CrashRests, Over, BeforeGate, Preparation, Fuzzed, None
  <2>5. Rests(z)
    BY <1>4, <1>9, <2>2, <2>4 DEF Rests
  <2> QED
    BY <1>4, <1>11, <2>3, <2>5, VerdictWritten DEF z, b
<1>12. CASE crash /\ Do(<<>> \o Save(person) \o <<W("summary", "other")>>, None)
  <2> DEFINE z == [[Now EXCEPT !.state = person] EXCEPT !.summary = "other"]
  <2>1. /\ z.state = person /\ z.summary = "other" /\ z.afl = Now.afl
        /\ z.progress = Now.progress /\ z.spent = Now.spent
    BY <1>5, <1>8
  <2> HIDE DEF z
  <2>2. TriageRests(z) /\ ArtifactRests(z) /\ CrashRests(z)
    BY <1>5, <1>9, <2>1 DEF TriageRests, ArtifactRests, CrashRests, Over, BeforeGate, Preparation, Fuzzed
  <2>3. Rests(z)
    BY <1>5, <1>9, <2>1, <2>2 DEF Rests
  <2> QED
    BY <1>1, <1>5, <1>12, <2>3, VerdictWritten DEF z
<1>13. CASE ~crash /\ Do(<<>> \o Save(over) \o <<W("summary", "other")>>, None)
  <2> DEFINE v == [Now EXCEPT !.state = over]
             z == [v EXCEPT !.summary = "other"]
  <2>1. /\ z.state = over /\ z.summary = "other" /\ z.afl = Now.afl /\ z.crash_files = Now.crash_files
        /\ z.progress = Now.progress /\ z.spent = Now.spent
    BY <1>6, <1>8
  <2>2. v.state = over /\ v.progress = Now.progress /\ v.crash_files = Now.crash_files
    BY <1>1 DEF Known
  <2> HIDE DEF z, v
  <2>3. Worked(Now) /\ st.triage_artifact \in {None, "afl"} /\ (Unstopped => ~Now.crash_files)
    BY <1>1, <1>9, <1>13
  <2>4. Worked(v) /\ Worked(z)
    BY <1>1, <1>6, <2>1, <2>2, <2>3 DEF Worked
  <2>5. Open(v)
    BY <2>2, <2>3, <2>4 DEF Open
  <2>6. TriageRests(z) /\ ArtifactRests(z) /\ CrashRests(z)
    BY <1>6, <1>9, <2>1, <2>3 DEF TriageRests, ArtifactRests, CrashRests, Over, BeforeGate, Preparation, Fuzzed
  <2>7. Rests(z)
    BY <1>6, <1>9, <2>1, <2>4, <2>6 DEF Rests
  <2> QED
    BY <1>1, <1>6, <1>13, <2>5, <2>7, VerdictWritten DEF z, v
<1>14. (\E e \in ToolErrors \cup {"missing"} : Do(<<>>, e)) => PendingRests'
  BY <1>1, NothingRests
<1> HIDE DEF crash
<1> QED
  BY <1>7, <1>10, <1>11, <1>12, <1>13, <1>14

LEMMA ValidateRests ==
  ASSUME CoreInv, PendingRests, Validate
  PROVE  PendingRests'
<1> DEFINE over    == To(st, "complete", "ready_for_human")
           running == [st EXCEPT !.status = "validation_running"]
           failed(e) == Flag(st, "validation_review_required", e)
           report == <<W("report", TRUE)>>
<1>1. /\ st \in LiveStates /\ st.stage = "validation" /\ pending = <<>> /\ st \in Alike(st)
      /\ Gets(<<>>, Snapshot, Now) /\ Now \in Known /\ Now.state = st /\ Rests(Now) /\ Open(Now)
      /\ Now.summary = disk.summary /\ st.status # "exhausted"
  BY TopRests, RestNow, NowReads DEF Validate, AtStage
<1>2. /\ "complete" \in Stages
      /\ {"ready_for_human", "validation_running", "validation_review_required"}
           \subseteq Statuses \ {"quartet_repair_pending", "exhausted"}
  BY DEF Stages, Statuses, MANUAL_STATUSES
<1>3. Steadily(st, over) /\ over.stage = "complete" /\ over.status = "ready_for_human"
  <2>1. over \in Alike(st) /\ over.stage = "complete" /\ over.status = "ready_for_human"
    BY <1>1, <1>2, AlikeMoves
  <2> HIDE DEF over
  <2> QED
    BY <2>1 DEF Steadily, Fuzzed, BeforeGate, Preparation, Over
<1>4. Steadily(st, running) /\ running.stage = "validation" /\ running.status = "validation_running"
      /\ running \in LiveStates
  <2>1. running \in LiveStates /\ running.stage = "validation" /\ running.status = "validation_running"
        /\ running \in Alike(st)
    BY <1>1, <1>2, LiveIsGood DEF LiveStates, State, Alike
  <2> HIDE DEF running
  <2> QED
    BY <1>1, <2>1 DEF Steadily, Fuzzed, BeforeGate, Preparation, Over
<1>5. ASSUME NEW e \in Errors
      PROVE  Steadily(st, failed(e))
  <2> DEFINE d == failed(e)
  <2>1. d \in Alike(st) /\ d.stage = "validation" /\ d.status = "validation_review_required"
    BY <1>1, <1>2, AlikeMoves
  <2> HIDE DEF d
  <2>2. Steadily(st, d)
    BY <1>1, <2>1 DEF Steadily, Fuzzed, BeforeGate, Preparation, Over
  <2> QED
    BY <2>2 DEF d
<1> HIDE DEF over, running, failed, report
<1>6. CASE Do(Save(over), "return")
  BY <1>1, <1>3, <1>6, PlainState, DoPlain
<1>7. CASE \E e \in ToolErrors \cup {"missing"} : Do(<<>>, e)
  BY <1>1, <1>7, NothingRests
<1>8. CASE \E e \in ToolErrors : Do(Save(running) \o Save(failed(e)), e)
  <2>1. PICK e \in ToolErrors : Do(Save(running) \o Save(failed(e)), e)
    BY <1>8
  <2>2. Steadily(st, failed(e))
    BY <1>5, ErrorTypes
  <2>3. Save(running) \in Seq(Plain(st)) /\ Save(failed(e)) \in Seq(Plain(st))
    BY <1>4, <2>2, PlainState
  <2>4. Save(running) \o Save(failed(e)) \in Seq(Plain(st))
    BY <2>3, ConcatProperties
  <2> QED
    BY <1>1, <2>1, <2>4, DoPlain
<1>9. CASE disk.summary = "reproduced" /\ Do(Save(running) \o report \o Save(over), "return")
  <2> DEFINE u == [Now EXCEPT !.state = running]
             v == [u EXCEPT !.report = TRUE]
             z == [v EXCEPT !.state = over]
  <2>1. Gets(Save(running), Snapshot, u)
    <3>1. Gets(<<>> \o Save(running), Snapshot, u)
      BY <1>1, <1>4, LiveIsGood, GetsState
    <3>2. Save(running) \in Seq(Writes)
      BY <1>4, LiveIsGood, Single DEF Save, W, Writes
    <3> HIDE DEF u
    <3> QED
      BY <3>1, <3>2, ConcatEmptySeq
  <2>2. u.state = running /\ Rests(u)
    BY <1>1, <1>4, SteadyRests DEF Known
  <2> HIDE DEF u
  <2>3. Gets(Save(running) \o report, Snapshot, v)
    <3>1. W("report", TRUE) \in Writes
      BY FileWriteIsEarly, EarlyIsWrites
    <3> QED
      BY <2>1, <3>1, GetsFile DEF ResultFiles, report
  <2>4. Gets((Save(running) \o report) \o Save(over), Snapshot, z)
    <3> HIDE DEF v
    <3> QED
      BY <1>3, <2>3, GetsState DEF Steadily, Alike
  <2>5. /\ v.state = u.state /\ v.probe = u.probe /\ v.run = u.run /\ v.progress = u.progress
        /\ v.afl = u.afl /\ v.crash_files = u.crash_files /\ v.summary = u.summary
        /\ v.report = TRUE /\ v.spent = u.spent /\ v \in Known
    BY <2>1, <2>3 DEF Known, Gets
  <2> HIDE DEF v
  <2>6. Rests(v)
    BY <2>2, <2>5 DEF Rests, TriageRests, ArtifactRests, CrashRests, ThereIn, ListedIn, Worked
  <2>7. Steadily(running, over)
    BY <1>3, <1>4, <1>1 DEF Steadily, Alike, Fuzzed, BeforeGate, Preparation, Over
  <2>8. Rests(z)
    BY <2>2, <2>5, <2>6, <2>7, SteadyRests
  <2> QED
    BY <1>9, <2>4, <2>8, DoGets
<1>10. \/ Do(Save(over), "return")
       \/ \E e \in ToolErrors \cup {"missing"} : Do(<<>>, e)
       \/ disk.summary = "reproduced" /\ Do(Save(running) \o report \o Save(over), "return")
       \/ \E e \in ToolErrors : Do(Save(running) \o Save(failed(e)), e)
  BY DEF Validate, over, running, failed, report
<1> QED
  BY <1>6, <1>7, <1>8, <1>9, <1>10

LEMMA HandlersRest ==
  ASSUME CoreInv, PendingRests, Handler
  PROVE  PendingRests'
<1>1. pending' \in Seq(Writes)
  BY HandlersDo, HandedPending DEF HandlerStep
<1> QED
  BY <1>1, PrepareRests, StagesRest, ProbeRests, QuartetRests, RepairRests, AnalyzeRests,
     GenerateRests, GenerationLimitRests, FuzzRests, AflRests, TriageStepRests, ValidateRests
     DEF Handler


-----------------------------------------------------------------------------
(* The steps around the handlers.                                          *)

\* Files at rest stay so when the worker leaves or starts, or the operator does.
LEMMA LoweredRests ==
  ASSUME NEW v, Rests(v), v.state.central_improvement \in Nat, Floor' \in {0, Floor}
  PROVE  Rests(v)'
<1>1. v.state.central_improvement >= Floor'
  BY DEF Rests
<1> QED
  BY <1>1 DEF Rests

LEMMA NewlyRested ==
  ASSUME NEW y \in Snapshots, Rests(Facts(y)), Facts(y).state.central_improvement \in Nat, Floor' \in {0, Floor}
  PROVE  From(<<>>, y) \in Safe(Opened, Rested')
<1>1. PICK v : v = Facts(y)
  OBVIOUS
<1>2. Rests(v)'
  BY <1>1, LoweredRests
<1>3. Open(v)
  BY <1>1 DEF Open, Rests, CrashRests
<1>4. y \in Opened
  BY <1>1, <1>3 DEF Opened
<1>5. Rested' = {z \in Opened : Rests(Facts(z))'}
  BY DEF Rested, Opened
<1>6. y \in Rested'
  BY <1>1, <1>2, <1>4, <1>5
<1> QED
  BY <1>4, <1>6, NothingSafe

LEMMA RestartedRests ==
  ASSUME CoreInv, PendingRests, pending = <<>>, pending' = <<>>, disk' = disk, spent' = spent,
         Floor' \in {0, Floor}
  PROVE  PendingRests'
<1>1. Snapshot \in Snapshots /\ Rests(Now) /\ Now.state = st /\ st \in State /\ Now = Facts(Snapshot)
  BY RestNow, NowReads DEF CoreInv, TypeInv, TypeOK, Disk, st, Now
<1>2. Snapshot' = [disk |-> disk, spent |-> spent, own |-> (mode = "operator")']
  BY DEF Snapshot
<1>3. PICK y : y = Snapshot'
  OBVIOUS
<1>4. y \in Snapshots /\ y.disk = disk /\ y.spent = spent
  BY <1>1, <1>2, <1>3 DEF Snapshots, Snapshot
<1>5. PICK v : v = Facts(y)
  OBVIOUS
<1>6. /\ v.state = Now.state /\ v.probe = Now.probe /\ v.run = Now.run /\ v.progress = Now.progress
      /\ v.afl = Now.afl /\ v.crash_files = Now.crash_files /\ v.summary = Now.summary
      /\ v.report = Now.report /\ v.spent = Now.spent
  BY <1>4, <1>5, NowReads DEF Facts, st
<1>7. Rests(v)
  BY <1>1, <1>6 DEF Rests, TriageRests, ArtifactRests, CrashRests, ThereIn, ListedIn, Worked
<1>8. v.state.central_improvement \in Nat
  BY <1>1, <1>6 DEF State
<1>9. From(<<>>, y) \in Safe(Opened, Rested')
  BY <1>4, <1>5, <1>7, <1>8, NewlyRested
<1> QED
  BY <1>3, <1>9 DEF PendingRests, Opened

LEMMA ReadyRests ==
  ASSUME CoreInv, PendingRests, Ready, pending' \in Seq(Writes)
  PROVE  PendingRests'
<1>1. /\ st.stage = "fuzzing" /\ pending = <<>> /\ st \in LiveStates /\ mode \in {"setup", "followup"}
      /\ disk' = disk /\ spent' = spent /\ AtTop
      /\ \/ mode = "setup" /\ mode' = "run" /\ pending' = pending
         \/ /\ mode = "followup" /\ mode' = mode
            /\ pending' = Save([st EXCEPT !.stage = "complete", !.status = "exhausted"])
  BY LiveAtTop DEF Ready, AtStage, AtTop, BetweenHandlers, history, CoreInv
<1>2. CASE mode = "setup" /\ mode' = "run" /\ pending' = pending
  BY <1>1, <1>2, RestartedRests DEF Floor
<1>3. CASE /\ mode = "followup" /\ mode' = mode
           /\ pending' = Save([st EXCEPT !.stage = "complete", !.status = "exhausted"])
  <2> DEFINE s == [st EXCEPT !.stage = "complete", !.status = "exhausted"]
             z == [Now EXCEPT !.state = s]
  <2>1. Snapshot' = Snapshot /\ Rested' = Rested /\ Floor = 1
    BY <1>1, <1>3, RestedStays DEF Snapshot, Floor
  <2>2. <<>> \o <<W("state", s)>> = pending' /\ <<>> \in Seq(Writes)
    BY <1>3, Single, ConcatEmptySeq, EmptySeq DEF Save
  <2>3. W("state", s) \in Writes
    BY <2>2, LastIsWrite
  <2>4. s \in GoodStates
    BY <2>3 DEF W, Writes, FileWrites
  <2>5. /\ s.stage = "complete" /\ s.status = "exhausted" /\ s.active = st.active
        /\ s.central_improvement = st.central_improvement /\ s.triage_artifact = st.triage_artifact
        /\ st.central_improvement >= 1
    <3>1. st \in State /\ st.central_improvement >= Floor
      BY <1>1, TopRests
    <3> QED
      BY <2>1, <3>1 DEF State
  <2> HIDE DEF s
  <2>6. Gets(<<>>, Snapshot, Now) /\ Now \in Known /\ Now.state = st /\ Rests(Now)
    BY <1>1, RestNow, NowReads
  <2>7. /\ z.state = s /\ z.probe = Now.probe /\ z.run = Now.run /\ z.progress = Now.progress
        /\ z.afl = Now.afl /\ z.crash_files = Now.crash_files /\ z.summary = Now.summary
        /\ z.report = Now.report /\ z.spent = Now.spent
    BY <2>6 DEF Known
  <2> DEFINE v == z
  <2>8. PICK n : n = s.central_improvement
    OBVIOUS
  <2>9. n \in Nat /\ n >= 1 /\ n > 0
    BY <2>4, <2>5, <2>8 DEF GoodStates, State
  <2> HIDE DEF z
  <2>10. Worked(z)
    BY <2>7, <2>8, <2>9 DEF Worked
  <2>11. Unstopped => ~z.crash_files
    BY <1>1, <2>6, <2>7 DEF Rests, CrashRests, Fuzzed
  <2>12. Open(z)
    BY <2>10, <2>11 DEF Open
  <2>13. TriageRests(z)
    BY <2>5, <2>7 DEF TriageRests
  <2>14. ArtifactRests(z)
    BY <1>1, <2>5, <2>6, <2>7 DEF ArtifactRests, Rests, Over
  <2>15. CrashRests(z)
    BY <2>5, <2>7, <2>11 DEF CrashRests, BeforeGate, Preparation, Fuzzed
  <2>16. Rests(z)
    BY <1>1, <2>1, <2>5, <2>6, <2>7, <2>10, <2>13, <2>14, <2>15 DEF Rests
  <2>17. Gets(<<>> \o Save(s), Snapshot, z)
    BY <2>4, <2>6, <2>12, GetsState DEF z
  <2>18. Gets(Save(s), Snapshot, z)
    <3>1. Save(s) \in Seq(Writes)
      BY <2>3, Single DEF Save
    <3> QED
      BY <2>17, <3>1, ConcatEmptySeq
  <2>19. From(Save(s), Snapshot) \in Safe(Opened, Rested)
    BY <2>16, <2>18, GetsRest
  <2> QED
    BY <1>3, <2>1, <2>19 DEF PendingRests, Opened, s
<1> QED
  BY <1>1, <1>2, <1>3

LEMMA FollowupRests ==
  ASSUME CoreInv, PendingRests, FollowupHarness, pending' \in Seq(Writes)
  PROVE  PendingRests'
<1> DEFINE s == [st EXCEPT !.central_improvement = @ + 1]
           t == To(s, "fuzzing", "harness_work_pending")
           p == W("plan", "work")
           w == W("state", t)
           y == Store(Snapshot, p)
           z == Store(y, w)
<1>1. /\ st.stage = "complete" /\ st.status = "exhausted" /\ pending' = Replan(s) /\ pending = <<>>
      /\ mode = "idle" /\ mode' = "followup" /\ Snapshot' = Snapshot
  BY DEF FollowupHarness, FollowupAvailable, Snapshot, history, CoreInv, TypeInv
<1>2. /\ Snapshot \in Snapshots /\ Snapshot \in Opened /\ Rests(Now) /\ Now.state = st /\ Now \in Known
      /\ st \in State /\ Now = Facts(Snapshot) /\ Open(Now)
  BY <1>1, RestNow, NowReads DEF CoreInv, TypeInv, TypeOK, Disk, st, Now
<1>3. p \in Idle /\ p \in Writes
  BY IdleFiles DEF Idle
<1>4. w \in Writes /\ w.file = "state" /\ w.value = t /\ t \in GoodStates
  <2>1. <<p>> \o <<w>> = pending' /\ <<p>> \in Seq(Writes)
    BY <1>1, <1>3, Single DEF Replan, Save
  <2>2. w \in Writes
    BY <2>1, LastIsWrite
  <2> QED
    BY <2>2 DEF W, Writes, FileWrites
<1>5. /\ t.stage = "fuzzing" /\ t.status = "harness_work_pending" /\ t.active = st.active
      /\ t.triage_artifact = st.triage_artifact /\ t.low_yield = st.low_yield
      /\ t.central_improvement >= 1
  <2>1. st.central_improvement \in Nat
    BY <1>2 DEF State
  <2> QED
    BY <1>2, <2>1 DEF To, State
<1> HIDE DEF t, p, w
<1>6. y \in Snapshots /\ Facts(y) = Now
  <2>1. Facts(y) = Effect(Now, p) /\ y \in Snapshots
    BY <1>2, <1>3, FactsStore
  <2> QED
    BY <1>2, <1>3, <2>1, EffectOf DEF Idle
<1>7. y \in Opened
  BY <1>2, <1>6 DEF Opened
<1>8. z \in Snapshots /\ Facts(z) = [Now EXCEPT !.state = t]
  <2>1. Facts(z) = Effect(Now, w) /\ z \in Snapshots
    BY <1>4, <1>6, FactsStore
  <2>2. Effect(Now, w) = [Now EXCEPT ![w.file] = w.value]
    BY <1>2, <1>4, EffectOf DEF ResultFiles
  <2> QED
    BY <1>4, <2>1, <2>2
<1>9. PICK x : x = z
  OBVIOUS
<1>10. PICK v : v = Facts(x)
  OBVIOUS
<1>11. /\ v.state = t /\ v.probe = Now.probe /\ v.run = Now.run /\ v.progress = Now.progress
       /\ v.afl = Now.afl /\ v.crash_files = Now.crash_files /\ v.summary = Now.summary
       /\ v.report = Now.report /\ v.spent = Now.spent
  BY <1>2, <1>8, <1>9, <1>10 DEF Known
<1> HIDE DEF y, z
<1>12. Rests(v)'
  <2>1. Floor' = 1 /\ v.state.central_improvement >= Floor'
    BY <1>1, <1>5, <1>11 DEF Floor
  <2>2. TriageRests(v)
    BY <1>5, <1>11 DEF TriageRests
  <2>3. ArtifactRests(v)
    BY <1>1, <1>2, <1>5, <1>11 DEF ArtifactRests, Rests, Over
  <2>4. CrashRests(v)
    BY <1>1, <1>2, <1>5, <1>11 DEF CrashRests, Rests, BeforeGate, Preparation, Fuzzed
  <2>5. v.progress.completed = v.spent /\ v.state.active = NoSession
    BY <1>2, <1>5, <1>11 DEF Rests
  <2> QED
    BY <1>5, <1>11, <2>1, <2>2, <2>3, <2>4, <2>5 DEF Rests
<1>13. Open(v)
  BY <1>5, <1>11 DEF Open
<1>14. x \in Opened /\ x \in Rested'
  <2>1. x \in Opened
    BY <1>8, <1>9, <1>10, <1>13 DEF Opened
  <2>2. Rested' = {u \in Opened : Rests(Facts(u))'}
    BY DEF Rested, Opened
  <2> QED
    BY <1>10, <1>12, <2>1, <2>2
<1>15. From(<<>>, z) \in Safe(Opened, Rested')
  BY <1>8, <1>9, <1>14, NothingSafe
<1>16. From(<<w>>, y) \in Safe(Opened, Rested')
  <2>1. From(<<w>> \o <<>>, y) \in Safe(Opened, Rested')
    BY <1>4, <1>6, <1>7, <1>15, EmptySeq, SafeFirst DEF z
  <2>2. <<w>> \in Seq(Writes)
    BY <1>4, Single
  <2>3. <<w>> \o <<>> = <<w>>
    BY <2>2, ConcatEmptySeq
  <2> QED
    BY <2>1, <2>3
<1>17. From(<<p>> \o <<w>>, Snapshot) \in Safe(Opened, Rested')
  <2>1. <<w>> \in Seq(Writes)
    BY <1>4, Single
  <2> QED
    BY <1>2, <1>3, <1>16, <2>1, SafeFirst DEF y
<1>18. pending' = <<p>> \o <<w>>
  BY <1>1 DEF Replan, Save, t, p, w
<1> QED
  BY <1>1, <1>17, <1>18 DEF PendingRests, Opened

LEMMA WriteRests ==
  ASSUME CoreInv, PendingRests, Write
  PROVE  PendingRests'
<1> DEFINE w == Head(pending)
<1>1. /\ pending # <<>> /\ pending' = Tail(pending) /\ disk' = [disk EXCEPT ![w.file] = w.value]
      /\ mode' = mode
      /\ spent' = IF w.file = "progress" /\ (mode = "operator" \/ w.value.completed > spent)
                  THEN w.value.completed ELSE spent
  BY DEF Write
<1>2. From(Tail(pending), Store(Snapshot, w)) \in Safe(Opened, Rested)
  BY <1>1, SafeNow DEF PendingRests
<1> HIDE DEF w
<1>3. Snapshot' = Store(Snapshot, w)
  BY <1>1 DEF Snapshot, Store
<1>4. Rested' = Rested
  BY <1>1, RestedStays DEF Floor
<1> QED
  BY <1>1, <1>2, <1>3, <1>4 DEF PendingRests, Opened


-----------------------------------------------------------------------------
(* The operator moves the results away, one after the other.               *)

ResultMoves == {"afl", "progress", "run", "probe", "summary", "crash_files"}

\* The files while the operator moves them: those named in F are away.
MovedAway(v, F) ==
  /\ v.state = st /\ v.own
  /\ v.afl = (IF "afl" \in F THEN None ELSE disk.afl)
  /\ v.progress = (IF "progress" \in F THEN Absent.progress ELSE disk.progress)
  /\ v.spent = (IF "progress" \in F THEN 0 ELSE spent)
  /\ v.run = (IF "run" \in F THEN NoRun ELSE disk.run)
  /\ v.probe = (IF "probe" \in F THEN None ELSE disk.probe)
  /\ v.summary = (IF "summary" \in F THEN None ELSE disk.summary)
  /\ v.crash_files = (IF "crash_files" \in F THEN FALSE ELSE disk.crash_files)
MovesAway(ws, x, F) == \E v : Gets(ws, x, v) /\ MovedAway(v, F)

LEMMA MovesAwayIdle ==
  ASSUME NEW ws, NEW x, NEW F, MovesAway(ws, x, F), NEW f \in {"integration", "manifest", "smoke", "quartet", "plan"}
  PROVE  MovesAway(ws \o Moved(f), x, F)
<1>1. PICK v : Gets(ws, x, v) /\ MovedAway(v, F)
  BY DEF MovesAway
<1>2. Gets(ws \o Moved(f), x, v)
  BY <1>1, MovedIdle, GetsIdle
<1> QED
  BY <1>1, <1>2 DEF MovesAway

LEMMA MovesAwayResult ==
  ASSUME NEW ws, NEW x, NEW F, MovesAway(ws, x, F),
         NEW f \in {"afl", "run", "probe", "summary", "crash_files"}, f \notin F
  PROVE  MovesAway(ws \o Moved(f), x, F \cup {f})
<1>1. PICK v : Gets(ws, x, v) /\ MovedAway(v, F)
  BY DEF MovesAway
<1> DEFINE z == [v EXCEPT ![f] = Absent[f]]
<1>2. v \in Known /\ v[f] = disk[f]
  <2>1. v \in Known
    BY <1>1 DEF Gets
  <2>2. CASE f = "afl"
    <3>1. "afl" \notin F
      BY <2>2
    <3>2. v.afl = disk.afl
      BY <1>1, <3>1 DEF MovedAway
    <3> QED
      BY <2>1, <2>2, <3>2
  <2>3. CASE f = "run"
    <3>1. "run" \notin F
      BY <2>3
    <3>2. v.run = disk.run
      BY <1>1, <3>1 DEF MovedAway
    <3> QED
      BY <2>1, <2>3, <3>2
  <2>4. CASE f = "probe"
    <3>1. "probe" \notin F
      BY <2>4
    <3>2. v.probe = disk.probe
      BY <1>1, <3>1 DEF MovedAway
    <3> QED
      BY <2>1, <2>4, <3>2
  <2>5. CASE f = "summary"
    <3>1. "summary" \notin F
      BY <2>5
    <3>2. v.summary = disk.summary
      BY <1>1, <3>1 DEF MovedAway
    <3> QED
      BY <2>1, <2>5, <3>2
  <2>6. CASE f = "crash_files"
    <3>1. "crash_files" \notin F
      BY <2>6
    <3>2. v.crash_files = disk.crash_files
      BY <1>1, <3>1 DEF MovedAway
    <3> QED
      BY <2>1, <2>6, <3>2
  <2> QED
    BY <2>1, <2>2, <2>3, <2>4, <2>5, <2>6
<1>3. Gets(ws \o Moved(f), x, z)
  BY <1>1, <1>2, GetsMoved
<1>4. MovedAway(z, F \cup {f})
  <2>1. CASE f = "afl"
    <3>1. z = [v EXCEPT !.afl = None]
      BY <2>1, AbsentReads
    <3> QED
      BY <1>1, <1>2, <2>1, <3>1 DEF MovedAway, Known
  <2>2. CASE f = "run"
    <3>1. z = [v EXCEPT !.run = NoRun]
      BY <2>2, AbsentReads
    <3> QED
      BY <1>1, <1>2, <2>2, <3>1 DEF MovedAway, Known
  <2>3. CASE f = "probe"
    <3>1. z = [v EXCEPT !.probe = None]
      BY <2>3, AbsentReads
    <3> QED
      BY <1>1, <1>2, <2>3, <3>1 DEF MovedAway, Known
  <2>4. CASE f = "summary"
    <3>1. z = [v EXCEPT !.summary = None]
      BY <2>4, AbsentReads
    <3> QED
      BY <1>1, <1>2, <2>4, <3>1 DEF MovedAway, Known
  <2>5. CASE f = "crash_files"
    <3>1. z = [v EXCEPT !.crash_files = FALSE]
      BY <2>5, AbsentReads
    <3> QED
      BY <1>1, <1>2, <2>5, <3>1 DEF MovedAway, Known
  <2> QED
    BY <2>1, <2>2, <2>3, <2>4, <2>5
<1> HIDE DEF z
<1> QED
  BY <1>3, <1>4 DEF MovesAway

LEMMA MovesAwayTime ==
  ASSUME NEW ws, NEW x, NEW F, MovesAway(ws, x, F), "progress" \notin F, disk.progress.completed = spent
  PROVE  MovesAway(ws \o Moved("progress"), x, F \cup {"progress"})
<1>1. PICK v : Gets(ws, x, v) /\ MovedAway(v, F)
  BY DEF MovesAway
<1>2. v \in Known /\ ws \in Seq(Writes) /\ v.own /\ v.progress = disk.progress /\ v.spent = spent
  BY <1>1 DEF Gets, MovedAway
<1> DEFINE p == Absent.progress
           n == IF v.own \/ p.completed > v.spent THEN p.completed ELSE v.spent
           u == [v EXCEPT !.progress = p]
           z == [v EXCEPT !.progress = p, !.spent = n]
<1>3. CASE disk.progress = Absent.progress
  <2>1. Moved("progress") = <<>>
    BY <1>3 DEF Moved
  <2>2. ws \o Moved("progress") = ws
    BY <1>2, <2>1, ConcatEmptySeq
  <2>3. MovedAway(v, F \cup {"progress"})
    BY <1>1, <1>2, <1>3, AbsentReads DEF MovedAway
  <2> QED
    BY <1>1, <2>2, <2>3 DEF MovesAway
<1>4. CASE disk.progress # Absent.progress
  <2>1. Moved("progress") = <<W("progress", p)>>
    BY <1>4 DEF Moved
  <2>2. Gets(ws \o <<W("progress", p)>>, x, z)
    BY <1>1, <1>2, AbsentReads, GetsTime
  <2>3. n = 0
    BY <1>2, AbsentReads
  <2>4. z = [u EXCEPT !.spent = 0]
    BY <2>3
  <2>5. /\ u \in [DOMAIN v -> UNION {{u[f]} : f \in DOMAIN v}] /\ u.progress = p
        /\ u.state = v.state /\ u.own = v.own /\ u.afl = v.afl /\ u.run = v.run
        /\ u.probe = v.probe /\ u.summary = v.summary /\ u.crash_files = v.crash_files
    BY <1>2 DEF Known
  <2>6. /\ z.progress = p /\ z.spent = 0
        /\ z.state = v.state /\ z.own = v.own /\ z.afl = v.afl /\ z.run = v.run
        /\ z.probe = v.probe /\ z.summary = v.summary /\ z.crash_files = v.crash_files
    BY <1>2, <2>4 DEF Known
  <2> HIDE DEF z
  <2>7. MovedAway(z, F \cup {"progress"})
    BY <1>1, <2>6 DEF MovedAway
  <2> QED
    BY <2>1, <2>2, <2>7 DEF MovesAway
<1> QED
  BY <1>3, <1>4

LEMMA OperatorMovesAway ==
  ASSUME NEW x, MovesAway(<<>>, x, {}), disk.progress.completed = spent
  PROVE  MovesAway(OperatorMoves, x, ResultMoves)
<1> DEFINE a == Moved("afl") \o Moved("manifest") \o Moved("plan")
           b == a \o Moved("progress") \o Moved("run") \o Moved("integration")
           c == b \o Moved("probe") \o Moved("quartet") \o Moved("smoke")
<1>1. MovesAway(a, x, {"afl"})
  <2>1. MovesAway(<<>> \o Moved("afl"), x, {} \cup {"afl"})
    BY MovesAwayResult
  <2>2. <<>> \o Moved("afl") = Moved("afl")
    BY MovedWrite, ConcatEmptySeq DEF Absent
  <2>3. MovesAway(Moved("afl"), x, {"afl"})
    BY <2>1, <2>2
  <2>4. MovesAway(Moved("afl") \o Moved("manifest"), x, {"afl"})
    BY <2>3, MovesAwayIdle
  <2> QED
    BY <2>4, MovesAwayIdle
<1> HIDE DEF a
<1>2. MovesAway(b, x, {"afl", "progress", "run"})
  <2>1. MovesAway(a \o Moved("progress"), x, {"afl"} \cup {"progress"})
    BY <1>1, MovesAwayTime
  <2> DEFINE d == a \o Moved("progress")
  <2> HIDE DEF d
  <2>2. MovesAway(d \o Moved("run"), x, ({"afl"} \cup {"progress"}) \cup {"run"})
    BY <2>1, MovesAwayResult DEF d
  <2>3. ({"afl"} \cup {"progress"}) \cup {"run"} = {"afl", "progress", "run"}
    OBVIOUS
  <2>4. MovesAway(d \o Moved("run"), x, {"afl", "progress", "run"})
    BY <2>2, <2>3
  <2> QED
    BY <2>4, MovesAwayIdle DEF d
<1> HIDE DEF b
<1>3. MovesAway(c, x, {"afl", "progress", "run", "probe"})
  <2>1. MovesAway(b \o Moved("probe"), x, {"afl", "progress", "run"} \cup {"probe"})
    BY <1>2, MovesAwayResult
  <2>2. {"afl", "progress", "run"} \cup {"probe"} = {"afl", "progress", "run", "probe"}
    OBVIOUS
  <2>3. MovesAway(b \o Moved("probe"), x, {"afl", "progress", "run", "probe"})
    BY <2>1, <2>2
  <2>4. MovesAway(b \o Moved("probe") \o Moved("quartet"), x, {"afl", "progress", "run", "probe"})
    BY <2>3, MovesAwayIdle
  <2> QED
    BY <2>4, MovesAwayIdle
<1> HIDE DEF c
<1>4. MovesAway(c \o Moved("summary"), x, {"afl", "progress", "run", "probe"} \cup {"summary"})
  BY <1>3, MovesAwayResult
<1>5. MovesAway(c \o Moved("summary") \o Moved("crash_files"), x,
             ({"afl", "progress", "run", "probe"} \cup {"summary"}) \cup {"crash_files"})
  BY <1>4, MovesAwayResult
<1>6. ({"afl", "progress", "run", "probe"} \cup {"summary"}) \cup {"crash_files"} = ResultMoves
  BY DEF ResultMoves
<1> QED
  BY <1>5, <1>6 DEF OperatorMoves, a, b, c

\* Without any result, a job may start anew.
LEMMA AnewRests ==
  ASSUME NEW ws, NEW x, MovesAway(ws, x, ResultMoves), mode = "idle",
         NEW stage \in {"integration", "build"}, NEW status \in {"prepared", "integrated"}
  PROVE  From(ws \o Save(NewState(stage, status)), x) \in Safe(Opened, Rested)
<1> DEFINE s == NewState(stage, status)
<1>1. PICK v : Gets(ws, x, v) /\ MovedAway(v, ResultMoves)
  BY DEF MovesAway
<1>2. s \in GoodStates
  BY AnewSuits
<1>3. /\ s.stage = stage /\ s.status = status /\ s.active = NoSession /\ s.triage_artifact = None
      /\ s.central_improvement = 0
  BY DEF NewState
<1> HIDE DEF s
<1> DEFINE z == [v EXCEPT !.state = s]
<1>4. Gets(ws \o Save(s), x, z)
  BY <1>1, <1>2, <1>3, GetsState
<1>5. z.state = s /\ z.progress = v.progress /\ z.spent = v.spent /\ z.probe = v.probe /\ z.crash_files = v.crash_files
  BY <1>1 DEF Gets, Known
<1>6. v.progress = Absent.progress /\ v.spent = 0 /\ v.probe = None /\ v.crash_files = FALSE
  BY <1>1 DEF MovedAway, ResultMoves
<1> HIDE DEF z
<1>7. z.progress.completed = z.spent
  BY <1>5, <1>6, AbsentReads
<1>8. TriageRests(z) /\ ArtifactRests(z)
  BY <1>3, <1>5 DEF TriageRests, ArtifactRests, None
<1>9. CrashRests(z)
  BY <1>3, <1>5, <1>6 DEF CrashRests, BeforeGate, Preparation, Fuzzed
<1>10. Rests(z)
  BY <1>3, <1>5, <1>7, <1>8, <1>9 DEF Rests, Floor
<1> QED
  BY <1>4, <1>10, GetsRest DEF s

LEMMA OperatorRests ==
  ASSUME CoreInv, PendingRests, Operator
  PROVE  PendingRests'
<1>1. /\ mode = "idle" /\ mode' = "operator" /\ pending = <<>> /\ disk' = disk /\ spent' = spent
      /\ \/ pending' = OperatorMoves \o Save(NewState("integration", "prepared"))
         \/ pending' = OperatorMoves \o <<W("integration", TRUE)>> \o Save(NewState("build", "integrated"))
  BY DEF Operator, Retarget, RepairHarness, Rework, history, CoreInv, TypeInv
<1>2. PICK x : x = Snapshot'
  OBVIOUS
<1>3. x = [disk |-> disk, spent |-> spent, own |-> TRUE]
  BY <1>1, <1>2 DEF Snapshot
<1>4. Snapshot \in Snapshots /\ Now \in Known /\ Open(Now) /\ Rests(Now)
  BY <1>1, RestNow
<1>5. x \in Snapshots
  BY <1>3, <1>4 DEF Snapshots, Snapshot
<1> DEFINE v == Facts(x)
<1>6. /\ v.state = st /\ v.own /\ v.afl = disk.afl /\ v.progress = disk.progress /\ v.spent = spent
      /\ v.run = disk.run /\ v.probe = disk.probe /\ v.summary = disk.summary
      /\ v.crash_files = disk.crash_files
  BY <1>3 DEF Facts, st
<1> HIDE DEF v
<1>7. Open(v)
  BY <1>4, <1>6, NowReads DEF Open
<1>8. x \in Opened
  BY <1>5, <1>7 DEF Opened, v
<1>9. MovesAway(<<>>, x, {})
  <2>1. Gets(<<>>, x, v)
    BY <1>8, GetsNone DEF v
  <2>2. MovedAway(v, {})
    BY <1>6 DEF MovedAway
  <2> QED
    BY <2>1, <2>2 DEF MovesAway
<1>10. MovesAway(OperatorMoves, x, ResultMoves)
  BY <1>4, <1>9, NowReads, OperatorMovesAway DEF Rests
<1>11. Rested' = Rested
  BY <1>1, RestedStays DEF Floor
<1>12. CASE pending' = OperatorMoves \o Save(NewState("integration", "prepared"))
  <2>1. From(OperatorMoves \o Save(NewState("integration", "prepared")), x) \in Safe(Opened, Rested)
    BY <1>1, <1>10, AnewRests
  <2> QED
    BY <1>2, <1>11, <1>12, <2>1 DEF PendingRests, Opened
<1>13. CASE pending' = OperatorMoves \o <<W("integration", TRUE)>> \o Save(NewState("build", "integrated"))
  <2> DEFINE ws == OperatorMoves \o <<W("integration", TRUE)>>
  <2>1. MovesAway(ws, x, ResultMoves)
    <3>1. PICK u : Gets(OperatorMoves, x, u) /\ MovedAway(u, ResultMoves)
      BY <1>10 DEF MovesAway
    <3>2. <<W("integration", TRUE)>> \in Seq(Idle)
      BY IdleFiles, Single
    <3>3. Gets(ws, x, u)
      BY <3>1, <3>2, GetsIdle
    <3> QED
      BY <3>1, <3>3 DEF MovesAway
  <2> HIDE DEF ws
  <2>2. From(ws \o Save(NewState("build", "integrated")), x) \in Safe(Opened, Rested)
    BY <1>1, <2>1, AnewRests
  <2> QED
    BY <1>2, <1>11, <1>13, <2>2 DEF PendingRests, Opened, ws
<1> QED
  BY <1>1, <1>12, <1>13


-----------------------------------------------------------------------------
(* The monitor, whose writes leave the files at rest after each of them.   *)

Keeps(ws, x, v) ==
  /\ ws \in Seq(Writes) /\ v \in Known /\ Open(v) /\ Rests(v)
  /\ Reaches(Rested, Rested, ws, x, Of(v))

LEMMA KeepsNone ==
  ASSUME NEW x \in Rested
  PROVE  Keeps(<<>>, x, Facts(x))
<1>1. x \in Snapshots /\ Open(Facts(x)) /\ Rests(Facts(x)) /\ x \in Of(Facts(x))
  BY DEF Rested, Opened, Of
<1> QED
  BY <1>1, FactsKnown, ReachNone DEF Keeps

LEMMA KeepsWrite ==
  ASSUME NEW ws, NEW x, NEW v, Keeps(ws, x, v), NEW w \in Writes, Open(Effect(v, w)), Rests(Effect(v, w))
  PROVE  Keeps(ws \o <<w>>, x, Effect(v, w))
<1> DEFINE z == Effect(v, w)
<1>1. z \in Known /\ Open(z) /\ Rests(z)
  BY EffectKnown DEF Keeps
<1>2. ASSUME NEW y \in Of(v)
      PROVE  y \in Snapshots /\ y \in Rested /\ Store(y, w) \in Of(z)
  BY FactsStore DEF Of, Opened, Rested, Keeps
<1> HIDE DEF z
<1>3. \A y \in Of(v) : Reaches(Rested, Rested, <<w>>, y, Of(z))
  BY <1>2, ReachOne
<1>4. <<w>> \in Seq(Writes)
  BY Single
<1>5. Reaches(Rested, Rested, ws \o <<w>>, x, Of(z)) /\ ws \o <<w>> \in Seq(Writes)
  BY <1>3, <1>4, ReachOn DEF Keeps
<1> QED
  BY <1>1, <1>5 DEF Keeps, z

LEMMA KeepsIdle ==
  ASSUME NEW ws, NEW x, NEW v, Keeps(ws, x, v), NEW u \in Seq(Idle)
  PROVE  Keeps(ws \o u, x, v)
<1> DEFINE X == Of(v)
<1>1. X \in SUBSET Snapshots /\ X \subseteq Rested /\ Idle \in SUBSET Writes
  BY DEF Of, Opened, Rested, Keeps, Idle
<1>2. ASSUME NEW y \in X, NEW w \in Idle
      PROVE  Store(y, w) \in X
  <2>1. y \in Snapshots /\ Facts(y) = v /\ v \in Known /\ w \in Writes /\ w.file \notin ResultFiles
    BY DEF Of, Idle, Keeps
  <2>2. Effect(v, w) = v
    BY <2>1, EffectOf
  <2> QED
    BY <2>1, <2>2, FactsStore DEF Of
<1> HIDE DEF X
<1>3. u \in Seq(Writes) /\ \A y \in X : Reaches(Rested, Rested, u, y, X)
  <2>1. \A t \in Seq(Idle), y \in X : t \in Seq(Writes) /\ Reaches(Rested, Rested, t, y, X)
    BY <1>1, <1>2, ReachStays
  <2>2. u \in Seq(Writes)
    BY <1>1, SeqMonotonic
  <2> QED
    BY <2>1, <2>2
<1>4. Reaches(Rested, Rested, ws \o u, x, X) /\ ws \o u \in Seq(Writes)
  BY <1>3, ReachOn DEF Keeps, X
<1> QED
  BY <1>4 DEF Keeps, X

LEMMA KeepsRest ==
  ASSUME NEW ws, NEW x, NEW v, Keeps(ws, x, v)
  PROVE  From(ws, x) \in Safe(Rested, Rested)
<1> DEFINE X == Of(v)
<1>1. X \in SUBSET Snapshots /\ X \subseteq Rested
  BY DEF Of, Opened, Rested, Keeps
<1>2. ws \in Seq(Writes) /\ Reaches(Rested, Rested, ws, x, X)
  BY DEF Keeps
<1> HIDE DEF X
<1> QED
  BY <1>1, <1>2, ReachSafe

\* The probe's result is moved away, of a job that is with none of its results.
LEMMA KeepsProbe ==
  ASSUME NEW ws, NEW x, NEW v, Keeps(ws, x, v), v.probe = disk.probe,
         v.state.stage \notin {"triage", "validation"}
  PROVE  Keeps(ws \o Moved("probe"), x, [v EXCEPT !.probe = None])
<1> DEFINE z == [v EXCEPT !.probe = None]
<1>1. v \in Known /\ ws \in Seq(Writes) /\ Open(v) /\ Rests(v)
  BY DEF Keeps
<1>2. CASE disk.probe = None
  <2>1. Moved("probe") = <<>>
    BY <1>2, AbsentReads DEF Moved
  <2>2. z = v
    BY <1>1, <1>2 DEF Known
  <2>3. ws \o Moved("probe") = ws
    BY <1>1, <2>1, ConcatEmptySeq
  <2> QED
    BY <2>2, <2>3
<1>3. CASE disk.probe # None
  <2> DEFINE w == W("probe", None)
  <2>1. Moved("probe") = <<w>>
    BY <1>3, AbsentReads DEF Moved
  <2>2. w \in Writes /\ w.file = "probe" /\ w.value = None
    <3>1. "probe" \in DOMAIN Absent /\ Absent["probe"] = None
      BY AbsentReads DEF Absent
    <3> QED
      BY <3>1, MovedWrite DEF W
  <2> HIDE DEF w
  <2>3. Effect(v, w) = z
    <3>1. Effect(v, w) = [v EXCEPT ![w.file] = w.value]
      BY <1>1, <2>2, EffectOf DEF ResultFiles
    <3> QED
      BY <2>2, <3>1
  <2>4. /\ z.state = v.state /\ z.probe = None /\ z.run = v.run /\ z.progress = v.progress
        /\ z.afl = v.afl /\ z.crash_files = v.crash_files /\ z.summary = v.summary
        /\ z.report = v.report /\ z.spent = v.spent /\ z.own = v.own
    BY <1>1 DEF Known
  <2> HIDE DEF z
  <2>5. TriageRests(z)
    BY <2>4 DEF TriageRests
  <2>6. ArtifactRests(z)
    BY <1>1, <2>4 DEF ArtifactRests, Rests
  <2>7. CrashRests(z)
    <3>1. CrashRests(v)
      BY <1>1 DEF Rests
    <3>2. None \notin Findings \cup {"clean", "broken"}
      BY DEF None, Findings
    <3> QED
      BY <2>4, <3>1, <3>2 DEF CrashRests
  <2>8. Rests(z)
    BY <1>1, <2>4, <2>5, <2>6, <2>7 DEF Rests, Worked
  <2>9. Open(z)
    BY <1>1, <2>4 DEF Open, Worked
  <2>10. Keeps(ws \o <<w>>, x, Effect(v, w))
    BY <2>2, <2>3, <2>8, <2>9, KeepsWrite
  <2> QED
    BY <2>1, <2>3, <2>10 DEF z
<1> QED
  BY <1>2, <1>3

LEMMA KeepsState ==
  ASSUME NEW ws, NEW x, NEW v, Keeps(ws, x, v), NEW s \in GoodStates,
         Open([v EXCEPT !.state = s]), Rests([v EXCEPT !.state = s])
  PROVE  Keeps(ws \o Save(s), x, [v EXCEPT !.state = s])
<1> DEFINE w == W("state", s)
<1>1. w.file = "state" /\ w.value = s /\ w \in Writes /\ v \in Known
  BY DEF W, Writes, Keeps
<1> HIDE DEF w
<1>2. Effect(v, w) = [v EXCEPT !.state = s]
  <2>1. Effect(v, w) = [v EXCEPT ![w.file] = w.value]
    BY <1>1, EffectOf DEF ResultFiles
  <2> QED
    BY <1>1, <2>1
<1>3. Keeps(ws \o <<w>>, x, Effect(v, w))
  BY <1>1, <1>2, KeepsWrite
<1> QED
  BY <1>2, <1>3 DEF Save, w

\* A job goes on steadily over several states.
LEMMA SteadyOn ==
  ASSUME NEW s, NEW r \in Steady(s)
  PROVE  Steady(r) \subseteq Steady(s)
<1>1. Steadily(s, r)
  BY DEF Steady
<1>2. ASSUME NEW t \in Steady(r)
      PROVE  t \in Steady(s)
  <2>1. Steadily(r, t) /\ t \in GoodStates
    BY DEF Steady
  <2>2. t \in Alike(s) /\ t.status # "exhausted"
    BY <1>1, <2>1 DEF Steadily, Alike
  <2>3. t.stage \in {"triage", "validation"} \cup Fuzzed => s.stage = t.stage \/ {s.stage, t.stage} \subseteq Fuzzed
    BY <1>1, <2>1 DEF Steadily, Fuzzed
  <2>4. /\ t.stage = "quartet_gate" => s.stage \in BeforeGate \cup {"quartet_gate"}
        /\ t.stage \in BeforeGate => s.stage \in BeforeGate
        /\ t.stage \notin Over => s.stage \notin Over
    BY <1>1, <2>1 DEF Steadily
  <2> QED
    BY <2>1, <2>2, <2>3, <2>4 DEF Steady, Steadily
<1> QED
  BY <1>2

LEMMA RecordedSteady ==
  ASSUME NEW s \in GoodStates, NEW e \in Errors
  PROVE  Recorded(s, e) \in Steady(s)
<1> DEFINE r == Recorded(s, e)
<1>1. /\ r \in GoodStates /\ r.stage \in {s.stage, "complete"}
      /\ r.status \in {"unsupported_integration", "manual_review", "interrupted", "recovery_pending"}
  BY RecordedIsGood
<1>2. /\ r.active = s.active /\ r.triage_artifact = s.triage_artifact
      /\ r.low_yield = s.low_yield /\ r.central_improvement = s.central_improvement
  BY DEF Recorded, GoodStates, State
<1> HIDE DEF r
<1>3. Steadily(s, r)
  BY <1>1, <1>2 DEF Steadily, Alike, Fuzzed, BeforeGate, Preparation, Over
<1> QED
  BY <1>1, <1>3 DEF Steady, r

\* The files as the worker may leave them, with state t.
Left(t) == [disk |-> [disk EXCEPT !.state = t], spent |-> spent, own |-> FALSE]

\* As long as the monitor has to write the job's state, what it writes keeps the files at
\* rest, whichever failure the worker records in between.
RecoveryRests ==
  /\ recovery \in Seq(Aloof)
  /\ recovery \notin Seq(AppliedWrites) =>
       /\ st.status # "exhausted"
       /\ \A t \in Steady(st) : From(recovery, Left(t)) \in Safe(Rested, Rested)

LEMMA LeftRests ==
  ASSUME CoreInv, PendingRests, pending = <<>>, mode # "operator", NEW t \in Steady(st)
  PROVE  /\ Left(t) \in Rested /\ Left(t) \in Snapshots /\ Facts(Left(t)) = [Now EXCEPT !.state = t]
         /\ [Now EXCEPT !.state = t] \in Known
<1>1. Snapshot \in Snapshots /\ Now \in Known /\ Rests(Now) /\ Now.state = st
  BY RestNow, NowReads
<1>2. Steadily(Now.state, t) /\ t \in GoodStates
  BY <1>1 DEF Steady
<1>3. Left(t) \in Snapshots /\ Left(t).disk = [disk EXCEPT !.state = t] /\ Left(t).spent = spent /\ Left(t).own = FALSE
  <2>1. disk \in Disk /\ disk \in GoodDisks /\ spent \in 0..Budget
    BY DEF CoreInv, TypeInv, TypeOK
  <2>2. [disk EXCEPT !.state = t] \in GoodDisks
    <3>1. t \in State
      BY <1>2 DEF GoodStates
    <3> QED
      BY <1>2, <2>1, <3>1 DEF GoodDisks, Disk
  <2> QED
    BY <2>1, <2>2 DEF Left, Snapshots
<1>4. Facts(Left(t)) = [Now EXCEPT !.state = t]
  <2>1. disk \in Disk
    BY DEF CoreInv, TypeInv, TypeOK
  <2>2. /\ Left(t).disk.state = t /\ Left(t).disk.probe = disk.probe /\ Left(t).disk.run = disk.run
        /\ Left(t).disk.progress = disk.progress /\ Left(t).disk.afl = disk.afl
        /\ Left(t).disk.crash_files = disk.crash_files /\ Left(t).disk.summary = disk.summary
        /\ Left(t).disk.report = disk.report
    BY <1>3, <2>1 DEF Disk
  <2>3. Now.own = FALSE
    BY NowReads
  <2>4. Facts(Left(t)) = [state |-> t, probe |-> Now.probe, run |-> Now.run, progress |-> Now.progress,
                          afl |-> Now.afl, crash_files |-> Now.crash_files, summary |-> Now.summary,
                          report |-> Now.report, spent |-> Now.spent, own |-> Now.own]
    BY <1>3, <2>2, <2>3, NowReads DEF Facts
  <2> QED
    BY <1>1, <2>4 DEF Known
<1>5. Rests([Now EXCEPT !.state = t]) /\ Open([Now EXCEPT !.state = t]) /\ [Now EXCEPT !.state = t] \in Known
  BY <1>1, <1>2, SteadyRests
<1> QED
  BY <1>3, <1>4, <1>5 DEF Rested, Opened


LEMMA RestartKeeps ==
  ASSUME NEW x \in Rested, NEW v, Facts(x) = v, v.probe = disk.probe,
         v.state.stage \notin {"triage", "validation"}
  PROVE  Keeps(RecoveryMoves, x, [v EXCEPT !.probe = None])
<1> DEFINE z == [v EXCEPT !.probe = None]
           a == Moved("integration") \o Moved("manifest") \o Moved("smoke")
<1>1. Keeps(a, x, v)
  <2>1. Keeps(<<>>, x, v)
    BY KeepsNone
  <2>2. Moved("integration") \in Seq(Idle) /\ Moved("manifest") \in Seq(Idle) /\ Moved("smoke") \in Seq(Idle)
    BY MovedIdle
  <2>3. a \in Seq(Idle)
    BY <2>2, ConcatProperties
  <2> HIDE DEF a
  <2>4. Keeps(<<>> \o a, x, v)
    BY <2>1, <2>3, KeepsIdle
  <2> QED
    BY <2>3, <2>4, ConcatEmptySeq
<1> HIDE DEF a
<1>2. Keeps(a \o Moved("probe"), x, z)
  BY <1>1, KeepsProbe
<1> HIDE DEF z
<1>3. Keeps((a \o Moved("probe")) \o Moved("quartet"), x, z)
  BY <1>2, MovedIdle, KeepsIdle
<1>4. Keeps(((a \o Moved("probe")) \o Moved("quartet")) \o Moved("plan"), x, z)
  BY <1>3, MovedIdle, KeepsIdle
<1> QED
  BY <1>4 DEF RecoveryMoves, a, z

\* The states the monitor decides on.
LEMMA RecoveredRests ==
  ASSUME NEW s \in GoodStates, Eligible(s), NEW action \in Options(s)
  PROVE  LET r == Recovered(s, action)
         IN  /\ action # "restart_from_integration" => r \in Steady(s)
             /\ action = "restart_from_integration" => r.stage = "integration"
             /\ r.active = s.active /\ r.central_improvement = s.central_improvement
             /\ r.triage_artifact = s.triage_artifact /\ r.low_yield = s.low_yield
             /\ r.status # "exhausted" /\ r \in GoodStates
<1> DEFINE r == Recovered(s, action)
<1>1. r \in GoodStates /\ s \in State /\ s.stage \in RECOVERABLE_FAILURE_STAGES
  BY RecoveredIsGood DEF Eligible, GoodStates
<1>2. action \in {"restart_from_integration", "retry_stage", "skip_target"}
  BY DEF Options
<1>3. /\ r.active = s.active /\ r.central_improvement = s.central_improvement
      /\ r.triage_artifact = s.triage_artifact /\ r.low_yield = s.low_yield
      /\ action = "restart_from_integration" => r.stage = "integration" /\ r.status = "prepared"
      /\ action = "retry_stage" => r.stage = s.stage /\ r.status = RetryStatus(s)
      /\ action = "skip_target" => r.stage = "complete" /\ r.status = "skipped_after_recovery"
  BY <1>1, <1>2 DEF Recovered, To, State
<1>4. RetryStatus(s) # "exhausted"
  BY <1>1 DEF RetryStatus, RECOVERY_STAGE_STATUS, RECOVERABLE_FAILURE_STAGES
<1> HIDE DEF r
<1>5. r.status # "exhausted"
  BY <1>2, <1>3, <1>4
<1>6. action # "restart_from_integration" => Steadily(s, r)
  BY <1>1, <1>2, <1>3, <1>5
     DEF Steadily, Alike, Fuzzed, BeforeGate, Preparation, Over, RECOVERABLE_FAILURE_STAGES
<1> QED
  BY <1>1, <1>3, <1>5, <1>6 DEF Steady, r

LEMMA RecoverRests ==
  ASSUME CoreInv, PendingRests, Recover
  PROVE  PendingRests' /\ RecoveryRests'
<1>1. /\ Eligible(st) /\ UNCHANGED <<disk, pending, spent, mode>> /\ st' = st
      /\ mode \notin {"followup", "operator"}
  BY DEF Recover, history, st
<1>2. PICK action \in Options(st) :
        recovery' = (IF action = "restart_from_integration" THEN RecoveryMoves ELSE <<>>)
                    \o Save(Recovered(st, action))
                    \o <<W("applied", disk.applied \cup {Applied(st, action)})>>
  BY DEF Recover
<1> DEFINE moves == IF action = "restart_from_integration" THEN RecoveryMoves ELSE <<>>
           s == Recovered(st, action)
           a == W("applied", disk.applied \cup {Applied(st, action)})
<1>3. st \in GoodStates /\ st \in State /\ disk.applied \in SUBSET Records
  BY DEF CoreInv, TypeInv, TypeOK, Disk, Records, st, GoodDisks
<1>4. Applied(st, action) \in Records
  BY <1>1, <1>2, <1>3, RecoveredIsGood
<1>5. a \in AppliedWrites
  BY <1>3, <1>4 DEF W, AppliedWrites
<1>6. /\ action # "restart_from_integration" => s \in Steady(st)
      /\ action = "restart_from_integration" => s.stage = "integration"
      /\ s.active = st.active /\ s.central_improvement = st.central_improvement
      /\ s.triage_artifact = st.triage_artifact /\ s.low_yield = st.low_yield
      /\ s.status # "exhausted" /\ s \in GoodStates
  BY <1>1, <1>2, <1>3, RecoveredRests
<1>7. recovery' = moves \o Save(s) \o <<a>>
  BY <1>2
<1> HIDE DEF s, a
<1>8. moves \in Seq(Aloof)
  BY MovesAreAloof, EmptySeq
<1> HIDE DEF moves
<1>9. recovery' \in Seq(Aloof)
  <2>1. W("state", s) \in Aloof /\ a \in Aloof
    BY <1>5, <1>6, MovesAreWrites DEF Aloof, W, Writes, AppliedWrites
  <2>2. Save(s) \in Seq(Aloof) /\ <<a>> \in Seq(Aloof)
    BY <2>1, Single DEF Save
  <2> QED
    BY <1>7, <1>8, <2>2, ConcatProperties
<1>10. pending = <<>> /\ st.status # "exhausted" /\ st.stage \in RECOVERABLE_FAILURE_STAGES
  BY <1>1 DEF CoreInv, WorkerAlone, Eligible, Stuck
<1>11. /\ Now \in Known /\ Rests(Now) /\ Now.state = st /\ Now.probe = disk.probe
  BY <1>10, RestNow, NowReads
<1>12. <<a>> \in Seq(Idle)
  <2>1. a \in Idle
    BY <1>5, MovesAreWrites DEF Idle, AppliedWrites, ResultFiles
  <2> QED
    BY <2>1, Single
<1>13. ASSUME NEW t \in Steady(st)
       PROVE  From(recovery', Left(t)) \in Safe(Rested, Rested)
  <2> DEFINE x == Left(t)
             v == [Now EXCEPT !.state = t]
  <2>1. x \in Rested /\ Facts(x) = v /\ v \in Known
    BY <1>1, <1>10, LeftRests
  <2>2. v.probe = disk.probe /\ v.state = t
    BY <1>11 DEF Known
  <2> HIDE DEF x
  <2>3. CASE action = "restart_from_integration"
    <3> DEFINE u == [v EXCEPT !.probe = None]
               z == [u EXCEPT !.state = s]
    <3>1. t.stage \notin {"triage", "validation"}
      BY <1>10 DEF Steady, Steadily, RECOVERABLE_FAILURE_STAGES, Fuzzed
    <3> HIDE DEF v
    <3>2. Keeps(RecoveryMoves, x, u)
      BY <2>1, <2>2, <3>1, RestartKeeps
    <3>3. u \in Known
      BY <3>2 DEF Keeps
    <3>4. /\ z.state = s /\ z.probe = None /\ z.run = v.run /\ z.progress = v.progress
          /\ z.afl = v.afl /\ z.crash_files = v.crash_files /\ z.spent = v.spent
      BY <2>1, <3>3 DEF Known
    <3>5. v.afl = Now.afl /\ v.progress = Now.progress /\ v.spent = Now.spent
      BY <1>11 DEF v, Known
    <3> HIDE DEF z, u
    <3>6. TriageRests(z)
      BY <1>6, <2>3, <3>4 DEF TriageRests
    <3>7. ArtifactRests(z)
      BY <1>6, <1>10, <1>11, <3>4, <3>5 DEF ArtifactRests, Rests, Over, RECOVERABLE_FAILURE_STAGES
    <3>8. CrashRests(z)
      <4>1. None \notin Findings \cup {"clean", "broken"}
        BY DEF None, Findings
      <4> QED
        BY <1>6, <2>3, <3>4, <4>1 DEF CrashRests, Fuzzed
    <3>9. Rests(z)
      BY <1>6, <1>11, <2>3, <3>4, <3>5, <3>6, <3>7, <3>8 DEF Rests
    <3>10. Open(z)
      BY <1>6, <3>4 DEF Open
    <3>11. Keeps(RecoveryMoves \o Save(s), x, z)
      BY <1>6, <3>2, <3>9, <3>10, KeepsState DEF z
    <3>12. Keeps((RecoveryMoves \o Save(s)) \o <<a>>, x, z)
      BY <1>12, <3>11, KeepsIdle
    <3>13. From((RecoveryMoves \o Save(s)) \o <<a>>, x) \in Safe(Rested, Rested)
      BY <3>12, KeepsRest
    <3> QED
      BY <1>7, <2>3, <3>13 DEF moves, x
  <2>4. CASE action # "restart_from_integration"
    <3> DEFINE z == [Now EXCEPT !.state = s]
    <3>1. Rests(z) /\ Open(z)
      BY <1>6, <1>11, <2>4, SteadyRests DEF Steady
    <3>2. [v EXCEPT !.state = s] = z
      BY <1>11 DEF Known
    <3>3. Keeps(<<>>, x, v)
      BY <2>1, KeepsNone
    <3> HIDE DEF v, z
    <3>4. Keeps(<<>> \o Save(s), x, z)
      BY <1>6, <3>1, <3>2, <3>3, KeepsState
    <3>5. Keeps((<<>> \o Save(s)) \o <<a>>, x, z)
      BY <1>12, <3>4, KeepsIdle
    <3>6. From((<<>> \o Save(s)) \o <<a>>, x) \in Safe(Rested, Rested)
      BY <3>5, KeepsRest
    <3> QED
      BY <1>7, <2>4, <3>6 DEF moves, x
  <2> QED
    BY <2>3, <2>4
<1>14. \A t : Left(t)' = Left(t)
  BY <1>1 DEF Left
<1>15. Rested' = Rested
  BY <1>1, RestedStays DEF Floor
<1>16. Steady(st)' = Steady(st)
  BY <1>1 DEF Steady, Steadily, Alike
<1>17. RecoveryRests'
  BY <1>1, <1>9, <1>10, <1>13, <1>14, <1>15, <1>16 DEF RecoveryRests
<1>18. Snapshot' = Snapshot
  BY <1>1 DEF Snapshot
<1> QED
  BY <1>1, <1>15, <1>17, <1>18 DEF PendingRests, Opened


LEMMA RecordRests ==
  ASSUME CoreInv, PendingRests, RecordWorkerError
  PROVE  /\ PendingRests'
         /\ RecoveryRests /\ recovery \notin Seq(AppliedWrites) /\ mode \notin {"followup", "operator"}
              => RecoveryRests'
<1>1. st' = Recorded(st, raised) /\ raised \in Errors /\ st \in GoodStates /\ CoreInv'
  BY RecordKeepsCore
<1>2. /\ pending = <<>> /\ pending' = <<>> /\ recovery' = recovery /\ spent' = spent /\ mode' = "idle"
      /\ disk' = [disk EXCEPT !.state = Recorded(st, raised)]
  BY DEF RecordWorkerError, Leave, history
<1>3. disk \in Disk /\ spent \in 0..Budget /\ disk' \in GoodDisks
  BY <1>1 DEF CoreInv, TypeInv, TypeOK
<1> DEFINE t == Recorded(st, raised)
<1>4. t \in Steady(st) /\ t \in GoodStates /\ t \in State
  BY <1>1, RecordedSteady DEF Steady, GoodStates
<1> HIDE DEF t
<1>5. disk' = [disk EXCEPT !.state = t] /\ st' = t
  BY <1>1, <1>2 DEF t
<1>6. PendingRests'
  <2>1. PICK y : y = Snapshot'
    OBVIOUS
  <2>2. y = [disk |-> disk', spent |-> spent, own |-> FALSE]
    BY <1>2, <2>1 DEF Snapshot
  <2>3. y \in Snapshots /\ y.disk = [disk EXCEPT !.state = t] /\ y.spent = spent
    BY <1>3, <1>5, <2>2 DEF Snapshots
  <2>4. PICK v : v = Facts(y)
    OBVIOUS
  <2>5. /\ v.state = t /\ v.probe = disk.probe /\ v.run = disk.run /\ v.progress = disk.progress
        /\ v.afl = disk.afl /\ v.crash_files = disk.crash_files /\ v.summary = disk.summary
        /\ v.report = disk.report /\ v.spent = spent
    BY <1>3, <2>3, <2>4 DEF Facts, Disk
  <2>6. Now \in Known /\ Rests(Now) /\ Now.state = st
    BY <1>2, RestNow, NowReads
  <2> DEFINE z == [Now EXCEPT !.state = t]
  <2>7. Rests(z)
    BY <1>4, <2>6, SteadyRests DEF Steady
  <2>8. /\ z.state = t /\ z.probe = disk.probe /\ z.run = disk.run /\ z.progress = disk.progress
        /\ z.afl = disk.afl /\ z.crash_files = disk.crash_files /\ z.summary = disk.summary
        /\ z.report = disk.report /\ z.spent = spent
    BY <2>6, NowReads DEF Known
  <2> HIDE DEF z
  <2>9. Rests(v)
    BY <2>5, <2>7, <2>8 DEF Rests, TriageRests, ArtifactRests, CrashRests, ThereIn, ListedIn, Worked
  <2>10. v.state.central_improvement \in Nat
    BY <1>4, <2>5 DEF State
  <2>11. Floor' = 0
    BY <1>2 DEF Floor
  <2>12. From(<<>>, y) \in Safe(Opened, Rested')
    BY <2>3, <2>4, <2>9, <2>10, <2>11, NewlyRested
  <2> QED
    BY <1>2, <2>1, <2>12 DEF PendingRests, Opened
<1>7. ASSUME RecoveryRests, recovery \notin Seq(AppliedWrites), mode \notin {"followup", "operator"}
      PROVE  RecoveryRests'
  <2>1. Steady(t) \subseteq Steady(st)
    BY <1>4, SteadyOn
  <2>2. \A u : [disk' EXCEPT !.state = u] = [disk EXCEPT !.state = u]
    BY <1>3, <1>5 DEF Disk
  <2>3. \A u : Left(u)' = Left(u)
    BY <1>2, <2>2 DEF Left
  <2>4. Rested' = Rested
    BY <1>2, <1>7, RestedStays DEF Floor
  <2>5. Steady(st)' = Steady(t)
    BY <1>5 DEF Steady, Steadily, Alike
  <2>6. \A u \in Steady(t) : From(recovery, Left(u)) \in Safe(Rested, Rested)
    BY <1>7, <2>1 DEF RecoveryRests
  <2>7. t.status # "exhausted"
    BY <1>4 DEF Steady, Steadily
  <2> QED
    BY <1>2, <1>5, <1>7, <2>3, <2>4, <2>5, <2>6, <2>7 DEF RecoveryRests
<1> QED
  BY <1>6, <1>7

LEMMA NotedFacts ==
  ASSUME NEW v \in Snapshots, NEW a \in SUBSET Records
  PROVE  Noted(v, a) \in Snapshots /\ Facts(Noted(v, a)) = Facts(v)
<1>1. /\ Noted(v, a) \in Snapshots /\ Noted(v, a).disk = [v.disk EXCEPT !.applied = a]
      /\ Noted(v, a).spent = v.spent /\ Noted(v, a).own = v.own /\ v.disk \in Disk
  BY NotedReads DEF Snapshots, GoodDisks
<1>2. PICK z : z = Noted(v, a)
  OBVIOUS
<1>3. /\ z.disk.state = v.disk.state /\ z.disk.probe = v.disk.probe /\ z.disk.run = v.disk.run
      /\ z.disk.progress = v.disk.progress /\ z.disk.afl = v.disk.afl
      /\ z.disk.crash_files = v.disk.crash_files /\ z.disk.summary = v.disk.summary
      /\ z.disk.report = v.disk.report /\ z.spent = v.spent /\ z.own = v.own
  BY <1>1, <1>2 DEF Disk
<1>4. Facts(z) = Facts(v)
  BY <1>3 DEF Facts
<1> QED
  BY <1>1, <1>2, <1>4

LEMMA MonitorWriteRests ==
  ASSUME CoreInv, RecoveryInv, PendingRests, RecoveryRests, MonitorWrite
  PROVE  PendingRests' /\ RecoveryRests'
<1> DEFINE w == Head(recovery)
           rest == Tail(recovery)
<1>1. /\ recovery # <<>> /\ recovery' = rest /\ disk' = [disk EXCEPT ![w.file] = w.value]
      /\ pending' = pending /\ spent' = spent /\ mode' = mode
  BY DEF MonitorWrite, history
<1>2. w \in Aloof /\ rest \in Seq(Aloof) /\ w \in Writes /\ w.file # "progress"
  BY <1>1, HeadTailProperties DEF RecoveryRests, Aloof
<1>3. Snapshot \in Snapshots /\ st \in GoodStates /\ disk \in Disk
  BY SafeNow DEF PendingRests, CoreInv, TypeInv, TypeOK, GoodDisks, st
<1>4. Rested' = Rested
  BY <1>1, RestedStays DEF Floor
<1>5. CASE w \in AppliedWrites /\ rest \in Seq(AppliedWrites)
  <2>1. w.file = "applied" /\ w.value \in SUBSET Records
    BY <1>5 DEF AppliedWrites
  <2> HIDE DEF w, rest
  <2>2. Snapshot' = Noted(Snapshot, w.value)
    BY <1>1, <2>1 DEF Snapshot, Noted
  <2>3. From(pending, Noted(Snapshot, w.value)) \in Safe(Opened, Rested)
    <3>1. \A v \in Snapshots, b \in SUBSET Records : v \in Opened => Noted(v, b) \in Opened
      BY NotedFacts DEF Opened
    <3>2. \A v \in Snapshots, b \in SUBSET Records : v \in Rested => Noted(v, b) \in Rested
      BY <3>1, NotedFacts DEF Rested
    <3> QED
      BY <2>1, <3>1, <3>2, NotedSafe DEF PendingRests
  <2>4. PendingRests'
    BY <1>1, <1>4, <2>2, <2>3 DEF PendingRests, Opened
  <2> QED
    BY <1>1, <1>2, <1>5, <2>4 DEF RecoveryRests
<1>6. CASE ~(w \in AppliedWrites /\ rest \in Seq(AppliedWrites))
  <2>1. recovery \notin Seq(AppliedWrites)
    BY <1>1, <1>6, HeadTailProperties
  <2>2. pending = <<>> /\ mode # "operator" /\ st.status # "exhausted"
    BY <2>1 DEF RecoveryInv, RecoveryRests
  <2>3. \A t \in Steady(st) : From(rest, Store(Left(t), w)) \in Safe(Rested, Rested)
    BY <1>1, <2>1, SafeNow DEF RecoveryRests
  <2>4. Snapshot = Left(st) /\ st \in Steady(st)
    <3>1. disk = [disk EXCEPT !.state = st]
      BY <1>3 DEF Disk, st
    <3>2. Snapshot = Left(st)
      BY <2>2, <3>1 DEF Left, Snapshot
    <3>3. Steadily(st, st)
      BY <1>3, <2>2 DEF Steadily, Alike
    <3> QED
      BY <1>3, <3>2, <3>3 DEF Steady
  <2> HIDE DEF w, rest
  <2>5. Snapshot' = Store(Snapshot, w)
    BY <1>1, <1>2 DEF Snapshot, Store
  <2>6. From(rest, Snapshot') \in Safe(Rested, Rested)
    BY <2>3, <2>4, <2>5
  <2>7. PendingRests'
    <3>1. PICK y : y = Snapshot'
      OBVIOUS
    <3>2. y \in Snapshots /\ y \in Rested
      BY <2>6, <3>1, SafeNow
    <3>3. From(<<>>, y) \in Safe(Opened, Rested)
      BY <3>2, NothingSafe DEF Rested
    <3> QED
      BY <1>1, <1>4, <2>2, <3>1, <3>3 DEF PendingRests, Opened
  <2>8. CASE w.file = "state"
    <3>1. rest \in Seq(AppliedWrites)
      BY <1>1, <2>1, <2>8, FirstMonitorWrite DEF w, rest, AppliedWrites, Moves, FileWrites
    <3> QED
      BY <1>1, <1>2, <2>7, <3>1 DEF RecoveryRests
  <2>9. CASE w.file # "state"
    <3>1. st' = st
      BY <1>1, <1>3, <2>9 DEF st, Disk
    <3>2. ASSUME NEW t
          PROVE  Left(t)' = Store(Left(t), w)
      <4>1. [disk' EXCEPT !.state = t] = [[disk EXCEPT !.state = t] EXCEPT ![w.file] = w.value]
        BY <1>1, <1>3, <2>9 DEF Disk
      <4> QED
        BY <1>1, <1>2, <4>1 DEF Store, Left
    <3>3. Steady(st)' = Steady(st)
      BY <3>1 DEF Steady, Steadily, Alike
    <3>4. \A t \in Steady(st) : From(rest, Left(t)') \in Safe(Rested, Rested)
      BY <2>3, <3>2
    <3> QED
      BY <1>1, <1>2, <1>4, <2>2, <2>7, <3>1, <3>3, <3>4 DEF RecoveryRests
  <2> QED
    BY <2>8, <2>9
<1> QED
  BY <1>5, <1>6


-----------------------------------------------------------------------------
(* Every step of a host that does not stop.                                *)

LEMMA RestsStep ==
  ASSUME crashes' = 0, CoreInv, RecoveryInv, PendingRests, RecoveryRests, [Next]_vars
  PROVE  PendingRests' /\ RecoveryRests'
<1>1. CASE Recover
  BY <1>1, RecoverRests
<1>2. CASE MonitorWrite
  BY <1>2, MonitorWriteRests
<1>3. ~Crash
  BY DEF Crash, CoreInv, TypeInv, TypeOK
<1>4. ASSUME ~Monitor
      PROVE  recovery' = recovery
  <2>1. CASE Handler
    BY <2>1, HandlersDo DEF HandlerStep
  <2>2. CASE ~Handler
    BY <1>3, <1>4, <2>2
       DEF Next, Worker, Operator, vars, Start, Write, Ready, NeedsAttention, GiveUp, Return,
           RecordWorkerError, FollowupHarness, Retarget, RepairHarness, Rework, StopSeen
  <2> QED
    BY <2>1, <2>2
<1>5. ASSUME ~Monitor, recovery \in Seq(AppliedWrites)
      PROVE  RecoveryRests'
  BY <1>4, <1>5 DEF RecoveryRests
<1>6. ASSUME ~Monitor, recovery \notin Seq(AppliedWrites)
      PROVE  RecoveryRests'
  <2>1. /\ pending = <<>> /\ mode \notin {"followup", "operator"}
        /\ st.status \in MANUAL_STATUSES /\ recovery # <<>>
    BY <1>6, EmptySeq DEF RecoveryInv
  <2>2. ~AtTop /\ ~Write /\ ~FollowupHarness /\ ~Operator /\ ~Start
    BY <2>1 DEF AtTop, Write, FollowupHarness, Operator, Retarget, RepairHarness, Rework, Start
  <2>3. ~Handler /\ ~Ready /\ ~StopSeen
    BY <2>2, HandlersAtTop DEF Ready, StopSeen, AtStage
  <2>4. CASE RecordWorkerError
    BY <1>6, <2>1, <2>4, RecordRests
  <2>5. CASE NeedsAttention \/ GiveUp \/ Return \/ UNCHANGED vars
    <3>1. UNCHANGED <<disk, recovery, spent>>
      BY <2>5 DEF NeedsAttention, GiveUp, Return, vars, history
    <3>2. mode' \in {"idle", mode}
      BY <2>5 DEF NeedsAttention, GiveUp, Return, vars, Leave
    <3>3. Rested' = Rested
      BY <2>1, <3>2, RestedStays DEF Floor
    <3>4. st' = st /\ \A t : Left(t)' = Left(t)
      BY <3>1 DEF st, Left
    <3>5. Steady(st)' = Steady(st)
      BY <3>4 DEF Steady, Steadily, Alike
    <3> QED
      BY <1>6, <3>1, <3>3, <3>4, <3>5 DEF RecoveryRests
  <2> QED
    BY <1>3, <1>6, <2>2, <2>3, <2>4, <2>5 DEF Next, Worker
<1>7. ASSUME ~Monitor, ~Write, ~RecordWorkerError
      PROVE  PendingRests'
  <2>1. CASE Handler
    BY <2>1, HandlersRest
  <2>2. pending' \in Seq(Writes)
    BY CoreStep DEF CoreInv, TypeInv
  <2>3. CASE Ready
    BY <2>2, <2>3, ReadyRests
  <2>4. CASE FollowupHarness
    BY <2>2, <2>4, FollowupRests
  <2>5. CASE Operator
    BY <2>5, OperatorRests
  <2>6. CASE UNCHANGED vars
    <3>1. pending' = pending /\ Snapshot' = Snapshot /\ mode' = mode
      BY <2>6 DEF vars, history, Snapshot
    <3>2. Rested' = Rested
      BY <3>1, RestedStays DEF Floor
    <3> QED
      BY <3>1, <3>2 DEF PendingRests, Opened
  <2>7. CASE Start \/ NeedsAttention \/ GiveUp \/ StopSeen \/ Return
    <3>1. disk' = disk /\ spent' = spent
      BY <2>7 DEF Start, NeedsAttention, GiveUp, StopSeen, Return, history
    <3>2. pending = <<>> /\ pending' = <<>>
      BY <2>7 DEF Start, NeedsAttention, GiveUp, StopSeen, Return, AtTop, AtStage, BetweenHandlers,
                  CoreInv, TypeInv
    <3>3. Floor' \in {0, Floor}
      BY <2>7 DEF Start, NeedsAttention, GiveUp, StopSeen, Return, Leave, Floor
    <3> QED
      BY <3>1, <3>2, <3>3, RestartedRests
  <2> QED
    BY <1>3, <1>7, <2>1, <2>3, <2>4, <2>5, <2>6, <2>7 DEF Next, Worker
<1>8. CASE Write
  <2>1. ~Monitor
    BY <1>8, RecoveryStep DEF Write, Monitor, Recover, MonitorWrite
  <2> QED
    BY <1>5, <1>6, <1>8, <2>1, WriteRests
<1>9. CASE RecordWorkerError
  <2>1. ~Monitor
    BY <1>9 DEF RecordWorkerError, Monitor, Recover, MonitorWrite, Leave
  <2> QED
    BY <1>5, <1>6, <1>9, <2>1, RecordRests
<1> QED
  BY <1>1, <1>2, <1>5, <1>6, <1>7, <1>8, <1>9 DEF Monitor

\* The host has not stopped before it does.
LEMMA OnceStopped ==
  ASSUME CoreInv, [Next]_vars, crashes' = 0
  PROVE  crashes = 0
<1>1. CASE Handler
  BY <1>1, HandlersDo DEF HandlerStep
<1>2. CASE ~Handler /\ ~Crash
  BY <1>2 DEF Next, Worker, Monitor, Operator, vars, environment, Start, Write, Ready, NeedsAttention, GiveUp,
              Return, RecordWorkerError, Recover, MonitorWrite, FollowupHarness, Retarget, RepairHarness,
              Rework, StopSeen
<1>3. CASE Crash
  BY <1>3 DEF Crash, CoreInv, TypeInv, TypeOK
<1> QED
  BY <1>1, <1>2, <1>3

LEMMA InitRests ==
  ASSUME Init
  PROVE  PendingRests /\ RecoveryRests
<1>1. CoreInv
  BY InitGood
<1>2. disk \in GoodDisks /\ disk \in Disk /\ spent \in 0..Budget
  BY <1>1 DEF CoreInv, TypeInv, TypeOK
<1> DEFINE y == Snapshot
           v == Facts(y)
<1>3. y \in Snapshots /\ y.disk = disk /\ y.spent = spent
  BY <1>2 DEF Snapshot, Snapshots
<1>4. /\ disk.state.stage = "policy_recheck" /\ disk.state.status = "queued"
      /\ disk.state.active = NoSession /\ disk.state.triage_artifact = None
      /\ disk.state.central_improvement = 0 /\ disk.progress.completed = 0 /\ spent = 0
      /\ disk.probe = None /\ pending = <<>> /\ recovery = <<>> /\ mode = "idle"
  BY DEF Init, NewState, Absent
<1>5. v.state = disk.state /\ v.progress = disk.progress /\ v.spent = spent /\ v.probe = disk.probe
  BY <1>3 DEF Facts
<1> HIDE DEF v, y
<1>6. TriageRests(v) /\ ArtifactRests(v)
  BY <1>4, <1>5 DEF TriageRests, ArtifactRests, None
<1>7. CrashRests(v)
  BY <1>4, <1>5 DEF CrashRests, Fuzzed
<1>8. Rests(v)
  BY <1>4, <1>5, <1>6, <1>7 DEF Rests, Floor
<1>9. Open(v)
  BY <1>4, <1>5 DEF Open
<1>10. y \in Opened /\ y \in Rested
  BY <1>3, <1>8, <1>9 DEF Opened, Rested, v
<1>11. PendingRests
  BY <1>3, <1>4, <1>10, NothingSafe DEF PendingRests, y
<1>12. RecoveryRests
  BY <1>4, EmptySeq DEF RecoveryRests
<1> QED
  BY <1>11, <1>12

\* As long as the host did not stop, the books, the results, the crash files and the state
\* agree whenever the running handler has made all its writes, and an exhausted job has its
\* budget spent at any time.
THEOREM ResultsRest == Spec => [](crashes = 0 => PendingRests /\ RecoveryRests)
<1> DEFINE Inv == crashes = 0 => PendingRests /\ RecoveryRests
<1>1. Init => Inv
  BY InitRests
<1>2. CoreInv /\ RecoveryInv /\ Inv /\ [Next]_vars => Inv'
  BY RestsStep, OnceStopped
<1> HIDE DEF Inv
<1>3. Spec => []Inv
  BY <1>1, <1>2, CoreHolds, PTL DEF Spec
<1> QED
  BY <1>3 DEF Inv

\* A host that is not to stop at all has not stopped.
LEMMA NeverStopped ==
  ASSUME MaxCrashes = 0
  PROVE  Spec => []PendingRests
<1>1. CoreInv => crashes = 0
  BY DEF CoreInv, TypeInv, TypeOK
<1> QED
  BY <1>1, CoreHolds, ResultsRest, PTL

\* Between two handlers fuzz-progress.json tells all the time that was ever recorded, of a
\* host that does not stop: no session, recovery or follow-up takes any of it back.
THEOREM TimeIsNotForgotten ==
  ASSUME MaxCrashes = 0
  PROVE  Spec => []NoTimeForgotten
<1>1. ASSUME CoreInv, PendingRests
      PROVE  NoTimeForgotten
  BY <1>1, RestNow, NowReads DEF NoTimeForgotten, Rests
<1> QED
  BY <1>1, CoreHolds, NeverStopped, PTL

\* At rest, triage finds the artifact that sent the job there, and validation a reproduced
\* crash, whatever the stage that found it.
THEOREM EvidenceIsPresent ==
  ASSUME MaxCrashes = 0
  PROVE  Spec => []EvidencePresent
<1>1. ASSUME CoreInv, PendingRests
      PROVE  EvidencePresent
  <2> SUFFICES ASSUME pending = <<>>
               PROVE  /\ st.stage = "triage" => ArtifactThere
                      /\ st.stage = "validation" => disk.summary = "reproduced" \/ disk.report
    BY DEF EvidencePresent
  <2>1. Rests(Now)
    BY <1>1, RestNow
  <2>2. ASSUME st.stage = "triage"
        PROVE  ArtifactThere
    <3>1. ThereIn(Now)
      BY <2>1, <2>2, NowReads DEF Rests, TriageRests
    <3> QED
      BY <3>1, NowReads DEF ThereIn, ArtifactThere, None
  <2> QED
    BY <2>1, <2>2, NowReads DEF Rests
<1> QED
  BY <1>1, CoreHolds, NeverStopped, PTL

\* A job that is closed as exhausted had its budget, gave up for low yield, or had a follow-up
\* harness, also while the writes of another handler are under way.
THEOREM ExhaustedIsSpent ==
  ASSUME MaxCrashes = 0
  PROVE  Spec => []ExhaustedMeansSpent
<1>1. ASSUME PendingRests
      PROVE  ExhaustedMeansSpent
  <2>1. Open(Now)
    BY <1>1, SafeNow DEF PendingRests, Opened, Now
  <2> QED
    BY <2>1, NowReads DEF Open, Worked, ExhaustedMeansSpent
<1> QED
  BY <1>1, NeverStopped, PTL

\* No crash file lies about in a job that is closed as exhausted, unless the operator could
\* stop the probe run between the crash and its record, or the host did.
THEOREM FindingsAreNotLeft ==
  ASSUME MaxCrashes = 0, "stop" \notin Commands
  PROVE  Spec => []NoFindingLeftBehind
<1>1. ASSUME PendingRests
      PROVE  NoFindingLeftBehind
  <2>1. Open(Now)
    BY <1>1, SafeNow DEF PendingRests, Opened, Now
  <2> QED
    BY <2>1, NowReads DEF Open, Unstopped, NoFindingLeftBehind
<1> QED
  BY <1>1, NeverStopped, PTL

=================================================================================
