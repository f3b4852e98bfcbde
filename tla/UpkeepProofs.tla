------------------------------ MODULE UpkeepProofs ------------------------------
(* Housekeeping is safe for every corpus, every number of edits, errors and crashes: *)
(* theorems about Upkeep.                                                           *)
(*                                                                                  *)
(* None of the three safety properties is inductive.  A run of the housekeeper acts *)
(* on what it read before: on the state (build copies, disk limit), on the states   *)
(* of running jobs (orphans) and on a snapshot of the corpus (compaction).  What    *)
(* makes it right is said of the reads that are still to be used.                   *)
EXTENDS Upkeep, TLAPS

SessionType == [step : {"none", "probe", "fuzz"}, copy : States, held : SUBSET Inputs]

KeeperType ==
  [by : {"nobody", "worker", "agent", "cli"},
   pc : {"idle", "walk", "merge", "verify", "check", "unlink", "strip", "limit", "owners",
         "orphans", "end"},
   state : States, snapshot : [Inputs -> Nat], selected : SUBSET {Content[n] : n \in Inputs},
   redundant : SUBSET (Inputs \X Nat), over : BOOLEAN, owned : BOOLEAN]

TypeInv ==
  /\ TypeOK
  /\ files \in [Inputs -> Nat] /\ session \in SessionType /\ keeper \in KeeperType
  /\ keeper.by = "nobody" => keeper = NoKeeper
  /\ fresh \in BOOLEAN /\ workspace \in BOOLEAN /\ container \in BOOLEAN
  /\ killed \in BOOLEAN /\ raced \in BOOLEAN
  /\ edits \in Nat /\ schedule \in [failures : 0..3, wait : 0..6]

\* A job that is complete has no handler at work.  What the housekeeper read as complete
\* and old is complete still; where the build copies are gone, nothing can take the job on,
\* neither a handler nor a housekeeper with an earlier state in its hands.
BuildInv ==
  /\ session.step # "none" => job.stage # "complete"
  /\ keeper.state.stage = "complete" /\ ~fresh => job.stage = "complete"
  /\ ~workspace => /\ job.stage = "complete" /\ ~fresh
                   /\ keeper.by # "nobody" => keeper.state.stage = "complete"

\* The state the disk limit is about to write, and the list of owners the orphans are
\* measured by, name a session that is registered.
SessionInv ==
  session.step = "fuzz" /\ ~raced =>
    /\ ~killed /\ job.active /\ job.status = "running"
    /\ keeper.pc = "limit" => keeper.state.active
    /\ keeper.pc = "orphans" => keeper.owned

\* Every file that is written is newer than those a snapshot saw.
Inodes ==
  \A n \in Inputs : files[n] <= edits + 1 /\ keeper.snapshot[n] <= edits + 1

\* What a fuzzer has loaded covers everything, and it is on disk.
HeldCovers ==
  session.step = "fuzz" /\ ~raced =>
    session.held \subseteq Present /\ covered \subseteq Covers(session.held)

\* A file that is still the one of the snapshot has nothing the merge did not select.
Selection == UNION {Features[n] : n \in {m \in Inputs : Content[m] \in keeper.selected}}
SnapshotSelected ==
  keeper.pc = "verify" =>
    \A n \in Present : files[n] = keeper.snapshot[n] => Features[n] \subseteq Selection

\* What is left when every redundant file is gone covers everything, unless a session
\* is at work; and then the housekeeper does not get as far as removing files.
Survivors == {n \in Present : <<n, files[n]>> \notin keeper.redundant}
SurvivorsCover ==
  keeper.pc \in {"check", "unlink"} /\ session.step # "fuzz" /\ ~raced =>
    covered \subseteq Covers(Survivors)
UnlinkAlone == keeper.pc = "unlink" /\ ~raced => session.step # "fuzz"

CorpusInv ==
  Inodes /\ HeldCovers /\ SnapshotSelected /\ SurvivorsCover /\ UnlinkAlone /\ CorpusCovered

-----------------------------------------------------------------------------
(* Type correctness.                                                       *)

LEMMA StartTypes ==
  /\ NoSession \in SessionType /\ NoKeeper \in KeeperType
  /\ NoKeeper.by = "nobody" /\ NoKeeper.pc = "idle" /\ NoKeeper.state.stage = "fuzzing"
BY DEF NoSession, NoKeeper, SessionType, KeeperType, States

LEMMA InitialTypes ==
  ASSUME Init
  PROVE  TypeInv
<1>1. job \in States /\ job.stage = "fuzzing" /\ session.copy \in States /\ keeper.state \in States
  BY StartTypes DEF Init, States, SessionType, KeeperType
<1>2. schedule \in [failures : 0..3, wait : 0..6]
  BY UpkeepConstants DEF Init
<1> QED
  BY <1>1, <1>2, StartTypes DEF Init, TypeInv, TypeOK

\* A run goes on from a step that somebody took the lock for.
LEMMA RunIsOn ==
  ASSUME TypeInv, keeper.pc # "idle"
  PROVE  keeper.by # "nobody"
BY StartTypes DEF TypeInv

\* A corpus that stays over its limit.
LEMMA StaysOverType ==
  ASSUME NEW k \in KeeperType
  PROVE  /\ StaysOver(k) \in KeeperType
         /\ StaysOver(k).pc = "strip" /\ StaysOver(k).state = k.state /\ StaysOver(k).by = k.by
         /\ StaysOver(k).snapshot = NoKeeper.snapshot
BY DEF StaysOver, KeeperType, NoKeeper

LEMMA TypeStep ==
  ASSUME TypeInv, [Next]_vars
  PROVE  TypeInv'
<1> USE DEF TypeInv, TypeOK, bounds
<1>1. CASE Register
  BY <1>1 DEF Register, WriteState, States, SessionType, Present
<1>2. CASE StartProbe
  BY <1>2, StartTypes DEF StartProbe, SessionType
<1>3. CASE Find
  BY <1>3 DEF Find, SessionType
<1>4. CASE EndSession
  <2>1. PICK stage \in {"fuzzing", "complete"} :
          job' = [session.copy EXCEPT !.active = FALSE, !.stage = stage,
                    !.status = IF stage = "complete" THEN "exhausted" ELSE "ready"]
    BY <1>4 DEF EndSession, WriteState
  <2>2. job' \in States /\ (job'.stage = "complete" => job'.status = "exhausted" /\ ~job'.active)
    BY <2>1 DEF States
  <2> QED
    BY <1>4, <2>2, StartTypes DEF EndSession, WriteState, SessionType
<1>5. CASE Reopen
  <2>1. job' \in States /\ job'.stage # "complete"
    BY <1>5 DEF Reopen, WriteState, States
  <2> QED
    BY <1>5, <2>1 DEF Reopen, WriteState
<1>6. CASE Age
  BY <1>6 DEF Age
<1>7. CASE MakeRoom
  BY <1>7 DEF MakeRoom, WriteState, States
<1>8. ASSUME NEW by \in {"worker", "agent", "cli"}, Begin(by)
      PROVE  keeper' \in KeeperType /\ keeper'.by = by
  BY <1>8, StartTypes DEF Begin, KeeperType
<1>9. Attempted => schedule' \in [failures : 0..3, wait : 0..6]
  BY UpkeepConstants DEF Attempted
<1>10. CASE BeginByWorker
  BY <1>8, <1>10, StartTypes DEF BeginByWorker, Begin, KeeperType
<1>11. CASE BeginByOperator
  BY <1>8, <1>11, StartTypes DEF BeginByOperator, Begin, KeeperType
<1>12. CASE BeginByAgent
  BY <1>8, <1>9, <1>12, StartTypes DEF BeginByAgent, Begin, KeeperType
<1>13. CASE AgentFindsItBusy
  BY <1>9, <1>13 DEF AgentFindsItBusy
<1>14. CASE HourPasses
  BY <1>14 DEF HourPasses
<1>15. CASE Walk
  <2> DEFINE walked == [keeper EXCEPT !.state = job]
  <2>1. walked \in KeeperType /\ walked.by # "nobody"
    BY <1>15, RunIsOn DEF Walk, Busy, KeeperType
  <2>2. StaysOver(walked) \in KeeperType /\ StaysOver(walked).by # "nobody"
    BY <2>1, StaysOverType
  <2>3. keeper' \in {[walked EXCEPT !.pc = "strip"], StaysOver(walked),
                     [walked EXCEPT !.pc = "merge", !.snapshot = files]}
    BY <1>15 DEF Walk, Keep
  <2> HIDE DEF walked
  <2>4. keeper' \in KeeperType /\ keeper'.by # "nobody"
    BY <2>1, <2>2, <2>3, ZenonT(40) DEF KeeperType
  <2> QED
    BY <1>15, <2>4 DEF Walk, Keep, KeeperType
<1>16. CASE Merge
  <2>1. keeper.by # "nobody"
    BY <1>16, RunIsOn DEF Merge, Busy
  <2>2. StaysOver(keeper) \in KeeperType /\ StaysOver(keeper).by # "nobody"
    BY <2>1, StaysOverType
  <2>3. ASSUME NEW selected \in SUBSET {Content[n] : n \in Present},
               keeper' = [keeper EXCEPT !.pc = "verify", !.selected = selected]
        PROVE  keeper' \in KeeperType /\ keeper'.by # "nobody"
    <3>1. selected \in SUBSET {Content[n] : n \in Inputs}
      BY DEF Present
    <3> QED
      BY <2>1, <2>3, <3>1 DEF KeeperType
  <2>4. keeper' \in KeeperType /\ keeper'.by # "nobody"
    BY <1>16, <2>2, <2>3 DEF Merge, Keep
  <2> QED
    BY <1>16, <2>4 DEF Merge, Keep, KeeperType
<1>17. CASE Verify
  <2> DEFINE redundant == {<<n, keeper.snapshot[n]>> : n \in Originals \ Kept}
  <2>1. keeper.by # "nobody"
    BY <1>17, RunIsOn DEF Verify, Busy
  <2>2. redundant \in SUBSET (Inputs \X Nat)
    BY DEF Originals, KeeperType
  <2>3. NoKeeper.snapshot \in [Inputs -> Nat]
    BY DEF NoKeeper
  <2>4. \/ keeper' = StaysOver(keeper)
        \/ keeper' = [keeper EXCEPT !.pc = "check", !.snapshot = NoKeeper.snapshot,
                                    !.selected = {}, !.redundant = redundant]
    BY <1>17 DEF Verify, Keep
  <2>5. StaysOver(keeper) \in KeeperType /\ StaysOver(keeper).by # "nobody"
    BY <2>1, StaysOverType
  <2> HIDE DEF redundant
  <2>6. keeper' \in KeeperType /\ keeper'.by # "nobody"
    BY <2>1, <2>2, <2>3, <2>4, <2>5, ZenonT(40) DEF KeeperType
  <2> QED
    BY <1>17, <2>6 DEF Verify, Keep, KeeperType
<1>18. CASE Check
  <2>1. keeper' \in KeeperType /\ keeper'.by # "nobody"
    BY <1>18, RunIsOn, StaysOverType DEF Check, Busy, Keep, KeeperType
  <2> QED
    BY <1>18, <2>1 DEF Check, Keep, KeeperType
<1>19. CASE Unlink
  <2> DEFINE over == Cardinality(Present) > MaxFiles
  <2>1. keeper.by # "nobody"
    BY <1>19, RunIsOn DEF Unlink, Busy
  <2>2. over \in BOOLEAN
    OBVIOUS
  <2>3. \/ \E file \in keeper.redundant :
             UnlinkOne(file) /\ keeper' = [keeper EXCEPT !.redundant = @ \ {file}]
        \/ files' = files /\ keeper' = [keeper EXCEPT !.pc = "strip", !.over = over]
        \/ files' = files /\ keeper' = StaysOver(keeper)
    BY <1>19 DEF Unlink, Keep
  <2>4. StaysOver(keeper) \in KeeperType /\ StaysOver(keeper).by # "nobody"
    BY <2>1, StaysOverType
  <2> HIDE DEF over
  <2>5. ASSUME NEW file, keeper' = [keeper EXCEPT !.redundant = @ \ {file}]
        PROVE  keeper' \in KeeperType /\ keeper'.by # "nobody"
    <3>1. keeper.redundant \ {file} \in SUBSET (Inputs \X Nat)
      BY DEF KeeperType
    <3> QED
      BY <2>1, <2>5, <3>1 DEF KeeperType
  <2>6. [keeper EXCEPT !.pc = "strip", !.over = over] \in KeeperType
    BY <2>2 DEF KeeperType
  <2>7. keeper' \in KeeperType /\ keeper'.by # "nobody"
    BY <2>1, <2>3, <2>4, <2>5, <2>6, ZenonT(40) DEF KeeperType
  <2>8. ASSUME NEW file, UnlinkOne(file)
        PROVE  files' \in [Inputs -> Nat]
    <3>1. files' = [files EXCEPT ![file[1]] = 0] \/ files' = files
      BY <2>8 DEF UnlinkOne
    <3> QED
      BY <3>1
  <2>9. files' \in [Inputs -> Nat]
    BY <2>3, <2>8
  <2> QED
    BY <1>19, <2>7, <2>9 DEF Unlink, Keep, KeeperType
<1>20. CASE Strip
  BY <1>20, RunIsOn DEF Strip, Busy, MayStrip, KeeperType
<1>21. CASE Limit
  <2>1. keeper' \in KeeperType /\ keeper'.by # "nobody"
    BY <1>21, RunIsOn DEF Limit, Busy, KeeperType
  <2>2. job' \in States /\ (job'.stage = "complete" => job'.status = "exhausted" /\ ~job'.active)
    BY <1>21 DEF Limit, MayStop, WriteState, States
  <2> QED
    BY <1>21, <2>1, <2>2 DEF Limit, WriteState, KeeperType
<1>22. CASE Owners
  <2> DEFINE owned == job.status = "running" /\ job.active
  <2>1. owned \in BOOLEAN /\ keeper.by # "nobody"
    BY <1>22, RunIsOn DEF Owners, Busy
  <2>2. keeper' = [keeper EXCEPT !.pc = "orphans", !.owned = owned]
    BY <1>22 DEF Owners, Keep
  <2> HIDE DEF owned
  <2> QED
    BY <1>22, <2>1, <2>2, ZenonT(40) DEF Owners, Keep, KeeperType
<1>23. CASE Orphans
  BY <1>23, RunIsOn DEF Orphans, Busy, KeeperType
<1>24. CASE End
  BY <1>24, StartTypes, UpkeepConstants DEF End, KeeperType
<1>25. CASE Fail
  <2>1. schedule' \in [failures : 0..3, wait : 0..6]
    BY <1>25, UpkeepConstants DEF Fail
  <2> QED
    BY <1>25, <2>1, StartTypes DEF Fail, KeeperType
<1>26. CASE Crash
  BY <1>26, StartTypes, ZenonT(40) DEF Crash, KeeperType, SessionType
<1>27. CASE UNCHANGED vars
  BY <1>27 DEF vars
<1> QED
  BY <1>1, <1>2, <1>3, <1>4, <1>5, <1>6, <1>7, <1>10, <1>11, <1>12, <1>13, <1>14, <1>15, <1>16,
     <1>17, <1>18, <1>19, <1>20, <1>21, <1>22, <1>23, <1>24, <1>25, <1>26, <1>27
     DEF Next, JobSteps, KeeperSteps

\* TypeOK: state.json is one of the states the handlers and the housekeeping write, a
\* complete job is never marked for its size, and the agent's counters keep their range,
\* for every corpus, retry schedule and number of failures and crashes.
THEOREM TypeCorrect == Spec => []TypeOK
<1>1. Init => TypeInv
  BY InitialTypes
<1>2. TypeInv /\ [Next]_vars => TypeInv'
  BY TypeStep
<1>3. TypeInv => TypeOK
  BY DEF TypeInv
<1> QED
  BY <1>1, <1>2, <1>3, PTL DEF Spec

-----------------------------------------------------------------------------
(* The build copies.                                                       *)

\* A run keeps the state it has read, except where it reads it again.
LEMMA StateRead ==
  ASSUME TypeInv, Walk \/ Merge \/ Verify \/ Check \/ Unlink \/ Owners
  PROVE  /\ keeper'.by = keeper.by /\ keeper.by # "nobody"
         /\ keeper'.state = keeper.state \/ keeper'.state = job
         /\ keeper'.pc \in {"merge", "verify", "check", "unlink", "strip", "orphans"}
         /\ ~Owners => keeper'.pc # "orphans"
         /\ UNCHANGED <<job, fresh, workspace, session, killed, covered, raced>>
<1> USE DEF TypeInv, Keep, Busy
<1>1. keeper.by # "nobody"
  BY RunIsOn DEF Walk, Merge, Verify, Check, Unlink, Owners
<1>2. CASE Walk
  <2> DEFINE walked == [keeper EXCEPT !.state = job]
  <2>1. walked \in KeeperType /\ walked.by = keeper.by /\ walked.state = job
    BY DEF KeeperType, TypeOK
  <2>2. /\ keeper' \in {[walked EXCEPT !.pc = "strip"], StaysOver(walked),
                        [walked EXCEPT !.pc = "merge", !.snapshot = files]}
        /\ UNCHANGED <<job, fresh, workspace, session, killed, covered, raced>>
    BY <1>2 DEF Walk
  <2>3. StaysOver(walked).pc = "strip" /\ StaysOver(walked).by = keeper.by
          /\ StaysOver(walked).state = job
    BY <2>1, StaysOverType
  <2> HIDE DEF walked
  <2> QED
    BY <1>1, <2>1, <2>2, <2>3 DEF KeeperType
<1>3. CASE Merge
  BY <1>1, <1>3, StaysOverType, ZenonT(40) DEF Merge, KeeperType
<1>4. CASE Verify
  BY <1>1, <1>4, StaysOverType, ZenonT(40) DEF Verify, KeeperType
<1>5. CASE Check
  BY <1>1, <1>5, StaysOverType DEF Check, KeeperType
<1>6. CASE Unlink
  <2> DEFINE over == Cardinality(Present) > MaxFiles
  <2>1. /\ \/ \E file : keeper' = [keeper EXCEPT !.redundant = @ \ {file}]
           \/ keeper' = [keeper EXCEPT !.pc = "strip", !.over = over]
           \/ keeper' = StaysOver(keeper)
        /\ keeper.pc = "unlink"
        /\ UNCHANGED <<job, fresh, workspace, session, killed, covered, raced>>
    BY <1>6 DEF Unlink
  <2> HIDE DEF over
  <2> QED
    BY <1>1, <2>1, StaysOverType, ZenonT(40) DEF KeeperType
<1>7. CASE Owners
  BY <1>1, <1>7 DEF Owners, KeeperType
<1> QED
  BY <1>2, <1>3, <1>4, <1>5, <1>6, <1>7

\* A run begins with the state as it is.
LEMMA RunBegins ==
  ASSUME TypeInv, BeginByWorker \/ BeginByOperator \/ BeginByAgent
  PROVE  /\ keeper.by = "nobody" /\ keeper'.by # "nobody" /\ keeper'.state = job
         /\ keeper'.pc \in {"walk", "end"} /\ keeper'.snapshot = NoKeeper.snapshot
         /\ UNCHANGED <<job, fresh, workspace, files, session, killed, covered, raced, edits>>
<1>1. PICK by \in {"worker", "agent", "cli"} : Begin(by)
  BY DEF BeginByWorker, BeginByOperator, BeginByAgent
<1> QED
  BY <1>1, StartTypes DEF Begin, KeeperType, bounds

LEMMA BuildStep ==
  ASSUME TypeInv, BuildInv, [Next]_vars
  PROVE  BuildInv'
<1> USE DEF TypeInv, BuildInv, bounds
<1>1. CASE Register
  BY <1>1 DEF Register, WriteState, TypeOK, States
<1>2. CASE StartProbe
  BY <1>2 DEF StartProbe
<1>3. CASE Find
  BY <1>3 DEF Find, SessionType
<1>4. CASE EndSession
  BY <1>4, StartTypes DEF EndSession, WriteState, NoSession
<1>5. CASE Reopen
  BY <1>5 DEF Reopen, WriteState, WorkerIdle
<1>6. CASE Age
  BY <1>6, StartTypes DEF Age
<1>7. CASE MakeRoom
  BY <1>7 DEF MakeRoom, WriteState, TypeOK, States
<1>8. CASE BeginByWorker \/ BeginByOperator \/ BeginByAgent
  BY <1>8, RunBegins
<1>9. CASE AgentFindsItBusy \/ HourPasses
  BY <1>9 DEF AgentFindsItBusy, HourPasses
<1>10. CASE Walk \/ Merge \/ Verify \/ Check \/ Unlink \/ Owners
  BY <1>10, StateRead
<1>11. CASE Strip
  BY <1>11 DEF Strip, MayStrip, KeeperType
<1>12. CASE Limit
  <2>1. keeper.by # "nobody" /\ keeper'.by = keeper.by /\ keeper'.state = keeper.state
    BY <1>12, RunIsOn DEF Limit, Busy, KeeperType
  <2>2. CASE MayStop
    BY <1>12, <2>1, <2>2 DEF Limit, MayStop, WriteState, States, KeeperType
  <2>3. CASE ~MayStop
    BY <1>12, <2>1, <2>3 DEF Limit
  <2> QED
    BY <2>2, <2>3
<1>13. CASE Orphans
  BY <1>13 DEF Orphans, KeeperType
<1>14. CASE End \/ Fail
  BY <1>14, StartTypes DEF End, Fail
<1>15. CASE Crash
  BY <1>15, StartTypes DEF Crash, NoSession
<1>16. CASE UNCHANGED vars
  BY <1>16 DEF vars
<1> QED
  BY <1>1, <1>2, <1>3, <1>4, <1>5, <1>6, <1>7, <1>8, <1>9, <1>10, <1>11, <1>12, <1>13, <1>14,
     <1>15, <1>16 DEF Next, JobSteps, KeeperSteps

\* BuildKept: whatever is reopened, crashes or ages between two looks of a housekeeping run,
\* a job that is not complete has its build copies.
THEOREM BuildSafe == Spec => []BuildKept
<1>1. Init => TypeInv
  BY InitialTypes
<1>2. Init => BuildInv
  BY StartTypes DEF Init, BuildInv, NoSession
<1>3. TypeInv /\ BuildInv /\ [Next]_vars => TypeInv' /\ BuildInv'
  BY TypeStep, BuildStep
<1>4. BuildInv => BuildKept
  BY DEF BuildInv, BuildKept
<1> QED
  BY <1>1, <1>2, <1>3, <1>4, PTL DEF Spec

-----------------------------------------------------------------------------
(* Registered sessions.                                                    *)

LEMMA SessionStep ==
  ASSUME TypeInv, SessionInv, [Next]_vars
  PROVE  SessionInv'
<1> USE DEF TypeInv, SessionInv, bounds
<1>1. CASE Register
  BY <1>1 DEF Register, WriteState, TypeOK, States
<1>2. CASE StartProbe
  BY <1>2, StartTypes DEF StartProbe, SessionType
<1>3. CASE Find
  BY <1>3 DEF Find, SessionType
<1>4. CASE EndSession
  BY <1>4 DEF EndSession, NoSession
<1>5. CASE Reopen \/ MakeRoom
  BY <1>5 DEF Reopen, MakeRoom, WorkerIdle
<1>6. CASE Age
  BY <1>6 DEF Age
<1>7. CASE BeginByWorker \/ BeginByOperator \/ BeginByAgent
  BY <1>7, RunBegins
<1>8. CASE AgentFindsItBusy \/ HourPasses
  BY <1>8 DEF AgentFindsItBusy, HourPasses
<1>9. CASE Walk \/ Merge \/ Verify \/ Check \/ Unlink
  BY <1>9, StateRead DEF Walk, Merge, Verify, Check, Unlink, Owners, Busy
<1>10. CASE Owners
  BY <1>10, StateRead DEF Owners, Keep, KeeperType
<1>11. CASE Strip
  BY <1>11 DEF Strip, KeeperType
<1>12. CASE Limit
  BY <1>12 DEF Limit, Busy, MayStop, KeeperType
<1>13. CASE Orphans
  BY <1>13 DEF Orphans, Busy, KeeperType
<1>14. CASE End \/ Fail
  BY <1>14, StartTypes DEF End, Fail
<1>15. CASE Crash
  BY <1>15 DEF Crash, NoSession
<1>16. CASE UNCHANGED vars
  BY <1>16 DEF vars
<1> QED
  BY <1>1, <1>2, <1>3, <1>4, <1>5, <1>6, <1>7, <1>8, <1>9, <1>10, <1>11, <1>12, <1>13, <1>14,
     <1>15, <1>16 DEF Next, JobSteps, KeeperSteps

\* SessionKept: no housekeeping run stops or forgets a registered session, whichever of them
\* began first, but for one that registers between a last look and its use.
THEOREM SessionSafe == Spec => []SessionKept
<1>1. Init => TypeInv
  BY InitialTypes
<1>2. Init => SessionInv
  BY DEF Init, SessionInv, NoSession
<1>3. TypeInv /\ SessionInv /\ [Next]_vars => TypeInv' /\ SessionInv'
  BY TypeStep, SessionStep
<1>4. SessionInv => SessionKept
  BY DEF SessionInv, SessionKept
<1> QED
  BY <1>1, <1>2, <1>3, <1>4, PTL DEF Spec

-----------------------------------------------------------------------------
(* The corpus.                                                             *)

LEMMA CoversEach ==
  ASSUME NEW names, NEW n \in names
  PROVE  Features[n] \subseteq Covers(names)
BY DEF Covers

LEMMA CoversLeast ==
  ASSUME NEW names, NEW features, \A n \in names : Features[n] \subseteq features
  PROVE  Covers(names) \subseteq features
BY DEF Covers

LEMMA CoversMore ==
  ASSUME NEW few, NEW many, few \subseteq many
  PROVE  Covers(few) \subseteq Covers(many)
BY CoversEach, CoversLeast

\* Where nothing but the run moves, and it neither verifies nor removes files.
LEMMA QuietStep ==
  ASSUME TypeInv, CorpusInv, UNCHANGED <<files, session, covered, raced, edits>>,
         keeper'.pc \notin {"verify", "check", "unlink"},
         keeper'.snapshot \in {keeper.snapshot, NoKeeper.snapshot, files}
  PROVE  CorpusInv'
<1>1. Inodes'
  <2>1. \A n \in Inputs : NoKeeper.snapshot[n] = 0
    BY DEF NoKeeper
  <2> QED
    BY <2>1 DEF CorpusInv, Inodes, TypeInv
<1>2. Present' = Present
  BY DEF Present
<1>3. HeldCovers'
  BY <1>2 DEF CorpusInv, HeldCovers, Covers
<1>4. SnapshotSelected' /\ SurvivorsCover' /\ UnlinkAlone'
  BY DEF SnapshotSelected, SurvivorsCover, UnlinkAlone
<1>5. CorpusCovered'
  BY <1>2 DEF CorpusInv, CorpusCovered, Covers
<1> QED
  BY <1>1, <1>3, <1>4, <1>5 DEF CorpusInv

\* Where the run stands still and no file changes.
LEMMA StandStill ==
  ASSUME TypeInv, CorpusInv, UNCHANGED <<files, keeper, covered, edits>>,
         raced => raced', HeldCovers',
         session'.step # "fuzz" /\ session.step = "fuzz" => raced' \/ keeper.pc \notin {"check", "unlink"},
         session'.step = "fuzz" /\ session.step # "fuzz" => raced' \/ keeper.pc # "unlink"
  PROVE  CorpusInv'
<1>1. Inodes'
  BY DEF CorpusInv, Inodes
<1>2. Present' = Present /\ Selection' = Selection /\ Survivors' = Survivors
  BY DEF Present, Selection, Survivors
<1>3. SnapshotSelected'
  BY <1>2 DEF CorpusInv, SnapshotSelected
<1>4. SurvivorsCover'
  BY <1>2 DEF CorpusInv, SurvivorsCover, Covers
<1>5. UnlinkAlone'
  BY DEF CorpusInv, UnlinkAlone
<1>6. CorpusCovered'
  BY <1>2 DEF CorpusInv, CorpusCovered, Covers
<1> QED
  BY <1>1, <1>3, <1>4, <1>5, <1>6 DEF CorpusInv

\* What a session writes and deletes: a new file is newer than the snapshot, and what is
\* deleted is covered by what the session has loaded.
LEMMA FindStep ==
  ASSUME TypeInv, CorpusInv, Find
  PROVE  CorpusInv'
<1> USE DEF TypeInv
<1>1. PICK new \in Inputs \ session.held, replaced \in SUBSET (session.held \intersect Present) :
        LET held == (session.held \ replaced) \union {new}
        IN  /\ Covers(session.held) \subseteq Covers(held)
            /\ files' = [n \in Inputs |->
                           IF n = new THEN (IF files[n] = 0 THEN edits + 2 ELSE files[n])
                           ELSE IF n \in replaced THEN 0 ELSE files[n]]
            /\ session' = [session EXCEPT !.held = held]
            /\ covered' = covered \union Features[new]
  BY DEF Find
<1> DEFINE held == (session.held \ replaced) \union {new}
<1>2. /\ session.step = "fuzz" /\ session'.step = "fuzz" /\ session'.held = held
      /\ session.held \subseteq Inputs
      /\ edits' = edits + 1 /\ keeper' = keeper /\ raced' = raced
  BY <1>1 DEF Find, SessionType
<1>3. \A n \in Inputs : files'[n] \in {0, files[n], edits + 2}
  BY <1>1
<1>4. keeper.snapshot \in [Inputs -> Nat]
  BY DEF KeeperType
<1>5. Inodes'
  BY <1>2, <1>3, <1>4 DEF CorpusInv, Inodes
<1>6. new \in Present' /\ Present \ replaced \subseteq Present'
  BY <1>1 DEF Present
<1>7. HeldCovers' /\ CorpusCovered'
  <2>1. CASE raced
    BY <1>2, <2>1 DEF HeldCovers, CorpusCovered
  <2>2. CASE ~raced
    <3>1. session.held \subseteq Present /\ covered \subseteq Covers(session.held)
      BY <1>2, <2>2 DEF CorpusInv, HeldCovers
    <3>2. held \subseteq Present'
      BY <1>6, <3>1
    <3>3. Features[new] \subseteq Covers(held)
      BY CoversEach
    <3>4. covered' \subseteq Covers(held)
      BY <1>1, <3>1, <3>3
    <3>5. Covers(held) \subseteq Covers(Present')
      BY <3>2, CoversMore
    <3> QED
      BY <1>2, <3>2, <3>4, <3>5 DEF HeldCovers, CorpusCovered, Covers
  <2> QED
    BY <2>1, <2>2
<1>8. SnapshotSelected'
  <2> SUFFICES ASSUME keeper.pc = "verify", NEW n \in Inputs, files'[n] > 0, files'[n] = keeper.snapshot[n]
               PROVE  Features[n] \subseteq Selection
    BY <1>2 DEF SnapshotSelected, Selection, Present
  <2>1. keeper.snapshot[n] <= edits + 1
    BY DEF CorpusInv, Inodes
  <2>2. files'[n] = files[n]
    BY <1>3, <1>4, <2>1
  <2> QED
    BY <2>2 DEF CorpusInv, SnapshotSelected, Present
<1>9. SurvivorsCover' /\ UnlinkAlone'
  BY <1>2 DEF CorpusInv, SurvivorsCover, UnlinkAlone
<1> QED
  BY <1>5, <1>7, <1>8, <1>9 DEF CorpusInv

\* The selection covers what was there when it was made.
LEMMA MergeStep ==
  ASSUME TypeInv, CorpusInv, Merge
  PROVE  CorpusInv'
<1> USE DEF TypeInv
<1>1. UNCHANGED <<files, session, covered, raced, edits>>
  BY DEF Merge, Keep, bounds
<1>2. CASE keeper' = StaysOver(keeper)
  BY <1>1, <1>2, StaysOverType, QuietStep
<1>3. CASE keeper' # StaysOver(keeper)
  <2>1. PICK selected \in SUBSET {Content[n] : n \in Present} :
          /\ Covers({n \in Present : Content[n] \in selected}) = Covers(Present)
          /\ keeper' = [keeper EXCEPT !.pc = "verify", !.selected = selected]
    BY <1>3 DEF Merge, Keep
  <2>2. keeper'.pc = "verify" /\ keeper'.selected = selected /\ keeper'.snapshot = keeper.snapshot
    BY <2>1 DEF KeeperType
  <2>3. Present' = Present
    BY <1>1 DEF Present
  <2>4. Inodes' /\ HeldCovers' /\ CorpusCovered' /\ SurvivorsCover' /\ UnlinkAlone'
    BY <1>1, <2>2, <2>3
       DEF CorpusInv, Inodes, HeldCovers, CorpusCovered, SurvivorsCover, UnlinkAlone, Covers
  <2>5. Covers(Present) \subseteq Selection'
    BY <2>1, <2>2 DEF Covers, Selection, Present
  <2>6. SnapshotSelected'
    BY <2>3, <2>5, CoversEach DEF SnapshotSelected
  <2> QED
    BY <2>4, <2>6 DEF CorpusInv
<1> QED
  BY <1>2, <1>3

\* One file is kept for each selected content: removing the others takes nothing away.
LEMMA VerifyStep ==
  ASSUME TypeInv, CorpusInv, Verify
  PROVE  CorpusInv'
<1> USE DEF TypeInv
<1>1. UNCHANGED <<files, session, covered, raced, edits>> /\ keeper.pc = "verify"
  BY DEF Verify, Keep, Busy, bounds
<1>2. CASE keeper' = StaysOver(keeper)
  BY <1>1, <1>2, StaysOverType, QuietStep
<1>3. CASE keeper' # StaysOver(keeper)
  <2> DEFINE redundant == {<<n, keeper.snapshot[n]>> : n \in Originals \ Kept}
  <2>1. /\ Originals \subseteq Present
        /\ keeper.selected \subseteq {Content[n] : n \in Originals}
        /\ keeper' = [keeper EXCEPT !.pc = "check", !.snapshot = NoKeeper.snapshot,
                                    !.selected = {}, !.redundant = redundant]
    BY <1>3 DEF Verify, Keep
  <2>2. keeper'.pc = "check" /\ keeper'.redundant = redundant /\ keeper'.snapshot = NoKeeper.snapshot
    BY <2>1 DEF KeeperType
  <2>3. Present' = Present
    BY <1>1 DEF Present
  <2>4. HeldCovers' /\ CorpusCovered' /\ SnapshotSelected' /\ UnlinkAlone'
    BY <1>1, <2>2, <2>3
       DEF CorpusInv, HeldCovers, CorpusCovered, SnapshotSelected, UnlinkAlone, Covers
  <2>5. Inodes'
    BY <1>1, <2>2 DEF CorpusInv, Inodes, NoKeeper
  <2>6. Kept \subseteq Survivors'
    <3> SUFFICES ASSUME NEW k \in Kept
                 PROVE  k \in Survivors'
      OBVIOUS
    <3>1. k \in Originals
      BY <2>1 DEF Kept
    <3>2. k \in Present'
      BY <2>1, <2>3, <3>1
    <3>3. <<k, files[k]>> \notin redundant
      OBVIOUS
    <3> QED
      BY <1>1, <2>2, <3>2, <3>3 DEF Survivors
  <2>7. Selection \subseteq Covers(Kept)
    <3> SUFFICES ASSUME NEW m \in Inputs, Content[m] \in keeper.selected
                 PROVE  Features[m] \subseteq Covers(Kept)
      BY DEF Selection
    <3> DEFINE k == CHOOSE n \in Originals : Content[n] = Content[m]
    <3>1. k \in Originals /\ Content[k] = Content[m] /\ k \in Kept
      BY <2>1 DEF Kept
    <3>2. Features[k] = Features[m]
      BY <3>1, UpkeepConstants DEF Originals
    <3> QED
      BY <3>1, <3>2, CoversEach
  <2>8. \A n \in Present : Features[n] \subseteq Covers(Survivors')
    <3> SUFFICES ASSUME NEW n \in Present
                 PROVE  Features[n] \subseteq Covers(Survivors')
      OBVIOUS
    <3>1. CASE files[n] = keeper.snapshot[n]
      <4>1. Features[n] \subseteq Selection
        BY <1>1, <3>1 DEF CorpusInv, SnapshotSelected
      <4>2. Covers(Kept) \subseteq Covers(Survivors')
        BY <2>6, CoversMore
      <4> QED
        BY <4>1, <4>2, <2>7
    <3>2. CASE files[n] # keeper.snapshot[n]
      <4>1. <<n, files[n]>> \notin redundant
        BY <3>2
      <4>2. n \in Survivors'
        BY <1>1, <2>2, <2>3, <4>1 DEF Survivors
      <4> QED
        BY <4>2, CoversEach
    <3> QED
      BY <3>1, <3>2
  <2>9. SurvivorsCover'
    <3>1. Covers(Present) \subseteq Covers(Survivors')
      BY <2>8, CoversLeast
    <3>2. Covers(Survivors)' = Covers(Survivors')
      BY DEF Covers
    <3> QED
      BY <1>1, <3>1, <3>2 DEF CorpusInv, CorpusCovered, SurvivorsCover
  <2> QED
    BY <2>4, <2>5, <2>9 DEF CorpusInv
<1> QED
  BY <1>2, <1>3

\* The last look at the state: a session at work is seen.
LEMMA CheckStep ==
  ASSUME TypeInv, SessionInv, CorpusInv, Check
  PROVE  CorpusInv'
<1> USE DEF TypeInv
<1>1. UNCHANGED <<files, session, covered, raced, edits, job>> /\ keeper.pc = "check"
  BY DEF Check, Keep, Busy, bounds
<1>2. CASE job.active
  BY <1>1, <1>2, StaysOverType, QuietStep DEF Check, Keep
<1>3. CASE ~job.active
  <2>1. keeper' = [keeper EXCEPT !.pc = "unlink"]
    BY <1>3 DEF Check, Keep
  <2>2. /\ keeper'.pc = "unlink" /\ keeper'.redundant = keeper.redundant
        /\ keeper'.snapshot = keeper.snapshot
    BY <2>1 DEF KeeperType
  <2>3. Present' = Present /\ Survivors' = Survivors
    BY <1>1, <2>2 DEF Present, Survivors
  <2>4. Inodes' /\ HeldCovers' /\ CorpusCovered' /\ SnapshotSelected'
    BY <1>1, <2>2, <2>3 DEF CorpusInv, Inodes, HeldCovers, CorpusCovered, SnapshotSelected, Covers
  <2>5. SurvivorsCover'
    BY <1>1, <2>2, <2>3 DEF CorpusInv, SurvivorsCover, Covers
  <2>6. UnlinkAlone'
    BY <1>1, <1>3 DEF UnlinkAlone, SessionInv
  <2> QED
    BY <2>4, <2>5, <2>6 DEF CorpusInv
<1> QED
  BY <1>2, <1>3

\* A redundant file is none of those that are left in the end.
LEMMA UnlinkStep ==
  ASSUME TypeInv, CorpusInv, Unlink
  PROVE  CorpusInv'
<1> USE DEF TypeInv
<1>1. UNCHANGED <<session, covered, raced, edits>> /\ keeper.pc = "unlink"
  BY DEF Unlink, Keep, Busy, bounds
<1> DEFINE over == Cardinality(Present) > MaxFiles
<1>2. \/ \E file \in keeper.redundant :
           UnlinkOne(file) /\ keeper' = [keeper EXCEPT !.redundant = @ \ {file}]
      \/ files' = files /\ keeper' = [keeper EXCEPT !.pc = "strip", !.over = over]
      \/ files' = files /\ keeper' = StaysOver(keeper)
  BY DEF Unlink, Keep
<1> HIDE DEF over
<1>3. CASE files' = files /\ keeper' = [keeper EXCEPT !.pc = "strip", !.over = over]
  <2>1. keeper'.pc = "strip" /\ keeper'.snapshot = keeper.snapshot
    BY <1>3 DEF KeeperType
  <2> QED
    BY <1>1, <1>3, <2>1, QuietStep
<1>4. CASE files' = files /\ keeper' = StaysOver(keeper)
  BY <1>1, <1>4, StaysOverType, QuietStep
<1>5. ASSUME NEW file \in keeper.redundant,
             UnlinkOne(file), keeper' = [keeper EXCEPT !.redundant = @ \ {file}]
      PROVE  CorpusInv'
  <2>1. /\ keeper'.pc = "unlink" /\ keeper'.redundant = keeper.redundant \ {file}
        /\ keeper'.snapshot = keeper.snapshot
    BY <1>1, <1>5 DEF KeeperType
  <2>2. PICK name \in Inputs, inode \in Nat : file = <<name, inode>>
    BY DEF KeeperType
  <2>3. files' = IF files[name] = inode THEN [files EXCEPT ![name] = 0] ELSE files
    BY <1>5, <2>2 DEF UnlinkOne
  <2>4. \A n \in Inputs : files'[n] \in {0, files[n]}
    BY <2>3
  <2>5. Inodes'
    BY <1>1, <2>1, <2>4 DEF CorpusInv, Inodes
  <2>6. Survivors \subseteq Survivors'
    <3> SUFFICES ASSUME NEW n \in Inputs, files[n] > 0, <<n, files[n]>> \notin keeper.redundant
                 PROVE  files'[n] > 0 /\ <<n, files'[n]>> \notin keeper'.redundant
      BY DEF Survivors, Present
    <3>1. ~(n = name /\ files[n] = inode)
      BY <2>2
    <3>2. files'[n] = files[n]
      BY <2>3, <3>1
    <3> QED
      BY <2>1, <3>2
  <2>7. Survivors' \subseteq Present'
    BY DEF Survivors
  <2>8. raced \/ (session.step # "fuzz" /\ covered \subseteq Covers(Survivors))
    BY <1>1 DEF CorpusInv, UnlinkAlone, SurvivorsCover
  <2>9. Covers(Survivors) \subseteq Covers(Survivors') /\ Covers(Survivors') \subseteq Covers(Present')
    BY <2>6, <2>7, CoversMore
  <2>10. SurvivorsCover' /\ CorpusCovered'
    BY <1>1, <2>8, <2>9 DEF SurvivorsCover, CorpusCovered, Covers
  <2>11. HeldCovers' /\ SnapshotSelected' /\ UnlinkAlone'
    BY <1>1, <2>1, <2>8 DEF HeldCovers, SnapshotSelected, UnlinkAlone
  <2> QED
    BY <2>5, <2>10, <2>11 DEF CorpusInv
<1> QED
  BY <1>2, <1>3, <1>4, <1>5

LEMMA CorpusStep ==
  ASSUME TypeInv, SessionInv, CorpusInv, [Next]_vars
  PROVE  CorpusInv'
<1> USE DEF TypeInv, bounds
<1>1. CASE Register
  <2>1. HeldCovers'
    BY <1>1 DEF Register, HeldCovers, CorpusInv, CorpusCovered, Present, Covers
  <2> QED
    BY <1>1, <2>1, StandStill DEF Register
<1>2. CASE StartProbe
  <2>1. session'.step = "probe"
    BY <1>2, StartTypes DEF StartProbe, SessionType
  <2>2. HeldCovers'
    BY <2>1 DEF HeldCovers
  <2>3. session.step = "none"
    BY <1>2 DEF StartProbe, WorkerIdle
  <2> QED
    BY <1>2, <2>1, <2>2, <2>3, StandStill DEF StartProbe
<1>3. CASE Find
  BY <1>3, FindStep
<1>4. CASE EndSession
  <2>1. HeldCovers'
    BY <1>4 DEF EndSession, HeldCovers, NoSession
  <2>2. session.step = "fuzz" => raced' \/ keeper.pc \notin {"check", "unlink"}
    BY <1>4 DEF EndSession, CorpusInv, UnlinkAlone
  <2>3. session'.step = "none"
    BY <1>4 DEF EndSession, NoSession
  <2> QED
    BY <1>4, <2>1, <2>2, <2>3, StandStill DEF EndSession
<1>5. CASE Reopen \/ Age \/ MakeRoom \/ AgentFindsItBusy \/ HourPasses \/ UNCHANGED vars
  <2>1. UNCHANGED <<files, session, keeper, covered, raced, edits>>
    BY <1>5 DEF Reopen, Age, MakeRoom, AgentFindsItBusy, HourPasses, vars
  <2>2. HeldCovers'
    BY <2>1 DEF CorpusInv, HeldCovers, Present, Covers
  <2> QED
    BY <2>1, <2>2, StandStill
<1>6. CASE BeginByWorker \/ BeginByOperator \/ BeginByAgent
  BY <1>6, RunBegins, QuietStep
<1>7. CASE Walk
  <2> DEFINE walked == [keeper EXCEPT !.state = job]
  <2>1. walked \in KeeperType /\ walked.snapshot = keeper.snapshot
    BY DEF KeeperType, TypeOK
  <2>2. StaysOver(walked).pc = "strip" /\ StaysOver(walked).snapshot = NoKeeper.snapshot
    BY <2>1, StaysOverType
  <2>3. /\ keeper' \in {[walked EXCEPT !.pc = "strip"], StaysOver(walked),
                        [walked EXCEPT !.pc = "merge", !.snapshot = files]}
        /\ UNCHANGED <<files, session, covered, raced, edits>>
    BY <1>7 DEF Walk, Keep
  <2> HIDE DEF walked
  <2>4. /\ keeper'.pc \in {"strip", "merge"}
        /\ keeper'.snapshot \in {keeper.snapshot, NoKeeper.snapshot, files}
    BY <2>1, <2>2, <2>3 DEF KeeperType
  <2> QED
    BY <2>3, <2>4, QuietStep
<1>8. CASE Merge
  BY <1>8, MergeStep
<1>9. CASE Verify
  BY <1>9, VerifyStep
<1>10. CASE Check
  BY <1>10, CheckStep
<1>11. CASE Unlink
  BY <1>11, UnlinkStep
<1>12. CASE Strip \/ Limit \/ Owners \/ Orphans
  <2>1. /\ keeper'.pc \in {"limit", "end", "owners", "orphans"} /\ keeper'.snapshot = keeper.snapshot
        /\ UNCHANGED <<files, session, covered, raced, edits>>
    BY <1>12 DEF Strip, Limit, Owners, Orphans, Keep, KeeperType
  <2> QED
    BY <2>1, QuietStep
<1>13. CASE End \/ Fail
  <2>1. keeper' = NoKeeper /\ UNCHANGED <<files, session, covered, raced, edits>>
    BY <1>13 DEF End, Fail
  <2> QED
    BY <2>1, StartTypes, QuietStep
<1>14. CASE Crash
  <2>1. /\ session'.step = "none" /\ keeper'.pc = "idle" /\ keeper'.snapshot = NoKeeper.snapshot
        /\ UNCHANGED <<files, covered, raced, edits>>
    BY <1>14, StartTypes DEF Crash, NoSession
  <2>2. Inodes'
    BY <2>1 DEF CorpusInv, Inodes, NoKeeper
  <2>3. CorpusCovered'
    BY <2>1 DEF CorpusInv, CorpusCovered, Present, Covers
  <2>4. HeldCovers' /\ SnapshotSelected' /\ SurvivorsCover' /\ UnlinkAlone'
    BY <2>1 DEF HeldCovers, SnapshotSelected, SurvivorsCover, UnlinkAlone
  <2> QED
    BY <2>2, <2>3, <2>4 DEF CorpusInv
<1> QED
  BY <1>1, <1>2, <1>3, <1>4, <1>5, <1>6, <1>7, <1>8, <1>9, <1>10, <1>11, <1>12, <1>13, <1>14
     DEF Next, JobSteps, KeeperSteps

\* CorpusCovered: compaction never costs coverage, for every corpus, every selection of
\* the merge and every session that adds and replaces files between the steps of a run,
\* but for the two moments in which a run does not look.
THEOREM CorpusSafe == Spec => []CorpusCovered
<1>1. Init => TypeInv
  BY InitialTypes
<1>2. Init => SessionInv
  BY DEF Init, SessionInv, NoSession
<1>3. Init => CorpusInv
  <2> SUFFICES ASSUME Init
               PROVE  CorpusInv
    OBVIOUS
  <2>1. session.step = "none" /\ keeper.pc = "idle" /\ keeper.snapshot = [n \in Inputs |-> 0]
    BY DEF Init, NoSession, NoKeeper
  <2>2. Present = Seeds
    BY UpkeepConstants DEF Init, Present
  <2> QED
    BY <2>1, <2>2 DEF Init, CorpusInv, Inodes, HeldCovers, SnapshotSelected, SurvivorsCover,
       UnlinkAlone, CorpusCovered
<1>4. TypeInv /\ SessionInv /\ CorpusInv /\ [Next]_vars => TypeInv' /\ SessionInv' /\ CorpusInv'
  BY TypeStep, SessionStep, CorpusStep
<1>5. CorpusInv => CorpusCovered
  BY DEF CorpusInv
<1> QED
  BY <1>1, <1>2, <1>3, <1>4, <1>5, PTL DEF Spec

=============================================================================
