-------------------------- MODULE FuzzCampaignProofs --------------------------
(***************************************************************************)
(* The books of a campaign are right for every budget, clock, checkpoint   *)
(* and number of sessions, crashes and stops: theorems about FuzzCampaign. *)
(*                                                                         *)
(* CountedOnce and BudgetHolds are not inductive.  A session is counted by *)
(* the handler that ran it or, after a crash, from its result file; what   *)
(* makes that right is that a session under way is not yet in the books,   *)
(* that its time still fits, and that a complete result that the progress  *)
(* does not name as counted was not counted.                               *)
(***************************************************************************)
EXTENDS FuzzCampaign, TLAPS

Ceiling == (Budget + 1) * Second

\* The AFL++ artifact that is applied is that of a run.
AflResult ==
  /\ afl.result = "none" => afl = NoAfl
  /\ pc = "afl_account" => afl.result \in {"quiet", "advanced", "finding"}

TypeInv == TypeOK /\ AflResult

\* Ids not given out yet are in no file.
FreshIds ==
  /\ state.active < next_id /\ run.session < next_id
  /\ \A id \in Ids : id >= next_id => progress.sessions[id] = 0

\* A session under way is not in the books.
UnderWay ==
  pc \in {"running", "lost", "stopped"} =>
    /\ state.active \in Ids
    /\ progress.sessions[state.active] = 0
    /\ Complete(run) => run.session # state.active

\* A result that may be counted is in the books only if the progress says so.
ResultOnce ==
  Complete(run) \/ pc \in {"evaluate", "account"} =>
    /\ run.session \in Ids
    /\ Counted \/ progress.sessions[run.session] = 0

SessionInv == TypeInv /\ FreshIds /\ UnderWay /\ ResultOnce /\ CountedOnce

\* The time of a session under way fits.
TimeFits ==
  /\ pc = "running" => progress.completed + Requested < Ceiling
  /\ pc \in {"lost", "stopped"} => progress.completed + elapsed < Ceiling

\* The AFL++ lane runs once, and its time fits.
AflOnce ==
  /\ afl = NoAfl => progress.sessions[AFL] = 0
  /\ state.status = "afl_cmplog_pending" \/ pc = "afl" => afl = NoAfl
  /\ pc = "afl" => state.status # "afl_cmplog_pending"
  /\ pc = "afl_account" =>
       /\ progress.sessions[AFL] = 0
       /\ progress.completed + afl.ticks < Ceiling

TimeInv == TimeFits /\ AflOnce /\ AflCountedOnce /\ BudgetHolds

\* A complete result that is not in the books belongs to the active session, and the next
\* handler to touch the campaign counts it.
ResultKept ==
  /\ strategy.current # HARNESS
  /\ progress.accounted # 0 => progress.sessions[progress.accounted] # 0
  /\ pc = "running" =>
       state.status = "running" /\ state.seconds > 0 /\ progress.completed < Limit
  /\ Complete(run) /\ progress.sessions[run.session] = 0 =>
       /\ run.session = state.active /\ run.accounted > 0 /\ progress.completed < Limit
       /\ \/ state.status = "running" /\ pc \in {"idle", "error", "checked", "evaluate", "account"}
          \/ state.status \in {"manual_review", "recovery_pending"} /\ pc = "idle"

\* A finding in the result file whose crash files nobody has looked at.
FindingOpen == run.result = "finding" /\ crash_files

\* It is that of the active session, which the next handler counts and takes to triage; or the
\* job is over; or the AFL++ lane found a crash of its own, and that leads to triage as well.
FindingAside ==
  /\ pc \in {"running", "lost", "stopped", "lost_state", "stopped_state"} => ~FindingOpen
  /\ pc \in {"continue", "replanned", "replanned_state", "followup", "followup_state"} =>
       run.result # "finding"
  /\ pc = "afl" => afl = NoAfl /\ state.status = "afl_cmplog_running"
  /\ pc = "afl_failed" => afl.result = "failed"
  /\ FindingOpen =>
       \/ run.session = state.active
       \/ Over /\ pc = "idle"
       \/ /\ afl.result = "finding" /\ state.status = "afl_cmplog_running"
          /\ pc \in {"idle", "afl_account", "afl_decide"}

\* A plan that asks for a harness is seen only on the way to harness_work_pending.
PlanAside ==
  ~plan_ready =>
    \/ pc \in {"scheduled", "to_generate", "replanned", "replanned_state", "followup",
               "followup_state", "afl_replanned"}
    \/ pc = "idle" /\ state.status \in {"harness_work_pending", "manual_review"}

-----------------------------------------------------------------------------
(* Arithmetic of clock ticks and whole seconds.                            *)

\* A number of ticks is its whole seconds and a rest of less than one second.
LEMMA WholeSeconds ==
  ASSUME NEW c \in Nat
  PROVE  /\ Whole(c) \in Nat
         /\ Whole(c) * Second <= c
         /\ c < Whole(c) * Second + Second
<1>1. Second \in Nat /\ Second > 0
  BY ConstantsAssumption
<1> QED
  BY <1>1 DEF Whole

\* The ceiling is one second above the budget.
LEMMA CeilingFacts ==
  /\ Limit \in Nat /\ Second \in Nat \ {0} /\ Budget \in Nat \ {0}
  /\ Ceiling = Limit + Second
<1>1. Budget \in Nat \ {0} /\ Second \in Nat \ {0}
  BY ConstantsAssumption
<1>2. Limit \in Nat /\ (Budget + 1) * Second = Budget * Second + Second
  BY <1>1 DEF Limit
<1> QED
  BY <1>1, <1>2 DEF Ceiling, Limit

\* A session no longer than the whole seconds that remain stays below the ceiling.
LEMMA WholeFits ==
  ASSUME NEW c \in Nat, NEW w \in Nat, w <= Budget - Whole(c)
  PROVE  w * Second \in Nat /\ c + w * Second < Ceiling
<1>1. Second \in Nat /\ Second > 0 /\ Budget \in Nat
  BY ConstantsAssumption
<1>2. Whole(c) \in Nat /\ c < Whole(c) * Second + Second
  BY WholeSeconds
<1>3. w * Second \in Nat
  BY <1>1
<1>4. w + Whole(c) \in Nat /\ w + Whole(c) <= Budget
  BY <1>1, <1>2
<1>5. (w + Whole(c)) * Second <= Budget * Second
  BY <1>1, <1>4
<1>6. (w + Whole(c)) * Second = w * Second + Whole(c) * Second
  BY <1>1, <1>2
<1>7. Whole(c) * Second \in Nat /\ Budget * Second \in Nat
  BY <1>1, <1>2
<1> QED
  BY <1>1, <1>2, <1>3, <1>5, <1>6, <1>7, CeilingFacts DEF Limit

-----------------------------------------------------------------------------
(* Type correctness.                                                       *)

LEMMA SmallerIsNat ==
  ASSUME NEW a \in Nat, NEW b \in Nat
  PROVE  SmallerOf(a, b) \in Nat /\ SmallerOf(a, b) <= a /\ SmallerOf(a, b) <= b
BY DEF SmallerOf

LEMMA LargerIsNat ==
  ASSUME NEW a \in Nat, NEW b \in Int
  PROVE  LargerOf(a, b) \in Nat /\ LargerOf(a, b) >= b /\ LargerOf(a, b) \in {a, b}
BY DEF LargerOf

LEMMA NewStatus ==
  ASSUME state \in StateType, NEW status \in Statuses
  PROVE  /\ Flag(status) \in StateType
         /\ Idle(status) \in StateType
         /\ Flag(status).active = state.active
         /\ Idle(status).active = 0
         /\ Flag(status).status = status
         /\ Idle(status).status = status
BY DEF StateType, Flag, Idle

LEMMA NewEntry ==
  ASSUME NEW p \in ProgressType, NEW id \in {AFL} \cup Ids, NEW ticks \in Nat
  PROVE  /\ Entered(p, id, ticks) \in ProgressType
         /\ Entered(p, id, ticks).completed = p.completed + ticks
         /\ Entered(p, id, ticks).sessions = [p.sessions EXCEPT ![id] = @ + 1]
         /\ Entered(p, id, ticks).accounted = p.accounted
         /\ Entered(p, id, ticks).afl_accounted = p.afl_accounted
<1> DEFINE sessions == [p.sessions EXCEPT ![id] = @ + 1]
<1>1. p.completed + ticks \in Nat
  BY DEF ProgressType
<1>2. p.sessions \in [{AFL} \cup Ids -> Nat]
  BY DEF ProgressType
<1>3. sessions \in [{AFL} \cup Ids -> Nat]
  BY <1>2
<1>4. Entered(p, id, ticks) = [p EXCEPT !.completed = p.completed + ticks, !.sessions = sessions]
  BY DEF Entered
<1> HIDE DEF sessions
<1>5. /\ Entered(p, id, ticks) \in ProgressType
      /\ Entered(p, id, ticks).completed = p.completed + ticks
      /\ Entered(p, id, ticks).sessions = sessions
      /\ Entered(p, id, ticks).accounted = p.accounted
      /\ Entered(p, id, ticks).afl_accounted = p.afl_accounted
  BY <1>1, <1>3, <1>4 DEF ProgressType
<1> QED
  BY <1>5 DEF sessions

LEMMA NewDictionary ==
  ASSUME NEW p \in ProgressType, NEW tokens \in BOOLEAN, NEW reset \in BOOLEAN
  PROVE  /\ WithDictionary(p, tokens, reset) \in ProgressType
         /\ WithDictionary(p, tokens, reset).completed = p.completed
         /\ WithDictionary(p, tokens, reset).sessions = p.sessions
         /\ WithDictionary(p, tokens, reset).accounted = p.accounted
BY DEF ProgressType, WithDictionary

\* The time that a result is charged for is never more than what the budget leaves.
LEMMA SessionTimeFits ==
  ASSUME progress \in ProgressType, run \in RunType
  PROVE  /\ SessionTime \in Nat
         /\ progress.completed < Ceiling => progress.completed + SessionTime < Ceiling
<1>1. progress.completed \in Nat /\ run.accounted \in Nat
  BY DEF ProgressType, RunType
<1>2. CASE progress.completed <= Limit
  BY <1>1, <1>2, CeilingFacts DEF SessionTime, SmallerOf, LargerOf
<1>3. CASE progress.completed > Limit
  BY <1>1, <1>3, CeilingFacts DEF SessionTime, SmallerOf, LargerOf
<1> QED
  BY <1>1, <1>2, <1>3, CeilingFacts

\* The progress with a result counted is well formed, and names the session it counted.
LEMMA AccountedType ==
  ASSUME progress \in ProgressType, run \in RunType
  PROVE  /\ Accounted \in ProgressType
         /\ Accounted.completed = progress.completed + SessionTime
         /\ Accounted.sessions = [progress.sessions EXCEPT ![run.session] = @ + 1]
         /\ Accounted.accounted = run.session
<1> DEFINE entered == Entered(progress, run.session, SessionTime)
<1>1. SessionTime \in Nat /\ run.session \in {AFL} \cup Ids
  BY SessionTimeFits DEF RunType, AFL
<1>2. /\ entered \in ProgressType
      /\ entered.completed = progress.completed + SessionTime
      /\ entered.sessions = [progress.sessions EXCEPT ![run.session] = @ + 1]
  BY <1>1, NewEntry
<1>3. Whole(SessionTime) \in Nat
  BY <1>1, WholeSeconds
<1>4. AdaptedCheckpoint \in Nat
  BY ConstantsAssumption DEF AdaptedCheckpoint, LargerOf, SmallerOf, ProgressType, RunType
<1> DEFINE stalled == IF run.advanced THEN 0 ELSE progress.stalled_seconds + Whole(SessionTime)
           checkpoint == IF run.result = "rss_restart" THEN AdaptedCheckpoint ELSE entered.checkpoint
<1>5. stalled \in Nat /\ checkpoint \in Nat /\ (stalled >= StallLimit) \in BOOLEAN
  BY <1>2, <1>3, <1>4 DEF ProgressType
<1>6. Accounted = [entered EXCEPT !.accounted = run.session, !.checkpoint = checkpoint,
                                  !.stalled_seconds = stalled, !.stalled = (stalled >= StallLimit)]
  BY DEF Accounted
<1> HIDE DEF entered, stalled, checkpoint
<1> QED
  BY <1>1, <1>2, <1>5, <1>6 DEF ProgressType, AFL

\* What a session writes is well formed.
LEMMA SessionResultType ==
  ASSUME TypeOK, SessionEnds
  PROVE  /\ run' \in RunType /\ elapsed' \in Nat /\ crash_files' \in BOOLEAN
         /\ pc' \in {"lost", "evaluate"}
<1>1. Requested \in Nat
  BY ConstantsAssumption DEF TypeOK, StateType, Requested
<1>2. PICK result \in Results, advanced \in BOOLEAN : \E ticks \in Accountable(result) :
        LET broken == result = "broken"
            file   == [result |-> result, session |-> state.active,
                       accounted |-> IF broken THEN 0 ELSE ticks, advanced |-> advanced]
        IN  /\ run' = file \/ (broken /\ run' = run)
            /\ crash_files' = (crash_files \/ result = "finding")
            /\ elapsed' = IF broken THEN ticks ELSE 0
            /\ pc' = IF broken THEN "lost" ELSE "evaluate"
  BY DEF SessionEnds
<1>3. Accountable(result) \subseteq Nat
  BY <1>1, ConstantsAssumption DEF Accountable, Results
<1>4. state.active \in {0} \cup Ids /\ run \in RunType /\ crash_files \in BOOLEAN
  BY DEF TypeOK, StateType
<1> QED
  BY <1>2, <1>3, <1>4 DEF RunType

\* The AFL++ lane's run is entered, unless the progress says that it was.
LEMMA AflAccountedType ==
  ASSUME TypeInv, AflAccount
  PROVE  /\ progress' \in ProgressType
         /\ progress'.accounted = progress.accounted
         /\ \/ progress' = progress
            \/ /\ progress'.completed = progress.completed + afl.ticks
               /\ progress'.sessions = [progress.sessions EXCEPT ![AFL] = @ + 1]
<1> DEFINE entered == Entered(progress, AFL, afl.ticks)
           p == [entered EXCEPT !.afl_accounted = TRUE]
<1>1. progress \in ProgressType /\ afl.ticks \in Nat /\ afl.result \in {"quiet", "advanced", "finding"}
  BY DEF TypeInv, TypeOK, AflResult, AflType, AflAccount
<1>2. /\ entered \in ProgressType
      /\ entered.completed = progress.completed + afl.ticks
      /\ entered.sessions = [progress.sessions EXCEPT ![AFL] = @ + 1]
      /\ entered.accounted = progress.accounted
  BY <1>1, NewEntry
<1> HIDE DEF entered
<1>3. /\ p \in ProgressType
      /\ p.completed = entered.completed /\ p.sessions = entered.sessions
      /\ p.accounted = entered.accounted
  BY <1>2 DEF ProgressType
<1> HIDE DEF p
<1>4. PICK tokens \in BOOLEAN :
        progress' = CASE progress.afl_accounted -> progress
                      [] ~progress.afl_accounted /\ afl.result = "advanced" ->
                           [p EXCEPT !.stalled = FALSE, !.stalled_seconds = 0]
                      [] ~progress.afl_accounted /\ afl.result = "quiet" ->
                           WithDictionary(p, tokens, TRUE)
                      [] ~progress.afl_accounted /\ afl.result = "finding" -> p
  BY DEF AflAccount, p, entered
<1>5. CASE progress.afl_accounted
  BY <1>1, <1>4, <1>5
<1>6. CASE ~progress.afl_accounted /\ afl.result = "advanced"
  <2>1. progress' = [p EXCEPT !.stalled = FALSE, !.stalled_seconds = 0]
    BY <1>4, <1>6
  <2> QED
    BY <2>1, <1>2, <1>3 DEF ProgressType
<1>7. CASE ~progress.afl_accounted /\ afl.result = "quiet"
  <2>1. progress' = WithDictionary(p, tokens, TRUE)
    BY <1>4, <1>7
  <2> QED
    BY <2>1, <1>2, <1>3, NewDictionary
<1>8. CASE ~progress.afl_accounted /\ afl.result = "finding"
  <2>1. progress' = p
    BY <1>4, <1>8
  <2> QED
    BY <2>1, <1>2, <1>3
<1> QED
  BY <1>1, <1>5, <1>6, <1>7, <1>8

\* A session is asked for whole seconds that fit into what remains.
LEMMA SessionBudgetType ==
  ASSUME progress \in ProgressType, Remaining > 0
  PROVE  SessionBudget \in Nat /\ SessionBudget <= Remaining
<1>1. Remaining \in Nat
  BY WholeSeconds, ConstantsAssumption DEF Remaining, ProgressType
<1>2. CheckpointSeconds \in Nat
  BY ConstantsAssumption DEF CheckpointSeconds, ProgressType, SmallerOf, LargerOf
<1> QED
  BY <1>1, <1>2, SmallerIsNat DEF SessionBudget

\* The run of the AFL++ lane has no more time than what remains.
LEMMA AflTimeType ==
  ASSUME progress \in ProgressType, Remaining > 0,
         NEW ticks \in 0..(SmallerOf(AflSeconds, Remaining) * Second)
  PROVE  ticks \in Nat /\ (progress.completed < Ceiling => progress.completed + ticks < Ceiling)
<1> DEFINE seconds == SmallerOf(AflSeconds, Remaining)
<1>1. Remaining \in Nat /\ progress.completed \in Nat
  BY WholeSeconds, ConstantsAssumption DEF Remaining, ProgressType
<1>2. seconds \in Nat /\ seconds <= Budget - Whole(progress.completed)
  BY <1>1, SmallerIsNat, ConstantsAssumption DEF Remaining
<1>3. seconds * Second \in Nat /\ progress.completed + seconds * Second < Ceiling
  BY <1>1, <1>2, WholeFits
<1> QED
  BY <1>1, <1>3, CeilingFacts

\* The archive before a further harness keeps the time, the sessions and the last one counted.
LEMMA CarriedOverType ==
  ASSUME progress \in ProgressType
  PROVE  /\ CarriedOver \in ProgressType
         /\ CarriedOver.completed = progress.completed
         /\ CarriedOver.sessions = progress.sessions
         /\ CarriedOver.accounted = progress.accounted
BY DEF CarriedOver, ProgressType

LEMMA TypeStep ==
  ASSUME TypeInv, [Next]_vars
  PROVE  TypeInv'
<1> USE DEF TypeInv, TypeOK, AflResult, PCs, environment
<1>1. CASE Refuse
  BY <1>1 DEF Refuse
<1>2. CASE ScheduleHarness
  BY <1>2 DEF ScheduleHarness
<1>3. CASE CloseHarnessStrategy
  BY <1>3 DEF CloseHarnessStrategy, StrategyType
<1>4. CASE CheckStrategy
  BY <1>4 DEF CheckStrategy, StrategyType
<1>5. CASE Replay
  BY <1>5 DEF Replay
<1>6. CASE Finish
  BY <1>6, NewStatus DEF Finish, Statuses, FUZZABLE
<1>7. CASE NoResultArtifact
  BY <1>7 DEF NoResultArtifact
<1>8. CASE StartSession
  <2>1. SessionBudget \in Nat
    BY <1>8, SessionBudgetType DEF StartSession
  <2>2. Flag("running") \in StateType
    BY NewStatus DEF Statuses, FUZZABLE
  <2>3. state' \in StateType
    BY <1>8, <2>1, <2>2 DEF StartSession, StateType
  <2>4. next_id' \in 1..MaxSessions + 1
    BY <1>8, ConstantsAssumption DEF StartSession, Ids
  <2> QED
    BY <1>8, <2>3, <2>4 DEF StartSession, Fresh
<1>9. CASE SessionEnds
  BY <1>9, SessionResultType DEF SessionEnds
<1>10. CASE CountLost
  BY <1>10, NewEntry DEF CountLost, StateType, AFL
<1>11. CASE SaveInterrupted
  BY <1>11, NewStatus DEF SaveInterrupted, Statuses, FUZZABLE
<1>12. CASE EvaluateStrategy
  BY <1>12 DEF EvaluateStrategy, StrategyType
<1>13. CASE Account
  BY <1>13, SessionTimeFits, AccountedType DEF Account
<1>14. CASE EndCampaign
  BY <1>14, NewStatus DEF EndCampaign, Statuses, FUZZABLE
<1>15. CASE LogLimit
  BY <1>15, NewStatus DEF LogLimit, Statuses, FUZZABLE, StateType, LargerOf
<1>16. CASE ApplyDictionary
  BY <1>16, NewDictionary, ConstantsAssumption, ZenonT(40) DEF ApplyDictionary, GoesOn
<1>17. CASE SaveReady
  BY <1>17, NewStatus DEF SaveReady, Statuses, FUZZABLE
<1>18. CASE ReplanStalled
  BY <1>18 DEF ReplanStalled, ReplanTo
<1>19. CASE LowYieldFollowup
  BY <1>19 DEF LowYieldFollowup, ReplanTo
<1>20. CASE MarkHarnessScheduled
  BY <1>20 DEF MarkHarnessScheduled, ProgressType
<1>21. CASE SaveHarnessWork
  BY <1>21, NewStatus, ZenonT(40) DEF SaveHarnessWork, Statuses, FUZZABLE, StateType
<1>22. CASE AflStart
  BY <1>22, NewStatus DEF AflStart, Statuses, FUZZABLE, AflType
<1>23. CASE AflEnds
  BY <1>23, AflTimeType DEF AflEnds, AflType, NoAfl
<1>24. CASE AflFails
  BY <1>24 DEF AflFails, AflType, NoAfl
<1>25. CASE SaveAflFailed
  BY <1>25, NewStatus DEF SaveAflFailed, Statuses, FUZZABLE
<1>26. CASE AflAccount
  BY <1>26, AflAccountedType DEF AflAccount
<1>27. CASE AflDecide
  <2>1. Flag("triage_pending") \in StateType /\ Flag("ready") \in StateType
    BY NewStatus DEF Statuses, FUZZABLE
  <2>2. CASE ReplanTo("afl_replanned")
    BY <2>2 DEF ReplanTo
  <2>3. CASE /\ state' \in {Flag("triage_pending"), Flag("ready")} /\ pc' = "idle"
             /\ UNCHANGED <<progress, run, crash_files, afl, plan_ready, strategy, elapsed,
                            next_id, crashes, stops>>
    BY <2>1, <2>3
  <2> HIDE DEF TypeInv
  <2> QED
    BY <1>27, <2>2, <2>3 DEF AflDecide
<1>28. CASE Generate
  <2>1. Flag(Analyzed(plan_ready')) \in StateType
    BY <1>28, NewStatus DEF Generate, Analyzed, Statuses, FUZZABLE
  <2>2. state' \in StateType
    BY <1>28, <2>1 DEF Generate, StateType
  <2>3. run' \in RunType
    BY <1>28 DEF Generate, NoRun, RunType, Results
  <2> QED
    BY <1>28, <2>2, <2>3, CarriedOverType DEF Generate
<1>29. CASE GenerationLimit
  BY <1>29, NewStatus DEF GenerationLimit, Statuses, FUZZABLE, StateType, LargerOf
<1>30. CASE RecordWorkerError
  BY <1>30, NewStatus DEF RecordWorkerError, Statuses, FUZZABLE, ErrorStatus, StateType
<1>31. CASE SessionStopped
  BY <1>31, ConstantsAssumption DEF SessionStopped, Requested, StateType
<1>32. CASE FalseAlarm
  <2>1. \A c \in Nat : LargerOf(MinTriageCheckpoint, (IF c = 0 THEN Checkpoint ELSE c) \div 2) \in Nat
    BY ConstantsAssumption DEF LargerOf
  <2>2. progress' \in ProgressType
    BY <1>32, <2>1 DEF FalseAlarm, ProgressType
  <2> QED
    BY <1>32, <2>2, NewStatus DEF FalseAlarm, Statuses, FUZZABLE
<1>33. CASE QueueStrategy
  BY <1>33 DEF QueueStrategy, StrategyType
<1>34. CASE Crash
  BY <1>34, ConstantsAssumption DEF Crash
<1>35. CASE UNCHANGED vars
  BY <1>35 DEF vars
<1> QED
  BY <1>1, <1>2, <1>3, <1>4, <1>5, <1>6, <1>7, <1>8, <1>9, <1>10, <1>11, <1>12, <1>13, <1>14, <1>15, <1>16, <1>17, <1>18, <1>19, <1>20, <1>21, <1>22, <1>23, <1>24, <1>25, <1>26, <1>27, <1>28, <1>29, <1>30, <1>31, <1>32, <1>33, <1>34, <1>35 DEF Next, Worker, Fuzz, Afl

LEMMA InitialTypes == Init => TypeInv
<1> SUFFICES ASSUME Init PROVE TypeInv
  OBVIOUS
<1>1. state \in StateType
  BY DEF Init, StateType, Statuses, FUZZABLE
<1>2. progress \in ProgressType
  BY DEF Init, ProgressType
<1>3. run \in RunType /\ afl \in AflType /\ strategy \in StrategyType
  BY DEF Init, RunType, AflType, StrategyType, NoRun, NoAfl, Results
<1>4. next_id \in 1..MaxSessions + 1 /\ crashes \in 0..MaxCrashes /\ stops \in 0..MaxStops
  BY ConstantsAssumption DEF Init
<1>5. pc \in PCs /\ elapsed \in Nat /\ crash_files \in BOOLEAN /\ plan_ready \in BOOLEAN
  BY DEF Init, PCs
<1>6. AflResult
  BY DEF Init, AflResult
<1> QED
  BY <1>1, <1>2, <1>3, <1>4, <1>5, <1>6 DEF TypeInv, TypeOK

\* The files always hold what the handlers may write.
THEOREM TypeCorrect == Spec => []TypeOK
<1>1. Init => TypeInv
  BY InitialTypes
<1>2. TypeInv /\ [Next]_vars => TypeInv'
  BY TypeStep
<1>3. TypeInv => TypeOK
  BY DEF TypeInv
<1> QED
  BY <1>1, <1>2, <1>3, PTL DEF Spec

-----------------------------------------------------------------------------
(* Sessions are counted once.                                              *)

\* A step that leaves the books alone and starts nothing keeps the invariant.
LEMMA QuietSessions ==
  ASSUME SessionInv, TypeInv',
         progress'.sessions = progress.sessions, progress'.accounted = progress.accounted,
         next_id' = next_id, state'.active \in {0, state.active},
         run' = run \/ run' = NoRun,
         pc' \notin {"running", "lost", "stopped"},
         pc' \in {"evaluate", "account"} =>
           run' = run /\ (Complete(run) \/ pc \in {"evaluate", "account"})
  PROVE  SessionInv'
<1>1. FreshIds'
  BY DEF SessionInv, FreshIds, TypeInv, TypeOK, NoRun, Ids
<1>2. UnderWay' /\ CountedOnce'
  BY DEF SessionInv, UnderWay, CountedOnce
<1>3. ResultOnce'
  BY DEF SessionInv, ResultOnce, Counted, Complete, NoRun
<1> QED
  BY <1>1, <1>2, <1>3 DEF SessionInv

\* Entering a session not yet in the books.
LEMMA EnterOnce ==
  ASSUME SessionInv, NEW entry \in Ids, entry < next_id, progress.sessions[entry] = 0,
         progress'.sessions = [progress.sessions EXCEPT ![entry] = @ + 1],
         next_id' = next_id, state'.active = state.active, run' = run
  PROVE  /\ FreshIds' /\ CountedOnce'
         /\ progress'.sessions[entry] = 1
         /\ \A id \in Ids : id # entry => progress'.sessions[id] = progress.sessions[id]
<1>1. progress.sessions \in [{AFL} \cup Ids -> Nat]
  BY DEF SessionInv, TypeInv, TypeOK, ProgressType
<1>2. \A id \in Ids : progress'.sessions[id] = IF id = entry THEN 1 ELSE progress.sessions[id]
  BY <1>1
<1>3. next_id \in Int /\ Ids \subseteq Int
  BY ConstantsAssumption DEF SessionInv, TypeInv, TypeOK, Ids
<1>4. FreshIds'
  BY <1>2, <1>3 DEF SessionInv, FreshIds
<1>5. CountedOnce'
  BY <1>2 DEF SessionInv, CountedOnce
<1> QED
  BY <1>2, <1>4, <1>5

LEMMA DictionaryKeepsBooks ==
  ASSUME TypeInv, ApplyDictionary
  PROVE  /\ progress'.sessions = progress.sessions /\ progress'.completed = progress.completed
         /\ progress'.accounted = progress.accounted
<1>1. CASE NeedsDictionary
  <2>1. PICK tokens \in BOOLEAN : progress' = WithDictionary(progress, tokens, ~AutoImprove)
    BY <1>1 DEF ApplyDictionary
  <2>2. (~AutoImprove) \in BOOLEAN /\ progress \in ProgressType
    BY DEF TypeInv, TypeOK
  <2> QED
    BY <2>1, <2>2, NewDictionary
<1>2. CASE ~NeedsDictionary
  BY <1>2 DEF ApplyDictionary
<1> QED
  BY <1>1, <1>2

LEMMA SessionStep ==
  ASSUME SessionInv, [Next]_vars
  PROVE  SessionInv'
<1>t. TypeInv'
  BY TypeStep DEF SessionInv
<1> USE <1>t DEF SessionInv, TypeInv, TypeOK, environment
<1>1. CASE Refuse
  BY <1>1, QuietSessions DEF Refuse
<1>2. CASE ScheduleHarness
  BY <1>2, QuietSessions DEF ScheduleHarness
<1>3. CASE CloseHarnessStrategy
  BY <1>3, QuietSessions DEF CloseHarnessStrategy
<1>4. CASE CheckStrategy
  BY <1>4, QuietSessions DEF CheckStrategy
<1>5. CASE Replay
  BY <1>5, QuietSessions DEF Replay, Cached
<1>6. CASE Finish
  BY <1>6, QuietSessions, NewStatus DEF Finish, Statuses, FUZZABLE
<1>7. CASE NoResultArtifact
  BY <1>7, QuietSessions DEF NoResultArtifact
<1>8. CASE StartSession
  <2>1. /\ state'.active = next_id /\ next_id \in Ids /\ next_id' = next_id + 1
        /\ pc' = "running" /\ UNCHANGED <<progress, run>>
    BY <1>8, NewStatus DEF StartSession, Statuses, FUZZABLE, StateType
  <2>2. FreshIds'
    <3>1. run.session \in Int /\ next_id \in Int /\ Ids \subseteq Int
      BY ConstantsAssumption DEF RunType, Ids
    <3>2. \A id \in Ids : id >= next_id + 1 => id >= next_id
      BY <3>1
    <3> QED
      BY <2>1, <3>1, <3>2 DEF FreshIds
  <2>3. UnderWay'
    BY <2>1 DEF FreshIds, UnderWay, Ids
  <2>4. ResultOnce' /\ CountedOnce'
    BY <2>1 DEF ResultOnce, Counted, CountedOnce
  <2> QED
    BY <2>2, <2>3, <2>4
<1>9. CASE SessionEnds
  <2>1. PICK result \in Results, advanced \in BOOLEAN : \E ticks \in Accountable(result) :
          LET broken == result = "broken"
              file   == [result |-> result, session |-> state.active,
                         accounted |-> IF broken THEN 0 ELSE ticks, advanced |-> advanced]
          IN  /\ run' = file \/ (broken /\ run' = run)
              /\ crash_files' = (crash_files \/ result = "finding")
              /\ elapsed' = IF broken THEN ticks ELSE 0
              /\ pc' = IF broken THEN "lost" ELSE "evaluate"
    BY <1>9 DEF SessionEnds
  <2>2. /\ \/ run'.session = state.active /\ (run'.result = "broken" \/ pc' = "evaluate")
           \/ run' = run /\ pc' = "lost"
        /\ pc' \in {"lost", "evaluate"}
        /\ pc' = "lost" => ~Complete(run') \/ run' = run
    BY <2>1 DEF Complete
  <2>3. UNCHANGED <<state, progress, next_id>> /\ pc = "running"
    BY <1>9 DEF SessionEnds
  <2>4. FreshIds' /\ CountedOnce'
    BY <2>2, <2>3 DEF FreshIds, CountedOnce
  <2>5. UnderWay' /\ ResultOnce'
    BY <2>2, <2>3 DEF UnderWay, ResultOnce, Counted, Complete
  <2> QED
    BY <2>4, <2>5
<1>10. CASE CountLost
  <2>1. /\ state.active \in Ids /\ state.active < next_id /\ progress.sessions[state.active] = 0
        /\ Complete(run) => run.session # state.active
    BY <1>10 DEF CountLost, UnderWay, FreshIds
  <2>2. /\ progress'.sessions = [progress.sessions EXCEPT ![state.active] = @ + 1]
        /\ progress'.accounted = progress.accounted
        /\ UNCHANGED <<state, run, next_id>>
        /\ pc' \in {"lost_state", "stopped_state"}
    BY <1>10, <2>1, NewEntry DEF CountLost
  <2>3. /\ FreshIds' /\ CountedOnce'
        /\ \A id \in Ids : id # state.active => progress'.sessions[id] = progress.sessions[id]
    BY <2>1, <2>2, EnterOnce
  <2>4. UnderWay' /\ ResultOnce'
    BY <2>1, <2>2, <2>3 DEF UnderWay, ResultOnce, Counted, Complete
  <2> QED
    BY <2>3, <2>4
<1>11. CASE SaveInterrupted
  BY <1>11, QuietSessions, NewStatus DEF SaveInterrupted, Statuses, FUZZABLE
<1>12. CASE EvaluateStrategy
  BY <1>12, QuietSessions DEF EvaluateStrategy
<1>13. CASE Account
  <2>1. /\ UNCHANGED <<state, run, next_id>> /\ pc = "account" /\ pc' = "decide"
        /\ run.session \in Ids /\ run.session < next_id
    BY <1>13 DEF Account, ResultOnce, FreshIds, environment
  <2>2. CASE Counted \/ SessionTime = 0
    BY <1>13, <2>1, <2>2, QuietSessions DEF Account
  <2>3. CASE ~(Counted \/ SessionTime = 0)
    <3>1. /\ progress'.sessions = [progress.sessions EXCEPT ![run.session] = @ + 1]
          /\ progress'.accounted = run.session
      BY <1>13, <2>3, AccountedType DEF Account
    <3>2. progress.sessions[run.session] = 0
      BY <2>1, <2>3 DEF ResultOnce
    <3>3. FreshIds' /\ CountedOnce'
      BY <2>1, <3>1, <3>2, EnterOnce
    <3>4. UnderWay' /\ ResultOnce'
      BY <2>1, <3>1 DEF UnderWay, ResultOnce, Counted
    <3> QED
      BY <3>3, <3>4
  <2> QED
    BY <2>2, <2>3
<1>14. CASE EndCampaign
  BY <1>14, QuietSessions, NewStatus DEF EndCampaign, Statuses, FUZZABLE
<1>15. CASE LogLimit
  BY <1>15, QuietSessions, NewStatus DEF LogLimit, Statuses, FUZZABLE, StateType
<1>16. CASE ApplyDictionary
  BY <1>16, DictionaryKeepsBooks, QuietSessions DEF ApplyDictionary
<1>17. CASE SaveReady
  BY <1>17, QuietSessions, NewStatus DEF SaveReady, Statuses, FUZZABLE
<1>18. CASE ReplanStalled
  BY <1>18, QuietSessions DEF ReplanStalled, ReplanTo
<1>19. CASE LowYieldFollowup
  BY <1>19, QuietSessions DEF LowYieldFollowup, ReplanTo
<1>20. CASE MarkHarnessScheduled
  BY <1>20, QuietSessions DEF MarkHarnessScheduled, ProgressType
<1>21. CASE SaveHarnessWork
  BY <1>21, QuietSessions, NewStatus DEF SaveHarnessWork, Statuses, FUZZABLE, StateType
<1>22. CASE AflStart
  BY <1>22, QuietSessions, NewStatus DEF AflStart, Statuses, FUZZABLE
<1>23. CASE AflEnds
  BY <1>23, QuietSessions DEF AflEnds
<1>24. CASE AflFails
  BY <1>24, QuietSessions DEF AflFails
<1>25. CASE SaveAflFailed
  BY <1>25, QuietSessions, NewStatus DEF SaveAflFailed, Statuses, FUZZABLE
<1>26. CASE AflAccount
  <2>1. /\ progress'.accounted = progress.accounted
        /\ \A id \in Ids : progress'.sessions[id] = progress.sessions[id]
    <3>1. AFL \notin Ids /\ progress.sessions \in [{AFL} \cup Ids -> Nat]
      BY DEF AFL, Ids, ProgressType
    <3> QED
      BY <1>26, <3>1, AflAccountedType
  <2>2. UNCHANGED <<state, run, next_id>> /\ pc' = "afl_decide"
    BY <1>26 DEF AflAccount, environment
  <2>3. FreshIds' /\ CountedOnce'
    BY <2>1, <2>2 DEF FreshIds, CountedOnce
  <2>4. UnderWay' /\ ResultOnce'
    BY <2>1, <2>2 DEF UnderWay, ResultOnce, Counted, Complete
  <2> QED
    BY <2>3, <2>4
<1>27. CASE AflDecide
  BY <1>27, QuietSessions, NewStatus DEF AflDecide, Statuses, FUZZABLE, ReplanTo
<1>28. CASE Generate
  BY <1>28, QuietSessions, NewStatus, CarriedOverType DEF Generate, Statuses, FUZZABLE, StateType, Analyzed
<1>29. CASE GenerationLimit
  BY <1>29, QuietSessions, NewStatus DEF GenerationLimit, Statuses, FUZZABLE, StateType
<1>30. CASE RecordWorkerError
  BY <1>30, QuietSessions, NewStatus DEF RecordWorkerError, Statuses, FUZZABLE, ErrorStatus, StateType
<1>31. CASE SessionStopped
  BY <1>31 DEF SessionStopped, FreshIds, UnderWay, ResultOnce, CountedOnce, Counted
<1>32. CASE FalseAlarm
  BY <1>32, QuietSessions, NewStatus DEF FalseAlarm, Statuses, FUZZABLE, ProgressType
<1>33. CASE QueueStrategy
  BY <1>33 DEF QueueStrategy, FreshIds, UnderWay, ResultOnce, CountedOnce, Counted
<1>34. CASE Crash
  BY <1>34, QuietSessions DEF Crash
<1>35. CASE UNCHANGED vars
  BY <1>35 DEF vars, FreshIds, UnderWay, ResultOnce, CountedOnce, Counted
<1> QED
  BY <1>1, <1>2, <1>3, <1>4, <1>5, <1>6, <1>7, <1>8, <1>9, <1>10, <1>11, <1>12, <1>13, <1>14, <1>15, <1>16, <1>17, <1>18, <1>19, <1>20, <1>21, <1>22, <1>23, <1>24, <1>25, <1>26, <1>27, <1>28, <1>29, <1>30, <1>31, <1>32, <1>33, <1>34, <1>35 DEF Next, Worker, Fuzz, Afl

LEMMA InitialSessions == Init => SessionInv
<1> SUFFICES ASSUME Init PROVE SessionInv
  OBVIOUS
<1>1. TypeInv
  BY InitialTypes
<1>2. FreshIds /\ CountedOnce /\ UnderWay /\ ResultOnce
  BY DEF Init, FreshIds, CountedOnce, NoRun, UnderWay, ResultOnce, Complete
<1> QED
  BY <1>1, <1>2 DEF SessionInv

\* CountedOnce, for every number of sessions, crashes and stops, and with every strategy.
THEOREM EverySessionCountedOnce == Spec => []CountedOnce
<1>1. Init => SessionInv
  BY InitialSessions
<1>2. SessionInv /\ [Next]_vars => SessionInv'
  BY SessionStep
<1>3. SessionInv => CountedOnce
  BY DEF SessionInv
<1> QED
  BY <1>1, <1>2, <1>3, PTL DEF Spec

-----------------------------------------------------------------------------
(* The budget holds, unless the operator runs the AFL++ lane by hand.      *)

LEMMA TypeFacts ==
  ASSUME TypeInv
  PROVE  /\ progress.completed \in Nat
         /\ progress.sessions \in [{AFL} \cup Ids -> Nat]
         /\ AFL \notin Ids
         /\ Requested \in Nat
         /\ Ceiling \in Nat
         /\ afl.ticks \in Nat
<1>1. Requested \in Nat
  BY ConstantsAssumption DEF Requested, TypeInv, TypeOK, StateType
<1> QED
  BY <1>1, CeilingFacts DEF TypeInv, TypeOK, ProgressType, AflType, AFL, Ids

\* A step that leaves the books alone and starts nothing keeps the invariant.
LEMMA QuietTime ==
  ASSUME TimeInv,
         progress'.sessions = progress.sessions, progress'.completed = progress.completed,
         afl' = afl, pc' \notin {"running", "lost", "stopped", "afl", "afl_account"},
         state'.status = "afl_cmplog_pending" => state.status = "afl_cmplog_pending" \/ afl = NoAfl
  PROVE  TimeInv'
BY DEF TimeInv, TimeFits, AflOnce, AflCountedOnce, BudgetHolds

LEMMA TimeStep ==
  ASSUME ~OperatorAfl, SessionInv, TimeInv, [Next]_vars
  PROVE  TimeInv'
<1> USE DEF SessionInv, TypeInv, TypeOK, TimeInv, environment
<1>1. CASE Refuse
  BY <1>1, QuietTime DEF Refuse
<1>2. CASE ScheduleHarness
  BY <1>2, QuietTime DEF ScheduleHarness
<1>3. CASE CloseHarnessStrategy
  BY <1>3, QuietTime DEF CloseHarnessStrategy
<1>4. CASE CheckStrategy
  BY <1>4, QuietTime DEF CheckStrategy
<1>5. CASE Replay
  BY <1>5, QuietTime DEF Replay, Cached
<1>6. CASE Finish
  BY <1>6, QuietTime, NewStatus DEF Finish, Statuses, FUZZABLE
<1>7. CASE NoResultArtifact
  BY <1>7, QuietTime DEF NoResultArtifact
<1>8. CASE StartSession
  <2>1. /\ UNCHANGED <<progress, afl>> /\ pc' = "running"
        /\ state'.status = "running" /\ state'.seconds = SessionBudget
    BY <1>8, NewStatus DEF StartSession, Statuses, FUZZABLE, StateType
  <2>2. SessionBudget \in Nat /\ SessionBudget <= Budget - Whole(progress.completed)
    BY <1>8, SessionBudgetType DEF StartSession, Remaining
  <2>3. progress.completed + Requested' < Ceiling
    BY <2>1, <2>2, WholeFits DEF Requested, ProgressType
  <2> QED
    BY <2>1, <2>3 DEF TimeFits, AflOnce, AflCountedOnce, BudgetHolds
<1>9. CASE SessionEnds
  <2>1. pc = "running" /\ UNCHANGED <<state, progress, afl>>
    BY <1>9 DEF SessionEnds
  <2>2. pc' = "evaluate" \/ (pc' = "lost" /\ elapsed' \in 0..Requested)
    BY <1>9 DEF SessionEnds, Accountable
  <2>3. TimeFits'
    BY <2>1, <2>2, TypeFacts DEF TimeFits
  <2> QED
    BY <2>1, <2>2, <2>3 DEF AflOnce, AflCountedOnce, BudgetHolds
<1>10. CASE CountLost
  <2>1. /\ progress'.completed = progress.completed + elapsed
        /\ progress'.sessions = [progress.sessions EXCEPT ![state.active] = @ + 1]
        /\ state.active \in Ids
        /\ UNCHANGED <<state, afl>> /\ pc' \in {"lost_state", "stopped_state"}
    BY <1>10, NewEntry DEF CountLost, UnderWay
  <2>2. BudgetHolds'
    BY <1>10, <2>1 DEF CountLost, TimeFits, BudgetHolds, Ceiling
  <2>3. progress'.sessions[AFL] = progress.sessions[AFL]
    BY <2>1, TypeFacts
  <2> QED
    BY <2>1, <2>2, <2>3 DEF TimeFits, AflOnce, AflCountedOnce
<1>11. CASE SaveInterrupted
  BY <1>11, QuietTime, NewStatus DEF SaveInterrupted, Statuses, FUZZABLE
<1>12. CASE EvaluateStrategy
  BY <1>12, QuietTime DEF EvaluateStrategy
<1>13. CASE Account
  <2>1. /\ UNCHANGED <<state, afl>> /\ pc' = "decide" /\ run.session \in Ids
    BY <1>13 DEF Account, ResultOnce
  <2>2. CASE Counted \/ SessionTime = 0
    BY <1>13, <2>1, <2>2, QuietTime DEF Account
  <2>3. CASE ~(Counted \/ SessionTime = 0)
    <3>1. /\ progress'.completed = progress.completed + SessionTime
          /\ progress'.sessions = [progress.sessions EXCEPT ![run.session] = @ + 1]
      BY <1>13, <2>3, AccountedType DEF Account
    <3>2. BudgetHolds'
      BY <3>1, SessionTimeFits DEF BudgetHolds, Ceiling
    <3>3. progress'.sessions[AFL] = progress.sessions[AFL]
      BY <2>1, <3>1, TypeFacts
    <3> QED
      BY <2>1, <3>2, <3>3 DEF TimeFits, AflOnce, AflCountedOnce
  <2> QED
    BY <2>2, <2>3
<1>14. CASE EndCampaign
  BY <1>14, QuietTime, NewStatus DEF EndCampaign, Statuses, FUZZABLE
<1>15. CASE LogLimit
  BY <1>15, QuietTime, NewStatus DEF LogLimit, Statuses, FUZZABLE, StateType
<1>16. CASE ApplyDictionary
  BY <1>16, DictionaryKeepsBooks, QuietTime DEF ApplyDictionary
<1>17. CASE SaveReady
  BY <1>17, QuietTime, NewStatus DEF SaveReady, Statuses, FUZZABLE, WantsAfl
<1>18. CASE ReplanStalled
  BY <1>18, QuietTime DEF ReplanStalled, ReplanTo
<1>19. CASE LowYieldFollowup
  BY <1>19, QuietTime DEF LowYieldFollowup, ReplanTo
<1>20. CASE MarkHarnessScheduled
  BY <1>20, QuietTime DEF MarkHarnessScheduled, ProgressType
<1>21. CASE SaveHarnessWork
  BY <1>21, QuietTime, NewStatus DEF SaveHarnessWork, Statuses, FUZZABLE, StateType
<1>22. CASE AflStart
  <2>1. afl = NoAfl /\ state.status = "afl_cmplog_pending"
    BY <1>22 DEF AflStart, AflOnce, ByOperator
  <2>2. /\ UNCHANGED <<progress, afl>>
        /\ \/ pc' = "afl" /\ state'.status = "afl_cmplog_running"
           \/ pc' = "error" /\ state' = state
    <3>1. pc' \in {"afl", "error"} /\ UNCHANGED <<progress, afl>>
      BY <1>22, <2>1 DEF AflStart, NoAfl
    <3>2. Flag("afl_cmplog_running").status = "afl_cmplog_running"
      BY NewStatus DEF Statuses
    <3> QED
      BY <1>22, <3>1, <3>2 DEF AflStart
  <2> QED
    BY <2>1, <2>2 DEF TimeFits, AflOnce, AflCountedOnce, BudgetHolds
<1>23. CASE AflEnds
  <2>1. PICK ticks \in 0..(SmallerOf(AflSeconds, Remaining) * Second) : afl'.ticks = ticks
    BY <1>23 DEF AflEnds
  <2>2. progress.completed + ticks < Ceiling
    BY <1>23, AflTimeType DEF AflEnds, BudgetHolds, Ceiling
  <2>3. /\ UNCHANGED <<state, progress>> /\ pc' = "afl_account"
        /\ afl = NoAfl /\ state.status # "afl_cmplog_pending"
    BY <1>23 DEF AflEnds, AflOnce
  <2> QED
    BY <2>1, <2>2, <2>3 DEF TimeFits, AflOnce, AflCountedOnce, BudgetHolds
<1>24. CASE AflFails
  BY <1>24 DEF AflFails, TimeFits, AflOnce, AflCountedOnce, BudgetHolds, NoAfl
<1>25. CASE SaveAflFailed
  BY <1>25, QuietTime, NewStatus DEF SaveAflFailed, Statuses, FUZZABLE
<1>26. CASE AflAccount
  <2>1. /\ pc = "afl_account" /\ pc' = "afl_decide" /\ UNCHANGED <<state, afl>>
        /\ afl # NoAfl
    BY <1>26 DEF AflAccount, AflResult, NoAfl
  <2>2. \/ progress' = progress
        \/ /\ progress'.completed = progress.completed + afl.ticks
           /\ progress'.sessions = [progress.sessions EXCEPT ![AFL] = @ + 1]
    BY <1>26, AflAccountedType
  <2>3. AflCountedOnce'
    BY <2>1, <2>2, TypeFacts DEF AflOnce, AflCountedOnce
  <2>4. BudgetHolds'
    BY <2>1, <2>2 DEF AflOnce, BudgetHolds, Ceiling
  <2> QED
    BY <1>26, <2>1, <2>3, <2>4 DEF AflAccount, TimeFits, AflOnce
<1>27. CASE AflDecide
  BY <1>27, QuietTime, NewStatus DEF AflDecide, Statuses, FUZZABLE, ReplanTo
<1>28. CASE Generate
  BY <1>28, QuietTime, NewStatus, CarriedOverType DEF Generate, Statuses, FUZZABLE, StateType, Analyzed
<1>29. CASE GenerationLimit
  BY <1>29, QuietTime, NewStatus DEF GenerationLimit, Statuses, FUZZABLE, StateType
<1>30. CASE RecordWorkerError
  BY <1>30, QuietTime, NewStatus DEF RecordWorkerError, Statuses, FUZZABLE, ErrorStatus, StateType
<1>31. CASE SessionStopped
  <2>1. /\ pc = "running" /\ pc' = "stopped" /\ elapsed' \in 0..Requested
        /\ UNCHANGED <<state, progress, afl>>
    BY <1>31 DEF SessionStopped
  <2>2. TimeFits'
    BY <2>1, TypeFacts DEF TimeFits
  <2> QED
    BY <2>1, <2>2 DEF AflOnce, AflCountedOnce, BudgetHolds
<1>32. CASE FalseAlarm
  BY <1>32, QuietTime, NewStatus DEF FalseAlarm, Statuses, FUZZABLE, ProgressType
<1>33. CASE QueueStrategy
  BY <1>33 DEF QueueStrategy, TimeFits, Requested, AflOnce, AflCountedOnce, BudgetHolds
<1>34. CASE Crash
  BY <1>34, QuietTime DEF Crash
<1>35. CASE UNCHANGED vars
  BY <1>35 DEF vars, TimeFits, Requested, AflOnce, AflCountedOnce, BudgetHolds
<1> QED
  BY <1>1, <1>2, <1>3, <1>4, <1>5, <1>6, <1>7, <1>8, <1>9, <1>10, <1>11, <1>12, <1>13, <1>14, <1>15, <1>16, <1>17, <1>18, <1>19, <1>20, <1>21, <1>22, <1>23, <1>24, <1>25, <1>26, <1>27, <1>28, <1>29, <1>30, <1>31, <1>32, <1>33, <1>34, <1>35 DEF Next, Worker, Fuzz, Afl

LEMMA InitialTime == Init => TimeInv
<1> SUFFICES ASSUME Init PROVE TimeInv
  OBVIOUS
<1>1. TimeFits /\ AflOnce /\ AflCountedOnce
  BY DEF Init, TimeFits, AflOnce, AflCountedOnce, AFL
<1>2. BudgetHolds
  BY CeilingFacts DEF Init, BudgetHolds, Ceiling
<1> QED
  BY <1>1, <1>2 DEF TimeInv

\* BudgetHolds, for every budget, clock, checkpoint and number of sessions, crashes and stops.
THEOREM BudgetAlwaysHolds ==
  ASSUME ~OperatorAfl
  PROVE  Spec => []BudgetHolds
<1>1. Init => SessionInv /\ TimeInv
  BY InitialSessions, InitialTime
<1>2. SessionInv /\ TimeInv /\ [Next]_vars => SessionInv' /\ TimeInv'
  BY SessionStep, TimeStep
<1>3. TimeInv => BudgetHolds
  BY DEF TimeInv
<1> QED
  BY <1>1, <1>2, <1>3, PTL DEF Spec

\* AflCountedOnce: the campaign starts the AFL++ lane once, and enters it once.
THEOREM AflLaneCountedOnce ==
  ASSUME ~OperatorAfl
  PROVE  Spec => []AflCountedOnce
<1>1. Init => SessionInv /\ TimeInv
  BY InitialSessions, InitialTime
<1>2. SessionInv /\ TimeInv /\ [Next]_vars => SessionInv' /\ TimeInv'
  BY SessionStep, TimeStep
<1>3. TimeInv => AflCountedOnce
  BY DEF TimeInv
<1> QED
  BY <1>1, <1>2, <1>3, PTL DEF Spec

-----------------------------------------------------------------------------
(* Every result reaches the books, as long as nothing but a stalled        *)
(* campaign asks for a further harness.                                    *)

\* The budget is not spent while whole seconds of it remain.
LEMMA BeforeTheEnd ==
  ASSUME progress.completed \in Nat, Remaining > 0
  PROVE  progress.completed < Limit
<1>1. /\ Whole(progress.completed) \in Nat /\ Second \in Nat /\ Budget \in Nat
      /\ progress.completed < Whole(progress.completed) * Second + Second
  BY WholeSeconds, ConstantsAssumption
<1>2. Whole(progress.completed) + 1 <= Budget
  BY <1>1 DEF Remaining
<1>3. (Whole(progress.completed) + 1) * Second <= Budget * Second
  BY <1>1, <1>2
<1>4. (Whole(progress.completed) + 1) * Second = Whole(progress.completed) * Second + Second
  BY <1>1
<1> QED
  BY <1>1, <1>3, <1>4, CeilingFacts DEF Limit

LEMMA ResultStep ==
  ASSUME ~HarnessStrategy, ~OperatorAfl, SessionInv, ResultKept, [Next]_vars
  PROVE  ResultKept'
<1> USE DEF SessionInv, TypeInv, TypeOK, ResultKept, environment
<1>1. CASE Refuse
  BY <1>1 DEF Refuse, Complete, Selected, FUZZABLE
<1>2. CASE ScheduleHarness
  BY <1>2 DEF ScheduleHarness, Complete, Selected, Queued
<1>3. CASE CloseHarnessStrategy
  <2>1. strategy'.current = strategy.current
    BY <1>3 DEF CloseHarnessStrategy, StrategyType
  <2> QED
    BY <1>3, <2>1 DEF CloseHarnessStrategy, Complete
<1>4. CASE CheckStrategy
  <2>1. strategy'.current = strategy.current
    BY <1>4 DEF CheckStrategy, StrategyType
  <2>2. UNCHANGED <<state, progress, run>> /\ pc = "idle" /\ pc' = "checked"
        /\ state.status \in FUZZABLE
    BY <1>4 DEF CheckStrategy, Selected
  <2> QED
    BY <2>1, <2>2 DEF FUZZABLE, Complete
<1>5. CASE Replay
  BY <1>5 DEF Replay, Complete
<1>6. CASE Finish
  BY <1>6, NewStatus DEF Finish, Complete, Statuses, FUZZABLE, Fresh, Cached
<1>7. CASE NoResultArtifact
  BY <1>7 DEF NoResultArtifact, Complete, Fresh, Cached
<1>8. CASE StartSession
  <2>1. /\ UNCHANGED <<progress, run, strategy>> /\ pc' = "running"
        /\ state'.status = "running" /\ state'.seconds = SessionBudget
    BY <1>8, NewStatus DEF StartSession, Statuses, FUZZABLE, StateType
  <2>2. Remaining \in Int /\ Remaining > 0 /\ progress.completed \in Nat
    BY <1>8, WholeSeconds, ConstantsAssumption DEF StartSession, Remaining, ProgressType
  <2>3. SessionBudget > 0
    BY <2>2, ConstantsAssumption
       DEF SessionBudget, CheckpointSeconds, SmallerOf, LargerOf, ProgressType
  <2>4. progress.completed < Limit
    BY <2>2, BeforeTheEnd
  <2>5. ~(Complete(run) /\ progress.sessions[run.session] = 0)
    BY <1>8 DEF StartSession, Fresh, Cached
  <2> QED
    BY <2>1, <2>3, <2>4, <2>5 DEF Complete
<1>9. CASE SessionEnds
  <2>1. /\ UNCHANGED <<state, progress, strategy>> /\ pc = "running"
        /\ pc' \in {"lost", "evaluate"}
    BY <1>9 DEF SessionEnds
  <2>2. Complete(run) => progress.sessions[run.session] # 0
    BY <2>1
  <2>3. Requested > 0 /\ MinCheckpoint * Second > 0
    BY <2>1, ConstantsAssumption DEF Requested, StateType
  <2>4. run' = run \/ (Complete(run') => run'.session = state.active /\ pc' = "evaluate"
                                       /\ run'.accounted > 0)
    BY <1>9, <2>3, TypeFacts, ConstantsAssumption DEF SessionEnds, Accountable, Complete
  <2> QED
    BY <2>1, <2>2, <2>4 DEF Complete
<1>10. CASE CountLost
  <2>1. /\ progress'.sessions = [progress.sessions EXCEPT ![state.active] = @ + 1]
        /\ progress'.accounted = progress.accounted /\ state.active \in Ids
        /\ UNCHANGED <<state, run, strategy>>
        /\ pc \in {"lost", "stopped"} /\ pc' \in {"lost_state", "stopped_state"}
    BY <1>10, NewEntry DEF CountLost, UnderWay
  <2>2. progress'.sessions[state.active] # 0
        /\ \A id \in Ids : progress.sessions[id] # 0 => progress'.sessions[id] # 0
    BY <2>1, TypeFacts
  <2>3. Complete(run) => run.session \in Ids
    BY DEF ResultOnce
  <2> QED
    BY <2>1, <2>2, <2>3 DEF Complete, ProgressType
<1>11. CASE SaveInterrupted
  BY <1>11, NewStatus DEF SaveInterrupted, Complete, Statuses, FUZZABLE
<1>12. CASE EvaluateStrategy
  <2>1. strategy'.current = strategy.current
    BY <1>12 DEF EvaluateStrategy, StrategyType
  <2> QED
    BY <1>12, <2>1 DEF EvaluateStrategy, Complete
<1>13. CASE Account
  <2>1. /\ UNCHANGED <<state, run, strategy>> /\ pc = "account" /\ pc' = "decide"
        /\ run.session \in Ids
    BY <1>13 DEF Account, ResultOnce, environment
  <2>2. CASE Counted \/ SessionTime = 0
    <3>1. progress' = progress
      BY <1>13, <2>2 DEF Account
    <3>2. Complete(run) => progress.sessions[run.session] # 0
      <4>1. run.accounted \in Nat /\ Limit \in Nat /\ progress.completed \in Nat
        BY CeilingFacts DEF RunType, ProgressType
      <4>2. run.accounted > 0 /\ progress.completed < Limit => SessionTime # 0
        BY <4>1 DEF SessionTime, SmallerOf, LargerOf
      <4>3. Counted => progress.sessions[run.session] # 0
        BY <2>1 DEF Counted, Ids
      <4> QED
        BY <2>2, <4>2, <4>3
    <3> QED
      BY <2>1, <3>1, <3>2 DEF Complete
  <2>3. CASE ~(Counted \/ SessionTime = 0)
    <3>1. /\ progress'.sessions = [progress.sessions EXCEPT ![run.session] = @ + 1]
          /\ progress'.accounted = run.session
      BY <1>13, <2>3, AccountedType DEF Account
    <3>2. progress'.sessions[run.session] # 0
      BY <2>1, <3>1, TypeFacts
    <3> QED
      BY <2>1, <3>1, <3>2 DEF Complete
  <2> QED
    BY <2>2, <2>3
<1>14. CASE EndCampaign
  BY <1>14, NewStatus DEF EndCampaign, Complete, Statuses, FUZZABLE
<1>15. CASE LogLimit
  BY <1>15, NewStatus DEF LogLimit, Complete, Statuses, FUZZABLE, StateType
<1>16. CASE ApplyDictionary
  <2>1. /\ progress'.sessions = progress.sessions /\ progress'.completed = progress.completed
        /\ progress'.accounted = progress.accounted
    BY <1>16, DictionaryKeepsBooks
  <2> QED
    BY <1>16, <2>1 DEF ApplyDictionary, GoesOn, Complete
<1>17. CASE SaveReady
  BY <1>17, NewStatus DEF SaveReady, Complete, Statuses, FUZZABLE
<1>18. CASE ReplanStalled
  BY <1>18 DEF ReplanStalled, Complete, ReplanTo
<1>19. CASE LowYieldFollowup
  BY <1>19 DEF LowYieldFollowup, Complete, Fresh, Cached, ReplanTo
<1>20. CASE MarkHarnessScheduled
  BY <1>20 DEF MarkHarnessScheduled, Complete, ProgressType
<1>21. CASE SaveHarnessWork
  BY <1>21, NewStatus DEF SaveHarnessWork, Complete, Statuses, FUZZABLE, StateType
<1>22. CASE AflStart
  <2>1. state.status = "afl_cmplog_pending" /\ UNCHANGED <<progress, run, strategy>>
        /\ pc' # "running"
    BY <1>22 DEF AflStart, ByOperator
  <2> QED
    BY <2>1 DEF Complete
<1>23. CASE AflEnds
  BY <1>23 DEF AflEnds, Complete
<1>24. CASE AflFails
  BY <1>24 DEF AflFails, Complete
<1>25. CASE SaveAflFailed
  BY <1>25, NewStatus DEF SaveAflFailed, Complete, Statuses, FUZZABLE
<1>26. CASE AflAccount
  <2>1. /\ progress'.accounted = progress.accounted /\ UNCHANGED <<state, run, strategy>>
        /\ \A id \in Ids : progress'.sessions[id] = progress.sessions[id]
        /\ pc = "afl_account" /\ pc' = "afl_decide"
    <3>1. \A id \in Ids : progress'.sessions[id] = progress.sessions[id]
      BY <1>26, TypeFacts, AflAccountedType
    <3> QED
      BY <1>26, <3>1, AflAccountedType DEF AflAccount
  <2>2. Complete(run) => run.session \in Ids
    BY DEF ResultOnce
  <2> QED
    BY <2>1, <2>2 DEF Complete, ProgressType
<1>27. CASE AflDecide
  BY <1>27, NewStatus DEF AflDecide, Complete, Statuses, FUZZABLE, ReplanTo
<1>28. CASE Generate
  <2>1. /\ run' = NoRun /\ pc' = "idle" /\ strategy' = strategy
    BY <1>28 DEF Generate
  <2> QED
    BY <1>28, <2>1, CarriedOverType DEF Generate, Complete, NoRun
<1>29. CASE GenerationLimit
  BY <1>29, NewStatus DEF GenerationLimit, Complete, Statuses, FUZZABLE, StateType
<1>30. CASE RecordWorkerError
  BY <1>30, NewStatus DEF RecordWorkerError, Complete, Statuses, FUZZABLE, ErrorStatus, StateType
<1>31. CASE SessionStopped
  BY <1>31 DEF SessionStopped, Complete
<1>32. CASE FalseAlarm
  BY <1>32, NewStatus DEF FalseAlarm, Complete, Statuses, FUZZABLE, ProgressType
<1>33. CASE QueueStrategy
  <2>1. strategy'.current # HARNESS
    BY <1>33 DEF QueueStrategy
  <2> QED
    BY <1>33, <2>1 DEF QueueStrategy, Complete
<1>34. CASE Crash
  BY <1>34 DEF Crash, Complete
<1>35. CASE UNCHANGED vars
  BY <1>35 DEF vars, Complete
<1> QED
  BY <1>1, <1>2, <1>3, <1>4, <1>5, <1>6, <1>7, <1>8, <1>9, <1>10, <1>11, <1>12, <1>13, <1>14, <1>15, <1>16, <1>17, <1>18, <1>19, <1>20, <1>21, <1>22, <1>23, <1>24, <1>25, <1>26, <1>27, <1>28, <1>29, <1>30, <1>31, <1>32, <1>33, <1>34, <1>35 DEF Next, Worker, Fuzz, Afl

\* EveryResultCounted, for every place in which the host may stop.
THEOREM EveryResultReachesTheBooks ==
  ASSUME ~HarnessStrategy, ~OperatorAfl
  PROVE  Spec => EveryResultCounted
<1>1. Init => SessionInv /\ ResultKept
  <2>1. Init => ResultKept
    BY DEF Init, ResultKept, Complete, NoRun, HARNESS
  <2> QED
    BY <2>1, InitialSessions
<1>2. SessionInv /\ ResultKept /\ [Next]_vars => SessionInv' /\ ResultKept'
  BY SessionStep, ResultStep
<1>3. SessionInv /\ ResultKept /\ [Next]_vars =>
        [run' # run /\ Complete(run) => progress.sessions[run.session] = 1]_vars
  <2> SUFFICES ASSUME SessionInv, ResultKept, Next, run' # run, Complete(run)
               PROVE  progress.sessions[run.session] = 1
    OBVIOUS
  <2>1. SessionEnds \/ Generate
    BY DEF Next, Worker, Fuzz, Afl, Refuse, ScheduleHarness, CloseHarnessStrategy, CheckStrategy,
       Replay, Finish, NoResultArtifact, StartSession, CountLost, SaveInterrupted,
       EvaluateStrategy, Account, EndCampaign, LogLimit, ApplyDictionary, SaveReady,
       ReplanStalled, LowYieldFollowup, ReplanTo, MarkHarnessScheduled, SaveHarnessWork, AflStart,
       AflEnds, AflFails, SaveAflFailed, AflAccount, AflDecide, GenerationLimit,
       RecordWorkerError, SessionStopped, FalseAlarm, QueueStrategy, Crash
  <2>2. progress.sessions[run.session] # 0
    BY <2>1 DEF SessionEnds, Generate, ResultKept
  <2>3. run.session \in Ids
    BY DEF SessionInv, ResultOnce
  <2>4. progress.sessions[run.session] \in Nat
    BY <2>3, TypeFacts DEF SessionInv
  <2> QED
    BY <2>2, <2>3, <2>4 DEF SessionInv, CountedOnce
<1> QED
  BY <1>1, <1>2, <1>3, PTL DEF Spec, EveryResultCounted

-----------------------------------------------------------------------------
(* A finding ends the session loop.                                        *)

\* A step that sets the status keeps the active session, or has no finding open, or ends the job's
\* campaign.
LEMMA FindingMoves ==
  ASSUME FindingAside, UNCHANGED <<run, crash_files, afl>>, pc' = "idle",
         state'.active = state.active \/ ~FindingOpen \/ state'.status \in
           {"triage_pending", "manual_review", "recovery_pending"},
         ~FindingOpen \/ run.session = state.active \/ state'.status \in
           {"triage_pending", "manual_review", "recovery_pending"}
  PROVE  FindingAside'
BY DEF FindingAside, FindingOpen, Over

LEMMA FindingStep ==
  ASSUME TypeInv, FindingAside, [Next]_vars
  PROVE  FindingAside'
<1> USE DEF TypeInv, TypeOK, environment
<1>1. CASE Refuse
  BY <1>1 DEF Refuse, Selected, FUZZABLE, FindingAside, FindingOpen, Over
<1>2. CASE ScheduleHarness
  BY <1>2 DEF ScheduleHarness, Selected, FUZZABLE, FindingAside, FindingOpen, Over
<1>3. CASE CloseHarnessStrategy
  BY <1>3 DEF CloseHarnessStrategy, FindingAside, FindingOpen, Over
<1>4. CASE CheckStrategy
  BY <1>4 DEF CheckStrategy, Selected, FUZZABLE, FindingAside, FindingOpen, Over
<1>5. CASE Replay
  BY <1>5 DEF Replay, FindingAside, FindingOpen, Over
<1>6. CASE Finish
  BY <1>6, NewStatus, FindingMoves DEF Finish, Statuses, FUZZABLE
<1>7. CASE NoResultArtifact
  BY <1>7 DEF NoResultArtifact, Fresh, FindingAside, FindingOpen, Over
<1>8. CASE StartSession
  <2>1. ~FindingOpen
    BY <1>8 DEF StartSession, Fresh, Cached, Complete, FindingAside, FindingOpen
  <2> QED
    BY <1>8, <2>1 DEF StartSession, FindingAside, FindingOpen
<1>9. CASE SessionEnds
  BY <1>9 DEF SessionEnds, FindingAside, FindingOpen
<1>10. CASE CountLost
  BY <1>10 DEF CountLost, FindingAside, FindingOpen
<1>11. CASE SaveInterrupted
  BY <1>11 DEF SaveInterrupted, FindingAside, FindingOpen
<1>12. CASE EvaluateStrategy
  BY <1>12 DEF EvaluateStrategy, FindingAside, FindingOpen
<1>13. CASE Account
  BY <1>13 DEF Account, FindingAside, FindingOpen
<1>14. CASE EndCampaign
  BY <1>14, NewStatus, FindingMoves DEF EndCampaign, Statuses, FUZZABLE
<1>15. CASE LogLimit
  BY <1>15 DEF LogLimit, FindingAside, FindingOpen
<1>16. CASE ApplyDictionary
  BY <1>16 DEF ApplyDictionary, GoesOn, FindingAside, FindingOpen
<1>17. CASE SaveReady
  BY <1>17 DEF SaveReady, FindingAside, FindingOpen
<1>18. CASE ReplanStalled
  BY <1>18 DEF ReplanStalled, ReplanTo, FindingAside, FindingOpen
<1>19. CASE LowYieldFollowup
  BY <1>19 DEF LowYieldFollowup, LowYield, ReplanTo, FindingAside, FindingOpen
<1>20. CASE MarkHarnessScheduled
  BY <1>20 DEF MarkHarnessScheduled, FindingAside, FindingOpen
<1>21. CASE SaveHarnessWork
  <2>1. CASE pc = "to_generate"
    BY <1>21, <2>1, NewStatus, FindingMoves
       DEF SaveHarnessWork, Statuses, FUZZABLE, FindingAside
  <2>2. CASE pc # "to_generate"
    BY <1>21, <2>2 DEF SaveHarnessWork, FindingAside, FindingOpen
  <2> QED
    BY <2>1, <2>2
<1>22. CASE AflStart
  <2>1. ~Over /\ pc = "idle" /\ UNCHANGED <<run, crash_files, afl>>
    BY <1>22 DEF AflStart, ByOperator, Over
  <2>2. CASE afl = NoAfl /\ MayRunAfl
    BY <1>22, <2>1, <2>2, NewStatus
       DEF AflStart, Statuses, FUZZABLE, FindingAside, FindingOpen, NoAfl, Over
  <2>3. CASE afl = NoAfl /\ ~MayRunAfl
    BY <1>22, <2>1, <2>3 DEF AflStart, FindingAside, FindingOpen, NoAfl
  <2>4. CASE afl # NoAfl /\ afl.result = "failed"
    BY <1>22, <2>1, <2>4 DEF AflStart, FindingAside, FindingOpen
  <2>5. CASE afl # NoAfl /\ afl.result # "failed"
    BY <1>22, <2>1, <2>5 DEF AflStart, FindingAside, FindingOpen
  <2> QED
    BY <2>2, <2>3, <2>4, <2>5
<1>23. CASE AflEnds
  BY <1>23 DEF AflEnds, FindingAside, FindingOpen
<1>24. CASE AflFails
  BY <1>24 DEF AflFails, FindingAside, FindingOpen, NoAfl, Over
<1>25. CASE SaveAflFailed
  BY <1>25, NewStatus, FindingMoves DEF SaveAflFailed, Statuses, FUZZABLE, FindingAside
<1>26. CASE AflAccount
  BY <1>26 DEF AflAccount, FindingAside, FindingOpen
<1>27. CASE AflDecide
  <2>1. CASE ReplanTo("afl_replanned") /\ afl.result # "finding"
    BY <1>27, <2>1 DEF AflDecide, ReplanTo, FindingAside, FindingOpen
  <2>2. CASE afl.result # "finding" /\ state'.active = state.active /\ pc' = "idle"
             /\ UNCHANGED <<run, crash_files, afl>>
    BY <1>27, <2>2 DEF AflDecide, FindingAside, FindingOpen
  <2>3. CASE afl.result = "finding"
    BY <1>27, <2>3, NewStatus, FindingMoves DEF AflDecide, Statuses, FUZZABLE
  <2> QED
    BY <1>27, <2>1, <2>2, <2>3, NewStatus DEF AflDecide, Statuses, FUZZABLE
<1>28. CASE Generate
  BY <1>28 DEF Generate, NoRun, FindingAside, FindingOpen
<1>29. CASE GenerationLimit
  BY <1>29, NewStatus, FindingMoves DEF GenerationLimit, Statuses, FUZZABLE, StateType
<1>30. CASE RecordWorkerError
  BY <1>30, NewStatus, FindingMoves
     DEF RecordWorkerError, Statuses, FUZZABLE, ErrorStatus, StateType, FindingAside
<1>31. CASE SessionStopped
  BY <1>31 DEF SessionStopped, FindingAside, FindingOpen
<1>32. CASE FalseAlarm
  BY <1>32 DEF FalseAlarm, FindingAside, FindingOpen
<1>33. CASE QueueStrategy
  BY <1>33 DEF QueueStrategy, FindingAside, FindingOpen, Over
<1>34. CASE Crash
  BY <1>34 DEF Crash, FindingAside, FindingOpen, Over
<1>35. CASE UNCHANGED vars
  BY <1>35 DEF vars, FindingAside, FindingOpen, Over
<1> QED
  BY <1>1, <1>2, <1>3, <1>4, <1>5, <1>6, <1>7, <1>8, <1>9, <1>10, <1>11, <1>12, <1>13, <1>14, <1>15, <1>16, <1>17, <1>18, <1>19, <1>20, <1>21, <1>22, <1>23, <1>24, <1>25, <1>26, <1>27, <1>28, <1>29, <1>30, <1>31, <1>32, <1>33, <1>34, <1>35 DEF Next, Worker, Fuzz, Afl

\* FindingEndsSession, for every job, command and crash: another session starts only when
\* somebody has looked at the crash files of a finding.
THEOREM FindingsGoToTriage == Spec => FindingEndsSession
<1>1. Init => TypeInv /\ FindingAside
  <2>1. Init => FindingAside
    BY DEF Init, FindingAside, FindingOpen, NoRun
  <2> QED
    BY <2>1, InitialTypes
<1>2. TypeInv /\ FindingAside /\ [Next]_vars => TypeInv' /\ FindingAside'
  BY TypeStep, FindingStep
<1>3. TypeInv /\ FindingAside /\ [Next]_vars =>
        [state'.active # state.active /\ state'.active # 0 /\ run.result = "finding"
           => ~crash_files]_vars
  <2> SUFFICES ASSUME TypeInv, FindingAside, Next, state'.active # state.active,
                      state'.active # 0, run.result = "finding"
               PROVE  ~crash_files
    OBVIOUS
  <2> USE DEF TypeInv, TypeOK
  <2>1. \A s \in Statuses : Flag(s).active = state.active /\ Idle(s).active = 0
    BY NewStatus
  <2>2. StartSession
    <3>1. Worker \/ FalseAlarm
      BY DEF Next, SessionStopped, QueueStrategy, Crash, environment
    <3>2. FalseAlarm => state'.active = state.active
      BY <2>1 DEF FalseAlarm, Statuses, FUZZABLE
    <3>3. Afl => state'.active = state.active
      BY <2>1 DEF Afl, AflStart, AflEnds, AflFails, SaveAflFailed, AflAccount, AflDecide, ReplanTo,
         Statuses, FUZZABLE
    <3>4. Generate => state'.active = state.active
      BY <2>1 DEF Generate, Analyzed, Statuses, FUZZABLE, Flag, StateType
    <3>5. GenerationLimit \/ RecordWorkerError => state'.active = state.active
      BY DEF GenerationLimit, RecordWorkerError, Flag, StateType
    <3>6. Fuzz => StartSession \/ state'.active \in {0, state.active}
      BY DEF Fuzz, Refuse, ScheduleHarness, CloseHarnessStrategy, CheckStrategy, Replay,
         Finish, NoResultArtifact, SessionEnds, CountLost, SaveInterrupted, EvaluateStrategy,
         Account, EndCampaign, LogLimit, ApplyDictionary, SaveReady, ReplanStalled,
         LowYieldFollowup, ReplanTo, MarkHarnessScheduled, SaveHarnessWork, Flag, Idle, StateType
    <3> QED
      BY <3>1, <3>2, <3>3, <3>4, <3>5, <3>6 DEF Worker
  <2> QED
    BY <2>2 DEF StartSession, Fresh, Cached, Complete, FindingAside, FindingOpen
<1> QED
  BY <1>1, <1>2, <1>3, PTL DEF Spec, FindingEndsSession

-----------------------------------------------------------------------------
(* The plan and the state, as long as nothing cuts a handler short.        *)

LEMMA PlanStep ==
  ASSUME ~OperatorAfl, MaxCrashes = 0, TypeInv, PlanAside, [Next]_vars
  PROVE  PlanAside'
<1> USE DEF TypeInv, TypeOK, environment, PlanAside
<1>1. CASE Refuse
  BY <1>1 DEF Refuse, Selected, FUZZABLE
<1>2. CASE ScheduleHarness
  BY <1>2 DEF ScheduleHarness
<1>3. CASE CloseHarnessStrategy
  BY <1>3 DEF CloseHarnessStrategy
<1>4. CASE CheckStrategy
  BY <1>4 DEF CheckStrategy
<1>5. CASE ReplanStalled \/ LowYieldFollowup
  BY <1>5 DEF ReplanStalled, LowYieldFollowup, ReplanTo
<1>6. CASE MarkHarnessScheduled
  BY <1>6 DEF MarkHarnessScheduled
<1>7. CASE SaveHarnessWork
  BY <1>7, NewStatus DEF SaveHarnessWork, Statuses, FUZZABLE, StateType
<1>8. CASE Replay \/ Finish \/ NoResultArtifact \/ StartSession \/ SessionEnds \/ CountLost
           \/ SaveInterrupted \/ EvaluateStrategy \/ Account \/ EndCampaign \/ LogLimit
           \/ ApplyDictionary \/ SaveReady \/ RecordWorkerError \/ SessionStopped
  BY <1>8 DEF Replay, Finish, NoResultArtifact, StartSession, Fresh, SessionEnds, CountLost,
     SaveInterrupted, EvaluateStrategy, Account, EndCampaign, LogLimit, ApplyDictionary, GoesOn,
     SaveReady, RecordWorkerError, SessionStopped
<1>9. CASE AflStart
  BY <1>9 DEF AflStart, ByOperator
<1>10. CASE AflEnds \/ AflFails \/ SaveAflFailed \/ AflAccount
  BY <1>10 DEF AflEnds, AflFails, SaveAflFailed, AflAccount
<1>11. CASE AflDecide
  BY <1>11 DEF AflDecide, ReplanTo
<1>12. CASE Generate
  BY <1>12, NewStatus DEF Generate, Analyzed, Statuses, FUZZABLE, StateType
<1>13. CASE GenerationLimit
  BY <1>13, NewStatus DEF GenerationLimit, Statuses, FUZZABLE, StateType
<1>14. CASE FalseAlarm
  BY <1>14 DEF FalseAlarm
<1>15. CASE QueueStrategy
  BY <1>15 DEF QueueStrategy
<1>16. ~Crash
  BY DEF Crash
<1>17. CASE UNCHANGED vars
  BY <1>17 DEF vars
<1> QED
  BY <1>1, <1>2, <1>3, <1>4, <1>5, <1>6, <1>7, <1>8, <1>9, <1>10, <1>11, <1>12, <1>13, <1>14, <1>15, <1>16, <1>17 DEF Next, Worker, Fuzz, Afl

\* PlanMatchesState: whoever turns the plan hands the job to the generator in the same handler.
\* A host that stops between the two writes, and an operator who applies an old AFL++ artifact
\* while the job waits for its harness, each break it.
THEOREM PlanAgreesAtRest ==
  ASSUME ~OperatorAfl, MaxCrashes = 0
  PROVE  Spec => []PlanMatchesState
<1>1. Init => TypeInv /\ PlanAside
  <2>1. Init => PlanAside
    BY DEF Init, PlanAside
  <2> QED
    BY <2>1, InitialTypes
<1>2. TypeInv /\ PlanAside /\ [Next]_vars => TypeInv' /\ PlanAside'
  BY TypeStep, PlanStep
<1>3. TypeInv /\ PlanAside => PlanMatchesState
  BY DEF PlanAside, PlanMatchesState, FUZZABLE
<1> QED
  BY <1>1, <1>2, <1>3, PTL DEF Spec

-----------------------------------------------------------------------------
(* The books are a ledger.                                                 *)

Booked == {id \in {AFL} \cup Ids : progress.sessions[id] # 0}

\* Entering a session that is not in the books is what the ledger calls a charge.
LEMMA EntryIsCharge ==
  ASSUME TypeInv, NEW entry \in {AFL} \cup Ids, NEW time \in Nat,
         progress.sessions[entry] = 0, progress.completed + time < Ceiling,
         progress'.completed = progress.completed + time,
         progress'.sessions = [progress.sessions EXCEPT ![entry] = @ + 1]
  PROVE  /\ entry \notin Booked /\ Booked' = Booked \cup {entry}
         /\ progress.completed + time < Ceiling
         /\ progress'.completed = progress.completed + time
         /\ time \in 0..Ceiling
BY TypeFacts DEF Booked

LEMMA LedgerStep ==
  ASSUME ~OperatorAfl, SessionInv, TimeInv, [Next]_vars
  PROVE  [Ledger!Book]_<<progress.completed, Booked>>
<1> DEFINE SameBooks ==
             progress'.completed = progress.completed /\ progress'.sessions = progress.sessions
<1> USE DEF SessionInv, TypeInv, TypeOK
<1>1. CASE CountLost
  <2>1. state.active \in Ids /\ progress.sessions[state.active] = 0
    BY <1>1 DEF CountLost, UnderWay
  <2>2. progress.completed + elapsed < Ceiling
    BY <1>1 DEF CountLost, TimeInv, TimeFits
  <2>3. /\ progress'.completed = progress.completed + elapsed
        /\ progress'.sessions = [progress.sessions EXCEPT ![state.active] = @ + 1]
    BY <1>1, <2>1, NewEntry DEF CountLost
  <2>4. elapsed \in Nat
    OBVIOUS
  <2> QED
    BY <2>1, <2>2, <2>3, <2>4, EntryIsCharge DEF Ledger!Book, Ledger!Charge, Ceiling, Booked
<1>2. CASE Account
  <2>1. CASE Counted \/ SessionTime = 0
    BY <1>2, <2>1 DEF Account, Booked
  <2>2. CASE ~(Counted \/ SessionTime = 0)
    <3>1. run.session \in Ids /\ progress.sessions[run.session] = 0
      BY <1>2, <2>2 DEF Account, ResultOnce
    <3>2. SessionTime \in Nat /\ progress.completed + SessionTime < Ceiling
      BY SessionTimeFits DEF TimeInv, BudgetHolds, Ceiling
    <3>3. /\ progress'.completed = progress.completed + SessionTime
          /\ progress'.sessions = [progress.sessions EXCEPT ![run.session] = @ + 1]
      BY <1>2, <2>2, AccountedType DEF Account
    <3> QED
      BY <3>1, <3>2, <3>3, EntryIsCharge DEF Ledger!Book, Ledger!Charge, Ceiling, Booked
  <2> QED
    BY <2>1, <2>2
<1>3. CASE AflAccount
  <2>1. progress.sessions[AFL] = 0 /\ progress.completed + afl.ticks < Ceiling
    BY <1>3 DEF AflAccount, TimeInv, AflOnce
  <2>2. \/ progress' = progress
        \/ /\ progress'.completed = progress.completed + afl.ticks
           /\ progress'.sessions = [progress.sessions EXCEPT ![AFL] = @ + 1]
    BY <1>3, AflAccountedType
  <2>3. CASE progress' = progress
    BY <2>3 DEF Booked
  <2>4. CASE progress' # progress
    BY <2>1, <2>2, <2>4, TypeFacts, EntryIsCharge DEF Ledger!Book, Ledger!Charge, Ceiling, Booked
  <2> QED
    BY <2>3, <2>4
<1>4. CASE SameBooks
  BY <1>4 DEF Booked
<1>5. ApplyDictionary => SameBooks
  BY DictionaryKeepsBooks
<1>6. Generate => SameBooks
  BY CarriedOverType DEF Generate
<1>7. MarkHarnessScheduled \/ FalseAlarm => SameBooks
  BY DEF MarkHarnessScheduled, FalseAlarm, ProgressType
<1>8. Fuzz => CountLost \/ Account \/ SameBooks
  BY <1>5, <1>7 DEF Fuzz, Refuse, ScheduleHarness, CloseHarnessStrategy, CheckStrategy, Replay,
     Finish, NoResultArtifact, StartSession, SessionEnds, SaveInterrupted, EvaluateStrategy,
     EndCampaign, LogLimit, SaveReady, ReplanStalled, LowYieldFollowup, ReplanTo, SaveHarnessWork
<1>9. Afl => AflAccount \/ SameBooks
  BY DEF Afl, AflStart, AflEnds, AflFails, SaveAflFailed, AflDecide, ReplanTo
<1>10. Next \/ UNCHANGED vars => CountLost \/ Account \/ AflAccount \/ SameBooks
  BY <1>6, <1>7, <1>8, <1>9 DEF Next, Worker, GenerationLimit, RecordWorkerError,
     SessionStopped, QueueStrategy, Crash, vars
<1> QED
  BY <1>1, <1>2, <1>3, <1>4, <1>10

\* LedgerKept: the campaign implements CampaignLedger, whatever stops and is applied again.
THEOREM CampaignImplementsLedger ==
  ASSUME ~OperatorAfl
  PROVE  Spec => LedgerKept
<1>1. Init => Ledger!Empty
  BY DEF Init, Ledger!Empty
<1>2. SessionInv /\ TimeInv /\ [Next]_vars => [Ledger!Book]_<<progress.completed, Booked>>
  BY LedgerStep
<1>3. Init => SessionInv /\ TimeInv
  BY InitialSessions, InitialTime
<1>4. SessionInv /\ TimeInv /\ [Next]_vars => SessionInv' /\ TimeInv'
  BY SessionStep, TimeStep
<1> QED
  BY <1>1, <1>2, <1>3, <1>4, PTL DEF Spec, LedgerKept, Ledger!Spec, Booked

=============================================================================
