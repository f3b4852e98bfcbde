------------------------------ MODULE AgentAlerts ------------------------------
(* The central agent's monitor and what it tells the operator by Telegram       *)
(* (src/src/fuzz_target_scout/central_agent.py): the health incident with its   *)
(* alert and its recovery, the findings, judgments and notices, and the review  *)
(* of a finished batch.  The agent keeps one dictionary, self.state (mem),      *)
(* and writes it to state.json (disk) at the places modelled here; a message is *)
(* sent before what it says is recorded, and may be lost or arrive although     *)
(* the sender sees an error.                                                    *)
EXTENDS Integers, FiniteSets, Sequences, SequencesExt, FiniteSetsExt

CONSTANTS
  Jobs,           \* job ids
  Reasons,        \* reasons a job is a deterministic problem
  Findings,       \* crash files, PoC files and reports with a finding
  Judgments,      \* triage and validation verdicts
  Notices,        \* outcomes of strategies and rotations of campaigns
  Opinions,       \* what the health review may say
  Threshold,      \* ai_failure_alert_threshold
  KeyLimit,       \* recorded keys of findings and of judgments kept (5000)
  DigestLimit,    \* digests of delivered messages kept (500)
  BatchLimit,     \* findings announced in one message (100)
  Often,          \* how far repetitions are counted
  MaxChanges,     \* changes of the world
  MaxFaults       \* crashes, failed sends and stops together

Events == Findings \union Judgments \union Notices
System == "system"
Severities == {"healthy", "warning", "critical"}

\* The messages about the review of a batch.
ReviewMessages == {"cycle_review_unavailable", "cycle_review_recovered"}

ASSUME AlertConstants ==
  /\ {Threshold, KeyLimit, DigestLimit, BatchLimit, Often} \subseteq Nat \ {0}
  /\ Opinions \subseteq [severity : Severities, notify : BOOLEAN, about : Jobs \union {System},
                         kind : {"none", "coverage_stall", "resource", "ai_review"}]
  /\ Findings \intersect Judgments = {} /\ (Findings \union Judgments) \intersect Notices = {}
  /\ Events \intersect ReviewMessages = {}

VARIABLES
  problems,   \* the jobs' problem statuses and stale updates: set of <<job, reason>>
  runnable,   \* some job is runnable
  opinion,    \* the health review's verdict of the moment
  reviewer,   \* the cycle review works
  produced,   \* events whose files are there and have content
  mem,        \* self.state
  disk,       \* state.json
  pc,         \* where the agent's main thread is
  round,      \* the monitor's local variables
  elapsed,    \* health_alert_cooldown_seconds have passed since the last alert
  stopping,   \* stop_event
  view,       \* what the operator believes: the last health and review message
  told,       \* how often each event reached the operator, counted up to Often
  forgotten,  \* how often the record of each event was dropped for want of room
  again,      \* alerts that told the operator what the last one had told already
  changes,    \* changes of the world so far
  faults,     \* crashes, failed sends and stops so far
  unsure      \* a message arrived that the agent does not know of

vars == <<problems, runnable, opinion, reviewer, produced, mem, disk, pc, round,
          elapsed, stopping, view, told, forgotten, again, changes, faults, unsure>>
world == <<problems, runnable, opinion, reviewer, produced, changes>>
operator == <<view, told, again>>
disturbed == <<faults, unsure, forgotten>>

None == <<"none">>
Starvation == <<System, "no_runnable_targets">>
NoIncident == [key |-> None, delivered |-> FALSE, severity |-> "healthy"]
NoVerdict == [severity |-> "healthy", notify |-> FALSE, about |-> System, kind |-> "none"]

NoRound == [problems |-> {}, runnable |-> TRUE, findings |-> {}, judgments |-> {},
            notices |-> {}, verdict |-> NoVerdict, recovered |-> {}, handled |-> FALSE,
            sending |-> {}, acked |-> {}, delivered |-> FALSE]

FreshState == [incident |-> NoIncident, starving |-> FALSE, failures |-> 0,
               searched |-> FALSE, review_down |-> FALSE,
               digests |-> {}, others |-> 0, findings |-> <<>>, judged |-> <<>>]

Init ==
  /\ problems = {} /\ runnable = TRUE /\ opinion \in {o \in Opinions : ~o.notify}
  /\ reviewer = TRUE /\ produced = {}
  /\ mem = FreshState /\ disk = FreshState
  /\ pc = "rest" /\ round = NoRound /\ elapsed = TRUE /\ stopping = FALSE
  /\ view = [health |-> None, review |-> "works"]
  /\ told = [e \in Events |-> 0] /\ forgotten = [e \in Events |-> 0] /\ again = 0
  /\ changes = 0 /\ faults = 0 /\ unsure = FALSE

----------------------------------------------------------------------------
(* Sending and recording *)

\* TelegramNotifier.send: the message arrives and is acknowledged, is lost, or
\* arrives while the answer is lost ("doubt"); a stopped agent sends nothing.
SendOutcomes ==
  IF stopping THEN {"stopped"}
  ELSE {"ok"} \union (IF faults < MaxFaults THEN {"lost", "doubt"} ELSE {})

\* The messages that _notify does not send twice: their digest is recorded.
Deduplicated == Notices \union ReviewMessages

\* _notify, up to the answer: the message is about the events in sending; the new
\* values are what the operator knows once it arrives.
Send(sending, newView, newTold, newAgain, next) ==
  \E outcome \in SendOutcomes :
    /\ faults' = IF outcome \in {"lost", "doubt"} THEN faults + 1 ELSE faults
    /\ unsure' = (unsure \/ outcome = "doubt")
    /\ IF outcome \in {"ok", "doubt"}
         THEN view' = newView /\ told' = newTold /\ again' = newAgain
         ELSE UNCHANGED operator
    /\ round' = [round EXCEPT !.sending = sending, !.delivered = outcome = "ok"]
    /\ pc' = next
    /\ UNCHANGED forgotten

\* The digests to keep are named and others; over DigestLimit one of the old ones is
\* dropped.  Which is a matter of the dictionary's order: that of its insertions,
\* but after a restart that of its keys, by which state.json is sorted.
Kept(state, named, others) ==
  IF Cardinality(named) + others <= DigestLimit
    THEN {[state EXCEPT !.digests = named, !.others = others]}
    ELSE {[state EXCEPT !.digests = named \ {d}] : d \in state.digests} \union
         {[state EXCEPT !.digests = named, !.others = others - 1] : n \in 1..state.others}

\* Every delivered message leaves a digest.  The ones that are looked up are kept by
\* name; the others are counted, as one that comes again may have the key of another.
Filed(state, sending) ==
  LET named == sending \intersect Deduplicated
  IN  IF named # {} THEN Kept(state, state.digests \union named, state.others)
      ELSE Kept(state, state.digests, state.others + 1) \union
           (IF state.others > 0 THEN {state} ELSE {})

\* _notify, once it has the answer: the digest of a delivered message is filed and
\* the state saved as it is, without what the caller will record of the message.
Noted == IF round.delivered THEN Filed(mem, round.sending) ELSE {mem}

Known(state, e) == e \in state.digests \/ Contains(state.findings, e) \/ Contains(state.judged, e)

\* The records of events that found no room, those of the given events included.
Forgets(events) ==
  /\ forgotten' = [e \in Events |->
       IF (Known(mem, e) \/ e \in events) /\ ~Known(mem', e) /\ forgotten[e] < Often
         THEN forgotten[e] + 1 ELSE forgotten[e]]
  /\ UNCHANGED <<faults, unsure>>

RecordDigest ==
  /\ mem' \in Noted
  /\ disk' = IF round.delivered THEN mem' ELSE disk
  /\ Forgets({})

\* One more time the operator heard of the events.
Heard(events) == [e \in Events |-> IF e \in events /\ told[e] < Often THEN told[e] + 1 ELSE told[e]]

Suffix(s) == IF Len(s) > KeyLimit THEN SubSeq(s, Len(s) - KeyLimit + 1, Len(s)) ELSE s

\* Keys appended to a list of recorded keys, without doubles, the oldest dropped.
Recorded(s, events) ==
  Suffix(s \o SetToSeq({e \in events : ~Contains(s, e)}))

StopArrives ==
  /\ ~stopping /\ stopping' = TRUE
  /\ faults < MaxFaults /\ faults' = faults + 1
  /\ UNCHANGED <<unsure, forgotten>>

----------------------------------------------------------------------------
(* The monitor: look, ask the health review, tell what happened, alert *)

\* _operational_problems: the jobs' problems, and the system's own when nothing
\* has been runnable since a successful discovery.
OperationalProblems(starving) ==
  problems \union (IF starving /\ ~runnable THEN {Starvation} ELSE {})

\* _sync_runnable_availability.
Starves == IF runnable THEN FALSE ELSE mem.starving \/ mem.searched

NewFindings == {e \in produced \intersect Findings : ~Contains(mem.findings, e)}
NewJudgments == {e \in produced \intersect Judgments : ~Contains(mem.judged, e)}

\* The head of monitor: the overview, the availability (saved when it changes),
\* the events and the deterministic problems, all before the review is asked.
Look ==
  /\ pc = "rest" /\ ~stopping
  /\ mem' = [mem EXCEPT !.starving = Starves]
  /\ disk' = IF Starves # mem.starving THEN mem' ELSE disk
  /\ \E batch \in SUBSET NewFindings :
       /\ Cardinality(batch) =
            IF Cardinality(NewFindings) > BatchLimit THEN BatchLimit ELSE Cardinality(NewFindings)
       /\ round' = [NoRound EXCEPT !.problems = OperationalProblems(Starves),
                                   !.runnable = runnable,
                                   !.findings = batch, !.judgments = NewJudgments]
  /\ pc' = "ask"
  /\ UNCHANGED <<world, elapsed, stopping, operator, disturbed>>

\* The stop is seen: the monitor returns and records nothing.
Abandon ==
  /\ pc = "ask" /\ stopping
  /\ pc' = "rest" /\ round' = NoRound
  /\ UNCHANGED <<world, mem, disk, elapsed, stopping, operator, disturbed>>

\* Slip: the digest of an outcome is not looked at.
PendingNoticesAll == produced \intersect Notices

\* What _notify_adaptive_outcomes and _notify_campaign_rotations send: every outcome
\* whose message has no digest yet.
PendingNotices == (produced \intersect Notices) \ mem.digests

\* reviewer.health: a verdict, or a failure that is itself worth an alert once
\* it happened Threshold times in a row.
Ask ==
  /\ pc = "ask" /\ ~stopping
  /\ LET failures == IF mem.failures < Threshold THEN mem.failures + 1 ELSE Threshold
         failed == opinion.kind = "ai_review"
     IN  /\ mem' = [mem EXCEPT !.failures = IF failed THEN failures ELSE 0]
         /\ round' = [round EXCEPT !.verdict =
               IF failed THEN [opinion EXCEPT !.notify = failures >= Threshold] ELSE opinion,
                                     !.notices = PendingNotices]
  /\ pc' = "notices"
  /\ UNCHANGED <<world, disk, elapsed, stopping, operator, disturbed>>

\* One message each, recorded as soon as it is delivered.
SendNotice ==
  /\ pc = "notices"
  /\ \E n \in round.notices : Send({n}, view, Heard({n}), again, "noticed")
  /\ UNCHANGED <<world, mem, disk, elapsed, stopping>>

RecordNotice ==
  /\ pc = "noticed"
  /\ RecordDigest
  /\ round' = [round EXCEPT !.notices = @ \ round.sending]
  /\ pc' = "notices"
  /\ UNCHANGED <<world, elapsed, stopping, operator>>

\* The functions that tell of events return at once when there are none.
Judging == IF round.judgments # {} THEN "judgments" ELSE "alert"

\* _apply_health_improvements: recoveries of jobs with a problem (JobPipeline has
\* what they do to the job) and strategies for a stalled one, which then handle
\* the stall the health review may complain about.
Improve ==
  /\ pc = "notices" /\ round.notices = {}
  /\ \E recovered \in SUBSET {p[1] : p \in problems \intersect round.problems}, handled \in BOOLEAN :
       /\ handled => round.verdict.kind = "coverage_stall"
       /\ problems' = {p \in problems : p[1] \notin recovered}
       /\ runnable' = (runnable \/ recovered # {})
       /\ round' = [round EXCEPT !.recovered = recovered, !.handled = handled]
  /\ pc' = IF round.findings # {} THEN "findings" ELSE Judging
  /\ UNCHANGED <<opinion, reviewer, produced, changes, mem, disk, elapsed, stopping, operator, disturbed>>

\* _notify_findings: one message for all of them.
SendFindings ==
  /\ pc = "findings"
  /\ Send(round.findings, view, Heard(round.findings), again, "found")
  /\ UNCHANGED <<world, mem, disk, elapsed, stopping>>

\* The keys are recorded after the state was saved; the end of the round saves them.
KeepFindings(told_) ==
  /\ pc = "found"
  /\ \E noted \in Noted :
       /\ mem' = IF told_ THEN [noted EXCEPT !.findings = Recorded(@, round.sending)] ELSE noted
       /\ disk' = IF round.delivered THEN noted ELSE disk
  /\ Forgets(IF told_ THEN round.sending ELSE {})
  /\ pc' = Judging
  /\ UNCHANGED <<world, round, elapsed, stopping, operator>>

\* Slip: the keys are recorded whether or not the message was delivered.
RecordFindingsAnyway == KeepFindings(TRUE)

RecordFindings == KeepFindings(round.delivered)

\* _notify_judgments: one message each; the keys are added after the last one.
SendJudgment ==
  /\ pc = "judgments"
  /\ \E e \in round.judgments : Send({e}, view, Heard({e}), again, "judged")
  /\ UNCHANGED <<world, mem, disk, elapsed, stopping>>

RecordJudgment ==
  /\ pc = "judged"
  /\ RecordDigest
  /\ round' = [round EXCEPT !.judgments = @ \ round.sending,
                            !.acked = IF round.delivered THEN @ \union round.sending ELSE @]
  /\ pc' = "judgments"
  /\ UNCHANGED <<world, elapsed, stopping, operator>>

RecordJudgments ==
  /\ pc = "judgments" /\ round.judgments = {}
  /\ mem' = [mem EXCEPT !.judged = Recorded(@, round.acked)]
  /\ Forgets(round.acked)
  /\ pc' = "alert"
  /\ UNCHANGED <<world, disk, round, elapsed, stopping, operator>>

----------------------------------------------------------------------------
(* The health incident *)

\* The end of monitor: the incident is as given, and everything is saved.
Finish(state) == mem' = state /\ disk' = state /\ pc' = "rest" /\ round' = NoRound

Remaining == {p \in round.problems : p[1] \notin round.recovered}

\* The health review wants an alert that no recovery of this round has answered.
ReviewNotifies ==
  /\ round.verdict.notify
  /\ \/ round.recovered = {}
     \/ round.verdict.kind # "ai_review" /\ round.verdict.about \notin round.recovered

ShouldNotify == Remaining # {} \/ ReviewNotifies

\* _health_incident_key: the set of problems, or the review's severity and the
\* kind of problem it sees; its wording does not count.
IncidentKey ==
  IF Remaining # {}
    THEN <<"deterministic", Remaining>>
    ELSE <<"ai", round.verdict.severity, round.verdict.about, round.verdict.kind>>

\* Slip: the severity is the review's, whatever the jobs' problems.
EffectiveSeverityOfReview == round.verdict.severity

\* The severity of an alert: a deterministic problem is at least a warning.
EffectiveSeverity ==
  IF Remaining # {} /\ round.verdict.severity = "healthy" THEN "warning" ELSE round.verdict.severity

\* _adaptive_stall_is_being_handled.
StallHandled == Remaining = {} /\ round.verdict.kind = "coverage_stall" /\ round.handled

Rank(severity) == CASE severity = "healthy" -> 0 [] severity = "warning" -> 1 [] OTHER -> 2

\* Slip: the cooldown holds for the problems of jobs as well.
InCooldownForAll ==
  mem.incident.delivered /\ Rank(EffectiveSeverity) <= Rank(mem.incident.severity) /\ ~elapsed

\* _health_alert_in_cooldown: only between alerts of the health review, and not
\* when things got worse.
InCooldown ==
  /\ mem.incident.delivered /\ mem.incident.key[1] = "ai" /\ Remaining = {}
  /\ Rank(EffectiveSeverity) <= Rank(mem.incident.severity)
  /\ ~elapsed

\* Slip: a known incident is announced again once the cooldown is over.
KnownIncidentForAWhile == mem.incident.key = IncidentKey /\ mem.incident.delivered /\ ~elapsed

KnownIncident == mem.incident.key = IncidentKey /\ mem.incident.delivered

\* The branches of monitor that leave the incident as it is: handled by a
\* strategy, suppressed by the cooldown, or known already.
Suppress ==
  /\ pc = "alert" /\ ShouldNotify
  /\ StallHandled \/ InCooldown \/ KnownIncident
  /\ Finish(mem)
  /\ UNCHANGED <<world, elapsed, stopping, operator, disturbed>>

SendAlert ==
  /\ pc = "alert" /\ ShouldNotify
  /\ ~StallHandled /\ ~InCooldown /\ ~KnownIncident
  /\ Send({}, [view EXCEPT !.health = IncidentKey], told,
          IF view.health = IncidentKey /\ again < Often THEN again + 1 ELSE again, "alerted")
  /\ UNCHANGED <<world, mem, disk, elapsed, stopping>>

\* The incident replaces the one before, delivered or not.
RecordAlert ==
  /\ pc = "alerted"
  /\ \E noted \in Noted :
       Finish([noted EXCEPT !.incident = [key |-> IncidentKey, delivered |-> round.delivered,
                                          severity |-> EffectiveSeverity]])
  /\ Forgets({})
  /\ elapsed' = FALSE
  /\ UNCHANGED <<world, stopping, operator>>

\* No alert is due, but nothing can run: only runnable work ends that incident.
StillUnavailable ==
  /\ mem.incident.key # None /\ mem.starving /\ ~round.runnable

SendRecovery ==
  /\ pc = "alert" /\ ~ShouldNotify
  /\ mem.incident.delivered /\ ~StillUnavailable
  /\ Send({}, [view EXCEPT !.health = None], told, again, "recovered")
  /\ UNCHANGED <<world, mem, disk, elapsed, stopping>>

\* A recovery that was not delivered is sent again by the next monitor.
RecordRecovery ==
  /\ pc = "recovered"
  /\ \E noted \in Noted :
       Finish(IF round.delivered THEN [noted EXCEPT !.incident = NoIncident] ELSE noted)
  /\ Forgets({})
  /\ UNCHANGED <<world, elapsed, stopping, operator>>

\* Slip: an incident that was announced is dropped without a recovery.
QuietAnyway ==
  /\ pc = "alert" /\ ~ShouldNotify
  /\ Finish(IF StillUnavailable THEN mem ELSE [mem EXCEPT !.incident = NoIncident])
  /\ UNCHANGED <<world, elapsed, stopping, operator, disturbed>>

\* No alert is due and no recovery either: an incident that was never announced
\* is dropped.
Quiet ==
  /\ pc = "alert" /\ ~ShouldNotify
  /\ ~mem.incident.delivered \/ StillUnavailable
  /\ Finish(IF StillUnavailable THEN mem ELSE [mem EXCEPT !.incident = NoIncident])
  /\ UNCHANGED <<world, elapsed, stopping, operator, disturbed>>

----------------------------------------------------------------------------
(* The review of a finished batch *)

\* The review of a batch cannot be had (a stop during the review counts as that):
\* an outage opens, so that its end will be announced anew.  A further failure of
\* an outage that was told changes nothing.
ReviewFails ==
  /\ pc = "rest" /\ "cycle_review_unavailable" \notin mem.digests
  /\ \/ ~reviewer /\ ~stopping /\ UNCHANGED <<stopping, disturbed>>
     \/ reviewer /\ StopArrives
  /\ mem' = [mem EXCEPT !.review_down = TRUE,
                        !.digests = IF mem.review_down THEN @ ELSE @ \ {"cycle_review_recovered"}]
  /\ round' = [NoRound EXCEPT !.sending = {"cycle_review_unavailable"}]
  /\ pc' = "reviewing"
  /\ UNCHANGED <<world, disk, elapsed, operator>>

\* A review works again; it is told only once, delivered or not.
ReviewRecovers ==
  /\ pc = "rest" /\ reviewer /\ ~stopping /\ mem.review_down
  /\ mem' = [mem EXCEPT !.review_down = FALSE, !.digests = @ \ {"cycle_review_unavailable"}]
  /\ round' = [NoRound EXCEPT !.sending = {"cycle_review_recovered"}]
  /\ pc' = "reviewing"
  /\ UNCHANGED <<world, disk, elapsed, stopping, operator, disturbed>>

\* Its message, unless the digest says that the operator has it.
TellReview ==
  /\ pc = "reviewing"
  /\ IF round.sending \subseteq mem.digests
       THEN pc' = "reviewTold" /\ UNCHANGED <<round, operator, disturbed>>
       ELSE Send(round.sending,
                 [view EXCEPT !.review = IF mem.review_down THEN "fails" ELSE "works"],
                 told, again, "reviewTold")
  /\ UNCHANGED <<world, mem, disk, elapsed, stopping>>

\* The digest is recorded, and the state is saved before the monitor comes.
RecordReview ==
  /\ pc = "reviewTold"
  /\ mem' \in Noted /\ disk' = mem' /\ Forgets({})
  /\ round' = NoRound /\ pc' = "rest"
  /\ UNCHANGED <<world, elapsed, stopping, operator>>

----------------------------------------------------------------------------
(* The rest of the run loop, the world, and its faults *)

\* A discovery has finished: last_discovery is set and the state saved.
Discovered ==
  /\ pc = "rest" /\ ~stopping /\ ~runnable /\ ~mem.searched
  /\ mem' = [mem EXCEPT !.searched = TRUE] /\ disk' = mem'
  /\ UNCHANGED <<world, pc, round, elapsed, stopping, operator, disturbed>>

\* A message about anything else is delivered (a strategy, a recovery, the supply of
\* candidates, a failure of the clean-up or of the agent): its digest takes a place.
\* One that is sent within a round has the effect of one after it, for the digests
\* are looked up only where notices and reviews are sent.
OtherMessage ==
  /\ pc = "rest" /\ ~stopping /\ changes < MaxChanges /\ changes' = changes + 1
  /\ mem' \in Filed(mem, {}) /\ disk' = mem' /\ Forgets({})
  /\ UNCHANGED <<problems, runnable, opinion, reviewer, produced, pc, round, elapsed, stopping, operator>>

CooldownRunsOut ==
  /\ pc = "rest" /\ ~elapsed /\ elapsed' = TRUE
  /\ UNCHANGED <<world, mem, disk, pc, round, stopping, operator, disturbed>>

\* Jobs fail and are mended, work runs out and appears, findings and verdicts
\* appear, the reviews change their mind.  Every part of the world is read by one
\* step of a round, so that a change within a round is the same as one before or
\* after it; only the jobs' problems are read twice, by Look and by Improve.
Changes ==
  /\ changes < MaxChanges /\ changes' = changes + 1
  /\ UNCHANGED <<mem, disk, pc, round, elapsed, stopping, operator, disturbed>>

JobChanges ==
  /\ pc \in {"rest", "ask"} /\ Changes
  /\ \E j \in Jobs : \E reason \in Reasons \union {"fine"} :
       problems' = {p \in problems : p[1] # j} \union
                   (IF reason = "fine" THEN {} ELSE {<<j, reason>>})
  /\ problems' # problems
  /\ UNCHANGED <<runnable, opinion, reviewer, produced>>

WorkChanges ==
  /\ pc = "rest" /\ Changes /\ runnable' = ~runnable
  /\ UNCHANGED <<problems, opinion, reviewer, produced>>

OpinionChanges ==
  /\ pc = "rest" /\ Changes /\ opinion' \in Opinions \ {opinion}
  /\ UNCHANGED <<problems, runnable, reviewer, produced>>

ReviewerChanges ==
  /\ pc = "rest" /\ Changes /\ reviewer' = ~reviewer
  /\ UNCHANGED <<problems, runnable, opinion, produced>>

EventAppears ==
  /\ pc = "rest" /\ Changes
  /\ \E e \in Events \ produced : produced' = produced \union {e}
  /\ UNCHANGED <<problems, runnable, opinion, reviewer>>

\* Triage moves the crash files of a false alarm away, a summary is overwritten by
\* the next one or archived with its build.
EventVanishes ==
  /\ pc = "rest" /\ Changes
  /\ \E e \in produced : produced' = produced \ {e}
  /\ UNCHANGED <<problems, runnable, opinion, reviewer>>

\* The operator stops the agent; it returns at the next place that looks, saves
\* its state and is started again.  A stop at rest changes nothing.
Stop ==
  /\ pc # "rest" /\ StopArrives
  /\ UNCHANGED <<world, mem, disk, pc, round, elapsed, operator>>

Restart ==
  /\ pc = "rest" /\ stopping
  /\ stopping' = FALSE /\ disk' = mem
  /\ UNCHANGED <<world, mem, pc, round, elapsed, operator, disturbed>>

\* The agent dies and is started again with what state.json has; before the review
\* has answered there is nothing it could lose.
Crash ==
  /\ pc \notin {"rest", "ask"} /\ faults < MaxFaults
  /\ faults' = faults + 1 /\ unsure' = (unsure \/ round.delivered)
  /\ mem' = disk /\ pc' = "rest" /\ round' = NoRound /\ stopping' = FALSE
  /\ UNCHANGED <<world, disk, elapsed, operator, forgotten>>

Monitor ==
  \/ Look \/ Abandon \/ Ask \/ SendNotice \/ RecordNotice \/ Improve
  \/ SendFindings \/ RecordFindings \/ SendJudgment \/ RecordJudgment \/ RecordJudgments
  \/ Suppress \/ SendAlert \/ RecordAlert \/ SendRecovery \/ RecordRecovery \/ Quiet

ReviewSteps == ReviewFails \/ ReviewRecovers \/ TellReview \/ RecordReview

Environment ==
  \/ CooldownRunsOut \/ JobChanges \/ WorkChanges \/ OpinionChanges \/ ReviewerChanges
  \/ EventAppears \/ EventVanishes \/ OtherMessage \/ Stop \/ Crash

Next == Monitor \/ ReviewSteps \/ Discovered \/ Restart \/ Environment

\* The run loop comes back to the monitor (idle, between batches, at every
\* monitor_interval_seconds), looks for candidates when nothing can run, and a
\* stopped agent is started again; nothing is assumed of the world.
Spec ==
  /\ Init /\ [][Next]_vars
  /\ WF_vars(Monitor) /\ WF_vars(TellReview \/ RecordReview)
  /\ WF_vars(Discovered) /\ WF_vars(Restart)

----------------------------------------------------------------------------
(* Properties *)

Keys == {None} \union {<<"deterministic", ps>> : ps \in SUBSET ((Jobs \X Reasons) \union {Starvation})}
              \union {<<"ai", o.severity, o.about, o.kind>> : o \in Opinions}

\* What the agent keeps and writes is always a state it can have been in.
Memories ==
  [incident : [key : Keys, delivered : BOOLEAN, severity : Severities],
   starving : BOOLEAN, failures : 0..Threshold, searched : BOOLEAN, review_down : BOOLEAN,
   digests : SUBSET Deduplicated, others : 0..DigestLimit,
   findings : Seq(Findings), judged : Seq(Judgments)]

TypeOK ==
  /\ {mem, disk} \subseteq Memories
  /\ mem.incident.key[1] = "deterministic" => mem.incident.severity # "healthy"
  /\ \A state \in {mem, disk} :
       /\ Len(state.findings) <= KeyLimit /\ Len(state.judged) <= KeyLimit
       /\ Cardinality(state.digests) + state.others <= DigestLimit
  /\ view \in [health : Keys, review : {"works", "fails"}]
  /\ {told, forgotten} \subseteq [Events -> 0..Often] /\ again \in 0..Often
  /\ round.problems \subseteq (Jobs \X Reasons) \union {Starvation}

\* However the monitor, the reviews, a crash, a stop and a failed delivery come
\* together, the operator hears of a finding, a verdict or an outcome again only
\* when a crash or a failed delivery left it unrecorded, or its record had to make
\* room for another: one repetition for each.
ToldOnce ==
  \A e \in Events : told[e] <= 1 + faults + forgotten[e]

\* The alert the operator has last received is not sent again, however long the
\* problem stays and whatever the review says, but for crashes, failed sends and stops.
AlertsNotRepeated == again <= faults

\* Between two monitors of an undisturbed agent the operator believes what the
\* agent has on record: there is an incident, and which, or there is none; the
\* review of the batches is down exactly when its outage was told; and every event
\* was told just as often as it came on record, to be forgotten or not.
ViewMatches ==
  pc = "rest" /\ faults = 0 =>
    /\ view.health = mem.incident.key
    /\ (view.review = "fails") = mem.review_down
    /\ \A e \in Events :
         told[e] = IF Known(mem, e) /\ forgotten[e] < Often THEN forgotten[e] + 1 ELSE forgotten[e]

\* Whatever is lost, a problem that stays is what the operator was told last in the
\* end, with exactly the jobs and reasons that are left (the world settles after
\* MaxChanges changes).  Excepted are runs in which
\* a message arrived that the agent does not know of: a recovery that arrived just
\* before a crash leaves the incident on record, and the agent silent.
Trouble == problems \union (IF mem.searched /\ ~runnable THEN {Starvation} ELSE {})

TroubleTold ==
  <>[](Trouble # {}) => <>[](unsure \/ view.health = <<"deterministic", Trouble>>)

\* A finding, a verdict or an outcome whose file stays reaches the operator in the
\* end, whatever is lost on the way and whatever finds no room; one that triage moves
\* away or writes over before the monitor looks may never be told.
EventsTold == \A e \in Events : <>[](e \in produced) => <>(told[e] > 0)

=============================================================================
