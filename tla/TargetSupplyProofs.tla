-------------------------- MODULE TargetSupplyProofs --------------------------
(* Jobs are made of proven commits only, and a repository is fuzzed in one job:  *)
(* theorems about TargetSupply, for every world of repositories, every listing   *)
(* of the searches, every bound and every number of faults and of plans.         *)
EXTENDS TargetSupply, TLAPS, FiniteSetTheorems, SequenceTheorems

JobStatuses == {"none", "dir", "order", "queued", "duplicate", "running", "ended"}
Orders ==
  {order \in Seq(Commits) : Len(order) <= 2 /\ \A i, j \in 1..Len(order) : order[i] = order[j] => i = j}
Rows == R \X Commits \X Commits

AgentOK(a) ==
  a \in [pc : Pcs, phase : {a.phase}, found : [R -> Commits \cup {-1}], verified : SUBSET R,
         proven : SUBSET R, queue : SUBSET R, leads : {a.leads}, begun : BOOLEAN, latest : SUBSET R,
         searched : {a.searched}, failed : BOOLEAN, todo : SUBSET Rows, row : Rows \cup {<<>>},
         selected : {a.selected}, batched : BOOLEAN, focus : {a.focus}]

CandidateRows ==
  [commit : Commits, verified : BOOLEAN, score : {"none", "low", "near", "enough"},
   evidence : Commits \cup {-1}]

TypeInv ==
  /\ head \in [R -> Commits] /\ paid \subseteq R
  /\ cache \in [R -> [Commits -> {"none", "passed", "build", "transient"}]]
  /\ db \in [R -> CandidateRows]
  /\ jobs \in [R -> [Commits -> JobStatuses]]
  /\ exported \subseteq Rows
  /\ AgentOK(agent)
  /\ operator \in [step : {"none", "read"}, rows : SUBSET Rows, selected : {operator.selected}]

\* What is known of a commit that was probed once: it passed, and is not probed again.
ProbeInv ==
  agent.pc = "probe" =>
    /\ \A r \in agent.queue : agent.found[r] \in Commits /\ cache[r][agent.found[r]] # "passed"
    /\ \A r \in agent.proven : agent.found[r] \in Commits /\ cache[r][agent.found[r]] = "passed"

ProvenRow(row) == cache[row[1]][row[3]] = "passed"

\* Evidence is of a commit that passed, wherever a row has got to.
EvidenceInv ==
  /\ \A r \in R : db[r].evidence # -1 => cache[r][db[r].evidence] = "passed"
  /\ \A row \in exported \cup agent.todo \cup operator.rows : ProvenRow(row)
  /\ JobsProven

SupplyInv == TypeInv /\ ProbeInv /\ EvidenceInv

LEMMA RestOK ==
  ASSUME TypeInv, NEW pc \in Pcs
  PROVE  /\ AgentOK(Rest(pc)) /\ Rest(pc).pc = pc /\ Rest(pc).todo = {} /\ Rest(pc).queue = {}
         /\ Rest(pc).proven = {} /\ Rest(pc).row = <<>>
<1>1. AgentOK(Fresh)
  BY DEF Fresh, AgentOK, Pcs
<1>2. agent.batched \in BOOLEAN
  BY DEF TypeInv, AgentOK
<1>3. ASSUME NEW a, AgentOK(a), NEW f
      PROVE  LET b == [a EXCEPT !.pc = pc, !.batched = agent.batched, !.focus = f]
             IN  /\ AgentOK(b) /\ b.pc = pc /\ b.todo = a.todo /\ b.queue = a.queue
                 /\ b.proven = a.proven /\ b.row = a.row
  BY <1>2, <1>3 DEF AgentOK
<1>4. Fresh.todo = {} /\ Fresh.queue = {} /\ Fresh.proven = {} /\ Fresh.row = <<>>
  BY DEF Fresh
<1> QED
  BY <1>1, <1>3, <1>4 DEF Rest

LEMMA InitSupply ==
  ASSUME Init
  PROVE  SupplyInv
<1>1. TypeInv
  <2>1. AgentOK(agent)
    BY DEF Init, Fresh, AgentOK, Pcs
  <2>2. db \in [R -> CandidateRows]
    <3>1. NoRow \in CandidateRows
      BY DEF NoRow, CandidateRows, Commits
    <3>2. [NoRow EXCEPT !.verified = TRUE, !.score = "near"] \in CandidateRows
      BY <3>1 DEF CandidateRows
    <3> QED
      BY <3>1, <3>2 DEF Init
  <2> QED
    BY <2>1, <2>2 DEF Init, TypeInv, Idle, Commits, JobStatuses
<1>2. ProbeInv /\ EvidenceInv
  BY DEF Init, ProbeInv, EvidenceInv, JobsProven, Fresh, Idle, NoRow
<1> QED
  BY <1>1, <1>2 DEF SupplyInv

-----------------------------------------------------------------------------
(* Every step but those of a scan.                                         *)

\* A step that neither evaluates nor probes.
LEMMA OtherStep ==
  ASSUME SupplyInv, head' \in [R -> Commits], paid' \subseteq R, UNCHANGED <<db, cache>>,
         jobs' \in [R -> [Commits -> JobStatuses]],
         \A r \in R, c \in Commits :
           jobs'[r][c] # "none" => jobs[r][c] # "none" \/ cache[r][c] = "passed",
         exported' \subseteq Rows, \A row \in exported' : ProvenRow(row),
         AgentOK(agent'), agent'.pc = "probe" => agent' = agent,
         agent'.todo \subseteq agent.todo \cup exported,
         operator' \in [step : {"none", "read"}, rows : SUBSET Rows, selected : {operator'.selected}],
         operator'.rows \subseteq operator.rows \cup exported
  PROVE  SupplyInv'
<1>1. TypeInv'
  BY DEF SupplyInv, TypeInv
<1>2. ProbeInv'
  BY DEF SupplyInv, ProbeInv
<1>3. EvidenceInv'
  BY DEF SupplyInv, EvidenceInv, ProvenRow, JobsProven
<1> QED
  BY <1>1, <1>2, <1>3 DEF SupplyInv

\* A step of the agent that changes no file, or the statuses of some jobs.
LEMMA AgentStep ==
  ASSUME SupplyInv, UNCHANGED <<head, paid, db, cache, exported, operator>>,
         jobs' \in [R -> [Commits -> JobStatuses]],
         \A r \in R, c \in Commits :
           jobs'[r][c] # "none" => jobs[r][c] # "none" \/ cache[r][c] = "passed",
         AgentOK(agent'), agent'.pc = "probe" => agent' = agent,
         agent'.todo \subseteq agent.todo \cup exported
  PROVE  SupplyInv'
<1>1. \A row \in exported' : ProvenRow(row)
  BY DEF SupplyInv, EvidenceInv
<1> QED
  BY <1>1, OtherStep DEF SupplyInv, TypeInv

LEMMA LookAtJobs ==
  ASSUME TypeInv, Look
  PROVE  /\ jobs' \in [R -> [Commits -> JobStatuses]]
         /\ \A r \in R, c \in Commits : jobs'[r][c] # "none" => jobs[r][c] # "none"
<1>1. \A r \in R, c \in Commits :
        /\ jobs'[r][c] = IF jobs[r][c] = "queued" /\ Kept(r) # c THEN "duplicate" ELSE jobs[r][c]
        /\ jobs[r][c] \in JobStatuses
  BY DEF Look, Quarantined, TypeInv
<1>2. jobs' \in [R -> [Commits -> JobStatuses]]
  BY <1>1 DEF Look, Quarantined, JobStatuses
<1> QED
  BY <1>1, <1>2

\* What the agent's memory becomes when a phase begins.
Starts(a, pc) == AgentOK(a) /\ a.pc = pc /\ a.todo = {}

LEMMA RestStarts ==
  ASSUME TypeInv, NEW pc \in Pcs
  PROVE  Starts(Rest(pc), pc)
BY RestOK DEF Starts

LEMMA PhaseStarts ==
  ASSUME TypeInv, NEW pc \in Pcs, NEW phase
  PROVE  Starts([Rest(pc) EXCEPT !.phase = phase], pc)
<1>1. ASSUME NEW a, Starts(a, pc)
      PROVE  Starts([a EXCEPT !.phase = phase], pc)
  BY <1>1 DEF Starts, AgentOK
<1> QED
  BY <1>1, RestStarts

LEMMA WiderStarts ==
  ASSUME TypeInv, NEW pc \in Pcs, NEW phase, NEW searched
  PROVE  Starts([Rest(pc) EXCEPT !.phase = phase, !.searched = searched], pc)
<1>1. ASSUME NEW a, Starts(a, pc)
      PROVE  Starts([a EXCEPT !.phase = phase, !.searched = searched], pc)
  BY <1>1 DEF Starts, AgentOK
<1> QED
  BY <1>1, RestStarts

LEMMA BatchedStarts ==
  ASSUME TypeInv, NEW pc \in Pcs, NEW batched \in BOOLEAN
  PROVE  Starts([Rest(pc) EXCEPT !.batched = batched], pc)
<1>1. ASSUME NEW a, Starts(a, pc)
      PROVE  Starts([a EXCEPT !.batched = batched], pc)
  BY <1>1 DEF Starts, AgentOK
<1> QED
  BY <1>1, RestStarts

LEMMA LoopKeeps ==
  ASSUME SupplyInv, Loop \/ AfterRefresh \/ EndPlan
  PROVE  SupplyInv'
<1>1. /\ Look /\ UNCHANGED <<head, paid, db, cache, exported, operator>>
  BY DEF Loop, AfterRefresh, EndPlan, world, store
<1>2. \E pc \in {"capacity", "plan", "discover", "wait", "look"} : Starts(agent', pc)
  <2>1. {"capacity", "plan", "discover", "wait", "look"} \subseteq Pcs /\ TypeInv
    BY DEF Pcs, SupplyInv
  <2>2. CASE \E pc \in {"capacity", "wait", "look"} : agent' = Rest(pc)
    BY <2>1, <2>2, RestStarts
  <2>3. CASE \E pc \in {"plan", "discover"} : \E phase : agent' = [Rest(pc) EXCEPT !.phase = phase]
    BY <2>1, <2>3, PhaseStarts
  <2>4. ASSUME NEW phase, NEW searched,
               agent' = [Rest("discover") EXCEPT !.phase = phase, !.searched = searched]
        PROVE  Starts(agent', "discover")
    BY <2>1, <2>4, WiderStarts
  <2>5. CASE Loop
    BY <2>2, <2>3, <2>5 DEF Loop, Keep
  <2>6. CASE AfterRefresh
    BY <2>2, <2>6 DEF AfterRefresh, Keep
  <2>7. CASE EndPlan
    BY <2>2, <2>4, <2>7 DEF EndPlan, Keep
  <2> QED
    BY <2>5, <2>6, <2>7
<1>3. AgentOK(agent') /\ agent'.pc # "probe" /\ agent'.todo = {}
  BY <1>2 DEF Starts
<1> QED
  BY <1>1, <1>3, LookAtJobs, AgentStep DEF SupplyInv

LEMMA RestKeeps ==
  ASSUME SupplyInv, WaitEnds \/ Restart \/ ScanFails \/ Stop \/ Crash \/ DirectoryInTheWay
  PROVE  SupplyInv'
<1>1. UNCHANGED <<head, paid, db, cache, exported, operator, jobs>>
  BY DEF WaitEnds, Restart, ScanFails, Stop, Crash, DirectoryInTheWay, world, store
<1>2. {"loop", "off", "look"} \subseteq Pcs /\ TypeInv
  BY DEF Pcs, SupplyInv
<1>3. \/ \E pc \in {"loop", "off", "look"} : agent' = Rest(pc)
      \/ agent' = [Rest("loop") EXCEPT !.batched = FALSE]
  BY DEF WaitEnds, Restart, ScanFails, Stop, Crash, DirectoryInTheWay, Keep
<1>4. \E pc \in {"loop", "off", "look"} : Starts(agent', pc)
  BY <1>2, <1>3, RestStarts, BatchedStarts
<1>5. AgentOK(agent') /\ agent'.pc # "probe" /\ agent'.todo = {}
  BY <1>4 DEF Starts
<1> QED
  BY <1>1, <1>5, AgentStep DEF SupplyInv, TypeInv

LEMMA BatchKeeps ==
  ASSUME SupplyInv, StartBatch \/ BatchEnds
  PROVE  SupplyInv'
<1>1. UNCHANGED <<head, paid, db, cache, exported, operator>> /\ TypeInv
  BY DEF StartBatch, BatchEnds, world, store, SupplyInv
<1>2. {"loop", "off", "batch"} \subseteq Pcs
  BY DEF Pcs
<1>3. AgentOK(agent') /\ agent'.pc # "probe" /\ agent'.todo = {}
  <2>1. \/ \E pc \in {"off", "batch"} : agent' = Rest(pc)
        \/ agent' = [Rest("loop") EXCEPT !.batched = TRUE]
    BY DEF StartBatch, BatchEnds, Keep
  <2>2. \E pc \in {"loop", "off", "batch"} : Starts(agent', pc)
    BY <1>1, <1>2, <2>1, RestStarts, BatchedStarts
  <2> QED
    BY <2>2 DEF Starts
<1>4. /\ jobs' \in [R -> [Commits -> JobStatuses]]
      /\ \A r \in R, c \in Commits : jobs'[r][c] # "none" => jobs[r][c] # "none"
  <2>1. CASE StartBatch
    <3>1. PICK batch \in SUBSET Runnable \ {{}} :
            jobs' = [r \in R |-> [c \in Commits |-> IF <<r, c>> \in batch THEN "running" ELSE jobs[r][c]]]
      BY <2>1 DEF StartBatch
    <3>2. \A r \in R, c \in Commits : <<r, c>> \in batch => jobs[r][c] \in {"queued", "running"}
      BY <3>1 DEF Runnable
    <3> QED
      BY <1>1, <3>1, <3>2 DEF TypeInv, JobStatuses
  <2>2. CASE BatchEnds
    BY <1>1, <2>2 DEF BatchEnds, TypeInv, JobStatuses
  <2> QED
    BY <2>1, <2>2
<1> QED
  BY <1>1, <1>3, <1>4, AgentStep

\* The steps next to the agent.
LEMMA EnvironmentKeeps ==
  ASSUME SupplyInv, IntervalPasses \/ WorldChanges \/ Cool
  PROVE  SupplyInv'
<1>1. /\ UNCHANGED <<db, cache, exported, jobs, agent, operator>> /\ TypeInv
  BY DEF IntervalPasses, WorldChanges, Cool, world, store, SupplyInv
<1>2. head' \in [R -> Commits] /\ paid' \subseteq R
  BY <1>1 DEF IntervalPasses, WorldChanges, Cool, world, NewCommit, PolicyWithdrawn, Vanishes, TypeInv, Commits
<1>3. \A row \in exported' : ProvenRow(row)
  BY <1>1 DEF SupplyInv, EvidenceInv
<1> QED
  BY <1>1, <1>2, <1>3, OtherStep DEF TypeInv

-----------------------------------------------------------------------------
(* One scan.                                                               *)

LEMMA FirstOfThem ==
  ASSUME NEW repos
  PROVE  FirstAttempts(repos) \subseteq repos
BY DEF FirstAttempts

LEMMA DiscoverKeeps ==
  ASSUME SupplyInv, Discover
  PROVE  SupplyInv'
<1>1. TypeInv /\ UNCHANGED <<head, paid, db, cache, exported, jobs, operator>>
  BY DEF SupplyInv, Discover, world
<1>2. PICK lost \in SUBSET Found :
        agent' = [agent EXCEPT !.pc = "probe",
                    !.found = [r \in R |-> IF r \in Found \ lost THEN head[r] ELSE -1],
                    !.verified = (Found \ lost) \cap paid,
                    !.proven = {r \in (Found \ lost) \cap paid : Proven(r)},
                    !.queue = FirstAttempts(Probed(Found \ lost)), !.leads = Leads(Probed(Found \ lost)),
                    !.searched = @ \cup Found, !.failed = lost # {}, !.latest = {},
                    !.focus = IF agent.phase = "focused" THEN (@ % Len(Focused)) + 1 ELSE @]
  BY DEF Discover, Keep
<1> DEFINE found    == Found \ lost
           commits  == [r \in R |-> IF r \in found THEN head[r] ELSE -1]
           verified == found \cap paid
           proven   == {r \in found \cap paid : Proven(r)}
           queue    == FirstAttempts(Probed(found))
<1>3. commits \in [R -> Commits \cup {-1}] /\ {verified, proven} \subseteq SUBSET R
  BY <1>1 DEF TypeInv
<1>4. queue \subseteq {r \in found \cap paid : ~Proven(r)} /\ queue \in SUBSET R
  BY <1>1, FirstOfThem DEF Probed, TypeInv
<1>5. /\ \A r \in queue : commits[r] \in Commits /\ cache[r][commits[r]] # "passed"
      /\ \A r \in proven : commits[r] \in Commits /\ cache[r][commits[r]] = "passed"
  BY <1>1, <1>4 DEF TypeInv, Proven
<1> HIDE DEF found, commits, verified, proven, queue
<1>6. /\ AgentOK(agent') /\ agent'.todo = agent.todo /\ agent'.found = commits
      /\ agent'.proven = proven /\ agent'.queue = queue
  <2>1. ASSUME NEW leads, NEW searched, NEW failed \in BOOLEAN, NEW focus,
               agent' = [agent EXCEPT !.pc = "probe", !.found = commits, !.verified = verified,
                           !.proven = proven, !.queue = queue, !.leads = leads, !.searched = searched,
                           !.failed = failed, !.latest = {}, !.focus = focus]
        PROVE  /\ AgentOK(agent') /\ agent'.todo = agent.todo /\ agent'.found = commits
               /\ agent'.proven = proven /\ agent'.queue = queue
    <3>1. AgentOK(agent) /\ "probe" \in Pcs
      BY <1>1 DEF TypeInv, Pcs
    <3>2. /\ commits \in [R -> Commits \cup {-1}] /\ verified \in SUBSET R
          /\ proven \in SUBSET R /\ queue \in SUBSET R
      BY <1>3, <1>4
    <3>3. /\ agent'.todo = agent.todo /\ agent'.found = commits
          /\ agent'.proven = proven /\ agent'.queue = queue
      BY <2>1, <3>1 DEF AgentOK
    <3>4. AgentOK(agent')
      BY <2>1, <3>1, <3>2, ZenonT(40) DEF AgentOK
    <3> QED
      BY <3>3, <3>4
  <2> QED
    BY <1>2, <2>1 DEF found, commits, verified, proven, queue
<1>7. TypeInv' /\ EvidenceInv'
  BY <1>1, <1>6 DEF SupplyInv, TypeInv, EvidenceInv, ProvenRow, JobsProven
<1> QED
  BY <1>1, <1>5, <1>6, <1>7 DEF SupplyInv, ProbeInv

LEMMA ProbeKeeps ==
  ASSUME SupplyInv, Probe
  PROVE  SupplyInv'
<1>1. /\ TypeInv /\ ProbeInv /\ EvidenceInv /\ agent.pc = "probe"
      /\ UNCHANGED <<head, paid, db, exported, jobs, operator>>
  BY DEF SupplyInv, Probe, world, At
<1>2. PICK r \in agent.queue, result \in {"passed", "build", "transient"} :
        /\ cache' = [cache EXCEPT ![r][agent.found[r]] = result]
        /\ agent' = [agent EXCEPT !.queue = @ \ {r}, !.begun = TRUE,
                       !.proven = IF result = "passed" THEN @ \cup {r} ELSE @]
  BY DEF Probe, Keep, Results
<1> DEFINE c == agent.found[r]
<1>3. r \in R /\ c \in Commits /\ cache[r][c] # "passed" /\ r \notin agent.proven
  BY <1>1, <1>2 DEF ProbeInv, TypeInv, AgentOK
<1> HIDE DEF c
<1>5. /\ cache' \in [R -> [Commits -> {"none", "passed", "build", "transient"}]]
      /\ cache'[r][c] = result
      /\ \A x \in R, y \in Commits : ~(x = r /\ y = c) => cache'[x][y] = cache[x][y]
  BY <1>1, <1>2, <1>3 DEF TypeInv, c
<1>6. \A x \in R, y \in Commits : cache[x][y] = "passed" => cache'[x][y] = "passed"
  BY <1>3, <1>5
<1>7. /\ AgentOK(agent') /\ agent'.found = agent.found /\ agent'.todo = agent.todo
      /\ agent'.queue = agent.queue \ {r}
      /\ agent'.proven = IF result = "passed" THEN agent.proven \cup {r} ELSE agent.proven
  BY <1>1, <1>2, <1>3, ZenonT(40) DEF TypeInv, AgentOK
<1>8. TypeInv'
  BY <1>1, <1>5, <1>7 DEF TypeInv
<1>9. EvidenceInv'
  <2>1. /\ agent.todo \subseteq Rows /\ operator.rows \subseteq Rows /\ exported \subseteq Rows
        /\ \A x \in R : db[x].evidence \in Commits \cup {-1}
    BY <1>1 DEF TypeInv, AgentOK, CandidateRows
  <2>2. \A row \in Rows : ProvenRow(row) => ProvenRow(row)'
    BY <1>6 DEF ProvenRow, Rows
  <2>3. \A x \in R : db[x].evidence # -1 => cache'[x][db[x].evidence] = "passed"
    BY <1>1, <1>6, <2>1 DEF EvidenceInv
  <2> QED
    BY <1>1, <1>6, <1>7, <2>1, <2>2, <2>3 DEF EvidenceInv, JobsProven
<1>10. ProbeInv'
  <2>1. \A x \in agent'.queue : agent'.found[x] \in Commits /\ cache'[x][agent'.found[x]] # "passed"
    BY <1>1, <1>5, <1>7 DEF ProbeInv, TypeInv, AgentOK
  <2>2. \A x \in agent.proven : agent'.found[x] \in Commits /\ cache'[x][agent'.found[x]] = "passed"
    BY <1>1, <1>6, <1>7 DEF ProbeInv, TypeInv, AgentOK
  <2>3. result = "passed" => agent'.found[r] \in Commits /\ cache'[r][agent'.found[r]] = "passed"
    BY <1>3, <1>5, <1>7 DEF c
  <2> QED
    BY <1>7, <2>1, <2>2, <2>3 DEF ProbeInv
<1> QED
  BY <1>8, <1>9, <1>10 DEF SupplyInv

LEMMA DeferKeeps ==
  ASSUME SupplyInv, DeferProbes
  PROVE  SupplyInv'
<1>1. /\ TypeInv /\ agent' = [agent EXCEPT !.queue = {}]
      /\ UNCHANGED <<head, paid, db, cache, exported, jobs, operator>>
  BY DEF SupplyInv, DeferProbes, world, store, Keep
<1>2. /\ AgentOK(agent') /\ agent'.queue = {} /\ agent'.proven = agent.proven /\ agent'.pc = agent.pc
      /\ agent'.found = agent.found /\ agent'.todo = agent.todo
  BY <1>1 DEF TypeInv, AgentOK
<1> QED
  BY <1>1, <1>2 DEF SupplyInv, TypeInv, ProbeInv, EvidenceInv, ProvenRow, JobsProven

LEMMA UpsertKeeps ==
  ASSUME SupplyInv, Upsert
  PROVE  SupplyInv'
<1>1. /\ TypeInv /\ ProbeInv /\ EvidenceInv /\ agent.pc = "probe"
      /\ UNCHANGED <<head, paid, cache, exported, jobs, operator>>
  BY DEF SupplyInv, Upsert, world, At
<1> DEFINE found == {r \in R : agent.found[r] # -1}
<1> DEFINE Writes(chosen, reviewed) ==
             /\ db' = [r \in R |-> IF r \in found THEN Row(r, reviewed) ELSE db[r]]
             /\ agent' = [Rest("export") EXCEPT !.phase = agent.phase, !.searched = agent.searched,
                            !.latest = found, !.failed = agent.failed \/ reviewed # chosen]
<1>0. PICK chosen \in Chosen : \E reviewed \in SUBSET chosen : Writes(chosen, reviewed)
  BY Zenon DEF Upsert, Keep
<1>2. PICK reviewed \in SUBSET chosen : Writes(chosen, reviewed)
  BY <1>0
<1>3. \A r \in found : Row(r, reviewed) \in CandidateRows
  BY <1>1 DEF Row, Score, CandidateRows, TypeInv, AgentOK
<1>4. \A r \in found : Row(r, reviewed).evidence # -1 => cache[r][Row(r, reviewed).evidence] = "passed"
  BY <1>1 DEF Row, ProbeInv
<1>5. found \in SUBSET R
  OBVIOUS
<1> HIDE DEF found
<1>6. db' \in [R -> CandidateRows] /\ \A r \in R : db'[r].evidence # -1 => cache[r][db'[r].evidence] = "passed"
  BY <1>1, <1>2, <1>3, <1>4 DEF TypeInv, EvidenceInv
<1>7. AgentOK(agent') /\ agent'.pc = "export" /\ agent'.todo = {}
  <2>1. ASSUME NEW a, Starts(a, "export"), NEW phase, NEW searched, NEW failed \in BOOLEAN
        PROVE  Starts([a EXCEPT !.phase = phase, !.searched = searched, !.latest = found, !.failed = failed],
                      "export")
    BY <1>5, <2>1 DEF Starts, AgentOK
  <2>2. Starts(Rest("export"), "export")
    BY <1>1, RestStarts DEF Pcs
  <2>3. (agent.failed \/ reviewed # chosen) \in BOOLEAN
    OBVIOUS
  <2>4. Starts(agent', "export")
    BY <1>2, <2>1, <2>2, <2>3
  <2> QED
    BY <2>4 DEF Starts
<1>8. TypeInv'
  BY <1>1, <1>6, <1>7 DEF TypeInv
<1>9. EvidenceInv'
  BY <1>1, <1>6, <1>7 DEF EvidenceInv, ProvenRow, JobsProven
<1> QED
  BY <1>7, <1>8, <1>9 DEF SupplyInv, ProbeInv

-----------------------------------------------------------------------------
(* The export and the planning of jobs.                                    *)

LEMMA ExportRowOK ==
  ASSUME SupplyInv, NEW r \in R, Eligible(r)
  PROVE  ExportRow(r) \in Rows /\ ProvenRow(ExportRow(r))
<1>1. db[r].commit \in Commits /\ db[r].evidence \in Commits
  BY DEF SupplyInv, TypeInv, CandidateRows, Eligible
<1> QED
  BY <1>1 DEF ExportRow, Rows, ProvenRow, SupplyInv, EvidenceInv, Eligible

LEMMA WorkOrderOK ==
  ASSUME NEW row \in Rows, ProvenRow(row), NEW selected, ~Passes(row, selected)
  PROVE  row[1] \in R /\ row[2] \in Commits /\ cache[row[1]][row[2]] = "passed"
BY DEF Rows, ProvenRow, Passes, WorkOrder

LEMMA OneJobChanges ==
  ASSUME TypeInv, NEW r \in R, NEW c \in Commits, NEW status \in JobStatuses,
         jobs' = [jobs EXCEPT ![r][c] = status]
  PROVE  /\ jobs' \in [R -> [Commits -> JobStatuses]]
         /\ \A x \in R, y \in Commits : jobs'[x][y] = IF x = r /\ y = c THEN status ELSE jobs[x][y]
BY DEF TypeInv

LEMMA ExportKeeps ==
  ASSUME SupplyInv, Export
  PROVE  SupplyInv'
<1>1. UNCHANGED <<head, paid, db, cache, jobs, operator>> /\ TypeInv
  BY DEF Export, world, store, SupplyInv
<1>2. exported' \in {exported, {ExportRow(r) : r \in {x \in agent.latest : Eligible(x)}}}
  BY DEF Export
<1>3. \A row \in exported' : row \in Rows /\ ProvenRow(row)
  BY <1>1, <1>2, ExportRowOK DEF SupplyInv, TypeInv, EvidenceInv, AgentOK
<1>4. AgentOK(agent') /\ agent'.pc = "plan" /\ agent'.todo = agent.todo
  BY <1>1 DEF Export, Keep, TypeInv, AgentOK, Pcs
<1> QED
  BY <1>1, <1>3, <1>4, OtherStep DEF TypeInv

LEMMA BeginPlanKeeps ==
  ASSUME SupplyInv, BeginPlan
  PROVE  SupplyInv'
<1>1. UNCHANGED <<head, paid, db, cache, jobs, exported, operator>> /\ TypeInv
  BY DEF BeginPlan, world, store, SupplyInv
<1>2. AgentOK(agent') /\ agent'.pc = "row" /\ agent'.todo = exported
  BY <1>1 DEF BeginPlan, Keep, TypeInv, AgentOK, Pcs
<1> QED
  BY <1>1, <1>2, AgentStep DEF TypeInv

LEMMA MakeDirectoryKeeps ==
  ASSUME SupplyInv, MakeDirectory
  PROVE  SupplyInv'
<1>1. /\ UNCHANGED <<head, paid, db, cache, exported, operator>> /\ TypeInv /\ agent.pc = "row"
  BY DEF MakeDirectory, world, store, SupplyInv, At
<1>2. PICK row \in agent.todo :
        \/ agent' = [agent EXCEPT !.todo = @ \ {row}] /\ UNCHANGED jobs
        \/ /\ ~Passes(row, agent.selected)
           /\ jobs' = [jobs EXCEPT ![row[1]][row[2]] = "dir"]
           /\ agent' = [agent EXCEPT !.todo = @ \ {row}, !.row = row]
  BY DEF MakeDirectory, Keep
<1>3. row \in Rows /\ ProvenRow(row)
  BY <1>1, <1>2 DEF TypeInv, AgentOK, SupplyInv, EvidenceInv
<1>4. AgentOK(agent') /\ agent'.pc = "row" /\ agent'.todo \subseteq agent.todo
  <2>1. AgentOK(agent) /\ agent.todo \ {row} \in SUBSET Rows
    BY <1>1 DEF TypeInv, AgentOK
  <2>2. CASE agent' = [agent EXCEPT !.todo = @ \ {row}]
    BY <1>1, <2>1, <2>2 DEF AgentOK
  <2>3. CASE agent' = [agent EXCEPT !.todo = @ \ {row}, !.row = row]
    BY <1>1, <1>3, <2>1, <2>3 DEF AgentOK
  <2> QED
    BY <1>2, <2>2, <2>3
<1>5. /\ jobs' \in [R -> [Commits -> JobStatuses]]
      /\ \A r \in R, c \in Commits : jobs'[r][c] # "none" => jobs[r][c] # "none" \/ cache[r][c] = "passed"
  <2>1. CASE UNCHANGED jobs
    BY <1>1, <2>1 DEF TypeInv
  <2>2. CASE ~Passes(row, agent.selected) /\ jobs' = [jobs EXCEPT ![row[1]][row[2]] = "dir"]
    <3>1. row[1] \in R /\ row[2] \in Commits /\ cache[row[1]][row[2]] = "passed"
      BY <1>3, <2>2, WorkOrderOK
    <3>2. "dir" \in JobStatuses
      BY DEF JobStatuses
    <3>3. /\ jobs' \in [R -> [Commits -> JobStatuses]]
          /\ \A x \in R, y \in Commits :
               jobs'[x][y] = IF x = row[1] /\ y = row[2] THEN "dir" ELSE jobs[x][y]
      BY <1>1, <2>2, <3>1, <3>2, OneJobChanges, ZenonT(40)
    <3> QED
      BY <3>1, <3>3
  <2> QED
    BY <1>2, <2>1, <2>2
<1> QED
  BY <1>1, <1>4, <1>5, AgentStep

LEMMA WriteJobKeeps ==
  ASSUME SupplyInv, WriteJob
  PROVE  SupplyInv'
<1>1. /\ UNCHANGED <<head, paid, db, cache, exported, operator>> /\ TypeInv /\ agent.pc = "row"
      /\ agent.row \in Rows
  BY DEF WriteJob, world, store, SupplyInv, At, TypeInv, AgentOK
<1>2. PICK r \in R, c \in Commits : r = agent.row[1] /\ c = agent.row[2]
  BY <1>1 DEF Rows
<1>3. /\ jobs[r][c] # "none"
      /\ jobs' \in {[jobs EXCEPT ![r][c] = "order"], [jobs EXCEPT ![r][c] = "queued"]}
  BY <1>2 DEF WriteJob
<1>4. AgentOK(agent') /\ agent'.pc = "row" /\ agent'.todo = agent.todo
  BY <1>1, ZenonT(40) DEF WriteJob, Keep, TypeInv, AgentOK
<1>5. /\ jobs' \in [R -> [Commits -> JobStatuses]]
      /\ \A x \in R, y \in Commits : jobs'[x][y] # "none" => jobs[x][y] # "none"
  <2>1. PICK status \in {"order", "queued"} : jobs' = [jobs EXCEPT ![r][c] = status]
    BY <1>3
  <2>2. status \in JobStatuses
    BY DEF JobStatuses
  <2>3. /\ jobs' \in [R -> [Commits -> JobStatuses]]
        /\ \A x \in R, y \in Commits : jobs'[x][y] = IF x = r /\ y = c THEN status ELSE jobs[x][y]
    BY <1>1, <2>1, <2>2, OneJobChanges, ZenonT(40)
  <2> QED
    BY <1>3, <2>3
<1> QED
  BY <1>1, <1>4, <1>5, AgentStep

LEMMA OperatorKeeps ==
  ASSUME SupplyInv, OperatorExports \/ OperatorPlans \/ OperatorCreates
  PROVE  SupplyInv'
<1>1. UNCHANGED <<head, paid, db, cache, agent>> /\ TypeInv /\ EvidenceInv
  BY DEF OperatorExports, OperatorPlans, OperatorCreates, world, store, SupplyInv
<1>2. CASE OperatorExports
  <2>1. UNCHANGED <<jobs, operator>> /\ \A row \in exported' : row \in Rows /\ ProvenRow(row)
    BY <1>2, ExportRowOK DEF OperatorExports
  <2> QED
    BY <1>1, <2>1, OtherStep DEF TypeInv
<1>3. CASE OperatorPlans
  <2>1. UNCHANGED <<jobs, exported>> /\ operator' = [step |-> "read", rows |-> exported, selected |-> Selected]
    BY <1>3 DEF OperatorPlans
  <2>2. /\ operator'.rows = exported
        /\ operator' \in [step : {"none", "read"}, rows : SUBSET Rows, selected : {operator'.selected}]
    BY <1>1, <2>1 DEF TypeInv
  <2>3. \A row \in exported' : ProvenRow(row)
    BY <1>1, <2>1 DEF EvidenceInv
  <2> QED
    BY <1>1, <2>1, <2>2, <2>3, OtherStep DEF TypeInv
<1>4. CASE OperatorCreates
  <2>0. PICK rows \in SUBSET Wanted :
          jobs' = [r \in R |-> [c \in Commits |->
                     IF <<r, c>> \in {<<row[1], row[2]>> : row \in rows} THEN "queued" ELSE jobs[r][c]]]
    BY <1>4 DEF OperatorCreates
  <2> DEFINE new == {<<row[1], row[2]>> : row \in rows}
  <2>1. /\ UNCHANGED exported /\ operator' = Idle
        /\ jobs' = [r \in R |-> [c \in Commits |-> IF <<r, c>> \in new THEN "queued" ELSE jobs[r][c]]]
    BY <1>4, <2>0 DEF OperatorCreates
  <2>2. \A r \in R, c \in Commits : <<r, c>> \in new => cache[r][c] = "passed"
    <3>1. ASSUME NEW row \in rows
          PROVE  row[1] \in R /\ row[2] \in Commits /\ cache[row[1]][row[2]] = "passed"
      BY <1>1, WorkOrderOK DEF EvidenceInv, TypeInv, Wanted
    <3> QED
      BY <3>1
  <2> HIDE DEF new
  <2>3. /\ jobs' \in [R -> [Commits -> JobStatuses]]
        /\ \A r \in R, c \in Commits : jobs'[r][c] # "none" => jobs[r][c] # "none" \/ cache[r][c] = "passed"
    BY <1>1, <2>1, <2>2 DEF TypeInv, JobStatuses
  <2>4. /\ operator' \in [step : {"none", "read"}, rows : SUBSET Rows, selected : {operator'.selected}]
        /\ operator'.rows = {}
    BY <2>1 DEF Idle
  <2>5. \A row \in exported' : ProvenRow(row)
    BY <1>1, <2>1 DEF EvidenceInv
  <2> QED
    BY <1>1, <2>1, <2>3, <2>4, <2>5, OtherStep DEF TypeInv
<1> QED
  BY <1>2, <1>3, <1>4

LEMMA SupplyStep ==
  ASSUME SupplyInv, [Next]_vars
  PROVE  SupplyInv'
<1>1. CASE UNCHANGED vars
  BY <1>1 DEF vars, world, store, SupplyInv, TypeInv, ProbeInv, EvidenceInv, ProvenRow, JobsProven
<1>2. CASE Next
  BY <1>2, LoopKeeps, RestKeeps, BatchKeeps, EnvironmentKeeps, DiscoverKeeps, ProbeKeeps, DeferKeeps,
     UpsertKeeps, ExportKeeps, BeginPlanKeeps, MakeDirectoryKeeps, WriteJobKeeps, OperatorKeeps
     DEF Next, AgentSteps
<1> QED
  BY <1>1, <1>2

THEOREM SupplyHolds == Spec => []SupplyInv
BY InitSupply, SupplyStep, PTL DEF Spec

\* No job is made of a commit whose native build was not proven on this host
\* (_native_evidence, make_work_order): by the agent or by the operator, with an export
\* that is older than the candidates, and whatever happens to the repository meanwhile.
THEOREM JobsAreProven == Spec => []JobsProven
BY SupplyHolds, PTL DEF SupplyInv, EvidenceInv

-----------------------------------------------------------------------------
(* One campaign for each repository.                                       *)

Functional(rows) == \A x, y \in rows : x[1] = y[1] => x = y

\* The order of creation names the jobs that have a job.json; an export has one row for
\* a repository.
OrderInv ==
  /\ created \in [R -> Orders]
  /\ \A r \in R, c \in Commits : Ordered(r, c) <=> \E i \in DOMAIN created[r] : created[r][i] = c
  /\ Functional(exported) /\ Functional(operator.rows)

InCampaign(r, c) == jobs[r][c] \in {"running", "ended"}

OneEach == \A r \in R : \A c, d \in Commits : InCampaign(r, c) /\ InCampaign(r, d) => c = d

\* What a look at the queue leaves waiting has no second job beside it.
AloneInQueue ==
  \A r \in R : \A c, d \in Commits :
    jobs[r][c] = "queued" /\ (jobs[r][d] = "queued" \/ InCampaign(r, d)) => c = d

CampaignInv == OrderInv /\ (raced \/ (OneEach /\ (agent.pc = "capacity" => AloneInQueue)))

LEMMA AppendOrder ==
  ASSUME NEW order \in Orders, NEW c \in Commits, \A i \in DOMAIN order : order[i] # c
  PROVE  /\ Append(order, c) \in Orders
         /\ \A d : (\E i \in DOMAIN Append(order, c) : Append(order, c)[i] = d)
                     <=> d = c \/ \E i \in DOMAIN order : order[i] = d
<1> DEFINE longer == Append(order, c)
<1>1. /\ order \in Seq(Commits) /\ Len(order) \in 0..2 /\ DOMAIN order = 1..Len(order)
      /\ \A i, j \in 1..Len(order) : order[i] = order[j] => i = j
  <2>1. /\ order \in Seq(Commits) /\ Len(order) <= 2
        /\ \A i, j \in 1..Len(order) : order[i] = order[j] => i = j
    BY DEF Orders
  <2>2. Len(order) \in Nat /\ DOMAIN order = 1..Len(order)
    BY <2>1, LenProperties
  <2> QED
    BY <2>1, <2>2
<1>2. /\ longer \in Seq(Commits) /\ Len(longer) = Len(order) + 1 /\ longer[Len(order) + 1] = c
      /\ \A i \in 1..Len(order) : longer[i] = order[i]
  BY <1>1, AppendProperties
<1>3. DOMAIN longer = 1..Len(order) + 1
  BY <1>1, <1>2
<1>4. Len(order) # 2
  <2>1. ASSUME Len(order) = 2
        PROVE  FALSE
    <3>1. order[1] \in Commits /\ order[2] \in Commits
      BY <1>1, <2>1, ElementOfSeq
    <3>2. order[1] # order[2]
      BY <1>1, <2>1
    <3> QED
      BY <1>1, <2>1, <3>1, <3>2 DEF Commits
  <2> QED
    BY <2>1
<1> HIDE DEF longer
<1>5. longer \in Orders
  BY <1>1, <1>2, <1>3, <1>4 DEF Orders
<1>6. \A d : (\E i \in DOMAIN longer : longer[i] = d) <=> d = c \/ \E i \in DOMAIN order : order[i] = d
  BY <1>1, <1>2, <1>3
<1> QED
  BY <1>5, <1>6 DEF longer

\* Of the jobs of a repository the one that stays is one that was started, if there is one.
LEMMA KeptIsStarted ==
  ASSUME TypeInv, OrderInv, NEW r \in R, NEW c \in Commits, Started(r, c)
  PROVE  Started(r, Kept(r))
<1> DEFINE started == {i \in DOMAIN created[r] : Started(r, created[r][i])}
<1>1. started \subseteq {1, 2} /\ started # {}
  BY DEF OrderInv, Orders, Started
<1>2. Min(started) \in started
  <2>1. \E i \in started : \A j \in started : i <= j
    BY <1>1
  <2> QED
    BY <2>1 DEF Min
<1> QED
  BY <1>1, <1>2 DEF Kept

LEMMA LookLeavesOne ==
  ASSUME TypeInv, OrderInv, Look
  PROVE  /\ \A r \in R, c \in Commits :
              /\ InCampaign(r, c)' <=> InCampaign(r, c)
              /\ Ordered(r, c)' <=> Ordered(r, c)
         /\ AloneInQueue'
<1>1. \A r \in R, c \in Commits :
        jobs'[r][c] = IF jobs[r][c] = "queued" /\ Kept(r) # c THEN "duplicate" ELSE jobs[r][c]
  BY DEF Look, Quarantined
<1>2. ASSUME NEW r \in R, NEW c \in Commits, NEW d \in Commits,
             jobs'[r][c] = "queued", jobs'[r][d] = "queued" \/ InCampaign(r, d)'
      PROVE  c = d
  <2>1. Kept(r) = c /\ jobs[r][c] = "queued"
    BY <1>1, <1>2
  <2>2. CASE jobs'[r][d] = "queued"
    BY <1>1, <2>1, <2>2
  <2>3. CASE InCampaign(r, d)'
    <3>1. Started(r, d)
      BY <1>1, <2>3 DEF InCampaign, Started, Ordered
    <3> QED
      BY <2>1, <3>1, KeptIsStarted DEF Started
  <2> QED
    BY <1>2, <2>2, <2>3
<1> QED
  BY <1>1, <1>2 DEF InCampaign, Ordered, AloneInQueue

LEMMA InitCampaign ==
  ASSUME Init
  PROVE  CampaignInv
BY DEF Init, CampaignInv, OrderInv, Orders, Ordered, Functional, OneEach, InCampaign, Idle, Fresh, AloneInQueue

\* A step that makes no job and starts none.
LEMMA QuietCampaign ==
  ASSUME CampaignInv, UNCHANGED <<created, raced>>, Functional(exported'), Functional(operator'.rows),
         \A r \in R, c \in Commits : /\ InCampaign(r, c)' <=> InCampaign(r, c)
                                     /\ Ordered(r, c)' <=> Ordered(r, c),
         agent'.pc = "capacity" => AloneInQueue' \/ (agent.pc = "capacity" /\ UNCHANGED jobs)
  PROVE  CampaignInv'
<1>1. OrderInv'
  BY DEF CampaignInv, OrderInv
<1>2. OneEach => OneEach'
  BY DEF OneEach
<1>3. UNCHANGED jobs /\ AloneInQueue => AloneInQueue'
  BY DEF AloneInQueue, InCampaign
<1> QED
  BY <1>1, <1>2, <1>3 DEF CampaignInv

LEMMA LookCampaign ==
  ASSUME SupplyInv, CampaignInv, Loop \/ AfterRefresh \/ EndPlan
  PROVE  CampaignInv'
<1>1. Look /\ UNCHANGED <<created, raced, exported, operator>> /\ TypeInv /\ OrderInv
  BY DEF Loop, AfterRefresh, EndPlan, SupplyInv, CampaignInv
<1>2. Functional(exported') /\ Functional(operator'.rows)
  BY <1>1 DEF OrderInv
<1> QED
  BY <1>1, <1>2, LookLeavesOne, QuietCampaign

\* The agent begins a phase with Rest, and goes on with what it has.
LEMMA PhaseOfRest ==
  ASSUME TypeInv, NEW pc \in Pcs, NEW phase, NEW searched, NEW latest, NEW failed
  PROVE  [Rest(pc) EXCEPT !.phase = phase, !.searched = searched, !.latest = latest, !.failed = failed].pc = pc
<1>1. AgentOK(Rest(pc)) /\ Rest(pc).pc = pc
  BY RestOK
<1>2. ASSUME NEW a, AgentOK(a)
      PROVE  [a EXCEPT !.phase = phase, !.searched = searched, !.latest = latest, !.failed = failed].pc = a.pc
  BY <1>2 DEF AgentOK
<1> QED
  BY <1>1, <1>2

LEMMA UnmovedCampaign ==
  ASSUME SupplyInv, CampaignInv,
         \/ WaitEnds \/ Restart \/ ScanFails \/ Stop \/ Crash \/ DirectoryInTheWay
         \/ IntervalPasses \/ WorldChanges \/ Cool \/ Discover \/ Probe \/ DeferProbes \/ Upsert
         \/ Export \/ BeginPlan \/ OperatorExports \/ OperatorPlans
  PROVE  CampaignInv'
<1>1. TypeInv /\ AgentOK(agent) /\ OrderInv /\ {"loop", "off", "look", "export"} \subseteq Pcs
  BY DEF SupplyInv, CampaignInv, TypeInv, Pcs
<1>2. UNCHANGED <<jobs, created, raced>>
  BY DEF WaitEnds, Restart, ScanFails, Stop, Crash, DirectoryInTheWay, IntervalPasses, WorldChanges,
     Cool, Discover, Probe, DeferProbes, Upsert, Export, BeginPlan, OperatorExports, OperatorPlans
<1>3. Functional(exported')
  <2>1. \A repos : Functional({ExportRow(r) : r \in repos})
    BY DEF Functional, ExportRow
  <2>2. exported' = exported \/ \E repos : exported' = {ExportRow(r) : r \in repos}
    <3>1. CASE Export
      BY <3>1 DEF Export
    <3>2. CASE OperatorExports
      BY <3>2 DEF OperatorExports
    <3>3. CASE ~Export /\ ~OperatorExports
      BY <3>3 DEF WaitEnds, Restart, ScanFails, Stop, Crash, DirectoryInTheWay, IntervalPasses, WorldChanges,
         Cool, Discover, Probe, DeferProbes, Upsert, BeginPlan, OperatorPlans
    <3> QED
      BY <3>1, <3>2, <3>3
  <2> QED
    BY <1>1, <2>1, <2>2 DEF OrderInv
<1>4. Functional(operator'.rows)
  <2>1. CASE OperatorPlans
    BY <1>1, <2>1 DEF OperatorPlans, OrderInv
  <2>2. CASE ~OperatorPlans
    <3>1. operator' = operator
      BY <2>2 DEF WaitEnds, Restart, ScanFails, Stop, Crash, DirectoryInTheWay, IntervalPasses, WorldChanges,
         Cool, Discover, Probe, DeferProbes, Upsert, Export, BeginPlan, OperatorExports
    <3> QED
      BY <1>1, <3>1 DEF OrderInv
  <2> QED
    BY <2>1, <2>2
<1>5. agent'.pc = "capacity" => agent.pc = "capacity"
  <2>1. CASE WaitEnds \/ Restart \/ ScanFails \/ Stop \/ Crash \/ DirectoryInTheWay
    <3>1. \/ \E pc \in {"loop", "off", "look"} : agent' = Rest(pc)
          \/ agent' = [Rest("loop") EXCEPT !.batched = FALSE]
      BY <2>1 DEF WaitEnds, Restart, ScanFails, Stop, Crash, DirectoryInTheWay, Keep
    <3>2. \E pc \in {"loop", "off", "look"} : Starts(agent', pc)
      BY <1>1, <3>1, RestStarts, BatchedStarts
    <3> QED
      BY <3>2 DEF Starts
  <2>2. CASE IntervalPasses \/ WorldChanges \/ Cool \/ OperatorExports \/ OperatorPlans
    BY <2>2 DEF IntervalPasses, WorldChanges, Cool, OperatorExports, OperatorPlans
  <2>3. CASE Discover
    BY <1>1, <2>3 DEF Discover, Keep, AgentOK
  <2>4. CASE Probe
    BY <1>1, <2>4 DEF Probe, Keep, At, AgentOK
  <2>5. CASE DeferProbes
    BY <1>1, <2>5 DEF DeferProbes, Keep, At, AgentOK
  <2>6. CASE Upsert
    <3>1. PICK chosen, reviewed :
            agent' = [Rest("export") EXCEPT !.phase = agent.phase, !.searched = agent.searched,
                        !.latest = {r \in R : agent.found[r] # -1}, !.failed = agent.failed \/ reviewed # chosen]
      BY <2>6 DEF Upsert, Keep
    <3> QED
      BY <1>1, <3>1, PhaseOfRest
  <2>7. CASE Export \/ BeginPlan
    BY <1>1, <2>7 DEF Export, BeginPlan, Keep, AgentOK
  <2> QED
    BY <2>1, <2>2, <2>3, <2>4, <2>5, <2>6, <2>7
<1>6. \A r \in R, c \in Commits : (InCampaign(r, c)' <=> InCampaign(r, c)) /\ (Ordered(r, c)' <=> Ordered(r, c))
  BY <1>2 DEF InCampaign, Ordered
<1> QED
  BY <1>2, <1>3, <1>4, <1>5, <1>6, QuietCampaign

LEMMA StartCampaign ==
  ASSUME SupplyInv, CampaignInv, StartBatch
  PROVE  CampaignInv'
<1>1. /\ UNCHANGED <<created, raced, exported, operator>> /\ agent' = Rest("batch")
      /\ TypeInv /\ OrderInv /\ agent.pc = "capacity"
  BY DEF StartBatch, Keep, At, SupplyInv, CampaignInv
<1>2. PICK batch \in SUBSET Runnable \ {{}} :
        jobs' = [r \in R |-> [c \in Commits |-> IF <<r, c>> \in batch THEN "running" ELSE jobs[r][c]]]
  BY DEF StartBatch
<1>3. \A r \in R, c \in Commits :
        /\ <<r, c>> \in batch => jobs[r][c] \in {"queued", "running"}
        /\ jobs'[r][c] = IF <<r, c>> \in batch THEN "running" ELSE jobs[r][c]
  BY <1>2 DEF Runnable
<1>4. OrderInv'
  <2>1. \A r \in R, c \in Commits : Ordered(r, c)' <=> Ordered(r, c)
    BY <1>3 DEF Ordered
  <2> QED
    BY <1>1, <2>1 DEF OrderInv
<1>5. OneEach /\ AloneInQueue => OneEach'
  <2>1. \A r \in R, c \in Commits : InCampaign(r, c)' => jobs[r][c] = "queued" \/ InCampaign(r, c)
    BY <1>3 DEF InCampaign
  <2> QED
    BY <2>1 DEF OneEach, AloneInQueue
<1>6. agent'.pc # "capacity"
  BY <1>1, RestOK DEF Pcs
<1> QED
  BY <1>1, <1>4, <1>5, <1>6 DEF CampaignInv

LEMMA EndCampaigns ==
  ASSUME SupplyInv, CampaignInv, BatchEnds
  PROVE  CampaignInv'
<1>1. UNCHANGED <<created, raced, exported, operator>> /\ TypeInv /\ OrderInv
  BY DEF BatchEnds, SupplyInv, CampaignInv
<1>2. \A r \in R, c \in Commits : jobs'[r][c] = IF jobs[r][c] = "running" THEN "ended" ELSE jobs[r][c]
  BY DEF BatchEnds
<1>3. \A r \in R, c \in Commits : (InCampaign(r, c)' <=> InCampaign(r, c)) /\ (Ordered(r, c)' <=> Ordered(r, c))
  BY <1>2 DEF InCampaign, Ordered
<1>4. agent'.pc # "capacity"
  <2>1. agent' = [Rest("loop") EXCEPT !.batched = TRUE] \/ agent' = Rest("off")
    BY DEF BatchEnds, Keep
  <2>2. \E pc \in {"loop", "off"} : Starts(agent', pc)
    BY <1>1, <2>1, RestStarts, BatchedStarts DEF Pcs
  <2> QED
    BY <2>2 DEF Starts
<1>5. Functional(exported') /\ Functional(operator'.rows)
  BY <1>1 DEF OrderInv
<1> QED
  BY <1>1, <1>3, <1>4, <1>5, QuietCampaign

LEMMA DirectoryCampaign ==
  ASSUME SupplyInv, CampaignInv, MakeDirectory
  PROVE  CampaignInv'
<1>1. /\ UNCHANGED <<created, raced, exported, operator>> /\ TypeInv /\ AgentOK(agent) /\ OrderInv
      /\ agent.pc = "row"
  BY DEF MakeDirectory, At, SupplyInv, CampaignInv, TypeInv
<1>2. PICK row \in agent.todo :
        \/ agent' = [agent EXCEPT !.todo = @ \ {row}] /\ UNCHANGED jobs
        \/ /\ jobs[row[1]][row[2]] = "none"
           /\ jobs' = [jobs EXCEPT ![row[1]][row[2]] = "dir"]
           /\ agent' = [agent EXCEPT !.todo = @ \ {row}, !.row = row]
  BY DEF MakeDirectory, Keep
<1>3. row[1] \in R /\ row[2] \in Commits
  BY <1>1, <1>2 DEF AgentOK, Rows
<1>4. agent'.pc # "capacity"
  BY <1>1, <1>2 DEF AgentOK
<1>5. \A r \in R, c \in Commits : (InCampaign(r, c)' <=> InCampaign(r, c)) /\ (Ordered(r, c)' <=> Ordered(r, c))
  BY <1>1, <1>2, <1>3 DEF InCampaign, Ordered, TypeInv
<1>6. Functional(exported') /\ Functional(operator'.rows)
  BY <1>1 DEF OrderInv
<1> QED
  BY <1>1, <1>4, <1>5, <1>6, QuietCampaign

LEMMA WriteCampaign ==
  ASSUME SupplyInv, CampaignInv, WriteJob
  PROVE  CampaignInv'
<1>1. /\ UNCHANGED <<raced, exported, operator>> /\ TypeInv /\ AgentOK(agent) /\ OrderInv
      /\ agent.pc = "row" /\ agent.row \in Rows
  BY DEF WriteJob, At, SupplyInv, CampaignInv, TypeInv, AgentOK
<1>2. PICK r \in R, c \in Commits : r = agent.row[1] /\ c = agent.row[2]
  BY <1>1 DEF Rows
<1>3. agent'.pc # "capacity"
  BY <1>1 DEF WriteJob, Keep, AgentOK
<1>4. CASE /\ jobs[r][c] = "order"
           /\ jobs' = [jobs EXCEPT ![r][c] = "queued"] /\ UNCHANGED created
  <2>1. \A x \in R, y \in Commits : (InCampaign(x, y)' <=> InCampaign(x, y)) /\ (Ordered(x, y)' <=> Ordered(x, y))
    BY <1>1, <1>4 DEF InCampaign, Ordered, TypeInv
  <2>2. Functional(exported') /\ Functional(operator'.rows)
    BY <1>1 DEF OrderInv
  <2> QED
    BY <1>1, <1>3, <1>4, <2>1, <2>2, QuietCampaign
<1>5. CASE /\ jobs[r][c] = "dir"
           /\ jobs' = [jobs EXCEPT ![r][c] = "order"]
           /\ created' = [created EXCEPT ![r] = Append(@, c)]
  <2>1. \A x \in R, y \in Commits :
          /\ InCampaign(x, y)' <=> InCampaign(x, y)
          /\ Ordered(x, y)' <=> Ordered(x, y) \/ (x = r /\ y = c)
    BY <1>1, <1>5 DEF InCampaign, Ordered, TypeInv
  <2>2. ~Ordered(r, c)
    BY <1>5 DEF Ordered
  <2>3. /\ Append(created[r], c) \in Orders
        /\ \A d : (\E i \in DOMAIN Append(created[r], c) : Append(created[r], c)[i] = d)
                    <=> d = c \/ \E i \in DOMAIN created[r] : created[r][i] = d
    BY <1>1, <2>2, AppendOrder DEF OrderInv
  <2>4. OrderInv'
    <3>1. created' \in [R -> Orders]
      BY <1>1, <1>5, <2>3 DEF OrderInv
    <3>2. \A x \in R : created'[x] = IF x = r THEN Append(created[r], c) ELSE created[x]
      BY <1>1, <1>5 DEF OrderInv
    <3>3. \A x \in R, y \in Commits : Ordered(x, y)' <=> \E i \in DOMAIN created'[x] : created'[x][i] = y
      <4>1. ASSUME NEW x \in R, NEW y \in Commits, x # r
            PROVE  Ordered(x, y)' <=> \E i \in DOMAIN created'[x] : created'[x][i] = y
        BY <1>1, <2>1, <3>2, <4>1 DEF OrderInv
      <4>2. ASSUME NEW y \in Commits
            PROVE  Ordered(r, y)' <=> \E i \in DOMAIN created'[r] : created'[r][i] = y
        BY <1>1, <2>1, <2>3, <3>2 DEF OrderInv
      <4> QED
        BY <4>1, <4>2
    <3> QED
      BY <1>1, <3>1, <3>3 DEF OrderInv
  <2>5. OneEach => OneEach'
    BY <2>1 DEF OneEach
  <2> QED
    BY <1>1, <1>3, <2>4, <2>5 DEF CampaignInv
<1> QED
  BY <1>2, <1>4, <1>5 DEF WriteJob

LEMMA CreateCampaign ==
  ASSUME SupplyInv, CampaignInv, OperatorCreates
  PROVE  CampaignInv'
<1>0. PICK rows \in SUBSET Wanted :
        LET made       == {<<row[1], row[2]>> : row \in rows}
            commits(r) == {c \in Commits : <<r, c>> \in made}
        IN  /\ jobs' = [r \in R |-> [c \in Commits |-> IF <<r, c>> \in made THEN "queued" ELSE jobs[r][c]]]
            /\ created' = [r \in R |-> IF commits(r) = {} THEN created[r]
                                       ELSE Append(created[r], CHOOSE c \in commits(r) : TRUE)]
            /\ raced' = (raced \/ (At("capacity") /\ \E row \in made : row[1] \in Selected))
  BY DEF OperatorCreates
<1> DEFINE new == {<<row[1], row[2]>> : row \in rows}
           commits(r) == {c \in Commits : <<r, c>> \in new}
<1>1. /\ operator' = Idle /\ UNCHANGED <<exported, agent>>
      /\ jobs' = [r \in R |-> [c \in Commits |-> IF <<r, c>> \in new THEN "queued" ELSE jobs[r][c]]]
      /\ created' = [r \in R |-> IF commits(r) = {} THEN created[r]
                                 ELSE Append(created[r], CHOOSE c \in commits(r) : TRUE)]
      /\ raced' = (raced \/ (agent.pc = "capacity" /\ \E row \in new : row[1] \in Selected))
  BY <1>0 DEF OperatorCreates, At
<1>2. TypeInv /\ OrderInv
  BY DEF SupplyInv, CampaignInv
<1>3. \A r \in R, c \in Commits : <<r, c>> \in new => jobs[r][c] \in {"none", "dir"} /\ jobs[r][c] # "dir"
  BY DEF Wanted, InTheWay, Passes, Ordered
<1>4. \A r \in R : \A c, d \in Commits : <<r, c>> \in new /\ <<r, d>> \in new => c = d
  BY <1>2 DEF OrderInv, Functional, Wanted
<1>5. ASSUME NEW r \in R, NEW c \in Commits, <<r, c>> \in new
      PROVE  commits(r) = {c} /\ (CHOOSE d \in commits(r) : TRUE) = c
  BY <1>4, <1>5
<1> HIDE DEF new
<1>6. \A r \in R, c \in Commits :
        /\ jobs'[r][c] = IF <<r, c>> \in new THEN "queued" ELSE jobs[r][c]
        /\ InCampaign(r, c)' <=> InCampaign(r, c)
        /\ Ordered(r, c)' <=> Ordered(r, c) \/ <<r, c>> \in new
        /\ <<r, c>> \in new => ~Ordered(r, c)
  BY <1>1, <1>3 DEF InCampaign, Ordered
<1>7. ASSUME NEW r \in R
      PROVE  /\ created'[r] \in Orders
             /\ \A d \in Commits : (\E i \in DOMAIN created'[r] : created'[r][i] = d) <=> Ordered(r, d)'
  <2>1. CASE commits(r) = {}
    BY <1>1, <1>2, <1>6, <2>1 DEF OrderInv
  <2>2. ASSUME NEW c \in Commits, <<r, c>> \in new
        PROVE  /\ created'[r] \in Orders
               /\ \A d \in Commits : (\E i \in DOMAIN created'[r] : created'[r][i] = d) <=> Ordered(r, d)'
    <3>1. created'[r] = Append(created[r], c)
      BY <1>1, <1>5, <2>2
    <3>2. \A i \in DOMAIN created[r] : created[r][i] # c
      BY <1>2, <1>6, <2>2 DEF OrderInv
    <3>3. /\ Append(created[r], c) \in Orders
          /\ \A d : (\E i \in DOMAIN Append(created[r], c) : Append(created[r], c)[i] = d)
                      <=> d = c \/ \E i \in DOMAIN created[r] : created[r][i] = d
      BY <1>2, <3>2, AppendOrder DEF OrderInv
    <3>4. \A d \in Commits : <<r, d>> \in new <=> d = c
      BY <1>4, <2>2
    <3> QED
      BY <1>2, <1>6, <3>1, <3>3, <3>4 DEF OrderInv
  <2> QED
    BY <2>1, <2>2
<1>8. OrderInv'
  <2>1. created' \in [R -> Orders]
    BY <1>1, <1>7
  <2>2. Functional(exported') /\ Functional(operator'.rows)
    BY <1>1, <1>2 DEF OrderInv, Functional, Idle
  <2> QED
    BY <1>7, <2>1, <2>2 DEF OrderInv
<1>9. OneEach => OneEach'
  BY <1>6 DEF OneEach
<1>10. ASSUME ~raced', agent.pc = "capacity", AloneInQueue
       PROVE  AloneInQueue'
  <2>1. \A r \in R, c \in Commits : <<r, c>> \in new => \A d \in Commits : ~Ordered(r, d)
    BY <1>1, <1>10 DEF Selected
  <2>2. \A r \in R, c \in Commits : jobs[r][c] = "queued" \/ InCampaign(r, c) => Ordered(r, c)
    BY DEF Ordered, InCampaign
  <2>3. ASSUME NEW r \in R, NEW c \in Commits, NEW d \in Commits,
               jobs'[r][c] = "queued", jobs'[r][d] = "queued" \/ InCampaign(r, d)'
        PROVE  c = d
    <3>1. CASE <<r, c>> \in new
      BY <1>4, <1>6, <2>1, <2>2, <2>3, <3>1
    <3>2. CASE <<r, d>> \in new
      BY <1>4, <1>6, <2>1, <2>2, <2>3, <3>2
    <3>3. CASE <<r, c>> \notin new /\ <<r, d>> \notin new
      BY <1>6, <1>10, <2>3, <3>3 DEF AloneInQueue
    <3> QED
      BY <3>1, <3>2, <3>3
  <2> QED
    BY <2>3 DEF AloneInQueue
<1> QED
  BY <1>1, <1>8, <1>9, <1>10 DEF CampaignInv

LEMMA CampaignStep ==
  ASSUME SupplyInv, CampaignInv, [Next]_vars
  PROVE  CampaignInv'
<1>1. CASE UNCHANGED vars
  BY <1>1 DEF vars, CampaignInv, OrderInv, Ordered, OneEach, InCampaign, AloneInQueue
<1>2. CASE Next
  BY <1>2, LookCampaign, UnmovedCampaign, StartCampaign, EndCampaigns, DirectoryCampaign, WriteCampaign,
     CreateCampaign DEF Next, AgentSteps
<1> QED
  BY <1>1, <1>2

THEOREM CampaignHolds == Spec => []CampaignInv
BY InitCampaign, CampaignStep, SupplyHolds, PTL DEF Spec

LEMMA OneAtMost ==
  ASSUME OneEach, NEW r \in R
  PROVE  Cardinality({c \in Commits : InCampaign(r, c)}) <= 1
<1> DEFINE S == {c \in Commits : InCampaign(r, c)}
<1>1. CASE S = {}
  BY <1>1, FS_EmptySet
<1>2. CASE S # {}
  <2>1. PICK c \in S : TRUE
    BY <1>2
  <2>2. S = {c}
    BY <2>1 DEF OneEach
  <2> QED
    BY <2>2, FS_Singleton
<1> QED
  BY <1>1, <1>2

\* A repository is fuzzed in one job: of the jobs that two planners made for its commits
\* one is taken (quarantine_previously_selected_jobs, central_agent.py), unless the second one is
\* made between the look at the queue and the start of the batch.
THEOREM OneCampaignHolds == Spec => []OneCampaign
<1>1. CampaignInv => OneCampaign
  BY OneAtMost DEF CampaignInv, OneCampaign, InCampaign
<1> QED
  BY <1>1, CampaignHolds, PTL
=============================================================================
