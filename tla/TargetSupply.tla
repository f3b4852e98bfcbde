----------------------------- MODULE TargetSupply -----------------------------
(* Where jobs come from: the central agent's main loop (central_agent.py:511),  *)
(* its discovery of candidates (engine.py, storage.py), the probe of their      *)
(* native build, the export file and the planning of jobs (pipeline.py), on an  *)
(* aarch64 host with the AI review enabled.  The policy, the architecture and   *)
(* the static score of a repository are attributes of it; so are the AI's       *)
(* verdict, which is cached, and whether its build works.                       *)
EXTENDS Integers, FiniteSets, Sequences, SequencesExt

CONSTANTS
  Repos,         \* repositories, in the order of size: the probe takes small ones first
  Buildable,     \* those whose build and test work on this host
  Near,          \* those whose static score is below minimum_handoff_score, within the margin
  Refused,       \* those whose score the AI's review puts below every limit
  Owner,         \* the owner of each repository on GitHub
  Family,        \* its build family: a common build directory, the bounty program or the owner
  Catalog,       \* those the policy catalog names
  Known,         \* those with a row in the database from an earlier time
  Focused,       \* idle_focused_queries, in order
  Broad,         \* the general query
  Pages,         \* max_search_pages
  Listing,       \* what a page of a query lists, in order: [query -> [page -> sequence]]
  OwnerLimit,    \* max_search_repositories_per_owner, not 0
  ReviewLimit,   \* max_candidates_per_scan: the AI reviews no more
  BacklogLimit,  \* revalidation_backlog_per_scan
  Attempts,      \* arm_preflight_max_attempts
  MaxChanges,    \* new commits, withdrawn policies and vanished repositories
  MaxFaults,     \* failed requests, reviews and probes, stops of the service and of the host
  MaxPlans       \* times the operator exports or plans

Commits == 0..1
Queries == Range(Focused) \cup {Broad}
R == Range(Repos)

ASSUME SupplyConstants ==
  /\ Repos \in Seq(STRING) /\ IsInjective(Repos) /\ Pages \in Nat \ {0}
  /\ Buildable \cup Near \cup Refused \cup Catalog \cup Known \subseteq R
  /\ DOMAIN Owner = R /\ DOMAIN Family = R /\ OwnerLimit \in Nat \ {0} /\ ReviewLimit \in Nat
  /\ Listing \in [Queries -> [1..Pages -> Seq(R)]]
  /\ \A q \in Queries, p \in 1..Pages :
       /\ IsInjective(Listing[q][p])
       /\ Listing[q][p] = <<>> => \A later \in p..Pages : Listing[q][later] = <<>>

VARIABLES
  head,      \* the current commit of each repository
  paid,      \* the repositories with a current paid policy
  gone,      \* the repositories GitHub does not know any more
  db,        \* candidates: the row of each repository, by last_scan_id at the end
  seen,      \* the rows in the order of last_seen_at
  cache,     \* arm_preflight_cache: the result for each commit
  cooling,   \* the failed results younger than their retry time
  cursor,    \* search_cursors: the next page of each query
  exported,  \* verified-candidates.jsonl
  jobs,      \* the job directory of each repository and commit
  created,   \* the commits of a repository in the order in which jobs were created
  due,       \* the discovery interval has passed
  agent,     \* the agent's process
  operator,  \* the operator's `plan' command
  raced,     \* it made jobs between the agent's look at the queue and the batch
  used       \* the counters of the bounds

vars == <<head, paid, gone, db, seen, cache, cooling, cursor, exported, jobs, created,
          due, agent, operator, raced, used>>
world == <<head, paid, gone>>
store == <<db, seen, cache, cooling, cursor>>

NoRow == [commit |-> 0, verified |-> FALSE, score |-> "none", evidence |-> -1]
Idle == [step |-> "none", rows |-> {}, selected |-> {}]

\* What the agent's process holds in memory.  found: the commit at which a repository
\* was evaluated in this scan; verified, proven: what was found out about it; queue:
\* the repositories to be probed, leads: the first of each build family, begun: one
\* was; latest: the rows whose last_scan_id is this scan's; failed: the scan counted
\* errors; todo, row, selected: planning.
Fresh == [pc |-> "loop", phase |-> "none", found |-> [r \in R |-> -1], verified |-> {},
          proven |-> {}, queue |-> {}, leads |-> {}, begun |-> FALSE, latest |-> {},
          searched |-> {}, failed |-> FALSE, todo |-> {}, row |-> <<>>, selected |-> {},
          batched |-> FALSE, focus |-> 1]

\* Between phases only what the run remembers is left.
Rest(pc) == [Fresh EXCEPT !.pc = pc, !.batched = agent.batched, !.focus = agent.focus]

Init ==
  /\ head = [r \in R |-> 0] /\ paid = R /\ gone = {}
  /\ db = [r \in R |-> IF r \in Known THEN [NoRow EXCEPT !.verified = TRUE, !.score = "near"]
                                     ELSE NoRow]
  /\ seen = SelectSeq(Repos, LAMBDA r : r \in Known)
  /\ cache = [r \in R |-> [c \in Commits |-> "none"]] /\ cooling = {}
  /\ cursor = [q \in Queries |-> 1]
  /\ exported = {}
  /\ jobs = [r \in R |-> [c \in Commits |-> "none"]] /\ created = [r \in R |-> <<>>]
  /\ due = TRUE /\ agent = Fresh /\ operator = Idle /\ raced = FALSE
  /\ used = [changes |-> 0, faults |-> 0, plans |-> 0]

Use(counter, bound) == used[counter] < bound /\ used' = [used EXCEPT ![counter] = @ + 1]
At(pc) == agent.pc = pc
Keep(new) == agent' = new

----------------------------------------------------------------------------
(* Jobs on disk *)

\* A directory first, job.json then, state.json last: "dir", "order", "queued".
Ordered(r, c) == jobs[r][c] \notin {"none", "dir"}
Selected == {r \in R : \E c \in Commits : Ordered(r, c)}

\* A job whose state cannot be read counts as started.
Started(r, c) == Ordered(r, c) /\ jobs[r][c] \notin {"queued", "duplicate"}

Runnable == {job \in R \X Commits : jobs[job[1]][job[2]] \in {"queued", "running"}}

\* Slip: the job of the newest plan stays, whatever was started.
KeptLast(r) == Last(created[r])

\* quarantine_previously_selected_jobs: of the jobs of one repository the first one
\* that was started stays, or else the first one; the untouched others are finished.
Kept(r) ==
  LET started == {i \in DOMAIN created[r] : Started(r, created[r][i])}
  IN  created[r][IF started = {} THEN 1 ELSE Min(started)]

Quarantined ==
  [r \in R |-> [c \in Commits |->
     IF jobs[r][c] = "queued" /\ Kept(r) # c THEN "duplicate" ELSE jobs[r][c]]]

\* Every look at the queue (_runnable_jobs) starts with that.
Waiting == {job \in R \X Commits : Quarantined[job[1]][job[2]] \in {"queued", "running"}}
Look == jobs' = Quarantined

----------------------------------------------------------------------------
(* The main loop *)

\* Without a job to run, or after a batch, candidates are refreshed if that is due, and
\* otherwise those of the last export are planned once more.
Loop ==
  /\ At("loop") /\ Look
  /\ Keep(IF Waiting # {} /\ ~agent.batched THEN Rest("capacity")
          ELSE IF ~due THEN [Rest("plan") EXCEPT !.phase = "refresh"]
          ELSE [Rest("discover") EXCEPT !.phase = IF Waiting = {} THEN "seed" ELSE "active"])
  /\ UNCHANGED <<world, store, exported, created, due, operator, raced, used>>

\* The queue is looked at again: there is a batch to run, or the agent waits.
AfterRefresh ==
  /\ At("look") /\ Look
  /\ Keep(Rest(IF Waiting # {} THEN "capacity" ELSE "wait"))
  /\ UNCHANGED <<world, store, exported, created, due, operator, raced, used>>

\* The wait ends after the monitor's interval.
WaitEnds ==
  /\ At("wait") /\ Keep(Rest("loop"))
  /\ UNCHANGED <<world, store, exported, jobs, created, due, operator, raced, used>>

\* The worker takes what it finds in the queue, up to the capacity that was chosen.
StartBatch ==
  /\ At("capacity") /\ Keep(Rest("batch"))
  /\ \E batch \in SUBSET Runnable \ {{}} :
       jobs' = [r \in R |-> [c \in Commits |->
                  IF <<r, c>> \in batch THEN "running" ELSE jobs[r][c]]]
  /\ UNCHANGED <<world, store, exported, created, due, operator, raced, used>>

\* The jobs of the batch come to rest, complete or not; the review may ask for a pause.
BatchEnds ==
  /\ At("batch")
  /\ due' \in {due, TRUE}
  /\ jobs' = [r \in R |-> [c \in Commits |->
                IF jobs[r][c] = "running" THEN "ended" ELSE jobs[r][c]]]
  /\ \/ Keep([Rest("loop") EXCEPT !.batched = TRUE])
     \/ Keep(Rest("off"))
  /\ UNCHANGED <<world, store, exported, created, operator, raced, used>>

----------------------------------------------------------------------------
(* One scan of the engine *)

\* recent_failed_arm_preflight_repositories, and everything that was selected once.
CoolingRepos == {r \in R : \E c \in Commits : <<r, c>> \in cooling}
Excluded == Selected \cup CoolingRepos \cup agent.searched

\* Slip: the best known candidates first.
BacklogByScore ==
  LET known == SelectSeq(Repos, LAMBDA r : db[r].verified /\ db[r].score \in {"enough", "near"}
                                          /\ r \notin Excluded)
  IN  Range(SubSeq(known, 1, Min({BacklogLimit, Len(known)})))

\* revalidation_backlog_names: those not seen for the longest time.
Backlog ==
  LET stale == SelectSeq(seen, LAMBDA r : db[r].verified /\ db[r].score \in {"enough", "near"}
                                          /\ r \notin Excluded)
  IN  Range(SubSeq(stale, 1, Min({BacklogLimit, Len(stale)})))

Query == IF agent.phase = "focused" THEN Focused[agent.focus] ELSE Broad
Searches == agent.phase # "seed"
Seeds == IF agent.phase \in {"seed", "active"} THEN Backlog \cup Catalog ELSE {}

\* Slip: no limit to the pages.
NextPageWithoutLimit(page) == IF Listing[Query][page] = <<>> THEN 1 ELSE page + 1

\* advance_search_page: the page after, or the first one after an empty or the last page.
NextPage(page) == IF Listing[Query][page] = <<>> \/ page = Pages THEN 1 ELSE page + 1

\* Of those that a page lists and the scan does not have yet, an owner has OwnerLimit; the
\* others are dropped, although the cursor goes on.
FirstOfOwners(page, had) ==
  LET new == SelectSeq(page, LAMBDA r : r \notin had)
  IN  {new[i] : i \in {i \in DOMAIN new :
                         Cardinality({j \in 1..(i - 1) : Owner[new[j]] = Owner[new[i]]}) < OwnerLimit}}

\* The repositories the backlog, the catalog and one page of the query give; those
\* that vanished are not among them.
Found ==
  ((Seeds \ Excluded) \ gone)
    \cup (IF Searches THEN FirstOfOwners(Listing[Query][cursor[Query]], Seeds \cup Excluded \cup gone)
                     ELSE {})

\* The order in which probes are made: a repository that passed at another commit,
\* one that has never failed, one of the catalog, a small one.
Passed(r) == \E c \in Commits : cache[r][c] = "passed"
HasFailed(r) == \E c \in Commits : cache[r][c] \in {"build", "transient"}
Before(a, b) ==
  LET key(r) == (IF Passed(r) THEN 0 ELSE 4) + (IF HasFailed(r) THEN 2 ELSE 0)
                + (IF r \in Catalog THEN 0 ELSE 1)
  IN  key(a) < key(b)
        \/ (key(a) = key(b) /\ SelectInSeq(Repos, LAMBDA r : r = a)
                               < SelectInSeq(Repos, LAMBDA r : r = b))

\* Slip: a result of any commit is taken.
ProvenAtAnyCommit(r) == Passed(r)

\* A result counts for its commit alone.
Proven(r) == cache[r][head[r]] = "passed"

\* A failed result waits for its retry time, at whatever commit a build failed.
Probed(found) ==
  {r \in found \cap paid : ~Proven(r) /\ <<r, head[r]>> \notin cooling
     /\ ~(\E c \in Commits \ {head[r]} : <<r, c>> \in cooling /\ cache[r][c] = "build")}

\* The first of each build family, and the order of the probes: these before the others.
Leads(repos) == {r \in repos : ~\E b \in repos : Family[b] = Family[r] /\ Before(b, r)}
ProbedBefore(a, b, leads) ==
  IF a \in leads <=> b \in leads THEN Before(a, b) ELSE a \in leads

\* The first of them, in that order.
FirstAttempts(repos) ==
  {r \in repos :
     Cardinality({b \in repos \ {r} : ProbedBefore(b, r, Leads(repos))}) < Attempts}

\* The policy and the code of each are read at its current commit; one that cannot be
\* read is an error of the scan.
Discover ==
  /\ At("discover") /\ operator = Idle
  /\ cursor' = IF Searches THEN [cursor EXCEPT ![Query] = NextPage(@)] ELSE cursor
  /\ \E lost \in SUBSET Found :
       /\ IF lost = {} THEN UNCHANGED used ELSE Use("faults", MaxFaults)
       /\ LET found == Found \ lost
          IN  Keep([agent EXCEPT !.pc = "probe",
                      !.found = [r \in R |-> IF r \in found THEN head[r] ELSE -1],
                      !.verified = found \cap paid,
                      !.proven = {r \in found \cap paid : Proven(r)},
                      !.queue = FirstAttempts(Probed(found)), !.leads = Leads(Probed(found)),
                      !.searched = @ \cup Found, !.failed = lost # {}, !.latest = {},
                      !.focus = IF agent.phase = "focused" THEN (@ % Len(Focused)) + 1 ELSE @])
  /\ UNCHANGED <<world, db, seen, cache, cooling, exported, jobs, created, due, operator, raced>>

\* What the build and the test in the container come to; either may end for want of
\* time, of network or of a builder.
Results(r) == {"transient", IF r \in Buildable THEN "passed" ELSE "build"}

\* One probe of the pinned commit; its result is stored at once.
Probe ==
  /\ At("probe")
  /\ \E r \in agent.queue : \E result \in Results(r) :
       LET c == agent.found[r]
       IN  /\ \A other \in agent.queue \ {r} : ProbedBefore(r, other, agent.leads)
           /\ IF result = "transient" THEN Use("faults", MaxFaults) ELSE UNCHANGED used
           /\ cache' = [cache EXCEPT ![r][c] = result]
           /\ cooling' = IF result = "passed" THEN cooling \ {<<r, c>>} ELSE cooling \cup {<<r, c>>}
           /\ Keep([agent EXCEPT !.queue = @ \ {r}, !.begun = TRUE,
                      !.proven = IF result = "passed" THEN @ \cup {r} ELSE @])
  /\ UNCHANGED <<world, db, seen, cursor, exported, jobs, created, due, operator, raced>>

\* The time for probes of an idle agent is over; the first one always has its time.
DeferProbes ==
  /\ At("probe") /\ agent.phase # "active" /\ agent.begun /\ agent.queue # {}
  /\ Keep([agent EXCEPT !.queue = {}])
  /\ UNCHANGED <<world, store, exported, jobs, created, due, operator, raced, used>>

\* The AI reviews the best of what is verified and proven, by their static score, up to the
\* limit, which counts those whose verdict is cached as well.
Chosen ==
  {chosen \in SUBSET agent.proven :
     Cardinality(chosen) = Min({ReviewLimit, Cardinality(agent.proven)})}

\* The static score of the others stands, and that of those for which the review fails.
Score(r, reviewed) ==
  IF r \in reviewed
    THEN (IF r \in Refused THEN "low" ELSE "enough")
    ELSE (IF r \in Near THEN "near" ELSE "enough")

\* Every candidate is written with the scan's number.
Row(r, reviewed) ==
  [commit |-> agent.found[r], verified |-> r \in agent.verified,
   score |-> Score(r, reviewed),
   evidence |-> IF r \in agent.proven THEN agent.found[r] ELSE -1]

\* Those that were found are the last to be seen.
SeenLast(found) ==
  SelectSeq(seen, LAMBDA r : r \notin found) \o SelectSeq(Repos, LAMBDA r : r \in found)

Upsert ==
  /\ At("probe") /\ agent.queue = {}
  /\ \E chosen \in Chosen : \E reviewed \in SUBSET chosen :
       LET found == {r \in R : agent.found[r] # -1}
       IN  /\ IF reviewed = chosen THEN UNCHANGED used ELSE Use("faults", MaxFaults)
           /\ db' = [r \in R |-> IF r \in found THEN Row(r, reviewed) ELSE db[r]]
           /\ seen' = SeenLast(found)
           /\ Keep([Rest("export") EXCEPT !.phase = agent.phase, !.searched = agent.searched,
                      !.latest = found, !.failed = agent.failed \/ reviewed # chosen])
  /\ UNCHANGED <<world, cache, cooling, cursor, exported, jobs, created, due, operator, raced>>

----------------------------------------------------------------------------
(* The export and the planning of jobs *)

\* A row that is exported: verified, with a build proven by some evidence, scored enough.
Eligible(r) == db[r].verified /\ db[r].evidence # -1 /\ db[r].score = "enough"
ExportRow(r) == <<r, db[r].commit, db[r].evidence>>

\* The rows of this scan; those of the export before stay if the scan had errors and
\* nothing to offer.
Export ==
  /\ At("export")
  /\ LET rows == {ExportRow(r) : r \in {x \in agent.latest : Eligible(x)}}
     IN  exported' = IF agent.failed /\ rows = {} THEN exported ELSE rows
  /\ Keep([agent EXCEPT !.pc = "plan", !.latest = {}, !.failed = FALSE])
  /\ UNCHANGED <<world, store, jobs, created, due, operator, raced, used>>

\* prepare_jobs reads the rows and the repositories that were selected before.
BeginPlan ==
  /\ At("plan")
  /\ Keep([agent EXCEPT !.pc = "row", !.todo = exported, !.selected = Selected])
  /\ UNCHANGED <<world, store, exported, jobs, created, due, operator, raced, used>>

\* make_work_order refuses a row whose evidence is not of its own commit.
WorkOrder(row) == row[3] = row[2]

\* Such a row, one whose job exists, and one whose repository was selected before are
\* passed over.
Passes(row, selected) == ~WorkOrder(row) \/ Ordered(row[1], row[2]) \/ row[1] \in selected

\* The job's directory is made; one that is there already is an error.
MakeDirectory ==
  /\ At("row") /\ agent.row = <<>> /\ agent.todo # {}
  /\ LET row == CHOOSE x \in agent.todo : TRUE
     IN  IF Passes(row, agent.selected)
           THEN Keep([agent EXCEPT !.todo = @ \ {row}]) /\ UNCHANGED jobs
           ELSE /\ jobs[row[1]][row[2]] = "none"
                /\ jobs' = [jobs EXCEPT ![row[1]][row[2]] = "dir"]
                /\ Keep([agent EXCEPT !.todo = @ \ {row}, !.row = row])
  /\ UNCHANGED <<world, store, exported, created, due, operator, raced, used>>

\* job.json, then state.json.
WriteJob ==
  /\ At("row") /\ agent.row # <<>>
  /\ LET r == agent.row[1]
         c == agent.row[2]
     IN  \/ /\ jobs[r][c] = "dir"
            /\ jobs' = [jobs EXCEPT ![r][c] = "order"]
            /\ created' = [created EXCEPT ![r] = Append(@, c)]
            /\ UNCHANGED agent
         \/ /\ jobs[r][c] = "order"
            /\ jobs' = [jobs EXCEPT ![r][c] = "queued"] /\ UNCHANGED created
            /\ Keep([agent EXCEPT !.row = <<>>, !.selected = @ \cup {r}])
  /\ UNCHANGED <<world, store, exported, due, operator, raced, used>>

\* The directory is there without a job.json: in a refresh the agent fails, in a
\* discovery the error is recorded and the next one is due early.
DirectoryInTheWay ==
  /\ At("row") /\ agent.row = <<>>
  /\ \E row \in agent.todo : ~Passes(row, agent.selected) /\ jobs[row[1]][row[2]] = "dir"
                             /\ row = (CHOOSE x \in agent.todo : TRUE)
  /\ Keep(Rest(IF agent.phase = "refresh" THEN "off" ELSE "look"))
  /\ due' = (due /\ agent.phase = "refresh")
  /\ UNCHANGED <<world, store, exported, jobs, created, operator, raced, used>>

\* The plan of a phase is made: with nothing to run the next, wider search follows.
EndPlan ==
  /\ At("row") /\ agent.row = <<>> /\ agent.todo = {} /\ Look
  /\ LET next == CASE agent.phase = "seed" -> "focused"
                   [] agent.phase = "focused" -> "broad"
                   [] OTHER -> "none"
     IN  IF Waiting = {} /\ next # "none"
           THEN /\ Keep([Rest("discover") EXCEPT !.phase = next, !.searched = agent.searched])
                /\ UNCHANGED due
           ELSE /\ Keep(Rest("look"))
                /\ due' = (due /\ agent.phase = "refresh")
  /\ UNCHANGED <<world, store, exported, created, operator, raced, used>>

----------------------------------------------------------------------------
(* Failures, the operator and the world *)

\* A search that fails ends the scan, and the discovery with it: it is tried again early.
ScanFails ==
  /\ At("discover") /\ operator = Idle /\ Searches /\ Use("faults", MaxFaults)
  /\ Keep(Rest("look")) /\ due' = FALSE
  /\ UNCHANGED <<world, store, exported, jobs, created, operator, raced>>

\* A stop is seen between two steps of a scan, in a wait, before and in a batch.
Stop ==
  /\ agent.pc \in {"discover", "probe", "wait", "capacity", "batch"} /\ Use("faults", MaxFaults)
  /\ Keep(Rest("off"))
  /\ UNCHANGED <<world, store, exported, jobs, created, due, operator, raced>>

\* The host dies: what is on disk stays.
Crash ==
  /\ agent.pc \in {"export", "plan", "row"} /\ Use("faults", MaxFaults)
  /\ Keep(Rest("off"))
  /\ UNCHANGED <<world, store, exported, jobs, created, due, operator, raced>>

\* The service is started again.
Restart ==
  /\ At("off") /\ Keep([Rest("loop") EXCEPT !.batched = FALSE])
  /\ UNCHANGED <<world, store, exported, jobs, created, due, operator, raced, used>>

IntervalPasses ==
  /\ agent.pc \in {"loop", "wait"} /\ ~due /\ due' = TRUE
  /\ UNCHANGED <<world, store, exported, jobs, created, agent, operator, raced, used>>

\* `fuzz-target-scout export': every eligible row, of whatever scan.
OperatorExports ==
  /\ At("loop") /\ Use("plans", MaxPlans)
  /\ exported' = {ExportRow(r) : r \in {x \in R : Eligible(x)}}
  /\ UNCHANGED <<world, store, jobs, created, due, agent, operator, raced>>

\* `fuzz-pipeline plan' runs without a lock: it reads, and later it makes the jobs, both
\* where the agent's next step reads or writes jobs or the export.  It takes less time than
\* a scan.
NearJobs == agent.pc \in {"loop", "look", "capacity", "export", "plan", "row", "discover"}

OperatorPlans ==
  /\ operator = Idle /\ exported # {} /\ NearJobs /\ Use("plans", MaxPlans)
  /\ operator' = [step |-> "read", rows |-> exported, selected |-> Selected]
  /\ UNCHANGED <<world, store, exported, jobs, created, due, agent, raced>>

\* A directory that is there without a job.json ends it, with the rows after it.
InTheWay(row) == ~Passes(row, operator.selected) /\ jobs[row[1]][row[2]] = "dir"
Wanted == {row \in operator.rows : ~Passes(row, operator.selected) /\ ~InTheWay(row)}

OperatorCreates ==
  /\ operator # Idle /\ NearJobs /\ operator' = Idle
  /\ \E rows \in IF \E row \in operator.rows : InTheWay(row) THEN SUBSET Wanted ELSE {Wanted} :
     LET new == {<<row[1], row[2]>> : row \in rows}
         commits(r) == {c \in Commits : <<r, c>> \in new}          \* at most one
     IN  /\ jobs' = [r \in R |-> [c \in Commits |->
                        IF <<r, c>> \in new THEN "queued" ELSE jobs[r][c]]]
         /\ created' = [r \in R |-> IF commits(r) = {} THEN created[r]
                                    ELSE Append(created[r], CHOOSE c \in commits(r) : TRUE)]
         /\ raced' = (raced \/ (At("capacity") /\ \E row \in new : row[1] \in Selected))
  /\ UNCHANGED <<world, store, exported, due, agent, used>>

\* The world changes where a scan reads it.
NewCommit(r) == head[r] = 0 /\ head' = [head EXCEPT ![r] = 1] /\ UNCHANGED <<paid, gone>>
PolicyWithdrawn(r) == r \in paid /\ paid' = paid \ {r} /\ UNCHANGED <<head, gone>>
Vanishes(r) == r \notin gone /\ gone' = gone \cup {r} /\ UNCHANGED <<head, paid>>

WorldChanges ==
  /\ At("discover") /\ Use("changes", MaxChanges)
  /\ \E r \in R : NewCommit(r) \/ PolicyWithdrawn(r) \/ Vanishes(r)
  /\ UNCHANGED <<store, exported, jobs, created, due, agent, operator, raced>>

\* A failed result reaches its retry time (24 hours, a transient one 15 minutes).
Cool ==
  /\ At("discover")
  /\ \E result \in cooling : cooling' = cooling \ {result}
  /\ UNCHANGED <<world, db, seen, cache, cursor, exported, jobs, created, due, agent,
                 operator, raced, used>>

AgentSteps ==
  \/ Loop \/ AfterRefresh \/ WaitEnds \/ StartBatch \/ BatchEnds
  \/ Discover \/ Probe \/ DeferProbes \/ Upsert
  \/ Export \/ BeginPlan \/ MakeDirectory \/ WriteJob \/ DirectoryInTheWay \/ EndPlan

Next ==
  \/ AgentSteps \/ Restart \/ IntervalPasses
  \/ ScanFails \/ Stop \/ Crash \/ WorldChanges \/ Cool
  \/ OperatorExports \/ OperatorPlans \/ OperatorCreates

\* The agent goes on, the service is started again, and waiting takes time.
Spec ==
  /\ Init /\ [][Next]_vars
  /\ WF_vars(AgentSteps \/ Restart) /\ WF_vars(OperatorCreates) /\ SF_vars(IntervalPasses)

----------------------------------------------------------------------------
(* Properties *)

Pcs == {"loop", "look", "wait", "capacity", "batch", "discover", "probe", "export", "plan",
        "row", "off"}

\* The durable files hold what the steps may write: rows that were seen and no others,
\* pages within the limit, one order of creation for the jobs that have a job.json.
TypeOK ==
  /\ agent.pc \in Pcs
  /\ cursor \in [Queries -> 1..Pages]
  /\ \A r \in R : /\ r \in Range(seen) <=> db[r].score # "none"
                  /\ Range(created[r]) = {c \in Commits : Ordered(r, c)}
  /\ IsInjective(seen) /\ cooling \subseteq {x \in R \X Commits : cache[x[1]][x[2]] # "none"}

\* No job is made for a commit whose native build was not proven on this host, whatever
\* the repository's other commits, earlier scans, kept exports and the operator's
\* exports say.
JobsProven == \A r \in R, c \in Commits : jobs[r][c] # "none" => cache[r][c] = "passed"

\* A repository is fuzzed in one job only, also when two planners make two jobs for
\* two commits of it, unless the second one appears between the agent's look at the
\* queue and the start of the batch.
OneCampaign ==
  raced \/ \A r \in R : Cardinality({c \in Commits : jobs[r][c] \in {"running", "ended"}}) <= 1

HalfMade == \E r \in R, c \in Commits : jobs[r][c] = "dir"

\* A search can give it, behind fewer of its owner's than the limit that have no job.
Listed ==
  Catalog \cup UNION {FirstOfOwners(Listing[q][p], Selected \cup gone) : q \in Queries, p \in 1..Pages}

\* Its static score is enough, or the refused ones leave a place in the review.
GetsReview(r) == r \notin Near \/ Cardinality(Refused \ gone) < ReviewLimit

Fine(r) == r \in paid \ gone /\ (r \in Listed \/ (r \in Known /\ gone = {})) /\ GetsReview(r)

\* A repository with a paid policy and a build that works is selected in the end, if the
\* catalog or a search shows it or an earlier scan knew it: exclusions, search cursors,
\* the rotation of the backlog and the order of the probes do not pass it over, and it has
\* its turn when what stood before it on its page got a job.  The two limits of a scan do
\* pass repositories over: one that stays behind others of its owner, on every page, and
\* one below the handoff score where refused ones take every review.  So do a probe that
\* failed for want of time, a vanished repository before it in the backlog, and a job
\* directory that a crash left half made.
Supplied ==
  \A r \in Buildable \ Refused :
    <>[]Fine(r) /\ []<>~HalfMade => <>(r \in Selected \/ HasFailed(r))

\* The same of a crash between the making of a job's directory and of its job.json: `plan'
\* makes the directories of jobs idempotently (FUZZ_PIPELINE.md:152).
SupplyRecovers ==
  \A r \in Buildable \ Refused : <>[]Fine(r) => <>(r \in Selected \/ HasFailed(r))

=============================================================================
