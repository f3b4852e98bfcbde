--------------------------- MODULE JobTargetsProofs ----------------------------
(* No more fuzz targets are tried than may be, and a rejected one is not fuzzed    *)
(* unaided: the theorems about the targets of JobPipeline, for every fault, crash, *)
(* recovery and command.                                                           *)
(*                                                                                 *)
(* Four files hold a target or speak of one: the build manifest, the smoke test,   *)
(* the review, and the state with the targets rejected so far.  Handlers, monitor  *)
(* and operator write them one after the other, so that the invariant has to hold  *)
(* between any two writes.  The first part of the module, on sequences of writes,  *)
(* serves any such invariant, and any that holds when all writes are made.         *)
EXTENDS JobEvidenceProofs, FiniteSetTheorems

-----------------------------------------------------------------------------
(* Sequences of writes, on all files.                                      *)

\* The files, the time recorded at most, and whether the operator is writing.
Snapshots == [disk : GoodDisks, spent : 0..Budget, own : BOOLEAN]

Snapshot == [disk |-> disk, spent |-> spent, own |-> mode = "operator"]

\* What a write makes of them.
Store(v, w) ==
  [disk  |-> [v.disk EXCEPT ![w.file] = w.value],
   spent |-> IF w.file = "progress" /\ (v.own \/ w.value.completed > v.spent)
             THEN w.value.completed ELSE v.spent,
   own   |-> v.own]

\* Writes to be made, and the snapshot they start from.
From(ws, v) == [writes |-> ws, snapshot |-> v]
Paths == [writes : Seq(Writes), snapshot : Snapshots]

\* The writes that may be made one after the other so that every snapshot on the way is in
\* G and the last one in S as well: the largest relation closed under making the first.
Lasts(G, S, R) ==
  \A ws \in Seq(Writes), v \in Snapshots :
    From(ws, v) \in R =>
      /\ v \in G
      /\ ws = <<>> => v \in S
      /\ ws # <<>> => From(Tail(ws), Store(v, Head(ws))) \in R
Safe(G, S) == UNION {R \in SUBSET Paths : Lasts(G, S, R)}

\* Writes that lead from a snapshot to one of some others, from which more may be made.
Reaches(G, S, ws, x, Y) ==
  \A e \in Seq(Writes) :
    (\A y \in Y : From(e, y) \in Safe(G, S)) => From(ws \o e, x) \in Safe(G, S)

LEMMA FromPaths ==
  /\ \A ws \in Seq(Writes), v \in Snapshots : From(ws, v) \in Paths
BY DEF From, Paths

LEMMA OncePath ==
  \A ws, ws2 \in Seq(Writes), v, v2 \in Snapshots : From(ws, v) = From(ws2, v2) => ws = ws2 /\ v = v2
BY DEF From

LEMMA PathsFrom ==
  ASSUME NEW ws, NEW v, From(ws, v) \in Paths
  PROVE  ws \in Seq(Writes) /\ v \in Snapshots
BY DEF From, Paths

LEMMA SafeLasts ==
  ASSUME NEW G, NEW S
  PROVE  Safe(G, S) \subseteq Paths /\ Lasts(G, S, Safe(G, S))
BY DEF Safe, Lasts

LEMMA SafeUp ==
  ASSUME NEW G, NEW S, NEW R, R \subseteq Paths, Lasts(G, S, R)
  PROVE  R \subseteq Safe(G, S)
BY DEF Safe

LEMMA SafeNow ==
  ASSUME NEW G, NEW S, NEW ws, NEW v, From(ws, v) \in Safe(G, S)
  PROVE  /\ ws \in Seq(Writes) /\ v \in Snapshots /\ v \in G
         /\ ws = <<>> => v \in S
         /\ ws # <<>> => From(Tail(ws), Store(v, Head(ws))) \in Safe(G, S)
BY SafeLasts, PathsFrom DEF Lasts

LEMMA NothingSafe ==
  ASSUME NEW G, NEW S, NEW v \in Snapshots, v \in G, v \in S
  PROVE  From(<<>>, v) \in Safe(G, S)
<1> DEFINE R == {From(<<>>, v)}
<1>1. <<>> \in Seq(Writes)
  BY EmptySeq
<1>2. Lasts(G, S, R)
  BY <1>1, OncePath DEF Lasts
<1>3. R \subseteq Paths
  BY <1>1, FromPaths
<1>4. R \subseteq Safe(G, S)
  BY <1>2, <1>3, SafeUp
<1> QED
  BY <1>4

\* What a write does to each file.
LEMMA StoreReads ==
  ASSUME NEW v \in Snapshots, NEW w \in Writes
  PROVE  /\ Store(v, w) \in Snapshots /\ Store(v, w).own = v.own
         /\ Store(v, w).disk.state = IF w.file = "state" THEN w.value ELSE v.disk.state
         /\ Store(v, w).disk.integration = IF w.file = "integration" THEN w.value ELSE v.disk.integration
         /\ Store(v, w).disk.manifest = IF w.file = "manifest" THEN w.value ELSE v.disk.manifest
         /\ Store(v, w).disk.smoke = IF w.file = "smoke" THEN w.value ELSE v.disk.smoke
         /\ Store(v, w).disk.probe = IF w.file = "probe" THEN w.value ELSE v.disk.probe
         /\ Store(v, w).disk.quartet = IF w.file = "quartet" THEN w.value ELSE v.disk.quartet
         /\ Store(v, w).disk.run = IF w.file = "run" THEN w.value ELSE v.disk.run
         /\ Store(v, w).disk.progress = IF w.file = "progress" THEN w.value ELSE v.disk.progress
         /\ Store(v, w).disk.afl = IF w.file = "afl" THEN w.value ELSE v.disk.afl
         /\ Store(v, w).disk.crash_files = IF w.file = "crash_files" THEN w.value ELSE v.disk.crash_files
         /\ Store(v, w).disk.summary = IF w.file = "summary" THEN w.value ELSE v.disk.summary
         /\ Store(v, w).disk.report = IF w.file = "report" THEN w.value ELSE v.disk.report
         /\ w.file # "progress" => Store(v, w).spent = v.spent
<1>1. v.disk \in GoodDisks /\ v.disk \in Disk /\ v.spent \in 0..Budget /\ v.own \in BOOLEAN
  BY DEF Snapshots, GoodDisks
<1>2. [v.disk EXCEPT ![w.file] = w.value] \in GoodDisks
  BY <1>1, WriteType
<1>3. w.file = "progress" => w.value \in Progresses
  BY DEF Writes, FileWrites
<1>4. Store(v, w) \in Snapshots /\ Store(v, w).own = v.own
      /\ (w.file # "progress" => Store(v, w).spent = v.spent)
  BY <1>1, <1>2, <1>3 DEF Store, Snapshots, Progresses
<1>5. Store(v, w).disk = [v.disk EXCEPT ![w.file] = w.value]
  BY DEF Store
<1> QED
  BY <1>1, <1>4, <1>5 DEF Disk

\* One write more at the front.
LEMMA SafeFirst ==
  ASSUME NEW G, NEW S, NEW v \in Snapshots, v \in G, NEW w \in Writes, NEW ws \in Seq(Writes),
         From(ws, Store(v, w)) \in Safe(G, S)
  PROVE  From(<<w>> \o ws, v) \in Safe(G, S)
<1> DEFINE R == Safe(G, S) \cup {From(<<w>> \o ws, v)}
<1>1. /\ <<w>> \o ws \in Seq(Writes) /\ <<w>> \o ws # <<>>
      /\ Head(<<w>> \o ws) = w /\ Tail(<<w>> \o ws) = ws
  <2>1. /\ <<w>> \in Seq(Writes) /\ <<w>> # <<>> /\ Head(<<w>>) = w /\ Tail(<<w>>) = <<>>
    BY Single
  <2>2. <<w>> \o ws # <<>> /\ Head(<<w>> \o ws) = w /\ Tail(<<w>> \o ws) = <<>> \o ws
    BY <2>1, FirstAndRest
  <2> QED
    BY <2>1, <2>2, ConcatProperties, ConcatEmptySeq
<1> HIDE DEF R
<1>2. R \subseteq Paths
  BY <1>1, FromPaths, SafeLasts DEF R
<1>3. Lasts(G, S, R)
  <2> SUFFICES ASSUME NEW us \in Seq(Writes), NEW u \in Snapshots, From(us, u) \in R
               PROVE  /\ u \in G
                      /\ us = <<>> => u \in S
                      /\ us # <<>> => From(Tail(us), Store(u, Head(us))) \in R
    BY DEF Lasts
  <2>1. CASE From(us, u) \in Safe(G, S)
    BY <2>1, SafeNow DEF R
  <2>2. CASE us = <<w>> \o ws /\ u = v
    BY <2>2, <1>1 DEF R
  <2>3. From(us, u) = From(<<w>> \o ws, v) => us = <<w>> \o ws /\ u = v
    BY <1>1, OncePath
  <2> QED
    BY <2>1, <2>2, <2>3 DEF R
<1> QED
  BY <1>2, <1>3, SafeUp DEF R

LEMMA ReachOne ==
  ASSUME NEW G, NEW S, NEW x \in Snapshots, x \in G, NEW w \in Writes, NEW Y, Store(x, w) \in Y
  PROVE  Reaches(G, S, <<w>>, x, Y) /\ <<w>> \in Seq(Writes)
BY SafeFirst, Single DEF Reaches

LEMMA ReachNone ==
  ASSUME NEW G, NEW S, NEW Y, NEW x \in Y
  PROVE  Reaches(G, S, <<>>, x, Y) /\ <<>> \in Seq(Writes)
BY ConcatEmptySeq, EmptySeq DEF Reaches

LEMMA ReachOn ==
  ASSUME NEW G, NEW S, NEW a \in Seq(Writes), NEW b \in Seq(Writes), NEW x, NEW Y, NEW Z,
         Reaches(G, S, a, x, Y), \A y \in Y : Reaches(G, S, b, y, Z)
  PROVE  Reaches(G, S, a \o b, x, Z) /\ a \o b \in Seq(Writes)
<1> SUFFICES ASSUME NEW e \in Seq(Writes), \A z \in Z : From(e, z) \in Safe(G, S)
             PROVE  From((a \o b) \o e, x) \in Safe(G, S)
  BY ConcatProperties DEF Reaches
<1>1. \A y \in Y : From(b \o e, y) \in Safe(G, S)
  BY DEF Reaches
<1>2. b \o e \in Seq(Writes)
  BY ConcatProperties
<1>3. From(a \o (b \o e), x) \in Safe(G, S)
  BY <1>1, <1>2 DEF Reaches
<1>4. (a \o b) \o e = a \o (b \o e)
  BY ConcatAssociative
<1> QED
  BY <1>3, <1>4

\* Where writes lead to snapshots that may be the last, they may be made.
LEMMA ReachSafe ==
  ASSUME NEW G, NEW S, NEW ws \in Seq(Writes), NEW x, NEW Y \in SUBSET Snapshots,
         Y \subseteq G, Y \subseteq S, Reaches(G, S, ws, x, Y)
  PROVE  From(ws, x) \in Safe(G, S)
<1>1. \A y \in Y : From(<<>>, y) \in Safe(G, S)
  BY NothingSafe
<1>2. From(ws \o <<>>, x) \in Safe(G, S)
  BY <1>1, EmptySeq DEF Reaches
<1> QED
  BY <1>2, ConcatEmptySeq

\* Such writes and a last one.
LEMMA ReachLast ==
  ASSUME NEW G, NEW S, NEW ws \in Seq(Writes), NEW x, NEW Y \in SUBSET Snapshots, Y \subseteq G,
         Reaches(G, S, ws, x, Y), NEW w \in Writes,
         \A y \in Y : Store(y, w) \in Snapshots \cap G \cap S
  PROVE  From(ws \o <<w>>, x) \in Safe(G, S) /\ ws \o <<w>> \in Seq(Writes)
<1> DEFINE Z == {Store(y, w) : y \in Y}
<1>1. Z \in SUBSET Snapshots /\ Z \subseteq G /\ Z \subseteq S
  OBVIOUS
<1>2. \A y \in Y : Store(y, w) \in Z /\ y \in Snapshots /\ y \in G
  OBVIOUS
<1> HIDE DEF Z
<1>3. \A y \in Y : Reaches(G, S, <<w>>, y, Z)
  BY <1>2, ReachOne
<1>4. <<w>> \in Seq(Writes)
  BY Single
<1>5. Reaches(G, S, ws \o <<w>>, x, Z) /\ ws \o <<w>> \in Seq(Writes)
  BY <1>3, <1>4, ReachOn
<1> QED
  BY <1>1, <1>5, ReachSafe

\* Writes that stay within a set of snapshots, in any order, and others after them.
LEMMA StaysSafe ==
  ASSUME NEW G, NEW S, NEW X \in SUBSET Snapshots, X \subseteq G, NEW Q \in SUBSET Writes,
         NEW e \in Seq(Writes),
         \A v \in X : From(e, v) \in Safe(G, S),
         \A v \in X, w \in Q : Store(v, w) \in X
  PROVE  \A u \in Seq(Q), v \in X : u \in Seq(Writes) /\ From(u \o e, v) \in Safe(G, S)
<1> DEFINE P == {From(u \o e, v) : u \in Seq(Q), v \in X}
           R == Safe(G, S) \cup P
<1>1. \A u \in Seq(Q) : u \in Seq(Writes) /\ u \o e \in Seq(Writes)
  BY SeqMonotonic, ConcatProperties
<1>2. \A u \in Seq(Q), v \in X : From(u \o e, v) \in P
  OBVIOUS
<1>3. \A p \in P : \E u \in Seq(Q), v \in X : p = From(u \o e, v)
  OBVIOUS
<1> HIDE DEF P
<1>4. R \subseteq Paths
  <2>1. \A u \in Seq(Q), v \in X : From(u \o e, v) \in Paths
    BY <1>1, FromPaths
  <2> QED
    BY <2>1, <1>3, SafeLasts
<1>5. ASSUME NEW u \in Seq(Q), NEW v \in X
      PROVE  /\ v \in G
             /\ u \o e = <<>> => v \in S
             /\ u \o e # <<>> => From(Tail(u \o e), Store(v, Head(u \o e))) \in R
  <2>1. CASE u = <<>>
    <3>1. u \o e = e
      BY <2>1, ConcatEmptySeq
    <3> QED
      BY <3>1, SafeNow
  <2>2. CASE u # <<>>
    <3>1. Head(u) \in Q /\ Tail(u) \in Seq(Q)
      BY <2>2, HeadTailProperties
    <3>2. u \o e # <<>> /\ Head(u \o e) = Head(u) /\ Tail(u \o e) = Tail(u) \o e
      BY <2>2, <1>1, FirstAndRest
    <3>3. From(Tail(u) \o e, Store(v, Head(u))) \in P
      BY <1>2, <3>1
    <3> QED
      BY <3>2, <3>3
  <2> QED
    BY <2>1, <2>2
<1>6. Lasts(G, S, R)
  <2> SUFFICES ASSUME NEW us \in Seq(Writes), NEW u \in Snapshots, From(us, u) \in R
               PROVE  /\ u \in G
                      /\ us = <<>> => u \in S
                      /\ us # <<>> => From(Tail(us), Store(u, Head(us))) \in R
    BY DEF Lasts
  <2>1. CASE From(us, u) \in Safe(G, S)
    BY <2>1, SafeNow
  <2>2. CASE From(us, u) \in P
    <3>1. PICK t \in Seq(Q), v \in X : From(us, u) = From(t \o e, v)
      BY <2>2, <1>3
    <3>2. us = t \o e /\ u = v
      BY <3>1 DEF From
    <3> QED
      BY <3>2, <1>5
  <2> QED
    BY <2>1, <2>2
<1>7. R \subseteq Safe(G, S)
  BY <1>4, <1>6, SafeUp
<1> QED
  BY <1>1, <1>2, <1>7

\* Writes that stay within a set of snapshots lead into it.
LEMMA ReachStays ==
  ASSUME NEW G, NEW S, NEW X \in SUBSET Snapshots, X \subseteq G, NEW Q \in SUBSET Writes,
         \A v \in X, w \in Q : Store(v, w) \in X
  PROVE  \A u \in Seq(Q), v \in X : u \in Seq(Writes) /\ Reaches(G, S, u, v, X)
<1>1. ASSUME NEW e \in Seq(Writes), \A v \in X : From(e, v) \in Safe(G, S)
      PROVE  \A u \in Seq(Q), v \in X : From(u \o e, v) \in Safe(G, S)
  BY <1>1, StaysSafe
<1>2. \A u \in Seq(Q) : u \in Seq(Writes)
  BY SeqMonotonic
<1> QED
  BY <1>1, <1>2 DEF Reaches

-----------------------------------------------------------------------------
(* The targets on the disk, and what fits together.                        *)

FirstTarget == SelectTarget(Targets)
Preparation == {"policy_recheck", "source_checkout", "tool_sync", "integration", "build"}

\* No harness was rewritten so far, and no recovery begun.
Unaided(s) == s.harness_generation = 0 /\ s.quartet_repair = 0 /\ s.automatic_recoveries = 0

\* The job is with the gate, or over.
Parked(s) == s.stage = "quartet_gate" \/ (s.stage = "complete" /\ s.status # "exhausted")
RepairPending(s) == s.stage = "quartet_gate" /\ s.status = "quartet_repair_pending"

\* A target that may be rejected next.
Room(S, t) == t \in S \cup {None} \/ Cardinality(S) < MaxTargets

\* No target was rejected so far, but the build has another one than the first: what the
\* gate leaves, on a rejection, until its state is saved.
OutOfTurn(s, m) == s.attempted = {} /\ m \notin {None, FirstTarget}

\* The targets of build m, smoke test k and review q may be rejected next, the first
\* target is rejected first, and a review is of the target that was tested.
Supplied(s, m, k, q) ==
  /\ Cardinality(s.attempted) <= MaxTargets
  /\ \A t \in {m, k, q.target} : Room(s.attempted, t)
  /\ s.attempted # {} => FirstTarget \in s.attempted
  /\ s.attempted = {} => {k, q.target} \subseteq {None, FirstTarget}
  /\ q # NoReview => k \in {None, q.target}
  /\ q # NoReview /\ m # None => Room(s.attempted \cup {q.target}, m)

\* While the gate moves a rejected target's files away, nothing speaks for that target.
Unfavoured(s, p, q) == Parked(s) /\ p \notin Findings /\ q.verdict # "ready"

\* The targets fit the state s of the job: i says whether there is an integration, and p is
\* the result of the probe.
Suits(s, i, m, k, p, q) ==
  /\ Supplied(s, m, k, q)
  /\ OutOfTurn(s, m) => /\ Unfavoured(s, p, q) /\ ~RepairPending(s)
                        /\ q = NoReview \/ p = None => k = None
  /\ Unaided(s) /\ k \in s.attempted => /\ Unfavoured(s, p, q)
                                        /\ m = None \/ (q # NoReview /\ p # None)
  /\ Unaided(s) /\ s.stage = "smoke" => m \notin s.attempted
  /\ Unaided(s) /\ s.stage \in Preparation => s.attempted = {}
  /\ RepairPending(s) /\ i /\ k # None => p # None

TargetsSuit(d) == Suits(d.state, d.integration, d.manifest, d.smoke, d.probe, d.quartet)

\* The snapshots in which they do, and the writes that keep to them.
Suited == {v \in Snapshots : TargetsSuit(v.disk)}
Sound(ws, v) == From(ws, v) \in Safe(Suited, Snapshots)
Brings(ws, v, Y) == Reaches(Suited, Snapshots, ws, v, Y)

\* The states that suit whatever suited before.
Follows(s, t) ==
  /\ t.attempted = s.attempted
  /\ Unaided(t) => Unaided(s)
  /\ RepairPending(t) => RepairPending(s)
  /\ Parked(s) => Parked(t)
  /\ t.stage \in Preparation => s.stage \in Preparation
  /\ t.stage = "smoke" => s.stage = "smoke"
Followers(s) == {t \in GoodStates : Follows(s, t)}

\* Writes that leave the targets alone and save states that follow s.
Calm(s) == {w \in Writes : /\ w.file \notin {"manifest", "smoke", "probe", "quartet"}
                           /\ w.file = "state" => w.value \in Followers(s)
                           /\ w.file = "integration" => ~RepairPending(s)}

LEMMA FollowerSuits ==
  ASSUME NEW s, NEW t, Follows(s, t), NEW i, NEW j, NEW m, NEW k, NEW p, NEW q,
         Suits(s, i, m, k, p, q), i = j \/ ~RepairPending(t)
  PROVE  Suits(t, j, m, k, p, q)
BY DEF Follows, Suits, Supplied, OutOfTurn, Unfavoured

LEMMA SnapshotTypes ==
  ASSUME NEW v \in Snapshots
  PROVE  /\ v.disk \in GoodDisks /\ v.disk.state \in GoodStates /\ v.disk.state \in State
         /\ v.disk.manifest \in Targets \cup {None} /\ v.disk.smoke \in Targets \cup {None}
         /\ v.disk.quartet \in Reviews /\ v.disk.state.attempted \in SUBSET Targets
BY DEF Snapshots, GoodDisks, GoodStates, Disk, State

\* Calm writes are sound, and lead to snapshots with the same targets.
SameTargets(x) ==
  {v \in Snapshots :
     /\ v.disk.manifest = x.disk.manifest /\ v.disk.smoke = x.disk.smoke
     /\ v.disk.probe = x.disk.probe /\ v.disk.quartet = x.disk.quartet
     /\ v.disk.state \in Followers(x.disk.state)
     /\ v.disk.integration = x.disk.integration \/ ~RepairPending(x.disk.state)}

LEMMA CalmBrings ==
  ASSUME NEW x \in Suited, NEW ws \in Seq(Calm(x.disk.state))
  PROVE  /\ ws \in Seq(Writes) /\ Brings(ws, x, SameTargets(x)) /\ Sound(ws, x)
         /\ SameTargets(x) \in SUBSET Snapshots /\ SameTargets(x) \subseteq Suited
<1> DEFINE X == SameTargets(x)
           Q == Calm(x.disk.state)
<1>1. x \in Snapshots /\ TargetsSuit(x.disk) /\ x.disk.state \in GoodStates
  BY SnapshotTypes DEF Suited
<1>2. X \in SUBSET Snapshots /\ x \in X
  BY <1>1 DEF SameTargets, Followers, Follows
<1>3. \A v \in X : TargetsSuit(v.disk)
  <2> SUFFICES ASSUME NEW v \in X
               PROVE  TargetsSuit(v.disk)
    OBVIOUS
  <2>1. Follows(x.disk.state, v.disk.state)
    BY DEF SameTargets, Followers
  <2>2. v.disk.integration = x.disk.integration \/ ~RepairPending(v.disk.state)
    BY DEF SameTargets, Followers, Follows
  <2>3. Suits(v.disk.state, v.disk.integration, x.disk.manifest, x.disk.smoke, x.disk.probe, x.disk.quartet)
    BY <1>1, <2>1, <2>2, FollowerSuits DEF TargetsSuit
  <2> QED
    BY <2>3 DEF TargetsSuit, SameTargets
<1>4. \A v \in X, w \in Q : Store(v, w) \in X
  BY StoreReads DEF SameTargets, Calm
<1>5. X \subseteq Suited
  BY <1>2, <1>3 DEF Suited
<1>6. Q \in SUBSET Writes
  BY DEF Calm
<1> HIDE DEF X, Q
<1>7. \A u \in Seq(Q), v \in X : u \in Seq(Writes) /\ Reaches(Suited, Snapshots, u, v, X)
  BY <1>2, <1>4, <1>5, <1>6, ReachStays
<1>8. ws \in Seq(Writes) /\ Reaches(Suited, Snapshots, ws, x, X)
  BY <1>2, <1>7 DEF Q
<1>9. From(ws, x) \in Safe(Suited, Snapshots)
  BY <1>2, <1>5, <1>8, ReachSafe
<1> QED
  BY <1>2, <1>5, <1>8, <1>9 DEF Brings, Sound, X

-----------------------------------------------------------------------------
(* The handlers that leave the targets alone.                              *)

\* The writes to come are sound from the present snapshot on.
PendingSound == Sound(pending, Snapshot)

LEMMA SoundNow ==
  ASSUME CoreInv, PendingSound
  PROVE  /\ Snapshot \in Suited /\ Snapshot \in Snapshots
         /\ Snapshot.disk = disk /\ Snapshot.disk.state = st
         /\ st \in GoodStates /\ st \in State /\ st \in Followers(st)
         /\ Suits(st, disk.integration, disk.manifest, disk.smoke, disk.probe, disk.quartet)
<1>1. Snapshot \in Suited /\ Snapshot \in Snapshots
  BY SafeNow DEF PendingSound, Sound
<1>2. Snapshot.disk = disk /\ Snapshot.disk.state = st
  BY DEF Snapshot, st
<1>3. st \in GoodStates /\ st \in State /\ st \in Followers(st)
  BY <1>1, <1>2, SnapshotTypes DEF Followers, Follows
<1>4. TargetsSuit(disk)
  BY <1>1, <1>2 DEF Suited
<1> QED
  BY <1>1, <1>2, <1>3, <1>4 DEF TargetsSuit, st

LEMMA DoSound ==
  ASSUME NEW ws, NEW e, Sound(ws, Snapshot), Do(ws, e) \/ Interrupted(ws)
  PROVE  PendingSound'
<1>1. pending' = ws /\ Snapshot' = Snapshot
  BY DEF Do, Interrupted, Snapshot, history
<1> QED
  BY <1>1 DEF PendingSound

LEMMA CalmHanded ==
  ASSUME CoreInv, PendingSound, NEW ws \in Seq(Calm(st))
  PROVE  Sound(ws, Snapshot)
BY SoundNow, CalmBrings

LEMMA DoCalm ==
  ASSUME CoreInv, PendingSound, NEW ws \in Seq(Calm(st)), NEW e, Do(ws, e) \/ Interrupted(ws)
  PROVE  PendingSound'
BY CalmHanded, DoSound

LEMMA NothingSound ==
  ASSUME CoreInv, PendingSound, NEW e, Do(<<>>, e) \/ Interrupted(<<>>)
  PROVE  PendingSound'
BY EmptySeq, DoCalm

LEMMA CalmState ==
  ASSUME NEW r, NEW s \in Followers(r)
  PROVE  W("state", s) \in Calm(r) /\ Save(s) \in Seq(Calm(r)) /\ W("state", s) \in Writes
<1>1. W("state", s) \in Writes
  BY DEF W, Writes, Followers
<1>2. W("state", s) \in Calm(r)
  BY <1>1 DEF Calm, W
<1> QED
  BY <1>1, <1>2, Single DEF Save

LEMMA CalmFiles ==
  ASSUME NEW r
  PROVE  /\ \A v \in SUBSET Targets : W("rewritten", v) \in Calm(r) /\ <<W("rewritten", v)>> \in Seq(Calm(r))
         /\ \A v \in Runs : <<W("run", v)>> \in Seq(Calm(r))
         /\ \A v \in Progresses : <<W("progress", v)>> \in Seq(Calm(r)) /\ W("progress", v) \in Calm(r)
         /\ \A v \in BOOLEAN : <<W("crash_files", v)>> \in Seq(Calm(r)) /\ <<W("report", v)>> \in Seq(Calm(r))
         /\ \A v \in {"failed", "finding", "quiet"} : <<W("afl", v)>> \in Seq(Calm(r)) /\ W("afl", v) \in Calm(r)
         /\ \A v \in {"reproduced", "other"} : <<W("summary", v)>> \in Seq(Calm(r))
         /\ \A v \in {None, "ready", "work"} : <<W("plan", v)>> \in Seq(Calm(r))
<1>1. ASSUME NEW w \in Writes,
             w.file \in {"rewritten", "run", "progress", "crash_files", "report", "afl", "summary", "plan"}
      PROVE  w \in Calm(r) /\ <<w>> \in Seq(Calm(r))
  <2>1. w \in Calm(r)
    BY <1>1 DEF Calm
  <2> QED
    BY <2>1, Single
<1>2. \A v : /\ W("run", v).file = "run" /\ W("progress", v).file = "progress" /\ W("report", v).file = "report"
             /\ W("crash_files", v).file = "crash_files" /\ W("afl", v).file = "afl"
             /\ W("summary", v).file = "summary" /\ W("rewritten", v).file = "rewritten"
             /\ W("plan", v).file = "plan"
  BY DEF W
<1>3. \A v \in {"reproduced", "other"} : W("summary", v) \in Writes
  BY DEF W, Writes, FileWrites
<1> QED
  BY <1>1, <1>2, <1>3, FileWriteIsEarly, EarlyIsWrites

\* States with the same counters and rejections, and those of the stages after the gate.
Kin(s) ==
  {t \in GoodStates : /\ t.attempted = s.attempted
                      /\ t.harness_generation = s.harness_generation
                      /\ t.quartet_repair = s.quartet_repair
                      /\ t.automatic_recoveries = s.automatic_recoveries}
Onward(s) == {t \in Kin(s) : t.stage \in {"coverage_analysis", "fuzzing", "triage", "validation", "complete"}}

LEMMA OnwardFollows ==
  ASSUME NEW s \in State, ~Parked(s), NEW t \in Onward(s)
  PROVE  t \in Followers(s)
BY DEF Onward, Kin, Followers, Follows, Unaided, RepairPending, Parked, Preparation

LEMMA KinMoves ==
  ASSUME NEW r, NEW s \in LiveStates, s \in Kin(r)
  PROVE  /\ \A stage \in Stages, status \in Statuses : status # "quartet_repair_pending" =>
              /\ To(s, stage, status) \in Kin(r)
              /\ To(s, stage, status).stage = stage /\ To(s, stage, status).status = status
         /\ \A status \in Statuses, e \in Errors : status # "quartet_repair_pending" =>
              /\ Flag(s, status, e) \in Kin(r) /\ Flag(s, status, e) \in LiveStates
              /\ Flag(s, status, e).stage = s.stage /\ Flag(s, status, e).status = status
<1>1. ASSUME NEW stage \in Stages, NEW status \in Statuses, status # "quartet_repair_pending"
      PROVE  /\ To(s, stage, status) \in Kin(r)
             /\ To(s, stage, status).stage = stage /\ To(s, stage, status).status = status
  <2>1. /\ To(s, stage, status) \in GoodStates
        /\ To(s, stage, status).stage = stage /\ To(s, stage, status).status = status
    BY <1>1, MovesOn
  <2> QED
    BY <2>1 DEF To, Kin, GoodStates, State
<1>2. ASSUME NEW status \in Statuses, NEW e \in Errors, status # "quartet_repair_pending"
      PROVE  /\ Flag(s, status, e) \in Kin(r) /\ Flag(s, status, e) \in LiveStates
             /\ Flag(s, status, e).stage = s.stage /\ Flag(s, status, e).status = status
  <2>1. /\ Flag(s, status, e) \in LiveStates /\ Flag(s, status, e) \in GoodStates
        /\ Flag(s, status, e).stage = s.stage /\ Flag(s, status, e).status = status
    BY <1>2, Flagged, LiveIsGood
  <2> QED
    BY <2>1 DEF Flag, Kin, GoodStates, State
<1> QED
  BY <1>1, <1>2

LEMMA SessionsOnward ==
  ASSUME NEW r, NEW s \in LiveStates, s \in Onward(r)
  PROVE  LET idle == [s EXCEPT !.active = NoSession]
         IN  /\ idle \in LiveStates /\ idle \in Onward(r) /\ s \in Onward(r)
             /\ Finished(s) \in Onward(r)
             /\ [Finished(s) EXCEPT !.triage_artifact = "run"] \in Onward(r)
             /\ [Finished(s) EXCEPT !.triage_artifact = "afl"] \in Onward(r)
             /\ [Finished(s) EXCEPT !.low_yield = TRUE] \in Onward(r)
             /\ To(s, "fuzzing", "ready") \in Onward(r)
             /\ To(s, "fuzzing", "harness_work_pending") \in Onward(r)
             /\ [To(s, "fuzzing", "ready") EXCEPT !.status = "afl_cmplog_pending"] \in Onward(r)
             /\ AtLeastOneFailure([Flag(s, "manual_review", "exhausted") EXCEPT !.bounded = TRUE]) \in Onward(r)
<1> DEFINE idle == [s EXCEPT !.active = NoSession]
           person == AtLeastOneFailure([Flag(s, "manual_review", "exhausted") EXCEPT !.bounded = TRUE])
<1>1. s \in Kin(r)
  BY DEF Onward
<1>2. Finished(s) \in Kin(r) /\ Finished(s).stage = "triage"
      /\ To(s, "fuzzing", "ready") \in Kin(r) /\ To(s, "fuzzing", "ready").stage = "fuzzing"
      /\ To(s, "fuzzing", "harness_work_pending") \in Onward(r)
  <2>1. ASSUME NEW stage \in {"fuzzing", "triage"},
               NEW status \in {"triage_pending", "ready", "harness_work_pending"}
        PROVE  To(s, stage, status) \in Kin(r) /\ To(s, stage, status).stage = stage
    <3>1. stage \in Stages /\ status \in Statuses /\ status # "quartet_repair_pending"
      BY FuzzingStatuses
    <3> QED
      BY <1>1, <3>1, KinMoves
  <2> QED
    BY <2>1 DEF Finished, Onward
<1>3. idle \in LiveStates /\ idle \in Onward(r)
  <2>1. idle \in LiveStates
    BY SessionStates
  <2> QED
    BY <2>1, LiveIsGood DEF Onward, Kin, GoodStates, State
<1>4. person \in Onward(r)
  <2>1. person \in GoodStates
    BY GivenToPerson
  <2>2. /\ person.stage = s.stage /\ person.attempted = s.attempted
        /\ person.harness_generation = s.harness_generation /\ person.quartet_repair = s.quartet_repair
        /\ person.automatic_recoveries = s.automatic_recoveries
    BY DEF AtLeastOneFailure, Flag, LiveStates, State
  <2> HIDE DEF person
  <2> QED
    BY <2>1, <2>2 DEF Onward, Kin
<1>5. /\ [Finished(s) EXCEPT !.triage_artifact = "run"] \in GoodStates
      /\ [Finished(s) EXCEPT !.triage_artifact = "afl"] \in GoodStates
      /\ [Finished(s) EXCEPT !.low_yield = TRUE] \in GoodStates
      /\ [To(s, "fuzzing", "ready") EXCEPT !.status = "afl_cmplog_pending"] \in GoodStates
  BY SessionStates, LiveIsGood
<1> HIDE DEF Finished, To, idle, person
<1>6. /\ Finished(s) \in Onward(r) /\ To(s, "fuzzing", "ready") \in Onward(r)
      /\ [Finished(s) EXCEPT !.triage_artifact = "run"] \in Onward(r)
      /\ [Finished(s) EXCEPT !.triage_artifact = "afl"] \in Onward(r)
      /\ [Finished(s) EXCEPT !.low_yield = TRUE] \in Onward(r)
      /\ [To(s, "fuzzing", "ready") EXCEPT !.status = "afl_cmplog_pending"] \in Onward(r)
  BY <1>2, <1>5 DEF Onward, Kin, GoodStates, State
<1> QED
  BY <1>2, <1>3, <1>4, <1>6 DEF idle, person

LEMMA OnwardWrites ==
  ASSUME CoreInv, ~Parked(st), NEW s \in Onward(st)
  PROVE  Save(s) \in Seq(Calm(st)) /\ W("state", s) \in Calm(st)
<1>1. st \in State
  BY DEF CoreInv, TypeInv, TypeOK, Disk, st
<1> QED
  BY <1>1, OnwardFollows, CalmState

LEMMA ReplanCalm ==
  ASSUME CoreInv, ~Parked(st), NEW s \in LiveStates, s \in Onward(st)
  PROVE  Replan(s) \in Seq(Calm(st))
<1>1. Save(To(s, "fuzzing", "harness_work_pending")) \in Seq(Calm(st))
  BY SessionsOnward, OnwardWrites
<1>2. <<W("plan", "work")>> \in Seq(Calm(st))
  BY CalmFiles
<1> QED
  BY <1>1, <1>2, ConcatProperties DEF Replan

\* What the campaign writes, and a state at the end.
LEMMA OnwardSound ==
  ASSUME CoreInv, PendingSound, ~Parked(st), NEW ws \in Seq(Calm(st)), NEW s \in Onward(st), NEW e
  PROVE  /\ Do(ws \o Save(s), e) => PendingSound'
         /\ Interrupted(ws \o Save(s)) => PendingSound'
<1>1. ws \o Save(s) \in Seq(Calm(st))
  BY OnwardWrites, ConcatProperties
<1> QED
  BY <1>1, DoCalm

LEMMA SaveOnward ==
  ASSUME CoreInv, PendingSound, ~Parked(st), NEW s \in Onward(st), NEW e, Do(Save(s), e)
  PROVE  PendingSound'
BY OnwardWrites, DoCalm

LEMMA ResultSound ==
  ASSUME CoreInv, PendingSound, ~Parked(st),
         NEW s \in LiveStates, s \in Onward(st), NEW run \in Runs,
         NEW before \in Seq(Calm(st)), ApplyFuzzResult(s, run, before)
  PROVE  PendingSound'
<1>1. PICK advanced \in BOOLEAN :
    LET old   == disk.progress
        new   == [Add(old, run.time) EXCEPT !.accounted = run.session,
                                            !.stalled = IF run.time = 0 THEN @ ELSE ~advanced]
        known == old.accounted = run.session
        p     == IF known THEN old ELSE new
        saved == before \o (IF known THEN <<>> ELSE <<W("progress", new)>>)
        idle  == [s EXCEPT !.active = NoSession]
        next  == To(idle, "fuzzing", "ready")
        afl   == route # "native_generated" /\ p.stalled /\ disk.afl = None
    IN
      \/ /\ run.result = "finding"
         /\ Do(saved \o Save([Finished(idle) EXCEPT !.triage_artifact = "run"]), None)
      \/ /\ run.result = "broken"
         /\ Do(saved \o Save(AtLeastOneFailure(
                 [Flag(idle, "manual_review", "exhausted") EXCEPT !.bounded = TRUE])), None)
      \/ /\ run.result = "quiet"
         /\ \/ disk.probe # None /\ p.completed > 0 /\ Do(saved \o LowYield(idle), None)
            \/ p.completed = Budget /\ Do(saved \o Save(Finished(idle)), None)
            \/ /\ p.completed < Budget /\ ~afl /\ p.stalled /\ CanReplan
               /\ Do(saved \o Replan(idle), None)
            \/ /\ p.completed < Budget
               /\ Do(saved \o Save(IF afl THEN [next EXCEPT !.status = "afl_cmplog_pending"]
                                          ELSE next), None)
  BY DEF ApplyFuzzResult
<1> DEFINE old   == disk.progress
           new   == [Add(old, run.time) EXCEPT !.accounted = run.session,
                                               !.stalled = IF run.time = 0 THEN @ ELSE ~advanced]
           known == old.accounted = run.session
           p     == IF known THEN old ELSE new
           saved == before \o (IF known THEN <<>> ELSE <<W("progress", new)>>)
           idle  == [s EXCEPT !.active = NoSession]
           next  == To(idle, "fuzzing", "ready")
           afl   == route # "native_generated" /\ p.stalled /\ disk.afl = None
           person == AtLeastOneFailure([Flag(idle, "manual_review", "exhausted") EXCEPT !.bounded = TRUE])
           last  == IF afl THEN [next EXCEPT !.status = "afl_cmplog_pending"] ELSE next
<1>2. idle \in LiveStates /\ idle \in Onward(st)
  BY SessionsOnward
<1>3. new \in Progresses
  <2>1. old \in Progresses /\ run.time \in 0..1 /\ run.session \in {NoSession} \cup Sessions
    BY DEF CoreInv, TypeInv, TypeOK, Disk, Progresses, Runs
  <2>2. Add(old, run.time) \in Progresses
    BY <2>1, TimeAdds
  <2> QED
    BY <2>1, <2>2 DEF Progresses
<1>4. saved \in Seq(Calm(st))
  <2> HIDE DEF new, known
  <2> QED
    BY <1>3, CalmFiles, ConcatProperties, EmptySeq
<1> HIDE DEF idle, saved, p
<1>5. /\ [Finished(idle) EXCEPT !.triage_artifact = "run"] \in Onward(st)
      /\ [Finished(idle) EXCEPT !.low_yield = TRUE] \in Onward(st)
      /\ Finished(idle) \in Onward(st) /\ person \in Onward(st) /\ last \in Onward(st)
  BY <1>2, SessionsOnward
<1> HIDE DEF person, last
<1>6. \A t \in Onward(st) : Do(saved \o Save(t), None) => PendingSound'
  BY <1>4, OnwardSound
<1>7. Do(saved \o Replan(idle), None) => PendingSound'
  <2>1. saved \o Replan(idle) \in Seq(Calm(st))
    BY <1>2, <1>4, ReplanCalm, ConcatProperties
  <2> QED
    BY <2>1, DoCalm
<1>8. \/ Do(saved \o Save([Finished(idle) EXCEPT !.triage_artifact = "run"]), None)
      \/ Do(saved \o Save(person), None)
      \/ Do(saved \o Save([Finished(idle) EXCEPT !.low_yield = TRUE]), None)
      \/ Do(saved \o Save(Finished(idle)), None)
      \/ Do(saved \o Replan(idle), None)
      \/ Do(saved \o Save(last), None)
  BY <1>1 DEF idle, saved, p, person, last, LowYield
<1> QED
  BY <1>5, <1>6, <1>7, <1>8

LEMMA LostSound ==
  ASSUME CoreInv, PendingSound, ~Parked(st), NEW start \in Seq(Calm(st)), NEW leftovers \in Seq(Calm(st)),
         NEW s \in LiveStates, s \in Onward(st), NEW time \in 0..1, NEW e
  PROVE  /\ Do(SessionLost(start, s, time, leftovers), e) => PendingSound'
         /\ Interrupted(SessionLost(start, s, time, leftovers)) => PendingSound'
<1> DEFINE books == IF time = 0 THEN <<>> ELSE <<W("progress", Add(disk.progress, time))>>
           over  == [s EXCEPT !.active = NoSession, !.status = "interrupted"]
<1>1. books \in Seq(Calm(st))
  <2>1. Add(disk.progress, time) \in Progresses
    BY TimeAdds DEF CoreInv, TypeInv, TypeOK, Disk, Progresses
  <2> QED
    BY <2>1, CalmFiles, EmptySeq
<1>2. over \in Onward(st)
  <2>1. over \in LiveStates
    BY FuzzingStatuses DEF LiveStates, State
  <2> QED
    BY <2>1, LiveIsGood DEF Onward, Kin, GoodStates, State
<1> HIDE DEF books, over
<1>3. start \o leftovers \o books \in Seq(Calm(st))
  BY <1>1, ConcatProperties
<1>4. SessionLost(start, s, time, leftovers) = start \o leftovers \o books \o Save(over)
  BY DEF SessionLost, books, over
<1> QED
  BY <1>2, <1>3, <1>4, OnwardSound

LEMMA FuzzSessionSound ==
  ASSUME CoreInv, PendingSound, ~Parked(st),
         NEW s \in LiveStates, s \in Onward(st), FuzzSession(s)
  PROVE  PendingSound'
<1> DEFINE id      == FreshSession
           running == [s EXCEPT !.status = "running", !.last_error = None, !.active = id]
           start   == Save(running)
           Q       == Calm(st)
<1>1. running \in LiveStates /\ running \in Onward(st)
  <2>1. running \in LiveStates
    BY FreshSessionType, FuzzingStatuses DEF LiveStates, State
  <2> QED
    BY <2>1, LiveIsGood DEF Onward, Kin, GoodStates, State
<1> HIDE DEF running
<1>2. ASSUME NEW e \in {"missing", "stopped"} \cup ToolErrors
      PROVE  Flag(running, "running", e) \in LiveStates /\ Flag(running, "running", e) \in Onward(st)
  <2>1. e \in Errors /\ "running" \in Statuses /\ "running" # "quartet_repair_pending"
    BY FuzzingStatuses, ErrorTypes
  <2> QED
    BY <1>1, <2>1, KinMoves DEF Onward
<1>3. start \in Seq(Q)
  BY <1>1, OnwardWrites
<1> HIDE DEF start, Q
<1>4. <<>> \in Seq(Q) /\ <<W("crash_files", TRUE)>> \in Seq(Q)
  BY CalmFiles, EmptySeq DEF Q
<1>5. ASSUME NEW result \in {"quiet", "finding", "broken"}, NEW time \in 0..1
      PROVE  /\ [result |-> result, session |-> id, time |-> time] \in Runs
             /\ <<W("run", [result |-> result, session |-> id, time |-> time])>> \in Seq(Q)
  <2>1. [result |-> result, session |-> id, time |-> time] \in Runs
    BY FreshSessionType DEF Runs
  <2> QED
    BY <2>1, CalmFiles DEF Q
<1>6. ASSUME NEW result \in {"quiet", "finding", "broken"}, NEW files \in {<<>>, <<W("crash_files", TRUE)>>},
             LET run == [result |-> result, session |-> id, time |-> 1]
             IN  ApplyFuzzResult(running, run, start \o files \o <<W("run", run)>>)
      PROVE  PendingSound'
  <2> DEFINE run == [result |-> result, session |-> id, time |-> 1]
  <2>1. run \in Runs /\ <<W("run", run)>> \in Seq(Q)
    <3>1. 1 \in 0..1
      OBVIOUS
    <3> QED
      BY <1>5, <3>1
  <2>2. start \o files \o <<W("run", run)>> \in Seq(Q)
    <3> HIDE DEF run
    <3> QED
      BY <1>3, <1>4, <2>1, ConcatProperties
  <2>3. ApplyFuzzResult(running, run, start \o files \o <<W("run", run)>>)
    BY <1>6
  <2> HIDE DEF run
  <2> QED
    BY <1>1, <2>1, <2>2, <2>3, ResultSound DEF Q
<1>7. Do(SessionLost(start, Flag(running, "running", "missing"), 0, <<>>), "missing") => PendingSound'
  <2>1. 0 \in 0..1
    OBVIOUS
  <2> QED
    BY <1>2, <1>3, <1>4, <2>1, LostSound DEF Q
<1>8. ASSUME NEW time \in 0..1, NEW e \in ToolErrors, NEW written \in BOOLEAN,
             Do(SessionLost(start, Flag(running, "running", e), time,
                  IF written THEN <<W("run", [result |-> "broken", session |-> id, time |-> time])>>
                             ELSE <<>>), e)
      PROVE  PendingSound'
  <2> DEFINE leftovers == IF written THEN <<W("run", [result |-> "broken", session |-> id, time |-> time])>>
                                     ELSE <<>>
  <2>1. leftovers \in Seq(Q)
    BY <1>4, <1>5
  <2>2. Do(SessionLost(start, Flag(running, "running", e), time, leftovers), e)
    BY <1>8
  <2> HIDE DEF leftovers
  <2> QED
    BY <1>2, <1>3, <2>1, <2>2, LostSound DEF Q
<1>9. ASSUME NEW time \in 0..1, NEW found \in BOOLEAN,
             Interrupted(SessionLost(start, Flag(running, "running", "stopped"), time,
                                     IF found THEN <<W("crash_files", TRUE)>> ELSE <<>>))
      PROVE  PendingSound'
  <2>1. (IF found THEN <<W("crash_files", TRUE)>> ELSE <<>>) \in Seq(Q)
    BY <1>4
  <2> QED
    BY <1>2, <1>3, <1>9, <2>1, LostSound DEF Q
<1>10. \/ Do(SessionLost(start, Flag(running, "running", "missing"), 0, <<>>), "missing")
       \/ \E result \in {"quiet", "finding", "broken"}, files \in {<<>>, <<W("crash_files", TRUE)>>} :
            LET run == [result |-> result, session |-> id, time |-> 1]
            IN  ApplyFuzzResult(running, run, start \o files \o <<W("run", run)>>)
       \/ \E time \in 0..1, e \in ToolErrors, written \in BOOLEAN :
             Do(SessionLost(start, Flag(running, "running", e), time,
                  IF written THEN <<W("run", [result |-> "broken", session |-> id, time |-> time])>>
                             ELSE <<>>), e)
       \/ \E time \in 0..1, found \in BOOLEAN :
             Interrupted(SessionLost(start, Flag(running, "running", "stopped"), time,
                                     IF found THEN <<W("crash_files", TRUE)>> ELSE <<>>))
  BY DEF FuzzSession, running, start
<1>11. CASE \E result \in {"quiet", "finding", "broken"}, files \in {<<>>, <<W("crash_files", TRUE)>>} :
              LET run == [result |-> result, session |-> id, time |-> 1]
              IN  ApplyFuzzResult(running, run, start \o files \o <<W("run", run)>>)
  BY <1>6, <1>11, Zenon
<1>12. CASE \E time \in 0..1, e \in ToolErrors, written \in BOOLEAN :
             Do(SessionLost(start, Flag(running, "running", e), time,
                  IF written THEN <<W("run", [result |-> "broken", session |-> id, time |-> time])>>
                             ELSE <<>>), e)
  BY <1>8, <1>12, Zenon
<1>13. CASE \E time \in 0..1, found \in BOOLEAN :
             Interrupted(SessionLost(start, Flag(running, "running", "stopped"), time,
                                     IF found THEN <<W("crash_files", TRUE)>> ELSE <<>>))
  BY <1>9, <1>13, Zenon
<1> QED
  BY <1>7, <1>10, <1>11, <1>12, <1>13

\* The states of a job that is being fuzzed.
LEMMA FuzzingOnward ==
  ASSUME CoreInv, NEW stage \in {"coverage_analysis", "fuzzing", "triage"}, AtStage(stage)
  PROVE  st \in LiveStates /\ st \in Onward(st) /\ ~Parked(st) /\ disk \in Disk /\ st.stage = stage
BY StageFacts, LiveIsGood DEF Onward, Kin, Parked, AtStage

LEMMA FuzzSound ==
  ASSUME CoreInv, PendingSound, Fuzz
  PROVE  PendingSound'
<1> DEFINE idle == [st EXCEPT !.active = NoSession]
<1>1. st \in LiveStates /\ st \in Onward(st) /\ ~Parked(st) /\ disk \in Disk
  BY FuzzingOnward DEF Fuzz
<1>2. idle \in LiveStates /\ idle \in Onward(st)
  BY <1>1, SessionsOnward
<1> HIDE DEF idle
<1>3. \/ \E e \in PolicyErrors \cup {"gate", "harness", "missing"} : Do(<<>>, e)
      \/ ApplyFuzzResult(st, disk.run, <<>>)
      \/ Do(LowYield(idle), None)
      \/ Do(Replan(idle), None)
      \/ Do(Save(Finished(idle)), None)
      \/ FuzzSession(idle)
  BY DEF Fuzz, idle
<1>4. (\E e \in PolicyErrors \cup {"gate", "harness", "missing"} : Do(<<>>, e)) => PendingSound'
  BY NothingSound
<1>5. CASE ApplyFuzzResult(st, disk.run, <<>>)
  <2>1. disk.run \in Runs
    BY <1>1 DEF Disk, Runs
  <2> QED
    BY <1>1, <1>5, <2>1, ResultSound, EmptySeq
<1>6. Do(LowYield(idle), None) => PendingSound'
  BY <1>1, <1>2, SessionsOnward, SaveOnward DEF LowYield
<1>7. Do(Replan(idle), None) => PendingSound'
  BY <1>1, <1>2, ReplanCalm, DoCalm
<1>8. Do(Save(Finished(idle)), None) => PendingSound'
  BY <1>1, <1>2, SessionsOnward, SaveOnward
<1>9. FuzzSession(idle) => PendingSound'
  BY <1>1, <1>2, FuzzSessionSound
<1> QED
  BY <1>3, <1>4, <1>5, <1>6, <1>7, <1>8, <1>9

LEMMA AflSound ==
  ASSUME CoreInv, PendingSound, Afl
  PROVE  PendingSound'
<1> DEFINE start == Save(Flag(st, "afl_cmplog_running", None))
           failed(e) == start \o <<W("afl", "failed")>> \o Save(Flag(st, "ready", e))
           Q == Calm(st)
<1>1. st \in LiveStates /\ st \in Onward(st) /\ ~Parked(st) /\ disk \in Disk
  BY FuzzingOnward DEF Afl
<1>2. ASSUME NEW status \in {"afl_cmplog_running", "ready"}, NEW e \in Errors
      PROVE  Save(Flag(st, status, e)) \in Seq(Q)
  <2>1. status \in Statuses /\ status # "quartet_repair_pending"
    BY FuzzingStatuses
  <2>2. Flag(st, status, e) \in Onward(st)
    BY <1>1, <2>1, KinMoves DEF Onward
  <2> QED
    BY <1>1, <2>2, OnwardWrites
<1>3. start \in Seq(Q)
  BY <1>2, FuzzingStatuses
<1> HIDE DEF start, Q
<1>4. ASSUME NEW e \in Errors
      PROVE  failed(e) \in Seq(Q)
  <2>1. <<W("afl", "failed")>> \in Seq(Q) /\ Save(Flag(st, "ready", e)) \in Seq(Q)
    BY <1>2, CalmFiles DEF Q
  <2> QED
    BY <1>3, <2>1, ConcatProperties
<1> HIDE DEF failed
<1>5. (\E e \in ToolErrors : Do(failed(e), None)) => PendingSound'
  BY <1>4, ErrorTypes, DoCalm DEF Q
<1>6. CASE /\ pending' = failed("stopped")
           /\ UNCHANGED <<route, disk, mode, recovery, crashes, history>>
  <2>1. Sound(failed("stopped"), Snapshot)
    BY <1>4, FuzzingStatuses, CalmHanded DEF Q
  <2>2. Snapshot' = Snapshot
    BY <1>6 DEF Snapshot, history
  <2> QED
    BY <1>6, <2>1, <2>2 DEF PendingSound
<1>7. ASSUME NEW time \in 0..1, NEW improved \in BOOLEAN, NEW found \in BOOLEAN,
             LET p     == [Add(disk.progress, time) EXCEPT !.stalled = ~improved]
                 saved == start \o (IF found THEN <<W("crash_files", TRUE)>> ELSE <<>>)
                          \o <<W("afl", IF found THEN "finding" ELSE "quiet"), W("progress", p)>>
                 over  == found \/ p.completed = Budget
             IN
               \/ over /\ Do(saved \o Save([Finished(st) EXCEPT !.triage_artifact = "afl"]), None)
               \/ ~over /\ Do(saved \o Save(To(st, "fuzzing", "ready")), None)
               \/ ~over /\ p.stalled /\ CanReplan /\ Do(saved \o Replan(st), None)
      PROVE PendingSound'
  <2> DEFINE p     == [Add(disk.progress, time) EXCEPT !.stalled = ~improved]
             saved == start \o (IF found THEN <<W("crash_files", TRUE)>> ELSE <<>>)
                      \o <<W("afl", IF found THEN "finding" ELSE "quiet"), W("progress", p)>>
  <2>1. p \in Progresses
    <3>1. Add(disk.progress, time) \in Progresses
      BY <1>1, TimeAdds DEF Disk, Progresses
    <3> QED
      BY <3>1 DEF Progresses
  <2> HIDE DEF p
  <2>2. <<W("afl", IF found THEN "finding" ELSE "quiet"), W("progress", p)>> \in Seq(Q)
    BY <2>1, CalmFiles, Pair DEF Q
  <2>3. (IF found THEN <<W("crash_files", TRUE)>> ELSE <<>>) \in Seq(Q)
    BY CalmFiles, EmptySeq DEF Q
  <2>4. saved \in Seq(Calm(st))
    BY <1>3, <2>2, <2>3, ConcatProperties DEF Q
  <2> HIDE DEF saved
  <2>5. Do(saved \o Save([Finished(st) EXCEPT !.triage_artifact = "afl"]), None) => PendingSound'
    BY <1>1, <2>4, SessionsOnward, OnwardSound
  <2>6. Do(saved \o Save(To(st, "fuzzing", "ready")), None) => PendingSound'
    BY <1>1, <2>4, SessionsOnward, OnwardSound
  <2>7. Do(saved \o Replan(st), None) => PendingSound'
    <3>1. saved \o Replan(st) \in Seq(Calm(st))
      BY <1>1, <2>4, ReplanCalm, ConcatProperties
    <3> QED
      BY <3>1, DoCalm
  <2> QED
    BY <1>7, <2>5, <2>6, <2>7 DEF p, saved
<1>8. CASE \E time \in 0..1, improved, found \in BOOLEAN :
             LET p     == [Add(disk.progress, time) EXCEPT !.stalled = ~improved]
                 saved == start \o (IF found THEN <<W("crash_files", TRUE)>> ELSE <<>>)
                          \o <<W("afl", IF found THEN "finding" ELSE "quiet"), W("progress", p)>>
                 over  == found \/ p.completed = Budget
             IN
               \/ over /\ Do(saved \o Save([Finished(st) EXCEPT !.triage_artifact = "afl"]), None)
               \/ ~over /\ Do(saved \o Save(To(st, "fuzzing", "ready")), None)
               \/ ~over /\ p.stalled /\ CanReplan /\ Do(saved \o Replan(st), None)
  BY <1>7, <1>8, ZenonT(60)
<1>9. (\E e \in PolicyErrors \cup {"afl"} : Do(<<>>, e)) => PendingSound'
  BY NothingSound
<1> QED
  BY <1>5, <1>6, <1>8, <1>9 DEF Afl, start, failed

LEMMA TriageSound ==
  ASSUME CoreInv, PendingSound, Triage
  PROVE  PendingSound'
<1>1. st \in LiveStates /\ st \in Onward(st) /\ ~Parked(st)
  BY FuzzingOnward DEF Triage
<1> DEFINE saved(stage, status) ==
             [To(st, stage, status) EXCEPT !.triage_artifact = IF stage = "fuzzing" THEN None ELSE @]
           verdict(before, stage, status, summary) ==
             Do(before \o Save(saved(stage, status)) \o <<W("summary", summary)>>, None)
<1>2. ASSUME NEW before \in Seq(Calm(st)), NEW stage \in {"validation", "fuzzing", "complete"},
             NEW status \in {"validation_pending", "ready", "triage_review_required", "exhausted"},
             NEW summary \in {"reproduced", "other"}, verdict(before, stage, status, summary)
      PROVE  PendingSound'
  <2>1. saved(stage, status) \in Onward(st)
    <3>1. stage \in Stages /\ status \in Statuses /\ status # "quartet_repair_pending"
      BY DEF Stages, Statuses, MANUAL_STATUSES, FUZZABLE
    <3>2. To(st, stage, status) \in Kin(st) /\ To(st, stage, status).stage = stage
      BY <1>1, <3>1, KinMoves DEF Onward
    <3> HIDE DEF To
    <3> QED
      BY <3>2 DEF Onward, Kin, GoodStates, State
  <2>2. Save(saved(stage, status)) \in Seq(Calm(st)) /\ <<W("summary", summary)>> \in Seq(Calm(st))
    BY <1>1, <2>1, OnwardWrites, CalmFiles
  <2> HIDE DEF saved
  <2>3. before \o Save(saved(stage, status)) \o <<W("summary", summary)>> \in Seq(Calm(st))
    BY <2>2, ConcatProperties
  <2> QED
    BY <1>2, <2>3, DoCalm
<1>3. <<>> \in Seq(Calm(st)) /\ <<W("crash_files", FALSE)>> \in Seq(Calm(st))
  BY CalmFiles, EmptySeq
<1>4. verdict(<<>>, "validation", "validation_pending", "reproduced") => PendingSound'
  BY <1>2, <1>3
<1>5. verdict(<<W("crash_files", FALSE)>>, "fuzzing", "ready", "other") => PendingSound'
  BY <1>2, <1>3
<1>6. verdict(<<>>, "complete", "triage_review_required", "other") => PendingSound'
  BY <1>2, <1>3
<1>7. verdict(<<>>, "complete", "exhausted", "other") => PendingSound'
  BY <1>2, <1>3
<1>8. (\E e \in ToolErrors \cup {"missing"} : Do(<<>>, e)) => PendingSound'
  BY NothingSound
<1> QED
  BY <1>4, <1>5, <1>6, <1>7, <1>8 DEF Triage

LEMMA ValidateSound ==
  ASSUME CoreInv, PendingSound, Validate
  PROVE  PendingSound'
<1> DEFINE over    == To(st, "complete", "ready_for_human")
           running == [st EXCEPT !.status = "validation_running"]
           failed(e) == Flag(st, "validation_review_required", e)
<1>1. st \in LiveStates /\ st.stage = "validation"
  BY LiveAtTop DEF Validate, CoreInv, AtStage
<1>2. st \in Onward(st) /\ ~Parked(st) /\ st \in Kin(st)
  BY <1>1, LiveIsGood DEF Onward, Kin, Parked
<1>3. /\ "complete" \in Stages
      /\ {"ready_for_human", "validation_running", "validation_review_required"} \subseteq Statuses
  BY DEF Stages, Statuses, MANUAL_STATUSES
<1>4. over \in Onward(st) /\ \A e \in Errors : failed(e) \in Onward(st)
  BY <1>1, <1>2, <1>3, KinMoves DEF Onward
<1>5. running \in Onward(st)
  <2>1. running \in LiveStates /\ running.stage = "validation"
    BY <1>1, <1>3 DEF LiveStates, State
  <2> QED
    BY <1>1, <2>1, LiveIsGood DEF Onward, Kin, LiveStates, State
<1> HIDE DEF over, running, failed
<1>6. /\ Save(over) \in Seq(Calm(st)) /\ Save(running) \in Seq(Calm(st))
      /\ <<W("report", TRUE)>> \in Seq(Calm(st))
      /\ \A e \in Errors : Save(failed(e)) \in Seq(Calm(st))
  BY <1>2, <1>4, <1>5, OnwardWrites, CalmFiles
<1>7. Do(Save(over), "return") \/ Do(<<>>, "missing") => PendingSound'
  BY <1>6, DoCalm, EmptySeq
<1>8. CASE Do(Save(running) \o <<W("report", TRUE)>> \o Save(over), "return")
  <2>1. Save(running) \o <<W("report", TRUE)>> \o Save(over) \in Seq(Calm(st))
    BY <1>6, ConcatProperties
  <2> QED
    BY <1>8, <2>1, DoCalm
<1>9. ASSUME NEW e \in ToolErrors, Do(Save(running) \o Save(failed(e)), e)
      PROVE  PendingSound'
  <2>1. Save(running) \o Save(failed(e)) \in Seq(Calm(st))
    BY <1>6, ErrorTypes, ConcatProperties
  <2> QED
    BY <1>9, <2>1, DoCalm
<1>10. (\E e \in ToolErrors : Do(Save(running) \o Save(failed(e)), e)) => PendingSound'
  BY <1>9
<1> QED
  BY <1>7, <1>8, <1>10 DEF Validate, over, running, failed

LEMMA AnalyzeSound ==
  ASSUME CoreInv, PendingSound, Analyze
  PROVE  PendingSound'
<1>1. st \in LiveStates /\ st \in Onward(st) /\ ~Parked(st)
  BY FuzzingOnward DEF Analyze
<1>2. \/ \E e \in ToolErrors \cup {"gate", "missing", None} : Do(<<>>, e)
      \/ Do(<<W("plan", "ready")>> \o Save(To(st, "fuzzing", "ready")), None)
      \/ Do(<<W("plan", "work")>> \o Save(To(st, "fuzzing", "harness_work_pending")), None)
  BY DEF Analyze
<1>3. (\E e \in ToolErrors \cup {"gate", "missing", None} : Do(<<>>, e)) => PendingSound'
  BY NothingSound
<1>4. <<W("plan", "ready")>> \in Seq(Calm(st)) /\ <<W("plan", "work")>> \in Seq(Calm(st))
  BY CalmFiles
<1>5. /\ To(st, "fuzzing", "ready") \in Onward(st)
      /\ To(st, "fuzzing", "harness_work_pending") \in Onward(st)
  BY <1>1, SessionsOnward
<1> QED
  BY <1>1, <1>2, <1>3, <1>4, <1>5, OnwardSound

LEMMA GenerationLimitSound ==
  ASSUME CoreInv, PendingSound, GenerationLimit
  PROVE  PendingSound'
<1>1. st \in LiveStates /\ st \in Onward(st) /\ ~Parked(st)
  BY FuzzingOnward DEF GenerationLimit
<1>2. AtLeastOneFailure([Flag(st, "manual_review", "exhausted") EXCEPT !.bounded = TRUE]) \in Onward(st)
  BY <1>1, SessionsOnward
<1> QED
  BY <1>1, <1>2, SaveOnward DEF GenerationLimit

\* The stages before the gate.
LEMMA PreparedFollows ==
  ASSUME NEW s \in LiveStates, s.stage \in Preparation, NEW t \in Kin(s),
         t.stage \in Preparation, t.status # "quartet_repair_pending"
  PROVE  t \in Followers(s)
BY DEF Kin, Followers, Follows, Unaided, RepairPending, Parked, Preparation

LEMMA FailedFollows ==
  ASSUME CoreInv, st \in LiveStates, NEW e \in Errors
  PROVE  StageFailed(e) \in Followers(st)
<1>1. StageFailed(e) \in GoodStates
  BY StageFailedEnds DEF CoreInv
<1>2. /\ StageFailed(e).attempted = st.attempted
      /\ StageFailed(e).harness_generation = st.harness_generation
      /\ StageFailed(e).quartet_repair = st.quartet_repair
      /\ StageFailed(e).automatic_recoveries = st.automatic_recoveries
      /\ \/ StageFailed(e).stage = st.stage /\ StageFailed(e).status = "failed"
         \/ StageFailed(e).stage = "complete" /\ StageFailed(e).status = "unsupported_integration"
  BY DEF StageFailed, Flag, LiveStates, State
<1> HIDE DEF StageFailed
<1> QED
  BY <1>1, <1>2 DEF Followers, Follows, Unaided, RepairPending, Parked, Preparation, LiveStates

LEMMA PrepareSound ==
  ASSUME CoreInv, PendingSound, Prepare
  PROVE  PendingSound'
<1> USE DEF CoreInv
<1>1. PICK from \in 1..3, to \in 1..4 :
        /\ STAGE_ORDER[from] = st.stage /\ from <= to
        /\ LET done == [k \in 1..(to - from) |-> W("state", Prepared(st, from + k))]
               last == IF to = from THEN st ELSE Prepared(st, to)
           IN \/ to = 4 /\ Do(done, None)
              \/ \E e \in (IF to = 1 THEN PolicyErrors ELSE ToolErrors) :
                   to < 4 /\ Do(done \o Save(Flag(last, "failed", e)), e)
              \/ to \in {2, 3} /\ Interrupted(done \o Save(Flag(last, "failed", "stopped")))
  BY DEF Prepare
<1> DEFINE done == [k \in 1..(to - from) |-> W("state", Prepared(st, from + k))]
           last == IF to = from THEN st ELSE Prepared(st, to)
           Q == Calm(st)
<1>2. st.stage \in {"policy_recheck", "source_checkout", "tool_sync"}
  BY <1>1 DEF STAGE_ORDER
<1>3. st \in LiveStates /\ st \in Kin(st) /\ st.stage \in Preparation
  BY <1>2, LiveAtTop, LiveIsGood DEF Prepare, Kin, Preparation
<1>4. ASSUME NEW s \in Kin(st), s.stage \in Preparation, s.status # "quartet_repair_pending"
      PROVE  W("state", s) \in Q /\ Save(s) \in Seq(Q)
  BY <1>3, <1>4, PreparedFollows, CalmState
<1> HIDE DEF Q
<1>5. ASSUME NEW k \in 1..4
      PROVE  /\ Prepared(st, k) \in LiveStates /\ Prepared(st, k) \in Kin(st)
             /\ Prepared(st, k).stage \in Preparation /\ Prepared(st, k).status # "quartet_repair_pending"
  <2>1. STAGE_ORDER[k] \in {"policy_recheck", "source_checkout", "tool_sync", "integration"}
    BY DEF STAGE_ORDER
  <2>2. STAGE_ORDER[k] \in Stages \ {"complete"} /\ {"prepared", "preparing"} \subseteq Statuses
    BY <2>1 DEF Stages, Statuses, RECOVERY_STAGE_STATUS, RECOVERABLE_FAILURE_STAGES
  <2> QED
    BY <1>3, <2>1, <2>2, MovesOn, KinMoves DEF Prepared, Preparation
<1>6. done \in Seq(Q)
  <2>1. to - from \in Nat
    BY <1>1
  <2>2. ASSUME NEW k \in 1..(to - from)
        PROVE  W("state", Prepared(st, from + k)) \in Q
    <3>1. from + k \in 1..4
      BY <2>1
    <3> QED
      BY <3>1, <1>4, <1>5
  <2> QED
    BY <2>1, <2>2
<1>7. last \in LiveStates /\ last \in Kin(st) /\ last.stage \in Preparation
  BY <1>3, <1>5
<1> HIDE DEF done, last
<1>8. ASSUME NEW e \in Errors
      PROVE  done \o Save(Flag(last, "failed", e)) \in Seq(Q)
  <2>1. "failed" \in Statuses /\ "failed" # "quartet_repair_pending"
    BY DEF Statuses
  <2>2. /\ Flag(last, "failed", e) \in Kin(st) /\ Flag(last, "failed", e).stage \in Preparation
        /\ Flag(last, "failed", e).status # "quartet_repair_pending"
    BY <1>7, <2>1, KinMoves
  <2> QED
    BY <1>4, <1>6, <2>2, ConcatProperties
<1>9. None \in Errors /\ "stopped" \in Errors
  BY DEF Errors, OwnErrors
<1>10. CASE to = 4 /\ Do(done, None)
  BY <1>6, <1>10, DoCalm DEF Q
<1>11. CASE \E e \in (IF to = 1 THEN PolicyErrors ELSE ToolErrors) :
              to < 4 /\ Do(done \o Save(Flag(last, "failed", e)), e)
  BY <1>8, <1>11, ErrorTypes, DoCalm DEF Q
<1>12. CASE to \in {2, 3} /\ Interrupted(done \o Save(Flag(last, "failed", "stopped")))
  BY <1>8, <1>9, <1>12, DoCalm DEF Q
<1> QED
  BY <1>1, <1>10, <1>11, <1>12 DEF done, last

\* A stage with one product, that either makes it or fails.
LEMMA SingleStageSound ==
  ASSUME CoreInv, PendingSound, NEW expected \in Stages \ {"complete"}, NEW possible,
         NEW errors \in SUBSET Errors, NEW product, NEW next_stage, NEW next_status,
         st \in LiveStates /\ st.stage = expected /\ possible =>
           Sound(product \o Save(To(st, next_stage, next_status)), Snapshot),
         SingleStage(expected, possible, errors, product, next_stage, next_status)
  PROVE  PendingSound'
<1>1. st \in LiveStates /\ st.stage = expected
  BY LiveAtTop DEF SingleStage, AtStage, CoreInv
<1>2. ASSUME NEW e \in Errors, Do(Save(StageFailed(e)), e)
      PROVE  PendingSound'
  <2>1. Save(StageFailed(e)) \in Seq(Calm(st))
    BY <1>1, FailedFollows, CalmState
  <2> QED
    BY <1>2, <2>1, DoCalm
<1>3. CASE \E e \in (IF possible THEN errors ELSE {"missing"}) : Do(Save(StageFailed(e)), e)
  BY <1>2, <1>3, FuzzingStatuses
<1>4. CASE possible /\ Do(product \o Save(To(st, next_stage, next_status)), None)
  BY <1>1, <1>4, DoSound
<1>5. CASE possible /\ Interrupted(<<>>)
  BY <1>5, NothingSound
<1> QED
  BY <1>3, <1>4, <1>5 DEF SingleStage

LEMMA IntegrateSound ==
  ASSUME CoreInv, PendingSound, Integrate
  PROVE  PendingSound'
<1> DEFINE harnesses == IF Generated THEN {} ELSE disk.rewritten
           product == <<W("rewritten", harnesses), W("integration", TRUE)>>
<1>1. harnesses \in SUBSET Targets
  BY DEF CoreInv, TypeInv, TypeOK, Disk
<1> HIDE DEF harnesses
<1>2. ASSUME st \in LiveStates, st.stage = "integration"
      PROVE  Sound(product \o Save(To(st, "build", "integrated")), Snapshot)
  <2>1. W("integration", TRUE) \in Calm(st)
    <3>1. W("integration", TRUE) \in Writes
      BY FileWriteIsEarly, EarlyIsWrites
    <3> QED
      BY <1>2, <3>1 DEF Calm, W, RepairPending
  <2>2. product \in Seq(Calm(st))
    BY <1>1, <2>1, CalmFiles, Pair
  <2>3. Save(To(st, "build", "integrated")) \in Seq(Calm(st))
    <3>1. "build" \in Stages /\ "integrated" \in Statuses /\ "integrated" # "quartet_repair_pending"
      BY PreparationStages
    <3>2. st \in Kin(st)
      BY <1>2, LiveIsGood DEF Kin
    <3>3. To(st, "build", "integrated") \in Followers(st)
      BY <1>2, <3>1, <3>2, KinMoves, PreparedFollows DEF Preparation
    <3> QED
      BY <3>3, CalmState
  <2> HIDE DEF product
  <2>4. product \o Save(To(st, "build", "integrated")) \in Seq(Calm(st))
    BY <2>2, <2>3, ConcatProperties
  <2> QED
    BY <2>4, CalmHanded
<1> HIDE DEF product
<1>3. SingleStage("integration", TRUE, BuildErrors, product, "build", "integrated")
  BY DEF Integrate, product, harnesses
<1>4. "integration" \in Stages \ {"complete"}
  BY PreparationStages
<1> QED
  BY <1>2, <1>3, <1>4, ErrorTypes, SingleStageSound

-----------------------------------------------------------------------------
(* The handlers that write targets: build, smoke test and probe.           *)

LEMMA NoTargets ==
  Cardinality({}) = 0 /\ MaxTargets \in Nat /\ MaxTargets >= 1 /\ FirstTarget \in Targets /\ None \notin Targets
BY FS_EmptySet, BoundsAssumption, TargetsAssumption, SelectedTarget DEF FirstTarget

\* What is known of the targets when a handler starts.
LEMMA TargetsNow ==
  ASSUME CoreInv, PendingSound
  PROVE  /\ disk.manifest \in Targets \cup {None} /\ disk.smoke \in Targets \cup {None}
         /\ disk.quartet \in Reviews /\ st.attempted \in SUBSET Targets
BY SoundNow, SnapshotTypes

LEMMA SaveSuits ==
  ASSUME NEW y \in Snapshots, NEW s \in GoodStates,
         Suits(s, y.disk.integration, y.disk.manifest, y.disk.smoke, y.disk.probe, y.disk.quartet)
  PROVE  W("state", s) \in Writes /\ Store(y, W("state", s)) \in Suited
<1> DEFINE w == W("state", s)
<1>1. w \in Writes /\ w.file = "state" /\ w.value = s
  BY DEF W, Writes
<1> HIDE DEF w
<1>2. TargetsSuit(Store(y, w).disk) /\ Store(y, w) \in Snapshots
  BY <1>1, StoreReads DEF TargetsSuit
<1> QED
  BY <1>1, <1>2 DEF Suited, w

\* Writes and a save of the state.
LEMMA BringsSave ==
  ASSUME NEW ws \in Seq(Writes), NEW x, NEW Y \in SUBSET Suited, Brings(ws, x, Y), NEW s \in GoodStates,
         \A y \in Y : Suits(s, y.disk.integration, y.disk.manifest, y.disk.smoke, y.disk.probe, y.disk.quartet)
  PROVE  Sound(ws \o Save(s), x)
<1>1. Y \in SUBSET Snapshots /\ W("state", s) \in Writes
  BY DEF Suited, W, Writes
<1>2. \A y \in Y : Store(y, W("state", s)) \in Snapshots \cap Suited \cap Snapshots
  BY <1>1, SaveSuits DEF Suited
<1>3. From(ws \o <<W("state", s)>>, x) \in Safe(Suited, Snapshots)
  BY <1>1, <1>2, ReachLast DEF Brings
<1> QED
  BY <1>3 DEF Save, Sound

LEMMA ThenSave ==
  ASSUME NEW ws \in Seq(Writes), NEW x, NEW y \in Suited, Brings(ws, x, {y}), NEW s \in GoodStates,
         Suits(s, y.disk.integration, y.disk.manifest, y.disk.smoke, y.disk.probe, y.disk.quartet)
  PROVE  Sound(ws \o Save(s), x)
<1> DEFINE Y == {y}
<1>1. /\ Y \in SUBSET Suited /\ Brings(ws, x, Y)
      /\ \A z \in Y : Suits(s, z.disk.integration, z.disk.manifest, z.disk.smoke, z.disk.probe, z.disk.quartet)
  OBVIOUS
<1> HIDE DEF Y
<1> QED
  BY <1>1, BringsSave

\* A write of one of the files that hold a target, or of the result of the probe.
Sets(x, y, f, value) ==
  /\ y \in Snapshots
  /\ y.disk.state = x.disk.state /\ y.disk.integration = x.disk.integration
  /\ y.disk.manifest = IF f = "manifest" THEN value ELSE x.disk.manifest
  /\ y.disk.smoke = IF f = "smoke" THEN value ELSE x.disk.smoke
  /\ y.disk.probe = IF f = "probe" THEN value ELSE x.disk.probe
  /\ y.disk.quartet = IF f = "quartet" THEN value ELSE x.disk.quartet

LEMMA TargetWrites ==
  ASSUME NEW x \in Suited, NEW f \in {"manifest", "smoke", "probe", "quartet"}, NEW value,
         f \in {"manifest", "smoke"} => value \in Targets \cup {None},
         f = "probe" => value \in {None, "clean", "broken"} \cup Findings,
         f = "quartet" => value \in Reviews,
         Suits(x.disk.state, x.disk.integration,
               IF f = "manifest" THEN value ELSE x.disk.manifest,
               IF f = "smoke" THEN value ELSE x.disk.smoke,
               IF f = "probe" THEN value ELSE x.disk.probe,
               IF f = "quartet" THEN value ELSE x.disk.quartet)
  PROVE  \E y \in Suited : /\ Sets(x, y, f, value) /\ Brings(<<W(f, value)>>, x, {y})
                           /\ W(f, value) \in Writes /\ <<W(f, value)>> \in Seq(Writes)
<1> DEFINE w == W(f, value)
           y == Store(x, w)
<1>1. w \in Writes /\ w.file = f /\ w.value = value
  BY FileWriteIsEarly, EarlyIsWrites DEF W
<1>2. x \in Snapshots
  BY DEF Suited
<1> HIDE DEF w
<1>3. Sets(x, y, f, value)
  BY <1>1, <1>2, StoreReads DEF Sets
<1> HIDE DEF y
<1>4. y \in Suited
  BY <1>3 DEF Suited, TargetsSuit, Sets
<1>5. Brings(<<w>>, x, {y}) /\ <<w>> \in Seq(Writes)
  BY <1>1, <1>2, ReachOne DEF Brings, y
<1> QED
  BY <1>1, <1>3, <1>4, <1>5 DEF w

LEMMA BuildSound ==
  ASSUME CoreInv, PendingSound, PendingFine, Build
  PROVE  PendingSound'
<1> DEFINE s == To(st, "smoke", "built")
<1>1. ASSUME st \in LiveStates, st.stage = "build"
      PROVE  Sound(<<W("manifest", FirstTarget)>> \o Save(s), Snapshot)
  <2>1. disk.smoke = None /\ disk.probe = None /\ disk.quartet = NoReview
    BY <1>1, FineNow DEF Fits, Bare
  <2>2. Suits(st, disk.integration, disk.manifest, disk.smoke, disk.probe, disk.quartet)
        /\ st.attempted \in SUBSET Targets /\ Snapshot \in Suited
        /\ Snapshot.disk = disk /\ Snapshot.disk.state = st
    BY SoundNow, TargetsNow
  <2>3. Suits(st, disk.integration, FirstTarget, disk.smoke, disk.probe, disk.quartet)
    BY <1>1, <2>1, <2>2, NoTargets DEF Suits, Supplied, Room, OutOfTurn, RepairPending, NoReview
  <2>4. PICK y \in Suited : /\ Sets(Snapshot, y, "manifest", FirstTarget)
                            /\ Brings(<<W("manifest", FirstTarget)>>, Snapshot, {y})
                            /\ <<W("manifest", FirstTarget)>> \in Seq(Writes)
    BY <2>2, <2>3, NoTargets, TargetWrites
  <2>5. s \in GoodStates /\ s.stage = "smoke" /\ s.attempted = st.attempted /\ Unaided(s) = Unaided(st)
    <3>1. "smoke" \in Stages /\ "built" \in Statuses /\ "built" # "quartet_repair_pending"
      BY PreparationStages
    <3>2. st \in Kin(st)
      BY <1>1, LiveIsGood DEF Kin
    <3>3. s \in Kin(st) /\ s.stage = "smoke"
      BY <1>1, <3>1, <3>2, KinMoves
    <3> HIDE DEF s
    <3> QED
      BY <3>3 DEF Kin, Unaided
  <2> HIDE DEF s
  <2>6. Suits(s, disk.integration, FirstTarget, None, None, NoReview)
    BY <1>1, <2>1, <2>3, <2>5, <2>2, NoTargets DEF Suits, Supplied, Room, OutOfTurn, RepairPending, Preparation, NoReview
  <2>7. Suits(s, y.disk.integration, y.disk.manifest, y.disk.smoke, y.disk.probe, y.disk.quartet)
    BY <2>1, <2>2, <2>4, <2>6 DEF Sets
  <2> QED
    BY <2>4, <2>5, <2>7, ThenSave
<1>2. SingleStage("build", disk.integration, BuildErrors, <<W("manifest", FirstTarget)>>, "smoke", "built")
  BY DEF Build, FirstTarget
<1>3. "build" \in Stages \ {"complete"}
  BY PreparationStages
<1> QED
  BY <1>1, <1>2, <1>3, ErrorTypes, SingleStageSound

LEMMA SmokeSound ==
  ASSUME CoreInv, PendingSound, PendingFine, Smoke
  PROVE  PendingSound'
<1> DEFINE s == To(st, "quartet_gate", "quartet_pending")
           possible == disk.manifest # None /\ disk.integration
           m == disk.manifest
<1>1. ASSUME st \in LiveStates, st.stage = "smoke", possible
      PROVE  Sound(<<W("smoke", m)>> \o Save(s), Snapshot)
  <2>1. disk.probe = None /\ disk.quartet = NoReview
    BY <1>1, FineNow DEF Fits
  <2>2. Suits(st, disk.integration, m, disk.smoke, disk.probe, disk.quartet)
        /\ m \in Targets /\ st.attempted \in SUBSET Targets /\ Snapshot \in Suited
        /\ Snapshot.disk = disk /\ Snapshot.disk.state = st
    BY <1>1, SoundNow, TargetsNow
  <2>3. Suits(st, disk.integration, m, m, disk.probe, disk.quartet)
    BY <1>1, <2>1, <2>2, NoTargets DEF Suits, Supplied, Room, OutOfTurn, Unfavoured, Parked, RepairPending, Preparation, NoReview
  <2>4. PICK y \in Suited : /\ Sets(Snapshot, y, "smoke", m)
                            /\ Brings(<<W("smoke", m)>>, Snapshot, {y})
                            /\ <<W("smoke", m)>> \in Seq(Writes)
    BY <2>2, <2>3, TargetWrites
  <2>5. /\ s \in GoodStates /\ s.stage = "quartet_gate" /\ s.status = "quartet_pending"
        /\ s.attempted = st.attempted /\ Unaided(s) = Unaided(st)
    <3>1. "quartet_gate" \in Stages /\ "quartet_pending" \in Statuses /\ "quartet_pending" # "quartet_repair_pending"
      BY PreparationStages
    <3>2. st \in Kin(st)
      BY <1>1, LiveIsGood DEF Kin
    <3>3. s \in Kin(st) /\ s.stage = "quartet_gate" /\ s.status = "quartet_pending"
      BY <1>1, <3>1, <3>2, KinMoves
    <3> HIDE DEF s
    <3> QED
      BY <3>3 DEF Kin, Unaided
  <2> HIDE DEF s
  <2>6. Suits(s, disk.integration, m, m, disk.probe, disk.quartet)
    BY <1>1, <2>1, <2>2, <2>3, <2>5, NoTargets
       DEF Suits, Supplied, Room, OutOfTurn, Unfavoured, Parked, RepairPending, Preparation, NoReview
  <2>7. Suits(s, y.disk.integration, y.disk.manifest, y.disk.smoke, y.disk.probe, y.disk.quartet)
    BY <2>2, <2>4, <2>6 DEF Sets
  <2> QED
    BY <2>4, <2>5, <2>7, ThenSave
<1>2. SingleStage("smoke", possible, ToolErrors, <<W("smoke", m)>>, "quartet_gate", "quartet_pending")
  BY DEF Smoke
<1>3. "smoke" \in Stages \ {"complete"}
  BY PreparationStages
<1> HIDE DEF possible, m
<1> QED
  BY <1>1, <1>2, <1>3, ErrorTypes, SingleStageSound

LEMMA ProbeSound ==
  ASSUME CoreInv, PendingSound, Probe
  PROVE  PendingSound'
<1>1. /\ st.stage = "quartet_gate" /\ st.status # "quartet_repair_pending" /\ disk.probe = None
  BY DEF Probe, AtStage
<1>2. Suits(st, disk.integration, disk.manifest, disk.smoke, disk.probe, disk.quartet)
      /\ Snapshot \in Suited /\ Snapshot.disk = disk /\ Snapshot.disk.state = st
  BY SoundNow
<1>3. ASSUME Runnable, NEW kind \in {"clean", "broken"} \cup Findings, NEW x \in SameTargets(Snapshot),
             x.disk.state = st
      PROVE  Sound(<<W("probe", kind)>>, x)
  <2>1. x \in Suited /\ x \in Snapshots
    BY <1>2, EmptySeq, CalmBrings DEF SameTargets
  <2>2. /\ x.disk.manifest = disk.manifest /\ x.disk.smoke = disk.smoke /\ x.disk.probe = disk.probe
        /\ x.disk.quartet = disk.quartet
    BY <1>2 DEF SameTargets
  <2>3. Suits(st, x.disk.integration, disk.manifest, disk.smoke, disk.probe, disk.quartet)
    BY <1>3, <2>1, <2>2 DEF Suited, TargetsSuit
  <2>4. Suits(st, x.disk.integration, disk.manifest, disk.smoke, kind, disk.quartet)
    BY <1>1, <1>3, <2>3 DEF Suits, Supplied, OutOfTurn, Unfavoured, RepairPending, Runnable
  <2>5. PICK y \in Suited : Brings(<<W("probe", kind)>>, x, {y}) /\ <<W("probe", kind)>> \in Seq(Writes)
    BY <1>3, <2>1, <2>2, <2>4, TargetWrites
  <2>6. {y} \in SUBSET Snapshots
    BY DEF Suited
  <2> QED
    BY <2>5, <2>6, ReachSafe DEF Sound, Brings
<1>4. Snapshot \in SameTargets(Snapshot)
  BY <1>2, SoundNow DEF SameTargets
<1>5. ASSUME Runnable, NEW kind \in {"clean", "broken"} \cup Findings
      PROVE  /\ Sound(<<W("probe", kind)>>, Snapshot)
             /\ Sound(<<W("crash_files", TRUE), W("probe", kind)>>, Snapshot)
  <2>1. Sound(<<W("probe", kind)>>, Snapshot)
    BY <1>2, <1>3, <1>4, <1>5
  <2>2. W("crash_files", TRUE) \in Writes /\ W("probe", kind) \in Writes /\ W("crash_files", TRUE).file = "crash_files"
    BY FileWriteIsEarly, EarlyIsWrites DEF W
  <2>3. Store(Snapshot, W("crash_files", TRUE)) \in SameTargets(Snapshot)
        /\ Store(Snapshot, W("crash_files", TRUE)).disk.state = st
    BY <1>2, <1>4, <2>2, StoreReads, SoundNow DEF SameTargets
  <2>4. Sound(<<W("probe", kind)>>, Store(Snapshot, W("crash_files", TRUE)))
    BY <1>3, <1>5, <2>3
  <2>5. Sound(<<W("crash_files", TRUE)>> \o <<W("probe", kind)>>, Snapshot)
    <3>1. <<W("probe", kind)>> \in Seq(Writes) /\ Snapshot \in Snapshots
      BY <2>2, Single, SoundNow
    <3> QED
      BY <1>2, <2>2, <2>4, <3>1, SafeFirst DEF Sound
  <2>6. <<W("crash_files", TRUE)>> \o <<W("probe", kind)>> = <<W("crash_files", TRUE), W("probe", kind)>>
    BY <2>2, Pair
  <2> QED
    BY <2>1, <2>5, <2>6
<1>6. ASSUME Runnable, NEW e, NEW kind \in {"clean", "broken"} \cup Findings,
             Do(<<W("probe", kind)>>, e) \/ Do(<<W("crash_files", TRUE), W("probe", kind)>>, e)
      PROVE  PendingSound'
  BY <1>5, <1>6, DoSound
<1>7. Interrupted(<<W("crash_files", TRUE)>>) => PendingSound'
  BY CalmFiles, DoCalm
<1>8. \/ Do(<<>>, "missing") \/ Interrupted(<<>>) \/ Interrupted(<<W("crash_files", TRUE)>>)
      \/ Runnable /\ Do(<<W("probe", "clean")>>, None)
      \/ Runnable /\ \E kind \in Findings : Do(<<W("crash_files", TRUE), W("probe", kind)>>, None)
      \/ \E e \in ToolErrors : Do(<<>>, e)
      \/ Runnable /\ \E e \in ToolErrors : Do(<<W("probe", "broken")>>, e)
  BY DEF Probe
<1>9. CASE Runnable /\ \E kind \in Findings : Do(<<W("crash_files", TRUE), W("probe", kind)>>, None)
  BY <1>6, <1>9
<1>10. CASE Runnable /\ \E e \in ToolErrors : Do(<<W("probe", "broken")>>, e)
  BY <1>6, <1>10
<1>11. Runnable /\ Do(<<W("probe", "clean")>>, None) => PendingSound'
  BY <1>6
<1>12. (\E e \in ToolErrors \cup {"missing"} : Do(<<>>, e) \/ Interrupted(<<>>)) => PendingSound'
  BY NothingSound
<1> QED
  BY <1>7, <1>8, <1>9, <1>10, <1>11, <1>12

-----------------------------------------------------------------------------
(* Files moved away.                                                       *)

\* What is left of the tests and of the review, while the build stays what it is.
Remains(x) ==
  {v \in Snapshots :
     /\ v.disk.state = x.disk.state /\ v.disk.integration = x.disk.integration
     /\ v.disk.manifest = x.disk.manifest /\ v.disk.smoke \in {x.disk.smoke, None}
     /\ v.disk.probe \in {x.disk.probe, None} /\ v.disk.quartet \in {x.disk.quartet, NoReview}}

\* Writes that move tests and review away, or concern other files.
Clears == {w \in Writes : /\ w.file \notin {"state", "integration", "manifest"}
                          /\ w.file \in {"smoke", "probe", "quartet"} => w.value = Absent[w.file]}

\* What goes along with it: without the smoke test, or without any build, nothing is missed.
LEMMA RemainsSuit ==
  ASSUME NEW s, s.attempted \in SUBSET Targets, NEW i, NEW m, NEW k, NEW p, NEW q,
         Suits(s, i, m, k, p, q), k = None \/ (m = None /\ ~i),
         NEW k2 \in {k, None}, NEW p2 \in {p, None}, NEW q2 \in {q, NoReview}
  PROVE  Suits(s, i, m, k2, p2, q2)
<1>1. None \notin s.attempted /\ NoReview.target = None /\ NoReview.verdict = None /\ None # "ready"
      /\ None \notin Findings
  BY NoTargets DEF NoReview, Findings, None
<1>2. Supplied(s, m, k2, q2)
  BY <1>1 DEF Suits, Supplied, Room
<1>3. OutOfTurn(s, m) => /\ Unfavoured(s, p2, q2) /\ ~RepairPending(s)
                         /\ q2 = NoReview \/ p2 = None => k2 = None
  BY <1>1 DEF Suits, OutOfTurn, Unfavoured
<1>4. Unaided(s) /\ k2 \in s.attempted => /\ Unfavoured(s, p2, q2)
                                          /\ m = None \/ (q2 # NoReview /\ p2 # None)
  BY <1>1 DEF Suits, Unfavoured
<1> QED
  BY <1>2, <1>3, <1>4 DEF Suits

LEMMA ClearsBring ==
  ASSUME NEW x \in Suited, x.disk.smoke = None \/ (x.disk.manifest = None /\ ~x.disk.integration),
         NEW ws \in Seq(Clears)
  PROVE  /\ ws \in Seq(Writes) /\ Brings(ws, x, Remains(x))
         /\ Remains(x) \in SUBSET Suited
<1> DEFINE X == Remains(x)
<1>1. x \in Snapshots /\ TargetsSuit(x.disk) /\ x.disk.state.attempted \in SUBSET Targets
  BY SnapshotTypes DEF Suited
<1>2. X \in SUBSET Snapshots /\ x \in X
  BY <1>1 DEF Remains
<1>3. \A v \in X : TargetsSuit(v.disk)
  BY <1>1, RemainsSuit DEF Remains, TargetsSuit
<1>4. X \subseteq Suited
  BY <1>2, <1>3 DEF Suited
<1>5. \A v \in X, w \in Clears : Store(v, w) \in X
  BY StoreReads, EvidenceAbsent DEF Remains, Clears
<1>6. Clears \in SUBSET Writes
  BY DEF Clears
<1> HIDE DEF X
<1>7. \A u \in Seq(Clears), v \in X : u \in Seq(Writes) /\ Reaches(Suited, Snapshots, u, v, X)
  BY <1>2, <1>4, <1>5, <1>6, ReachStays
<1> QED
  BY <1>2, <1>4, <1>7 DEF Brings, X

LEMMA MovedClears ==
  ASSUME NEW f \in {"smoke", "probe", "quartet", "plan", "run", "progress", "afl", "summary", "crash_files"}
  PROVE  Moved(f) \in Seq(Clears)
<1>1. W(f, Absent[f]) \in Clears
  <2>1. W(f, Absent[f]) \in Early
    <3>1. NoReview \in Reviews
      BY DEF Reviews
    <3> QED
      BY <3>1, FileWriteIsEarly, AbsentTypes, EvidenceAbsent
  <2> QED
    BY <2>1, EarlyIsWrites DEF Clears, W
<1> QED
  BY <1>1, Single, EmptySeq DEF Moved

LEMMA ArchiveClears ==
  ASSUME CoreInv
  PROVE  /\ Moved("probe") \o Moved("quartet") \o Moved("plan") \o Moved("run")
              \o Moved("progress") \o TimeCarriedOver \o Moved("crash_files") \in Seq(Clears)
         /\ Moved("probe") \o <<W("quartet", NoReview)>> \o Moved("plan") \in Seq(Clears)
<1>1. /\ Moved("probe") \in Seq(Clears) /\ Moved("quartet") \in Seq(Clears)
      /\ Moved("plan") \in Seq(Clears) /\ Moved("run") \in Seq(Clears)
      /\ Moved("progress") \in Seq(Clears) /\ Moved("crash_files") \in Seq(Clears)
  BY MovedClears
<1>2. TimeCarriedOver \in Seq(Clears)
  <2> DEFINE w == W("progress", [disk.progress EXCEPT !.stalled = FALSE])
  <2>1. [disk.progress EXCEPT !.stalled = FALSE] \in Progresses
    BY DEF CoreInv, TypeInv, TypeOK, Disk, Progresses
  <2>2. w \in Clears
    BY <2>1, FileWriteIsEarly, EarlyIsWrites DEF Clears, W
  <2> HIDE DEF w
  <2>3. <<w>> \in Seq(Clears)
    BY <2>2, Single
  <2> QED
    BY <2>3, EmptySeq DEF TimeCarriedOver, w
<1>3. <<W("quartet", NoReview)>> \in Seq(Clears)
  <2>1. W("quartet", NoReview) \in Clears
    BY FileWriteIsEarly, EarlyIsWrites, EvidenceAbsent DEF Clears, W, Reviews
  <2> QED
    BY <2>1, Single
<1>4. \A a, b : a \in Seq(Clears) /\ b \in Seq(Clears) => a \o b \in Seq(Clears)
  BY ConcatProperties
<1> QED
  BY <1>1, <1>2, <1>3, <1>4

\* One file is moved away, from a snapshot in which it is as on the disk.
LEMMA MovedBrings ==
  ASSUME NEW x \in Suited, NEW f \in {"manifest", "smoke", "probe", "quartet"}, x.disk[f] = disk[f],
         Suits(x.disk.state, x.disk.integration,
               IF f = "manifest" THEN None ELSE x.disk.manifest,
               IF f = "smoke" THEN None ELSE x.disk.smoke,
               IF f = "probe" THEN None ELSE x.disk.probe,
               IF f = "quartet" THEN NoReview ELSE x.disk.quartet)
  PROVE  \E y \in Suited : /\ Sets(x, y, f, Absent[f]) /\ Brings(Moved(f), x, {y})
                           /\ Moved(f) \in Seq(Writes)
<1>1. Absent["manifest"] = None /\ NoReview \in Reviews
  BY DEF Absent, Reviews
<1>2. CASE disk[f] = Absent[f]
  <2>1. Moved(f) = <<>>
    BY <1>2 DEF Moved
  <2>2. Sets(x, x, f, Absent[f])
    BY <1>2 DEF Sets, Suited
  <2>3. Brings(<<>>, x, {x}) /\ <<>> \in Seq(Writes)
    BY ReachNone DEF Brings
  <2> QED
    BY <2>1, <2>2, <2>3
<1>3. CASE disk[f] # Absent[f]
  <2>1. Moved(f) = <<W(f, Absent[f])>>
    BY <1>3 DEF Moved
  <2>2. Suits(x.disk.state, x.disk.integration,
              IF f = "manifest" THEN Absent[f] ELSE x.disk.manifest,
              IF f = "smoke" THEN Absent[f] ELSE x.disk.smoke,
              IF f = "probe" THEN Absent[f] ELSE x.disk.probe,
              IF f = "quartet" THEN Absent[f] ELSE x.disk.quartet)
    BY <1>1, EvidenceAbsent
  <2>3. \E y \in Suited : /\ Sets(x, y, f, Absent[f]) /\ Brings(<<W(f, Absent[f])>>, x, {y})
                          /\ W(f, Absent[f]) \in Writes /\ <<W(f, Absent[f])>> \in Seq(Writes)
    BY <1>1, <2>2, EvidenceAbsent, TargetWrites
  <2> QED
    BY <2>1, <2>3
<1> QED
  BY <1>2, <1>3

\* Where the smoke test is moved away first, the other results may go, and a state be saved
\* that suits what may be left.
LEMMA SmokeMovedFirst ==
  ASSUME NEW x \in Suited, x.disk.smoke = disk.smoke, NEW ws \in Seq(Clears), NEW s \in GoodStates,
         \A p \in {x.disk.probe, None}, q \in {x.disk.quartet, NoReview} :
           Suits(s, x.disk.integration, x.disk.manifest, None, p, q)
  PROVE  /\ Sound(Moved("smoke") \o ws \o Save(s), x)
         /\ Moved("smoke") \o ws \o Save(s) \in Seq(Writes)
<1>1. x.disk.state.attempted \in SUBSET Targets
      /\ Suits(x.disk.state, x.disk.integration, x.disk.manifest, x.disk.smoke, x.disk.probe, x.disk.quartet)
  BY SnapshotTypes DEF Suited, TargetsSuit
<1>2. Suits(x.disk.state, x.disk.integration, x.disk.manifest, None, x.disk.probe, x.disk.quartet)
  <2>1. \/ x.disk.smoke = None
        \/ Suits(x.disk.state, x.disk.integration, x.disk.manifest, None, x.disk.probe, x.disk.quartet)
    BY <1>1, NoTargets DEF Suits, Supplied, Room
  <2> QED
    BY <1>1, <2>1
<1>3. PICK y \in Suited : /\ Sets(x, y, "smoke", Absent["smoke"]) /\ Brings(Moved("smoke"), x, {y})
                          /\ Moved("smoke") \in Seq(Writes)
  BY <1>2, MovedBrings
<1>4. /\ y.disk.state = x.disk.state /\ y.disk.integration = x.disk.integration
      /\ y.disk.manifest = x.disk.manifest /\ y.disk.smoke = None
      /\ y.disk.probe = x.disk.probe /\ y.disk.quartet = x.disk.quartet
  BY <1>3, EvidenceAbsent DEF Sets
<1>5. ws \in Seq(Writes) /\ Brings(ws, y, Remains(y)) /\ Remains(y) \in SUBSET Suited
  BY <1>4, ClearsBring
<1>6. Brings(Moved("smoke") \o ws, x, Remains(y)) /\ Moved("smoke") \o ws \in Seq(Writes)
  BY <1>3, <1>5, ReachOn DEF Brings
<1>7. \A z \in Remains(y) :
        Suits(s, z.disk.integration, z.disk.manifest, z.disk.smoke, z.disk.probe, z.disk.quartet)
  BY <1>4 DEF Remains
<1>8. Sound((Moved("smoke") \o ws) \o Save(s), x)
  BY <1>5, <1>6, <1>7, BringsSave
<1>9. (Moved("smoke") \o ws) \o Save(s) \in Seq(Writes)
  <2>1. Save(s) \in Seq(Writes)
    BY Single DEF Save, W, Writes
  <2> QED
    BY <1>6, <2>1, ConcatProperties
<1> QED
  BY <1>8, <1>9

\* A sound sequence of writes after some that lead to where it starts.
LEMMA SoundAfter ==
  ASSUME NEW a \in Seq(Writes), NEW x, NEW y, Brings(a, x, {y}), NEW b, Sound(b, y)
  PROVE  Sound(a \o b, x)
BY SafeNow DEF Brings, Reaches, Sound

\* Sequences of writes, put together in another order of steps.
Join(a, b) == a \o b

LEMMA JoinAssociates ==
  \A a, b, c \in Seq(Writes) :
    Join(Join(a, b), c) = Join(a, Join(b, c)) /\ Join(a, b) \in Seq(Writes)
<1> SUFFICES ASSUME NEW a \in Seq(Writes), NEW b \in Seq(Writes), NEW c \in Seq(Writes)
             PROVE  (a \o b) \o c = a \o (b \o c) /\ a \o b \in Seq(Writes)
  BY DEF Join
<1>1. (a \o b) \o c = a \o (b \o c)
  BY ConcatAssociative
<1>2. a \o b \in Seq(Writes)
  BY ConcatProperties
<1> QED
  BY <1>1, <1>2

\* Writes that lead to one snapshot, and then others to another one.
LEMMA BringsOn ==
  ASSUME NEW a \in Seq(Writes), NEW b \in Seq(Writes), NEW x, NEW y, NEW Z,
         Brings(a, x, {y}), Brings(b, y, Z)
  PROVE  Brings(a \o b, x, Z) /\ a \o b \in Seq(Writes)
<1> DEFINE Y == {y}
<1>1. Brings(a, x, Y) /\ \A v \in Y : Brings(b, v, Z)
  OBVIOUS
<1> HIDE DEF Y
<1> QED
  BY <1>1, ReachOn DEF Brings

-----------------------------------------------------------------------------
(* The gate.                                                               *)

LEMMA OneMore ==
  ASSUME NEW S \in SUBSET Targets, NEW t \in Targets
  PROVE  /\ Cardinality(S) \in Nat /\ Cardinality(S \cup {t}) \in Nat
         /\ Cardinality(S) <= Cardinality(S \cup {t}) /\ Cardinality(S \cup {t}) <= Cardinality(S) + 1
         /\ t \in S => S \cup {t} = S
<1>1. IsFiniteSet(S)
  BY TargetsAssumption, FS_Subset
<1>2. /\ Cardinality(S) \in Nat
      /\ t \notin S => Cardinality(S \cup {t}) = Cardinality(S) + 1
  BY <1>1, FS_CardinalityType, FS_AddElement
<1>3. CASE t \in S
  <2>1. S \cup {t} = S
    BY <1>3
  <2> QED
    BY <1>2, <2>1
<1>4. CASE t \notin S
  BY <1>2, <1>4
<1> QED
  BY <1>3, <1>4

\* The state with the reviewed target rejected.
Rejects(s, t, d) == d.attempted = s.attempted \cup {t} /\ (Unaided(d) => Unaided(s))

\* A rejected target leaves room for the one that is built, and was the first if none was
\* rejected before.
LEMMA RejectedSupply ==
  ASSUME NEW s, s.attempted \in SUBSET Targets, NEW m, NEW k, NEW q \in Reviews, q # NoReview,
         Supplied(s, m, k, q), NEW d, Rejects(s, q.target, d)
  PROVE  /\ q.target \in Targets /\ Cardinality(d.attempted) <= MaxTargets
         /\ FirstTarget \in d.attempted /\ d.attempted # {} /\ q.target \in d.attempted
         /\ k \in {None, q.target} /\ (m # None => Room(d.attempted, m))
         /\ Cardinality(s.attempted) <= Cardinality(d.attempted)
         /\ Cardinality(s.attempted) \in Nat /\ Cardinality(d.attempted) \in Nat
<1>1. q.target \in Targets
  BY DEF Reviews
<1> DEFINE c == Cardinality(s.attempted)
           e == Cardinality(s.attempted \cup {q.target})
<1>2. c \in Nat /\ e \in Nat /\ c <= e /\ e <= c + 1 /\ (q.target \in s.attempted => e = c)
  BY <1>1, OneMore
<1>3. d.attempted = s.attempted \cup {q.target} /\ Cardinality(d.attempted) = e
  BY DEF Rejects
<1>4. Room(s.attempted, q.target) /\ c <= MaxTargets
  BY DEF Supplied
<1>5. q.target \in s.attempted \/ c < MaxTargets
  BY <1>1, <1>4, NoTargets DEF Room
<1> HIDE DEF c, e
<1>6. e <= MaxTargets
  BY <1>2, <1>4, <1>5, NoTargets
<1>7. FirstTarget \in d.attempted
  BY <1>1, <1>3, NoTargets DEF Supplied
<1>8. k \in {None, q.target} /\ (m # None => Room(d.attempted, m))
  BY <1>3 DEF Supplied
<1> QED
  BY <1>1, <1>2, <1>3, <1>6, <1>7, <1>8 DEF c

\* A target is rejected without another one to try.
LEMMA RejectionSuits ==
  ASSUME NEW s, s.attempted \in SUBSET Targets, NEW i, NEW m, m # None, NEW k, NEW p, NEW q \in Reviews,
         Suits(s, i, m, k, p, q), q # NoReview, q.verdict # "ready", p # None, p \notin Findings,
         NEW d, Rejects(s, q.target, d), d.stage = "quartet_gate"
  PROVE  Suits(d, i, m, k, p, q)
<1>1. Supplied(s, m, k, q)
  BY DEF Suits
<1>2. /\ q.target \in Targets /\ Cardinality(d.attempted) <= MaxTargets
      /\ FirstTarget \in d.attempted /\ d.attempted # {} /\ q.target \in d.attempted
      /\ k \in {None, q.target} /\ Room(d.attempted, m)
  BY <1>1, RejectedSupply
<1>3. d.attempted \cup {q.target} = d.attempted
  BY <1>2
<1>4. Supplied(d, m, k, q)
  BY <1>2, <1>3 DEF Supplied, Room
<1> QED
  BY <1>2, <1>4 DEF Suits, OutOfTurn, Unfavoured, Parked, Preparation

\* Another target is put in the place of the rejected one, while its files are there.
LEMMA NextTargetSuits ==
  ASSUME NEW s, s.attempted \in SUBSET Targets, s.stage = "quartet_gate", ~RepairPending(s),
         NEW i, NEW m, NEW k, NEW p, NEW q \in Reviews,
         Suits(s, i, m, k, p, q), q # NoReview, q.verdict # "ready", p # None, p \notin Findings,
         NEW d, Rejects(s, q.target, d), Cardinality(d.attempted) < MaxTargets,
         NEW t \in Targets, t \notin d.attempted
  PROVE  Suits(s, i, t, k, p, q)
<1>1. Supplied(s, m, k, q)
  BY DEF Suits
<1>2. /\ Cardinality(s.attempted) <= Cardinality(d.attempted)
      /\ Cardinality(s.attempted) \in Nat /\ Cardinality(d.attempted) \in Nat
  BY <1>1, RejectedSupply
<1>3. Room(s.attempted, t) /\ Room(s.attempted \cup {q.target}, t)
  BY <1>2, NoTargets DEF Room, Rejects
<1>4. Supplied(s, t, k, q)
  BY <1>1, <1>3 DEF Supplied
<1> QED
  BY <1>4 DEF Suits, Unfavoured, Parked, Preparation

\* The state that sends the job back to the smoke test with it.
LEMMA RetrySuits ==
  ASSUME NEW s, s.attempted \in SUBSET Targets,
         NEW i, NEW m, NEW k, NEW p, NEW q \in Reviews, Suits(s, i, m, k, p, q), q # NoReview,
         NEW d, Rejects(s, q.target, d), d.stage = "smoke", Cardinality(d.attempted) < MaxTargets,
         NEW t \in Targets, t \notin d.attempted, NEW p2, NEW q2 \in {q, NoReview}
  PROVE  Suits(d, i, t, None, p2, q2)
<1>1. Supplied(s, m, k, q)
  BY DEF Suits
<1>2. /\ q.target \in Targets /\ FirstTarget \in d.attempted /\ d.attempted # {}
      /\ q.target \in d.attempted /\ Cardinality(d.attempted) <= MaxTargets
  BY <1>1, RejectedSupply
<1>3. None \notin d.attempted /\ NoReview.target = None
  BY <1>2, NoTargets DEF Rejects, NoReview
<1>4. d.attempted \cup {q.target} = d.attempted
  BY <1>2
<1>5. Supplied(d, t, None, q2)
  BY <1>2, <1>3, <1>4, NoTargets DEF Supplied, Room
<1> QED
  BY <1>2, <1>3, <1>5 DEF Suits, OutOfTurn, Preparation, RepairPending

\* A decision that rejects nothing: for a favourable review, for a finding of the probe, or
\* without a build.
LEMMA UnrejectedSuits ==
  ASSUME NEW s, s.stage = "quartet_gate", NEW i, NEW m, NEW k, NEW p, NEW q,
         Suits(s, i, m, k, p, q), p # None,
         q.verdict = "ready" \/ p \in Findings \/ m = None,
         NEW d, d.attempted = s.attempted, Unaided(d) => Unaided(s),
         \/ d.stage = "quartet_gate"
         \/ d.stage \in {"triage", "fuzzing", "coverage_analysis"} /\ (q.verdict = "ready" \/ p \in Findings)
  PROVE  Suits(d, i, m, k, p, q)
<1>1. Supplied(d, m, k, q)
  BY DEF Suits, Supplied
<1>2. ~OutOfTurn(d, m)
  BY DEF Suits, OutOfTurn, Unfavoured
<1>3. Unaided(d) /\ k \in d.attempted => /\ Unfavoured(d, p, q)
                                         /\ m = None \/ (q # NoReview /\ p # None)
  BY DEF Suits, Unfavoured, Parked
<1> QED
  BY <1>1, <1>2, <1>3 DEF Suits, Preparation, RepairPending


\* What the gate decides, by what it finds.
LEMMA GateSound ==
  ASSUME CoreInv, PendingSound, AtStage("quartet_gate"), pending' \in Seq(Writes), disk.probe # None,
         st.status = "quartet_repair_pending" => Finding,
         NEW review \in Reviews, review # NoReview, NEW before \in Seq(Writes),
         NEW x \in Suited, Brings(before, Snapshot, {x}),
         x.disk.state = st, x.disk.integration = disk.integration, x.disk.manifest = disk.manifest,
         x.disk.smoke = disk.smoke, x.disk.probe = disk.probe, x.disk.quartet = review,
         ApplyQuartetState(review, before)
  PROVE  PendingSound'
<1> DEFINE ready      == review.verdict = "ready"
           rejected   == ~ready /\ ~Finding /\ disk.manifest # None
           attempted  == IF rejected THEN st.attempted \cup {review.target} ELSE st.attempted
           candidates == Candidates(attempted)
           retry      == rejected /\ candidates # {} /\ MayTryAnother(attempted)
           s          == [st EXCEPT !.attempted = attempted]
           moves      == IF ~retry THEN <<>> ELSE
                           <<W("manifest", SelectTarget(candidates))>> \o Moved("smoke") \o Moved("probe")
                           \o <<W("quartet", NoReview)>> \o Moved("plan")
           decision   ==
             IF Finding /\ (ready \/ disk.probe = "sanitizer_error")
             THEN [To(s, "triage", "triage_pending") EXCEPT !.triage_artifact = "probe"]
             ELSE IF Finding /\ disk.probe # "uncaught_cpp_exception"
             THEN ReviewRequired(s, "untriaged")
             ELSE IF ready /\ disk.plan # None THEN To(s, "fuzzing", "ready")
             ELSE IF ready THEN To(s, "coverage_analysis", "analysis_pending")
             ELSE IF retry THEN To(s, "smoke", "target_retry_pending")
             ELSE IF Generated /\ disk.integration /\ s.quartet_repair < MaxGenerations
             THEN To(s, "quartet_gate", "quartet_repair_pending")
             ELSE [ReviewRequired(s, "exhausted") EXCEPT !.bounded = TRUE]
<1>1. /\ st \in LiveStates /\ st.stage = "quartet_gate" /\ st \in State
      /\ st.attempted \in SUBSET Targets
  BY GateFacts DEF AtStage, LiveStates, State
<1>2. Do(before \o moves \o Save(decision), None)
  BY DEF ApplyQuartetState
<1>3. attempted \in SUBSET Targets
  BY <1>1 DEF Reviews
<1>4. /\ decision.attempted = attempted
      /\ decision.harness_generation = st.harness_generation
      /\ decision.quartet_repair = st.quartet_repair
      /\ decision.automatic_recoveries = st.automatic_recoveries
      /\ retry => decision.stage = "smoke"
      /\ ~retry => \/ decision.stage = "quartet_gate"
                   \/ decision.stage \in {"triage", "fuzzing", "coverage_analysis"} /\ (ready \/ Finding)
  <2> HIDE DEF attempted, candidates
  <2>1. /\ s \in State /\ s.attempted = attempted /\ s.stage = "quartet_gate"
        /\ s.harness_generation = st.harness_generation
        /\ s.quartet_repair = st.quartet_repair
        /\ s.automatic_recoveries = st.automatic_recoveries
    BY <1>1, <1>3 DEF State
  <2> HIDE DEF s
  <2> DEFINE Like(d) == /\ d.attempted = attempted
                        /\ d.harness_generation = st.harness_generation
                        /\ d.quartet_repair = st.quartet_repair
                        /\ d.automatic_recoveries = st.automatic_recoveries
  <2>2. \A stage, status : Like(To(s, stage, status)) /\ To(s, stage, status).stage = stage
    BY <2>1 DEF To, State
  <2>3. /\ Like([To(s, "triage", "triage_pending") EXCEPT !.triage_artifact = "probe"])
        /\ [To(s, "triage", "triage_pending") EXCEPT !.triage_artifact = "probe"].stage = "triage"
    BY <2>1 DEF To, State
  <2>4. /\ \A e : Like(ReviewRequired(s, e)) /\ ReviewRequired(s, e).stage = "quartet_gate"
        /\ Like([ReviewRequired(s, "exhausted") EXCEPT !.bounded = TRUE])
        /\ [ReviewRequired(s, "exhausted") EXCEPT !.bounded = TRUE].stage = "quartet_gate"
    BY <2>1 DEF ReviewRequired, Flag, AtLeastOneFailure, State
  <2> HIDE DEF Like
  <2>5. Like(decision)
    BY <2>2, <2>3, <2>4
  <2>6. retry => decision.stage = "smoke"
    BY <2>2
  <2>7. ~retry => \/ decision.stage = "quartet_gate"
                  \/ decision.stage \in {"triage", "fuzzing", "coverage_analysis"} /\ (ready \/ Finding)
    BY <2>2, <2>3, <2>4
  <2> QED
    BY <2>5, <2>6, <2>7 DEF Like
<1> HIDE DEF decision
<1>5. Unaided(decision) => Unaided(st)
  BY <1>4 DEF Unaided
<1>6. Suits(st, disk.integration, disk.manifest, disk.smoke, disk.probe, review)
  BY DEF Suited, TargetsSuit
<1>7. CASE ~retry
  <2>1. moves = <<>>
    BY <1>7
  <2>2. before \o moves = before
    BY <2>1, ConcatEmptySeq
  <2>3. before \o Save(decision) \in Seq(Writes)
    BY <1>2, <2>2 DEF Do
  <2>4. decision \in GoodStates
    <3>1. W("state", decision) \in Writes
      BY <2>3, LastIsWrite DEF Save
    <3> QED
      BY <3>1 DEF W, Writes, FileWrites
  <2>5. Suits(decision, disk.integration, disk.manifest, disk.smoke, disk.probe, review)
    <3>1. CASE rejected
      <4>1. Rejects(st, review.target, decision) /\ decision.stage = "quartet_gate"
        BY <1>4, <1>5, <1>7, <3>1 DEF Rejects
      <4> HIDE DEF attempted, retry
      <4> QED
        BY <1>1, <1>6, <3>1, <4>1, RejectionSuits DEF Finding
    <3>2. CASE ~rejected
      <4>1. decision.attempted = st.attempted
        BY <1>4, <3>2
      <4>2. ready \/ disk.probe \in Findings \/ disk.manifest = None
        BY <3>2 DEF Finding
      <4>3. \/ decision.stage = "quartet_gate"
            \/ decision.stage \in {"triage", "fuzzing", "coverage_analysis"} /\ (ready \/ disk.probe \in Findings)
        BY <1>4, <1>7 DEF Finding
      <4> HIDE DEF attempted, retry
      <4> QED
        BY <1>1, <1>5, <1>6, <4>1, <4>2, <4>3, UnrejectedSuits
    <3> QED
      BY <3>1, <3>2
  <2>6. Sound(before \o Save(decision), Snapshot)
    BY <2>4, <2>5, ThenSave
  <2> QED
    BY <1>2, <2>2, <2>6, DoSound
<1>8. CASE retry
  <2> DEFINE t == SelectTarget(candidates)
             w == W("manifest", t)
             rest == Moved("probe") \o <<W("quartet", NoReview)>> \o Moved("plan")
  <2>1. rejected /\ candidates # {} /\ MayTryAnother(attempted) /\ attempted = st.attempted \cup {review.target}
    BY <1>8
  <2>2. Rejects(st, review.target, decision) /\ decision.stage = "smoke"
        /\ Cardinality(decision.attempted) < MaxTargets
    BY <1>4, <1>5, <1>8, <2>1 DEF Rejects, MayTryAnother
  <2>3. t \in Targets /\ t \notin decision.attempted
    <3> HIDE DEF attempted
    <3>1. candidates \subseteq Targets \ attempted
      BY DEF Candidates
    <3> HIDE DEF candidates
    <3>2. t \in candidates
      BY <2>1, <3>1, SelectedTarget
    <3> QED
      BY <1>4, <3>1, <3>2
  <2>4. ~ready /\ disk.probe \notin Findings /\ ~RepairPending(st)
    BY <2>1 DEF Finding, RepairPending
  <2>5. before \o moves \o Save(decision)
          = before \o (<<w>> \o Moved("smoke") \o Moved("probe") \o <<W("quartet", NoReview)>> \o Moved("plan"))
            \o Save(decision)
    BY <1>8
  <2> HIDE DEF attempted, candidates, retry, rejected, moves, t
  <2>6. PICK y \in Suited : /\ Sets(x, y, "manifest", t)
                            /\ Brings(<<w>>, x, {y}) /\ <<w>> \in Seq(Writes)
    <3>1. Suits(st, disk.integration, t, disk.smoke, disk.probe, review)
      BY <1>1, <1>6, <2>2, <2>3, <2>4, NextTargetSuits
    <3> QED
      BY <2>3, <3>1, TargetWrites
  <2>7. /\ y.disk.state = st /\ y.disk.integration = disk.integration
        /\ y.disk.manifest = t /\ y.disk.smoke = disk.smoke
        /\ y.disk.probe = disk.probe /\ y.disk.quartet = review
    BY <2>6 DEF Sets
  <2>8. rest \in Seq(Clears) /\ Moved("smoke") \in Seq(Writes)
    BY ArchiveClears, MovedIsEarly, EarlyIsWrites, SeqMonotonic DEF Absent
  <2>9. Moved("probe") \in Seq(Writes) /\ <<W("quartet", NoReview)>> \in Seq(Writes)
        /\ Moved("plan") \in Seq(Writes)
    <3>1. W("quartet", NoReview) \in Writes
      BY FileWriteIsEarly, EarlyIsWrites DEF Reviews
    <3> QED
      BY <3>1, Single, MovedIsEarly, EarlyIsWrites, SeqMonotonic DEF Absent
  <2>10. moves = <<w>> \o Moved("smoke") \o Moved("probe") \o <<W("quartet", NoReview)>> \o Moved("plan")
    BY <1>8 DEF moves, t
  <2>11. moves = <<w>> \o (Moved("smoke") \o rest)
    <3>1. <<w>> \in Seq(Writes)
      BY <2>6
    <3> HIDE DEF w
    <3>2. <<w>> \o Moved("smoke") \o Moved("probe") \o <<W("quartet", NoReview)>> \o Moved("plan")
            = <<w>> \o (Moved("smoke") \o rest)
      <4> DEFINE c == Moved("smoke")
                 d == Moved("probe")
                 e == <<W("quartet", NoReview)>>
                 f == Moved("plan")
                 b == <<w>>
      <4>1. /\ b \in Seq(Writes) /\ c \in Seq(Writes) /\ d \in Seq(Writes) /\ e \in Seq(Writes)
            /\ f \in Seq(Writes)
        BY <2>8, <2>9, <3>1
      <4> HIDE DEF b, c, d, e, f
      <4>2. Join(Join(Join(Join(b, c), d), e), f) = Join(b, Join(c, Join(Join(d, e), f)))
        BY <4>1, JoinAssociates
      <4> QED
        BY <4>2 DEF Join, rest, b, c, d, e, f
    <3> QED
      BY <2>10, <3>2
  <2>12. moves \in Seq(Writes)
    BY <2>6, <2>8, <2>9, <2>10, ConcatProperties
  <2>13. decision \in GoodStates
    <3>1. before \o moves \o Save(decision) \in Seq(Writes)
      BY <1>2 DEF Do
    <3>2. (before \o moves) \in Seq(Writes)
      BY <2>12, ConcatProperties
    <3>3. W("state", decision) \in Writes
      BY <3>1, <3>2, LastIsWrite DEF Save
    <3> QED
      BY <3>3 DEF W, Writes, FileWrites
  <2>14. /\ Sound(Moved("smoke") \o rest \o Save(decision), y)
         /\ Moved("smoke") \o rest \o Save(decision) \in Seq(Writes)
    <3>1. \A p \in {y.disk.probe, None}, q \in {y.disk.quartet, NoReview} :
            Suits(decision, y.disk.integration, y.disk.manifest, None, p, q)
      BY <1>1, <1>6, <2>2, <2>3, <2>7, RetrySuits
    <3> HIDE DEF rest
    <3> QED
      BY <2>7, <2>8, <2>13, <3>1, SmokeMovedFirst
  <2>15. /\ Brings(before \o <<w>>, Snapshot, {y}) /\ before \o <<w>> \in Seq(Writes)
    BY <2>6, BringsOn
  <2>16. Sound((before \o <<w>>) \o (Moved("smoke") \o rest \o Save(decision)), Snapshot)
    <3> DEFINE a == before \o <<w>>
               b == Moved("smoke") \o rest \o Save(decision)
    <3>1. a \in Seq(Writes) /\ Brings(a, Snapshot, {y}) /\ Sound(b, y)
      BY <2>14, <2>15
    <3> HIDE DEF a, b
    <3>2. Sound(a \o b, Snapshot)
      BY <3>1, SoundAfter
    <3> QED
      BY <3>2 DEF a, b
  <2>17. (before \o <<w>>) \o (Moved("smoke") \o rest \o Save(decision)) = before \o moves \o Save(decision)
    <3>1. /\ before \in Seq(Writes) /\ <<w>> \in Seq(Writes) /\ Moved("smoke") \o rest \in Seq(Writes)
          /\ Save(decision) \in Seq(Writes)
      <4>1. rest \in Seq(Writes)
        BY <2>9, ConcatProperties
      <4>2. Save(decision) \in Seq(Writes)
        BY <2>13, Single DEF Save, W, Writes
      <4> HIDE DEF rest
      <4> QED
        BY <2>6, <2>8, <4>1, <4>2, ConcatProperties
    <3>2. moves = <<w>> \o (Moved("smoke") \o rest)
      BY <2>11
    <3> HIDE DEF w, rest
    <3>3. (before \o <<w>>) \o ((Moved("smoke") \o rest) \o Save(decision))
            = before \o (<<w>> \o (Moved("smoke") \o rest)) \o Save(decision)
      <4> DEFINE c == Moved("smoke") \o rest
                 d == Save(decision)
                 b == <<w>>
      <4>1. b \in Seq(Writes) /\ c \in Seq(Writes) /\ d \in Seq(Writes)
        BY <3>1
      <4> HIDE DEF b, c, d
      <4>2. Join(Join(before, b), Join(c, d)) = Join(Join(before, Join(b, c)), d)
        BY <4>1, JoinAssociates
      <4> QED
        BY <4>2 DEF Join, b, c, d
    <3> QED
      BY <3>2, <3>3
  <2> QED
    BY <1>2, <2>16, <2>17, DoSound
<1> QED
  BY <1>7, <1>8

LEMMA QuartetSound ==
  ASSUME CoreInv, PendingSound, PendingFine, Quartet, pending' \in Seq(Writes)
  PROVE  PendingSound'
<1>1. /\ AtStage("quartet_gate") /\ st.stage = "quartet_gate" /\ disk \in GoodDisks /\ disk \in Disk
      /\ st.status # "quartet_repair_pending" /\ disk.probe # None
  BY GateFacts DEF Quartet, CoreInv, TypeInv, AtStage
<1>2. /\ Suits(st, disk.integration, disk.manifest, disk.smoke, disk.probe, disk.quartet)
      /\ Snapshot \in Suited /\ Snapshot.disk = disk /\ Snapshot.disk.state = st
  BY SoundNow
<1>3. CASE disk.quartet # NoReview /\ ApplyQuartetState(disk.quartet, <<>>)
  <2>1. disk.quartet \in Reviews
    BY <1>1 DEF GoodDisks
  <2>2. Brings(<<>>, Snapshot, {Snapshot}) /\ <<>> \in Seq(Writes)
    BY ReachNone DEF Brings
  <2> QED
    BY <1>1, <1>2, <1>3, <2>1, <2>2, GateSound
<1>4. CASE /\ disk.quartet = NoReview /\ Runnable
           /\ \E v \in {"ready", "rejected"} :
                LET review == [verdict |-> v, target |-> disk.smoke]
                IN  ApplyQuartetState(review, <<W("quartet", review)>>)
  <2>1. PICK v \in {"ready", "rejected"} :
          LET review == [verdict |-> v, target |-> disk.smoke]
          IN  ApplyQuartetState(review, <<W("quartet", review)>>)
    BY <1>4
  <2> DEFINE review == [verdict |-> v, target |-> disk.smoke]
             w == W("quartet", review)
  <2>2. review \in Reviews /\ review # NoReview /\ review.target = disk.smoke
    BY <1>1, <1>4 DEF Runnable, Disk, Reviews, NoReview, None
  <2>3. ApplyQuartetState(review, <<w>>)
    BY <2>1
  <2> HIDE DEF review
  <2>4. disk.smoke = disk.manifest /\ disk.smoke # None
    BY <1>1, <1>4, FineNow DEF Fits, SmokeIsCurrent, Built, Runnable
  <2>5. ~OutOfTurn(st, disk.manifest) /\ ~(Unaided(st) /\ disk.smoke \in st.attempted)
    BY <1>2, <1>4, <2>4 DEF Suits
  <2>6. Suits(st, disk.integration, disk.manifest, disk.smoke, disk.probe, review)
    BY <1>1, <1>2, <2>2, <2>4, <2>5 DEF Suits, Supplied, Room, Preparation
  <2>7. PICK x \in Suited : /\ Sets(Snapshot, x, "quartet", review)
                            /\ Brings(<<w>>, Snapshot, {x}) /\ <<w>> \in Seq(Writes)
    BY <1>2, <2>2, <2>6, TargetWrites
  <2>8. /\ x.disk.state = st /\ x.disk.integration = disk.integration
        /\ x.disk.manifest = disk.manifest /\ x.disk.smoke = disk.smoke
        /\ x.disk.probe = disk.probe /\ x.disk.quartet = review
    BY <1>2, <2>7 DEF Sets
  <2> HIDE DEF w
  <2> QED
    BY <1>1, <2>2, <2>3, <2>7, <2>8, GateSound
<1>5. (\E e \in ToolErrors \cup {"missing"} : Do(<<>>, e)) => PendingSound'
  BY NothingSound
<1>6. \/ disk.quartet # NoReview /\ ApplyQuartetState(disk.quartet, <<>>)
      \/ /\ disk.quartet = NoReview /\ Runnable
         /\ \E v \in {"ready", "rejected"} :
              LET review == [verdict |-> v, target |-> disk.smoke]
              IN  ApplyQuartetState(review, <<W("quartet", review)>>)
      \/ \E e \in ToolErrors \cup {"missing"} : Do(<<>>, e)
  BY DEF Quartet
<1> QED
  BY <1>3, <1>4, <1>5, <1>6


-----------------------------------------------------------------------------
(* A build made anew, its results archived: harness repair and generation. *)

\* A harness is rebuilt for a target that is built, tested or reviewed already.
LEMMA RebuiltSuits ==
  ASSUME NEW s, s.attempted \in SUBSET Targets, s.stage \notin Preparation \cup {"smoke"},
         NEW i, NEW m, NEW k, NEW p, NEW q \in Reviews, Suits(s, i, m, k, p, q),
         Unaided(s) /\ k \in s.attempted => q # NoReview /\ p # None,
         NEW t \in Targets, t \in {m, k, q.target}, t = m => ~OutOfTurn(s, m)
  PROVE  /\ Suits(s, i, FirstTarget, k, p, q) /\ Suits(s, i, t, k, p, q)
         /\ \A d, p2 : \A q2 \in {q, NoReview} :
              d.attempted = s.attempted /\ d.stage = "smoke" /\ ~Unaided(d) => Suits(d, i, t, None, p2, q2)
<1>1. Supplied(s, m, k, q) /\ (q # NoReview => q.target \in Targets) /\ NoReview.target = None
  BY DEF Suits, Reviews, NoReview
<1>2. None \notin s.attempted /\ t # None /\ FirstTarget # None
  BY NoTargets
<1>3. Room(s.attempted, FirstTarget) /\ (q # NoReview => Room(s.attempted \cup {q.target}, FirstTarget))
  <2>1. CASE s.attempted = {}
    BY <1>1, <2>1, NoTargets DEF Supplied, Room
  <2>2. CASE s.attempted # {}
    BY <1>1, <2>2 DEF Supplied, Room
  <2> QED
    BY <2>1, <2>2
<1>4. Room(s.attempted, t) /\ (q # NoReview => Room(s.attempted \cup {q.target}, t)) /\ ~OutOfTurn(s, t)
  <2>1. CASE t = m
    BY <1>1, <1>2, <2>1 DEF Supplied
  <2>2. CASE t \in {k, q.target}
    BY <1>1, <1>2, <2>2 DEF Supplied, Room, OutOfTurn
  <2> QED
    BY <2>1, <2>2
<1>5. Supplied(s, FirstTarget, k, q) /\ Supplied(s, t, k, q)
  BY <1>1, <1>3, <1>4 DEF Supplied
<1>6. Suits(s, i, FirstTarget, k, p, q) /\ Suits(s, i, t, k, p, q)
  BY <1>4, <1>5 DEF Suits, OutOfTurn
<1>7. ASSUME NEW d, NEW p2, NEW q2 \in {q, NoReview}, d.attempted = s.attempted, d.stage = "smoke", ~Unaided(d)
      PROVE  Suits(d, i, t, None, p2, q2)
  <2>1. Supplied(d, t, None, q2)
    BY <1>1, <1>4, <1>5, <1>7, NoTargets DEF Supplied, Room
  <2>2. ~OutOfTurn(d, t)
    BY <1>4, <1>7 DEF OutOfTurn
  <2> QED
    BY <1>7, <2>1, <2>2 DEF Suits, RepairPending
<1> QED
  BY <1>6, <1>7

\* What is archived after the smoke test.
Rest == Moved("probe") \o Moved("quartet") \o Moved("plan") \o Moved("run") \o Moved("progress")
          \o TimeCarriedOver \o Moved("crash_files")

LEMMA ArchiveSplits ==
  ASSUME CoreInv
  PROVE  /\ ArchivePreGenerationResults = Moved("smoke") \o Rest
         /\ Rest \in Seq(Clears) /\ Rest \in Seq(Writes) /\ Moved("smoke") \in Seq(Writes)
<1> DEFINE a == Moved("smoke")
           b == Moved("probe")
           c == Moved("quartet")
           d == Moved("plan")
           e == Moved("run")
           f == Moved("progress")
           g == TimeCarriedOver
           h == Moved("crash_files")
<1>1. Rest \in Seq(Clears)
  BY ArchiveClears DEF Rest
<1>2. /\ a \in Seq(Writes) /\ b \in Seq(Writes) /\ c \in Seq(Writes) /\ d \in Seq(Writes)
      /\ e \in Seq(Writes) /\ f \in Seq(Writes) /\ h \in Seq(Writes)
  <2>1. \A ws \in Seq(Clears) : ws \in Seq(Writes)
    BY SeqMonotonic DEF Clears
  <2> QED
    BY <2>1, MovedClears
<1>3. g \in Seq(Writes)
  <2> DEFINE w == W("progress", [disk.progress EXCEPT !.stalled = FALSE])
  <2>1. [disk.progress EXCEPT !.stalled = FALSE] \in Progresses
    BY DEF CoreInv, TypeInv, TypeOK, Disk, Progresses
  <2>2. w \in Writes
    BY <2>1, FileWriteIsEarly, EarlyIsWrites
  <2> HIDE DEF w
  <2>3. <<w>> \in Seq(Writes)
    BY <2>2, Single
  <2> QED
    BY <2>3, EmptySeq DEF TimeCarriedOver, w
<1>4. ArchivePreGenerationResults
        = Join(Join(Join(Join(Join(Join(Join(a, b), c), d), e), f), g), h)
  BY DEF ArchivePreGenerationResults, Results, Join
<1>5. Rest = Join(Join(Join(Join(Join(Join(b, c), d), e), f), g), h)
  BY DEF Rest, Join
<1>6. Rest \in Seq(Writes)
  BY <1>1, SeqMonotonic DEF Clears
<1> HIDE DEF a, b, c, d, e, f, g, h
<1>7. Join(Join(a, b), c) = Join(a, Join(b, c)) /\ Join(b, c) \in Seq(Writes)
  BY <1>2, JoinAssociates
<1> DEFINE v == Join(b, c)
<1> HIDE DEF v
<1>8. Join(Join(a, v), d) = Join(a, Join(v, d)) /\ Join(v, d) \in Seq(Writes)
  BY <1>2, <1>7, JoinAssociates DEF v
<1> DEFINE w == Join(v, d)
<1> HIDE DEF w
<1>9. Join(Join(a, w), e) = Join(a, Join(w, e)) /\ Join(w, e) \in Seq(Writes)
  BY <1>2, <1>8, JoinAssociates DEF w
<1> DEFINE x == Join(w, e)
<1> HIDE DEF x
<1>10. Join(Join(a, x), f) = Join(a, Join(x, f)) /\ Join(x, f) \in Seq(Writes)
  BY <1>2, <1>9, JoinAssociates DEF x
<1> DEFINE y == Join(x, f)
<1> HIDE DEF y
<1>11. Join(Join(a, y), g) = Join(a, Join(y, g)) /\ Join(y, g) \in Seq(Writes)
  BY <1>2, <1>3, <1>10, JoinAssociates DEF y
<1> DEFINE z == Join(y, g)
<1> HIDE DEF z
<1>12. Join(Join(a, z), h) = Join(a, Join(z, h))
  BY <1>2, <1>11, JoinAssociates DEF z
<1>13. ArchivePreGenerationResults = Join(a, Rest)
  BY <1>4, <1>5, <1>7, <1>8, <1>9, <1>10, <1>11, <1>12 DEF v, w, x, y, z
<1> QED
  BY <1>1, <1>2, <1>6, <1>13 DEF Join, a

LEMMA ReplacedSound ==
  ASSUME CoreInv, PendingSound, NEW v \in SUBSET Targets, NEW t \in Targets,
         Suits(st, disk.integration, FirstTarget, disk.smoke, disk.probe, disk.quartet),
         Suits(st, disk.integration, t, disk.smoke, disk.probe, disk.quartet),
         NEW s \in GoodStates,
         \A p2 : \A q2 \in {disk.quartet, NoReview} : Suits(s, disk.integration, t, None, p2, q2)
  PROVE  Sound(<<W("rewritten", v)>> \o Rebuilt(t) \o ArchivePreGenerationResults \o Save(s), Snapshot)
<1> DEFINE r == <<W("rewritten", v)>>
           m == <<W("manifest", FirstTarget)>>
           n == <<W("manifest", t)>>
           a == Moved("smoke")
<1>1. Snapshot \in Suited /\ Snapshot.disk = disk /\ Snapshot.disk.state = st /\ Snapshot \in Snapshots
      /\ Suits(st, disk.integration, disk.manifest, disk.smoke, disk.probe, disk.quartet)
  BY SoundNow
<1>2. PICK x \in Suited :
        /\ Brings(r, Snapshot, {x}) /\ r \in Seq(Writes)
        /\ x.disk.state = st /\ x.disk.integration = disk.integration
        /\ x.disk.manifest = disk.manifest /\ x.disk.smoke = disk.smoke
        /\ x.disk.probe = disk.probe /\ x.disk.quartet = disk.quartet
  <2> DEFINE w == W("rewritten", v)
             x == Store(Snapshot, w)
  <2>1. w \in Writes /\ w.file = "rewritten"
    BY FileWriteIsEarly, EarlyIsWrites DEF W
  <2> HIDE DEF w
  <2>2. /\ x.disk.state = st /\ x.disk.integration = disk.integration
        /\ x.disk.manifest = disk.manifest /\ x.disk.smoke = disk.smoke
        /\ x.disk.probe = disk.probe /\ x.disk.quartet = disk.quartet /\ x \in Snapshots
    BY <1>1, <2>1, StoreReads
  <2> HIDE DEF x
  <2>3. x \in Suited
    BY <1>1, <2>2 DEF Suited, TargetsSuit
  <2>4. Brings(<<w>>, Snapshot, {x}) /\ <<w>> \in Seq(Writes)
    BY <1>1, <2>1, ReachOne DEF Brings, x
  <2> QED
    BY <2>2, <2>3, <2>4 DEF w
<1>3. PICK y \in Suited : Sets(x, y, "manifest", FirstTarget) /\ Brings(m, x, {y}) /\ m \in Seq(Writes)
  BY <1>2, NoTargets, TargetWrites
<1>4. PICK z \in Suited : Sets(y, z, "manifest", t) /\ Brings(n, y, {z}) /\ n \in Seq(Writes)
  <2>1. /\ y.disk.state = st /\ y.disk.integration = disk.integration /\ y.disk.smoke = disk.smoke
        /\ y.disk.probe = disk.probe /\ y.disk.quartet = disk.quartet
    BY <1>2, <1>3 DEF Sets
  <2>2. Suits(y.disk.state, y.disk.integration, t, y.disk.smoke, y.disk.probe, y.disk.quartet)
    BY <2>1
  <2> HIDE DEF n
  <2>3. \E z \in Suited : /\ Sets(y, z, "manifest", t) /\ Brings(<<W("manifest", t)>>, y, {z})
                         /\ <<W("manifest", t)>> \in Seq(Writes)
    BY <2>2, TargetWrites
  <2> QED
    BY <2>3 DEF n
<1>5. /\ z.disk.integration = disk.integration /\ z.disk.manifest = t /\ z.disk.smoke = disk.smoke
      /\ z.disk.probe = disk.probe /\ z.disk.quartet = disk.quartet
  BY <1>2, <1>3, <1>4 DEF Sets
<1>6. Sound(a \o Rest \o Save(s), z)
  BY <1>5, ArchiveSplits, SmokeMovedFirst
<1>7. Save(s) \in Seq(Writes)
  BY Single DEF Save, W, Writes
<1>8. Rebuilt(t) = m \o n
  <2>1. W("manifest", FirstTarget) \in Writes /\ W("manifest", t) \in Writes
    BY NoTargets, FileWriteIsEarly, EarlyIsWrites
  <2> QED
    BY <2>1, Pair DEF Rebuilt, FirstTarget
<1>9. a \in Seq(Writes) /\ Rest \in Seq(Writes) /\ ArchivePreGenerationResults = a \o Rest
  BY ArchiveSplits
<1> DEFINE u == a \o Rest \o Save(s)
<1>10. u \in Seq(Writes)
  <2>1. Join(Join(a, Rest), Save(s)) \in Seq(Writes)
    <3> HIDE DEF a
    <3> QED
      BY <1>7, <1>9, JoinAssociates
  <2> QED
    BY <2>1 DEF Join
<1> HIDE DEF r, m, n, a, u
<1>11. Brings(r \o m, Snapshot, {y}) /\ r \o m \in Seq(Writes)
  BY <1>2, <1>3, BringsOn
<1>12. Sound(n \o u, y)
  BY <1>4, <1>6, SoundAfter DEF u
<1> DEFINE b == r \o m
           c == n \o u
<1>13. b \in Seq(Writes) /\ Brings(b, Snapshot, {y}) /\ Sound(c, y)
  BY <1>11, <1>12
<1> HIDE DEF b, c
<1>14. Sound(b \o c, Snapshot)
  BY <1>13, SoundAfter
<1>15. Join(Join(r, m), Join(n, Join(Join(a, Rest), Save(s))))
         = Join(Join(Join(r, Join(m, n)), Join(a, Rest)), Save(s))
  <2>1. /\ r \in Seq(Writes) /\ m \in Seq(Writes) /\ n \in Seq(Writes) /\ Save(s) \in Seq(Writes)
        /\ Join(a, Rest) \in Seq(Writes)
    BY <1>2, <1>3, <1>4, <1>7, <1>9, JoinAssociates
  <2> DEFINE e == Join(a, Rest)
             f == Save(s)
  <2>2. e \in Seq(Writes) /\ f \in Seq(Writes)
    BY <2>1
  <2> HIDE DEF e, f
  <2>3. Join(Join(r, m), Join(n, Join(e, f))) = Join(Join(Join(r, Join(m, n)), e), f)
    <3>1. Join(e, f) \in Seq(Writes) /\ Join(m, n) \in Seq(Writes) /\ Join(r, m) \in Seq(Writes)
          /\ Join(Join(r, m), n) \in Seq(Writes)
      BY <2>1, <2>2, JoinAssociates
    <3>2. Join(Join(r, m), Join(n, Join(e, f))) = Join(Join(Join(r, m), n), Join(e, f))
      BY <2>1, <3>1, JoinAssociates
    <3>3. Join(Join(Join(r, m), n), Join(e, f)) = Join(Join(Join(Join(r, m), n), e), f)
      BY <2>2, <3>1, JoinAssociates
    <3>4. Join(Join(r, m), n) = Join(r, Join(m, n))
      BY <2>1, JoinAssociates
    <3> QED
      BY <3>2, <3>3, <3>4
  <2> QED
    BY <2>3 DEF e, f
<1>16. b \o c = r \o (m \o n) \o (a \o Rest) \o Save(s)
  BY <1>15 DEF Join, b, c, u
<1> QED
  BY <1>8, <1>9, <1>14, <1>16 DEF r


LEMMA RepairSound ==
  ASSUME CoreInv, PendingSound, PendingFine, RepairQuartetHarness, pending' \in Seq(Writes)
  PROVE  PendingSound'
<1>1. /\ AtStage("quartet_gate") /\ st.stage = "quartet_gate" /\ st.status = "quartet_repair_pending"
      /\ st \in LiveStates /\ disk \in GoodDisks /\ disk \in Disk
  BY GateFacts DEF RepairQuartetHarness, CoreInv, TypeInv, AtStage
<1>2. /\ Suits(st, disk.integration, disk.manifest, disk.smoke, disk.probe, disk.quartet)
      /\ Snapshot \in Suited /\ Snapshot.disk = disk /\ Snapshot.disk.state = st /\ st \in State
  BY SoundNow
<1>3. /\ disk.quartet \in Reviews /\ st.attempted \in SUBSET Targets
      /\ disk.manifest \in Targets \cup {None} /\ disk.smoke \in Targets \cup {None}
  BY TargetsNow
<1>4. (\E e \in PolicyErrors \cup ToolErrors \cup {"missing"} : Do(<<>>, e) \/ Interrupted(<<>>)) => PendingSound'
  BY NothingSound
<1>5. CASE disk.quartet # NoReview /\ Finding /\ ApplyQuartetState(disk.quartet, <<>>)
  <2>1. Brings(<<>>, Snapshot, {Snapshot}) /\ <<>> \in Seq(Writes)
    BY ReachNone DEF Brings
  <2>2. disk.probe # None
    BY <1>5 DEF Finding, Findings, None
  <2> QED
    BY <1>1, <1>2, <1>3, <1>5, <2>1, <2>2, GateSound
<1>6. ASSUME NEW e, Do(Save(Flag(st, "quartet_review_required", "repair")), e)
      PROVE  PendingSound'
  <2> DEFINE s == Flag(st, "quartet_review_required", "repair")
  <2>1. s \in Kin(st) /\ s.stage = "quartet_gate" /\ s.status = "quartet_review_required"
    <3>1. "quartet_review_required" \in Statuses /\ "repair" \in Errors
          /\ "quartet_review_required" # "quartet_repair_pending"
      BY ErrorTypes DEF Statuses, MANUAL_STATUSES, OwnErrors
    <3>2. st \in Kin(st)
      BY <1>1, LiveIsGood DEF Kin
    <3> QED
      BY <1>1, <3>1, <3>2, KinMoves
  <2> HIDE DEF s
  <2>2. s \in Followers(st)
    BY <1>1, <2>1 DEF Followers, Follows, Kin, Unaided, RepairPending, Parked, Preparation
  <2>3. Save(s) \in Seq(Calm(st))
    BY <2>2, CalmState
  <2> QED
    BY <1>6, <2>3, DoCalm DEF s
<1>7. CASE /\ disk.integration /\ disk.quartet # NoReview
           /\ Do(<<W("rewritten", {})>> \o Rebuilt(disk.quartet.target)
                   \o ArchivePreGenerationResults \o Save(Repaired(st)), None)
  <2> DEFINE s == Repaired(st)
             t == disk.quartet.target
  <2>1. t \in Targets
    BY <1>3, <1>7 DEF Reviews
  <2>2. /\ s \in GoodStates /\ s.attempted = st.attempted /\ s.stage = "smoke"
        /\ s.quartet_repair = st.quartet_repair + 1 /\ st.quartet_repair \in Nat
    <3>1. s \in GoodStates
      BY <1>1, CountedOn, GoesOnWell DEF LiveStates
    <3> QED
      BY <1>1, <1>2, <3>1 DEF Repaired, To, State
  <2>3. ~Unaided(s)
    BY <2>2 DEF Unaided
  <2>4. Unaided(st) /\ disk.smoke \in st.attempted => disk.quartet # NoReview /\ disk.probe # None
    BY <1>1, <1>2, <1>3, <1>7, NoTargets DEF Suits, RepairPending
  <2>5. t = disk.manifest => ~OutOfTurn(st, disk.manifest)
    BY <1>2, <1>7, <2>1, NoTargets DEF Suits, Supplied, OutOfTurn
  <2> HIDE DEF s, t
  <2>6. st.stage \notin Preparation \cup {"smoke"} /\ t \in {disk.manifest, disk.smoke, disk.quartet.target}
    BY <1>1 DEF Preparation, t
  <2>7. /\ Suits(st, disk.integration, FirstTarget, disk.smoke, disk.probe, disk.quartet)
        /\ Suits(st, disk.integration, t, disk.smoke, disk.probe, disk.quartet)
        /\ \A d, p2 : \A q2 \in {disk.quartet, NoReview} :
             d.attempted = st.attempted /\ d.stage = "smoke" /\ ~Unaided(d)
               => Suits(d, disk.integration, t, None, p2, q2)
    BY <1>2, <1>3, <2>1, <2>4, <2>5, <2>6, RebuiltSuits
  <2>8. Sound(<<W("rewritten", {})>> \o Rebuilt(t) \o ArchivePreGenerationResults \o Save(s), Snapshot)
    BY <2>1, <2>2, <2>3, <2>7, ReplacedSound
  <2> QED
    BY <1>7, <2>8, DoSound DEF s, t
<1>8. \/ \E e \in PolicyErrors \cup ToolErrors \cup {"missing"} : Do(<<>>, e) \/ Interrupted(<<>>)
      \/ disk.quartet # NoReview /\ Finding /\ ApplyQuartetState(disk.quartet, <<>>)
      \/ \E e \in BuildErrors : Do(Save(Flag(st, "quartet_review_required", "repair")), e)
      \/ /\ disk.integration /\ disk.quartet # NoReview
         /\ Do(<<W("rewritten", {})>> \o Rebuilt(disk.quartet.target)
                 \o ArchivePreGenerationResults \o Save(Repaired(st)), None)
  BY DEF RepairQuartetHarness
<1>9. (\E e \in BuildErrors : Do(Save(Flag(st, "quartet_review_required", "repair")), e)) => PendingSound'
  BY <1>6
<1> QED
  BY <1>4, <1>5, <1>7, <1>8, <1>9

LEMMA GenerateSound ==
  ASSUME CoreInv, PendingSound, Generate
  PROVE  PendingSound'
<1>1. /\ st \in LiveStates /\ st \in Onward(st) /\ ~Parked(st) /\ disk \in Disk /\ st.stage = "fuzzing"
  BY FuzzingOnward DEF Generate
<1>2. Suits(st, disk.integration, disk.manifest, disk.smoke, disk.probe, disk.quartet) /\ st \in State
  BY SoundNow
<1>3. /\ disk.quartet \in Reviews /\ st.attempted \in SUBSET Targets
      /\ disk.manifest \in Targets \cup {None} /\ disk.smoke \in Targets \cup {None}
  BY TargetsNow
<1> DEFINE target == IF disk.smoke # None THEN disk.smoke ELSE disk.manifest
           harnesses == IF route = "native_generated" THEN disk.rewritten ELSE disk.rewritten \cup {target}
           write  == W("rewritten", harnesses)
           undone == <<write, W("rewritten", disk.rewritten)>>
           s == [To(st, "smoke", "generated") EXCEPT !.harness_generation = @ + 1]
<1>4. CASE \E e \in {"missing", "evidence"} : Do(<<>>, e)
  BY <1>4, NothingSound
<1> SUFFICES ASSUME disk.manifest # None,
               \/ \E e \in BuildErrors : Do(undone \o Save(Flag(st, "generation_failed", e)), e)
               \/ Interrupted(undone)
               \/ Do(<<write>> \o Rebuilt(target) \o ArchivePreGenerationResults \o Save(s), None)
    PROVE PendingSound'
  BY <1>4 DEF Generate
<1>5. target \in Targets /\ harnesses \in SUBSET Targets /\ disk.rewritten \in SUBSET Targets
      /\ target \in {disk.manifest, disk.smoke, disk.quartet.target}
  BY <1>1 DEF Disk
<1> HIDE DEF harnesses, target
<1>6. undone \in Seq(Calm(st))
  BY <1>5, CalmFiles, Pair
<1> HIDE DEF undone
<1>7. Interrupted(undone) => PendingSound'
  BY <1>6, DoCalm
<1>8. ASSUME NEW e \in BuildErrors, Do(undone \o Save(Flag(st, "generation_failed", e)), e)
      PROVE  PendingSound'
  <2>1. Flag(st, "generation_failed", e) \in Onward(st)
    <3>1. "generation_failed" \in Statuses /\ e \in Errors /\ "generation_failed" # "quartet_repair_pending"
      BY FuzzingStatuses, ErrorTypes
    <3> QED
      BY <1>1, <3>1, KinMoves DEF Onward
  <2> QED
    BY <1>1, <1>6, <1>8, <2>1, OnwardSound
<1>9. CASE Do(<<write>> \o Rebuilt(target) \o ArchivePreGenerationResults \o Save(s), None)
  <2>1. /\ s \in GoodStates /\ s.attempted = st.attempted /\ s.stage = "smoke"
        /\ s.harness_generation = st.harness_generation + 1 /\ st.harness_generation \in Nat
    <3>1. s \in GoodStates
      BY <1>1, CountedOn, GoesOnWell DEF Generate
    <3> QED
      BY <1>1, <1>2, <3>1 DEF To, State
  <2> HIDE DEF s
  <2>2. ~Unaided(s)
    BY <2>1 DEF Unaided
  <2>3. ~(Unaided(st) /\ disk.smoke \in st.attempted) /\ ~OutOfTurn(st, disk.manifest)
    BY <1>1, <1>2 DEF Suits, Unfavoured
  <2>4. st.stage \notin Preparation \cup {"smoke"}
    BY <1>1 DEF Preparation
  <2>5. /\ Suits(st, disk.integration, FirstTarget, disk.smoke, disk.probe, disk.quartet)
        /\ Suits(st, disk.integration, target, disk.smoke, disk.probe, disk.quartet)
        /\ \A d, p2 : \A q2 \in {disk.quartet, NoReview} :
             d.attempted = st.attempted /\ d.stage = "smoke" /\ ~Unaided(d)
               => Suits(d, disk.integration, target, None, p2, q2)
    BY <1>2, <1>3, <1>5, <2>3, <2>4, RebuiltSuits
  <2>6. Sound(<<write>> \o Rebuilt(target) \o ArchivePreGenerationResults \o Save(s), Snapshot)
    BY <1>5, <2>1, <2>2, <2>5, ReplacedSound
  <2> QED
    BY <1>9, <2>6, DoSound
<1>10. (\E e \in BuildErrors : Do(undone \o Save(Flag(st, "generation_failed", e)), e)) => PendingSound'
  BY <1>8
<1> QED
  BY <1>7, <1>9, <1>10


LEMMA HandlersSound ==
  ASSUME CoreInv, PendingFine, PendingSound, Handler
  PROVE  PendingSound'
<1>1. pending' \in Seq(Writes)
  BY HandlersDo, HandedPending DEF HandlerStep
<1> QED
  BY <1>1, PrepareSound, IntegrateSound, BuildSound, SmokeSound, ProbeSound, QuartetSound, RepairSound,
     AnalyzeSound, GenerateSound, GenerationLimitSound, FuzzSound, AflSound, TriageSound, ValidateSound
     DEF Handler

-----------------------------------------------------------------------------
(* The steps around the handlers.                                          *)

\* The writes to come start from the files as they are, whoever makes them.
LEMMA SoundFrom ==
  ASSUME CoreInv, PendingSound, NEW b \in BOOLEAN
  PROVE  LET x == [Snapshot EXCEPT !.own = b]
         IN  x \in Suited /\ x.disk = disk /\ x.spent = spent /\ x.own = b
BY SoundNow DEF Suited, Snapshots, Snapshot

LEMMA Restarted ==
  ASSUME CoreInv, PendingSound, pending' = <<>>, disk' = disk, spent' = spent
  PROVE  PendingSound'
<1> DEFINE b == (mode = "operator")'
           x == [Snapshot EXCEPT !.own = b]
<1>1. x \in Suited /\ x.disk = disk /\ x.spent = spent /\ x.own = b /\ x \in Snapshots
  <2>1. b \in BOOLEAN
    OBVIOUS
  <2> HIDE DEF b
  <2> QED
    BY <2>1, SoundFrom DEF Suited
<1>2. Snapshot' = x
  BY <1>1 DEF Snapshot, Snapshots
<1>3. Sound(<<>>, x)
  BY <1>1, NothingSafe DEF Sound
<1> QED
  BY <1>2, <1>3 DEF PendingSound

LEMMA ReadySound ==
  ASSUME CoreInv, PendingSound, Ready, pending' \in Seq(Writes)
  PROVE  PendingSound'
<1>1. /\ st.stage = "fuzzing" /\ st \in LiveStates /\ mode \in {"setup", "followup"}
      /\ disk' = disk /\ spent' = spent
      /\ \/ mode = "setup" /\ mode' = "run" /\ pending' = pending
         \/ mode' = mode /\ pending' = Save([st EXCEPT !.stage = "complete", !.status = "exhausted"])
  BY LiveAtTop DEF Ready, AtStage, history, CoreInv
<1>2. Snapshot' = Snapshot
  BY <1>1 DEF Snapshot
<1>3. CASE pending' = pending
  BY <1>2, <1>3 DEF PendingSound
<1>4. CASE pending' = Save([st EXCEPT !.stage = "complete", !.status = "exhausted"])
  <2> DEFINE s == [st EXCEPT !.stage = "complete", !.status = "exhausted"]
  <2>1. <<>> \o <<W("state", s)>> = pending' /\ <<>> \in Seq(Writes)
    BY <1>4, Single, ConcatEmptySeq, EmptySeq DEF Save
  <2>2. W("state", s) \in Writes
    BY <2>1, LastIsWrite
  <2>3. s \in GoodStates
    BY <2>2 DEF W, Writes, FileWrites
  <2>4. s \in Onward(st) /\ ~Parked(st)
    BY <1>1, <2>3 DEF LiveStates, State, Onward, Kin, Parked
  <2> HIDE DEF s
  <2>5. Sound(Save(s), Snapshot)
    BY <2>4, OnwardWrites, CalmHanded
  <2> QED
    BY <1>2, <1>4, <2>5 DEF PendingSound, s
<1> QED
  BY <1>1, <1>3, <1>4

LEMMA FollowupSound ==
  ASSUME CoreInv, PendingSound, FollowupHarness, pending' \in Seq(Writes)
  PROVE  PendingSound'
<1> DEFINE s == [st EXCEPT !.central_improvement = @ + 1]
           t == To(s, "fuzzing", "harness_work_pending")
<1>1. /\ st.stage = "complete" /\ st.status = "exhausted" /\ pending' = Replan(s) /\ Snapshot' = Snapshot
      /\ st \in State
  BY SoundNow DEF FollowupHarness, FollowupAvailable, Snapshot, history
<1>2. t \in GoodStates
  <2>1. <<W("plan", "work")>> \o <<W("state", t)>> = pending' /\ <<W("plan", "work")>> \in Seq(Writes)
    BY <1>1, FileWriteIsEarly, EarlyIsWrites, Single DEF Replan, Save
  <2>2. W("state", t) \in Writes
    BY <2>1, LastIsWrite
  <2> QED
    BY <2>2 DEF W, Writes, FileWrites
<1>3. t \in Onward(st) /\ ~Parked(st)
  BY <1>1, <1>2 DEF Onward, Kin, Parked, To, State
<1> HIDE DEF t
<1>4. Save(t) \in Seq(Calm(st)) /\ <<W("plan", "work")>> \in Seq(Calm(st))
  BY <1>3, OnwardWrites, CalmFiles
<1>5. Replan(s) \in Seq(Calm(st))
  BY <1>4, ConcatProperties DEF Replan, t
<1>6. Sound(Replan(s), Snapshot)
  BY <1>5, CalmHanded
<1> QED
  BY <1>1, <1>6 DEF PendingSound

LEMMA WriteSound ==
  ASSUME CoreInv, PendingSound, Write
  PROVE  PendingSound'
<1> DEFINE w == Head(pending)
<1>1. /\ pending # <<>> /\ pending' = Tail(pending) /\ disk' = [disk EXCEPT ![w.file] = w.value]
      /\ mode' = mode
      /\ spent' = IF w.file = "progress" /\ (mode = "operator" \/ w.value.completed > spent)
                  THEN w.value.completed ELSE spent
  BY DEF Write
<1>2. From(Tail(pending), Store(Snapshot, w)) \in Safe(Suited, Snapshots)
  BY <1>1, SafeNow DEF PendingSound, Sound
<1> HIDE DEF w
<1>3. Snapshot' = Store(Snapshot, w)
  BY <1>1 DEF Snapshot, Store
<1> QED
  BY <1>1, <1>2, <1>3 DEF PendingSound, Sound


-----------------------------------------------------------------------------
(* The operator and the monitor move files away, one after the other.      *)

\* Writes that lead to a snapshot with these files.
Arrives(ws, x, s, i, m, k, p, q) ==
  /\ ws \in Seq(Writes)
  /\ \E y \in Suited :
       /\ Brings(ws, x, {y})
       /\ y.disk.state = s /\ y.disk.integration = i /\ y.disk.manifest = m
       /\ y.disk.smoke = k /\ y.disk.probe = p /\ y.disk.quartet = q

LEMMA ArrivesSuits ==
  ASSUME NEW ws, NEW x, NEW s, NEW i, NEW m, NEW k, NEW p, NEW q, Arrives(ws, x, s, i, m, k, p, q)
  PROVE  Suits(s, i, m, k, p, q) /\ s.attempted \in SUBSET Targets /\ ws \in Seq(Writes)
BY SnapshotTypes DEF Arrives, Suited, TargetsSuit

LEMMA ArrivesNone ==
  ASSUME NEW x \in Suited
  PROVE  Arrives(<<>>, x, x.disk.state, x.disk.integration, x.disk.manifest,
                 x.disk.smoke, x.disk.probe, x.disk.quartet)
BY ReachNone, EmptySeq DEF Arrives, Brings

LEMMA ArrivesOne ==
  ASSUME NEW ws, NEW x, NEW s, NEW i, NEW m, NEW k, NEW p, NEW q, Arrives(ws, x, s, i, m, k, p, q),
         NEW b \in Seq(Writes), NEW s2, NEW i2, NEW m2, NEW k2, NEW p2, NEW q2,
         \A y \in Suited :
           y.disk.state = s /\ y.disk.integration = i /\ y.disk.manifest = m
             /\ y.disk.smoke = k /\ y.disk.probe = p /\ y.disk.quartet = q
           => Arrives(b, y, s2, i2, m2, k2, p2, q2)
  PROVE  Arrives(ws \o b, x, s2, i2, m2, k2, p2, q2)
<1>1. PICK y \in Suited :
        /\ Brings(ws, x, {y})
        /\ y.disk.state = s /\ y.disk.integration = i /\ y.disk.manifest = m
        /\ y.disk.smoke = k /\ y.disk.probe = p /\ y.disk.quartet = q
  BY DEF Arrives
<1>2. Arrives(b, y, s2, i2, m2, k2, p2, q2)
  BY <1>1
<1>3. PICK z \in Suited :
        /\ Brings(b, y, {z})
        /\ z.disk.state = s2 /\ z.disk.integration = i2 /\ z.disk.manifest = m2
        /\ z.disk.smoke = k2 /\ z.disk.probe = p2 /\ z.disk.quartet = q2
  BY <1>2 DEF Arrives
<1>4. ws \in Seq(Writes)
  BY DEF Arrives
<1>5. Brings(ws \o b, x, {z}) /\ ws \o b \in Seq(Writes)
  BY <1>1, <1>3, <1>4, BringsOn
<1> QED
  BY <1>3, <1>5 DEF Arrives

\* A write of one file.
LEMMA ArrivesWrite ==
  ASSUME NEW x \in Suited, NEW w \in Writes, TargetsSuit(Store(x, w).disk)
  PROVE  Arrives(<<w>>, x, Store(x, w).disk.state, Store(x, w).disk.integration,
                 Store(x, w).disk.manifest, Store(x, w).disk.smoke, Store(x, w).disk.probe,
                 Store(x, w).disk.quartet)
<1> DEFINE y == Store(x, w)
<1>1. x \in Snapshots /\ y \in Snapshots
  BY StoreReads DEF Suited
<1>2. y \in Suited
  BY <1>1 DEF Suited
<1>3. Brings(<<w>>, x, {y}) /\ <<w>> \in Seq(Writes)
  BY <1>1, ReachOne DEF Brings
<1> HIDE DEF y
<1>4. Arrives(<<w>>, x, y.disk.state, y.disk.integration, y.disk.manifest, y.disk.smoke,
              y.disk.probe, y.disk.quartet)
  BY <1>2, <1>3 DEF Arrives
<1> QED
  BY <1>4 DEF y

LEMMA MovedWrite ==
  ASSUME NEW f \in DOMAIN Absent
  PROVE  /\ W(f, Absent[f]) \in Writes /\ W(f, Absent[f]).file = f /\ W(f, Absent[f]).value = Absent[f]
         /\ Moved(f) \in Seq(Writes)
         /\ (disk[f] = Absent[f] /\ Moved(f) = <<>>) \/ Moved(f) = <<W(f, Absent[f])>>
<1>1. Moved(f) \in Seq(Writes)
  BY MovedIsEarly, EarlyIsWrites, SeqMonotonic
<1>2. W(f, Absent[f]) \in Writes
  <2>1. f \in {"integration", "manifest", "smoke", "probe", "quartet", "plan", "run", "afl",
                  "crash_files", "summary", "progress"}
    BY DEF Absent
  <2>2. Absent["manifest"] = None /\ NoReview \in Reviews
    BY DEF Absent, Reviews
  <2> QED
    BY <2>1, <2>2, AbsentTypes, EvidenceAbsent, FileWriteIsEarly, EarlyIsWrites
<1> QED
  BY <1>1, <1>2 DEF Moved, W

\* Files that hold no target.
LEMMA OthersMoved ==
  ASSUME NEW ws, NEW x, NEW s, NEW i, NEW m, NEW k, NEW p, NEW q, Arrives(ws, x, s, i, m, k, p, q),
         NEW f \in {"plan", "progress", "run", "afl", "summary", "crash_files"}
  PROVE  Arrives(ws \o Moved(f), x, s, i, m, k, p, q)
<1>1. f \in DOMAIN Absent
  BY DEF Absent
<1> DEFINE w == W(f, Absent[f])
<1>2. /\ w \in Writes /\ w.file = f /\ Moved(f) \in Seq(Writes)
      /\ Moved(f) = <<>> \/ Moved(f) = <<w>>
  BY <1>1, MovedWrite
<1> HIDE DEF w
<1>3. ASSUME NEW y \in Suited
      PROVE  Arrives(Moved(f), y, y.disk.state, y.disk.integration, y.disk.manifest,
                     y.disk.smoke, y.disk.probe, y.disk.quartet)
  <2>1. /\ Store(y, w).disk.state = y.disk.state /\ Store(y, w).disk.integration = y.disk.integration
        /\ Store(y, w).disk.manifest = y.disk.manifest /\ Store(y, w).disk.smoke = y.disk.smoke
        /\ Store(y, w).disk.probe = y.disk.probe /\ Store(y, w).disk.quartet = y.disk.quartet
    BY <1>2, StoreReads DEF Suited
  <2>2. TargetsSuit(Store(y, w).disk)
    BY <2>1 DEF Suited, TargetsSuit
  <2>3. Arrives(<<w>>, y, y.disk.state, y.disk.integration, y.disk.manifest,
                y.disk.smoke, y.disk.probe, y.disk.quartet)
    BY <1>2, <2>1, <2>2, ArrivesWrite
  <2> QED
    BY <1>2, <2>3, ArrivesNone
<1> QED
  BY <1>2, <1>3, ArrivesOne

\* Without an integration, or without a build, whatever is left suits.
LEMMA FewerSuit ==
  ASSUME NEW s, s.attempted \in SUBSET Targets, NEW i, NEW m, NEW k, NEW p, NEW q, Suits(s, i, m, k, p, q)
  PROVE  Suits(s, FALSE, m, k, p, q) /\ Suits(s, i, None, k, p, q)
BY NoTargets DEF Suits, Supplied, Room, OutOfTurn, Unfavoured

LEMMA IntegrationMoved ==
  ASSUME NEW ws, NEW x, NEW s, NEW m, NEW k, NEW p, NEW q,
         Arrives(ws, x, s, disk.integration, m, k, p, q)
  PROVE  Arrives(ws \o Moved("integration"), x, s, FALSE, m, k, p, q)
<1>1. "integration" \in DOMAIN Absent /\ Absent["integration"] = FALSE
  BY DEF Absent
<1> DEFINE w == W("integration", Absent["integration"])
<1>2. /\ w \in Writes /\ w.file = "integration" /\ w.value = FALSE /\ Moved("integration") \in Seq(Writes)
      /\ \/ disk["integration"] = FALSE /\ Moved("integration") = <<>>
         \/ Moved("integration") = <<w>>
  BY <1>1, MovedWrite
<1> HIDE DEF w
<1>3. ASSUME NEW y \in Suited, y.disk.state = s, y.disk.integration = disk.integration,
             y.disk.manifest = m, y.disk.smoke = k, y.disk.probe = p, y.disk.quartet = q
      PROVE  Arrives(Moved("integration"), y, s, FALSE, m, k, p, q)
  <2>1. /\ Store(y, w).disk.state = s /\ Store(y, w).disk.integration = FALSE
        /\ Store(y, w).disk.manifest = m /\ Store(y, w).disk.smoke = k
        /\ Store(y, w).disk.probe = p /\ Store(y, w).disk.quartet = q
    BY <1>2, <1>3, StoreReads DEF Suited
  <2>2. Suits(s, FALSE, m, k, p, q)
    BY ArrivesSuits, FewerSuit
  <2>3. TargetsSuit(Store(y, w).disk)
    BY <2>1, <2>2 DEF TargetsSuit
  <2>4. Arrives(<<w>>, y, s, FALSE, m, k, p, q)
    BY <1>2, <2>1, <2>3, ArrivesWrite
  <2>5. disk.integration = FALSE => Arrives(<<>>, y, s, FALSE, m, k, p, q)
    BY <1>3, ArrivesNone
  <2> QED
    BY <1>2, <2>4, <2>5
<1> DEFINE i == disk.integration
           gone == FALSE
           b == Moved("integration")
<1>4. b \in Seq(Writes) /\ Arrives(ws, x, s, i, m, k, p, q)
  BY <1>2
<1>5. \A y \in Suited :
        y.disk.state = s /\ y.disk.integration = i /\ y.disk.manifest = m
          /\ y.disk.smoke = k /\ y.disk.probe = p /\ y.disk.quartet = q
        => Arrives(b, y, s, gone, m, k, p, q)
  BY <1>3
<1> HIDE DEF i, gone, b
<1>6. Arrives(ws \o b, x, s, gone, m, k, p, q)
  BY <1>4, <1>5, ArrivesOne
<1> QED
  BY <1>6 DEF b, gone

\* One of the files of the targets.
LEMMA TargetMoved ==
  ASSUME NEW ws, NEW x, NEW s, NEW i, NEW m, NEW k, NEW p, NEW q, Arrives(ws, x, s, i, m, k, p, q),
         NEW f \in {"manifest", "smoke", "probe", "quartet"},
         f = "manifest" => m = disk.manifest, f = "smoke" => k = disk.smoke,
         f = "probe" => p = disk.probe, f = "quartet" => q = disk.quartet,
         Suits(s, i, IF f = "manifest" THEN None ELSE m, IF f = "smoke" THEN None ELSE k,
               IF f = "probe" THEN None ELSE p, IF f = "quartet" THEN NoReview ELSE q)
  PROVE  Arrives(ws \o Moved(f), x, s, i, IF f = "manifest" THEN None ELSE m,
                 IF f = "smoke" THEN None ELSE k, IF f = "probe" THEN None ELSE p,
                 IF f = "quartet" THEN NoReview ELSE q)
<1>1. f \in DOMAIN Absent /\ Absent["manifest"] = None
  BY DEF Absent
<1>2. Moved(f) \in Seq(Writes)
  BY <1>1, MovedWrite
<1>3. ASSUME NEW y \in Suited, y.disk.state = s, y.disk.integration = i, y.disk.manifest = m,
             y.disk.smoke = k, y.disk.probe = p, y.disk.quartet = q
      PROVE  Arrives(Moved(f), y, s, i, IF f = "manifest" THEN None ELSE m,
                     IF f = "smoke" THEN None ELSE k, IF f = "probe" THEN None ELSE p,
                     IF f = "quartet" THEN NoReview ELSE q)
  <2>1. y.disk[f] = disk[f]
    BY <1>3
  <2>2. PICK z \in Suited : /\ Sets(y, z, f, Absent[f]) /\ Brings(Moved(f), y, {z})
                            /\ Moved(f) \in Seq(Writes)
    BY <1>3, <2>1, MovedBrings
  <2>3. /\ z.disk.state = s /\ z.disk.integration = i
        /\ z.disk.manifest = (IF f = "manifest" THEN None ELSE m)
        /\ z.disk.smoke = (IF f = "smoke" THEN None ELSE k)
        /\ z.disk.probe = (IF f = "probe" THEN None ELSE p)
        /\ z.disk.quartet = (IF f = "quartet" THEN NoReview ELSE q)
    BY <1>1, <1>3, <2>2, EvidenceAbsent DEF Sets
  <2> QED
    BY <2>2, <2>3 DEF Arrives
<1> QED
  BY <1>2, <1>3, ArrivesOne

LEMMA ManifestMoved ==
  ASSUME NEW ws, NEW x, NEW s, NEW i, NEW k, NEW p, NEW q, Arrives(ws, x, s, i, disk.manifest, k, p, q)
  PROVE  Arrives(ws \o Moved("manifest"), x, s, i, None, k, p, q)
BY ArrivesSuits, FewerSuit, TargetMoved

\* Without integration and build, tests and review may go in any order.
LEMMA UnbuiltMoved ==
  ASSUME NEW ws, NEW x, NEW s, NEW k, NEW p, NEW q, Arrives(ws, x, s, FALSE, None, k, p, q)
  PROVE  /\ k = disk.smoke => Arrives(ws \o Moved("smoke"), x, s, FALSE, None, None, p, q)
         /\ p = disk.probe => Arrives(ws \o Moved("probe"), x, s, FALSE, None, k, None, q)
         /\ q = disk.quartet => Arrives(ws \o Moved("quartet"), x, s, FALSE, None, k, p, NoReview)
<1>1. Suits(s, FALSE, None, k, p, q) /\ s.attempted \in SUBSET Targets
  BY ArrivesSuits
<1>2. /\ Suits(s, FALSE, None, None, p, q) /\ Suits(s, FALSE, None, k, None, q)
      /\ Suits(s, FALSE, None, k, p, NoReview)
  BY <1>1, RemainsSuit
<1>3. k = disk.smoke => Arrives(ws \o Moved("smoke"), x, s, FALSE, None, None, p, q)
  BY <1>2, TargetMoved
<1>4. p = disk.probe => Arrives(ws \o Moved("probe"), x, s, FALSE, None, k, None, q)
  BY <1>2, TargetMoved
<1>5. q = disk.quartet => Arrives(ws \o Moved("quartet"), x, s, FALSE, None, k, p, NoReview)
  BY <1>2, TargetMoved
<1> QED
  BY <1>3, <1>4, <1>5

\* Writes and a save of the state.
LEMMA ArrivesSave ==
  ASSUME NEW ws, NEW x, NEW s, NEW i, NEW m, NEW k, NEW p, NEW q, Arrives(ws, x, s, i, m, k, p, q),
         NEW t \in GoodStates, Suits(t, i, m, k, p, q)
  PROVE  Arrives(ws \o Save(t), x, t, i, m, k, p, q)
<1> DEFINE w == W("state", t)
<1>1. w \in Writes /\ w.file = "state" /\ w.value = t
  BY DEF W, Writes
<1> HIDE DEF w
<1>2. ASSUME NEW y \in Suited, y.disk.state = s, y.disk.integration = i, y.disk.manifest = m,
             y.disk.smoke = k, y.disk.probe = p, y.disk.quartet = q
      PROVE  Arrives(<<w>>, y, t, i, m, k, p, q)
  <2>1. /\ Store(y, w).disk.state = t /\ Store(y, w).disk.integration = i
        /\ Store(y, w).disk.manifest = m /\ Store(y, w).disk.smoke = k
        /\ Store(y, w).disk.probe = p /\ Store(y, w).disk.quartet = q
    BY <1>1, <1>2, StoreReads DEF Suited
  <2>2. TargetsSuit(Store(y, w).disk)
    BY <2>1 DEF TargetsSuit
  <2> QED
    BY <1>1, <2>1, <2>2, ArrivesWrite
<1> DEFINE b == <<w>>
<1>3. b \in Seq(Writes)
  BY <1>1, Single
<1>4. ASSUME NEW y \in Suited, y.disk.state = s, y.disk.integration = i, y.disk.manifest = m,
             y.disk.smoke = k, y.disk.probe = p, y.disk.quartet = q
      PROVE  Arrives(b, y, t, i, m, k, p, q)
  BY <1>2, <1>4
<1> HIDE DEF b
<1>5. Arrives(ws \o b, x, t, i, m, k, p, q)
  BY <1>3, <1>4, ArrivesOne
<1> QED
  BY <1>5 DEF Save, w, b

LEMMA ArrivesSound ==
  ASSUME NEW ws, NEW x, NEW s, NEW i, NEW m, NEW k, NEW p, NEW q, Arrives(ws, x, s, i, m, k, p, q)
  PROVE  Sound(ws, x) /\ ws \in Seq(Writes)
<1>1. PICK y \in Suited : Brings(ws, x, {y}) /\ ws \in Seq(Writes)
  BY DEF Arrives
<1> DEFINE Y == {y}
<1>2. Y \in SUBSET Snapshots /\ Y \subseteq Suited /\ Y \subseteq Snapshots /\ Reaches(Suited, Snapshots, ws, x, Y)
  BY <1>1 DEF Suited, Brings
<1> HIDE DEF Y
<1> QED
  BY <1>1, <1>2, ReachSafe DEF Sound


LEMMA OperatorArrives ==
  ASSUME NEW x \in Suited, x.disk = disk
  PROVE  Arrives(OperatorMoves, x, st, FALSE, None, None, None, NoReview)
<1>1. Arrives(<<>>, x, st, disk.integration, disk.manifest, disk.smoke, disk.probe, disk.quartet)
  BY ArrivesNone DEF st
<1>2. Moved("afl") \in Seq(Writes) /\ <<>> \o Moved("afl") = Moved("afl")
  BY MovedWrite, ConcatEmptySeq DEF Absent
<1> DEFINE a == Moved("afl") \o Moved("manifest")
           b == a \o Moved("plan") \o Moved("progress") \o Moved("run")
           c == b \o Moved("integration") \o Moved("probe") \o Moved("quartet") \o Moved("smoke")
<1>3. Arrives(a, x, st, disk.integration, None, disk.smoke, disk.probe, disk.quartet)
  <2>1. Arrives(Moved("afl"), x, st, disk.integration, disk.manifest, disk.smoke, disk.probe, disk.quartet)
    BY <1>1, <1>2, OthersMoved
  <2> QED
    BY <2>1, ManifestMoved
<1> HIDE DEF a
<1>4. Arrives(b, x, st, disk.integration, None, disk.smoke, disk.probe, disk.quartet)
  <2>1. Arrives(a \o Moved("plan"), x, st, disk.integration, None, disk.smoke, disk.probe, disk.quartet)
    BY <1>3, OthersMoved
  <2>2. Arrives(a \o Moved("plan") \o Moved("progress"), x, st, disk.integration, None, disk.smoke,
                disk.probe, disk.quartet)
    BY <2>1, OthersMoved
  <2> QED
    BY <2>2, OthersMoved
<1> HIDE DEF b
<1>5. Arrives(c, x, st, FALSE, None, None, None, NoReview)
  <2>1. Arrives(b \o Moved("integration"), x, st, FALSE, None, disk.smoke, disk.probe, disk.quartet)
    BY <1>4, IntegrationMoved
  <2>2. Arrives(b \o Moved("integration") \o Moved("probe"), x, st, FALSE, None, disk.smoke, None, disk.quartet)
    BY <2>1, UnbuiltMoved
  <2>3. Arrives(b \o Moved("integration") \o Moved("probe") \o Moved("quartet"), x, st, FALSE, None,
                disk.smoke, None, NoReview)
    BY <2>2, UnbuiltMoved
  <2> QED
    BY <2>3, UnbuiltMoved
<1> HIDE DEF c
<1>6. Arrives(c \o Moved("summary"), x, st, FALSE, None, None, None, NoReview)
  BY <1>5, OthersMoved
<1>7. Arrives(c \o Moved("summary") \o Moved("crash_files"), x, st, FALSE, None, None, None, NoReview)
  BY <1>6, OthersMoved
<1> QED
  BY <1>7 DEF OperatorMoves, a, b, c

\* Without any target, a job may start anew.
LEMMA AnewSuits ==
  ASSUME NEW stage \in {"integration", "build"}, NEW status \in {"prepared", "integrated"}, NEW i \in BOOLEAN
  PROVE  /\ NewState(stage, status) \in GoodStates
         /\ Suits(NewState(stage, status), i, None, None, None, NoReview)
<1> DEFINE s == NewState(stage, status)
<1>1. s \in GoodStates
  <2>1. stage \in Stages \ {"complete"} /\ status \in Statuses /\ status # "quartet_repair_pending"
    BY DEF Stages, Statuses, RECOVERY_STAGE_STATUS, RECOVERABLE_FAILURE_STAGES
  <2> QED
    BY <2>1, StartedAnew, LiveIsGood
<1>2. s.attempted = {} /\ s.stage = stage /\ s.status = status
  BY DEF NewState
<1> HIDE DEF s
<1>3. NoReview.target = None
  BY DEF NoReview
<1>4. Supplied(s, None, None, NoReview)
  BY <1>2, <1>3, NoTargets DEF Supplied, Room
<1> QED
  BY <1>1, <1>2, <1>4 DEF s, Suits, OutOfTurn, RepairPending

LEMMA OperatorSound ==
  ASSUME CoreInv, PendingSound, Operator
  PROVE  PendingSound'
<1> DEFINE b == (mode = "operator")'
           x == [Snapshot EXCEPT !.own = b]
<1>1. x \in Suited /\ x.disk = disk /\ x.spent = spent /\ x.own = b /\ x \in Snapshots
  <2>1. b \in BOOLEAN
    OBVIOUS
  <2> HIDE DEF b
  <2> QED
    BY <2>1, SoundFrom DEF Suited
<1>2. Snapshot' = x
  <2>1. disk' = disk /\ spent' = spent
    BY DEF Operator, Retarget, RepairHarness, Rework, history
  <2> QED
    BY <1>1, <2>1 DEF Snapshot, Snapshots
<1> HIDE DEF x
<1>3. Arrives(OperatorMoves, x, st, FALSE, None, None, None, NoReview)
  BY <1>1, OperatorArrives
<1>4. CASE Retarget
  <2>1. pending' = OperatorMoves \o Save(NewState("integration", "prepared"))
    BY <1>4 DEF Retarget, Rework
  <2>2. /\ NewState("integration", "prepared") \in GoodStates
        /\ Suits(NewState("integration", "prepared"), FALSE, None, None, None, NoReview)
    BY AnewSuits
  <2> DEFINE s == NewState("integration", "prepared")
  <2> HIDE DEF s
  <2>3. Arrives(OperatorMoves \o Save(s), x, s, FALSE, None, None, None, NoReview)
    BY <1>3, <2>2, ArrivesSave DEF s
  <2>4. Sound(OperatorMoves \o Save(s), x)
    BY <2>3, ArrivesSound
  <2> QED
    BY <1>2, <2>1, <2>4 DEF PendingSound, s
<1>5. CASE RepairHarness
  <2> DEFINE s == NewState("build", "integrated")
             w == W("integration", TRUE)
             ws == OperatorMoves \o <<w>>
  <2>1. pending' = ws \o Save(s)
    BY <1>5 DEF RepairHarness, Rework
  <2>2. s \in GoodStates /\ Suits(s, TRUE, None, None, None, NoReview)
    BY AnewSuits
  <2>3. Suits(st, TRUE, None, None, None, NoReview)
    BY <1>3, ArrivesSuits DEF Suits
  <2>4. w \in Writes /\ w.file = "integration" /\ w.value = TRUE
    BY FileWriteIsEarly, EarlyIsWrites DEF W
  <2> HIDE DEF s, w
  <2>5. ASSUME NEW y \in Suited, y.disk.state = st, y.disk.manifest = None,
               y.disk.smoke = None, y.disk.probe = None, y.disk.quartet = NoReview
        PROVE  Arrives(<<w>>, y, st, TRUE, None, None, None, NoReview)
    <3>1. /\ Store(y, w).disk.state = st /\ Store(y, w).disk.integration = TRUE
          /\ Store(y, w).disk.manifest = None /\ Store(y, w).disk.smoke = None
          /\ Store(y, w).disk.probe = None /\ Store(y, w).disk.quartet = NoReview
      BY <2>4, <2>5, StoreReads DEF Suited
    <3>2. TargetsSuit(Store(y, w).disk)
      BY <2>3, <3>1 DEF TargetsSuit
    <3> QED
      BY <2>4, <3>1, <3>2, ArrivesWrite
  <2>6. Arrives(ws, x, st, TRUE, None, None, None, NoReview)
    <3> DEFINE last == <<w>>
               yes == TRUE
               no == FALSE
    <3>1. last \in Seq(Writes)
      BY <2>4, Single
    <3>2. Arrives(OperatorMoves, x, st, no, None, None, None, NoReview)
      BY <1>3
    <3>3. \A y \in Suited :
            y.disk.state = st /\ y.disk.integration = no /\ y.disk.manifest = None
              /\ y.disk.smoke = None /\ y.disk.probe = None /\ y.disk.quartet = NoReview
            => Arrives(last, y, st, yes, None, None, None, NoReview)
      BY <2>5
    <3> HIDE DEF last, yes, no
    <3>4. Arrives(OperatorMoves \o last, x, st, yes, None, None, None, NoReview)
      BY <3>1, <3>2, <3>3, ArrivesOne
    <3> QED
      BY <3>4 DEF last, yes
  <2> HIDE DEF ws
  <2>7. Arrives(ws \o Save(s), x, s, TRUE, None, None, None, NoReview)
    BY <2>2, <2>6, ArrivesSave
  <2>8. Sound(ws \o Save(s), x)
    BY <2>7, ArrivesSound
  <2> QED
    BY <1>2, <2>1, <2>8 DEF PendingSound
<1> QED
  BY <1>4, <1>5 DEF Operator


-----------------------------------------------------------------------------
(* The monitor.                                                            *)

\* A snapshot, but for what the monitor has applied.
Noted(v, a) == [v EXCEPT !.disk = [v.disk EXCEPT !.applied = a]]

LEMMA NotedReads ==
  ASSUME NEW v \in Snapshots, NEW a \in SUBSET Records
  PROVE  /\ Noted(v, a) \in Snapshots
         /\ Noted(v, a).disk = [v.disk EXCEPT !.applied = a]
         /\ Noted(v, a).spent = v.spent /\ Noted(v, a).own = v.own
<1>1. v.disk \in GoodDisks /\ v.disk \in Disk
  BY DEF Snapshots, GoodDisks
<1>2. [v.disk EXCEPT !.applied = a] \in Disk
  BY <1>1 DEF Disk, Records
<1>3. [v.disk EXCEPT !.applied = a].state = v.disk.state /\ [v.disk EXCEPT !.applied = a].quartet = v.disk.quartet
  BY <1>1 DEF Disk
<1>4. [v.disk EXCEPT !.applied = a] \in GoodDisks
  BY <1>1, <1>2, <1>3 DEF GoodDisks
<1> QED
  BY <1>4 DEF Noted, Snapshots

LEMMA NotedStore ==
  ASSUME NEW v \in Snapshots, NEW a \in SUBSET Records, NEW w \in Writes
  PROVE  \E b \in SUBSET Records : Store(Noted(v, a), w) = Noted(Store(v, w), b)
<1>1. v.disk \in Disk
  BY DEF Snapshots, GoodDisks
<1>2. /\ Noted(v, a).disk = [v.disk EXCEPT !.applied = a]
      /\ Noted(v, a).spent = v.spent /\ Noted(v, a).own = v.own
  BY NotedReads
<1> DEFINE y == Store(v, w)
<1>3. y \in Snapshots /\ y.disk = [v.disk EXCEPT ![w.file] = w.value] /\ y.own = v.own
  BY StoreReads DEF Store
<1>4. \A b \in SUBSET Records : /\ Noted(y, b) \in Snapshots /\ Noted(y, b).disk = [y.disk EXCEPT !.applied = b]
                                /\ Noted(y, b).spent = y.spent /\ Noted(y, b).own = y.own
  BY <1>3, NotedReads
<1>5. /\ Store(Noted(v, a), w).spent = y.spent /\ Store(Noted(v, a), w).own = y.own
      /\ Store(Noted(v, a), w).disk = [[v.disk EXCEPT !.applied = a] EXCEPT ![w.file] = w.value]
      /\ Store(Noted(v, a), w) \in Snapshots
  BY <1>2, NotedReads, StoreReads DEF Store
<1>6. \E b \in SUBSET Records :
        [[v.disk EXCEPT !.applied = a] EXCEPT ![w.file] = w.value]
          = [[v.disk EXCEPT ![w.file] = w.value] EXCEPT !.applied = b]
  <2>1. CASE w.file = "applied"
    <3>1. w.value \in SUBSET Records
      BY <2>1 DEF Writes, FileWrites
    <3>2. [[v.disk EXCEPT !.applied = a] EXCEPT ![w.file] = w.value]
            = [[v.disk EXCEPT ![w.file] = w.value] EXCEPT !.applied = w.value]
      BY <1>1, <2>1 DEF Disk
    <3> QED
      BY <3>1, <3>2
  <2>2. CASE w.file # "applied"
    <3>1. [[v.disk EXCEPT !.applied = a] EXCEPT ![w.file] = w.value]
            = [[v.disk EXCEPT ![w.file] = w.value] EXCEPT !.applied = a]
      BY <1>1, <2>2 DEF Disk
    <3> QED
      BY <3>1
  <2> QED
    BY <2>1, <2>2
<1> HIDE DEF y
<1>7. PICK b \in SUBSET Records : Store(Noted(v, a), w).disk = [y.disk EXCEPT !.applied = b]
  BY <1>3, <1>5, <1>6
<1>8. Store(Noted(v, a), w) = Noted(y, b)
  BY <1>4, <1>5, <1>7 DEF Snapshots
<1> QED
  BY <1>8 DEF y

\* What the monitor has applied makes no difference for the writes that may be made.
LEMMA NotedSafe ==
  ASSUME NEW G, NEW S,
         \A v \in Snapshots, a \in SUBSET Records : v \in G => Noted(v, a) \in G,
         \A v \in Snapshots, a \in SUBSET Records : v \in S => Noted(v, a) \in S,
         NEW ws, NEW v, From(ws, v) \in Safe(G, S), NEW a \in SUBSET Records
  PROVE  From(ws, Noted(v, a)) \in Safe(G, S)
<1> DEFINE Like(us, u) == \E x \in Snapshots, b \in SUBSET Records : From(us, x) \in Safe(G, S) /\ u = Noted(x, b)
           R == {r \in Paths : Like(r.writes, r.snapshot)}
<1>1. \A us, u : From(us, u).writes = us /\ From(us, u).snapshot = u
  BY DEF From
<1>2. \A us \in Seq(Writes), u \in Snapshots : From(us, u) \in R <=> Like(us, u)
  BY <1>1, FromPaths
<1> HIDE DEF R
<1>3. Lasts(G, S, R)
  <2> SUFFICES ASSUME NEW us \in Seq(Writes), NEW u \in Snapshots, From(us, u) \in R
               PROVE  /\ u \in G
                      /\ us = <<>> => u \in S
                      /\ us # <<>> => From(Tail(us), Store(u, Head(us))) \in R
    BY DEF Lasts
  <2>1. PICK x \in Snapshots, b \in SUBSET Records : From(us, x) \in Safe(G, S) /\ u = Noted(x, b)
    BY <1>2
  <2>2. x \in G /\ (us = <<>> => x \in S)
        /\ (us # <<>> => From(Tail(us), Store(x, Head(us))) \in Safe(G, S))
    BY <2>1, SafeNow
  <2>3. u \in G /\ (us = <<>> => u \in S)
    BY <2>1, <2>2
  <2>4. ASSUME us # <<>>
        PROVE  From(Tail(us), Store(u, Head(us))) \in R
    <3>1. Head(us) \in Writes /\ Tail(us) \in Seq(Writes)
      BY <2>4, HeadTailProperties
    <3>2. PICK c \in SUBSET Records : Store(u, Head(us)) = Noted(Store(x, Head(us)), c)
      BY <2>1, <3>1, NotedStore
    <3>3. Store(x, Head(us)) \in Snapshots /\ Store(u, Head(us)) \in Snapshots
      BY <3>1, StoreReads
    <3>4. Like(Tail(us), Store(u, Head(us)))
      BY <2>2, <2>4, <3>2, <3>3
    <3> HIDE DEF Like
    <3> QED
      BY <1>2, <3>1, <3>3, <3>4
  <2> QED
    BY <2>3, <2>4
<1>4. R \subseteq Safe(G, S)
  BY <1>3, SafeUp DEF R
<1>5. ws \in Seq(Writes) /\ v \in Snapshots
  BY SafeNow
<1>6. Noted(v, a) \in Snapshots
  BY <1>5, NotedReads
<1>7. Like(ws, Noted(v, a))
  BY <1>5
<1> HIDE DEF Like
<1> QED
  BY <1>2, <1>4, <1>5, <1>6, <1>7

LEMMA NotedSuits ==
  ASSUME NEW v \in Snapshots, NEW a \in SUBSET Records, v \in Suited
  PROVE  Noted(v, a) \in Suited
<1>1. Noted(v, a) \in Snapshots /\ Noted(v, a).disk = [v.disk EXCEPT !.applied = a] /\ v.disk \in Disk
  BY NotedReads DEF Snapshots, GoodDisks
<1>2. TargetsSuit(Noted(v, a).disk)
  BY <1>1 DEF Suited, TargetsSuit, Disk
<1> QED
  BY <1>1, <1>2 DEF Suited

\* Writes that a monitor makes.
Aloof == {w \in Writes : w.file # "progress"}

\* The states that the worker may leave a job in that the monitor looks at.
Attended(s) ==
  {t \in Followers(s) : t.stage \in {s.stage, "complete"} /\ t.status \in MANUAL_STATUSES}

\* The files with another state.
With(t, y) == [y EXCEPT !.disk = [disk EXCEPT !.state = t]]

\* As long as the monitor has to write the job's state, what it writes is sound from the disk
\* on, whichever failure the worker records in between.
RecoverySound ==
  /\ recovery \in Seq(Aloof)
  /\ recovery \notin Seq(AppliedWrites) =>
       \A t \in Attended(st), y \in Snapshots : Sound(recovery, With(t, y))

LEMMA WithReads ==
  ASSUME CoreInv, NEW t \in GoodStates, NEW y \in Snapshots
  PROVE  /\ With(t, y) \in Snapshots /\ With(t, y).disk.state = t
         /\ With(t, y).disk = [disk EXCEPT !.state = t]
         /\ With(t, y).disk.integration = disk.integration /\ With(t, y).disk.manifest = disk.manifest
         /\ With(t, y).disk.smoke = disk.smoke /\ With(t, y).disk.probe = disk.probe
         /\ With(t, y).disk.quartet = disk.quartet
<1>1. disk \in GoodDisks /\ disk \in Disk /\ t \in State
  BY DEF CoreInv, TypeInv, GoodDisks, GoodStates
<1>2. [disk EXCEPT !.state = t] \in GoodDisks
  BY <1>1 DEF GoodDisks, Disk
<1> QED
  BY <1>1, <1>2 DEF With, Snapshots, Disk

LEMMA AttendedSuits ==
  ASSUME CoreInv, PendingSound, NEW t \in Followers(st), NEW y \in Snapshots
  PROVE  With(t, y) \in Suited
<1>1. t \in GoodStates /\ Follows(st, t)
  BY DEF Followers
<1>2. Suits(t, disk.integration, disk.manifest, disk.smoke, disk.probe, disk.quartet)
  BY <1>1, SoundNow, FollowerSuits
<1> DEFINE v == With(t, y)
<1>3. /\ v \in Snapshots /\ v.disk.state = t
      /\ v.disk.integration = disk.integration /\ v.disk.manifest = disk.manifest
      /\ v.disk.smoke = disk.smoke /\ v.disk.probe = disk.probe /\ v.disk.quartet = disk.quartet
  BY <1>1, WithReads
<1> HIDE DEF v
<1>4. TargetsSuit(v.disk)
  BY <1>2, <1>3 DEF TargetsSuit
<1>5. v \in Suited
  BY <1>3, <1>4 DEF Suited
<1> QED
  BY <1>5 DEF v

LEMMA RecordedFollows ==
  ASSUME NEW s \in GoodStates, NEW e \in Errors
  PROVE  /\ Recorded(s, e) \in Followers(s)
         /\ s.status \in MANUAL_STATUSES =>
              /\ Recorded(s, e) \in Attended(s)
              /\ Attended(Recorded(s, e)) \subseteq Attended(s)
<1> DEFINE r == Recorded(s, e)
<1>1. /\ r \in GoodStates /\ r.stage \in {s.stage, "complete"}
      /\ r.status \in {"unsupported_integration", "manual_review", "interrupted", "recovery_pending"}
      /\ r.status = "interrupted" => s.status = "interrupted"
  BY RecordedIsGood
<1>2. /\ r.attempted = s.attempted /\ r.harness_generation = s.harness_generation
      /\ r.quartet_repair = s.quartet_repair /\ r.automatic_recoveries = s.automatic_recoveries
  BY DEF Recorded, GoodStates, State
<1> HIDE DEF r
<1>3. Follows(s, r)
  BY <1>1, <1>2 DEF Follows, Unaided, RepairPending, Parked, Preparation
<1>4. ASSUME s.status \in MANUAL_STATUSES
      PROVE  r \in Attended(s) /\ Attended(r) \subseteq Attended(s)
  <2>1. r.status \in MANUAL_STATUSES
    BY <1>1, <1>4 DEF MANUAL_STATUSES
  <2>2. r \in Attended(s)
    BY <1>1, <1>3, <2>1 DEF Attended, Followers
  <2>3. ASSUME NEW t \in GoodStates, Follows(r, t)
        PROVE  Follows(s, t)
    BY <1>3, <2>3 DEF Follows
  <2>4. Attended(r) \subseteq Attended(s)
    BY <1>1, <2>3 DEF Attended, Followers
  <2> QED
    BY <2>2, <2>4
<1> QED
  BY <1>1, <1>3, <1>4 DEF r, Followers

LEMMA RecordSound ==
  ASSUME CoreInv, PendingSound, RecoverySound, RecordWorkerError
  PROVE  PendingSound' /\ (recovery \notin Seq(AppliedWrites) /\ st.status \in MANUAL_STATUSES => RecoverySound')
<1>1. st' = Recorded(st, raised) /\ raised \in Errors /\ st \in GoodStates
  BY RecordKeepsCore
<1>2. /\ pending' = <<>> /\ recovery' = recovery /\ spent' = spent /\ mode' = "idle"
      /\ disk' = [disk EXCEPT !.state = Recorded(st, raised)]
  BY DEF RecordWorkerError, Leave, history
<1>3. st' \in Followers(st) /\ disk \in Disk /\ spent \in 0..Budget
  BY <1>1, RecordedFollows DEF CoreInv, TypeInv, TypeOK
<1> DEFINE y == Snapshot'
<1>4. y \in Snapshots /\ y.disk = [disk EXCEPT !.state = st']
  <2>1. disk' \in GoodDisks /\ spent' \in 0..Budget
    BY RecordKeepsCore DEF CoreInv, TypeInv, TypeOK
  <2> QED
    BY <1>1, <1>2, <2>1 DEF Snapshot, Snapshots
<1> HIDE DEF y
<1>5. y = With(st', y)
  BY <1>4 DEF With, Snapshots
<1>6. PendingSound'
  <2>1. y \in Suited
    BY <1>3, <1>4, <1>5, AttendedSuits
  <2>2. From(<<>>, y) \in Safe(Suited, Snapshots)
    BY <1>4, <2>1, NothingSafe
  <2> QED
    BY <1>2, <2>2 DEF PendingSound, Sound, y
<1>7. ASSUME recovery \notin Seq(AppliedWrites), st.status \in MANUAL_STATUSES
      PROVE  RecoverySound'
  <2>1. Attended(st') \subseteq Attended(st)
    BY <1>1, <1>7, RecordedFollows
  <2>2. \A t : [disk' EXCEPT !.state = t] = [disk EXCEPT !.state = t]
    BY <1>2, <1>3 DEF Disk
  <2>3. \A t, z : With(t, z)' = With(t, z)
    BY <2>2 DEF With
  <2>4. \A t \in Attended(st'), z \in Snapshots : Sound(recovery', With(t, z)')
    BY <1>2, <1>7, <2>1, <2>3 DEF RecoverySound
  <2> QED
    BY <1>2, <2>4 DEF RecoverySound
<1> QED
  BY <1>6, <1>7


LEMMA MovesAreAloof ==
  RecoveryMoves \in Seq(Aloof)
<1>1. ASSUME NEW f \in {"integration", "manifest", "smoke", "probe", "quartet", "plan"}
      PROVE  Moved(f) \in Seq(Aloof)
  <2>1. f \in DOMAIN Absent
    BY DEF Absent
  <2>2. W(f, Absent[f]) \in Aloof
    BY <2>1, MovedWrite DEF Aloof
  <2> QED
    BY <2>2, Single, EmptySeq DEF Moved
<1>2. \A a, b : a \in Seq(Aloof) /\ b \in Seq(Aloof) => a \o b \in Seq(Aloof)
  BY ConcatProperties
<1> HIDE DEF Moved
<1> QED
  BY <1>1, <1>2 DEF RecoveryMoves

\* A recovery that starts over moves everything away.
LEMMA RestartArrives ==
  ASSUME NEW x \in Suited, NEW t, x.disk.state = t, x.disk.integration = disk.integration,
         x.disk.manifest = disk.manifest, x.disk.smoke = disk.smoke, x.disk.probe = disk.probe,
         x.disk.quartet = disk.quartet
  PROVE  Arrives(RecoveryMoves, x, t, FALSE, None, None, None, NoReview)
<1>1. Arrives(<<>>, x, t, disk.integration, disk.manifest, disk.smoke, disk.probe, disk.quartet)
  BY ArrivesNone
<1>2. Moved("integration") \in Seq(Writes) /\ <<>> \o Moved("integration") = Moved("integration")
  BY MovedWrite, ConcatEmptySeq DEF Absent
<1> DEFINE a == Moved("integration") \o Moved("manifest")
           b == a \o Moved("smoke") \o Moved("probe")
<1>3. Arrives(a, x, t, FALSE, None, disk.smoke, disk.probe, disk.quartet)
  <2>1. Arrives(Moved("integration"), x, t, FALSE, disk.manifest, disk.smoke, disk.probe, disk.quartet)
    BY <1>1, <1>2, IntegrationMoved
  <2> QED
    BY <2>1, ManifestMoved
<1> HIDE DEF a
<1>4. Arrives(b, x, t, FALSE, None, None, None, disk.quartet)
  <2>1. Arrives(a \o Moved("smoke"), x, t, FALSE, None, None, disk.probe, disk.quartet)
    BY <1>3, UnbuiltMoved
  <2> QED
    BY <2>1, UnbuiltMoved
<1> HIDE DEF b
<1>5. Arrives(b \o Moved("quartet"), x, t, FALSE, None, None, None, NoReview)
  BY <1>4, UnbuiltMoved
<1>6. Arrives(b \o Moved("quartet") \o Moved("plan"), x, t, FALSE, None, None, None, NoReview)
  BY <1>5, OthersMoved
<1> QED
  BY <1>6 DEF RecoveryMoves, a, b

\* What the monitor has applied is noted last.
LEMMA ThenNoted ==
  ASSUME NEW ws, NEW x, NEW s, NEW i, NEW m, NEW k, NEW p, NEW q, Arrives(ws, x, s, i, m, k, p, q),
         NEW a \in AppliedWrites
  PROVE  Sound(ws \o <<a>>, x)
<1>1. a \in Writes /\ a.file = "applied"
  BY MovesAreWrites DEF AppliedWrites
<1>2. ASSUME NEW y \in Suited
      PROVE  Store(y, a) \in Suited
  <2>1. /\ Store(y, a) \in Snapshots /\ Store(y, a).disk.state = y.disk.state
        /\ Store(y, a).disk.integration = y.disk.integration
        /\ Store(y, a).disk.manifest = y.disk.manifest /\ Store(y, a).disk.smoke = y.disk.smoke
        /\ Store(y, a).disk.probe = y.disk.probe /\ Store(y, a).disk.quartet = y.disk.quartet
    BY <1>1, StoreReads DEF Suited
  <2> QED
    BY <2>1 DEF Suited, TargetsSuit
<1>3. PICK y \in Suited : Brings(ws, x, {y}) /\ ws \in Seq(Writes)
  BY DEF Arrives
<1> DEFINE Y == {y}
<1>4. Y \in SUBSET Snapshots /\ Y \subseteq Suited /\ Reaches(Suited, Snapshots, ws, x, Y)
      /\ \A z \in Y : Store(z, a) \in Snapshots \cap Suited \cap Snapshots
  BY <1>2, <1>3 DEF Suited, Brings
<1> HIDE DEF Y
<1>5. From(ws \o <<a>>, x) \in Safe(Suited, Snapshots)
  BY <1>1, <1>3, <1>4, ReachLast
<1> QED
  BY <1>5 DEF Sound

\* The states the monitor decides on.
LEMMA RecoveredFollows ==
  ASSUME NEW s \in GoodStates, Eligible(s), NEW action \in Options(s)
  PROVE  LET r == Recovered(s, action)
         IN  /\ r \in GoodStates /\ r.attempted = s.attempted /\ ~Unaided(r) /\ ~RepairPending(r)
             /\ action # "restart_from_integration" => Follows(s, r)
<1> DEFINE r == Recovered(s, action)
<1>1. r \in GoodStates /\ s \in State /\ s.stage \in RECOVERABLE_FAILURE_STAGES
  BY RecoveredIsGood DEF Eligible, GoodStates
<1>2. RetryStatus(s) # "quartet_repair_pending" /\ s.stage # "complete"
  BY <1>1 DEF RetryStatus, RECOVERY_STAGE_STATUS, RECOVERABLE_FAILURE_STAGES
<1>3. action \in {"restart_from_integration", "retry_stage", "skip_target"}
  BY DEF Options
<1>4. /\ r.attempted = s.attempted /\ r.automatic_recoveries = s.automatic_recoveries + 1
      /\ action = "restart_from_integration" => r.stage = "integration"
      /\ action = "retry_stage" => r.stage = s.stage /\ r.status = RetryStatus(s)
      /\ action = "skip_target" => r.stage = "complete" /\ r.status = "skipped_after_recovery"
  BY <1>1, <1>3 DEF Recovered, To, State
<1>5. ~Unaided(r)
  BY <1>1, <1>4 DEF Unaided, State
<1> HIDE DEF r
<1>6. ~RepairPending(r)
  BY <1>2, <1>3, <1>4 DEF RepairPending
<1>7. action # "restart_from_integration" => Follows(s, r)
  BY <1>2, <1>3, <1>4, <1>5, <1>6 DEF Follows, Parked, Preparation
<1> QED
  BY <1>1, <1>4, <1>5, <1>6, <1>7 DEF r

LEMMA RecoverSound ==
  ASSUME CoreInv, PendingSound, Recover
  PROVE  PendingSound' /\ RecoverySound'
<1>1. /\ Eligible(st) /\ UNCHANGED <<disk, pending, spent, mode>> /\ st' = st
  BY DEF Recover, history, st
<1>2. PICK action \in Options(st) :
        recovery' = (IF action = "restart_from_integration" THEN RecoveryMoves ELSE <<>>)
                    \o Save(Recovered(st, action))
                    \o <<W("applied", disk.applied \cup {Applied(st, action)})>>
  BY DEF Recover
<1> DEFINE moves == IF action = "restart_from_integration" THEN RecoveryMoves ELSE <<>>
           s == Recovered(st, action)
           a == W("applied", disk.applied \cup {Applied(st, action)})
<1>3. st \in GoodStates /\ disk.applied \in SUBSET Records
      /\ Suits(st, disk.integration, disk.manifest, disk.smoke, disk.probe, disk.quartet)
  BY SoundNow DEF CoreInv, TypeInv, TypeOK, Disk, Records
<1>4. s \in GoodStates /\ Applied(st, action) \in Records
  BY <1>1, <1>2, <1>3, RecoveredIsGood
<1>5. a \in AppliedWrites
  BY <1>3, <1>4 DEF W, AppliedWrites
<1>6. /\ s.attempted = st.attempted /\ ~Unaided(s) /\ ~RepairPending(s)
      /\ action # "restart_from_integration" => Follows(st, s)
  BY <1>1, <1>2, <1>3, RecoveredFollows
<1>7. recovery' = moves \o Save(s) \o <<a>>
  BY <1>2
<1> HIDE DEF s, a
<1>8. moves \in Seq(Aloof)
  BY MovesAreAloof, EmptySeq
<1> HIDE DEF moves
<1>9. recovery' \in Seq(Aloof)
  <2>1. W("state", s) \in Aloof /\ a \in Aloof
    BY <1>4, <1>5, MovesAreWrites DEF Aloof, W, Writes, AppliedWrites
  <2>2. Save(s) \in Seq(Aloof) /\ <<a>> \in Seq(Aloof)
    BY <2>1, Single DEF Save
  <2> QED
    BY <1>7, <1>8, <2>2, ConcatProperties
<1>10. ASSUME NEW t \in Attended(st), NEW y \in Snapshots
       PROVE  Sound(recovery', With(t, y))
  <2> DEFINE x == With(t, y)
  <2>1. t \in Followers(st) /\ t \in GoodStates /\ t.attempted = st.attempted
    BY DEF Attended, Followers, Follows
  <2>2. /\ x \in Suited /\ x.disk.state = t
        /\ x.disk.integration = disk.integration /\ x.disk.manifest = disk.manifest
        /\ x.disk.smoke = disk.smoke /\ x.disk.probe = disk.probe /\ x.disk.quartet = disk.quartet
    BY <2>1, AttendedSuits, WithReads
  <2> HIDE DEF x
  <2>3. CASE action = "restart_from_integration"
    <3>1. Arrives(RecoveryMoves, x, t, FALSE, None, None, None, NoReview)
      BY <2>2, RestartArrives
    <3>2. Suits(t, FALSE, None, None, None, NoReview)
      BY <3>1, ArrivesSuits
    <3>3. Suits(s, FALSE, None, None, None, NoReview)
      BY <1>6, <2>1, <3>2 DEF Suits, Supplied, OutOfTurn
    <3>4. Arrives(RecoveryMoves \o Save(s), x, s, FALSE, None, None, None, NoReview)
      BY <1>4, <3>1, <3>3, ArrivesSave
    <3>5. Sound((RecoveryMoves \o Save(s)) \o <<a>>, x)
      BY <1>5, <3>4, ThenNoted
    <3> QED
      BY <1>7, <2>3, <3>5 DEF moves, x
  <2>4. CASE action # "restart_from_integration"
    <3>1. Arrives(<<>>, x, t, disk.integration, disk.manifest, disk.smoke, disk.probe, disk.quartet)
      BY <2>2, ArrivesNone
    <3>2. Suits(s, disk.integration, disk.manifest, disk.smoke, disk.probe, disk.quartet)
      BY <1>3, <1>6, <2>4, FollowerSuits
    <3>3. Arrives(<<>> \o Save(s), x, s, disk.integration, disk.manifest, disk.smoke, disk.probe, disk.quartet)
      BY <1>4, <3>1, <3>2, ArrivesSave
    <3>4. Sound((<<>> \o Save(s)) \o <<a>>, x)
      BY <1>5, <3>3, ThenNoted
    <3> QED
      BY <1>7, <2>4, <3>4 DEF moves, x
  <2> QED
    BY <2>3, <2>4
<1>11. \A t, y : With(t, y)' = With(t, y)
  BY <1>1 DEF With
<1>12. RecoverySound'
  BY <1>1, <1>9, <1>10, <1>11 DEF RecoverySound
<1>13. Snapshot' = Snapshot
  BY <1>1 DEF Snapshot
<1> QED
  BY <1>1, <1>12, <1>13 DEF PendingSound

LEMMA MonitorWriteSound ==
  ASSUME CoreInv, RecoveryInv, PendingSound, RecoverySound, MonitorWrite
  PROVE  PendingSound' /\ RecoverySound'
<1> DEFINE w == Head(recovery)
           rest == Tail(recovery)
<1>1. /\ recovery # <<>> /\ recovery' = rest /\ disk' = [disk EXCEPT ![w.file] = w.value]
      /\ pending' = pending /\ spent' = spent /\ mode' = mode
  BY DEF MonitorWrite, history
<1>2. w \in Aloof /\ rest \in Seq(Aloof) /\ w \in Writes /\ w.file # "progress"
  BY <1>1, HeadTailProperties DEF RecoverySound, Aloof
<1>3. Snapshot \in Suited /\ Snapshot \in Snapshots /\ st \in GoodStates /\ st \in Followers(st)
      /\ disk \in Disk
  BY SoundNow DEF CoreInv, TypeInv, TypeOK
<1>4. CASE w \in AppliedWrites /\ rest \in Seq(AppliedWrites)
  <2>1. w.file = "applied" /\ w.value \in SUBSET Records
    BY <1>4 DEF AppliedWrites
  <2> HIDE DEF w, rest
  <2>2. Snapshot' = Noted(Snapshot, w.value)
    BY <1>1, <2>1 DEF Snapshot, Noted
  <2>3. From(pending, Noted(Snapshot, w.value)) \in Safe(Suited, Snapshots)
    BY <2>1, NotedSafe, NotedSuits, NotedReads DEF PendingSound, Sound
  <2>4. PendingSound'
    BY <1>1, <2>2, <2>3 DEF PendingSound, Sound
  <2> QED
    BY <1>1, <1>2, <1>4, <2>4 DEF RecoverySound
<1>5. CASE ~(w \in AppliedWrites /\ rest \in Seq(AppliedWrites))
  <2>1. recovery \notin Seq(AppliedWrites)
    BY <1>1, <1>5, HeadTailProperties
  <2>2. pending = <<>> /\ st.status \in MANUAL_STATUSES
    BY <2>1 DEF RecoveryInv
  <2>3. \A t \in Attended(st), y \in Snapshots :
          From(rest, Store(With(t, y), w)) \in Safe(Suited, Snapshots)
    BY <1>1, <2>1, SafeNow DEF RecoverySound, Sound
  <2>4. Snapshot = With(st, Snapshot) /\ st \in Attended(st)
    <3>1. Snapshot.disk = [disk EXCEPT !.state = st]
      BY <1>3 DEF Disk, st, Snapshot
    <3>2. Snapshot = With(st, Snapshot)
      BY <1>3, <3>1 DEF With, Snapshots
    <3> QED
      BY <1>3, <2>2, <3>2 DEF Attended
  <2> HIDE DEF w, rest
  <2>5. Snapshot' = Store(Snapshot, w)
    BY <1>1, <1>2 DEF Snapshot, Store
  <2>6. From(rest, Snapshot') \in Safe(Suited, Snapshots)
    BY <1>3, <2>3, <2>4, <2>5
  <2>7. PendingSound'
    BY <1>1, <2>2, <2>6, SafeNow, NothingSafe DEF PendingSound, Sound
  <2>8. CASE w.file = "state"
    <3>1. rest \in Seq(AppliedWrites)
      BY <1>1, <2>1, <2>8, FirstMonitorWrite DEF w, rest, AppliedWrites, Moves, FileWrites
    <3> QED
      BY <1>1, <1>2, <2>7, <3>1 DEF RecoverySound
  <2>9. CASE w.file # "state"
    <3>1. st' = st
      BY <1>1, <1>3, <2>9 DEF st, Disk
    <3>2. ASSUME NEW t, NEW y \in Snapshots
          PROVE  With(t, y)' = Store(With(t, y), w)
      <4>1. [disk' EXCEPT !.state = t] = [[disk EXCEPT !.state = t] EXCEPT ![w.file] = w.value]
        BY <1>1, <1>3, <2>9 DEF Disk
      <4>2. /\ With(t, y).disk = [disk EXCEPT !.state = t]
            /\ With(t, y).spent = y.spent /\ With(t, y).own = y.own
            /\ With(t, y)' = [disk |-> [disk' EXCEPT !.state = t], spent |-> y.spent, own |-> y.own]
        BY DEF With, Snapshots
      <4> QED
        BY <1>2, <4>1, <4>2 DEF Store
    <3>3. \A t \in Attended(st), y \in Snapshots : Sound(rest, With(t, y)')
      BY <2>3, <3>2 DEF Sound
    <3> QED
      BY <1>1, <1>2, <2>7, <3>1, <3>3 DEF RecoverySound
  <2> QED
    BY <2>8, <2>9
<1> QED
  BY <1>4, <1>5


-----------------------------------------------------------------------------
(* Every step.                                                             *)

LEMMA SoundStep ==
  ASSUME CoreInv, RecoveryInv, PendingFine, PendingSound, RecoverySound, [Next]_vars
  PROVE  PendingSound' /\ RecoverySound'
<1>1. CASE Recover
  BY <1>1, RecoverSound
<1>2. CASE MonitorWrite
  BY <1>2, MonitorWriteSound
<1>3. ASSUME ~Monitor
      PROVE  recovery' = recovery \/ recovery' = <<>>
  <2>1. CASE Handler
    BY <2>1, HandlersDo DEF HandlerStep
  <2>2. CASE ~Handler
    BY <1>3, <2>2
       DEF Next, Worker, Operator, vars, Start, Write, Ready, NeedsAttention, GiveUp, Return,
           RecordWorkerError, FollowupHarness, Retarget, RepairHarness, Rework, StopSeen, Crash
  <2> QED
    BY <2>1, <2>2
<1>4. ASSUME ~Monitor, recovery \in Seq(AppliedWrites)
      PROVE  RecoverySound'
  BY <1>3, <1>4, EmptySeq DEF RecoverySound
<1>5. ASSUME ~Monitor, recovery \notin Seq(AppliedWrites)
      PROVE  RecoverySound'
  <2>1. /\ pending = <<>> /\ mode \notin {"followup", "operator"}
        /\ st.status \in MANUAL_STATUSES /\ recovery # <<>>
    BY <1>5, EmptySeq DEF RecoveryInv
  <2>2. ~AtTop /\ ~Write /\ ~FollowupHarness /\ ~Operator /\ ~Start
    BY <2>1 DEF AtTop, Write, FollowupHarness, Operator, Retarget, RepairHarness, Rework, Start
  <2>3. ~Handler /\ ~Ready /\ ~StopSeen
    BY <2>2, HandlersAtTop DEF Ready, StopSeen, AtStage
  <2>4. CASE RecordWorkerError
    BY <1>5, <2>1, <2>4, RecordSound
  <2>5. CASE Crash
    BY <2>5, EmptySeq DEF Crash, RecoverySound
  <2>6. CASE NeedsAttention \/ GiveUp \/ Return \/ UNCHANGED vars
    <3>1. UNCHANGED <<disk, recovery>>
      BY <2>6 DEF NeedsAttention, GiveUp, Return, vars
    <3>2. st' = st /\ \A t, y : With(t, y)' = With(t, y)
      BY <3>1 DEF st, With
    <3> QED
      BY <3>1, <3>2 DEF RecoverySound
  <2> QED
    BY <1>5, <2>2, <2>3, <2>4, <2>5, <2>6 DEF Next, Worker
<1>6. ASSUME ~Monitor, ~Write, ~RecordWorkerError
      PROVE  PendingSound'
  <2>1. CASE Handler
    BY <2>1, HandlersSound
  <2>2. pending' \in Seq(Writes)
    BY CoreStep DEF CoreInv, TypeInv
  <2>3. CASE Ready
    BY <2>2, <2>3, ReadySound
  <2>4. CASE FollowupHarness
    BY <2>2, <2>4, FollowupSound
  <2>5. CASE Operator
    BY <2>5, OperatorSound
  <2>6. CASE UNCHANGED vars
    BY <2>6 DEF vars, history, PendingSound, Snapshot
  <2>7. CASE Start \/ NeedsAttention \/ GiveUp \/ StopSeen \/ Return \/ Crash
    <3>1. disk' = disk /\ spent' = spent
      BY <2>7 DEF Start, NeedsAttention, GiveUp, StopSeen, Return, Crash, history
    <3>2. pending' = <<>>
      BY <2>7 DEF Start, NeedsAttention, GiveUp, StopSeen, Return, Crash, AtTop, AtStage, BetweenHandlers,
                  CoreInv, TypeInv
    <3> QED
      BY <3>1, <3>2, Restarted
  <2> QED
    BY <1>6, <2>1, <2>3, <2>4, <2>5, <2>6, <2>7 DEF Next, Worker
<1>7. CASE Write
  <2>1. ~Monitor
    BY <1>7, RecoveryStep DEF Write, Monitor, Recover, MonitorWrite
  <2> QED
    BY <1>4, <1>5, <1>7, <2>1, WriteSound
<1>8. CASE RecordWorkerError
  <2>1. ~Monitor
    BY <1>8 DEF RecordWorkerError, Monitor, Recover, MonitorWrite, Leave
  <2> QED
    BY <1>4, <1>5, <1>8, <2>1, RecordSound
<1> QED
  BY <1>1, <1>2, <1>4, <1>5, <1>6, <1>7, <1>8 DEF Monitor

LEMMA InitSound ==
  ASSUME Init
  PROVE  PendingSound /\ RecoverySound
<1>1. CoreInv
  BY InitGood
<1>2. disk \in GoodDisks /\ spent \in 0..Budget
  BY <1>1 DEF CoreInv, TypeInv, TypeOK
<1>3. Snapshot \in Snapshots /\ Snapshot.disk = disk
  BY <1>2 DEF Snapshot, Snapshots
<1>4. /\ disk.state.attempted = {} /\ disk.state.stage = "policy_recheck"
      /\ disk.manifest = None /\ disk.smoke = None /\ disk.quartet = NoReview
      /\ pending = <<>> /\ recovery = <<>>
  BY DEF Init, NewState
<1>5. NoReview.target = None
  BY DEF NoReview
<1>6. Supplied(disk.state, None, None, NoReview)
  BY <1>4, <1>5, NoTargets DEF Supplied, Room
<1>7. TargetsSuit(disk)
  BY <1>4, <1>6 DEF TargetsSuit, Suits, OutOfTurn, RepairPending
<1>8. PendingSound
  BY <1>3, <1>4, <1>7, NothingSafe DEF PendingSound, Sound, Suited
<1>9. RecoverySound
  BY <1>4, EmptySeq DEF RecoverySound
<1> QED
  BY <1>8, <1>9

\* The targets of build, smoke test and review, the review's verdict and the targets rejected
\* so far fit together at any time, and so do the writes to come.
THEOREM TargetsFit == Spec => [](PendingSound /\ RecoverySound)
<1>1. Init => PendingSound /\ RecoverySound
  BY InitSound
<1>2. CoreInv /\ RecoveryInv /\ PendingFine /\ PendingSound /\ RecoverySound /\ [Next]_vars
        => PendingSound' /\ RecoverySound'
  BY SoundStep
<1> QED
  BY <1>1, <1>2, CoreHolds, EvidenceHolds, PTL DEF Spec

\* The gate never tries more targets than pipeline.max_fuzz_target_attempts allows, although
\* a build, a repair and a generated harness each select a target of their own.
THEOREM TargetsAreBounded == Spec => []TargetsBounded
<1>1. CoreInv /\ PendingSound => TargetsBounded
  BY SoundNow DEF Suits, Supplied, TargetsBounded
<1> QED
  BY <1>1, CoreHolds, TargetsFit, PTL

\* A target that the gate has rejected is not fuzzed, whatever crash, recovery, follow-up or
\* operator came between any two writes, as long as no harness was rewritten.
THEOREM RejectedAreNotFuzzed == Spec => []RejectedNeverFuzzed
<1>1. ASSUME CoreInv, PendingSound
      PROVE  RejectedNeverFuzzed
  <2> SUFFICES ASSUME st.stage = "fuzzing", Unaided(st), disk.smoke \in st.attempted
               PROVE  FALSE
    BY DEF RejectedNeverFuzzed, Unaided
  <2>1. Suits(st, disk.integration, disk.manifest, disk.smoke, disk.probe, disk.quartet)
    BY <1>1, SoundNow
  <2> QED
    BY <2>1 DEF Suits, Unfavoured, Parked
<1> QED
  BY <1>1, CoreHolds, TargetsFit, PTL

================================================================================
