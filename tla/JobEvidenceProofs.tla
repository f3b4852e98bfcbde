--------------------------- MODULE JobEvidenceProofs ---------------------------
(* A session only starts on a harness that was approved: the theorem about the     *)
(* evidence in the run directory of JobPipeline.                                   *)
(*                                                                                 *)
(* A crash or a write of the monitor may come between any two writes of a handler, *)
(* so that the evidence has to fit the stage after every single one of them.  What *)
(* is still to be written is part of the invariant: from the present files on,     *)
(* every write of `pending' leads to files that fit.                               *)
EXTENDS JobPipelineProofs

-----------------------------------------------------------------------------
(* The evidence, and what fits together.                                   *)

Evidence == {"smoke", "probe", "quartet", "plan"}

\* What the argument looks at: the state, the build, the evidence, and which of it is of
\* this build.
Views ==
  [state : State, manifest : Targets \cup {None}, smoke : Targets \cup {None},
   probe : {None, "clean", "broken"} \cup Findings, quartet : Reviews,
   plan : {None, "ready", "work"}, current : SUBSET Evidence]

View ==
  [state |-> disk.state, manifest |-> disk.manifest, smoke |-> disk.smoke,
   probe |-> disk.probe, quartet |-> disk.quartet, plan |-> disk.plan, current |-> current]

Built(v) == v.manifest # None /\ v.smoke # None
Bare(v) == v.smoke = None /\ v.probe = None /\ v.quartet = NoReview /\ v.plan = None

\* A session may start: nothing can run, or what runs was tested, reviewed and analysed.
Full(v) ==
  Built(v) => /\ Evidence \subseteq v.current /\ v.smoke = v.manifest
              /\ v.quartet.verdict = "ready" /\ v.plan = "ready"

SmokeIsCurrent(v) == Built(v) => "smoke" \in v.current /\ v.smoke = v.manifest
ProbeIsCurrent(v) == v.manifest # None /\ v.probe # None => "probe" \in v.current

\* Up to the build there is no evidence; a stage that makes the next piece of it has none
\* of the later ones; a favourable review and a plan that allows fuzzing are of the build
\* that is there, unless that cannot run or is to be replaced.
Fits(v) ==
  /\ v.state.stage \in {"policy_recheck", "source_checkout", "tool_sync", "integration", "build"}
       => Bare(v)
  /\ v.state.stage = "smoke" =>
       v.probe = None /\ v.quartet = NoReview /\ v.plan = None /\ SmokeIsCurrent(v)
  /\ v.state.stage = "quartet_gate" =>
       v.plan = None /\ (v.quartet = NoReview => SmokeIsCurrent(v) /\ ProbeIsCurrent(v))
  /\ v.state.status = "quartet_repair_pending" => v.quartet.verdict # "ready"
  /\ v.state.stage = "fuzzing" /\ v.state.status \in GENERABLE => v.plan # "ready"
  /\ v.quartet.verdict = "ready" /\ v.plan # "work" /\ Built(v) =>
       {"smoke", "probe", "quartet"} \subseteq v.current /\ v.smoke = v.manifest
  /\ v.plan = "ready" /\ v.manifest # None => "plan" \in v.current

-----------------------------------------------------------------------------
(* Sequences of writes.                                                    *)

\* The view after a write of a handler.
Put(v, w) ==
  IF w.file = "state" THEN [v EXCEPT !.state = w.value]
  ELSE IF w.file = "manifest" THEN [v EXCEPT !.manifest = w.value, !.current = {}]
  ELSE IF w.file \notin Evidence THEN v
  ELSE [v EXCEPT ![w.file] = w.value,
                 !.current = IF w.value = Absent[w.file] THEN @ \ {w.file} ELSE @ \cup {w.file}]

\* A write that begins a session finds all evidence.
Starts(v, w) == w.file = "state" /\ w.value.active \notin {NoSession, v.state.active} => Full(v)

\* Writes to be made, and the view they start from.
At(ws, v) == [writes |-> ws, view |-> v]
Points == [writes : Seq(Writes), view : Views]

\* The writes that may be made from a view on, one after the other, so that the files fit
\* after each: the largest relation that is closed under making the first of them.
Sustained(R) ==
  \A ws \in Seq(Writes), v \in Views :
    At(ws, v) \in R =>
      /\ Fits(v)
      /\ ws # <<>> => Starts(v, Head(ws)) /\ At(Tail(ws), Put(v, Head(ws))) \in R
Fine == UNION {R \in SUBSET Points : Sustained(R)}

\* The writes lead from one view to another, from which others may go on.
Leads(ws, x, y) == \A e \in Seq(Writes) : At(e, y) \in Fine => At(ws \o e, x) \in Fine

\* Writes that leave build and evidence alone and save states of a set.
Quiet(S) == {w \in Writes : /\ w.file \notin Evidence \cup {"manifest"}
                            /\ w.file = "state" => w.value \in S}

LEMMA AtPoints ==
  /\ \A ws \in Seq(Writes), v \in Views : At(ws, v) \in Points
BY DEF At, Points

LEMMA OncePoint ==
  \A ws, ws2 \in Seq(Writes), v, v2 \in Views : At(ws, v) = At(ws2, v2) => ws = ws2 /\ v = v2
BY DEF At

LEMMA PointsAt ==
  ASSUME NEW ws, NEW v, At(ws, v) \in Points
  PROVE  ws \in Seq(Writes) /\ v \in Views
BY DEF At, Points

LEMMA FineLasts ==
  Fine \subseteq Points /\ Sustained(Fine)
BY DEF Fine, Sustained

LEMMA FineUp ==
  ASSUME NEW R, R \subseteq Points, Sustained(R)
  PROVE  R \subseteq Fine
BY DEF Fine

LEMMA NothingIsFine ==
  ASSUME NEW v \in Views, Fits(v)
  PROVE  At(<<>>, v) \in Fine
<1> DEFINE R == {At(<<>>, v)}
<1>1. <<>> \in Seq(Writes)
  BY EmptySeq
<1>2. Sustained(R)
  BY <1>1, OncePoint DEF Sustained
<1>3. R \subseteq Points
  BY <1>1, AtPoints
<1>4. R \subseteq Fine
  BY <1>2, <1>3, FineUp
<1> QED
  BY <1>4

LEMMA FineFits ==
  ASSUME NEW ws, NEW v, At(ws, v) \in Fine
  PROVE  ws \in Seq(Writes) /\ v \in Views /\ Fits(v)
BY FineLasts, PointsAt DEF Sustained

LEMMA PutType ==
  ASSUME NEW v \in Views, NEW w \in Writes
  PROVE  Put(v, w) \in Views
<1>1. CASE w \in [file : {"state"}, value : GoodStates]
  BY <1>1 DEF Put, Views, GoodStates
<1>2. CASE w \in [file : {"manifest"}, value : Targets \cup {None}]
  BY <1>2 DEF Put, Views
<1>3. CASE w \in [file : {"smoke"}, value : Targets \cup {None}]
  BY <1>3 DEF Put, Views, Evidence
<1>4. CASE w \in [file : {"probe"}, value : {None, "clean", "broken"} \cup Findings]
  BY <1>4 DEF Put, Views, Evidence
<1>5. CASE w \in [file : {"quartet"}, value : Reviews]
  BY <1>5 DEF Put, Views, Evidence
<1>6. CASE w \in [file : {"plan"}, value : {None, "ready", "work"}]
  BY <1>6 DEF Put, Views, Evidence
<1>7. CASE w.file \notin Evidence \cup {"state", "manifest"}
  BY <1>7 DEF Put
<1>8. \/ w.file \notin Evidence \cup {"state", "manifest"}
      \/ w \in [file : {"state"}, value : GoodStates]
      \/ w \in [file : {"manifest", "smoke"}, value : Targets \cup {None}]
      \/ w \in [file : {"probe"}, value : {None, "clean", "broken"} \cup Findings]
      \/ w \in [file : {"quartet"}, value : Reviews]
      \/ w \in [file : {"plan"}, value : {None, "ready", "work"}]
  BY DEF Writes, FileWrites, Evidence
<1> QED
  BY <1>1, <1>2, <1>3, <1>4, <1>5, <1>6, <1>7, <1>8

\* One write more at the front.
LEMMA FineFirst ==
  ASSUME NEW v \in Views, NEW w \in Writes, NEW ws \in Seq(Writes),
         Fits(v), Starts(v, w), At(ws, Put(v, w)) \in Fine
  PROVE  At(<<w>> \o ws, v) \in Fine
<1> DEFINE R == Fine \cup {At(<<w>> \o ws, v)}
<1>1. /\ <<w>> \o ws \in Seq(Writes) /\ <<w>> \o ws # <<>>
      /\ Head(<<w>> \o ws) = w /\ Tail(<<w>> \o ws) = ws
  <2>1. /\ <<w>> \in Seq(Writes) /\ <<w>> # <<>> /\ Head(<<w>>) = w /\ Tail(<<w>>) = <<>>
    BY Single
  <2>2. /\ <<w>> \o ws # <<>> /\ Head(<<w>> \o ws) = w /\ Tail(<<w>> \o ws) = <<>> \o ws
    BY <2>1, FirstAndRest
  <2> QED
    BY <2>1, <2>2, ConcatProperties, ConcatEmptySeq
<1> HIDE DEF R
<1>2. R \subseteq Points
  BY <1>1, AtPoints, FineLasts DEF R
<1>3. Sustained(R)
  <2> SUFFICES ASSUME NEW us \in Seq(Writes), NEW u \in Views, At(us, u) \in R
               PROVE  /\ Fits(u)
                      /\ us # <<>> => Starts(u, Head(us)) /\ At(Tail(us), Put(u, Head(us))) \in R
    BY DEF Sustained
  <2>1. CASE At(us, u) \in Fine
    BY <2>1, FineLasts DEF Sustained, R
  <2>2. CASE us = <<w>> \o ws /\ u = v
    BY <2>2, <1>1 DEF R
  <2>3. At(us, u) = At(<<w>> \o ws, v) => us = <<w>> \o ws /\ u = v
    BY <1>1, OncePoint
  <2> QED
    BY <2>1, <2>2, <2>3 DEF R
<1> QED
  BY <1>2, <1>3, FineUp DEF R

LEMMA LeadsOne ==
  ASSUME NEW v \in Views, NEW w \in Writes, Fits(v), Starts(v, w)
  PROVE  Leads(<<w>>, v, Put(v, w))
BY FineFirst DEF Leads

LEMMA LeadsNone ==
  ASSUME NEW v
  PROVE  Leads(<<>>, v, v)
BY ConcatEmptySeq DEF Leads

LEMMA LeadsOn ==
  ASSUME NEW a \in Seq(Writes), NEW b \in Seq(Writes), NEW x, NEW y, NEW z,
         Leads(a, x, y), Leads(b, y, z)
  PROVE  Leads(a \o b, x, z)
<1> SUFFICES ASSUME NEW e \in Seq(Writes), At(e, z) \in Fine
             PROVE  At((a \o b) \o e, x) \in Fine
  BY DEF Leads
<1>1. At(b \o e, y) \in Fine
  BY DEF Leads
<1>2. b \o e \in Seq(Writes)
  BY ConcatProperties
<1>3. At(a \o (b \o e), x) \in Fine
  BY <1>1, <1>2 DEF Leads
<1>4. (a \o b) \o e = a \o (b \o e)
  BY ConcatAssociative
<1> QED
  BY <1>3, <1>4

\* Where writes lead to a view that fits, they may be made.
LEMMA LeadsToFine ==
  ASSUME NEW ws \in Seq(Writes), NEW x, NEW y \in Views, Leads(ws, x, y), Fits(y)
  PROVE  At(ws, x) \in Fine
<1>1. At(ws \o <<>>, x) \in Fine
  BY NothingIsFine, EmptySeq DEF Leads
<1> QED
  BY <1>1, ConcatEmptySeq

\* Writes that lead from views of a set into views of it, and others after them.
LEMMA StaysFine ==
  ASSUME NEW S, NEW on \in [S -> Views], NEW Q \in SUBSET Writes, NEW e \in Seq(Writes),
         \A s \in S : Fits(on[s]) /\ At(e, on[s]) \in Fine,
         \A s \in S, w \in Q : Starts(on[s], w) /\ \E t \in S : Put(on[s], w) = on[t]
  PROVE  \A u \in Seq(Q), s \in S : At(u \o e, on[s]) \in Fine
<1> DEFINE P == {At(u \o e, on[s]) : u \in Seq(Q), s \in S}
           R == Fine \cup P
<1>1. \A u \in Seq(Q) : u \in Seq(Writes) /\ u \o e \in Seq(Writes)
  BY SeqMonotonic, ConcatProperties
<1>2. \A u \in Seq(Q), s \in S : At(u \o e, on[s]) \in P
  OBVIOUS
<1>3. \A p \in P : \E u \in Seq(Q), s \in S : p = At(u \o e, on[s])
  OBVIOUS
<1> HIDE DEF P
<1>4. R \subseteq Points
  <2>1. \A u \in Seq(Q), s \in S : At(u \o e, on[s]) \in Points
    BY <1>1, AtPoints
  <2> QED
    BY <2>1, <1>3, FineLasts
<1>5. ASSUME NEW u \in Seq(Q), NEW s \in S
      PROVE  /\ Fits(on[s])
             /\ u \o e # <<>> => /\ Starts(on[s], Head(u \o e))
                                 /\ At(Tail(u \o e), Put(on[s], Head(u \o e))) \in R
  <2>1. CASE u = <<>>
    <3>1. u \o e = e
      BY <2>1, ConcatEmptySeq
    <3> QED
      BY <3>1, FineLasts DEF Sustained
  <2>2. CASE u # <<>>
    <3>1. Head(u) \in Q /\ Tail(u) \in Seq(Q)
      BY <2>2, HeadTailProperties
    <3>2. Head(u \o e) = Head(u) /\ Tail(u \o e) = Tail(u) \o e
      BY <2>2, <1>1, FirstAndRest
    <3>3. PICK t \in S : Put(on[s], Head(u)) = on[t]
      BY <3>1
    <3>4. At(Tail(u) \o e, on[t]) \in P
      BY <1>2, <3>1
    <3>5. Starts(on[s], Head(u))
      BY <3>1
    <3> QED
      BY <3>2, <3>3, <3>4, <3>5
  <2> QED
    BY <2>1, <2>2
<1>6. Sustained(R)
  <2> SUFFICES ASSUME NEW us \in Seq(Writes), NEW v \in Views, At(us, v) \in R
               PROVE  /\ Fits(v)
                      /\ us # <<>> => Starts(v, Head(us)) /\ At(Tail(us), Put(v, Head(us))) \in R
    BY DEF Sustained
  <2>1. CASE At(us, v) \in Fine
    BY <2>1, FineLasts DEF Sustained
  <2>2. CASE At(us, v) \in P
    <3>1. PICK u \in Seq(Q), s \in S : At(us, v) = At(u \o e, on[s])
      BY <2>2, <1>3
    <3>2. us = u \o e /\ v = on[s]
      BY <3>1, <1>1, OncePoint
    <3> QED
      BY <3>2, <1>5
  <2> QED
    BY <2>1, <2>2
<1> QED
  BY <1>2, <1>4, <1>6, FineUp

\* Quiet writes, and others after them, whatever state was saved last.
LEMMA QuietPasses ==
  ASSUME NEW x \in Views, NEW S \in SUBSET State, x.state \in S,
         \A s \in S : Fits([x EXCEPT !.state = s]) /\ (s.active = x.state.active \/ Full(x)),
         NEW ws \in Seq(Quiet(S)), NEW e \in Seq(Writes),
         \A s \in S : At(e, [x EXCEPT !.state = s]) \in Fine
  PROVE  At(ws \o e, x) \in Fine
<1> DEFINE on == [s \in S |-> [x EXCEPT !.state = s]]
<1>1. on \in [S -> Views]
  BY DEF Views
<1>2. \A s \in S : Fits(on[s]) /\ At(e, on[s]) \in Fine
  OBVIOUS
<1>3. Quiet(S) \in SUBSET Writes
  BY DEF Quiet
<1>4. x = on[x.state]
  BY DEF Views
<1>5. \A s \in S, w \in Quiet(S) : Starts(on[s], w) /\ \E t \in S : Put(on[s], w) = on[t]
  <2> SUFFICES ASSUME NEW s \in S, NEW w \in Quiet(S)
               PROVE  Starts(on[s], w) /\ \E t \in S : Put(on[s], w) = on[t]
    OBVIOUS
  <2>1. on[s].state = s /\ (Full(x) => Full(on[s])) /\ \A t \in S : [on[s] EXCEPT !.state = t] = on[t]
    BY DEF Views, Full, Built
  <2>2. \A t \in S : t.active = x.state.active \/ Full(x)
    OBVIOUS
  <2> HIDE DEF on
  <2>3. CASE w.file = "state"
    BY <2>1, <2>2, <2>3 DEF Put, Starts, Quiet
  <2>4. CASE w.file # "state"
    BY <2>4 DEF Put, Starts, Quiet
  <2> QED
    BY <2>3, <2>4
<1> HIDE DEF on
<1>6. \A u \in Seq(Quiet(S)), s \in S : At(u \o e, on[s]) \in Fine
  BY <1>1, <1>2, <1>3, <1>5, StaysFine
<1> QED
  BY <1>4, <1>6

-----------------------------------------------------------------------------
(* Views of the disk, and steps between them.                              *)

LEMMA ViewType ==
  ASSUME TypeInv
  PROVE  View \in Views
BY DEF TypeInv, TypeOK, GoodDisks, Disk, View, Views, Evidence

\* A handler's writes are fine from the disk on.
PendingFine == At(pending, View) \in Fine

LEMMA FineNow ==
  ASSUME CoreInv, PendingFine
  PROVE  /\ View \in Views /\ Fits(View)
         /\ View.state = st /\ View.manifest = disk.manifest /\ View.smoke = disk.smoke
         /\ View.probe = disk.probe /\ View.quartet = disk.quartet /\ View.plan = disk.plan
         /\ View.current = current
<1>1. View \in Views /\ Fits(View)
  BY FineFits DEF PendingFine
<1>2. /\ View.state = st /\ View.manifest = disk.manifest /\ View.smoke = disk.smoke
      /\ View.probe = disk.probe /\ View.quartet = disk.quartet /\ View.plan = disk.plan
      /\ View.current = current
  BY DEF View, st
<1> QED
  BY <1>1, <1>2

LEMMA DoFine ==
  ASSUME NEW ws, NEW e, At(ws, View) \in Fine, Do(ws, e) \/ Interrupted(ws)
  PROVE  PendingFine'
<1>1. pending' = ws /\ View' = View
  BY DEF Do, Interrupted, View, history
<1> QED
  BY <1>1 DEF PendingFine

\* The stages after the review, where the evidence is made.
Late(s) ==
  /\ s.stage \in {"coverage_analysis", "fuzzing", "triage", "validation", "complete"}
  /\ s.stage = "fuzzing" => s.status \notin GENERABLE
  /\ s.status # "quartet_repair_pending"

\* Such states with a session that may be theirs.
LateStates(x) == {s \in State : Late(s) /\ (s.active = x.state.active \/ Full(x))}

LEMMA LateFits ==
  ASSUME NEW v \in Views, Fits(v), NEW s \in State, Late(s)
  PROVE  Fits([v EXCEPT !.state = s])
BY DEF Late, Fits, Views, Bare, Built, SmokeIsCurrent, ProbeIsCurrent

LEMMA LatePasses ==
  ASSUME NEW x \in Views, Fits(x), NEW ws \in Seq(Quiet(LateStates(x))), NEW e \in Seq(Writes),
         At(e, x) \in Fine, \A s \in LateStates(x) : At(e, [x EXCEPT !.state = s]) \in Fine
  PROVE  At(ws \o e, x) \in Fine
<1> DEFINE S == LateStates(x) \cup {x.state}
<1>1. x.state \in State /\ [x EXCEPT !.state = x.state] = x
  BY DEF Views
<1>2. S \in SUBSET State /\ x.state \in S
  BY <1>1 DEF LateStates
<1>3. \A s \in S : Fits([x EXCEPT !.state = s]) /\ (s.active = x.state.active \/ Full(x))
  BY <1>1, LateFits DEF LateStates
<1>4. ws \in Seq(Quiet(S))
  <2>1. Quiet(LateStates(x)) \subseteq Quiet(S)
    BY DEF Quiet
  <2> QED
    BY <2>1, SeqMonotonic
<1>5. \A s \in S : At(e, [x EXCEPT !.state = s]) \in Fine
  BY <1>1
<1> HIDE DEF S
<1> QED
  BY <1>2, <1>3, <1>4, <1>5, QuietPasses

LEMMA LateFine ==
  ASSUME NEW x \in Views, Fits(x), NEW ws \in Seq(Quiet(LateStates(x)))
  PROVE  At(ws, x) \in Fine /\ ws \in Seq(Writes)
<1>1. ws \in Seq(Writes)
  BY SeqMonotonic DEF Quiet
<1>2. \A s \in LateStates(x) : [x EXCEPT !.state = s] \in Views /\ Fits([x EXCEPT !.state = s])
  BY LateFits DEF LateStates, Views
<1>3. At(<<>>, x) \in Fine /\ \A s \in LateStates(x) : At(<<>>, [x EXCEPT !.state = s]) \in Fine
  BY <1>2, NothingIsFine
<1>4. At(ws \o <<>>, x) \in Fine
  BY <1>3, EmptySeq, LatePasses
<1> QED
  BY <1>1, <1>4, ConcatEmptySeq

\* Writes of files that are no evidence change nothing here.
LEMMA LeadsFiles ==
  ASSUME NEW x \in Views, Fits(x), NEW ws \in Seq(Quiet({}))
  PROVE  Leads(ws, x, x) /\ ws \in Seq(Writes)
<1>1. x.state \in State /\ [x EXCEPT !.state = x.state] = x
  BY DEF Views
<1>2. ws \in Seq(Quiet({x.state})) /\ ws \in Seq(Writes)
  BY SeqMonotonic DEF Quiet
<1>3. ASSUME NEW e \in Seq(Writes), At(e, x) \in Fine
      PROVE  At(ws \o e, x) \in Fine
  <2> DEFINE S == {x.state}
  <2>1. S \in SUBSET State /\ x.state \in S
    BY <1>1
  <2>2. \A s \in S : Fits([x EXCEPT !.state = s]) /\ (s.active = x.state.active \/ Full(x))
    BY <1>1
  <2>3. \A s \in S : At(e, [x EXCEPT !.state = s]) \in Fine
    BY <1>1, <1>3
  <2>4. ws \in Seq(Quiet(S))
    BY <1>2
  <2> HIDE DEF S
  <2> QED
    BY <2>1, <2>2, <2>3, <2>4, QuietPasses
<1> QED
  BY <1>2, <1>3 DEF Leads

\* One piece of evidence is gone, all else is there.
Dropped(x, y, f) ==
  /\ y \in Views /\ y.state = x.state /\ y.manifest = x.manifest
  /\ y[f] = Absent[f] /\ \A g \in Evidence \ {f} : y[g] = x[g]
  /\ y.current \in {x.current, x.current \ {f}}

LEMMA DropFits ==
  ASSUME NEW x \in Views, Fits(x), NEW f \in Evidence, NEW y, Dropped(x, y, f),
         x.manifest = None \/ x.smoke = None \/ f = "smoke",
         f = "quartet" => x.manifest = None \/ x.probe = None
  PROVE  Fits(y)
<1>1. CASE f = "smoke"
  BY <1>1 DEF Fits, Dropped, Evidence, Absent, Bare, Built, SmokeIsCurrent, ProbeIsCurrent, Views
<1>2. CASE f = "probe"
  BY <1>2 DEF Fits, Dropped, Evidence, Absent, Bare, Built, SmokeIsCurrent, ProbeIsCurrent, Views
<1>3. CASE f = "quartet"
  BY <1>3 DEF Fits, Dropped, Evidence, Absent, Bare, Built, SmokeIsCurrent, ProbeIsCurrent, NoReview, None, Views
<1>4. CASE f = "plan"
  BY <1>4 DEF Fits, Dropped, Evidence, Absent, Bare, Built, SmokeIsCurrent, ProbeIsCurrent, None, Views
<1> QED
  BY <1>1, <1>2, <1>3, <1>4 DEF Evidence

LEMMA DropLeads ==
  ASSUME NEW x \in Views, Fits(x), NEW f \in Evidence
  PROVE  /\ Leads(<<W(f, Absent[f])>>, x, Put(x, W(f, Absent[f]))) /\ W(f, Absent[f]) \in Writes
         /\ Dropped(x, Put(x, W(f, Absent[f])), f)
<1> DEFINE w == W(f, Absent[f])
<1>1. w \in Writes
  BY FileWriteIsEarly, EarlyIsWrites DEF Absent, Reviews, Evidence
<1>2. w.file = f /\ w.value = Absent[f]
  BY DEF W
<1>3. Starts(x, w)
  BY <1>2 DEF Starts, Evidence
<1>4. Put(x, w) \in Views
  BY <1>1, PutType
<1>5. Put(x, w) = [x EXCEPT ![f] = Absent[f], !.current = @ \ {f}]
  BY <1>2 DEF Put, Evidence
<1> HIDE DEF w
<1>6. Dropped(x, Put(x, w), f)
  BY <1>4, <1>5 DEF Dropped, Views, Evidence
<1> QED
  BY <1>1, <1>3, <1>6, LeadsOne DEF w

LEMMA MovedLeads ==
  ASSUME NEW x \in Views, Fits(x), NEW f \in Evidence, x[f] = disk[f]
  PROVE  \E y : Leads(Moved(f), x, y) /\ Dropped(x, y, f)
<1>1. CASE disk[f] = Absent[f]
  <2>1. Moved(f) = <<>>
    BY <1>1 DEF Moved
  <2>2. Dropped(x, x, f)
    BY <1>1 DEF Dropped
  <2> QED
    BY <2>1, <2>2, LeadsNone
<1>2. CASE disk[f] # Absent[f]
  <2>1. Moved(f) = <<W(f, Absent[f])>>
    BY <1>2 DEF Moved
  <2> QED
    BY <2>1, DropLeads
<1> QED
  BY <1>1, <1>2


-----------------------------------------------------------------------------
(* Archives.                                                               *)

\* A move of evidence, from files that fit to files that fit.
LEMMA ArchiveStep ==
  ASSUME NEW x, NEW y \in Views, Fits(y), NEW ws \in Seq(Writes), Leads(ws, x, y),
         NEW f \in Evidence, y[f] = disk[f],
         y.manifest = None \/ y.smoke = None \/ f = "smoke",
         f = "quartet" => y.manifest = None \/ y.probe = None
  PROVE  \E z : Leads(ws \o Moved(f), x, z) /\ Dropped(y, z, f) /\ z \in Views /\ Fits(z)
<1>1. PICK z : Leads(Moved(f), y, z) /\ Dropped(y, z, f)
  BY MovedLeads
<1>2. Fits(z) /\ z \in Views
  BY <1>1, DropFits DEF Dropped
<1>3. Moved(f) \in Seq(Writes)
  BY MovedIsEarly, EarlyIsWrites, SeqMonotonic DEF Absent, Evidence
<1> QED
  BY <1>1, <1>2, <1>3, LeadsOn

LEMMA AbsentTypes ==
  /\ Absent["integration"] = FALSE /\ Absent["crash_files"] = FALSE
  /\ Absent["summary"] = None /\ Absent["afl"] = None
  /\ Absent["run"] \in Runs /\ Absent["progress"] \in Progresses
BY Bounds DEF Absent, NoRun, NoSession, Runs, Progresses

LEMMA MovedFiles ==
  ASSUME NEW f \in {"integration", "run", "progress", "afl", "summary", "crash_files"}
  PROVE  Moved(f) \in Seq(Quiet({}))
<1>1. W(f, Absent[f]) \in Quiet({})
  <2>1. W(f, Absent[f]) \in Early
    BY FileWriteIsEarly, AbsentTypes
  <2> QED
    BY <2>1, EarlyIsWrites DEF Quiet, W, Evidence
<1> QED
  BY <1>1, Single, EmptySeq DEF Moved

\* The results of a harness are archived.
LEMMA ArchiveLeads ==
  ASSUME CoreInv, NEW x \in Views, Fits(x), \A f \in Evidence : x[f] = disk[f]
  PROVE  \E y \in Views : /\ Leads(ArchivePreGenerationResults, x, y)
                          /\ Fits(y) /\ y.state = x.state /\ Bare(y)
<1>0. disk \in Disk
  BY DEF CoreInv, TypeInv, TypeOK
<1>1. \A f \in Evidence : Moved(f) \in Seq(Writes)
  BY MovedIsEarly, EarlyIsWrites, SeqMonotonic DEF Absent, Evidence
<1>2. PICK a : Leads(Moved("smoke"), x, a) /\ Dropped(x, a, "smoke")
  BY MovedLeads DEF Evidence
<1>3. a \in Views /\ Fits(a)
  BY <1>2, DropFits DEF Dropped, Evidence
<1>4. a.smoke = None /\ a.probe = disk.probe /\ a.quartet = disk.quartet /\ a.plan = disk.plan
      /\ a.state = x.state
  BY <1>2 DEF Dropped, Evidence, Absent
<1>5. PICK b : /\ Leads(Moved("smoke") \o Moved("probe"), x, b)
               /\ Dropped(a, b, "probe") /\ b \in Views /\ Fits(b)
  BY <1>1, <1>2, <1>3, <1>4, ArchiveStep DEF Evidence
<1>6. b.smoke = None /\ b.probe = None /\ b.quartet = disk.quartet /\ b.plan = disk.plan
      /\ b.state = x.state
  BY <1>4, <1>5 DEF Dropped, Evidence, Absent
<1>7. Moved("smoke") \o Moved("probe") \in Seq(Writes)
  BY <1>1, ConcatProperties DEF Evidence
<1>8. PICK c : /\ Leads(Moved("smoke") \o Moved("probe") \o Moved("quartet"), x, c)
               /\ Dropped(b, c, "quartet") /\ c \in Views /\ Fits(c)
  BY <1>5, <1>6, <1>7, ArchiveStep DEF Evidence
<1>9. c.smoke = None /\ c.probe = None /\ c.quartet = NoReview /\ c.plan = disk.plan
      /\ c.state = x.state
  BY <1>6, <1>8 DEF Dropped, Evidence, Absent
<1>10. Moved("smoke") \o Moved("probe") \o Moved("quartet") \in Seq(Writes)
  BY <1>1, <1>7, ConcatProperties DEF Evidence
<1>11. PICK y : /\ Leads(Moved("smoke") \o Moved("probe") \o Moved("quartet") \o Moved("plan"), x, y)
                /\ Dropped(c, y, "plan") /\ y \in Views /\ Fits(y)
  BY <1>8, <1>9, <1>10, ArchiveStep DEF Evidence
<1>12. Bare(y) /\ y.state = x.state
  BY <1>9, <1>11 DEF Dropped, Evidence, Absent, Bare
<1> DEFINE M == Moved("smoke") \o Moved("probe") \o Moved("quartet") \o Moved("plan")
<1>13. M \in Seq(Writes)
  BY <1>1, <1>10, ConcatProperties DEF Evidence
<1>14. TimeCarriedOver \in Seq(Quiet({}))
  <2>1. [disk.progress EXCEPT !.stalled = FALSE] \in Progresses
    BY <1>0 DEF Disk, Progresses
  <2> DEFINE w == W("progress", [disk.progress EXCEPT !.stalled = FALSE])
  <2>2. w \in Quiet({})
    <3>1. w \in Writes
      BY <2>1, FileWriteIsEarly, EarlyIsWrites
    <3> QED
      BY <3>1 DEF Quiet, W, Evidence
  <2> HIDE DEF w
  <2>3. <<w>> \in Seq(Quiet({}))
    BY <2>2, Single
  <2> QED
    BY <2>3, EmptySeq DEF TimeCarriedOver, w
<1>15. /\ Moved("run") \in Seq(Quiet({})) /\ Moved("progress") \in Seq(Quiet({}))
       /\ Moved("crash_files") \in Seq(Quiet({}))
  BY MovedFiles
<1>16. Leads(M, x, y)
  BY <1>11
<1> HIDE DEF M
<1>17. Leads(M \o Moved("run"), x, y) /\ M \o Moved("run") \in Seq(Writes)
  BY <1>11, <1>13, <1>15, <1>16, LeadsFiles, LeadsOn, ConcatProperties
<1>18. Leads(M \o Moved("run") \o Moved("progress"), x, y)
       /\ M \o Moved("run") \o Moved("progress") \in Seq(Writes)
  BY <1>11, <1>15, <1>17, LeadsFiles, LeadsOn, ConcatProperties
<1>19. Leads(Results, x, y) /\ Results \in Seq(Writes)
  BY <1>18 DEF Results, M
<1>20. Leads(Results \o TimeCarriedOver, x, y) /\ Results \o TimeCarriedOver \in Seq(Writes)
  BY <1>11, <1>14, <1>19, LeadsFiles, LeadsOn, ConcatProperties
<1>21. Leads(ArchivePreGenerationResults, x, y)
  BY <1>11, <1>15, <1>20, LeadsFiles, LeadsOn DEF ArchivePreGenerationResults
<1> QED
  BY <1>11, <1>12, <1>21

\* A last save of the state.
LEMMA LastSave ==
  ASSUME NEW x, NEW y \in Views, NEW ws \in Seq(Writes), Leads(ws, x, y), Fits(y),
         NEW s \in GoodStates, s.active \in {NoSession, y.state.active} \/ Full(y),
         Fits([y EXCEPT !.state = s])
  PROVE  At(ws \o Save(s), x) \in Fine
<1>1. W("state", s) \in Writes /\ Put(y, W("state", s)) = [y EXCEPT !.state = s]
  BY DEF W, Writes, Put
<1>2. Starts(y, W("state", s))
  BY DEF Starts, W
<1>3. [y EXCEPT !.state = s] \in Views
  BY DEF Views, GoodStates
<1>4. Leads(Save(s), y, [y EXCEPT !.state = s])
  BY <1>1, <1>2, LeadsOne DEF Save
<1>5. Save(s) \in Seq(Writes)
  BY <1>1, Single DEF Save
<1>6. Leads(ws \o Save(s), x, [y EXCEPT !.state = s]) /\ ws \o Save(s) \in Seq(Writes)
  BY <1>4, <1>5, LeadsOn, ConcatProperties
<1> QED
  BY <1>3, <1>6, LeadsToFine

LEMMA OnlySave ==
  ASSUME NEW x \in Views, Fits(x),
         NEW s \in GoodStates, s.active \in {NoSession, x.state.active} \/ Full(x),
         Fits([x EXCEPT !.state = s])
  PROVE  At(Save(s), x) \in Fine
<1>1. At(<<>> \o Save(s), x) \in Fine
  BY LeadsNone, EmptySeq, LastSave
<1>2. Save(s) \in Seq(Writes)
  BY Single DEF Save, W, Writes
<1> QED
  BY <1>1, <1>2, ConcatEmptySeq

-----------------------------------------------------------------------------
(* The handlers of the early stages.                                       *)

\* Without evidence everything fits.
LEMMA BareFits ==
  ASSUME NEW v, Bare(v)
  PROVE  Fits(v)
BY DEF Bare, Fits, Built, SmokeIsCurrent, ProbeIsCurrent, NoReview, None

LEMMA EvidenceAbsent ==
  /\ Absent["smoke"] = None /\ Absent["probe"] = None
  /\ Absent["quartet"] = NoReview /\ Absent["plan"] = None
BY DEF Absent

\* A handler that writes nothing.
LEMMA NothingFine ==
  ASSUME CoreInv, PendingFine, NEW e, Do(<<>>, e) \/ Interrupted(<<>>)
  PROVE  PendingFine'
BY FineNow, NothingIsFine, DoFine

\* Such a handler, or one that only saves a state.
LEMMA SaveFine ==
  ASSUME CoreInv, PendingFine, NEW s \in GoodStates, s.active \in {NoSession, st.active},
         Fits([View EXCEPT !.state = s]), NEW e, Do(Save(s), e)
  PROVE  PendingFine'
<1>1. View \in Views /\ Fits(View) /\ View.state = st
  BY FineNow
<1>2. At(Save(s), View) \in Fine
  BY <1>1, OnlySave
<1> QED
  BY <1>2, DoFine

LEMMA BareFine ==
  ASSUME CoreInv, PendingFine, Bare(View),
         NEW ws \in Seq(Quiet({s \in State : s.active = st.active})),
         NEW e, Do(ws, e) \/ Interrupted(ws)
  PROVE  PendingFine'
<1> DEFINE S == {s \in State : s.active = st.active}
<1>1. View \in Views /\ View.state = st /\ st \in State
  BY FineNow DEF Views
<1>2. \A s \in S : Bare([View EXCEPT !.state = s]) /\ [View EXCEPT !.state = s] \in Views
  BY <1>1 DEF Bare, Views
<1>3. \A s \in S : /\ Fits([View EXCEPT !.state = s]) /\ (s.active = View.state.active \/ Full(View))
                   /\ At(<<>>, [View EXCEPT !.state = s]) \in Fine
  BY <1>1, <1>2, BareFits, NothingIsFine
<1>4. S \in SUBSET State /\ View.state \in S /\ ws \in Seq(Quiet(S)) /\ ws \in Seq(Writes)
  BY <1>1, SeqMonotonic DEF Quiet
<1> HIDE DEF S
<1>5. At(ws \o <<>>, View) \in Fine
  BY <1>1, <1>3, <1>4, EmptySeq, QuietPasses
<1> QED
  BY <1>4, <1>5, ConcatEmptySeq, DoFine

LEMMA PrepareFine ==
  ASSUME CoreInv, PendingFine, Prepare
  PROVE  PendingFine'
<1> USE DEF CoreInv
<1>1. PICK from \in 1..3, to \in 1..4 :
        /\ STAGE_ORDER[from] = st.stage /\ from <= to
        /\ LET done == [k \in 1..(to - from) |-> W("state", Prepared(st, from + k))]
               last == IF to = from THEN st ELSE Prepared(st, to)
           IN \/ to = 4 /\ Do(done, None)
              \/ \E e \in (IF to = 1 THEN PolicyErrors ELSE ToolErrors) :
                   to < 4 /\ Do(done \o Save(Flag(last, "failed", e)), e)
              \/ to \in {2, 3} /\ Interrupted(done \o Save(Flag(last, "failed", "stopped")))
  BY DEF Prepare
<1> DEFINE done == [k \in 1..(to - from) |-> W("state", Prepared(st, from + k))]
           last == IF to = from THEN st ELSE Prepared(st, to)
           Q == Quiet({s \in State : s.active = st.active})
<1>2. st.stage \in {"policy_recheck", "source_checkout", "tool_sync"}
  BY <1>1 DEF STAGE_ORDER
<1>3. st \in LiveStates
  BY <1>2, LiveAtTop DEF Prepare
<1>4. ASSUME NEW s \in LiveStates, s.active = st.active
      PROVE  W("state", s) \in Q /\ Save(s) \in Seq(Q)
  <2>1. W("state", s) \in Q
    BY <1>4, LiveIsGood DEF Quiet, W, Writes, Evidence, GoodStates
  <2> QED
    BY <2>1, Single DEF Save
<1> HIDE DEF Q
<1>5. ASSUME NEW k \in 1..4
      PROVE  Prepared(st, k) \in LiveStates /\ Prepared(st, k).active = st.active
  <2>1. STAGE_ORDER[k] \in {"policy_recheck", "source_checkout", "tool_sync", "integration"}
    BY DEF STAGE_ORDER
  <2>2. STAGE_ORDER[k] \in Stages \ {"complete"} /\ {"prepared", "preparing"} \subseteq Statuses
    BY <2>1 DEF Stages, Statuses, RECOVERY_STAGE_STATUS, RECOVERABLE_FAILURE_STAGES
  <2>3. Prepared(st, k).active = st.active
    BY <1>3 DEF Prepared, To, LiveStates, State
  <2> QED
    BY <1>3, <2>2, <2>3, MovesOn DEF Prepared
<1>6. done \in Seq(Q)
  <2>1. to - from \in Nat
    BY <1>1
  <2>2. ASSUME NEW k \in 1..(to - from)
        PROVE  W("state", Prepared(st, from + k)) \in Q
    <3>1. from + k \in 1..4
      BY <2>1
    <3> QED
      BY <3>1, <1>4, <1>5
  <2> QED
    BY <2>1, <2>2
<1>7. last \in LiveStates /\ last.active = st.active
  BY <1>3, <1>5
<1> HIDE DEF done, last
<1>8. ASSUME NEW e \in Errors
      PROVE  done \o Save(Flag(last, "failed", e)) \in Seq(Q)
  <2>1. "failed" \in Statuses
    BY DEF Statuses
  <2>2. Flag(last, "failed", e) \in LiveStates /\ Flag(last, "failed", e).active = st.active
    BY <1>7, <2>1, Flagged DEF Flag, LiveStates, State
  <2> QED
    BY <1>4, <1>6, <2>2, ConcatProperties
<1>9. Bare(View)
  <2>1. Fits(View) /\ View.state.stage = st.stage
    BY FineNow
  <2> QED
    BY <1>2, <2>1 DEF Fits
<1>10. None \in Errors /\ "stopped" \in Errors
  BY DEF Errors, OwnErrors
<1>11. CASE to = 4 /\ Do(done, None)
  BY <1>6, <1>9, <1>11, BareFine DEF Q
<1>12. CASE \E e \in (IF to = 1 THEN PolicyErrors ELSE ToolErrors) :
              to < 4 /\ Do(done \o Save(Flag(last, "failed", e)), e)
  BY <1>8, <1>9, <1>12, ErrorTypes, BareFine DEF Q
<1>13. CASE to \in {2, 3} /\ Interrupted(done \o Save(Flag(last, "failed", "stopped")))
  BY <1>8, <1>9, <1>10, <1>13, BareFine DEF Q
<1> QED
  BY <1>1, <1>11, <1>12, <1>13 DEF done, last

\* A stage with one product, which leads to a view that fits the next stage.
LEMMA SingleStageFine ==
  ASSUME CoreInv, PendingFine, NEW expected \in Stages \ {"validation", "complete"}, NEW possible,
         NEW errors \in SUBSET Errors, NEW product \in Seq(Writes),
         NEW next_stage \in Stages, NEW next_status \in Statuses, next_stage # "complete",
         next_status # "quartet_repair_pending", expected # "fuzzing",
         st.stage = expected /\ possible =>
           \E y \in Views : /\ Leads(product, View, y) /\ Fits(y) /\ y.state = st
                            /\ Fits([y EXCEPT !.state = To(st, next_stage, next_status)]),
         SingleStage(expected, possible, errors, product, next_stage, next_status)
  PROVE  PendingFine'
<1> USE DEF CoreInv
<1>1. st \in LiveStates /\ st.stage = expected
  BY LiveAtTop DEF SingleStage, AtStage
<1>2. CASE possible /\ Do(product \o Save(To(st, next_stage, next_status)), None)
  <2>1. To(st, next_stage, next_status) \in GoodStates /\ To(st, next_stage, next_status).active = st.active
    BY <1>1, MovesOn DEF To, LiveStates, State
  <2>2. PICK y \in Views : /\ Leads(product, View, y) /\ Fits(y) /\ y.state = st
                           /\ Fits([y EXCEPT !.state = To(st, next_stage, next_status)])
    BY <1>1, <1>2
  <2> HIDE DEF To
  <2>3. At(product \o Save(To(st, next_stage, next_status)), View) \in Fine
    BY <2>1, <2>2, LastSave
  <2> QED
    BY <1>2, <2>3, DoFine
<1>3. CASE \E e \in (IF possible THEN errors ELSE {"missing"}) : Do(Save(StageFailed(e)), e)
  <2>1. PICK e \in Errors : Do(Save(StageFailed(e)), e)
    BY <1>3, ErrorTypes DEF OwnErrors
  <2>2. StageFailed(e) \in GoodStates
    BY <1>1, StageFailedEnds
  <2>3. /\ StageFailed(e).active = st.active
        /\ StageFailed(e).stage \in {st.stage, "complete"}
        /\ StageFailed(e).status \in {"failed", "unsupported_integration"}
    BY <1>1 DEF StageFailed, Flag, LiveStates, State
  <2>4. View \in Views /\ Fits(View) /\ View.state = st
    BY FineNow
  <2> HIDE DEF StageFailed
  <2>5. Fits([View EXCEPT !.state = StageFailed(e)])
    BY <1>1, <2>3, <2>4 DEF Fits, Views, Bare, Built, SmokeIsCurrent, ProbeIsCurrent, GENERABLE
  <2> QED
    BY <2>1, <2>2, <2>3, <2>5, SaveFine
<1>4. CASE possible /\ Interrupted(<<>>)
  BY <1>4, NothingFine
<1> QED
  BY <1>2, <1>3, <1>4 DEF SingleStage

LEMMA IntegrateFine ==
  ASSUME CoreInv, PendingFine, Integrate
  PROVE  PendingFine'
<1> DEFINE harnesses == IF Generated THEN {} ELSE disk.rewritten
           product == <<W("rewritten", harnesses), W("integration", TRUE)>>
           s == To(st, "build", "integrated")
<1>1. harnesses \in SUBSET Targets
  BY DEF CoreInv, TypeInv, TypeOK, Disk
<1> HIDE DEF harnesses
<1>2. product \in Seq(Quiet({}))
  <2>1. W("rewritten", harnesses) \in Quiet({}) /\ W("integration", TRUE) \in Quiet({})
    <3>1. W("rewritten", harnesses) \in Writes /\ W("integration", TRUE) \in Writes
      BY <1>1, FileWriteIsEarly, EarlyIsWrites
    <3> QED
      BY <3>1 DEF Quiet, W, Evidence
  <2> QED
    BY <2>1, Pair
<1>3. View \in Views /\ Fits(View) /\ View.state = st
  BY FineNow
<1>4. Leads(product, View, View) /\ product \in Seq(Writes)
  BY <1>2, <1>3, LeadsFiles
<1>5. st.stage = "integration" => Fits([View EXCEPT !.state = s])
  <2>1. st.stage = "integration" => Bare([View EXCEPT !.state = s])
    BY <1>3 DEF Fits, Bare, Views
  <2> QED
    BY <2>1, BareFits
<1> HIDE DEF product, s
<1>6. SingleStage("integration", TRUE, BuildErrors, product, "build", "integrated")
  BY DEF Integrate, product, harnesses
<1>7. "build" # "complete" /\ "integrated" # "quartet_repair_pending" /\ "integration" # "fuzzing"
      /\ "build" \in Stages
  BY DEF Stages
<1> QED
  BY <1>3, <1>4, <1>5, <1>6, <1>7, PreparationStages, ErrorTypes, SingleStageFine DEF s

LEMMA BuildFine ==
  ASSUME CoreInv, PendingFine, Build
  PROVE  PendingFine'
<1> DEFINE w == W("manifest", SelectTarget(Targets))
           y == Put(View, w)
           s == To(st, "smoke", "built")
<1>1. View \in Views /\ Fits(View) /\ View.state = st
  BY FineNow
<1>2. w \in Writes /\ w.file = "manifest"
  BY TargetsAssumption, SelectedTarget, FileWriteIsEarly, EarlyIsWrites DEF W
<1>3. Starts(View, w)
  BY <1>2 DEF Starts
<1>4. Leads(<<w>>, View, y) /\ y \in Views /\ <<w>> \in Seq(Writes)
  BY <1>1, <1>2, <1>3, LeadsOne, PutType, Single
<1>5. y.state = st /\ (Bare(View) => Bare(y) /\ Bare([y EXCEPT !.state = s]))
  BY <1>1, <1>2 DEF Put, Views, Bare
<1>6. st.stage = "build" => Bare(View)
  BY <1>1 DEF Fits
<1>7. st.stage = "build" => Fits(y) /\ Fits([y EXCEPT !.state = s])
  BY <1>5, <1>6, BareFits
<1>8. SingleStage("build", disk.integration, BuildErrors, <<w>>, "smoke", "built")
  BY DEF Build
<1>9. "smoke" # "complete" /\ "built" # "quartet_repair_pending" /\ "build" # "fuzzing"
      /\ "smoke" \in Stages
  BY DEF Stages
<1> HIDE DEF w, y, s
<1> QED
  BY <1>4, <1>5, <1>7, <1>8, <1>9, PreparationStages, ErrorTypes, SingleStageFine DEF s

LEMMA SmokeFine ==
  ASSUME CoreInv, PendingFine, Smoke
  PROVE  PendingFine'
<1> DEFINE possible == disk.manifest # None /\ disk.integration
           w == W("smoke", disk.manifest)
           y == Put(View, w)
           s == To(st, "quartet_gate", "quartet_pending")
<1>1. View \in Views /\ Fits(View) /\ View.state = st /\ View.manifest = disk.manifest
  BY FineNow
<1>2. w \in Writes /\ w.file = "smoke" /\ w.value = disk.manifest
  BY FileWriteIsEarly, EarlyIsWrites DEF CoreInv, TypeInv, TypeOK, Disk, W
<1>3. Starts(View, w)
  BY <1>2 DEF Starts
<1> HIDE DEF w
<1>4. Leads(<<w>>, View, y) /\ y \in Views /\ <<w>> \in Seq(Writes)
  BY <1>1, <1>2, <1>3, LeadsOne, PutType, Single
<1>5. ASSUME st.stage = "smoke", possible
      PROVE  y.state = st /\ Fits(y) /\ Fits([y EXCEPT !.state = s])
  <2>1. /\ y = [View EXCEPT !.smoke = disk.manifest, !.current = View.current \cup {"smoke"}]
    BY <1>1, <1>2, <1>5, EvidenceAbsent DEF Put, Evidence, Views
  <2>2. y.state = st
    BY <1>1, <2>1 DEF Views
  <2>3. /\ View.probe = None /\ View.quartet = NoReview /\ View.plan = None
    BY <1>1, <1>5 DEF Fits
  <2>4. /\ y.probe = None /\ y.quartet = NoReview /\ y.plan = None
        /\ y.smoke = y.manifest /\ "smoke" \in y.current
    BY <1>1, <2>1, <2>3 DEF Views
  <2>5. Fits(y)
    BY <1>5, <2>2, <2>4 DEF Fits, SmokeIsCurrent, NoReview, None
  <2> HIDE DEF y
  <2>6. s.stage = "quartet_gate" /\ s.status = "quartet_pending"
    BY DEF To, CoreInv, TypeInv, TypeOK, Disk, State
  <2> HIDE DEF s
  <2>7. Fits([y EXCEPT !.state = s])
    BY <1>4, <2>4, <2>6 DEF Fits, SmokeIsCurrent, ProbeIsCurrent, Built, NoReview, None, Views
  <2> QED
    BY <2>2, <2>5, <2>7
<1>6. SingleStage("smoke", possible, ToolErrors, <<w>>, "quartet_gate", "quartet_pending")
  BY DEF Smoke, w
<1>7. "quartet_gate" # "complete" /\ "quartet_pending" # "quartet_repair_pending" /\ "smoke" # "fuzzing"
      /\ "quartet_gate" \in Stages /\ "quartet_pending" \in Statuses
  BY PreparationStages
<1> HIDE DEF y, s, possible
<1> QED
  BY <1>4, <1>5, <1>6, <1>7, PreparationStages, ErrorTypes, SingleStageFine DEF s

-----------------------------------------------------------------------------
(* The handlers: the probe, the review, the repair.                        *)

LEMMA ProbeFine ==
  ASSUME CoreInv, PendingFine, Probe
  PROVE  PendingFine'
<1>1. /\ View \in Views /\ Fits(View) /\ View.state.stage = "quartet_gate" /\ View.probe = None
  BY FineNow DEF Probe, AtStage
<1>2. ASSUME NEW kind \in {"clean", "broken"} \cup Findings
      PROVE  /\ W("probe", kind) \in Writes /\ Leads(<<W("probe", kind)>>, View, Put(View, W("probe", kind)))
             /\ Put(View, W("probe", kind)) \in Views /\ Fits(Put(View, W("probe", kind)))
  <2> DEFINE w == W("probe", kind)
             y == Put(View, w)
  <2>1. w \in Writes /\ w.file = "probe" /\ w.value = kind /\ kind # None
    BY FileWriteIsEarly, EarlyIsWrites DEF W, Findings, None
  <2> HIDE DEF w
  <2>2. y = [View EXCEPT !.probe = kind, !.current = View.current \cup {"probe"}]
    BY <1>1, <2>1, EvidenceAbsent DEF Put, Evidence, Views
  <2>3. /\ y.state = View.state /\ y.manifest = View.manifest /\ y.smoke = View.smoke
        /\ y.quartet = View.quartet /\ y.plan = View.plan /\ y.probe = kind
        /\ y.current = View.current \cup {"probe"}
    BY <1>1, <2>2 DEF Views
  <2>4. y \in Views
    BY <1>1, <2>1, PutType
  <2>5. Starts(View, w)
    BY <2>1 DEF Starts
  <2> HIDE DEF y
  <2>6. Fits(y)
    BY <1>1, <2>3 DEF Fits, SmokeIsCurrent, ProbeIsCurrent, Built, None
  <2> QED
    BY <1>1, <2>1, <2>4, <2>5, <2>6, LeadsOne DEF w, y
<1>3. ASSUME NEW kind \in {"clean", "broken"} \cup Findings
      PROVE  /\ At(<<W("probe", kind)>>, View) \in Fine
             /\ At(<<W("crash_files", TRUE), W("probe", kind)>>, View) \in Fine
  <2>1. /\ W("crash_files", TRUE) \in Writes /\ <<W("crash_files", TRUE)>> \in Seq(Quiet({}))
    <3>1. W("crash_files", TRUE) \in Writes
      BY FileWriteIsEarly, EarlyIsWrites
    <3>2. W("crash_files", TRUE) \in Quiet({})
      BY <3>1 DEF Quiet, W, Evidence
    <3> QED
      BY <3>1, <3>2, Single
  <2>2. Leads(<<W("crash_files", TRUE)>>, View, View) /\ <<W("crash_files", TRUE)>> \in Seq(Writes)
    BY <1>1, <2>1, LeadsFiles
  <2>3. /\ W("probe", kind) \in Writes /\ Leads(<<W("probe", kind)>>, View, Put(View, W("probe", kind)))
        /\ Put(View, W("probe", kind)) \in Views /\ Fits(Put(View, W("probe", kind)))
    BY <1>2
  <2>4. <<W("probe", kind)>> \in Seq(Writes)
    BY <2>3, Single
  <2>5. At(<<W("probe", kind)>>, View) \in Fine
    BY <2>3, <2>4, LeadsToFine
  <2>6. At(<<W("crash_files", TRUE)>> \o <<W("probe", kind)>>, View) \in Fine
    BY <2>2, <2>4, <2>5 DEF Leads
  <2>7. <<W("crash_files", TRUE)>> \o <<W("probe", kind)>> = <<W("crash_files", TRUE), W("probe", kind)>>
    BY <2>1, <2>3, Pair
  <2> QED
    BY <2>5, <2>6, <2>7
<1>4. At(<<W("crash_files", TRUE)>>, View) \in Fine
  <2>1. <<W("crash_files", TRUE)>> \in Seq(Quiet({}))
    <3>1. W("crash_files", TRUE) \in Writes
      BY FileWriteIsEarly, EarlyIsWrites
    <3>2. W("crash_files", TRUE) \in Quiet({})
      BY <3>1 DEF Quiet, W, Evidence
    <3> QED
      BY <3>2, Single
  <2> QED
    BY <1>1, <2>1, LeadsFiles, LeadsToFine
<1>5. ASSUME NEW e, Do(<<>>, e) \/ Interrupted(<<>>)
      PROVE  PendingFine'
  BY <1>5, NothingFine
<1>6. ASSUME NEW e, NEW kind \in {"clean", "broken"} \cup Findings,
             Do(<<W("probe", kind)>>, e) \/ Do(<<W("crash_files", TRUE), W("probe", kind)>>, e)
      PROVE  PendingFine'
  BY <1>3, <1>6, DoFine
<1>7. CASE Interrupted(<<W("crash_files", TRUE)>>)
  BY <1>4, <1>7, DoFine
<1>8. \/ Do(<<>>, "missing") \/ Interrupted(<<>>) \/ Interrupted(<<W("crash_files", TRUE)>>)
      \/ Do(<<W("probe", "clean")>>, None)
      \/ \E kind \in Findings : Do(<<W("crash_files", TRUE), W("probe", kind)>>, None)
      \/ \E e \in ToolErrors : Do(<<>>, e) \/ Do(<<W("probe", "broken")>>, e)
  BY DEF Probe
<1>9. CASE \E kind \in Findings : Do(<<W("crash_files", TRUE), W("probe", kind)>>, None)
  BY <1>6, <1>9
<1>10. CASE \E e \in ToolErrors : Do(<<>>, e) \/ Do(<<W("probe", "broken")>>, e)
  BY <1>5, <1>6, <1>10
<1>11. Do(<<W("probe", "clean")>>, None) => PendingFine'
  BY <1>6
<1>12. Do(<<>>, "missing") \/ Interrupted(<<>>) => PendingFine'
  BY <1>5
<1> QED
  BY <1>7, <1>8, <1>9, <1>10, <1>11, <1>12

\* A manifest written anew, while a review that is not favourable, or a plan for another
\* harness, keeps what was measured with the old build from being used.
LEMMA ManifestLeads ==
  ASSUME NEW x \in Views, Fits(x), NEW t \in Targets \cup {None},
         x.state.stage \in {"quartet_gate", "fuzzing"}, x.plan # "ready",
         x.state.stage = "quartet_gate" => x.quartet # NoReview,
         x.quartet.verdict # "ready" \/ x.plan = "work"
  PROVE  /\ W("manifest", t) \in Writes
         /\ Leads(<<W("manifest", t)>>, x, [x EXCEPT !.manifest = t, !.current = {}])
         /\ [x EXCEPT !.manifest = t, !.current = {}] \in Views
         /\ Fits([x EXCEPT !.manifest = t, !.current = {}])
<1> DEFINE w == W("manifest", t)
           y == [x EXCEPT !.manifest = t, !.current = {}]
<1>1. w \in Writes /\ w.file = "manifest" /\ w.value = t
  BY FileWriteIsEarly, EarlyIsWrites DEF W
<1>2. Put(x, w) = y /\ Starts(x, w)
  BY <1>1 DEF Put, Starts
<1>3. Leads(<<w>>, x, y) /\ y \in Views
  BY <1>1, <1>2, LeadsOne, PutType
<1>4. Fits(y)
  BY DEF Fits, Views, SmokeIsCurrent, ProbeIsCurrent, Built
<1> QED
  BY <1>1, <1>3, <1>4

LEMMA RebuiltLeads ==
  ASSUME NEW x \in Views, Fits(x), NEW t \in Targets \cup {None},
         x.state.stage \in {"quartet_gate", "fuzzing"}, x.plan # "ready",
         x.state.stage = "quartet_gate" => x.quartet # NoReview,
         x.quartet.verdict # "ready" \/ x.plan = "work"
  PROVE  /\ Rebuilt(t) \in Seq(Writes)
         /\ Leads(Rebuilt(t), x, [x EXCEPT !.manifest = t, !.current = {}])
         /\ [x EXCEPT !.manifest = t, !.current = {}] \in Views
         /\ Fits([x EXCEPT !.manifest = t, !.current = {}])
<1> DEFINE first == SelectTarget(Targets)
           y == [x EXCEPT !.manifest = first, !.current = {}]
           z == [x EXCEPT !.manifest = t, !.current = {}]
<1>1. first \in Targets \cup {None}
  BY TargetsAssumption, SelectedTarget
<1> HIDE DEF first
<1>2. /\ W("manifest", first) \in Writes
      /\ Leads(<<W("manifest", first)>>, x, y) /\ y \in Views /\ Fits(y)
  BY <1>1, ManifestLeads
<1>3. /\ y.state = x.state /\ y.plan = x.plan /\ y.quartet = x.quartet
      /\ [y EXCEPT !.manifest = t, !.current = {}] = z
  BY DEF Views
<1> HIDE DEF y, z
<1>4. /\ W("manifest", t) \in Writes
      /\ Leads(<<W("manifest", t)>>, y, z) /\ z \in Views /\ Fits(z)
  BY <1>2, <1>3, ManifestLeads
<1>5. /\ <<W("manifest", first)>> \in Seq(Writes) /\ <<W("manifest", t)>> \in Seq(Writes)
      /\ <<W("manifest", first)>> \o <<W("manifest", t)>> = <<W("manifest", first), W("manifest", t)>>
      /\ <<W("manifest", first), W("manifest", t)>> \in Seq(Writes)
  BY <1>2, <1>4, Single, Pair
<1>6. Leads(<<W("manifest", first)>> \o <<W("manifest", t)>>, x, z)
  BY <1>2, <1>4, <1>5, LeadsOn
<1> QED
  BY <1>4, <1>5, <1>6 DEF Rebuilt, first, z

\* The last of some writes that may be made is one that may be made.
LEMMA LastIsWrite ==
  ASSUME NEW S, NEW a \in Seq(S), NEW w, a \o <<w>> \in Seq(S)
  PROVE  w \in S
<1>1. (a \o <<w>>)[Len(a) + 1] = w /\ Len(a \o <<w>>) = Len(a) + 1
  OBVIOUS
<1> QED
  BY <1>1

LEMMA GateFine ==
  ASSUME CoreInv, PendingFine, AtStage("quartet_gate"), pending' \in Seq(Writes),
         NEW review \in Reviews, review # NoReview, NEW before \in Seq(Writes),
         NEW x \in Views, Leads(before, View, x), Fits(x), x.state = st, x.quartet = review,
         x.smoke = disk.smoke, x.probe = disk.probe, x.plan = disk.plan,
         ApplyQuartetState(review, before)
  PROVE  PendingFine'
<1> DEFINE ready      == review.verdict = "ready"
           rejected   == ~ready /\ ~Finding /\ disk.manifest # None
           attempted  == IF rejected THEN st.attempted \cup {review.target} ELSE st.attempted
           candidates == Candidates(attempted)
           retry      == rejected /\ candidates # {} /\ MayTryAnother(attempted)
           s          == [st EXCEPT !.attempted = attempted]
           moves      == IF ~retry THEN <<>> ELSE
                           <<W("manifest", SelectTarget(candidates))>> \o Moved("smoke") \o Moved("probe")
                           \o <<W("quartet", NoReview)>> \o Moved("plan")
           decision   ==
             IF Finding /\ (ready \/ disk.probe = "sanitizer_error")
             THEN [To(s, "triage", "triage_pending") EXCEPT !.triage_artifact = "probe"]
             ELSE IF Finding /\ disk.probe # "uncaught_cpp_exception"
             THEN ReviewRequired(s, "untriaged")
             ELSE IF ready /\ disk.plan # None THEN To(s, "fuzzing", "ready")
             ELSE IF ready THEN To(s, "coverage_analysis", "analysis_pending")
             ELSE IF retry THEN To(s, "smoke", "target_retry_pending")
             ELSE IF Generated /\ disk.integration /\ s.quartet_repair < MaxGenerations
             THEN To(s, "quartet_gate", "quartet_repair_pending")
             ELSE [ReviewRequired(s, "exhausted") EXCEPT !.bounded = TRUE]
<1>1. st \in LiveStates /\ st.stage = "quartet_gate"
  BY GateFacts DEF AtStage
<1>2. Do(before \o moves \o Save(decision), None)
  BY DEF ApplyQuartetState
<1>3. decision.active = st.active
  <2>1. st \in State /\ attempted \in SUBSET Targets
    BY <1>1 DEF LiveStates, State, Reviews
  <2> HIDE DEF attempted
  <2>2. s \in State /\ s.active = st.active
    BY <2>1 DEF State
  <2> HIDE DEF s
  <2>3. /\ [To(s, "triage", "triage_pending") EXCEPT !.triage_artifact = "probe"].active = s.active
        /\ \A stage, status : To(s, stage, status).active = s.active
    BY <2>2 DEF To, State
  <2>4. /\ \A e : ReviewRequired(s, e).active = s.active
        /\ [ReviewRequired(s, "exhausted") EXCEPT !.bounded = TRUE].active = s.active
    BY <2>2 DEF ReviewRequired, Flag, AtLeastOneFailure, State
  <2> QED
    BY <2>2, <2>3, <2>4
<1>4. /\ ~retry => \/ Late(decision)
                   \/ /\ decision.stage = "quartet_gate"
                      /\ decision.status = "quartet_repair_pending" => ~ready
      /\ retry => decision.stage = "smoke" /\ decision.status = "target_retry_pending"
  BY <1>1 DEF To, ReviewRequired, Flag, AtLeastOneFailure, LiveStates, State, Late, GENERABLE
<1>5. SelectTarget(candidates) \in Targets \/ ~retry
  <2> HIDE DEF attempted
  <2>1. retry => candidates # {} /\ candidates \subseteq Targets
    BY DEF Candidates
  <2> HIDE DEF candidates, retry
  <2> QED
    BY <2>1, SelectedTarget
<1> HIDE DEF decision
<1>6. ~retry => Fits([x EXCEPT !.state = decision])
  <2>1. CASE decision.stage = "quartet_gate" /\ (decision.status = "quartet_repair_pending" => ~ready)
    BY <1>1, <2>1 DEF Fits, Views, SmokeIsCurrent, ProbeIsCurrent, Built
  <2>2. CASE Late(decision)
    BY <2>2 DEF Late, Fits, Views, Bare, Built, SmokeIsCurrent, ProbeIsCurrent
  <2> QED
    BY <1>4, <2>1, <2>2
<1>7. \E y \in Views : /\ Leads(moves, x, y) /\ Fits(y) /\ y.state = st
                       /\ Fits([y EXCEPT !.state = decision])
                       /\ moves \in Seq(Writes)
  <2>1. CASE ~retry
    <3>1. moves = <<>>
      BY <2>1
    <3> HIDE DEF moves, retry
    <3> QED
      BY <1>6, <2>1, <3>1, LeadsNone, EmptySeq
  <2>2. CASE retry
    <3> DEFINE t == SelectTarget(candidates)
               M == Moved("smoke")
               P == Moved("probe")
               L == Moved("plan")
    <3>1. moves = <<W("manifest", t)>> \o M \o P \o <<W("quartet", NoReview)>> \o L
      BY <2>2
    <3>2. ~ready /\ t \in Targets \cup {None}
      BY <2>2, <1>5
    <3> HIDE DEF t, moves, retry
    <3> DEFINE a == [x EXCEPT !.manifest = t, !.current = {}]
    <3>3. x.plan = None /\ x.quartet.verdict # "ready"
      BY <1>1, <3>2 DEF Fits
    <3>4. W("manifest", t) \in Writes /\ Leads(<<W("manifest", t)>>, x, a) /\ a \in Views /\ Fits(a)
      BY <1>1, <3>2, <3>3, ManifestLeads DEF None
    <3>5. a.state = st /\ a.smoke = disk.smoke /\ a.probe = disk.probe /\ a.plan = disk.plan
      BY DEF Views
    <3> HIDE DEF a
    <3>6. /\ <<W("manifest", t)>> \in Seq(Writes) /\ M \in Seq(Writes) /\ P \in Seq(Writes) /\ L \in Seq(Writes)
      BY <3>4, Single, MovedIsEarly, EarlyIsWrites, SeqMonotonic DEF Absent
    <3>7. PICK b : /\ Leads(<<W("manifest", t)>> \o M, x, b)
                   /\ Dropped(a, b, "smoke") /\ b \in Views /\ Fits(b)
      BY <3>4, <3>5, <3>6, ArchiveStep DEF Evidence
    <3>8. b.state = st /\ b.smoke = None /\ b.probe = disk.probe /\ b.plan = disk.plan
      BY <3>5, <3>7, EvidenceAbsent DEF Dropped, Evidence
    <3>9. <<W("manifest", t)>> \o M \in Seq(Writes)
      BY <3>6, ConcatProperties
    <3>10. PICK c : /\ Leads(<<W("manifest", t)>> \o M \o P, x, c)
                    /\ Dropped(b, c, "probe") /\ c \in Views /\ Fits(c)
      BY <3>7, <3>8, <3>9, ArchiveStep DEF Evidence
    <3>11. c.state = st /\ c.smoke = None /\ c.probe = None /\ c.plan = disk.plan
      BY <3>8, <3>10, EvidenceAbsent DEF Dropped, Evidence
    <3>12. <<W("manifest", t)>> \o M \o P \in Seq(Writes)
      BY <3>6, <3>9, ConcatProperties
    <3> DEFINE w == W("quartet", NoReview)
               d == Put(c, w)
    <3>13. w \in Writes /\ Leads(<<w>>, c, d) /\ Dropped(c, d, "quartet")
      BY <3>10, EvidenceAbsent, DropLeads DEF Evidence
    <3> HIDE DEF w, d
    <3>14. d \in Views /\ Fits(d)
      BY <3>10, <3>11, <3>13, DropFits DEF Dropped, Evidence
    <3>15. d.state = st /\ d.smoke = None /\ d.probe = None /\ d.quartet = NoReview /\ d.plan = disk.plan
      BY <3>11, <3>13, EvidenceAbsent DEF Dropped, Evidence
    <3>16. /\ Leads(<<W("manifest", t)>> \o M \o P \o <<w>>, x, d)
           /\ <<W("manifest", t)>> \o M \o P \o <<w>> \in Seq(Writes)
      BY <3>10, <3>12, <3>13, LeadsOn, Single, ConcatProperties
    <3>17. PICK y : /\ Leads(<<W("manifest", t)>> \o M \o P \o <<w>> \o L, x, y)
                    /\ Dropped(d, y, "plan") /\ y \in Views /\ Fits(y)
      BY <3>14, <3>15, <3>16, ArchiveStep DEF Evidence
    <3>18. y.state = st /\ Bare(y)
      BY <3>15, <3>17, EvidenceAbsent DEF Dropped, Evidence, Bare
    <3>19. Fits([y EXCEPT !.state = decision])
      <4>1. Bare([y EXCEPT !.state = decision])
        BY <3>17, <3>18 DEF Bare, Views
      <4> QED
        BY <4>1, BareFits
    <3>20. moves \in Seq(Writes)
      BY <3>1, <3>6, <3>16, ConcatProperties DEF w
    <3> QED
      BY <3>1, <3>17, <3>18, <3>19, <3>20 DEF w
  <2> QED
    BY <2>1, <2>2
<1> HIDE DEF moves, retry
<1>8. decision \in GoodStates
  <2>1. pending' = (before \o moves) \o <<W("state", decision)>>
    BY <1>2 DEF Do, Save
  <2>2. before \o moves \in Seq(Writes)
    BY <1>7, ConcatProperties
  <2>3. W("state", decision) \in Writes
    BY <2>1, <2>2, LastIsWrite
  <2> QED
    BY <2>3 DEF W, Writes, FileWrites
<1>9. PICK y \in Views : /\ Leads(moves, x, y) /\ Fits(y) /\ y.state = st
                         /\ Fits([y EXCEPT !.state = decision])
                         /\ moves \in Seq(Writes)
  BY <1>7
<1>10. Leads(before \o moves, View, y) /\ before \o moves \in Seq(Writes)
  BY <1>9, LeadsOn, ConcatProperties
<1>11. At(before \o moves \o Save(decision), View) \in Fine
  BY <1>3, <1>8, <1>9, <1>10, LastSave
<1> QED
  BY <1>2, <1>11, DoFine


LEMMA QuartetFine ==
  ASSUME CoreInv, PendingFine, Quartet, pending' \in Seq(Writes)
  PROVE  PendingFine'
<1>1. AtStage("quartet_gate") /\ disk \in GoodDisks /\ disk \in Disk
  BY GateFacts DEF Quartet, CoreInv, TypeInv
<1>2. /\ View \in Views /\ Fits(View) /\ View.state = st /\ View.manifest = disk.manifest
      /\ View.smoke = disk.smoke /\ View.probe = disk.probe /\ View.quartet = disk.quartet
      /\ View.plan = disk.plan /\ View.current = current
  BY FineNow
<1>3. CASE disk.quartet # NoReview /\ ApplyQuartetState(disk.quartet, <<>>)
  <2>1. disk.quartet \in Reviews
    BY <1>1 DEF GoodDisks
  <2>2. Leads(<<>>, View, View) /\ <<>> \in Seq(Writes)
    BY LeadsNone, EmptySeq
  <2> QED
    BY <1>1, <1>2, <1>3, <2>1, <2>2, GateFine
<1>4. CASE /\ disk.quartet = NoReview /\ Runnable
           /\ \E v \in {"ready", "rejected"} :
                LET review == [verdict |-> v, target |-> disk.smoke]
                IN  ApplyQuartetState(review, <<W("quartet", review)>>)
  <2>1. PICK v \in {"ready", "rejected"} :
          LET review == [verdict |-> v, target |-> disk.smoke]
          IN  ApplyQuartetState(review, <<W("quartet", review)>>)
    BY <1>4
  <2> DEFINE review == [verdict |-> v, target |-> disk.smoke]
             w == W("quartet", review)
             x == Put(View, w)
  <2>2. review \in Reviews /\ review # NoReview
    BY <1>1, <1>4 DEF Runnable, Disk, Reviews, NoReview, None
  <2>3. ApplyQuartetState(review, <<w>>)
    BY <2>1
  <2> HIDE DEF review
  <2>4. w \in Writes /\ w.file = "quartet" /\ w.value = review /\ Absent["quartet"] = NoReview
    BY <2>2, FileWriteIsEarly, EarlyIsWrites, EvidenceAbsent DEF W
  <2> HIDE DEF w
  <2>5. x = [View EXCEPT !.quartet = review, !.current = View.current \cup {"quartet"}]
    BY <1>2, <2>2, <2>4 DEF Put, Evidence, Views
  <2>6. /\ x.state = st /\ x.manifest = disk.manifest /\ x.smoke = disk.smoke
        /\ x.probe = disk.probe /\ x.plan = disk.plan /\ x.quartet = review
        /\ x.current = current \cup {"quartet"}
    BY <1>2, <2>5 DEF Views
  <2>7. x \in Views /\ Starts(View, w)
    BY <1>2, <2>4, PutType DEF Starts
  <2> HIDE DEF x
  <2>8. /\ SmokeIsCurrent(View) /\ ProbeIsCurrent(View) /\ disk.plan = None
        /\ st.stage = "quartet_gate" /\ st.status # "quartet_repair_pending" /\ disk.probe # None
    BY <1>1, <1>2, <1>4 DEF Fits, AtStage, Quartet
  <2>9. Fits(x)
    BY <1>2, <1>4, <2>2, <2>6, <2>8 DEF Fits, SmokeIsCurrent, ProbeIsCurrent, Built, Runnable, None
  <2>10. Leads(<<w>>, View, x) /\ <<w>> \in Seq(Writes)
    BY <1>2, <2>4, <2>7, LeadsOne, Single DEF x
  <2> QED
    BY <1>1, <2>2, <2>3, <2>6, <2>7, <2>9, <2>10, GateFine
<1>5. ASSUME NEW e, Do(<<>>, e)
      PROVE  PendingFine'
  BY <1>5, NothingFine
<1>6. \/ disk.quartet # NoReview /\ ApplyQuartetState(disk.quartet, <<>>)
      \/ Do(<<>>, "missing")
      \/ /\ disk.quartet = NoReview /\ Runnable
         /\ \E v \in {"ready", "rejected"} :
              LET review == [verdict |-> v, target |-> disk.smoke]
              IN  ApplyQuartetState(review, <<W("quartet", review)>>)
      \/ \E e \in ToolErrors : Do(<<>>, e)
  BY DEF Quartet
<1>7. Do(<<>>, "missing") => PendingFine'
  BY <1>5
<1>8. (\E e \in ToolErrors : Do(<<>>, e)) => PendingFine'
  BY <1>5
<1> QED
  BY <1>3, <1>4, <1>6, <1>7, <1>8

\* A harness is replaced: a new build, everything measured with the old one put aside, and
\* the smoke test to be made anew.
LEMMA ReplacedFine ==
  ASSUME CoreInv, PendingFine, NEW first \in Seq(Quiet({})), NEW t \in Targets \cup {None},
         st.stage \in {"quartet_gate", "fuzzing"}, disk.plan # "ready",
         st.stage = "quartet_gate" => disk.quartet # NoReview,
         disk.quartet.verdict # "ready" \/ disk.plan = "work",
         NEW s \in GoodStates, s.active = st.active
  PROVE  At(first \o Rebuilt(t) \o ArchivePreGenerationResults \o Save(s), View) \in Fine
<1>1. /\ View \in Views /\ Fits(View) /\ View.state = st /\ View.manifest = disk.manifest
      /\ View.smoke = disk.smoke /\ View.probe = disk.probe /\ View.quartet = disk.quartet
      /\ View.plan = disk.plan
  BY FineNow
<1> DEFINE z == [View EXCEPT !.manifest = t, !.current = {}]
<1>2. Leads(first, View, View) /\ first \in Seq(Writes)
  BY <1>1, LeadsFiles
<1>3. Rebuilt(t) \in Seq(Writes) /\ Leads(Rebuilt(t), View, z) /\ z \in Views /\ Fits(z)
  BY <1>1, RebuiltLeads
<1>4. z.state = st /\ \A f \in Evidence : z[f] = disk[f]
  BY <1>1 DEF Views, Evidence
<1> HIDE DEF z
<1>5. PICK y \in Views : /\ Leads(ArchivePreGenerationResults, z, y)
                         /\ Fits(y) /\ y.state = z.state /\ Bare(y)
  BY <1>3, <1>4, ArchiveLeads
<1>6. ArchivePreGenerationResults \in Seq(Writes)
  <2>1. disk \in Disk
    BY DEF CoreInv, TypeInv, TypeOK
  <2> QED
    BY <2>1, ArchiveIsEarly, EarlyIsWrites, SeqMonotonic
<1>7. /\ Leads(first \o Rebuilt(t), View, z) /\ first \o Rebuilt(t) \in Seq(Writes)
  BY <1>2, <1>3, LeadsOn, ConcatProperties
<1>8. /\ Leads(first \o Rebuilt(t) \o ArchivePreGenerationResults, View, y)
      /\ first \o Rebuilt(t) \o ArchivePreGenerationResults \in Seq(Writes)
  BY <1>5, <1>6, <1>7, LeadsOn, ConcatProperties
<1>9. Fits([y EXCEPT !.state = s])
  <2>1. Bare([y EXCEPT !.state = s])
    BY <1>5 DEF Bare, Views
  <2> QED
    BY <2>1, BareFits
<1> QED
  BY <1>4, <1>5, <1>8, <1>9, LastSave

LEMMA RepairFine ==
  ASSUME CoreInv, PendingFine, RepairQuartetHarness, pending' \in Seq(Writes)
  PROVE  PendingFine'
<1>1. /\ AtStage("quartet_gate") /\ disk \in GoodDisks /\ disk \in Disk /\ st \in LiveStates
  BY GateFacts DEF RepairQuartetHarness, CoreInv, TypeInv
<1>2. /\ View \in Views /\ Fits(View) /\ View.state = st /\ View.manifest = disk.manifest
      /\ View.smoke = disk.smoke /\ View.probe = disk.probe /\ View.quartet = disk.quartet
      /\ View.plan = disk.plan
  BY FineNow
<1>3. st.stage = "quartet_gate" /\ st.status = "quartet_repair_pending"
  BY <1>1 DEF AtStage, RepairQuartetHarness
<1>4. disk.plan = None /\ disk.quartet.verdict # "ready"
  BY <1>2, <1>3 DEF Fits
<1>5. ASSUME NEW e, Do(<<>>, e) \/ Interrupted(<<>>)
      PROVE  PendingFine'
  BY <1>5, NothingFine
<1>6. CASE disk.quartet # NoReview /\ ApplyQuartetState(disk.quartet, <<>>)
  <2>1. disk.quartet \in Reviews
    BY <1>1 DEF GoodDisks
  <2>2. Leads(<<>>, View, View) /\ <<>> \in Seq(Writes)
    BY LeadsNone, EmptySeq
  <2> QED
    BY <1>1, <1>2, <1>6, <2>1, <2>2, GateFine
<1>7. ASSUME NEW e, Do(Save(Flag(st, "quartet_review_required", "repair")), e)
      PROVE  PendingFine'
  <2> DEFINE s == Flag(st, "quartet_review_required", "repair")
  <2>1. s \in GoodStates /\ s.active = st.active /\ s.stage = "quartet_gate" /\ s.status = "quartet_review_required"
    <3>1. "quartet_review_required" \in Statuses /\ "repair" \in Errors
      BY ErrorTypes DEF Statuses, MANUAL_STATUSES, OwnErrors
    <3>2. s \in GoodStates
      BY <1>1, <3>1, Flagged, GoesOnWell
    <3> QED
      BY <1>1, <1>3, <3>2 DEF Flag, LiveStates, State
  <2> HIDE DEF s
  <2>2. Fits([View EXCEPT !.state = s])
    BY <1>2, <1>3, <2>1 DEF Fits, Views, Built, SmokeIsCurrent, ProbeIsCurrent
  <2>3. Do(Save(s), e)
    BY <1>7 DEF s
  <2> QED
    BY <2>1, <2>2, <2>3, SaveFine
<1>8. CASE /\ disk.quartet # NoReview
           /\ Do(<<W("rewritten", {})>> \o Rebuilt(disk.quartet.target)
                   \o ArchivePreGenerationResults \o Save(Repaired(st)), None)
  <2>1. disk.quartet.target \in Targets \cup {None}
    BY <1>1 DEF GoodDisks, Reviews, NoReview
  <2>2. Repaired(st) \in GoodStates /\ Repaired(st).active = st.active
    <3>1. Repaired(st) \in GoodStates
      BY <1>1, <1>3, CountedOn, GoesOnWell DEF LiveStates
    <3> QED
      BY <1>1, <3>1 DEF Repaired, To, LiveStates, State
  <2>3. <<W("rewritten", {})>> \in Seq(Quiet({}))
    <3>1. W("rewritten", {}) \in Writes
      BY FileWriteIsEarly, EarlyIsWrites
    <3>2. W("rewritten", {}) \in Quiet({})
      BY <3>1 DEF Quiet, W, Evidence
    <3> QED
      BY <3>2, Single
  <2>4. At(<<W("rewritten", {})>> \o Rebuilt(disk.quartet.target)
             \o ArchivePreGenerationResults \o Save(Repaired(st)), View) \in Fine
    BY <1>3, <1>4, <1>8, <2>1, <2>2, <2>3, ReplacedFine DEF None
  <2> QED
    BY <1>8, <2>4, DoFine
<1>9. \/ \E e \in PolicyErrors \cup ToolErrors : Do(<<>>, e)
      \/ Do(<<>>, "missing") \/ Interrupted(<<>>)
      \/ disk.quartet # NoReview /\ ApplyQuartetState(disk.quartet, <<>>)
      \/ \E e \in BuildErrors : Do(Save(Flag(st, "quartet_review_required", "repair")), e)
      \/ /\ disk.quartet # NoReview
         /\ Do(<<W("rewritten", {})>> \o Rebuilt(disk.quartet.target)
                 \o ArchivePreGenerationResults \o Save(Repaired(st)), None)
  BY DEF RepairQuartetHarness
<1>10. (\E e \in PolicyErrors \cup ToolErrors : Do(<<>>, e)) => PendingFine'
  BY <1>5
<1>11. Do(<<>>, "missing") \/ Interrupted(<<>>) => PendingFine'
  BY <1>5
<1>12. (\E e \in BuildErrors : Do(Save(Flag(st, "quartet_review_required", "repair")), e)) => PendingFine'
  BY <1>7
<1> QED
  BY <1>6, <1>8, <1>9, <1>10, <1>11, <1>12

-----------------------------------------------------------------------------
(* The handlers: coverage analysis, generation.                            *)

\* A plan is written after the review, and one that allows fuzzing only by the analysis.
LEMMA PlanLeads ==
  ASSUME NEW x \in Views, Fits(x), NEW value \in {"ready", "work"},
         x.state.stage \in {"coverage_analysis", "fuzzing", "triage", "validation", "complete"},
         value = "ready" => x.state.stage = "coverage_analysis" /\ x.plan = None
  PROVE  LET y == [x EXCEPT !.plan = value, !.current = @ \cup {"plan"}]
         IN  /\ W("plan", value) \in Writes /\ Leads(<<W("plan", value)>>, x, y)
             /\ y \in Views /\ Fits(y) /\ y.state = x.state
<1> DEFINE w == W("plan", value)
           y == [x EXCEPT !.plan = value, !.current = @ \cup {"plan"}]
<1>1. w \in Writes /\ w.file = "plan" /\ w.value = value /\ value # Absent["plan"]
  BY FileWriteIsEarly, EarlyIsWrites, EvidenceAbsent DEF W, None
<1> HIDE DEF w
<1>2. Put(x, w) = y /\ Starts(x, w)
  BY <1>1 DEF Put, Starts, Evidence
<1>3. Leads(<<w>>, x, y) /\ y \in Views
  BY <1>1, <1>2, LeadsOne, PutType
<1>4. /\ y.state = x.state /\ y.manifest = x.manifest /\ y.smoke = x.smoke /\ y.probe = x.probe
      /\ y.quartet = x.quartet /\ y.plan = value /\ y.current = x.current \cup {"plan"}
  BY DEF Views
<1> HIDE DEF y
<1>5. Fits(y)
  BY <1>4 DEF Fits, SmokeIsCurrent, ProbeIsCurrent, Built, None
<1> QED
  BY <1>1, <1>3, <1>4, <1>5 DEF w, y

LEMMA AnalyzeFine ==
  ASSUME CoreInv, PendingFine, Analyze
  PROVE  PendingFine'
<1>1. st \in LiveStates /\ st.stage = "coverage_analysis"
  BY StageFacts DEF Analyze, AtStage
<1>2. View \in Views /\ Fits(View) /\ View.state = st /\ View.plan = disk.plan
  BY FineNow
<1>3. ASSUME NEW e, Do(<<>>, e)
      PROVE  PendingFine'
  BY <1>3, NothingFine
<1>4. ASSUME NEW value \in {"ready", "work"}, disk.plan = None, NEW status \in {"ready", "harness_work_pending"},
             value = "work" \/ status = "ready",
             Do(<<W("plan", value)>> \o Save(To(st, "fuzzing", status)), None)
      PROVE  PendingFine'
  <2> DEFINE s == To(st, "fuzzing", status)
             y == [View EXCEPT !.plan = value, !.current = @ \cup {"plan"}]
  <2>1. s \in GoodStates /\ s.active = st.active /\ s.stage = "fuzzing" /\ s.status = status
    <3>1. s \in GoodStates /\ s.stage = "fuzzing" /\ s.status = status
      BY <1>1, FuzzingStatuses, MovesOn
    <3> QED
      BY <1>1, <3>1 DEF To, LiveStates, State
  <2>2. /\ W("plan", value) \in Writes /\ Leads(<<W("plan", value)>>, View, y)
        /\ y \in Views /\ Fits(y) /\ y.state = st
    BY <1>1, <1>2, <1>4, PlanLeads
  <2>3. y.plan = value /\ y.quartet = View.quartet
    BY <1>2 DEF Views
  <2> HIDE DEF s, y
  <2>4. Fits([y EXCEPT !.state = s])
    BY <1>4, <2>1, <2>2, <2>3 DEF Fits, Views, Built, SmokeIsCurrent, ProbeIsCurrent, GENERABLE
  <2>5. <<W("plan", value)>> \in Seq(Writes)
    BY <2>2, Single
  <2>6. At(<<W("plan", value)>> \o Save(s), View) \in Fine
    BY <2>1, <2>2, <2>4, <2>5, LastSave
  <2> QED
    BY <1>4, <2>6, DoFine DEF s
<1>5. \/ \E e \in ToolErrors \cup {"gate", "missing", None} : Do(<<>>, e)
      \/ disk.plan = None /\ Do(<<W("plan", "ready")>> \o Save(To(st, "fuzzing", "ready")), None)
      \/ disk.plan = None /\ Do(<<W("plan", "work")>> \o Save(To(st, "fuzzing", "harness_work_pending")), None)
  BY DEF Analyze
<1>6. (\E e \in ToolErrors \cup {"gate", "missing", None} : Do(<<>>, e)) => PendingFine'
  BY <1>3
<1>7. disk.plan = None /\ Do(<<W("plan", "ready")>> \o Save(To(st, "fuzzing", "ready")), None) => PendingFine'
  BY <1>4
<1>8. disk.plan = None /\ Do(<<W("plan", "work")>> \o Save(To(st, "fuzzing", "harness_work_pending")), None)
        => PendingFine'
  BY <1>4
<1> QED
  BY <1>5, <1>6, <1>7, <1>8

LEMMA GenerateFine ==
  ASSUME CoreInv, PendingFine, Generate
  PROVE  PendingFine'
<1>1. st \in LiveStates /\ disk \in Disk /\ disk \in GoodDisks /\ st.stage = "fuzzing" /\ st.status \in GENERABLE
  BY StageFacts DEF Generate, AtStage
<1>2. View \in Views /\ Fits(View) /\ View.state = st /\ View.plan = disk.plan
  BY FineNow
<1> DEFINE target == IF disk.smoke # None THEN disk.smoke ELSE disk.manifest
           write  == W("rewritten", IF route = "native_generated" THEN disk.rewritten
                                    ELSE disk.rewritten \cup {target})
           undone == <<write, W("rewritten", disk.rewritten)>>
           counted == [To(st, "smoke", "generated") EXCEPT !.harness_generation = @ + 1]
<1>3. CASE \E e \in {"missing", "evidence"} : Do(<<>>, e)
  BY <1>3, NothingFine
<1> SUFFICES ASSUME disk.manifest # None, disk.plan # None,
               \/ \E e \in BuildErrors : Do(undone \o Save(Flag(st, "generation_failed", e)), e)
               \/ Interrupted(undone)
               \/ Do(<<write>> \o Rebuilt(target) \o ArchivePreGenerationResults \o Save(counted), None)
    PROVE PendingFine'
  BY <1>3 DEF Generate
<1>4. target \in Targets
  BY <1>1 DEF Disk
<1>5. write \in Quiet({}) /\ W("rewritten", disk.rewritten) \in Quiet({})
  <2>1. disk.rewritten \in SUBSET Targets
    BY <1>1 DEF Disk
  <2>2. write \in Writes /\ W("rewritten", disk.rewritten) \in Writes
    BY <1>4, <2>1, FileWriteIsEarly, EarlyIsWrites
  <2>3. write.file = "rewritten" /\ W("rewritten", disk.rewritten).file = "rewritten"
    BY DEF W
  <2> QED
    BY <2>2, <2>3 DEF Quiet, Evidence
<1> HIDE DEF write, target
<1>6. undone \in Seq(Quiet({})) /\ <<write>> \in Seq(Quiet({}))
  BY <1>5, Pair, Single
<1> HIDE DEF undone
<1>7. Leads(undone, View, View) /\ undone \in Seq(Writes)
  BY <1>2, <1>6, LeadsFiles
<1>8. disk.plan = "work"
  BY <1>1, <1>2 DEF Fits, Disk
<1>9. ASSUME NEW e \in BuildErrors, Do(undone \o Save(Flag(st, "generation_failed", e)), e)
      PROVE  PendingFine'
  <2> DEFINE s == Flag(st, "generation_failed", e)
  <2>1. s \in GoodStates /\ s.stage = "fuzzing" /\ s.status = "generation_failed" /\ s.active = st.active
    <3>1. "generation_failed" \in Statuses /\ e \in Errors
      BY FuzzingStatuses, ErrorTypes
    <3>2. s \in LiveStates /\ s.stage = "fuzzing" /\ s.status = "generation_failed"
      BY <1>1, <3>1, Flagged
    <3> QED
      BY <1>1, <3>2, GoesOnWell DEF Flag, LiveStates, State
  <2> HIDE DEF s
  <2>2. Fits([View EXCEPT !.state = s])
    BY <1>2, <1>8, <2>1 DEF Fits, Views, Built, SmokeIsCurrent, ProbeIsCurrent
  <2>3. At(undone \o Save(s), View) \in Fine
    BY <1>2, <1>7, <2>1, <2>2, LastSave
  <2> QED
    BY <1>9, <2>3, DoFine DEF s
<1>10. CASE Interrupted(undone)
  BY <1>2, <1>7, <1>10, LeadsToFine, DoFine
<1>11. CASE Do(<<write>> \o Rebuilt(target) \o ArchivePreGenerationResults \o Save(counted), None)
  <2>1. counted \in GoodStates /\ counted.active = st.active
    <3>1. counted \in GoodStates
      BY <1>1, CountedOn, GoesOnWell DEF Generate
    <3> QED
      BY <1>1, <3>1 DEF To, LiveStates, State
  <2> HIDE DEF counted
  <2>2. At(<<write>> \o Rebuilt(target) \o ArchivePreGenerationResults \o Save(counted), View) \in Fine
    BY <1>1, <1>4, <1>6, <1>8, <2>1, ReplacedFine
  <2> QED
    BY <1>11, <2>2, DoFine
<1>12. (\E e \in BuildErrors : Do(undone \o Save(Flag(st, "generation_failed", e)), e)) => PendingFine'
  BY <1>9
<1> QED
  BY <1>10, <1>11, <1>12

\* A state of a late stage that is saved alone.
LEMMA LateSaveFine ==
  ASSUME CoreInv, PendingFine, NEW s \in GoodStates, s.active \in {NoSession, st.active}, Late(s),
         NEW e, Do(Save(s), e)
  PROVE  PendingFine'
<1>1. View \in Views /\ Fits(View) /\ s \in State
  BY FineNow DEF GoodStates
<1>2. Fits([View EXCEPT !.state = s])
  BY <1>1, LateFits
<1> QED
  BY <1>2, SaveFine

LEMMA GivenUp ==
  ASSUME NEW s \in LiveStates
  PROVE  LET t == AtLeastOneFailure([Flag(s, "manual_review", "exhausted") EXCEPT !.bounded = TRUE])
         IN  t.active = s.active /\ t.stage = s.stage /\ t.status = "manual_review"
BY DEF AtLeastOneFailure, Flag, LiveStates, State

LEMMA GenerationLimitFine ==
  ASSUME CoreInv, PendingFine, GenerationLimit
  PROVE  PendingFine'
<1> DEFINE t == AtLeastOneFailure([Flag(st, "manual_review", "exhausted") EXCEPT !.bounded = TRUE])
<1>1. st \in LiveStates /\ st.stage = "fuzzing"
  BY StageFacts DEF GenerationLimit, AtStage
<1>2. t \in GoodStates /\ t.active = st.active /\ t.stage = "fuzzing" /\ t.status = "manual_review"
  BY <1>1, GivenToPerson, GivenUp
<1>3. Do(Save(t), "return")
  BY DEF GenerationLimit
<1> HIDE DEF t
<1>4. Late(t)
  BY <1>2 DEF Late, GENERABLE
<1> QED
  BY <1>2, <1>3, <1>4, LateSaveFine

-----------------------------------------------------------------------------
(* The handlers: the campaign.                                             *)

LEMMA QuietWrites ==
  ASSUME NEW S
  PROVE  /\ Seq(Quiet({})) \subseteq Seq(Quiet(S))
         /\ \A s \in GoodStates : s \in S => W("state", s) \in Quiet(S) /\ Save(s) \in Seq(Quiet(S))
<1>1. Quiet({}) \subseteq Quiet(S)
  BY DEF Quiet
<1>2. ASSUME NEW s \in GoodStates, s \in S
      PROVE  W("state", s) \in Quiet(S)
  BY <1>2 DEF Quiet, W, Writes, Evidence
<1> QED
  BY <1>1, <1>2, SeqMonotonic, Single DEF Save

LEMMA QuietFiles ==
  /\ \A v \in Runs : <<W("run", v)>> \in Seq(Quiet({}))
  /\ \A v \in Progresses : <<W("progress", v)>> \in Seq(Quiet({})) /\ W("progress", v) \in Quiet({})
  /\ \A v \in BOOLEAN : <<W("crash_files", v)>> \in Seq(Quiet({})) /\ <<W("report", v)>> \in Seq(Quiet({}))
                        /\ <<W("integration", v)>> \in Seq(Quiet({}))
  /\ \A v \in {"failed", "finding", "quiet"} : <<W("afl", v)>> \in Seq(Quiet({})) /\ W("afl", v) \in Quiet({})
  /\ \A v \in {"reproduced", "other"} : <<W("summary", v)>> \in Seq(Quiet({}))
<1>1. ASSUME NEW w \in Writes, w.file \in {"run", "progress", "crash_files", "report", "integration", "afl", "summary"}
      PROVE  <<w>> \in Seq(Quiet({})) /\ w \in Quiet({})
  <2>1. w \in Quiet({})
    BY <1>1 DEF Quiet, Evidence
  <2> QED
    BY <2>1, Single
<1>2. \A v : /\ W("run", v).file = "run" /\ W("progress", v).file = "progress" /\ W("report", v).file = "report"
             /\ W("crash_files", v).file = "crash_files" /\ W("afl", v).file = "afl"
             /\ W("summary", v).file = "summary" /\ W("integration", v).file = "integration"
  BY DEF W
<1>3. \A v \in {"reproduced", "other"} : W("summary", v) \in Writes
  BY DEF W, Writes, FileWrites
<1> QED
  BY <1>1, <1>2, <1>3, FileWriteIsEarly, EarlyIsWrites

\* Turning the plan into one that asks for a further harness.
LEMMA ReplanFrom ==
  ASSUME NEW x \in Views, Fits(x), NEW s \in State, s.active \in {NoSession, x.state.active},
         To(s, "fuzzing", "harness_work_pending") \in GoodStates,
         x.state.stage \in {"coverage_analysis", "fuzzing", "triage", "validation", "complete"}
  PROVE  At(Replan(s), x) \in Fine
<1> DEFINE y == [x EXCEPT !.plan = "work", !.current = @ \cup {"plan"}]
           t == To(s, "fuzzing", "harness_work_pending")
<1>1. /\ W("plan", "work") \in Writes /\ Leads(<<W("plan", "work")>>, x, y)
      /\ y \in Views /\ Fits(y) /\ y.state = x.state
  BY PlanLeads
<1>2. t \in GoodStates /\ t.active = s.active /\ t.stage = "fuzzing" /\ t.status = "harness_work_pending"
  BY DEF To, State
<1>3. y.plan = "work" /\ y.quartet = x.quartet
  BY DEF Views
<1> HIDE DEF y, t
<1>4. Fits([y EXCEPT !.state = t])
  BY <1>1, <1>2, <1>3 DEF Fits, Views, Built, SmokeIsCurrent, ProbeIsCurrent
<1>5. <<W("plan", "work")>> \in Seq(Writes)
  BY <1>1, Single
<1> QED
  BY <1>1, <1>2, <1>4, <1>5, LastSave DEF Replan, t

LEMMA ReplanOnward ==
  ASSUME NEW x \in Views, Fits(x), NEW s \in LiveStates, s.active \in {NoSession, x.state.active},
         x.state.stage \in {"coverage_analysis", "fuzzing", "triage", "validation", "complete"}
  PROVE  At(Replan(s), x) \in Fine
<1>1. To(s, "fuzzing", "harness_work_pending") \in GoodStates /\ s \in State
  BY FuzzingStatuses, MovesOn DEF LiveStates
<1> QED
  BY <1>1, ReplanFrom

\* With a session or without, after whatever the campaign writes.
LEMMA ReplanFine ==
  ASSUME NEW x \in Views, Fits(x), Late(x.state), NEW ws \in Seq(Quiet(LateStates(x))),
         NEW s \in LiveStates, s.active = NoSession
  PROVE  At(ws \o Replan(s), x) \in Fine
<1>1. ASSUME NEW t \in LateStates(x)
      PROVE  At(Replan(s), [x EXCEPT !.state = t]) \in Fine
  <2> DEFINE y == [x EXCEPT !.state = t]
  <2>1. y \in Views /\ y.state = t /\ Fits(y)
    BY LateFits DEF Views, LateStates
  <2>2. y.state.stage \in {"coverage_analysis", "fuzzing", "triage", "validation", "complete"}
    BY <2>1 DEF LateStates, Late
  <2> HIDE DEF y
  <2>3. At(Replan(s), y) \in Fine
    BY <2>1, <2>2, ReplanOnward
  <2> QED
    BY <2>3 DEF y
<1>2. At(Replan(s), x) \in Fine
  BY ReplanOnward DEF Late
<1>3. Replan(s) \in Seq(Writes)
  BY <1>2, FineFits
<1> QED
  BY <1>1, <1>2, <1>3, LatePasses

\* States of the late stages, saved one after the other: a session starts on whole evidence.
LEMMA LateSave ==
  ASSUME CoreInv, PendingFine, NEW early \in Seq(Quiet(LateStates(View))),
         NEW s \in GoodStates, Late(s), s.active = st.active \/ Full(View), NEW e
  PROVE  /\ Do(early \o Save(s), e) => PendingFine'
         /\ Interrupted(early \o Save(s)) => PendingFine'
         /\ Save(s) \in Seq(Quiet(LateStates(View)))
<1>1. View \in Views /\ Fits(View) /\ View.state = st
  BY FineNow
<1>2. s \in LateStates(View)
  BY <1>1 DEF LateStates, GoodStates
<1>3. Save(s) \in Seq(Quiet(LateStates(View)))
  BY <1>2, QuietWrites
<1>4. early \o Save(s) \in Seq(Quiet(LateStates(View)))
  BY <1>3, ConcatProperties
<1>5. At(early \o Save(s), View) \in Fine
  BY <1>1, <1>4, LateFine
<1> QED
  BY <1>3, <1>5, DoFine

LEMMA LateSessionStates ==
  ASSUME NEW s \in LiveStates, s.stage = "fuzzing"
  PROVE  LET idle == [s EXCEPT !.active = NoSession]
         IN  /\ idle.active = NoSession /\ idle.stage = "fuzzing" /\ idle.status = s.status
             /\ Late(Finished(s)) /\ Finished(s).active = s.active
             /\ Late([Finished(s) EXCEPT !.triage_artifact = "run"])
             /\ Late([Finished(s) EXCEPT !.triage_artifact = "afl"])
             /\ [Finished(s) EXCEPT !.triage_artifact = "afl"].active = s.active
             /\ Late([Finished(s) EXCEPT !.low_yield = TRUE])
             /\ Late(To(s, "fuzzing", "ready")) /\ To(s, "fuzzing", "ready").active = s.active
             /\ Late([To(s, "fuzzing", "ready") EXCEPT !.status = "afl_cmplog_pending"])
             /\ Late(AtLeastOneFailure([Flag(s, "manual_review", "exhausted") EXCEPT !.bounded = TRUE]))
<1>1. /\ Finished(s).stage = "triage" /\ Finished(s).status = "triage_pending" /\ Finished(s) \in State
      /\ To(s, "fuzzing", "ready").stage = "fuzzing" /\ To(s, "fuzzing", "ready").status = "ready"
      /\ To(s, "fuzzing", "ready") \in State
      /\ Finished(s).active = s.active /\ To(s, "fuzzing", "ready").active = s.active
  <2>1. Finished(s) \in State /\ To(s, "fuzzing", "ready") \in State
    BY SessionStates DEF LiveStates
  <2> QED
    BY <2>1 DEF Finished, To, LiveStates, State
<1>2. LET t == AtLeastOneFailure([Flag(s, "manual_review", "exhausted") EXCEPT !.bounded = TRUE])
      IN  t.stage = "fuzzing" /\ t.status = "manual_review"
  BY GivenUp
<1>3. Late(AtLeastOneFailure([Flag(s, "manual_review", "exhausted") EXCEPT !.bounded = TRUE]))
  BY <1>2 DEF Late, GENERABLE
<1> HIDE DEF Finished, To
<1>4. /\ Late(Finished(s)) /\ Late([Finished(s) EXCEPT !.triage_artifact = "run"])
      /\ Late([Finished(s) EXCEPT !.triage_artifact = "afl"])
      /\ [Finished(s) EXCEPT !.triage_artifact = "afl"].active = s.active
      /\ Late([Finished(s) EXCEPT !.low_yield = TRUE])
      /\ Late(To(s, "fuzzing", "ready"))
      /\ Late([To(s, "fuzzing", "ready") EXCEPT !.status = "afl_cmplog_pending"])
  BY <1>1 DEF Late, State, GENERABLE
<1>5. LET idle == [s EXCEPT !.active = NoSession]
      IN  idle.active = NoSession /\ idle.stage = "fuzzing" /\ idle.status = s.status
  BY DEF LiveStates, State
<1> QED
  BY <1>1, <1>3, <1>4, <1>5

LEMMA ResultFine ==
  ASSUME CoreInv, PendingFine, Full(View), Late(st),
         NEW s \in LiveStates, s.stage = "fuzzing", NEW run \in Runs,
         NEW before \in Seq(Quiet(LateStates(View))), ApplyFuzzResult(s, run, before)
  PROVE  PendingFine'
<1>1. PICK advanced \in BOOLEAN :
    LET old   == disk.progress
        new   == [Add(old, run.time) EXCEPT !.accounted = run.session,
                                            !.stalled = IF run.time = 0 THEN @ ELSE ~advanced]
        known == old.accounted = run.session
        p     == IF known THEN old ELSE new
        saved == before \o (IF known THEN <<>> ELSE <<W("progress", new)>>)
        idle  == [s EXCEPT !.active = NoSession]
        next  == To(idle, "fuzzing", "ready")
        afl   == route # "native_generated" /\ p.stalled /\ disk.afl = None
    IN
      \/ /\ run.result = "finding"
         /\ Do(saved \o Save([Finished(idle) EXCEPT !.triage_artifact = "run"]), None)
      \/ /\ run.result = "broken"
         /\ Do(saved \o Save(AtLeastOneFailure(
                 [Flag(idle, "manual_review", "exhausted") EXCEPT !.bounded = TRUE])), None)
      \/ /\ run.result = "quiet"
         /\ \/ disk.probe # None /\ p.completed > 0 /\ Do(saved \o LowYield(idle), None)
            \/ p.completed = Budget /\ Do(saved \o Save(Finished(idle)), None)
            \/ /\ p.completed < Budget /\ ~afl /\ p.stalled /\ CanReplan
               /\ Do(saved \o Replan(idle), None)
            \/ /\ p.completed < Budget
               /\ Do(saved \o Save(IF afl THEN [next EXCEPT !.status = "afl_cmplog_pending"]
                                          ELSE next), None)
  BY DEF ApplyFuzzResult
<1> DEFINE old   == disk.progress
           new   == [Add(old, run.time) EXCEPT !.accounted = run.session,
                                               !.stalled = IF run.time = 0 THEN @ ELSE ~advanced]
           known == old.accounted = run.session
           p     == IF known THEN old ELSE new
           saved == before \o (IF known THEN <<>> ELSE <<W("progress", new)>>)
           idle  == [s EXCEPT !.active = NoSession]
           next  == To(idle, "fuzzing", "ready")
           afl   == route # "native_generated" /\ p.stalled /\ disk.afl = None
           person == AtLeastOneFailure([Flag(idle, "manual_review", "exhausted") EXCEPT !.bounded = TRUE])
           Q     == Quiet(LateStates(View))
<1>2. idle \in LiveStates /\ idle.stage = "fuzzing" /\ idle.active = NoSession
  BY SessionStates, LateSessionStates
<1>3. new \in Progresses
  <2>1. old \in Progresses /\ run.time \in 0..1 /\ run.session \in {NoSession} \cup Sessions
    BY DEF CoreInv, TypeInv, TypeOK, Disk, Progresses, Runs
  <2>2. Add(old, run.time) \in Progresses
    BY <2>1, TimeAdds
  <2> QED
    BY <2>1, <2>2 DEF Progresses
<1>4. saved \in Seq(Q)
  <2>1. <<W("progress", new)>> \in Seq(Q)
    <3> HIDE DEF new, Q
    <3>1. <<W("progress", new)>> \in Seq(Quiet({}))
      BY <1>3, QuietFiles
    <3> QED
      BY <3>1, QuietWrites DEF Q
  <2> HIDE DEF new, known, Q
  <2>2. before \in Seq(Q)
    BY DEF Q
  <2> QED
    BY <2>1, <2>2, ConcatProperties, EmptySeq
<1>5. /\ View \in Views /\ Fits(View) /\ View.state = st
  BY FineNow
<1> HIDE DEF idle, saved, p
<1>6. CASE Do(saved \o Save([Finished(idle) EXCEPT !.triage_artifact = "run"]), None)
  BY <1>2, <1>4, <1>6, SessionStates, LateSessionStates, LiveIsGood, LateSave
<1>7. CASE Do(saved \o Save(person), None)
  BY <1>2, <1>4, <1>7, GivenToPerson, LateSessionStates, LateSave
<1>8. CASE Do(saved \o LowYield(idle), None)
  BY <1>2, <1>4, <1>8, SessionStates, LateSessionStates, LiveIsGood, LateSave DEF LowYield
<1>9. CASE Do(saved \o Save(Finished(idle)), None)
  BY <1>2, <1>4, <1>9, SessionStates, LateSessionStates, LiveIsGood, LateSave
<1>10. CASE Do(saved \o Replan(idle), None)
  <2>1. At(saved \o Replan(idle), View) \in Fine
    BY <1>2, <1>4, <1>5, ReplanFine
  <2> QED
    BY <1>10, <2>1, DoFine
<1>11. CASE Do(saved \o Save(IF afl THEN [next EXCEPT !.status = "afl_cmplog_pending"] ELSE next), None)
  <2>1. /\ (IF afl THEN [next EXCEPT !.status = "afl_cmplog_pending"] ELSE next) \in GoodStates
        /\ Late(IF afl THEN [next EXCEPT !.status = "afl_cmplog_pending"] ELSE next)
    BY <1>2, SessionStates, LateSessionStates, LiveIsGood
  <2> QED
    BY <1>4, <1>11, <2>1, LateSave
<1> QED
  BY <1>1, <1>6, <1>7, <1>8, <1>9, <1>10, <1>11 DEF idle, saved, p

\* The evidence is whole where the gate and the plan allow fuzzing.
LEMMA ApprovedIsFull ==
  ASSUME CoreInv, PendingFine, Approved, disk.plan = "ready"
  PROVE  Full(View)
BY FineNow DEF Fits, Full, Built, Approved, Evidence

LEMMA LostFine ==
  ASSUME CoreInv, PendingFine, Full(View), disk \in Disk,
         NEW start \in Seq(Quiet(LateStates(View))), NEW leftovers \in Seq(Quiet({})),
         NEW s \in LiveStates, s.stage = "fuzzing", NEW time \in 0..1, NEW e
  PROVE  /\ Do(SessionLost(start, s, time, leftovers), e) => PendingFine'
         /\ Interrupted(SessionLost(start, s, time, leftovers)) => PendingFine'
<1> DEFINE books == IF time = 0 THEN <<>> ELSE <<W("progress", Add(disk.progress, time))>>
           over  == [s EXCEPT !.active = NoSession, !.status = "interrupted"]
           Q     == Quiet(LateStates(View))
<1>1. Add(disk.progress, time) \in Progresses
  BY TimeAdds DEF Disk, Progresses
<1>2. <<W("progress", Add(disk.progress, time))>> \in Seq(Quiet({}))
  BY <1>1, QuietFiles
<1>3. books \in Seq(Quiet({}))
  BY <1>2, EmptySeq
<1>4. over \in GoodStates /\ Late(over)
  <2>1. over \in LiveStates /\ over.stage = "fuzzing" /\ over.status = "interrupted"
    BY FuzzingStatuses DEF LiveStates, State
  <2> QED
    BY <2>1, LiveIsGood DEF Late, GENERABLE
<1> HIDE DEF books, over, Q
<1>5. books \in Seq(Q) /\ leftovers \in Seq(Q) /\ start \in Seq(Q)
  BY <1>3, QuietWrites DEF Q
<1>6. start \o leftovers \o books \in Seq(Q)
  BY <1>5, ConcatProperties
<1>7. /\ Do(start \o leftovers \o books \o Save(over), e) => PendingFine'
      /\ Interrupted(start \o leftovers \o books \o Save(over)) => PendingFine'
  BY <1>4, <1>6, LateSave DEF Q
<1>8. SessionLost(start, s, time, leftovers) = start \o leftovers \o books \o Save(over)
  BY DEF SessionLost, books, over
<1> QED
  BY <1>7, <1>8

LEMMA FuzzSessionFine ==
  ASSUME CoreInv, PendingFine, Full(View), Late(st), disk \in Disk,
         NEW s \in LiveStates, s.stage = "fuzzing", FuzzSession(s)
  PROVE  PendingFine'
<1> DEFINE id      == FreshSession
           running == [s EXCEPT !.status = "running", !.last_error = None, !.active = id]
           start   == Save(running)
           Q       == Quiet(LateStates(View))
<1>1. running \in LiveStates /\ running.stage = "fuzzing" /\ running.status = "running"
  BY FreshSessionType, FuzzingStatuses DEF LiveStates, State
<1>2. ASSUME NEW e \in {"missing", "stopped"} \cup ToolErrors
      PROVE  Flag(running, "running", e) \in LiveStates /\ Flag(running, "running", e).stage = "fuzzing"
  <2>1. e \in Errors /\ "running" \in Statuses
    BY FuzzingStatuses, ErrorTypes
  <2> HIDE DEF running
  <2> QED
    BY <1>1, <2>1, Flagged
<1> HIDE DEF running
<1>3. start \in Seq(Q)
  <2>1. Late(running)
    BY <1>1 DEF Late, GENERABLE
  <2>2. running \in LateStates(View) /\ running \in GoodStates
    BY <1>1, <2>1, LiveIsGood DEF LateStates, GoodStates
  <2> QED
    BY <2>2, QuietWrites
<1> HIDE DEF start, Q
<1>4. <<>> \in Seq(Quiet({})) /\ <<W("crash_files", TRUE)>> \in Seq(Quiet({}))
  BY QuietFiles, EmptySeq
<1>5. ASSUME NEW result \in {"quiet", "finding", "broken"}, NEW time \in 0..1
      PROVE  /\ [result |-> result, session |-> id, time |-> time] \in Runs
             /\ <<W("run", [result |-> result, session |-> id, time |-> time])>> \in Seq(Quiet({}))
  <2>1. [result |-> result, session |-> id, time |-> time] \in Runs
    BY FreshSessionType DEF Runs
  <2> QED
    BY <2>1, QuietFiles
<1>6. ASSUME NEW result \in {"quiet", "finding", "broken"}, NEW files \in Seq(Quiet({})),
             LET run == [result |-> result, session |-> id, time |-> 1]
             IN  ApplyFuzzResult(running, run, start \o files \o <<W("run", run)>>)
      PROVE  PendingFine'
  <2> DEFINE run == [result |-> result, session |-> id, time |-> 1]
  <2>1. run \in Runs /\ <<W("run", run)>> \in Seq(Q)
    <3>1. 1 \in 0..1
      OBVIOUS
    <3>2. run \in Runs /\ <<W("run", run)>> \in Seq(Quiet({}))
      BY <1>5, <3>1
    <3> HIDE DEF run
    <3> QED
      BY <3>2, QuietWrites DEF Q
  <2>2. start \o files \o <<W("run", run)>> \in Seq(Q)
    <3>1. files \in Seq(Q)
      BY QuietWrites DEF Q
    <3> QED
      BY <1>3, <2>1, <3>1, ConcatProperties
  <2>3. ApplyFuzzResult(running, run, start \o files \o <<W("run", run)>>)
    BY <1>6
  <2> HIDE DEF run
  <2> QED
    BY <1>1, <2>1, <2>2, <2>3, ResultFine DEF Q
<1>7. Do(SessionLost(start, Flag(running, "running", "missing"), 0, <<>>), "missing") => PendingFine'
  <2>1. 0 \in 0..1
    OBVIOUS
  <2> QED
    BY <1>2, <1>3, <1>4, <2>1, LostFine DEF Q
<1>8. ASSUME NEW time \in 0..1, NEW e \in ToolErrors, NEW written \in BOOLEAN,
             Do(SessionLost(start, Flag(running, "running", e), time,
                  IF written THEN <<W("run", [result |-> "broken", session |-> id, time |-> time])>>
                             ELSE <<>>), e)
      PROVE  PendingFine'
  <2> DEFINE leftovers == IF written THEN <<W("run", [result |-> "broken", session |-> id, time |-> time])>>
                                     ELSE <<>>
  <2>1. leftovers \in Seq(Quiet({}))
    BY <1>4, <1>5
  <2>2. Do(SessionLost(start, Flag(running, "running", e), time, leftovers), e)
    BY <1>8
  <2> HIDE DEF leftovers
  <2> QED
    BY <1>2, <1>3, <2>1, <2>2, LostFine DEF Q
<1>9. ASSUME NEW time \in 0..1, NEW found \in BOOLEAN,
             Interrupted(SessionLost(start, Flag(running, "running", "stopped"), time,
                                     IF found THEN <<W("crash_files", TRUE)>> ELSE <<>>))
      PROVE  PendingFine'
  <2>1. (IF found THEN <<W("crash_files", TRUE)>> ELSE <<>>) \in Seq(Quiet({}))
    BY <1>4
  <2> QED
    BY <1>2, <1>3, <1>9, <2>1, LostFine DEF Q
<1>10. \/ Do(SessionLost(start, Flag(running, "running", "missing"), 0, <<>>), "missing")
       \/ \E result \in {"quiet", "finding", "broken"}, files \in {<<>>, <<W("crash_files", TRUE)>>} :
            LET run == [result |-> result, session |-> id, time |-> 1]
            IN  ApplyFuzzResult(running, run, start \o files \o <<W("run", run)>>)
       \/ \E time \in 0..1, e \in ToolErrors, written \in BOOLEAN :
             Do(SessionLost(start, Flag(running, "running", e), time,
                  IF written THEN <<W("run", [result |-> "broken", session |-> id, time |-> time])>>
                             ELSE <<>>), e)
       \/ \E time \in 0..1, found \in BOOLEAN :
             Interrupted(SessionLost(start, Flag(running, "running", "stopped"), time,
                                     IF found THEN <<W("crash_files", TRUE)>> ELSE <<>>))
  BY DEF FuzzSession, running, start
<1>11. ASSUME NEW result \in {"quiet", "finding", "broken"}, NEW files \in {<<>>, <<W("crash_files", TRUE)>>},
              LET run == [result |-> result, session |-> id, time |-> 1]
              IN  ApplyFuzzResult(running, run, start \o files \o <<W("run", run)>>)
       PROVE  PendingFine'
  BY <1>4, <1>6, <1>11
<1>12. CASE \E result \in {"quiet", "finding", "broken"}, files \in {<<>>, <<W("crash_files", TRUE)>>} :
              LET run == [result |-> result, session |-> id, time |-> 1]
              IN  ApplyFuzzResult(running, run, start \o files \o <<W("run", run)>>)
  BY <1>11, <1>12, Zenon
<1>13. CASE \E time \in 0..1, e \in ToolErrors, written \in BOOLEAN :
             Do(SessionLost(start, Flag(running, "running", e), time,
                  IF written THEN <<W("run", [result |-> "broken", session |-> id, time |-> time])>>
                             ELSE <<>>), e)
  BY <1>8, <1>13, Zenon
<1>14. CASE \E time \in 0..1, found \in BOOLEAN :
             Interrupted(SessionLost(start, Flag(running, "running", "stopped"), time,
                                     IF found THEN <<W("crash_files", TRUE)>> ELSE <<>>))
  BY <1>9, <1>14, Zenon
<1> QED
  BY <1>7, <1>10, <1>12, <1>13, <1>14

LEMMA FuzzFine ==
  ASSUME CoreInv, PendingFine, Fuzz
  PROVE  PendingFine'
<1> DEFINE idle == [st EXCEPT !.active = NoSession]
<1>1. st \in LiveStates /\ disk \in Disk /\ st.stage = "fuzzing" /\ st.status \in FUZZABLE
  BY StageFacts DEF Fuzz, AtStage
<1>2. idle \in LiveStates /\ idle.stage = "fuzzing" /\ idle.active = NoSession
  BY <1>1, SessionStates, LateSessionStates
<1>3. Late(st)
  BY <1>1 DEF Late, FUZZABLE, GENERABLE
<1>4. View \in Views /\ Fits(View) /\ View.state = st
  BY FineNow
<1> HIDE DEF idle
<1>5. ASSUME NEW e, Do(<<>>, e)
      PROVE  PendingFine'
  BY <1>5, NothingFine
<1>6. \/ \E e \in PolicyErrors \cup {"gate", "harness", "missing"} : Do(<<>>, e)
      \/ /\ Approved /\ disk.plan = "ready"
         /\ \/ ApplyFuzzResult(st, disk.run, <<>>)
            \/ Do(LowYield(idle), None)
            \/ Do(Replan(idle), None)
            \/ Do(Save(Finished(idle)), None)
            \/ FuzzSession(idle)
  BY DEF Fuzz, idle
<1>7. (\E e \in PolicyErrors \cup {"gate", "harness", "missing"} : Do(<<>>, e)) => PendingFine'
  BY <1>5
<1> SUFFICES ASSUME /\ Approved /\ disk.plan = "ready"
                    /\ \/ ApplyFuzzResult(st, disk.run, <<>>)
                       \/ Do(LowYield(idle), None)
                       \/ Do(Replan(idle), None)
                       \/ Do(Save(Finished(idle)), None)
                       \/ FuzzSession(idle)
             PROVE  PendingFine'
  BY <1>6, <1>7
<1>8. Full(View)
  BY ApprovedIsFull
<1>9. CASE ApplyFuzzResult(st, disk.run, <<>>)
  <2>1. disk.run \in Runs
    BY <1>1 DEF Disk, Runs
  <2> QED
    BY <1>1, <1>3, <1>8, <1>9, <2>1, ResultFine, EmptySeq
<1>10. CASE Do(LowYield(idle), None)
  <2>1. [Finished(idle) EXCEPT !.low_yield = TRUE] \in GoodStates /\ Late([Finished(idle) EXCEPT !.low_yield = TRUE])
    BY <1>2, SessionStates, LateSessionStates, LiveIsGood
  <2>2. [Finished(idle) EXCEPT !.low_yield = TRUE].active = NoSession
    BY <1>2 DEF Finished, To, LiveStates, State
  <2> QED
    BY <1>10, <2>1, <2>2, LateSaveFine DEF LowYield
<1>11. CASE Do(Replan(idle), None)
  <2>1. At(Replan(idle), View) \in Fine
    BY <1>1, <1>2, <1>4, ReplanOnward
  <2> QED
    BY <1>11, <2>1, DoFine
<1>12. CASE Do(Save(Finished(idle)), None)
  <2>1. Finished(idle) \in GoodStates /\ Late(Finished(idle)) /\ Finished(idle).active = NoSession
    BY <1>2, SessionStates, LateSessionStates, LiveIsGood
  <2> QED
    BY <1>12, <2>1, LateSaveFine
<1>13. CASE FuzzSession(idle)
  BY <1>1, <1>2, <1>3, <1>8, <1>13, FuzzSessionFine
<1> QED
  BY <1>9, <1>10, <1>11, <1>12, <1>13

LEMMA AflFine ==
  ASSUME CoreInv, PendingFine, Afl
  PROVE  PendingFine'
<1> DEFINE start == Save(Flag(st, "afl_cmplog_running", None))
           failed(e) == start \o <<W("afl", "failed")>> \o Save(Flag(st, "ready", e))
           S == {s \in State : Late(s) /\ s.active = st.active}
<1>1. st \in LiveStates /\ disk \in Disk /\ st.stage = "fuzzing" /\ st.status = "afl_cmplog_pending"
  BY StageFacts DEF Afl, AtStage
<1>2. View \in Views /\ Fits(View) /\ View.state = st /\ [View EXCEPT !.state = st] = View
  BY FineNow DEF Views
<1>3. st \in S /\ S \in SUBSET State /\ S \subseteq LateStates(View)
  BY <1>1, <1>2 DEF Late, LateStates, LiveStates, GENERABLE
<1>4. ASSUME NEW status \in {"afl_cmplog_running", "ready"}, NEW e \in Errors
      PROVE  /\ Flag(st, status, e) \in GoodStates /\ Flag(st, status, e) \in S
             /\ Late(Flag(st, status, e)) /\ Flag(st, status, e).active = st.active
  <2>1. /\ Flag(st, status, e) \in LiveStates /\ Flag(st, status, e).stage = "fuzzing"
        /\ Flag(st, status, e).status = status
    <3>1. status \in Statuses /\ status # "quartet_repair_pending"
      BY FuzzingStatuses
    <3> QED
      BY <1>1, <3>1, Flagged
  <2>2. Flag(st, status, e).active = st.active
    BY <1>1 DEF Flag, LiveStates, State
  <2> QED
    BY <2>1, <2>2, LiveIsGood DEF Late, GENERABLE, GoodStates
<1> HIDE DEF S
<1>5. start \in Seq(Quiet(S))
  BY <1>4, FuzzingStatuses, QuietWrites
<1> HIDE DEF start
<1>6. ASSUME NEW ws \in Seq(Quiet(S))
      PROVE  ws \in Seq(Quiet(LateStates(View))) /\ ws \in Seq(Writes)
  <2>1. Quiet(S) \subseteq Quiet(LateStates(View)) /\ Quiet(S) \subseteq Writes
    BY <1>3 DEF Quiet
  <2> QED
    BY <2>1, SeqMonotonic
<1>7. ASSUME NEW e, Do(<<>>, e)
      PROVE  PendingFine'
  BY <1>7, NothingFine
<1>8. ASSUME NEW e \in Errors
      PROVE  At(failed(e), View) \in Fine
  <2>1. start \o <<W("afl", "failed")>> \in Seq(Quiet(S))
    BY <1>5, QuietFiles, QuietWrites, ConcatProperties
  <2>2. Save(Flag(st, "ready", e)) \in Seq(Quiet(S))
    BY <1>4, QuietWrites
  <2>3. failed(e) \in Seq(Quiet(S))
    BY <2>1, <2>2, ConcatProperties
  <2> HIDE DEF failed
  <2> QED
    BY <1>2, <1>6, <2>3, LateFine
<1>9. CASE \E e \in ToolErrors : Do(failed(e), None)
  <2> HIDE DEF failed
  <2> QED
    BY <1>8, <1>9, DoFine, ErrorTypes
<1>10. CASE /\ pending' = failed("stopped")
            /\ UNCHANGED <<route, disk, mode, recovery, crashes, history>>
  <2>1. At(failed("stopped"), View) \in Fine
    BY <1>8, FuzzingStatuses
  <2>2. View' = View
    BY <1>10 DEF View, history
  <2> HIDE DEF failed
  <2> QED
    BY <1>10, <2>1, <2>2 DEF PendingFine
<1>11. ASSUME NEW time \in 0..1, NEW improved \in BOOLEAN, NEW found \in BOOLEAN,
             LET p     == [Add(disk.progress, time) EXCEPT !.stalled = ~improved]
                 saved == start \o (IF found THEN <<W("crash_files", TRUE)>> ELSE <<>>)
                          \o <<W("afl", IF found THEN "finding" ELSE "quiet"), W("progress", p)>>
                 over  == found \/ p.completed = Budget
             IN
               \/ over /\ Do(saved \o Save([Finished(st) EXCEPT !.triage_artifact = "afl"]), None)
               \/ ~over /\ Do(saved \o Save(To(st, "fuzzing", "ready")), None)
               \/ ~over /\ p.stalled /\ CanReplan /\ Do(saved \o Replan(st), None)
      PROVE PendingFine'
  <2> DEFINE p     == [Add(disk.progress, time) EXCEPT !.stalled = ~improved]
             saved == start \o (IF found THEN <<W("crash_files", TRUE)>> ELSE <<>>)
                      \o <<W("afl", IF found THEN "finding" ELSE "quiet"), W("progress", p)>>
  <2>1. p \in Progresses
    <3>1. Add(disk.progress, time) \in Progresses
      BY <1>1, TimeAdds DEF Disk, Progresses
    <3> QED
      BY <3>1 DEF Progresses
  <2> HIDE DEF p
  <2>2. <<W("afl", IF found THEN "finding" ELSE "quiet"), W("progress", p)>> \in Seq(Quiet({}))
    BY <2>1, QuietFiles, Pair
  <2>3. (IF found THEN <<W("crash_files", TRUE)>> ELSE <<>>) \in Seq(Quiet({}))
    BY QuietFiles, EmptySeq
  <2>4. saved \in Seq(Quiet(S))
    BY <1>5, <2>2, <2>3, QuietWrites, ConcatProperties
  <2> HIDE DEF saved
  <2>5. saved \in Seq(Quiet(LateStates(View))) /\ saved \in Seq(Writes)
    BY <1>6, <2>4
  <2>6. CASE Do(saved \o Save([Finished(st) EXCEPT !.triage_artifact = "afl"]), None)
    BY <1>1, <2>5, <2>6, SessionStates, LateSessionStates, LiveIsGood, LateSave
  <2>7. CASE Do(saved \o Save(To(st, "fuzzing", "ready")), None)
    BY <1>1, <2>5, <2>7, SessionStates, LateSessionStates, LiveIsGood, LateSave
  <2>8. CASE Do(saved \o Replan(st), None)
    <3>1. ASSUME NEW s \in S
          PROVE  /\ Fits([View EXCEPT !.state = s]) /\ s.active = View.state.active
                 /\ At(Replan(st), [View EXCEPT !.state = s]) \in Fine
      <4> DEFINE y == [View EXCEPT !.state = s]
      <4>1. y \in Views /\ y.state = s /\ Fits(y) /\ Late(s) /\ s.active = st.active
        BY <1>2, LateFits DEF Views, S
      <4> HIDE DEF y
      <4>2. At(Replan(st), y) \in Fine
        BY <1>1, <4>1, ReplanOnward DEF Late
      <4> QED
        BY <1>2, <4>1, <4>2 DEF y
    <3>2. Replan(st) \in Seq(Writes)
      BY <1>2, <1>3, <3>1, FineFits
    <3>3. At(saved \o Replan(st), View) \in Fine
      BY <1>2, <1>3, <2>4, <3>1, <3>2, QuietPasses
    <3> QED
      BY <2>8, <3>3, DoFine
  <2> QED
    BY <1>11, <2>6, <2>7, <2>8 DEF p, saved
<1>12. CASE \E time \in 0..1, improved, found \in BOOLEAN :
             LET p     == [Add(disk.progress, time) EXCEPT !.stalled = ~improved]
                 saved == start \o (IF found THEN <<W("crash_files", TRUE)>> ELSE <<>>)
                          \o <<W("afl", IF found THEN "finding" ELSE "quiet"), W("progress", p)>>
                 over  == found \/ p.completed = Budget
             IN
               \/ over /\ Do(saved \o Save([Finished(st) EXCEPT !.triage_artifact = "afl"]), None)
               \/ ~over /\ Do(saved \o Save(To(st, "fuzzing", "ready")), None)
               \/ ~over /\ p.stalled /\ CanReplan /\ Do(saved \o Replan(st), None)
  BY <1>11, <1>12, ZenonT(60)
<1>13. (\E e \in PolicyErrors \cup {"afl"} : Do(<<>>, e)) => PendingFine'
  BY <1>7
<1> QED
  <2> HIDE DEF failed
  <2> QED
    BY <1>9, <1>10, <1>12, <1>13 DEF Afl, start, failed

-----------------------------------------------------------------------------
(* The handlers: triage and validation.                                    *)

LEMMA TriageFine ==
  ASSUME CoreInv, PendingFine, Triage
  PROVE  PendingFine'
<1>1. st \in LiveStates /\ disk \in Disk /\ st.stage = "triage"
  BY StageFacts DEF Triage, AtStage
<1>2. View \in Views /\ Fits(View) /\ View.state = st
  BY FineNow
<1> DEFINE saved(stage, status) ==
             [To(st, stage, status) EXCEPT !.triage_artifact = IF stage = "fuzzing" THEN None ELSE @]
           verdict(before, stage, status, summary) ==
             Do(before \o Save(saved(stage, status)) \o <<W("summary", summary)>>, None)
           Q == Quiet(LateStates(View))
<1>3. ASSUME NEW e, Do(<<>>, e)
      PROVE  PendingFine'
  BY <1>3, NothingFine
<1>4. ASSUME NEW before \in Seq(Quiet({})), NEW stage \in {"validation", "fuzzing", "complete"},
             NEW status \in {"validation_pending", "ready", "triage_review_required", "exhausted"},
             NEW summary \in {"reproduced", "other"}, verdict(before, stage, status, summary)
      PROVE  PendingFine'
  <2> DEFINE s == saved(stage, status)
  <2>1. s \in GoodStates /\ s.stage = stage /\ s.status = status /\ s.active = st.active
    <3>1. stage \in Stages /\ status \in Statuses
      BY DEF Stages, Statuses, MANUAL_STATUSES, FUZZABLE
    <3>2. /\ To(st, stage, status) \in GoodStates
          /\ To(st, stage, status).stage = stage /\ To(st, stage, status).status = status
      BY <1>1, <3>1, MovesOn
    <3>3. To(st, stage, status).active = st.active
      BY <1>1 DEF To, LiveStates, State
    <3> HIDE DEF To
    <3> QED
      BY <3>2, <3>3 DEF GoodStates, State
  <2>2. Do(before \o Save(s) \o <<W("summary", summary)>>, None)
    BY <1>4
  <2> HIDE DEF s, Q
  <2>3. s \in LateStates(View)
    BY <1>2, <2>1 DEF LateStates, Late, GENERABLE, GoodStates
  <2>4. /\ before \in Seq(Q) /\ Save(s) \in Seq(Q) /\ <<W("summary", summary)>> \in Seq(Q)
    BY <2>1, <2>3, QuietWrites, QuietFiles DEF Q
  <2>5. before \o Save(s) \o <<W("summary", summary)>> \in Seq(Q)
    BY <2>4, ConcatProperties
  <2>6. At(before \o Save(s) \o <<W("summary", summary)>>, View) \in Fine
    BY <1>2, <2>5, LateFine DEF Q
  <2> QED
    BY <2>2, <2>6, DoFine
<1>5. <<>> \in Seq(Quiet({})) /\ <<W("crash_files", FALSE)>> \in Seq(Quiet({}))
  BY QuietFiles, EmptySeq
<1>6. verdict(<<>>, "validation", "validation_pending", "reproduced") => PendingFine'
  BY <1>4, <1>5
<1>7. verdict(<<W("crash_files", FALSE)>>, "fuzzing", "ready", "other") => PendingFine'
  BY <1>4, <1>5
<1>8. verdict(<<>>, "complete", "triage_review_required", "other") => PendingFine'
  BY <1>4, <1>5
<1>9. verdict(<<>>, "complete", "exhausted", "other") => PendingFine'
  BY <1>4, <1>5
<1>10. (\E e \in ToolErrors \cup {"missing"} : Do(<<>>, e)) => PendingFine'
  BY <1>3
<1> QED
  BY <1>6, <1>7, <1>8, <1>9, <1>10 DEF Triage

LEMMA ValidateFine ==
  ASSUME CoreInv, PendingFine, Validate
  PROVE  PendingFine'
<1> DEFINE over    == To(st, "complete", "ready_for_human")
           running == [st EXCEPT !.status = "validation_running"]
           failed(e) == Flag(st, "validation_review_required", e)
           Q       == Quiet(LateStates(View))
<1>1. st \in LiveStates /\ st.stage = "validation"
  BY LiveAtTop DEF Validate, CoreInv, AtStage
<1>2. View \in Views /\ Fits(View) /\ View.state = st
  BY FineNow
<1>3. /\ "complete" \in Stages
      /\ {"ready_for_human", "validation_running", "validation_review_required"} \subseteq Statuses
  BY DEF Stages, Statuses, MANUAL_STATUSES
<1>4. over \in GoodStates /\ over.stage = "complete" /\ over.status = "ready_for_human" /\ over.active = st.active
  <2>1. over \in GoodStates /\ over.stage = "complete" /\ over.status = "ready_for_human"
    BY <1>1, <1>3, MovesOn
  <2> QED
    BY <1>1, <2>1 DEF To, LiveStates, State
<1>5. /\ running \in GoodStates /\ running.stage = "validation" /\ running.status = "validation_running"
      /\ running.active = st.active
  <2>1. /\ running \in LiveStates /\ running.stage = "validation" /\ running.status = "validation_running"
        /\ running.active = st.active
    BY <1>1, <1>3 DEF LiveStates, State
  <2> QED
    BY <2>1, LiveIsGood
<1>6. ASSUME NEW e \in Errors
      PROVE  /\ failed(e) \in GoodStates /\ failed(e).stage = "validation"
             /\ failed(e).status = "validation_review_required" /\ failed(e).active = st.active
  <2>1. failed(e) \in LiveStates /\ failed(e).stage = "validation" /\ failed(e).status = "validation_review_required"
    BY <1>1, <1>3, Flagged
  <2> QED
    BY <1>1, <2>1, LiveIsGood DEF Flag, LiveStates, State
<1> HIDE DEF over, running, failed, Q
<1>7. ASSUME NEW s \in GoodStates, s.stage \in {"validation", "complete"}, s.active = st.active,
             s.status \in {"ready_for_human", "validation_running", "validation_review_required"}
      PROVE  Save(s) \in Seq(Q)
  <2>1. s \in LateStates(View)
    BY <1>2, <1>7 DEF LateStates, Late, GoodStates
  <2> QED
    BY <2>1, QuietWrites DEF Q
<1>8. /\ Save(over) \in Seq(Q) /\ Save(running) \in Seq(Q) /\ <<W("report", TRUE)>> \in Seq(Q)
      /\ \A e \in Errors : Save(failed(e)) \in Seq(Q)
  BY <1>4, <1>5, <1>6, <1>7, QuietFiles, QuietWrites DEF Q
<1>9. ASSUME NEW ws \in Seq(Q), NEW e, Do(ws, e)
      PROVE  PendingFine'
  <2>1. At(ws, View) \in Fine
    BY <1>2, LateFine DEF Q
  <2> QED
    BY <1>9, <2>1, DoFine
<1>10. CASE Do(Save(over), "return")
  BY <1>8, <1>9, <1>10
<1>11. CASE Do(<<>>, "missing")
  BY <1>9, <1>11, EmptySeq
<1>12. CASE Do(Save(running) \o <<W("report", TRUE)>> \o Save(over), "return")
  <2>1. Save(running) \o <<W("report", TRUE)>> \o Save(over) \in Seq(Q)
    BY <1>8, ConcatProperties
  <2> QED
    BY <1>9, <1>12, <2>1
<1>13. ASSUME NEW e \in ToolErrors, Do(Save(running) \o Save(failed(e)), e)
       PROVE  PendingFine'
  <2>1. Save(running) \o Save(failed(e)) \in Seq(Q)
    BY <1>8, ErrorTypes, ConcatProperties
  <2> QED
    BY <1>9, <1>13, <2>1
<1>14. (\E e \in ToolErrors : Do(Save(running) \o Save(failed(e)), e)) => PendingFine'
  BY <1>13
<1> QED
  BY <1>10, <1>11, <1>12, <1>14 DEF Validate, over, running, failed

\* All of them.
LEMMA HandlersFine ==
  ASSUME CoreInv, PendingFine, Handler
  PROVE  PendingFine'
<1>1. pending' \in Seq(Writes)
  BY HandlersDo, HandedPending DEF HandlerStep
<1> QED
  BY <1>1, PrepareFine, IntegrateFine, BuildFine, SmokeFine, ProbeFine, QuartetFine, RepairFine,
     AnalyzeFine, GenerateFine, GenerationLimitFine, FuzzFine, AflFine, TriageFine, ValidateFine
     DEF Handler

-----------------------------------------------------------------------------
(* The steps around the handlers.                                          *)

LEMMA ReadyFine ==
  ASSUME CoreInv, PendingFine, Ready, pending' \in Seq(Writes)
  PROVE  PendingFine'
<1>1. /\ st.stage = "fuzzing" /\ View' = View /\ st \in LiveStates
  BY LiveAtTop DEF Ready, AtStage, View, history, CoreInv
<1>2. View \in Views /\ Fits(View) /\ View.state = st
  BY FineNow
<1>3. CASE pending' = pending
  BY <1>1, <1>3 DEF PendingFine
<1>4. CASE pending' = Save([st EXCEPT !.stage = "complete", !.status = "exhausted"])
  <2> DEFINE s == [st EXCEPT !.stage = "complete", !.status = "exhausted"]
  <2>1. <<>> \o <<W("state", s)>> = pending' /\ <<>> \in Seq(Writes)
    BY <1>4, Single, ConcatEmptySeq, EmptySeq DEF Save
  <2>2. W("state", s) \in Writes
    BY <2>1, LastIsWrite
  <2>3. s \in GoodStates
    BY <2>2 DEF W, Writes, FileWrites
  <2>4. s.stage = "complete" /\ s.status = "exhausted" /\ s.active = st.active
    BY <1>1 DEF LiveStates, State
  <2> HIDE DEF s
  <2>5. Late(s) /\ s \in State
    BY <2>3, <2>4 DEF Late, GoodStates
  <2>6. Fits([View EXCEPT !.state = s])
    BY <1>2, <2>5, LateFits
  <2>7. At(Save(s), View) \in Fine
    BY <1>2, <2>3, <2>4, <2>6, OnlySave
  <2> QED
    BY <1>1, <1>4, <2>7 DEF PendingFine, s
<1> QED
  BY <1>3, <1>4 DEF Ready

LEMMA FollowupFine ==
  ASSUME CoreInv, PendingFine, FollowupHarness, pending' \in Seq(Writes)
  PROVE  PendingFine'
<1> DEFINE s == [st EXCEPT !.central_improvement = @ + 1]
           t == To(s, "fuzzing", "harness_work_pending")
<1>1. st.stage = "complete" /\ pending' = Replan(s) /\ View' = View
  BY DEF FollowupHarness, FollowupAvailable, View, history
<1>2. View \in Views /\ Fits(View) /\ View.state = st /\ st \in State
  BY FineNow DEF Views
<1>3. s \in State /\ s.active = st.active
  <2>1. st.central_improvement + 1 \in Nat
    BY <1>2 DEF State
  <2> QED
    BY <1>2, <2>1 DEF State
<1> HIDE DEF s
<1>4. t \in GoodStates
  <2>1. <<W("plan", "work")>> \o <<W("state", t)>> = pending' /\ <<W("plan", "work")>> \in Seq(Writes)
    BY <1>1, FileWriteIsEarly, EarlyIsWrites, Single DEF Replan, Save
  <2>2. W("state", t) \in Writes
    BY <2>1, LastIsWrite
  <2> QED
    BY <2>2 DEF W, Writes, FileWrites
<1>5. At(Replan(s), View) \in Fine
  BY <1>1, <1>2, <1>3, <1>4, ReplanFrom
<1> QED
  BY <1>1, <1>5 DEF PendingFine

\* The build is moved away: nothing can run any more, whatever evidence is there.
LEMMA GoneLeads ==
  ASSUME NEW x \in Views, Fits(x), x.manifest = disk.manifest
  PROVE  /\ Moved("manifest") \in Seq(Writes)
         /\ \E y \in Views : /\ Leads(Moved("manifest"), x, y) /\ Fits(y) /\ y.manifest = None
                             /\ y.state = x.state /\ \A f \in Evidence : y[f] = x[f]
<1>1. Moved("manifest") \in Seq(Writes)
  BY MovedIsEarly, EarlyIsWrites, SeqMonotonic DEF Absent
<1>2. CASE disk.manifest = None
  <2>1. Moved("manifest") = <<>>
    BY <1>2 DEF Moved, Absent
  <2> QED
    BY <1>1, <1>2, <2>1, LeadsNone
<1>3. CASE disk.manifest # None
  <2> DEFINE w == W("manifest", None)
             y == [x EXCEPT !.manifest = None, !.current = {}]
  <2>1. Moved("manifest") = <<w>>
    BY <1>3 DEF Moved, Absent
  <2>2. w \in Writes /\ w.file = "manifest" /\ w.value = None
    BY FileWriteIsEarly, EarlyIsWrites DEF W
  <2> HIDE DEF w
  <2>3. Put(x, w) = y /\ Starts(x, w)
    BY <2>2 DEF Put, Starts
  <2>4. Leads(<<w>>, x, y) /\ y \in Views
    BY <2>2, <2>3, LeadsOne, PutType
  <2>5. /\ y.manifest = None /\ y.state = x.state /\ y.smoke = x.smoke /\ y.probe = x.probe
        /\ y.quartet = x.quartet /\ y.plan = x.plan /\ \A f \in Evidence : y[f] = x[f]
    BY DEF Views, Evidence
  <2> HIDE DEF y
  <2>6. Fits(y)
    BY <2>5 DEF Fits, Bare, Built, SmokeIsCurrent, ProbeIsCurrent
  <2> QED
    BY <1>1, <2>1, <2>4, <2>5, <2>6
<1> QED
  BY <1>2, <1>3

LEMMA FilesMove ==
  ASSUME NEW x, NEW y \in Views, Fits(y), NEW ws \in Seq(Writes), Leads(ws, x, y),
         NEW more \in Seq(Quiet({}))
  PROVE  Leads(ws \o more, x, y) /\ ws \o more \in Seq(Writes)
BY LeadsFiles, LeadsOn, ConcatProperties

\* The writes so far have led to a view without a build.
Cleared(ws, x, y) ==
  y \in Views /\ ws \in Seq(Writes) /\ Leads(ws, x, y) /\ Fits(y) /\ y.manifest = None

\* From one view to another a piece of evidence is moved away.
Lost(y, z, f) ==
  z.state = y.state /\ z[f] = Absent[f] /\ \A g \in Evidence \ {f} : z[g] = y[g]

\* A piece of evidence moved away where there is no build.
LEMMA UnbuiltStep ==
  ASSUME NEW x, NEW y, NEW ws, Cleared(ws, x, y), NEW f \in Evidence, y[f] = disk[f]
  PROVE  \E z : Cleared(ws \o Moved(f), x, z) /\ Lost(y, z, f)
<1>1. y \in Views /\ Fits(y) /\ ws \in Seq(Writes) /\ Leads(ws, x, y) /\ y.manifest = None
  BY DEF Cleared
<1>2. PICK z : Leads(ws \o Moved(f), x, z) /\ Dropped(y, z, f) /\ z \in Views /\ Fits(z)
  BY <1>1, ArchiveStep
<1>3. ws \o Moved(f) \in Seq(Writes)
  BY <1>1, MovedIsEarly, EarlyIsWrites, SeqMonotonic, ConcatProperties DEF Absent, Evidence
<1> QED
  BY <1>1, <1>2, <1>3 DEF Dropped, Cleared, Lost

LEMMA FilesCleared ==
  ASSUME NEW x, NEW y, NEW ws, Cleared(ws, x, y), NEW more \in Seq(Quiet({}))
  PROVE  Cleared(ws \o more, x, y)
BY FilesMove DEF Cleared

LEMMA OperatorLeads ==
  ASSUME CoreInv, PendingFine
  PROVE  /\ OperatorMoves \in Seq(Writes)
         /\ \E y \in Views : Leads(OperatorMoves, View, y) /\ Fits(y) /\ y.state = st /\ Bare(y)
<1>1. /\ View \in Views /\ Fits(View) /\ View.state = st /\ View.manifest = disk.manifest
      /\ \A f \in Evidence : View[f] = disk[f]
  BY FineNow DEF Evidence
<1> DEFINE a == Moved("afl") \o Moved("manifest")
           b == a \o Moved("plan") \o Moved("progress") \o Moved("run") \o Moved("integration")
           c == b \o Moved("probe") \o Moved("quartet") \o Moved("smoke")
<1>2. PICK u \in Views : /\ Leads(a, View, u) /\ Fits(u) /\ u.manifest = None
                         /\ u.state = st /\ \A f \in Evidence : u[f] = disk[f]
                         /\ a \in Seq(Writes)
  <2>1. Leads(Moved("afl"), View, View) /\ Moved("afl") \in Seq(Writes)
    BY <1>1, MovedFiles, LeadsFiles
  <2>2. PICK y \in Views : /\ Leads(Moved("manifest"), View, y) /\ Fits(y) /\ y.manifest = None
                           /\ y.state = View.state /\ \A f \in Evidence : y[f] = View[f]
                           /\ Moved("manifest") \in Seq(Writes)
    BY <1>1, GoneLeads
  <2>3. Leads(a, View, y) /\ a \in Seq(Writes)
    BY <2>1, <2>2, LeadsOn, ConcatProperties
  <2> QED
    BY <1>1, <2>2, <2>3
<1> HIDE DEF a
<1>3. PICK v : Cleared(b, View, v) /\ v.state = st /\ v.plan = None
               /\ \A f \in {"smoke", "probe", "quartet"} : v[f] = disk[f]
  <2>1. Cleared(a, View, u) /\ "plan" \in Evidence /\ u["plan"] = disk["plan"]
    BY <1>2 DEF Cleared, Evidence
  <2>2. PICK v : Cleared(a \o Moved("plan"), View, v) /\ Lost(u, v, "plan")
    BY <2>1, UnbuiltStep
  <2>3. v.plan = None /\ v.state = st /\ \A f \in {"smoke", "probe", "quartet"} : v[f] = disk[f]
    BY <1>2, <2>2, EvidenceAbsent DEF Evidence, Lost
  <2>4. Cleared(a \o Moved("plan") \o Moved("progress"), View, v)
    BY <2>2, MovedFiles, FilesCleared
  <2>5. Cleared(a \o Moved("plan") \o Moved("progress") \o Moved("run"), View, v)
    BY <2>4, MovedFiles, FilesCleared
  <2>6. Cleared(b, View, v)
    BY <2>5, MovedFiles, FilesCleared
  <2> QED
    BY <2>3, <2>6
<1> HIDE DEF b
<1>4. PICK y : Cleared(c, View, y) /\ y.state = st /\ Bare(y)
  <2>1. {"probe", "quartet", "smoke"} \subseteq Evidence
    BY DEF Evidence
  <2>2. PICK p : Cleared(b \o Moved("probe"), View, p) /\ Lost(v, p, "probe")
    BY <1>3, <2>1, UnbuiltStep
  <2>3. p["quartet"] = disk["quartet"] /\ p["smoke"] = disk["smoke"]
        /\ p.plan = None /\ p.probe = None /\ p.state = st
    BY <1>3, <2>2, EvidenceAbsent DEF Evidence, Lost
  <2>4. PICK q : Cleared(b \o Moved("probe") \o Moved("quartet"), View, q) /\ Lost(p, q, "quartet")
    BY <2>1, <2>2, <2>3, UnbuiltStep
  <2>5. q["smoke"] = disk["smoke"] /\ q.plan = None /\ q.probe = None /\ q.quartet = NoReview
        /\ q.state = st
    BY <2>3, <2>4, EvidenceAbsent DEF Evidence, Lost
  <2>6. PICK y : Cleared(c, View, y) /\ Lost(q, y, "smoke")
    BY <2>1, <2>4, <2>5, UnbuiltStep
  <2>7. Bare(y) /\ y.state = st
    BY <2>5, <2>6, EvidenceAbsent DEF Bare, Evidence, Lost
  <2> QED
    BY <2>6, <2>7
<1>5. OperatorMoves = c \o Moved("summary") \o Moved("crash_files")
  BY DEF OperatorMoves, a, b
<1> HIDE DEF c
<1>6. Cleared(c \o Moved("summary"), View, y)
  BY <1>4, MovedFiles, FilesCleared
<1>7. Cleared(OperatorMoves, View, y)
  BY <1>5, <1>6, MovedFiles, FilesCleared
<1> QED
  BY <1>4, <1>7 DEF Cleared

LEMMA OperatorFine ==
  ASSUME CoreInv, PendingFine, Operator
  PROVE  PendingFine'
<1>1. PICK y \in Views : /\ Leads(OperatorMoves, View, y) /\ Fits(y) /\ y.state = st /\ Bare(y)
                         /\ OperatorMoves \in Seq(Writes)
  BY OperatorLeads
<1>2. /\ {"integration", "build"} \subseteq Stages \ {"complete"}
      /\ {"prepared", "integrated"} \subseteq Statuses
  BY DEF Stages, Statuses, RECOVERY_STAGE_STATUS, RECOVERABLE_FAILURE_STAGES
<1>3. ASSUME NEW ws \in Seq(Writes), Leads(ws, View, y), NEW stage \in {"integration", "build"},
             NEW status \in {"prepared", "integrated"},
             pending' = ws \o Save(NewState(stage, status)), disk' = disk, current' = current
      PROVE  PendingFine'
  <2> DEFINE s == NewState(stage, status)
  <2>1. s \in GoodStates /\ s.active = NoSession
    <3>1. s \in LiveStates
      BY <1>2, StartedAnew
    <3> QED
      BY <3>1, LiveIsGood DEF NewState
  <2> HIDE DEF s
  <2>2. Bare([y EXCEPT !.state = s])
    BY <1>1 DEF Bare, Views
  <2>3. At(ws \o Save(s), View) \in Fine
    BY <1>1, <1>3, <2>1, <2>2, BareFits, LastSave
  <2>4. View' = View
    BY <1>3 DEF View
  <2> QED
    BY <1>3, <2>3, <2>4 DEF PendingFine, s
<1>4. CASE Retarget
  <2>1. /\ pending' = OperatorMoves \o Save(NewState("integration", "prepared"))
        /\ disk' = disk /\ current' = current
    BY <1>4 DEF Retarget, Rework, history
  <2> QED
    BY <1>1, <1>3, <2>1
<1>5. CASE RepairHarness
  <2>1. /\ pending' = OperatorMoves \o <<W("integration", TRUE)>> \o Save(NewState("build", "integrated"))
        /\ disk' = disk /\ current' = current
    BY <1>5 DEF RepairHarness, Rework, history
  <2>2. /\ Leads(OperatorMoves \o <<W("integration", TRUE)>>, View, y)
        /\ OperatorMoves \o <<W("integration", TRUE)>> \in Seq(Writes)
    BY <1>1, QuietFiles, FilesMove
  <2> QED
    BY <1>3, <2>1, <2>2
<1> QED
  BY <1>4, <1>5 DEF Operator

-----------------------------------------------------------------------------
(* The writes reach the disk.                                              *)

\* Two views that differ at most in what is current.
Same(x, y) ==
  /\ x.state = y.state /\ x.manifest = y.manifest /\ x.smoke = y.smoke
  /\ x.probe = y.probe /\ x.quartet = y.quartet /\ x.plan = y.plan

LEMMA SameIsEqual ==
  ASSUME NEW x \in Views, NEW y \in Views, Same(x, y), x.current = y.current
  PROVE  x = y
BY DEF Same, Views

LEMMA WrittenView ==
  ASSUME CoreInv, PendingFine, NEW w \in Writes, disk' = [disk EXCEPT ![w.file] = w.value]
  PROVE  /\ Same(View', Put(View, w)) /\ Put(View, w).current = Current(w)
         /\ st' = IF w.file = "state" THEN w.value ELSE st
<1>1. disk \in Disk /\ View \in Views /\ View.current = current
  BY FineNow DEF CoreInv, TypeInv, GoodDisks
<1>2. /\ View.state = disk.state /\ View.manifest = disk.manifest /\ View.smoke = disk.smoke
      /\ View.probe = disk.probe /\ View.quartet = disk.quartet /\ View.plan = disk.plan
      /\ View'.state = disk'.state /\ View'.manifest = disk'.manifest /\ View'.smoke = disk'.smoke
      /\ View'.probe = disk'.probe /\ View'.quartet = disk'.quartet /\ View'.plan = disk'.plan
  BY DEF View
<1>3. st' = disk'.state /\ st = disk.state
  BY DEF st
<1>4. /\ disk'.state = (IF w.file = "state" THEN w.value ELSE disk.state)
      /\ disk'.manifest = (IF w.file = "manifest" THEN w.value ELSE disk.manifest)
      /\ disk'.smoke = (IF w.file = "smoke" THEN w.value ELSE disk.smoke)
      /\ disk'.probe = (IF w.file = "probe" THEN w.value ELSE disk.probe)
      /\ disk'.quartet = (IF w.file = "quartet" THEN w.value ELSE disk.quartet)
      /\ disk'.plan = (IF w.file = "plan" THEN w.value ELSE disk.plan)
  BY <1>1 DEF Disk
<1>5. CASE w.file \in {"state", "manifest"}
  BY <1>1, <1>2, <1>3, <1>4, <1>5 DEF Put, Same, Views, Current, Evidence
<1>6. CASE w.file \in Evidence
  BY <1>1, <1>2, <1>3, <1>4, <1>6 DEF Put, Same, Views, Current, Evidence
<1>7. CASE w.file \notin {"state", "manifest"} \cup Evidence
  BY <1>1, <1>2, <1>3, <1>4, <1>7 DEF Put, Same, Views, Current, Evidence
<1> QED
  BY <1>5, <1>6, <1>7

\* A session is only begun on what was approved.
SoundStart == st'.active \notin {NoSession, st.active} => Full(View)

LEMMA WriteFine ==
  ASSUME CoreInv, PendingFine, Write
  PROVE  PendingFine' /\ SoundStart
<1> DEFINE w == Head(pending)
<1>1. /\ pending # <<>> /\ pending' = Tail(pending) /\ disk' = [disk EXCEPT ![w.file] = w.value]
      /\ current' = Current(w)
  BY DEF Write
<1>2. w \in Writes /\ pending \in Seq(Writes)
  BY <1>1, HeadTailProperties DEF CoreInv, TypeInv
<1> HIDE DEF w
<1>3. View \in Views /\ View.state = st
  BY FineNow
<1>4. Starts(View, w) /\ At(Tail(pending), Put(View, w)) \in Fine
  BY <1>1, <1>2, <1>3, FineLasts DEF Sustained, PendingFine, w
<1>5. /\ Same(View', Put(View, w)) /\ View'.current = Put(View, w).current
      /\ st' = IF w.file = "state" THEN w.value ELSE st
  BY <1>1, <1>2, WrittenView DEF View
<1>6. TypeInv'
  BY WriteDoes DEF CoreInv
<1>7. View' \in Views
  BY <1>6 DEF TypeInv, TypeOK, GoodDisks, Disk, View, Views, Evidence
<1>8. View' = Put(View, w)
  BY <1>2, <1>3, <1>5, <1>7, PutType, SameIsEqual
<1> QED
  BY <1>1, <1>3, <1>4, <1>5, <1>8 DEF PendingFine, SoundStart, Starts

-----------------------------------------------------------------------------
(* The monitor.                                                            *)

\* Nothing of the second view but what is current may be missing in the first.
Covers(x, y) == Same(x, y) /\ y.current \subseteq x.current

\* States the job may be left in while the monitor writes.
Held(s) ==
  {t \in State : t.active = s.active /\ t.stage \in {s.stage, "complete"} /\ t.status \in MANUAL_STATUSES}

\* Writes that add no evidence.
Clearing == {w \in Writes : w.file \in Evidence => w.value = Absent[w.file]}

\* As long as the monitor has to write the job's state, what it writes is fine from the disk
\* on, whichever failure the worker records in between; the monitor does not unmark what it
\* moves away, so that more may count as current than is there.
RecoveryFine ==
  /\ recovery \in Seq(Clearing)
  /\ recovery \notin Seq(AppliedWrites) =>
       \E y \in Views : Covers(View, y) /\ \A t \in Held(st) : At(recovery, [y EXCEPT !.state = t]) \in Fine

LEMMA CoversFits ==
  ASSUME NEW x \in Views, NEW y \in Views, Covers(x, y), Fits(y)
  PROVE  Fits(x)
BY DEF Covers, Same, Fits, Bare, Built, SmokeIsCurrent, ProbeIsCurrent

LEMMA CoversFull ==
  ASSUME NEW x \in Views, NEW y \in Views, Covers(x, y), Full(y)
  PROVE  Full(x)
BY DEF Covers, Same, Full, Built

\* A state that may be saved without anything else.
LEMMA HeldFits ==
  ASSUME NEW v \in Views, Fits(v), NEW s \in State, s.stage \in {v.state.stage, "complete"},
         s.status \notin GENERABLE \cup {"quartet_repair_pending"}
  PROVE  Fits([v EXCEPT !.state = s]) /\ [v EXCEPT !.state = s] \in Views
<1> DEFINE z == [v EXCEPT !.state = s]
<1>1. /\ z \in Views /\ z.state = s /\ z.manifest = v.manifest /\ z.smoke = v.smoke /\ z.probe = v.probe
      /\ z.quartet = v.quartet /\ z.plan = v.plan /\ z.current = v.current
  BY DEF Views
<1> HIDE DEF z
<1>2. s.stage = "complete" => Fits(z)
  BY <1>1 DEF Fits, Bare, Built, SmokeIsCurrent, ProbeIsCurrent
<1>3. s.stage = v.state.stage => Fits(z)
  BY <1>1 DEF Fits, Bare, Built, SmokeIsCurrent, ProbeIsCurrent
<1>4. Fits(z)
  BY <1>2, <1>3
<1> QED
  BY <1>1, <1>4 DEF z

LEMMA HeldStatuses ==
  /\ MANUAL_STATUSES \cap (GENERABLE \cup {"quartet_repair_pending"}) = {}
  /\ \A s \in State : s.status \in MANUAL_STATUSES => s \in Held(s)
BY DEF MANUAL_STATUSES, GENERABLE, Held

LEMMA RecordedIsHeld ==
  ASSUME NEW s \in GoodStates, NEW e \in Errors
  PROVE  /\ Recorded(s, e) \in State /\ Recorded(s, e).active = s.active
         /\ Recorded(s, e).stage \in {s.stage, "complete"}
         /\ Recorded(s, e).status \notin GENERABLE \cup {"quartet_repair_pending"}
         /\ s.status \in MANUAL_STATUSES => Recorded(s, e) \in Held(s) /\ Held(Recorded(s, e)) \subseteq Held(s)
<1> DEFINE r == Recorded(s, e)
<1>1. /\ r \in State /\ r.stage \in {s.stage, "complete"}
      /\ r.status \in {"unsupported_integration", "manual_review", "interrupted", "recovery_pending"}
      /\ r.status = "interrupted" => s.status = "interrupted"
  BY RecordedIsGood DEF GoodStates
<1>2. r.active = s.active
  BY DEF Recorded, GoodStates, State
<1> HIDE DEF r
<1>3. r.status \notin GENERABLE \cup {"quartet_repair_pending"}
  BY <1>1 DEF GENERABLE
<1>4. s.status \in MANUAL_STATUSES => r.status \in MANUAL_STATUSES
  BY <1>1 DEF MANUAL_STATUSES
<1>5. s.status \in MANUAL_STATUSES => r \in Held(s) /\ Held(r) \subseteq Held(s)
  BY <1>1, <1>2, <1>4 DEF Held
<1> QED
  BY <1>1, <1>2, <1>3, <1>5 DEF r

LEMMA RecordFine ==
  ASSUME CoreInv, PendingFine, RecoveryFine, RecordWorkerError
  PROVE  PendingFine' /\ SoundStart /\ (recovery \notin Seq(AppliedWrites) /\ st.status \in MANUAL_STATUSES => RecoveryFine')
<1>1. st' = Recorded(st, raised) /\ raised \in Errors /\ st \in GoodStates
  BY RecordKeepsCore
<1>2. /\ pending' = <<>> /\ recovery' = recovery /\ current' = current
      /\ disk' = [disk EXCEPT !.state = Recorded(st, raised)]
  BY DEF RecordWorkerError, Leave, history
<1>3. View \in Views /\ Fits(View) /\ View.state = st /\ disk \in Disk
  BY FineNow DEF CoreInv, TypeInv, GoodDisks
<1>4. View' = [View EXCEPT !.state = st']
  BY <1>1, <1>2, <1>3 DEF View, Disk
<1>5. st' \in State /\ st'.active = st.active /\ st'.stage \in {st.stage, "complete"}
      /\ st'.status \notin GENERABLE \cup {"quartet_repair_pending"}
  BY <1>1, RecordedIsHeld
<1>6. Fits(View') /\ View' \in Views
  BY <1>3, <1>4, <1>5, HeldFits
<1>7. PendingFine'
  BY <1>2, <1>6, NothingIsFine DEF PendingFine
<1>8. ASSUME recovery \notin Seq(AppliedWrites), st.status \in MANUAL_STATUSES
      PROVE  RecoveryFine'
  <2>1. PICK y \in Views : /\ Covers(View, y)
                           /\ \A t \in Held(st) : At(recovery, [y EXCEPT !.state = t]) \in Fine
    BY <1>8 DEF RecoveryFine
  <2> DEFINE z == [y EXCEPT !.state = st']
  <2>2. z \in Views /\ \A t : [z EXCEPT !.state = t] = [y EXCEPT !.state = t]
    BY <1>5 DEF Views
  <2>3. Covers(View', z)
    BY <1>3, <1>4, <1>5, <2>1 DEF Covers, Same, Views
  <2>4. Held(st') \subseteq Held(st)
    BY <1>1, <1>8, RecordedIsHeld
  <2> HIDE DEF z
  <2>5. \A t \in Held(st') : At(recovery', [z EXCEPT !.state = t]) \in Fine
    BY <1>2, <2>1, <2>2, <2>4
  <2> QED
    BY <1>2, <2>2, <2>3, <2>5 DEF RecoveryFine
<1> QED
  BY <1>5, <1>7, <1>8 DEF SoundStart

\* The monitor saves the job's state and then what it has applied.
LEMMA SaveApplied ==
  ASSUME NEW x, NEW y \in Views, NEW ws \in Seq(Writes), Leads(ws, x, y), Fits(y),
         NEW s \in GoodStates, s.active = y.state.active, Fits([y EXCEPT !.state = s]),
         NEW a \in AppliedWrites
  PROVE  At(ws \o Save(s) \o <<a>>, x) \in Fine
<1> DEFINE w == W("state", s)
           z == [y EXCEPT !.state = s]
<1>1. w \in Writes /\ Put(y, w) = z /\ Starts(y, w)
  BY DEF W, Writes, Put, Starts
<1>2. z \in Views /\ Fits(z)
  BY DEF Views, GoodStates
<1> HIDE DEF w, z
<1>3. Leads(<<w>>, y, z) /\ <<w>> \in Seq(Writes)
  BY <1>1, LeadsOne, Single
<1>4. Leads(ws \o <<w>>, x, z) /\ ws \o <<w>> \in Seq(Writes)
  BY <1>3, LeadsOn, ConcatProperties
<1>5. a \in Quiet({})
  BY MovesAreWrites DEF AppliedWrites, Quiet, Evidence
<1>6. <<a>> \in Seq(Quiet({}))
  BY <1>5, Single
<1>7. Leads(ws \o <<w>> \o <<a>>, x, z) /\ ws \o <<w>> \o <<a>> \in Seq(Writes)
  BY <1>2, <1>4, <1>6, FilesMove
<1>8. At(ws \o <<w>> \o <<a>>, x) \in Fine
  BY <1>2, <1>7, LeadsToFine
<1> QED
  BY <1>8 DEF Save, w

\* A recovery that starts over moves everything away.
LEMMA RestartLeads ==
  ASSUME NEW x \in Views, Fits(x), x.manifest = disk.manifest, \A f \in Evidence : x[f] = disk[f]
  PROVE  \E y : Cleared(RecoveryMoves, x, y) /\ y.state = x.state /\ Bare(y)
<1> DEFINE a == Moved("integration") \o Moved("manifest")
<1>1. PICK u : Cleared(a, x, u) /\ u.state = x.state /\ \A f \in Evidence : u[f] = disk[f]
  <2>1. Leads(Moved("integration"), x, x) /\ Moved("integration") \in Seq(Writes)
    BY MovedFiles, LeadsFiles
  <2>2. PICK u \in Views : /\ Leads(Moved("manifest"), x, u) /\ Fits(u) /\ u.manifest = None
                           /\ u.state = x.state /\ \A f \in Evidence : u[f] = x[f]
                           /\ Moved("manifest") \in Seq(Writes)
    BY GoneLeads
  <2>3. Leads(a, x, u) /\ a \in Seq(Writes)
    BY <2>1, <2>2, LeadsOn, ConcatProperties
  <2> QED
    BY <2>2, <2>3 DEF Cleared
<1>2. {"smoke", "probe", "quartet", "plan"} \subseteq Evidence
  BY DEF Evidence
<1> DEFINE b == a \o Moved("smoke")
           c == b \o Moved("probe")
           d == c \o Moved("quartet")
           e == d \o Moved("plan")
<1> HIDE DEF a
<1>3. PICK v : Cleared(b, x, v) /\ Lost(u, v, "smoke")
  BY <1>1, <1>2, UnbuiltStep
<1>4. v["probe"] = disk["probe"] /\ v["quartet"] = disk["quartet"] /\ v["plan"] = disk["plan"]
      /\ v.smoke = None /\ v.state = x.state
  BY <1>1, <1>3, EvidenceAbsent DEF Evidence, Lost
<1> HIDE DEF b
<1>5. PICK p : Cleared(c, x, p) /\ Lost(v, p, "probe")
  BY <1>2, <1>3, <1>4, UnbuiltStep
<1>6. p["quartet"] = disk["quartet"] /\ p["plan"] = disk["plan"]
      /\ p.smoke = None /\ p.probe = None /\ p.state = x.state
  BY <1>4, <1>5, EvidenceAbsent DEF Evidence, Lost
<1> HIDE DEF c
<1>7. PICK q : Cleared(d, x, q) /\ Lost(p, q, "quartet")
  BY <1>2, <1>5, <1>6, UnbuiltStep
<1>8. q["plan"] = disk["plan"] /\ q.smoke = None /\ q.probe = None /\ q.quartet = NoReview
      /\ q.state = x.state
  BY <1>6, <1>7, EvidenceAbsent DEF Evidence, Lost
<1> HIDE DEF d
<1>9. PICK y : Cleared(e, x, y) /\ Lost(q, y, "plan")
  BY <1>2, <1>7, <1>8, UnbuiltStep
<1>10. Bare(y) /\ y.state = x.state
  BY <1>8, <1>9, EvidenceAbsent DEF Evidence, Lost, Bare
<1>11. RecoveryMoves = e
  BY DEF RecoveryMoves, a, b, c, d
<1> QED
  BY <1>9, <1>10, <1>11

LEMMA MovesAreClearing ==
  RecoveryMoves \in Seq(Clearing)
<1>1. ASSUME NEW name \in {"integration", "manifest", "smoke", "probe", "quartet", "plan"}
      PROVE  Moved(name) \in Seq(Clearing)
  <2>1. W(name, Absent[name]) \in Clearing
    <3>1. W(name, Absent[name]) \in Writes
      <4>1. Absent["manifest"] = None /\ NoReview \in Reviews
        BY DEF Absent, Reviews
      <4> QED
        BY <4>1, AbsentTypes, EvidenceAbsent, FileWriteIsEarly, EarlyIsWrites
    <3> QED
      BY <3>1 DEF Clearing, W
  <2> QED
    BY <2>1, Single, EmptySeq DEF Moved
<1>2. \A a, b : a \in Seq(Clearing) /\ b \in Seq(Clearing) => a \o b \in Seq(Clearing)
  BY ConcatProperties
<1> HIDE DEF Moved
<1> QED
  BY <1>1, <1>2 DEF RecoveryMoves

LEMMA RecoverFine ==
  ASSUME CoreInv, PendingFine, RecoveryFine, Recover
  PROVE  PendingFine' /\ RecoveryFine'
<1>1. /\ Eligible(st) /\ UNCHANGED <<disk, pending, current>> /\ st' = st
  BY DEF Recover, history, st
<1>2. PICK action \in Options(st) :
        recovery' = (IF action = "restart_from_integration" THEN RecoveryMoves ELSE <<>>)
                    \o Save(Recovered(st, action))
                    \o <<W("applied", disk.applied \cup {Applied(st, action)})>>
  BY DEF Recover
<1> DEFINE moves == IF action = "restart_from_integration" THEN RecoveryMoves ELSE <<>>
           s == Recovered(st, action)
           a == W("applied", disk.applied \cup {Applied(st, action)})
<1>3. /\ View \in Views /\ Fits(View) /\ View.state = st /\ View.manifest = disk.manifest
      /\ \A f \in Evidence : View[f] = disk[f]
      /\ st \in GoodStates /\ disk.applied \in SUBSET Records
  BY FineNow DEF CoreInv, TypeInv, TypeOK, GoodDisks, st, Disk, Records, Evidence
<1>4. s \in GoodStates /\ Applied(st, action) \in Records
  BY <1>1, <1>2, <1>3, RecoveredIsGood
<1>5. a \in AppliedWrites
  BY <1>3, <1>4 DEF W, AppliedWrites
<1>6. action \in {"restart_from_integration", "retry_stage", "skip_target"}
  BY <1>2 DEF Options
<1>7. s.active = st.active /\ (action # "restart_from_integration" =>
        s.stage \in {st.stage, "complete"} /\ s.status \notin GENERABLE \cup {"quartet_repair_pending"})
  <2>1. RetryStatus(st) \notin GENERABLE \cup {"quartet_repair_pending"}
    BY <1>1 DEF RetryStatus, RECOVERY_STAGE_STATUS, GENERABLE, Eligible, RECOVERABLE_FAILURE_STAGES
  <2>2. st \in State
    BY <1>3 DEF GoodStates
  <2> QED
    BY <1>6, <2>1, <2>2 DEF Recovered, To, State, GENERABLE
<1> HIDE DEF moves, s, a
<1>8. recovery' = moves \o Save(s) \o <<a>>
  BY <1>2 DEF moves, s, a
<1>9. moves \in Seq(Clearing)
  BY MovesAreClearing, EmptySeq DEF moves
<1>10. recovery' \in Seq(Clearing)
  <2>1. W("state", s) \in Clearing /\ a \in Clearing
    BY <1>4, <1>5, MovesAreWrites DEF Clearing, W, Writes, AppliedWrites, Evidence
  <2>2. Save(s) \in Seq(Clearing) /\ <<a>> \in Seq(Clearing)
    BY <2>1, Single DEF Save
  <2> QED
    BY <1>8, <1>9, <2>2, ConcatProperties
<1>11. ASSUME NEW t \in Held(st)
       PROVE  At(recovery', [View EXCEPT !.state = t]) \in Fine
  <2> DEFINE x == [View EXCEPT !.state = t]
  <2>1. /\ x \in Views /\ Fits(x) /\ x.state = t /\ t.active = st.active
        /\ x.manifest = disk.manifest /\ \A f \in Evidence : x[f] = disk[f]
    BY <1>3, HeldFits, HeldStatuses DEF Held, Views, Evidence
  <2>2. t.stage \in {st.stage, "complete"} /\ \A r : [x EXCEPT !.state = r] = [View EXCEPT !.state = r]
    BY <1>3 DEF Held, Views
  <2> HIDE DEF x
  <2>3. CASE action = "restart_from_integration"
    <3>1. PICK y : Cleared(RecoveryMoves, x, y) /\ y.state = x.state /\ Bare(y)
      BY <2>1, RestartLeads
    <3>2. y \in Views /\ Fits(y) /\ RecoveryMoves \in Seq(Writes) /\ Leads(RecoveryMoves, x, y)
      BY <3>1 DEF Cleared
    <3>3. Bare([y EXCEPT !.state = s])
      BY <3>1, <3>2 DEF Bare, Views
    <3>4. Fits([y EXCEPT !.state = s]) /\ s.active = y.state.active
      BY <1>7, <2>1, <3>1, <3>3, BareFits
    <3>5. At(RecoveryMoves \o Save(s) \o <<a>>, x) \in Fine
      BY <1>4, <1>5, <3>2, <3>4, SaveApplied
    <3> QED
      BY <1>8, <2>3, <3>5 DEF moves, x
  <2>4. CASE action # "restart_from_integration"
    <3>1. s \in State
      BY <1>4 DEF GoodStates
    <3>2. Fits([View EXCEPT !.state = s])
      BY <1>3, <1>7, <2>4, <3>1, HeldFits
    <3>3. Fits([x EXCEPT !.state = s]) /\ s.active = x.state.active
      BY <1>7, <2>1, <2>2, <3>2
    <3>4. Leads(<<>>, x, x) /\ <<>> \in Seq(Writes)
      BY LeadsNone, EmptySeq
    <3>5. At(<<>> \o Save(s) \o <<a>>, x) \in Fine
      BY <1>4, <1>5, <2>1, <3>3, <3>4, SaveApplied
    <3> QED
      BY <1>8, <2>4, <3>5 DEF moves, x
  <2> QED
    BY <2>3, <2>4
<1>12. View' = View /\ Covers(View', View)
  BY <1>1 DEF View, Covers, Same
<1>13. RecoveryFine'
  BY <1>1, <1>3, <1>10, <1>11, <1>12 DEF RecoveryFine
<1> QED
  BY <1>1, <1>12, <1>13 DEF PendingFine

\* A write that adds no evidence keeps one view over the other.
LEMMA PutCovers ==
  ASSUME NEW x \in Views, NEW y \in Views, Covers(x, y), NEW w \in Clearing,
         NEW z, Same(z, Put(x, w)), z.current = x.current
  PROVE  Covers(z, Put(y, w))
<1>1. Same(x, y) /\ y.current \subseteq x.current
  BY DEF Covers
<1>2. CASE w.file \in {"state", "manifest"}
  BY <1>1, <1>2 DEF Put, Same, Views, Evidence, Covers
<1>3. CASE w.file \in Evidence
  BY <1>1, <1>3 DEF Put, Same, Views, Evidence, Covers, Clearing
<1>4. CASE w.file \notin {"state", "manifest"} \cup Evidence
  BY <1>1, <1>4 DEF Put, Same, Views, Evidence, Covers
<1> QED
  BY <1>2, <1>3, <1>4

\* Whether the state is written before or after the others makes no difference.
LEMMA PutElsewhere ==
  ASSUME NEW y \in Views, NEW w \in Writes, w.file # "state", NEW t
  PROVE  Put([y EXCEPT !.state = t], w) = [Put(y, w) EXCEPT !.state = t]
<1>1. CASE w.file = "manifest"
  BY <1>1 DEF Put, Views
<1>2. CASE w.file \in Evidence
  BY <1>2 DEF Put, Views, Evidence
<1>3. CASE w.file \notin {"manifest"} \cup Evidence
  BY <1>3 DEF Put
<1> QED
  BY <1>1, <1>2, <1>3

LEMMA MonitorWriteFine ==
  ASSUME CoreInv, RecoveryInv, PendingFine, RecoveryFine, MonitorWrite
  PROVE  PendingFine' /\ RecoveryFine' /\ SoundStart
<1> DEFINE w == Head(recovery)
           rest == Tail(recovery)
<1>1. /\ recovery # <<>> /\ recovery' = rest /\ disk' = [disk EXCEPT ![w.file] = w.value]
      /\ pending' = pending /\ current' = current
  BY DEF MonitorWrite, history
<1>2. w \in Clearing /\ rest \in Seq(Clearing) /\ w \in Writes
  BY <1>1, HeadTailProperties DEF RecoveryFine, Clearing
<1>3. View \in Views /\ Fits(View) /\ View.state = st /\ View.current = current
  BY FineNow
<1>4. Same(View', Put(View, w)) /\ View'.current = View.current
      /\ st' = IF w.file = "state" THEN w.value ELSE st
  <2> HIDE DEF w
  <2> QED
    BY <1>1, <1>2, WrittenView DEF View
<1>5. View' \in Views
  <2>1. TypeInv'
    BY MonitorWriteDoes DEF CoreInv
  <2> QED
    BY <2>1 DEF TypeInv, TypeOK, GoodDisks, Disk, View, Views, Evidence
<1>6. CASE w \in AppliedWrites /\ rest \in Seq(AppliedWrites)
  <2>1. w.file = "applied" /\ Put(View, w) = View
    BY <1>6 DEF AppliedWrites, Put, Evidence
  <2>2. View' = View /\ st' = st
    BY <1>3, <1>4, <1>5, <2>1, SameIsEqual
  <2> HIDE DEF w, rest
  <2> QED
    BY <1>1, <1>2, <1>6, <2>2 DEF PendingFine, RecoveryFine, SoundStart
<1>7. CASE ~(w \in AppliedWrites /\ rest \in Seq(AppliedWrites))
  <2>1. recovery \notin Seq(AppliedWrites)
    BY <1>1, <1>7, HeadTailProperties
  <2>2. pending = <<>> /\ st.status \in MANUAL_STATUSES /\ st \in State
    BY <1>3, <2>1 DEF RecoveryInv, Views
  <2>3. PICK y \in Views : /\ Covers(View, y)
                           /\ \A t \in Held(st) : At(recovery, [y EXCEPT !.state = t]) \in Fine
    BY <2>1 DEF RecoveryFine
  <2>4. \A t \in Held(st) : /\ [y EXCEPT !.state = t] \in Views
                            /\ Starts([y EXCEPT !.state = t], w)
                            /\ At(rest, Put([y EXCEPT !.state = t], w)) \in Fine
    <3> SUFFICES ASSUME NEW t \in Held(st)
                 PROVE  /\ [y EXCEPT !.state = t] \in Views /\ Starts([y EXCEPT !.state = t], w)
                        /\ At(rest, Put([y EXCEPT !.state = t], w)) \in Fine
      OBVIOUS
    <3>1. [y EXCEPT !.state = t] \in Views
      BY DEF Held, Views
    <3>2. recovery \in Seq(Writes)
      BY DEF CoreInv, TypeInv
    <3> QED
      BY <1>1, <2>3, <3>1, <3>2, FineLasts DEF Sustained
  <2>5. st \in Held(st) /\ y.state = st /\ [y EXCEPT !.state = st] = y
    BY <1>3, <2>2, <2>3, HeldStatuses DEF Covers, Same, Views
  <2> HIDE DEF w, rest
  <2>6. Put(y, w) \in Views /\ Fits(Put(y, w)) /\ Starts(y, w)
    BY <2>4, <2>5, FineFits
  <2>7. Covers(View', Put(y, w))
    BY <1>2, <1>3, <1>4, <2>3, PutCovers
  <2>8. Fits(View')
    BY <1>5, <2>6, <2>7, CoversFits
  <2>9. PendingFine'
    BY <1>1, <1>5, <2>2, <2>8, NothingIsFine DEF PendingFine
  <2>10. CASE w.file = "state"
    <3>1. rest \in Seq(AppliedWrites)
      BY <1>1, <2>1, <2>10, FirstMonitorWrite DEF w, rest, AppliedWrites, Moves, FileWrites
    <3>2. st'.active \notin {NoSession, st.active} => Full(y)
      BY <1>4, <2>5, <2>6, <2>10 DEF Starts
    <3>3. SoundStart
      BY <1>3, <2>3, <3>2, CoversFull DEF SoundStart
    <3> QED
      BY <1>1, <1>2, <2>9, <3>1, <3>3 DEF RecoveryFine
  <2>11. CASE w.file # "state"
    <3>1. st' = st
      BY <1>4, <2>11
    <3>2. \A t \in Held(st) : At(rest, [Put(y, w) EXCEPT !.state = t]) \in Fine
      BY <1>2, <2>4, <2>11, PutElsewhere
    <3> QED
      BY <1>1, <1>2, <2>6, <2>7, <2>9, <3>1, <3>2 DEF RecoveryFine, SoundStart
  <2> QED
    BY <2>10, <2>11
<1> QED
  BY <1>6, <1>7

-----------------------------------------------------------------------------
(* Every step.                                                             *)

LEMMA EvidenceStep ==
  ASSUME CoreInv, RecoveryInv, PendingFine, RecoveryFine, [Next]_vars
  PROVE  PendingFine' /\ RecoveryFine' /\ SoundStart
<1>1. View \in Views /\ Fits(View) /\ View.state = st
  BY FineNow
<1>2. CASE Recover
  BY <1>2, RecoverFine DEF Recover, SoundStart, st
<1>3. CASE MonitorWrite
  BY <1>3, MonitorWriteFine
<1>4. ASSUME ~Monitor
      PROVE  recovery' = recovery \/ recovery' = <<>>
  <2>1. CASE Handler
    BY <2>1, HandlersDo DEF HandlerStep
  <2>2. CASE ~Handler
    BY <1>4, <2>2
       DEF Next, Worker, Operator, vars, Start, Write, Ready, NeedsAttention, GiveUp, Return,
           RecordWorkerError, FollowupHarness, Retarget, RepairHarness, Rework, StopSeen, Crash
  <2> QED
    BY <2>1, <2>2
<1>5. ASSUME ~Monitor, recovery \in Seq(AppliedWrites)
      PROVE  RecoveryFine'
  BY <1>4, <1>5, EmptySeq DEF RecoveryFine
<1>6. ASSUME ~Monitor, recovery \notin Seq(AppliedWrites)
      PROVE  RecoveryFine'
  <2>1. /\ pending = <<>> /\ mode \notin {"followup", "operator"}
        /\ st.status \in MANUAL_STATUSES /\ recovery # <<>>
    BY <1>6, EmptySeq DEF RecoveryInv
  <2>2. ~AtTop /\ ~Write /\ ~FollowupHarness /\ ~Operator /\ ~Start
    BY <2>1 DEF AtTop, Write, FollowupHarness, Operator, Retarget, RepairHarness, Rework, Start
  <2>3. ~Handler /\ ~Ready /\ ~StopSeen
    BY <2>2, HandlersAtTop DEF Ready, StopSeen, AtStage
  <2>4. CASE RecordWorkerError
    BY <1>6, <2>1, <2>4, RecordFine
  <2>5. CASE Crash
    BY <2>5, EmptySeq DEF Crash, RecoveryFine
  <2>6. CASE NeedsAttention \/ GiveUp \/ Return \/ UNCHANGED vars
    <3>1. UNCHANGED <<disk, recovery, current>>
      BY <2>6 DEF NeedsAttention, GiveUp, Return, vars, history
    <3>2. View' = View /\ st' = st
      BY <3>1 DEF View, st
    <3> QED
      BY <3>1, <3>2 DEF RecoveryFine
  <2> QED
    BY <1>6, <2>2, <2>3, <2>4, <2>5, <2>6 DEF Next, Worker
<1>7. ASSUME ~Monitor, ~Write, ~RecordWorkerError
      PROVE  SoundStart
  <2>1. disk' = disk
    BY <1>7, OnlyWritesChangeFiles DEF Monitor
  <2> QED
    BY <2>1 DEF SoundStart, st
<1>8. ASSUME ~Monitor, ~Write, ~RecordWorkerError
      PROVE  PendingFine'
  <2>1. CASE Handler
    BY <2>1, HandlersFine
  <2>2. pending' \in Seq(Writes)
    BY CoreStep DEF CoreInv, TypeInv
  <2>3. CASE Ready
    BY <2>2, <2>3, ReadyFine
  <2>4. CASE FollowupHarness
    BY <2>2, <2>4, FollowupFine
  <2>5. CASE Operator
    BY <2>5, OperatorFine
  <2>6. CASE Start \/ NeedsAttention \/ GiveUp \/ StopSeen \/ Return \/ Crash \/ UNCHANGED vars
    <3>1. UNCHANGED <<disk, current>> /\ (pending' = pending \/ pending' = <<>>)
      BY <2>6 DEF Start, NeedsAttention, GiveUp, StopSeen, Return, Crash, vars, history
    <3>2. View' = View
      BY <3>1 DEF View
    <3> QED
      BY <1>1, <3>1, <3>2, NothingIsFine DEF PendingFine
  <2> QED
    BY <1>8, <2>1, <2>3, <2>4, <2>5, <2>6 DEF Next, Worker
<1>9. CASE Write
  <2>1. ~Monitor
    BY <1>9, RecoveryStep DEF Write, Monitor, Recover, MonitorWrite
  <2> QED
    BY <1>5, <1>6, <1>9, <2>1, WriteFine
<1>10. CASE RecordWorkerError
  <2>1. ~Monitor
    BY <1>10 DEF RecordWorkerError, Monitor, Recover, MonitorWrite, Leave
  <2> QED
    BY <1>5, <1>6, <1>10, <2>1, RecordFine
<1> QED
  BY <1>2, <1>3, <1>5, <1>6, <1>7, <1>8, <1>9, <1>10 DEF Monitor

LEMMA InitFine ==
  ASSUME Init
  PROVE  PendingFine /\ RecoveryFine
<1>1. TypeInv
  BY InitGood DEF CoreInv
<1>2. View \in Views
  BY <1>1, ViewType
<1>3. Bare(View)
  BY DEF Init, View, Bare
<1>4. PendingFine
  BY <1>2, <1>3, BareFits, NothingIsFine DEF Init, PendingFine
<1>5. RecoveryFine
  BY EmptySeq DEF Init, RecoveryFine
<1> QED
  BY <1>4, <1>5

\* The evidence on the disk fits together at any time, and so do the writes to come.
THEOREM EvidenceHolds == Spec => [](PendingFine /\ RecoveryFine)
<1>1. Init => PendingFine /\ RecoveryFine
  BY InitFine
<1>2. CoreInv /\ RecoveryInv /\ PendingFine /\ RecoveryFine /\ [Next]_vars
        => PendingFine' /\ RecoveryFine'
  BY EvidenceStep
<1> QED
  BY <1>1, <1>2, CoreHolds, PTL DEF Spec

\* A fuzzing session only ever begins on a harness that is built from the selected target,
\* smoke-tested, reviewed favourably and analysed, all of it since it was built, or where
\* nothing can run: whatever crash, recovery, follow-up or operator came between any two
\* writes.
THEOREM ApprovedHolds == Spec => ApprovedBeforeFuzzing
<1>1. CoreInv /\ RecoveryInv /\ PendingFine /\ RecoveryFine /\ [Next]_vars
        => [st'.active \notin {NoSession, st.active} /\ Runnable =>
              /\ {"smoke", "probe", "quartet", "plan"} \subseteq current
              /\ disk.smoke = disk.manifest
              /\ disk.quartet.verdict = "ready" /\ disk.plan = "ready"]_vars
  <2> SUFFICES ASSUME CoreInv, RecoveryInv, PendingFine, RecoveryFine, [Next]_vars,
                      st'.active \notin {NoSession, st.active}, Runnable
               PROVE  /\ {"smoke", "probe", "quartet", "plan"} \subseteq current
                      /\ disk.smoke = disk.manifest
                      /\ disk.quartet.verdict = "ready" /\ disk.plan = "ready"
    OBVIOUS
  <2>1. Full(View)
    BY EvidenceStep DEF SoundStart
  <2> QED
    BY <2>1, FineNow DEF Full, Built, Runnable, Evidence
<1> QED
  BY <1>1, CoreHolds, EvidenceHolds, PTL DEF Spec, ApprovedBeforeFuzzing
================================================================================
