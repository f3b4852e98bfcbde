--------------------------- MODULE AgentAlertsProofs ---------------------------
(* What the agent keeps and writes, what the operator is told and how often:     *)
(* theorems about AgentAlerts, for every world, every opinion of the reviews and *)
(* every number of changes and faults.                                           *)
EXTENDS AgentAlerts, TLAPS, FiniteSetTheorems, SequenceTheorems

-----------------------------------------------------------------------------
(* The lists of recorded keys.                                             *)

LEMMA SetAsSequence ==
  ASSUME NEW S, IsFiniteSet(S)
  PROVE  /\ SetToSeq(S) \in Seq(S) /\ Len(SetToSeq(S)) = Cardinality(S)
         /\ \A e : Contains(SetToSeq(S), e) <=> e \in S
         /\ \A i, j \in 1..Len(SetToSeq(S)) : SetToSeq(S)[i] = SetToSeq(S)[j] => i = j
<1> DEFINE n == Cardinality(S)
           q == SetToSeq(S)
<1>1. n \in Nat /\ \E f \in [1..n -> S] : IsInjective(f)
  BY FS_CardinalityType DEF ExistsBijection, Bijection, Injection, IsInjective
<1>2. q \in [1..n -> S] /\ IsInjective(q)
  BY <1>1 DEF SetToSeq
<1> HIDE DEF q
<1>3. q \in Seq(S) /\ Len(q) = n /\ DOMAIN q = 1..n
  BY <1>1, <1>2
<1>4. \A e \in S : \E i \in 1..n : q[i] = e
  <2>1. IsFiniteSet(1..n) /\ Cardinality(1..n) = n
    BY <1>1, FS_Interval
  <2>2. q \in Injection(1..n, S)
    BY <1>2 DEF Injection
  <2>3. q \in Surjection(1..n, S)
    BY <2>1, <2>2, FS_Injection
  <2> QED
    BY <2>3 DEF Surjection
<1>5. \A i \in 1..n : q[i] \in S
  BY <1>2
<1>6. \A i, j \in 1..n : q[i] = q[j] => i = j
  BY <1>2 DEF IsInjective
<1> QED
  BY <1>3, <1>4, <1>5, <1>6 DEF q, Contains

\* A list of keys in S that is not too long.
Lists(S) == {s \in Seq(S) : Len(s) <= KeyLimit}

LEMMA SuffixList ==
  ASSUME NEW S, NEW s \in Seq(S)
  PROVE  Suffix(s) \in Lists(S) /\ \A e : Contains(Suffix(s), e) => Contains(s, e)
<1>1. KeyLimit \in Nat \ {0}
  BY AlertConstants
<1>2. Len(s) \in Nat
  BY LenProperties
<1>3. CASE Len(s) <= KeyLimit
  BY <1>1, <1>2, <1>3 DEF Suffix, Lists
<1>4. CASE Len(s) > KeyLimit
  <2> DEFINE first == Len(s) - KeyLimit + 1
             end == SubSeq(s, first, Len(s))
  <2>1. first \in 1..Len(s) + 1 /\ Len(s) \in (first - 1)..Len(s) /\ Len(s) - first + 1 = KeyLimit
    BY <1>1, <1>2, <1>4
  <2>2. /\ end \in Seq(S) /\ Len(end) = KeyLimit
        /\ \A i \in 1..KeyLimit : end[i] = s[first + i - 1]
    BY <1>1, <1>2, <2>1, SubSeqProperties
  <2>3. \A i \in 1..KeyLimit : first + i - 1 \in 1..Len(s)
    BY <1>1, <1>2, <1>4
  <2>4. \A e : Contains(end, e) => Contains(s, e)
    BY <2>2, <2>3 DEF Contains
  <2> QED
    BY <1>1, <1>2, <1>4, <2>2, <2>4 DEF Suffix, Lists
<1> QED
  BY <1>1, <1>2, <1>3, <1>4

LEMMA JoinContains ==
  ASSUME NEW S, NEW s \in Seq(S), NEW t \in Seq(S), NEW e
  PROVE  Contains(s \o t, e) <=> Contains(s, e) \/ Contains(t, e)
<1>1. /\ s \o t \in Seq(S) /\ Len(s) \in Nat /\ Len(t) \in Nat /\ Len(s \o t) = Len(s) + Len(t)
      /\ \A i \in 1..Len(s) + Len(t) : (s \o t)[i] = IF i <= Len(s) THEN s[i] ELSE t[i - Len(s)]
  BY ConcatProperties, LenProperties
<1>2. ASSUME NEW i \in 1..Len(s), s[i] = e
      PROVE  Contains(s \o t, e)
  BY <1>1, <1>2 DEF Contains
<1>3. ASSUME NEW i \in 1..Len(t), t[i] = e
      PROVE  Contains(s \o t, e)
  <2>1. Len(s) + i \in 1..Len(s) + Len(t) /\ (s \o t)[Len(s) + i] = e
    BY <1>1, <1>3
  <2> QED
    BY <1>1, <2>1 DEF Contains
<1>4. ASSUME NEW i \in 1..Len(s) + Len(t), (s \o t)[i] = e
      PROVE  Contains(s, e) \/ Contains(t, e)
  <2>1. CASE i <= Len(s)
    BY <1>1, <1>4, <2>1 DEF Contains
  <2>2. CASE i > Len(s)
    <3>1. i - Len(s) \in 1..Len(t) /\ t[i - Len(s)] = e
      BY <1>1, <1>4, <2>2
    <3> QED
      BY <3>1 DEF Contains
  <2> QED
    BY <1>1, <2>1, <2>2
<1> QED
  BY <1>1, <1>2, <1>3, <1>4 DEF Contains

LEMMA RecordedList ==
  ASSUME NEW S, NEW s \in Seq(S), NEW events \in SUBSET S, IsFiniteSet(events)
  PROVE  /\ Recorded(s, events) \in Lists(S)
         /\ \A e : Contains(Recorded(s, events), e) => Contains(s, e) \/ e \in events
<1> DEFINE new == {e \in events : ~Contains(s, e)}
           q   == SetToSeq(new)
           all == s \o q
<1>1. new \in SUBSET S /\ IsFiniteSet(new)
  BY FS_Subset
<1>2. q \in Seq(S) /\ \A e : Contains(q, e) <=> e \in new
  <2>1. q \in Seq(new) /\ \A e : Contains(q, e) <=> e \in new
    BY <1>1, SetAsSequence
  <2> QED
    BY <1>1, <2>1
<1> HIDE DEF q
<1>3. all \in Seq(S) /\ \A e : Contains(all, e) <=> Contains(s, e) \/ Contains(q, e)
  BY <1>2, JoinContains
<1> HIDE DEF all
<1>4. Suffix(all) \in Lists(S) /\ \A e : Contains(Suffix(all), e) => Contains(all, e)
  BY <1>3, SuffixList
<1>5. Recorded(s, events) = Suffix(all)
  BY DEF Recorded, all, q
<1> QED
  BY <1>2, <1>3, <1>4, <1>5

-----------------------------------------------------------------------------
(* What the agent keeps, and what it knows in a round.                     *)

Problems == (Jobs \X Reasons) \union {Starvation}
Verdicts == [severity : Severities, notify : BOOLEAN, about : Jobs \union {System},
             kind : {"none", "coverage_stall", "resource", "ai_review"}]
Incidents == [key : Keys, delivered : BOOLEAN, severity : Severities]
Views == [health : Keys, review : {"works", "fails"}]

PCs == {"rest", "ask", "notices", "noticed", "findings", "found", "judgments", "judged",
        "alert", "alerted", "recovered", "reviewing", "reviewTold"}
Asked == PCs \ {"rest", "ask", "reviewing", "reviewTold"}

Rounds ==
  [problems : SUBSET Problems, runnable : BOOLEAN, findings : SUBSET Findings,
   judgments : SUBSET Judgments, notices : SUBSET Notices, verdict : Verdicts,
   recovered : SUBSET Jobs, handled : BOOLEAN, sending : SUBSET (Events \union ReviewMessages),
   acked : SUBSET Judgments, delivered : BOOLEAN]

Held(s) == IsFiniteSet(s.digests) /\ Cardinality(s.digests) + s.others <= DigestLimit

Serious(incident) == incident.key[1] = "deterministic" => incident.severity # "healthy"

MemoryOK(s) ==
  /\ s \in Memories /\ Serious(s.incident) /\ Held(s)
  /\ Len(s.findings) <= KeyLimit /\ Len(s.judged) <= KeyLimit

\* The verdict of a round is an opinion, but for whether it notifies.
Opined(verdict) ==
  \E o \in Opinions : verdict.severity = o.severity /\ verdict.about = o.about /\ verdict.kind = o.kind

WorldOK ==
  /\ problems \subseteq Jobs \X Reasons /\ runnable \in BOOLEAN /\ opinion \in Opinions
  /\ reviewer \in BOOLEAN /\ produced \subseteq Events /\ IsFiniteSet(produced)

MemOK == MemoryOK(mem) /\ MemoryOK(disk)

\* What is being sent is what the round has to tell.
SendingOK ==
  /\ pc = "noticed" => \E e \in round.notices : round.sending = {e}
  /\ pc = "found" => round.sending = round.findings
  /\ pc = "judged" => \E e \in round.judgments : round.sending = {e}
  /\ pc \in {"alerted", "recovered"} => round.sending = {}
  /\ pc \in {"reviewing", "reviewTold"} => \E m \in ReviewMessages : round.sending = {m}

RoundOK ==
  /\ pc \in PCs /\ round \in Rounds /\ (pc \in Asked => Opined(round.verdict))
  /\ IsFiniteSet(round.findings) /\ IsFiniteSet(round.acked)
  /\ SendingOK

OperatorOK ==
  /\ view \in Views /\ told \in [Events -> 0..Often] /\ again \in 0..Often
  /\ faults \in Nat /\ stopping \in BOOLEAN

ForgottenOK == forgotten \in [Events -> 0..Often]

TypeInv == WorldOK /\ MemOK /\ RoundOK /\ OperatorOK /\ ForgottenOK

LEMMA MemoryUpdates ==
  ASSUME NEW s, MemoryOK(s), NEW b \in BOOLEAN
  PROVE  /\ MemoryOK([s EXCEPT !.starving = b]) /\ MemoryOK([s EXCEPT !.searched = b])
         /\ \A n \in 0..Threshold : MemoryOK([s EXCEPT !.failures = n])
         /\ \A d \in SUBSET s.digests : MemoryOK([s EXCEPT !.review_down = b, !.digests = d])
         /\ \A l \in Lists(Findings) : MemoryOK([s EXCEPT !.findings = l])
         /\ \A l \in Lists(Judgments) : MemoryOK([s EXCEPT !.judged = l])
         /\ \A i \in Incidents : Serious(i) => MemoryOK([s EXCEPT !.incident = i])
<1> USE DEF MemoryOK, Memories, Held
<1>1. MemoryOK([s EXCEPT !.starving = b])
  OBVIOUS
<1>2. MemoryOK([s EXCEPT !.searched = b])
  OBVIOUS
<1>3. ASSUME NEW n \in 0..Threshold PROVE MemoryOK([s EXCEPT !.failures = n])
  OBVIOUS
<1>4. ASSUME NEW d \in SUBSET s.digests PROVE MemoryOK([s EXCEPT !.review_down = b, !.digests = d])
  <2>1. IsFiniteSet(d) /\ Cardinality(d) <= Cardinality(s.digests)
    BY FS_Subset
  <2>2. Cardinality(d) \in Nat /\ Cardinality(s.digests) \in Nat /\ s.others \in Nat /\ DigestLimit \in Nat
    BY <2>1, FS_CardinalityType, AlertConstants
  <2>3. Cardinality(d) + s.others <= DigestLimit /\ d \in SUBSET Deduplicated
    BY <2>1, <2>2
  <2> DEFINE t == [s EXCEPT !.review_down = b, !.digests = d]
  <2>4. /\ t \in Memories /\ t.digests = d /\ t.others = s.others /\ t.incident = s.incident
        /\ t.findings = s.findings /\ t.judged = s.judged
    BY <2>3
  <2> HIDE DEF t
  <2>5. MemoryOK(t)
    BY <2>1, <2>3, <2>4
  <2> QED
    BY <2>5 DEF t
<1>6. ASSUME NEW l \in Lists(Findings) PROVE MemoryOK([s EXCEPT !.findings = l])
  BY DEF Lists
<1>7. ASSUME NEW l \in Lists(Judgments) PROVE MemoryOK([s EXCEPT !.judged = l])
  BY DEF Lists
<1>8. ASSUME NEW i \in Incidents, Serious(i) PROVE MemoryOK([s EXCEPT !.incident = i])
  BY <1>8 DEF Incidents
<1> HIDE DEF MemoryOK, Memories
<1> QED
  BY <1>1, <1>2, <1>3, <1>4, <1>6, <1>7, <1>8

LEMMA MemoryFields ==
  ASSUME NEW s, MemoryOK(s)
  PROVE  /\ s.incident \in Incidents /\ Serious(s.incident) /\ s.starving \in BOOLEAN
         /\ s.failures \in 0..Threshold /\ s.searched \in BOOLEAN /\ s.review_down \in BOOLEAN
         /\ s.digests \in SUBSET Deduplicated /\ s.others \in 0..DigestLimit /\ Held(s)
         /\ s.findings \in Lists(Findings) /\ s.judged \in Lists(Judgments)
BY DEF MemoryOK, Memories, Incidents, Lists

\* What filing a digest leaves as it was: all but the digests, of which at most
\* one new one comes and stays.
FiledFrom(s, t, sending) ==
  /\ MemoryOK(t)
  /\ t.incident = s.incident /\ t.starving = s.starving /\ t.failures = s.failures
  /\ t.searched = s.searched /\ t.review_down = s.review_down
  /\ t.findings = s.findings /\ t.judged = s.judged
  /\ t.digests \subseteq s.digests \union (sending \intersect Deduplicated)
  /\ (sending \intersect Deduplicated) \ s.digests \subseteq t.digests

LEMMA KeptStates ==
  ASSUME NEW s, MemoryOK(s), NEW new \in SUBSET Deduplicated, NEW m \in {0, 1},
         IF m = 1 THEN new = {} ELSE \E x : new = {x},
         NEW t \in Kept(s, s.digests \union new, s.others + m)
  PROVE  FiledFrom(s, t, new)
<1> DEFINE named == s.digests \union new
           others == s.others + m
<1>1. /\ s \in Memories /\ s.digests \in SUBSET Deduplicated /\ s.others \in Nat /\ DigestLimit \in Nat \ {0}
      /\ IsFiniteSet(s.digests) /\ Cardinality(s.digests) + s.others <= DigestLimit
  BY MemoryFields, AlertConstants DEF MemoryOK, Held
<1>2. /\ IsFiniteSet(named) /\ Cardinality(named) \in Nat /\ Cardinality(s.digests) \in Nat
      /\ Cardinality(named) + others <= Cardinality(s.digests) + s.others + 1
      /\ \A d \in s.digests : Cardinality(named \ {d}) = Cardinality(named) - 1 /\ IsFiniteSet(named \ {d})
      /\ new \subseteq s.digests => Cardinality(named) + others <= DigestLimit \/ m = 1
  <2>1. CASE m = 1
    <3>1. named = s.digests /\ others = s.others + 1
      BY <2>1
    <3> HIDE DEF named
    <3> QED
      BY <1>1, <2>1, <3>1, FS_CardinalityType, FS_RemoveElement
  <2>2. CASE m = 0
    <3>1. PICK x : new = {x}
      BY <2>2
    <3>2. /\ IsFiniteSet(named) /\ Cardinality(named) \in Nat /\ Cardinality(s.digests) \in Nat
          /\ Cardinality(named) = Cardinality(s.digests) \/ Cardinality(named) = Cardinality(s.digests) + 1
          /\ x \in s.digests => Cardinality(named) = Cardinality(s.digests)
      BY <1>1, <3>1, FS_CardinalityType, FS_AddElement
    <3>3. others = s.others
      BY <1>1, <2>2
    <3>4. \A d \in s.digests : d \in named
      OBVIOUS
    <3> HIDE DEF named, others
    <3> QED
      BY <1>1, <3>1, <3>2, <3>3, <3>4, FS_RemoveElement
  <2> QED
    BY <2>1, <2>2
<1>3. others \in Nat /\ (others > DigestLimit => m = 1 /\ s.others >= 1)
  BY <1>1, <1>2
<1>4. CASE t = [s EXCEPT !.digests = named, !.others = others] /\ Cardinality(named) + others <= DigestLimit
  <2>1. t.digests = named /\ t.others = others /\ others \in 0..DigestLimit
    BY <1>1, <1>2, <1>3, <1>4 DEF Memories
  <2> HIDE DEF named, others
  <2>2. Held(t)
    BY <1>2, <1>4, <2>1 DEF Held
  <2>3. named \in SUBSET Deduplicated
    BY <1>1 DEF named
  <2>4. MemoryOK(t)
    BY <1>1, <1>4, <2>1, <2>2, <2>3 DEF MemoryOK, Memories
  <2> QED
    BY <1>1, <1>4, <2>1, <2>4 DEF FiledFrom, Memories, named
<1>5. ASSUME NEW d \in s.digests, t = [s EXCEPT !.digests = named \ {d}],
             ~(Cardinality(named) + others <= DigestLimit)
      PROVE  FiledFrom(s, t, new)
  <2>1. t.digests = named \ {d} /\ t.others = s.others
    BY <1>1, <1>5 DEF Memories
  <2>2. Held(t)
    <3> HIDE DEF named, others
    <3>1. /\ Cardinality(named \ {d}) = Cardinality(named) - 1 /\ IsFiniteSet(named \ {d})
          /\ Cardinality(named) <= Cardinality(s.digests) + 1
      BY <1>1, <1>2 DEF others
    <3>2. Cardinality(named \ {d}) + s.others <= DigestLimit
      BY <1>1, <1>2, <3>1
    <3> QED
      BY <2>1, <3>1, <3>2 DEF Held
  <2>3. named \ {d} \in SUBSET Deduplicated
    BY <1>1
  <2>4. MemoryOK(t)
    BY <1>1, <1>5, <2>1, <2>2, <2>3 DEF MemoryOK, Memories
  <2>5. new \ s.digests \subseteq named \ {d}
    OBVIOUS
  <2> QED
    BY <1>1, <1>5, <2>1, <2>4, <2>5 DEF FiledFrom, Memories, named
<1>6. ASSUME s.others >= 1, t = [s EXCEPT !.digests = named, !.others = others - 1],
             ~(Cardinality(named) + others <= DigestLimit)
      PROVE  FiledFrom(s, t, new)
  <2>1. t.digests = named /\ t.others = others - 1
    BY <1>1, <1>6 DEF Memories
  <2>2. Held(t) /\ others - 1 \in 0..DigestLimit
    <3> HIDE DEF named, others
    <3>1. Cardinality(named) + (others - 1) <= DigestLimit /\ others - 1 \in Nat
      BY <1>1, <1>2, <1>3, <1>6 DEF others
    <3> QED
      BY <1>1, <1>2, <2>1, <3>1 DEF Held
  <2>3. named \in SUBSET Deduplicated
    BY <1>1
  <2>4. MemoryOK(t)
    BY <1>1, <1>6, <2>1, <2>2, <2>3 DEF MemoryOK, Memories
  <2> QED
    BY <1>1, <1>6, <2>1, <2>4 DEF FiledFrom, Memories, named
<1>7. \/ t = [s EXCEPT !.digests = named, !.others = others] /\ Cardinality(named) + others <= DigestLimit
      \/ /\ ~(Cardinality(named) + others <= DigestLimit)
         /\ \/ \E d \in s.digests : t = [s EXCEPT !.digests = named \ {d}]
            \/ s.others >= 1 /\ t = [s EXCEPT !.digests = named, !.others = others - 1]
  <2>1. (\E n \in 1..s.others : TRUE) => s.others >= 1
    BY <1>1
  <2> QED
    BY <1>1, <2>1 DEF Kept
<1> QED
  BY <1>4, <1>5, <1>6, <1>7

LEMMA FiledStates ==
  ASSUME NEW s, MemoryOK(s), NEW sending, sending \intersect Deduplicated # {} => \E x : sending = {x},
         NEW t \in Filed(s, sending)
  PROVE  FiledFrom(s, t, sending)
<1> DEFINE new == sending \intersect Deduplicated
<1>1. CASE new # {}
  <2>1. \E x : new = {x}
    BY <1>1
  <2>2. t \in Kept(s, s.digests \union new, s.others + 0)
    <3>1. s.others + 0 = s.others
      BY MemoryFields
    <3> QED
      BY <1>1, <3>1 DEF Filed
  <2>3. FiledFrom(s, t, new)
    <3>1. 0 \in {0, 1} /\ new \in SUBSET Deduplicated /\ (IF 0 = 1 THEN new = {} ELSE \E x : new = {x})
      BY <2>1
    <3> HIDE DEF new
    <3> QED
      BY <2>2, <3>1, KeptStates
  <2> QED
    BY <2>3 DEF FiledFrom
<1>2. CASE new = {} /\ t = s
  BY <1>2 DEF FiledFrom
<1>3. CASE new = {} /\ t # s
  <2>1. t \in Kept(s, s.digests, s.others + 1)
    BY <1>3 DEF Filed
  <2>2. t \in Kept(s, s.digests \union {}, s.others + 1)
    <3>1. s.digests \union {} = s.digests
      OBVIOUS
    <3> QED
      BY <2>1, <3>1
  <2>3. FiledFrom(s, t, {})
    <3>1. 1 \in {0, 1} /\ {} \in SUBSET Deduplicated /\ (IF 1 = 1 THEN {} = {} ELSE \E x : {} = {x})
      OBVIOUS
    <3> QED
      BY <2>2, <3>1, KeptStates
  <2> QED
    BY <1>3, <2>3 DEF FiledFrom
<1> QED
  BY <1>1, <1>2, <1>3

LEMMA SendDoes ==
  ASSUME TypeInv, NEW sending \in SUBSET (Events \union ReviewMessages), NEW newView \in Views,
         NEW newTold \in [Events -> 0..Often], NEW newAgain \in 0..Often, NEW next,
         Send(sending, newView, newTold, newAgain, next)
  PROVE  /\ pc' = next /\ forgotten' = forgotten
         /\ \E d \in BOOLEAN :
              /\ round' = [round EXCEPT !.sending = sending, !.delivered = d]
              /\ d => /\ ~stopping /\ faults' = faults
                      /\ view' = newView /\ told' = newTold /\ again' = newAgain
              /\ ~d => \/ stopping /\ UNCHANGED <<view, told, again, faults>>
                       \/ faults' = faults + 1 /\ UNCHANGED <<view, told, again>>
                       \/ faults' = faults + 1 /\ view' = newView /\ told' = newTold /\ again' = newAgain
         /\ view' \in Views /\ told' \in [Events -> 0..Often] /\ again' \in 0..Often /\ faults' \in Nat
<1>1. PICK outcome \in SendOutcomes :
        /\ faults' = IF outcome \in {"lost", "doubt"} THEN faults + 1 ELSE faults
        /\ unsure' = (unsure \/ outcome = "doubt")
        /\ IF outcome \in {"ok", "doubt"}
             THEN view' = newView /\ told' = newTold /\ again' = newAgain
             ELSE UNCHANGED operator
        /\ round' = [round EXCEPT !.sending = sending, !.delivered = outcome = "ok"]
        /\ pc' = next /\ UNCHANGED forgotten
  BY DEF Send
<1>2. outcome \in {"ok", "lost", "doubt", "stopped"} /\ (stopping <=> outcome = "stopped")
  BY DEF SendOutcomes
<1>3. faults \in Nat /\ view \in Views /\ told \in [Events -> 0..Often] /\ again \in 0..Often
  BY DEF TypeInv, OperatorOK
<1>4. ASSUME NEW d \in BOOLEAN, d <=> outcome = "ok"
      PROVE  /\ round' = [round EXCEPT !.sending = sending, !.delivered = d]
             /\ d => /\ ~stopping /\ faults' = faults
                     /\ view' = newView /\ told' = newTold /\ again' = newAgain
             /\ ~d => \/ stopping /\ UNCHANGED <<view, told, again, faults>>
                      \/ faults' = faults + 1 /\ UNCHANGED <<view, told, again>>
                      \/ faults' = faults + 1 /\ view' = newView /\ told' = newTold /\ again' = newAgain
  <2>1. d = (outcome = "ok")
    BY <1>4
  <2>2. round' = [round EXCEPT !.sending = sending, !.delivered = d]
    BY <1>1, <2>1
  <2>3. d => /\ ~stopping /\ faults' = faults
             /\ view' = newView /\ told' = newTold /\ again' = newAgain
    BY <1>1, <1>2, <1>4
  <2>4. ~d => \/ stopping /\ UNCHANGED <<view, told, again, faults>>
              \/ faults' = faults + 1 /\ UNCHANGED <<view, told, again>>
              \/ faults' = faults + 1 /\ view' = newView /\ told' = newTold /\ again' = newAgain
    BY <1>1, <1>2, <1>4 DEF operator
  <2> QED
    BY <2>2, <2>3, <2>4
<1>5. /\ pc' = next /\ forgotten' = forgotten
      /\ view' \in Views /\ told' \in [Events -> 0..Often] /\ again' \in 0..Often /\ faults' \in Nat
  BY <1>1, <1>2, <1>3 DEF operator
<1>6. (outcome = "ok") \in BOOLEAN
  OBVIOUS
<1> QED
  BY <1>4, <1>5, <1>6

LEMMA HeardOK ==
  ASSUME OperatorOK, NEW events
  PROVE  Heard(events) \in [Events -> 0..Often]
BY AlertConstants DEF OperatorOK, Heard

LEMMA IncidentOK ==
  ASSUME RoundOK, pc \in Asked
  PROVE  /\ IncidentKey \in Keys /\ EffectiveSeverity \in Severities
         /\ IncidentKey[1] = "deterministic" => EffectiveSeverity # "healthy"
         /\ IncidentKey # None
<1>1. /\ Remaining \in SUBSET Problems /\ round.verdict \in Verdicts
      /\ \E o \in Opinions : /\ round.verdict.severity = o.severity /\ round.verdict.about = o.about
                             /\ round.verdict.kind = o.kind
  BY DEF RoundOK, Rounds, Remaining, Opined
<1>2. EffectiveSeverity \in Severities /\ (Remaining # {} => EffectiveSeverity # "healthy")
  BY <1>1 DEF EffectiveSeverity, Verdicts, Severities
<1>3. CASE Remaining # {}
  <2>1. IncidentKey = <<"deterministic", Remaining>>
    BY <1>3 DEF IncidentKey
  <2>2. <<"deterministic", Remaining>> \in Keys
    BY <1>1 DEF Keys, Problems
  <2>3. <<"deterministic", Remaining>> # None
    BY DEF None
  <2> QED
    BY <1>2, <1>3, <2>1, <2>2, <2>3
<1>4. CASE Remaining = {}
  <2>1. PICK o \in Opinions : /\ round.verdict.severity = o.severity /\ round.verdict.about = o.about
                              /\ round.verdict.kind = o.kind
    BY <1>1
  <2>2. IncidentKey = <<"ai", o.severity, o.about, o.kind>>
    BY <1>4, <2>1 DEF IncidentKey
  <2>3. <<"ai", o.severity, o.about, o.kind>> \in Keys
    BY DEF Keys
  <2>4. /\ <<"ai", o.severity, o.about, o.kind>> # None
        /\ <<"ai", o.severity, o.about, o.kind>>[1] # "deterministic"
    BY DEF None
  <2> QED
    BY <1>2, <2>2, <2>3, <2>4
<1> QED
  BY <1>3, <1>4

-----------------------------------------------------------------------------
(* Type correctness.                                                       *)

Sends == SendNotice \/ SendFindings \/ SendJudgment \/ SendAlert \/ SendRecovery \/ TellReview

LEMMA InitType ==
  ASSUME Init
  PROVE  TypeInv
<1>1. WorldOK
  <2>1. IsFiniteSet({})
    BY FS_EmptySet
  <2> QED
    BY <2>1 DEF Init, WorldOK
<1>2. NoIncident \in Incidents /\ Serious(NoIncident)
  BY DEF NoIncident, Incidents, Serious, None, Keys, Severities
<1>3. MemOK
  <2>1. KeyLimit \in Nat /\ Threshold \in Nat /\ DigestLimit \in Nat
    BY AlertConstants
  <2>2. /\ FreshState.findings = <<>> /\ FreshState.judged = <<>> /\ FreshState.incident = NoIncident
        /\ FreshState.digests = {} /\ FreshState.others = 0 /\ FreshState \in Memories
    BY <1>2, <2>1 DEF FreshState, Memories, Incidents
  <2>4. IsFiniteSet({}) /\ Cardinality({}) = 0
    BY FS_EmptySet
  <2>5. Held(FreshState)
    BY <2>1, <2>2, <2>4 DEF Held
  <2>3. MemoryOK(FreshState)
    BY <1>2, <2>1, <2>2, <2>5 DEF MemoryOK
  <2> QED
    BY <2>3 DEF Init, MemOK
<1>4. NoRound \in Rounds
  BY DEF NoRound, Rounds, NoVerdict, Verdicts, Severities
<1>5. RoundOK
  <2>1. pc = "rest" /\ round = NoRound
    BY DEF Init
  <2>2. SendingOK
    BY <2>1 DEF SendingOK
  <2>3. IsFiniteSet({}) /\ NoRound.findings = {} /\ NoRound.acked = {}
    BY FS_EmptySet DEF NoRound
  <2> QED
    BY <1>4, <2>1, <2>2, <2>3 DEF RoundOK, PCs, Asked
<1>6. OperatorOK
  <2>1. None \in Keys
    BY DEF Keys
  <2>2. told \in [Events -> 0..Often] /\ again \in 0..Often /\ faults \in Nat
    BY AlertConstants DEF Init
  <2>3. view \in Views
    BY <2>1 DEF Init, Views
  <2> QED
    BY <2>2, <2>3 DEF Init, OperatorOK
<1>7. ForgottenOK
  BY AlertConstants DEF Init, ForgottenOK
<1> QED
  BY <1>1, <1>3, <1>5, <1>6, <1>7 DEF TypeInv

LEMMA WorldStep ==
  ASSUME TypeInv, Next
  PROVE  WorldOK'
<1> USE DEF TypeInv, WorldOK
<1>1. CASE UNCHANGED world
  BY <1>1 DEF world
<1>2. CASE Improve
  BY <1>2 DEF Improve
<1>3. CASE JobChanges
  <2>1. UNCHANGED <<runnable, opinion, reviewer, produced>>
    BY <1>3 DEF JobChanges
  <2>2. PICK j \in Jobs, reason \in Reasons \union {"fine"} :
          problems' = {p \in problems : p[1] # j} \union (IF reason = "fine" THEN {} ELSE {<<j, reason>>})
    BY <1>3 DEF JobChanges
  <2>3. problems' \subseteq Jobs \X Reasons
    BY <2>2
  <2> QED
    BY <2>1, <2>3
<1>4. CASE WorkChanges
  BY <1>4 DEF WorkChanges
<1>5. CASE OpinionChanges
  BY <1>5 DEF OpinionChanges
<1>6. CASE ReviewerChanges
  BY <1>6 DEF ReviewerChanges
<1>7. CASE EventAppears
  <2>1. PICK e \in Events \ produced : produced' = produced \union {e}
    BY <1>7 DEF EventAppears
  <2>2. IsFiniteSet(produced')
    BY <2>1, FS_AddElement
  <2> QED
    BY <1>7, <2>1, <2>2 DEF EventAppears
<1>10. CASE EventVanishes
  <2>1. PICK e \in produced : produced' = produced \ {e}
    BY <1>10 DEF EventVanishes
  <2>2. IsFiniteSet(produced')
    BY <2>1, FS_RemoveElement
  <2> QED
    BY <1>10, <2>1, <2>2 DEF EventVanishes
<1>11. CASE OtherMessage
  BY <1>11 DEF OtherMessage
<1> HIDE DEF TypeInv, WorldOK
<1>8. CASE Monitor \/ ReviewSteps \/ Discovered \/ Restart
  BY <1>1, <1>2, <1>8 DEF Monitor, ReviewSteps, Look, Abandon, Ask, SendNotice, RecordNotice, SendFindings,
     SendJudgment, RecordJudgment, RecordJudgments, Suppress, SendAlert, RecordAlert,
     RecordFindings, KeepFindings,
     SendRecovery, RecordRecovery, Quiet, ReviewFails, ReviewRecovers, TellReview, RecordReview,
     Discovered, Restart
<1>9. CASE CooldownRunsOut \/ Stop \/ Crash
  BY <1>1, <1>9 DEF CooldownRunsOut, Stop, Crash
<1> QED
  BY <1>3, <1>4, <1>5, <1>6, <1>7, <1>8, <1>9, <1>10, <1>11 DEF Next, Environment

\* What is sent from where.
Message(sending, next) ==
  \/ pc = "notices" /\ next = "noticed" /\ \E e \in round.notices : sending = {e}
  \/ pc = "findings" /\ next = "found" /\ sending = round.findings
  \/ pc = "judgments" /\ next = "judged" /\ \E e \in round.judgments : sending = {e}
  \/ pc = "alert" /\ next \in {"alerted", "recovered"} /\ sending = {}
  \/ pc = "reviewing" /\ next = "reviewTold" /\ sending = round.sending

LEMMA SendStep ==
  ASSUME TypeInv, Sends
  PROVE  /\ OperatorOK' /\ mem' = mem /\ disk' = disk /\ stopping' = stopping
         /\ forgotten' = forgotten
         /\ \/ round' = round /\ pc = "reviewing" /\ pc' = "reviewTold"
            \/ \E sending \in SUBSET (Events \union ReviewMessages), d \in BOOLEAN :
                 /\ round' = [round EXCEPT !.sending = sending, !.delivered = d]
                 /\ Message(sending, pc')
<1> USE DEF Message
<1> DEFINE Result(sending, from, next) ==
             /\ forgotten' = forgotten /\ pc = from /\ pc' = next
             /\ \E d \in BOOLEAN : round' = [round EXCEPT !.sending = sending, !.delivered = d]
             /\ view' \in Views /\ told' \in [Events -> 0..Often] /\ again' \in 0..Often /\ faults' \in Nat
<1>1. /\ round \in Rounds /\ view \in Views /\ told \in [Events -> 0..Often] /\ again \in 0..Often
      /\ RoundOK /\ OperatorOK /\ view.health \in Keys /\ faults \in Nat
  BY DEF TypeInv, RoundOK, OperatorOK, Views
<1>2. mem' = mem /\ disk' = disk /\ stopping' = stopping /\ stopping \in BOOLEAN
  BY <1>1 DEF Sends, SendNotice, SendFindings, SendJudgment, SendAlert, SendRecovery, TellReview, OperatorOK
<1>3. /\ \A e \in round.notices \union round.judgments : {e} \in SUBSET (Events \union ReviewMessages)
      /\ round.findings \in SUBSET (Events \union ReviewMessages)
      /\ round.sending \in SUBSET (Events \union ReviewMessages)
      /\ {} \in SUBSET (Events \union ReviewMessages)
  BY <1>1 DEF Rounds, Events
<1>4. CASE SendNotice
  <2>1. PICK e \in round.notices : Send({e}, view, Heard({e}), again, "noticed") /\ pc = "notices"
    BY <1>4 DEF SendNotice
  <2>2. Result({e}, "notices", "noticed")
    BY <1>1, <1>3, <2>1, HeardOK, SendDoes
  <2> QED
    BY <1>2, <1>3, <2>1, <2>2 DEF OperatorOK
<1>5. CASE SendFindings
  <2>1. Send(round.findings, view, Heard(round.findings), again, "found") /\ pc = "findings"
    BY <1>5 DEF SendFindings
  <2>2. Result(round.findings, "findings", "found")
    BY <1>1, <1>3, <2>1, HeardOK, SendDoes
  <2> QED
    BY <1>2, <1>3, <2>2 DEF OperatorOK
<1>6. CASE SendJudgment
  <2>1. PICK e \in round.judgments : Send({e}, view, Heard({e}), again, "judged") /\ pc = "judgments"
    BY <1>6 DEF SendJudgment
  <2>2. Result({e}, "judgments", "judged")
    BY <1>1, <1>3, <2>1, HeardOK, SendDoes
  <2> QED
    BY <1>2, <1>3, <2>1, <2>2 DEF OperatorOK
<1>7. CASE SendAlert
  <2> DEFINE more == IF view.health = IncidentKey /\ again < Often THEN again + 1 ELSE again
             new  == [view EXCEPT !.health = IncidentKey]
  <2>1. Send({}, new, told, more, "alerted") /\ pc = "alert"
    BY <1>7 DEF SendAlert
  <2>2. IncidentKey \in Keys
    BY <1>1, <2>1, IncidentOK DEF Asked, PCs
  <2>3. new \in Views /\ more \in 0..Often
    BY <1>1, <2>2, AlertConstants DEF Views
  <2> HIDE DEF new, more
  <2>4. Result({}, "alert", "alerted")
    BY <1>1, <1>3, <2>1, <2>3, SendDoes
  <2> QED
    BY <1>2, <1>3, <2>4 DEF OperatorOK
<1>8. CASE SendRecovery
  <2> DEFINE new == [view EXCEPT !.health = None]
  <2>1. Send({}, new, told, again, "recovered") /\ pc = "alert"
    BY <1>8 DEF SendRecovery
  <2>2. new \in Views
    BY <1>1 DEF Views, Keys
  <2> HIDE DEF new
  <2>3. Result({}, "alert", "recovered")
    BY <1>1, <1>3, <2>1, <2>2, SendDoes
  <2> QED
    BY <1>2, <1>3, <2>3 DEF OperatorOK
<1>9. CASE TellReview
  <2> DEFINE new == [view EXCEPT !.review = IF mem.review_down THEN "fails" ELSE "works"]
  <2>1. /\ pc = "reviewing"
        /\ \/ pc' = "reviewTold" /\ UNCHANGED <<round, operator, disturbed>>
           \/ Send(round.sending, new, told, again, "reviewTold")
    BY <1>9 DEF TellReview
  <2>2. new \in Views
    BY <1>1 DEF Views
  <2> HIDE DEF new
  <2>3. CASE pc' = "reviewTold" /\ UNCHANGED <<round, operator, disturbed>>
    BY <1>1, <1>2, <2>1, <2>3 DEF OperatorOK, operator, disturbed
  <2>4. CASE Send(round.sending, new, told, again, "reviewTold")
    <3>1. Result(round.sending, "reviewing", "reviewTold")
      BY <1>1, <1>3, <2>1, <2>2, <2>4, SendDoes
    <3> QED
      BY <1>2, <1>3, <3>1 DEF OperatorOK
  <2> QED
    BY <2>1, <2>3, <2>4
<1> QED
  BY <1>4, <1>5, <1>6, <1>7, <1>8, <1>9 DEF Sends

\* What the record of a message may leave of the state.
Answered == {"noticed", "found", "judged", "alerted", "recovered", "reviewTold"}

LEMMA NotedStates ==
  ASSUME TypeInv, pc \in Answered, NEW t \in Noted
  PROVE  FiledFrom(mem, t, IF round.delivered THEN round.sending ELSE {})
<1>1. MemoryOK(mem) /\ round \in Rounds /\ SendingOK
  BY DEF TypeInv, MemOK, RoundOK
<1>2. round.sending \intersect Deduplicated # {} => \E x : round.sending = {x}
  <2>1. CASE pc = "found"
    <3>1. round.sending \subseteq Findings
      BY <1>1, <2>1 DEF SendingOK, Rounds
    <3>2. Findings \intersect Deduplicated = {}
      BY AlertConstants DEF Deduplicated, Events
    <3> QED
      BY <3>1, <3>2
  <2>2. CASE pc # "found"
    BY <1>1, <2>2 DEF SendingOK, Answered
  <2> QED
    BY <2>1, <2>2
<1>3. CASE round.delivered
  BY <1>1, <1>2, <1>3, FiledStates DEF Noted
<1>4. CASE ~round.delivered
  <2>1. t = mem
    BY <1>4 DEF Noted
  <2> QED
    BY <1>1, <1>4, <2>1 DEF FiledFrom
<1> QED
  BY <1>3, <1>4

\* What the agent keeps and what it writes stays a state it may have.
LEMMA MemStep ==
  ASSUME TypeInv, Next
  PROVE  MemOK'
<1>1. MemoryOK(mem) /\ MemoryOK(disk) /\ round \in Rounds /\ WorldOK
  BY DEF TypeInv, MemOK, RoundOK
<1>2. /\ mem.incident \in Incidents /\ Serious(mem.incident) /\ mem.starving \in BOOLEAN
      /\ mem.failures \in 0..Threshold /\ mem.searched \in BOOLEAN /\ mem.review_down \in BOOLEAN
      /\ mem.digests \in SUBSET Deduplicated
      /\ mem.findings \in Lists(Findings) /\ mem.judged \in Lists(Judgments)
  BY <1>1, MemoryFields
<1>3. Threshold \in Nat \ {0}
  BY AlertConstants
<1>4. \A t : (t = mem \/ t = disk) => MemoryOK(t)
  BY <1>1
<1>5. CASE Look
  <2>1. mem' = [mem EXCEPT !.starving = Starves] /\ (disk' = mem' \/ disk' = disk)
    BY <1>5 DEF Look
  <2>2. Starves \in BOOLEAN
    BY <1>1, <1>2 DEF Starves, WorldOK
  <2> QED
    BY <1>1, <2>1, <2>2, MemoryUpdates DEF MemOK
<1>6. CASE Ask
  <2> DEFINE failures == IF mem.failures < Threshold THEN mem.failures + 1 ELSE Threshold
             kept     == IF opinion.kind = "ai_review" THEN failures ELSE 0
  <2>1. mem' = [mem EXCEPT !.failures = kept] /\ disk' = disk
    BY <1>6 DEF Ask
  <2>2. kept \in 0..Threshold
    BY <1>2, <1>3
  <2> HIDE DEF kept
  <2> QED
    BY <1>1, <2>1, <2>2, MemoryUpdates DEF MemOK
<1>7. CASE RecordNotice \/ RecordJudgment \/ RecordReview
  <2>1. mem' \in Noted /\ (disk' = mem' \/ disk' = disk) /\ pc \in Answered
    BY <1>7 DEF RecordNotice, RecordJudgment, RecordReview, RecordDigest, Answered
  <2>2. PICK t : t = mem'
    OBVIOUS
  <2>3. MemoryOK(t)
    BY <2>1, <2>2, NotedStates DEF FiledFrom
  <2> QED
    BY <1>1, <2>1, <2>2, <2>3 DEF MemOK
<1>8. CASE RecordFindings
  <2>1. PICK noted \in Noted :
          /\ mem' = IF round.delivered
                      THEN [noted EXCEPT !.findings = Recorded(@, round.sending)] ELSE noted
          /\ disk' = noted \/ disk' = disk
    BY <1>8 DEF RecordFindings, KeepFindings
  <2>2. pc = "found"
    BY <1>8 DEF RecordFindings, KeepFindings
  <2>3. MemoryOK(noted) /\ noted.findings \in Lists(Findings)
    BY <2>2, NotedStates, MemoryFields DEF FiledFrom, Answered
  <2>4. round.sending \in SUBSET Findings /\ IsFiniteSet(round.sending)
    BY <1>1, <2>2 DEF TypeInv, RoundOK, SendingOK, Rounds
  <2>5. Recorded(noted.findings, round.sending) \in Lists(Findings)
    BY <2>3, <2>4, RecordedList DEF Lists
  <2>6. MemoryOK([noted EXCEPT !.findings = Recorded(noted.findings, round.sending)])
    BY <2>3, <2>5, MemoryUpdates
  <2>7. MemoryOK(mem')
    BY <2>1, <2>3, <2>6
  <2> QED
    BY <1>1, <2>1, <2>3, <2>7 DEF MemOK
<1>9. CASE RecordJudgments
  <2>1. mem' = [mem EXCEPT !.judged = Recorded(@, round.acked)] /\ disk' = disk
    BY <1>9 DEF RecordJudgments
  <2>2. round.acked \in SUBSET Judgments /\ IsFiniteSet(round.acked)
    BY <1>1 DEF TypeInv, RoundOK, Rounds
  <2>3. Recorded(mem.judged, round.acked) \in Lists(Judgments)
    BY <1>2, <2>2, RecordedList DEF Lists
  <2> QED
    BY <1>1, <2>1, <2>3, MemoryUpdates DEF MemOK
<1>10. CASE RecordAlert
  <2> DEFINE new == [key |-> IncidentKey, delivered |-> round.delivered, severity |-> EffectiveSeverity]
  <2>1. PICK noted \in Noted : mem' = [noted EXCEPT !.incident = new] /\ disk' = mem'
    BY <1>10 DEF RecordAlert, Finish
  <2>2. pc = "alerted"
    BY <1>10 DEF RecordAlert
  <2>3. /\ IncidentKey \in Keys /\ EffectiveSeverity \in Severities /\ round.delivered \in BOOLEAN
        /\ IncidentKey[1] = "deterministic" => EffectiveSeverity # "healthy"
    BY <1>1, <2>2, IncidentOK DEF TypeInv, Asked, PCs, Rounds
  <2>4. new \in Incidents /\ Serious(new)
    BY <2>3 DEF Incidents, Serious
  <2>5. MemoryOK(noted)
    BY <2>2, NotedStates DEF FiledFrom, Answered
  <2> HIDE DEF new
  <2> QED
    BY <2>1, <2>4, <2>5, MemoryUpdates DEF MemOK
<1>11. CASE RecordRecovery
  <2>1. PICK noted \in Noted :
          /\ mem' = (IF round.delivered THEN [noted EXCEPT !.incident = NoIncident] ELSE noted)
          /\ disk' = mem'
    BY <1>11 DEF RecordRecovery, Finish
  <2>2. pc = "recovered"
    BY <1>11 DEF RecordRecovery
  <2>3. MemoryOK(noted)
    BY <2>2, NotedStates DEF FiledFrom, Answered
  <2>4. NoIncident \in Incidents /\ Serious(NoIncident)
    BY DEF NoIncident, Incidents, Serious, None, Keys, Severities
  <2> QED
    BY <2>1, <2>3, <2>4, MemoryUpdates DEF MemOK
<1>12. CASE Quiet
  <2>1. (mem' = mem \/ mem' = [mem EXCEPT !.incident = NoIncident]) /\ disk' = mem'
    BY <1>12 DEF Quiet, Finish
  <2>2. NoIncident \in Incidents /\ Serious(NoIncident)
    BY DEF NoIncident, Incidents, Serious, None, Keys, Severities
  <2>3. MemoryOK([mem EXCEPT !.incident = NoIncident])
    BY <1>1, <2>2, MemoryUpdates
  <2> QED
    BY <1>1, <2>1, <2>3 DEF MemOK
<1>13. CASE ReviewFails \/ ReviewRecovers
  <2>1. \E d \in SUBSET mem.digests, b \in BOOLEAN :
          mem' = [mem EXCEPT !.review_down = b, !.digests = d] /\ disk' = disk
    <3>1. CASE ReviewFails
      <4> DEFINE d == IF mem.review_down THEN mem.digests ELSE mem.digests \ {"cycle_review_recovered"}
      <4>1. mem' = [mem EXCEPT !.review_down = TRUE, !.digests = d] /\ disk' = disk
        BY <3>1 DEF ReviewFails
      <4>2. d \in SUBSET mem.digests
        OBVIOUS
      <4> HIDE DEF d
      <4> QED
        BY <4>1, <4>2
    <3>2. CASE ReviewRecovers
      <4> DEFINE d == mem.digests \ {"cycle_review_unavailable"}
      <4>1. mem' = [mem EXCEPT !.review_down = FALSE, !.digests = d] /\ disk' = disk
        BY <3>2 DEF ReviewRecovers
      <4>2. d \in SUBSET mem.digests
        OBVIOUS
      <4> HIDE DEF d
      <4> QED
        BY <4>1, <4>2
    <3> QED
      BY <1>13, <3>1, <3>2
  <2>2. PICK d \in SUBSET mem.digests, b \in BOOLEAN :
          mem' = [mem EXCEPT !.review_down = b, !.digests = d] /\ disk' = disk
    BY <2>1
  <2>3. MemoryOK([mem EXCEPT !.review_down = b, !.digests = d])
    BY <1>1, MemoryUpdates
  <2> QED
    BY <1>1, <2>2, <2>3 DEF MemOK
<1>14. CASE OtherMessage
  <2>1. mem' \in Filed(mem, {}) /\ disk' = mem'
    BY <1>14 DEF OtherMessage
  <2>2. PICK t : t = mem'
    OBVIOUS
  <2>3. {} \intersect Deduplicated # {} => \E x : {} = {x}
    OBVIOUS
  <2>4. FiledFrom(mem, t, {})
    BY <1>1, <2>1, <2>2, <2>3, FiledStates
  <2> QED
    BY <2>1, <2>2, <2>4 DEF MemOK, FiledFrom
<1>15. CASE Discovered
  <2>1. mem' = [mem EXCEPT !.searched = TRUE] /\ disk' = mem'
    BY <1>15 DEF Discovered
  <2> QED
    BY <1>1, <2>1, MemoryUpdates DEF MemOK
<1>16. CASE mem' \in {mem, disk} /\ disk' \in {mem, disk}
  BY <1>4, <1>16 DEF MemOK
<1>17. Abandon \/ Improve \/ Suppress \/ Restart \/ Crash \/ Sends => mem' \in {mem, disk} /\ disk' \in {mem, disk}
  BY SendStep DEF Abandon, Improve, Suppress, Finish, Restart, Crash
<1>18. CooldownRunsOut \/ JobChanges \/ WorkChanges \/ OpinionChanges \/ ReviewerChanges \/ EventAppears
         \/ EventVanishes \/ Stop => mem' = mem /\ disk' = disk
  BY DEF CooldownRunsOut, JobChanges, WorkChanges, OpinionChanges, ReviewerChanges, EventAppears,
     EventVanishes, Changes, Stop
<1> QED
  BY <1>5, <1>6, <1>7, <1>8, <1>9, <1>10, <1>11, <1>12, <1>13, <1>14, <1>15, <1>16, <1>17, <1>18
     DEF Next, Monitor, ReviewSteps, Environment, Sends

\* A round that says nothing yet.
LEMMA IdleRound ==
  ASSUME round' = NoRound, pc' = "rest"
  PROVE  RoundOK'
<1>1. NoRound \in Rounds
  BY DEF NoRound, Rounds, NoVerdict, Verdicts, Severities
<1>2. (pc \in Asked)' = FALSE /\ (pc \in PCs)'
  BY DEF Asked, PCs
<1>3. SendingOK'
  BY DEF SendingOK
<1>4. IsFiniteSet({}) /\ NoRound.findings = {} /\ NoRound.acked = {}
  BY FS_EmptySet DEF NoRound
<1> QED
  BY <1>1, <1>2, <1>3, <1>4 DEF RoundOK

\* What a message makes of the round.
LEMMA SentRound ==
  ASSUME RoundOK, NEW sending \in SUBSET (Events \union ReviewMessages), NEW d \in BOOLEAN,
         round' = [round EXCEPT !.sending = sending, !.delivered = d], Message(sending, pc')
  PROVE  RoundOK'
<1>1. /\ round \in Rounds /\ pc \in PCs
      /\ IsFiniteSet(round.findings) /\ IsFiniteSet(round.acked)
  BY DEF RoundOK
<1>2. round' \in Rounds /\ pc' \in PCs
  BY <1>1 DEF Rounds, Message, PCs
<1>3. /\ round'.findings = round.findings /\ round'.judgments = round.judgments
      /\ round'.notices = round.notices /\ round'.acked = round.acked
      /\ round'.verdict = round.verdict /\ round'.sending = sending
  BY <1>1 DEF Rounds
<1>4. pc' \in Asked => Opined(round.verdict)
  BY DEF RoundOK, Message, Asked, PCs
<1>5. SendingOK'
  BY <1>3 DEF RoundOK, SendingOK, Message
<1> QED
  BY <1>1, <1>2, <1>3, <1>4, <1>5 DEF RoundOK, Opined

LEMMA RoundStep ==
  ASSUME TypeInv, Next
  PROVE  RoundOK'
<1>1. /\ round \in Rounds /\ pc \in PCs /\ WorldOK /\ (pc \in Asked => Opined(round.verdict))
      /\ IsFiniteSet(round.findings) /\ IsFiniteSet(round.acked)
      /\ SendingOK /\ RoundOK
  BY DEF TypeInv, RoundOK
<1>3. CASE Look
  <2>1. PICK batch \in SUBSET NewFindings :
          round' = [NoRound EXCEPT !.problems = OperationalProblems(Starves), !.runnable = runnable,
                                   !.findings = batch, !.judgments = NewJudgments]
    BY <1>3 DEF Look
  <2>2. /\ OperationalProblems(Starves) \in SUBSET Problems /\ runnable \in BOOLEAN
        /\ batch \in SUBSET Findings /\ batch \in SUBSET produced
        /\ NewJudgments \in SUBSET Judgments
    BY <1>1 DEF OperationalProblems, Problems, WorldOK, NewFindings, NewJudgments
  <2>7. IsFiniteSet(batch) /\ IsFiniteSet({})
    BY <1>1, <2>2, FS_Subset, FS_EmptySet DEF WorldOK
  <2>3. NoRound \in Rounds /\ NoRound.notices = {} /\ NoRound.acked = {}
    BY DEF NoRound, Rounds, NoVerdict, Verdicts, Severities
  <2>4. /\ round' \in Rounds /\ round'.findings = batch /\ round'.judgments = NewJudgments
        /\ round'.notices = {} /\ round'.acked = {}
    BY <2>1, <2>2, <2>3 DEF Rounds
  <2>5. pc' = "ask"
    BY <1>3 DEF Look
  <2>6. SendingOK'
    BY <2>5 DEF SendingOK
  <2> QED
    BY <2>4, <2>5, <2>6, <2>7 DEF RoundOK, Asked, PCs
<1>4. CASE Ask
  <2> DEFINE failures == IF mem.failures < Threshold THEN mem.failures + 1 ELSE Threshold
             verdict  == IF opinion.kind = "ai_review"
                           THEN [opinion EXCEPT !.notify = failures >= Threshold] ELSE opinion
  <2>1. round' = [round EXCEPT !.verdict = verdict, !.notices = PendingNotices] /\ pc' = "notices"
    BY <1>4 DEF Ask
  <2>2. opinion \in Opinions /\ opinion \in Verdicts
    BY <1>1, AlertConstants DEF WorldOK, Verdicts
  <2>3. /\ verdict \in Verdicts /\ verdict.severity = opinion.severity
        /\ verdict.about = opinion.about /\ verdict.kind = opinion.kind
    <3>1. \A b \in BOOLEAN : LET v == [opinion EXCEPT !.notify = b]
                             IN  /\ v \in Verdicts /\ v.severity = opinion.severity
                                 /\ v.about = opinion.about /\ v.kind = opinion.kind
      BY <2>2 DEF Verdicts
    <3>2. (failures >= Threshold) \in BOOLEAN
      OBVIOUS
    <3> HIDE DEF failures
    <3> QED
      BY <2>2, <3>1, <3>2
  <2>4. Opined(verdict)
    BY <2>2, <2>3 DEF Opined
  <2> HIDE DEF verdict
  <2>5. PendingNotices \in SUBSET Notices
    BY DEF PendingNotices
  <2>6. /\ round' \in Rounds /\ round'.findings = round.findings /\ round'.judgments = round.judgments
        /\ round'.notices = PendingNotices /\ round'.acked = round.acked /\ round'.verdict = verdict
    BY <1>1, <2>1, <2>3, <2>5 DEF Rounds
  <2>7. SendingOK'
    BY <2>1 DEF SendingOK
  <2> QED
    BY <1>1, <2>1, <2>4, <2>5, <2>6, <2>7 DEF RoundOK, Opined, PCs
<1>5. CASE RecordNotice
  <2>1. round' = [round EXCEPT !.notices = @ \ round.sending] /\ pc' = "notices" /\ pc = "noticed"
    BY <1>5 DEF RecordNotice
  <2>2. /\ round' \in Rounds /\ round'.findings = round.findings /\ round'.judgments = round.judgments
        /\ round'.notices \subseteq round.notices /\ round'.acked = round.acked
        /\ round'.verdict = round.verdict
    BY <1>1, <2>1 DEF Rounds
  <2>3. SendingOK'
    BY <2>1 DEF SendingOK
  <2> QED
    BY <1>1, <2>1, <2>2, <2>3 DEF RoundOK, Opined, PCs, Asked
<1>6. CASE Improve
  <2>1. PICK recovered \in SUBSET {p[1] : p \in problems \intersect round.problems}, handled \in BOOLEAN :
          round' = [round EXCEPT !.recovered = recovered, !.handled = handled]
    BY <1>6 DEF Improve
  <2>2. pc = "notices" /\ pc' \in {"findings", "judgments", "alert"}
    BY <1>6 DEF Improve, Judging
  <2>3. recovered \in SUBSET Jobs
    BY <1>1 DEF WorldOK
  <2>4. /\ round' \in Rounds /\ round'.findings = round.findings /\ round'.judgments = round.judgments
        /\ round'.notices = round.notices /\ round'.acked = round.acked
        /\ round'.verdict = round.verdict
    BY <1>1, <2>1, <2>3 DEF Rounds
  <2>5. SendingOK'
    BY <2>2 DEF SendingOK
  <2> QED
    BY <1>1, <2>2, <2>4, <2>5 DEF RoundOK, Opined, PCs, Asked
<1>7. CASE RecordFindings \/ RecordJudgments
  <2>1. round' = round /\ pc \in Asked /\ pc' \in {"judgments", "alert"}
    BY <1>7 DEF RecordFindings, KeepFindings, RecordJudgments, Judging, Asked, PCs
  <2>2. SendingOK'
    BY <2>1 DEF SendingOK
  <2> QED
    BY <1>1, <2>1, <2>2 DEF RoundOK, Opined, PCs, Asked
<1>8. CASE RecordJudgment
  <2>1. /\ pc = "judged" /\ pc' = "judgments"
        /\ round' = [round EXCEPT !.judgments = @ \ round.sending,
                            !.acked = IF round.delivered THEN @ \union round.sending ELSE @]
    BY <1>8 DEF RecordJudgment
  <2>2. round.sending \subseteq round.judgments
    BY <1>1, <2>1 DEF SendingOK
  <2>3. /\ round' \in Rounds /\ round'.findings = round.findings /\ round'.judgments \subseteq round.judgments
        /\ round'.notices = round.notices /\ round'.verdict = round.verdict
        /\ round'.acked = round.acked \/ round'.acked = round.acked \union round.sending
    BY <1>1, <2>1, <2>2 DEF Rounds
  <2>4. SendingOK'
    BY <2>1 DEF SendingOK
  <2>5. PICK e : round.sending = {e}
    BY <1>1, <2>1 DEF SendingOK
  <2>6. IsFiniteSet(round'.acked)
    BY <1>1, <2>3, <2>5, FS_AddElement
  <2> QED
    BY <1>1, <2>1, <2>3, <2>4, <2>6 DEF RoundOK, Opined, PCs, Asked
<1>9. CASE Sends
  <2>1. CASE round' = round /\ pc = "reviewing" /\ pc' = "reviewTold"
    <3>1. SendingOK'
      BY <1>1, <2>1 DEF SendingOK
    <3> QED
      BY <1>1, <2>1, <3>1 DEF RoundOK, Asked, PCs
  <2>2. CASE \E sending \in SUBSET (Events \union ReviewMessages), d \in BOOLEAN :
               /\ round' = [round EXCEPT !.sending = sending, !.delivered = d]
               /\ Message(sending, pc')
    BY <1>1, <2>2, SentRound
  <2> QED
    BY <1>9, <2>1, <2>2, SendStep
<1>10. CASE Abandon \/ Suppress \/ RecordAlert \/ RecordRecovery \/ Quiet \/ RecordReview \/ Crash
  BY <1>10, IdleRound DEF Abandon, Suppress, RecordAlert, RecordRecovery, Quiet, RecordReview, Crash, Finish
<1>11. CASE ReviewFails \/ ReviewRecovers
  <2>1. PICK m \in ReviewMessages : round' = [NoRound EXCEPT !.sending = {m}] /\ pc' = "reviewing"
    BY <1>11 DEF ReviewFails, ReviewRecovers, ReviewMessages
  <2>2. NoRound \in Rounds
    BY DEF NoRound, Rounds, NoVerdict, Verdicts, Severities
  <2>3. round' \in Rounds /\ round'.sending = {m}
    BY <2>1, <2>2 DEF Rounds
  <2>4. round'.findings = {} /\ round'.acked = {} /\ IsFiniteSet({})
    BY <2>1, FS_EmptySet DEF NoRound
  <2>5. SendingOK'
    BY <2>1, <2>3 DEF SendingOK
  <2> QED
    BY <2>1, <2>3, <2>4, <2>5 DEF RoundOK, Asked, PCs
<1>12. CASE UNCHANGED <<pc, round>>
  BY <1>1, <1>12 DEF RoundOK, SendingOK, Opined
<1>13. Discovered \/ Restart \/ CooldownRunsOut \/ JobChanges \/ WorkChanges \/ OpinionChanges
         \/ ReviewerChanges \/ EventAppears \/ EventVanishes \/ OtherMessage \/ Stop => UNCHANGED <<pc, round>>
  BY DEF Discovered, Restart, CooldownRunsOut, JobChanges, WorkChanges, OpinionChanges, ReviewerChanges,
     EventAppears, EventVanishes, OtherMessage, Changes, Stop
<1> QED
  BY <1>3, <1>4, <1>5, <1>6, <1>7, <1>8, <1>9, <1>10, <1>11, <1>12, <1>13
     DEF Next, Monitor, ReviewSteps, Environment, Sends

LEMMA OperatorStep ==
  ASSUME TypeInv, Next
  PROVE  OperatorOK'
<1>1. OperatorOK
  BY DEF TypeInv
<1>2. CASE Sends
  BY <1>2, SendStep
<1>3. CASE UNCHANGED <<view, told, again>> /\ faults' \in {faults, faults + 1} /\ stopping' \in BOOLEAN
  BY <1>1, <1>3 DEF OperatorOK
<1>4. UNCHANGED <<operator, faults, stopping>> => OperatorOK'
  BY <1>1 DEF operator, OperatorOK
<1>5. CASE Look \/ Abandon \/ Ask \/ RecordNotice \/ Improve \/ RecordFindings \/ RecordJudgment \/ RecordJudgments
           \/ Suppress \/ RecordAlert \/ RecordRecovery \/ Quiet
  <2>1. UNCHANGED <<operator, faults, stopping>>
    BY <1>5 DEF Look, Abandon, Ask, RecordNotice, Improve, RecordFindings, KeepFindings, RecordJudgment,
       RecordJudgments, Suppress, RecordAlert, RecordRecovery, Quiet, RecordDigest, Forgets, disturbed
  <2> QED
    BY <1>4, <2>1
<1>6. CASE ReviewRecovers \/ RecordReview \/ Discovered \/ CooldownRunsOut
           \/ JobChanges \/ WorkChanges \/ OpinionChanges \/ ReviewerChanges \/ EventAppears
           \/ EventVanishes \/ OtherMessage
  <2>1. UNCHANGED <<operator, faults, stopping>>
    BY <1>6 DEF ReviewRecovers, RecordReview, Discovered, CooldownRunsOut,
       JobChanges, WorkChanges, OpinionChanges, ReviewerChanges, EventAppears, EventVanishes,
       OtherMessage, Changes, Forgets, disturbed
  <2> QED
    BY <1>4, <2>1
<1>7. CASE ReviewFails \/ Restart \/ Stop \/ Crash
  BY <1>1, <1>3, <1>7 DEF ReviewFails, Restart, Stop, Crash, StopArrives, operator, disturbed, OperatorOK
<1> QED
  BY <1>2, <1>5, <1>6, <1>7 DEF Next, Monitor, ReviewSteps, Environment, Sends

\* The steps after which something may be forgotten.
Files == RecordNotice \/ RecordFindings \/ RecordJudgment \/ RecordJudgments \/ RecordAlert
         \/ RecordRecovery \/ RecordReview \/ OtherMessage

LEMMA OthersForgetNothing ==
  ASSUME TypeInv, Next, ~Files
  PROVE  forgotten' = forgotten
<1>1. CASE Sends
  BY <1>1, SendStep
<1>2. CASE Look \/ Abandon \/ Ask \/ Improve \/ Suppress \/ Quiet \/ ReviewRecovers \/ Discovered \/ Restart
           \/ CooldownRunsOut \/ JobChanges \/ WorkChanges \/ OpinionChanges \/ ReviewerChanges
           \/ EventAppears \/ EventVanishes
  BY <1>2 DEF Look, Abandon, Ask, Improve, Suppress, Quiet, ReviewRecovers, Discovered, Restart,
     CooldownRunsOut, JobChanges, WorkChanges, OpinionChanges, ReviewerChanges, EventAppears,
     EventVanishes, Changes, disturbed
<1>3. CASE ReviewFails \/ Stop \/ Crash
  BY <1>3 DEF ReviewFails, Stop, Crash, StopArrives, disturbed
<1> QED
  BY <1>1, <1>2, <1>3 DEF Next, Monitor, ReviewSteps, Environment, Sends, Files

LEMMA ForgottenStep ==
  ASSUME TypeInv, Next
  PROVE  ForgottenOK'
<1>1. forgotten \in [Events -> 0..Often] /\ Often \in Nat
  BY AlertConstants DEF TypeInv, ForgottenOK
<1>2. ASSUME NEW events, Forgets(events)
      PROVE  ForgottenOK'
  BY <1>1, <1>2 DEF Forgets, ForgottenOK
<1>3. CASE Files
  BY <1>2, <1>3 DEF Files, RecordNotice, RecordFindings, KeepFindings, RecordJudgment, RecordJudgments,
     RecordAlert, RecordRecovery, RecordReview, OtherMessage, RecordDigest
<1>4. CASE ~Files
  BY <1>1, <1>4, OthersForgetNothing DEF ForgottenOK
<1> QED
  BY <1>3, <1>4

LEMMA TypeStep ==
  ASSUME TypeInv, [Next]_vars
  PROVE  TypeInv'
<1>1. CASE Next
  BY <1>1, WorldStep, MemStep, RoundStep, OperatorStep, ForgottenStep DEF TypeInv
<1>2. CASE UNCHANGED vars
  BY <1>2 DEF vars, TypeInv, WorldOK, MemOK, RoundOK, SendingOK, Opined, OperatorOK, ForgottenOK
<1> QED
  BY <1>1, <1>2

\* Whatever happens and however often, what the agent keeps and what it writes is
\* a state of its own making, its lists of recorded keys stay within their limit,
\* and a deterministic problem never goes on record as healthy.
THEOREM TypeCorrect == Spec => []TypeOK
<1>1. Init => TypeInv
  BY InitType
<1>2. TypeInv /\ [Next]_vars => TypeInv'
  BY TypeStep
<1>3. TypeInv => TypeOK
  BY DEF TypeInv, MemOK, MemoryOK, Held, RoundOK, OperatorOK, ForgottenOK, TypeOK, Serious, Rounds,
     Problems, Views
<1> QED
  BY <1>1, <1>2, <1>3, PTL DEF Spec

-----------------------------------------------------------------------------
(* What recording does, whatever finds no room.                             *)

\* What of a message is looked up later by its digest.
Sent == IF pc \in Answered /\ round.delivered THEN round.sending \intersect Deduplicated ELSE {}

\* The keys that come on record.
Listed ==
  IF pc = "found" /\ round.delivered THEN round.sending ELSE IF pc = "judgments" THEN round.acked ELSE {}

LEMMA RecordDoes ==
  ASSUME TypeInv, Files
  PROVE  /\ UNCHANGED <<operator, faults, stopping>> /\ mem'.review_down = mem.review_down
         /\ pc \notin {"alerted", "recovered"} => mem'.incident = mem.incident
         /\ mem'.digests \subseteq mem.digests \union Sent /\ Sent \ mem.digests \subseteq mem'.digests
         /\ mem'.findings = IF pc = "found" THEN (IF round.delivered THEN Recorded(mem.findings, round.sending)
                                                                     ELSE mem.findings) ELSE mem.findings
         /\ mem'.judged = IF pc = "judgments" THEN Recorded(mem.judged, round.acked) ELSE mem.judged
         /\ Forgets(Listed)
<1>1. MemoryOK(mem) /\ mem \in Memories /\ round \in Rounds
  BY DEF TypeInv, MemOK, MemoryOK, RoundOK
<1>2. ASSUME NEW t \in Noted, pc \in Answered
      PROVE  /\ t \in Memories /\ t.incident = mem.incident /\ t.review_down = mem.review_down
             /\ t.findings = mem.findings /\ t.judged = mem.judged
             /\ t.digests \subseteq mem.digests \union Sent /\ Sent \ mem.digests \subseteq t.digests
  BY <1>2, NotedStates DEF FiledFrom, MemoryOK, Sent
<1>3. CASE RecordNotice \/ RecordJudgment \/ RecordReview
  <2>1. /\ UNCHANGED <<operator, faults, stopping>> /\ Forgets({}) /\ mem' \in Noted
        /\ pc \in {"noticed", "judged", "reviewTold"}
    BY <1>3 DEF RecordNotice, RecordJudgment, RecordReview, RecordDigest, Forgets
  <2>2. PICK t : t = mem'
    OBVIOUS
  <2>3. Listed = {} /\ pc \in Answered
    BY <2>1 DEF Listed, Answered
  <2> QED
    BY <1>2, <2>1, <2>2, <2>3
<1>4. CASE RecordFindings
  <2>1. /\ UNCHANGED <<operator, faults, stopping>> /\ Forgets(Listed) /\ pc = "found"
    BY <1>4 DEF RecordFindings, KeepFindings, Forgets, Listed
  <2>2. PICK noted \in Noted : mem' = IF round.delivered
                                 THEN [noted EXCEPT !.findings = Recorded(@, round.sending)] ELSE noted
    BY <1>4 DEF RecordFindings, KeepFindings
  <2>3. /\ noted \in Memories /\ noted.incident = mem.incident /\ noted.review_down = mem.review_down
        /\ noted.findings = mem.findings /\ noted.judged = mem.judged
        /\ noted.digests \subseteq mem.digests \union Sent /\ Sent \ mem.digests \subseteq noted.digests
    BY <1>2, <2>1 DEF Answered
  <2>4. /\ mem'.incident = noted.incident /\ mem'.review_down = noted.review_down
        /\ mem'.judged = noted.judged /\ mem'.digests = noted.digests
        /\ mem'.findings = IF round.delivered THEN Recorded(noted.findings, round.sending) ELSE noted.findings
    BY <2>2, <2>3 DEF Memories
  <2> QED
    BY <2>1, <2>3, <2>4
<1>5. CASE RecordJudgments
  <2>1. /\ UNCHANGED <<operator, faults, stopping>> /\ Forgets(Listed) /\ pc = "judgments"
        /\ mem' = [mem EXCEPT !.judged = Recorded(@, round.acked)]
    BY <1>5 DEF RecordJudgments, Forgets, Listed
  <2>2. Sent = {}
    BY <2>1 DEF Sent, Answered
  <2>3. /\ mem'.incident = mem.incident /\ mem'.review_down = mem.review_down /\ mem'.digests = mem.digests
        /\ mem'.findings = mem.findings /\ mem'.judged = Recorded(mem.judged, round.acked)
    BY <1>1, <2>1 DEF Memories
  <2> QED
    BY <2>1, <2>2, <2>3
<1>6. CASE RecordAlert \/ RecordRecovery
  <2>1. /\ UNCHANGED <<operator, faults, stopping>> /\ Forgets({}) /\ pc \in {"alerted", "recovered"}
    BY <1>6 DEF RecordAlert, RecordRecovery, Forgets
  <2>2. \E noted \in Noted : \E i : mem' = [noted EXCEPT !.incident = i] \/ mem' = noted
    BY <1>6 DEF RecordAlert, RecordRecovery, Finish
  <2>3. PICK noted \in Noted : \E i : mem' = [noted EXCEPT !.incident = i] \/ mem' = noted
    BY <2>2
  <2>4. PICK i : mem' = [noted EXCEPT !.incident = i] \/ mem' = noted
    BY <2>3
  <2>5. /\ noted \in Memories /\ noted.review_down = mem.review_down
        /\ noted.findings = mem.findings /\ noted.judged = mem.judged
        /\ noted.digests \subseteq mem.digests \union Sent /\ Sent \ mem.digests \subseteq noted.digests
    BY <1>2, <2>1 DEF Answered
  <2>6. /\ mem'.review_down = noted.review_down /\ mem'.judged = noted.judged
        /\ mem'.digests = noted.digests /\ mem'.findings = noted.findings
    BY <2>4, <2>5 DEF Memories
  <2>7. Listed = {}
    BY <2>1 DEF Listed
  <2> QED
    BY <2>1, <2>5, <2>6, <2>7
<1>7. CASE OtherMessage
  <2>1. /\ UNCHANGED <<operator, faults, stopping>> /\ Forgets({}) /\ mem' \in Filed(mem, {}) /\ pc = "rest"
    BY <1>7 DEF OtherMessage, Forgets
  <2>2. PICK t : t = mem'
    OBVIOUS
  <2>3. {} \intersect Deduplicated # {} => \E x : {} = {x}
    OBVIOUS
  <2>4. FiledFrom(mem, t, {})
    BY <1>1, <2>1, <2>2, <2>3, FiledStates
  <2>5. Listed = {} /\ Sent = {}
    BY <2>1 DEF Listed, Sent, Answered
  <2> QED
    BY <2>1, <2>2, <2>4, <2>5 DEF FiledFrom
<1> QED
  BY <1>3, <1>4, <1>5, <1>6, <1>7 DEF Files

-----------------------------------------------------------------------------
(* An alert is repeated only after a crash, a failed send or a stop.  What has  *)
(* to be kept track of is when a repetition is possible at all: the operator    *)
(* believes in an incident that is not on record as delivered, or a stop has    *)
(* been seen, with which the next message fails; a fault has paid for each.     *)

Unknown == view.health # None /\ ~(mem.incident.key = view.health /\ mem.incident.delivered)
Owed == (IF Unknown THEN 1 ELSE 0) + (IF stopping /\ pc # "rest" THEN 1 ELSE 0)

AlertInv ==
  /\ pc # "alerted" => again + Owed <= faults
  /\ pc = "alerted" => /\ again <= faults
                       /\ round.delivered => view.health = IncidentKey
                       /\ ~round.delivered /\ view.health # None => again + 1 <= faults
  /\ pc = "recovered" /\ round.delivered => view.health = None

\* The steps that are not about the incident.
OtherSteps ==
  \/ Look \/ Abandon \/ Ask \/ SendNotice \/ RecordNotice \/ Improve
  \/ SendFindings \/ RecordFindings \/ SendJudgment \/ RecordJudgment \/ RecordJudgments
  \/ Suppress \/ ReviewSteps \/ Discovered \/ Restart
  \/ CooldownRunsOut \/ JobChanges \/ WorkChanges \/ OpinionChanges \/ ReviewerChanges
  \/ EventAppears \/ EventVanishes \/ OtherMessage \/ Stop

\* What a message about anything else does not change, and that the agent does not
\* start anything once it is stopped.
LEMMA OtherSend ==
  ASSUME TypeInv, SendNotice \/ SendFindings \/ SendJudgment \/ TellReview
  PROVE  /\ view'.health = view.health /\ again' = again /\ mem' = mem /\ stopping' = stopping
         /\ faults' \in {faults, faults + 1} /\ pc \notin {"rest", "alert"}
         /\ pc' \in {"noticed", "found", "judged", "reviewTold"}
<1>1. /\ round \in Rounds /\ view \in Views /\ told \in [Events -> 0..Often] /\ again \in 0..Often /\ OperatorOK
  BY DEF TypeInv, RoundOK, OperatorOK
<1>2. /\ \A e \in round.notices \union round.judgments : {e} \in SUBSET (Events \union ReviewMessages)
      /\ round.findings \in SUBSET (Events \union ReviewMessages)
      /\ round.sending \in SUBSET (Events \union ReviewMessages)
  BY <1>1 DEF Rounds, Events
<1>3. ASSUME NEW sending \in SUBSET (Events \union ReviewMessages), NEW newView \in Views,
             newView.health = view.health, NEW newTold \in [Events -> 0..Often], NEW next,
             Send(sending, newView, newTold, again, next)
      PROVE  view'.health = view.health /\ again' = again /\ faults' \in {faults, faults + 1} /\ pc' = next
  BY <1>1, <1>3, SendDoes
<1>4. CASE SendNotice
  <2>1. PICK e \in round.notices : Send({e}, view, Heard({e}), again, "noticed")
    BY <1>4 DEF SendNotice
  <2> QED
    BY <1>1, <1>2, <1>3, <1>4, <2>1, HeardOK DEF SendNotice
<1>5. CASE SendFindings
  BY <1>1, <1>2, <1>3, <1>5, HeardOK DEF SendFindings
<1>6. CASE SendJudgment
  <2>1. PICK e \in round.judgments : Send({e}, view, Heard({e}), again, "judged")
    BY <1>6 DEF SendJudgment
  <2> QED
    BY <1>1, <1>2, <1>3, <1>6, <2>1, HeardOK DEF SendJudgment
<1>7. CASE TellReview
  <2> DEFINE new == [view EXCEPT !.review = IF mem.review_down THEN "fails" ELSE "works"]
  <2>1. new \in Views /\ new.health = view.health
    BY <1>1 DEF Views
  <2>2. \/ pc' = "reviewTold" /\ UNCHANGED <<round, operator, disturbed>>
        \/ Send(round.sending, new, told, again, "reviewTold")
    BY <1>7 DEF TellReview
  <2> HIDE DEF new
  <2>3. view'.health = view.health /\ again' = again /\ faults' \in {faults, faults + 1} /\ pc' = "reviewTold"
    BY <1>1, <1>2, <1>3, <2>1, <2>2 DEF operator, disturbed
  <2> QED
    BY <1>7, <2>3 DEF TellReview
<1> QED
  BY <1>4, <1>5, <1>6, <1>7

LEMMA OtherStep ==
  ASSUME TypeInv, OtherSteps
  PROVE  /\ view'.health = view.health /\ again' = again /\ mem'.incident = mem.incident
         /\ \/ faults' = faults /\ (stopping' /\ pc' # "rest" => stopping /\ pc # "rest")
            \/ faults' = faults + 1
         /\ pc \in {"alerted", "recovered"} => pc' = pc /\ round' = round
         /\ pc' \in {"alerted", "recovered"} => pc' = pc /\ round' = round
<1>1. /\ mem \in Memories /\ stopping \in BOOLEAN
  BY DEF TypeInv, MemOK, MemoryOK, OperatorOK
<1>2. CASE SendNotice \/ SendFindings \/ SendJudgment \/ TellReview
  <2>1. pc \notin {"alerted", "recovered"}
    BY <1>2 DEF SendNotice, SendFindings, SendJudgment, TellReview
  <2> QED
    BY <1>2, <2>1, OtherSend
<1>3. CASE Look \/ Abandon \/ Ask \/ Improve \/ Suppress
  <2> DEFINE Quietly == /\ UNCHANGED <<operator, disturbed, stopping>> /\ pc \notin {"alerted", "recovered"}
                        /\ pc' \notin {"alerted", "recovered"} /\ mem'.incident = mem.incident
                        /\ stopping' /\ pc' # "rest" => pc # "rest"
  <2>1. ASSUME Look PROVE Quietly
    BY <1>1, <2>1 DEF Look, Memories
  <2>2. ASSUME Ask PROVE Quietly
    <3>1. mem'.incident = mem.incident
      BY <1>1, <2>2 DEF Ask, Memories
    <3> QED
      BY <2>2, <3>1 DEF Ask
  <2>3. ASSUME Improve PROVE Quietly
    BY <2>3 DEF Improve, Judging
  <2>4. ASSUME Abandon \/ Suppress PROVE Quietly
    BY <2>4 DEF Abandon, Suppress, Finish
  <2>5. Quietly
    BY <1>3, <2>1, <2>2, <2>3, <2>4
  <2> QED
    BY <2>5 DEF operator, disturbed
<1>4. CASE RecordNotice \/ RecordFindings \/ RecordJudgment \/ RecordJudgments \/ RecordReview \/ OtherMessage
  <2>1. /\ pc \notin {"alerted", "recovered"} /\ pc' \notin {"alerted", "recovered"}
        /\ pc = "rest" => pc' = "rest"
    BY <1>4 DEF RecordNotice, RecordFindings, KeepFindings, RecordJudgment, RecordJudgments, RecordReview,
       OtherMessage, Judging
  <2> QED
    BY <1>4, <2>1, RecordDoes DEF Files, operator
<1>5. CASE ReviewFails
  <2>1. UNCHANGED operator /\ pc = "rest" /\ pc' = "reviewing" /\ mem'.incident = mem.incident
    BY <1>1, <1>5 DEF ReviewFails, Memories
  <2>2. (~stopping' /\ faults' = faults) \/ faults' = faults + 1
    BY <1>5 DEF ReviewFails, StopArrives, disturbed
  <2> QED
    BY <2>1, <2>2 DEF operator
<1>6. CASE ReviewRecovers \/ Discovered
  <2>1. /\ UNCHANGED <<operator, disturbed, stopping>> /\ pc = "rest" /\ pc' \in {"rest", "reviewing"}
        /\ ~stopping
    BY <1>6 DEF ReviewRecovers, Discovered
  <2>2. mem'.incident = mem.incident
    BY <1>1, <1>6 DEF ReviewRecovers, Discovered, Memories
  <2> QED
    BY <2>1, <2>2 DEF operator, disturbed
<1>7. CASE Restart
  BY <1>7 DEF Restart, operator, disturbed
<1>8. CASE CooldownRunsOut \/ JobChanges \/ WorkChanges \/ OpinionChanges \/ ReviewerChanges
           \/ EventAppears \/ EventVanishes
  BY <1>8 DEF CooldownRunsOut, JobChanges, WorkChanges, OpinionChanges, ReviewerChanges, EventAppears,
     EventVanishes, Changes, operator, disturbed
<1>9. CASE Stop
  BY <1>9 DEF Stop, StopArrives, operator
<1> QED
  BY <1>2, <1>3, <1>4, <1>5, <1>6, <1>7, <1>8, <1>9 DEF OtherSteps, ReviewSteps

LEMMA AlertOther ==
  ASSUME TypeInv, AlertInv, OtherSteps
  PROVE  AlertInv'
<1>1. again \in Nat /\ faults \in Nat /\ stopping \in BOOLEAN
  BY DEF TypeInv, OperatorOK
<1>2. /\ view'.health = view.health /\ again' = again /\ mem'.incident = mem.incident
      /\ \/ faults' = faults /\ (stopping' /\ pc' # "rest" => stopping /\ pc # "rest")
         \/ faults' = faults + 1
      /\ pc \in {"alerted", "recovered"} => pc' = pc /\ round' = round
      /\ pc' \in {"alerted", "recovered"} => pc' = pc /\ round' = round
  BY OtherStep
<1>3. CASE pc = "alerted"
  <2>1. IncidentKey' = IncidentKey
    BY <1>2, <1>3 DEF IncidentKey, Remaining
  <2>2. faults' \in {faults, faults + 1} /\ again <= faults' /\ (again + 1 <= faults => again + 1 <= faults')
    BY <1>1, <1>2, <1>3 DEF AlertInv
  <2> QED
    BY <1>1, <1>2, <1>3, <2>1, <2>2 DEF AlertInv
<1>4. CASE pc # "alerted"
  <2>1. pc' # "alerted" /\ again + Owed <= faults
    BY <1>2, <1>4 DEF AlertInv
  <2>2. Unknown' <=> Unknown
    BY <1>2 DEF Unknown
  <2>3. Owed \in 0..2 /\ Owed' \in 0..2
    BY DEF Owed
  <2>4. faults' = faults => Owed' <= Owed
    BY <1>1, <1>2, <2>2 DEF Owed
  <2>5. Owed' <= Owed + 1
    BY <1>1, <1>2, <2>2 DEF Owed
  <2>6. again' + Owed' <= faults'
    BY <1>1, <1>2, <2>1, <2>3, <2>4, <2>5
  <2>7. pc' = "recovered" /\ round'.delivered => view'.health = None
    BY <1>2 DEF AlertInv
  <2> QED
    BY <2>1, <2>6, <2>7 DEF AlertInv
<1> QED
  BY <1>3, <1>4

\* What a message about the incident does, in the round and to the operator.
LEMMA IncidentSent ==
  ASSUME TypeInv, SendAlert \/ SendRecovery
  PROVE  /\ mem' = mem /\ stopping' = stopping /\ pc = "alert"
         /\ \/ pc' = "alerted" /\ ~KnownIncident
            \/ pc' = "recovered" /\ mem.incident.delivered
         /\ LET key == IF pc' = "alerted" THEN IncidentKey ELSE None
                more == IF pc' = "alerted" /\ view.health = IncidentKey /\ again < Often THEN again + 1 ELSE again
            IN  \E d \in BOOLEAN :
                  /\ round' = [round EXCEPT !.sending = {}, !.delivered = d]
                  /\ d => ~stopping /\ faults' = faults /\ view'.health = key /\ again' = more
                  /\ ~d => \/ stopping /\ faults' = faults /\ view' = view /\ again' = again
                           \/ faults' = faults + 1 /\ view' = view /\ again' = again
                           \/ faults' = faults + 1 /\ view'.health = key /\ again' = more
<1> DEFINE key == IF pc' = "alerted" THEN IncidentKey ELSE None
           more == IF pc' = "alerted" /\ view.health = IncidentKey /\ again < Often THEN again + 1 ELSE again
           new == [view EXCEPT !.health = key]
<1>1. /\ round \in Rounds /\ view \in Views /\ told \in [Events -> 0..Often] /\ again \in 0..Often /\ RoundOK
  BY DEF TypeInv, RoundOK, OperatorOK
<1>2. pc = "alert" /\ mem' = mem /\ stopping' = stopping /\ pc' \in {"alerted", "recovered"}
  BY DEF SendAlert, SendRecovery, Send
<1>3. /\ Send({}, new, told, more, pc')
      /\ \/ pc' = "alerted" /\ ~KnownIncident
         \/ pc' = "recovered" /\ mem.incident.delivered
  <2>1. CASE SendAlert
    <3>1. pc' = "alerted"
      BY <2>1 DEF SendAlert, Send
    <3> QED
      BY <2>1, <3>1 DEF SendAlert
  <2>2. CASE SendRecovery
    <3>1. pc' = "recovered"
      BY <2>2 DEF SendRecovery, Send
    <3> QED
      BY <2>2, <3>1 DEF SendRecovery
  <2> QED
    BY <2>1, <2>2
<1>4. IncidentKey \in Keys /\ None \in Keys
  BY <1>1, <1>2, IncidentOK DEF Asked, PCs, Keys
<1>5. new \in Views /\ new.health = key /\ more \in 0..Often
  BY <1>1, <1>4, AlertConstants DEF Views
<1> HIDE DEF new, more, key
<1>6. \E d \in BOOLEAN :
        /\ round' = [round EXCEPT !.sending = {}, !.delivered = d]
        /\ d => ~stopping /\ faults' = faults /\ view' = new /\ again' = more
        /\ ~d => \/ stopping /\ UNCHANGED <<view, told, again, faults>>
                 \/ faults' = faults + 1 /\ UNCHANGED <<view, told, again>>
                 \/ faults' = faults + 1 /\ view' = new /\ told' = told /\ again' = more
  BY <1>1, <1>3, <1>5, SendDoes
<1>7. \E d \in BOOLEAN :
        /\ round' = [round EXCEPT !.sending = {}, !.delivered = d]
        /\ d => ~stopping /\ faults' = faults /\ view'.health = key /\ again' = more
        /\ ~d => \/ stopping /\ faults' = faults /\ view' = view /\ again' = again
                 \/ faults' = faults + 1 /\ view' = view /\ again' = again
                 \/ faults' = faults + 1 /\ view'.health = key /\ again' = more
  BY <1>5, <1>6
<1> QED
  BY <1>2, <1>3, <1>7 DEF key, more

LEMMA AlertSent ==
  ASSUME TypeInv, AlertInv, SendAlert \/ SendRecovery
  PROVE  AlertInv'
<1>0. pc = "alert" /\ mem' = mem /\ stopping' = stopping
  BY IncidentSent
<1>1. /\ again \in Nat /\ faults \in Nat /\ stopping \in BOOLEAN /\ view \in Views /\ round \in Rounds
      /\ pc = "alert" /\ mem' = mem /\ stopping' = stopping
  BY <1>0 DEF TypeInv, OperatorOK, RoundOK
<1>2. /\ again + Owed <= faults
      /\ Owed = (IF Unknown THEN 1 ELSE 0) + (IF stopping THEN 1 ELSE 0)
  BY <1>1 DEF AlertInv, Owed
<1>3. CASE pc' = "alerted"
  <2> DEFINE more == IF view.health = IncidentKey /\ again < Often THEN again + 1 ELSE again
  <2>1. /\ ~KnownIncident
        /\ \E d \in BOOLEAN :
             /\ round' = [round EXCEPT !.sending = {}, !.delivered = d]
             /\ d => ~stopping /\ faults' = faults /\ view'.health = IncidentKey /\ again' = more
             /\ ~d => \/ stopping /\ faults' = faults /\ view' = view /\ again' = again
                      \/ faults' = faults + 1 /\ view' = view /\ again' = again
                      \/ faults' = faults + 1 /\ view'.health = IncidentKey /\ again' = more
    BY <1>3, IncidentSent
  <2>2. PICK d \in BOOLEAN :
             /\ round' = [round EXCEPT !.sending = {}, !.delivered = d]
             /\ d => ~stopping /\ faults' = faults /\ view'.health = IncidentKey /\ again' = more
             /\ ~d => \/ stopping /\ faults' = faults /\ view' = view /\ again' = again
                      \/ faults' = faults + 1 /\ view' = view /\ again' = again
                      \/ faults' = faults + 1 /\ view'.health = IncidentKey /\ again' = more
    BY <2>1
  <2>3. /\ round'.delivered = d /\ IncidentKey' = IncidentKey
    BY <1>1, <2>2 DEF Rounds, IncidentKey, Remaining
  <2>4. IncidentKey # None
    BY <1>1, IncidentOK DEF TypeInv, Asked, PCs
  <2>5. view.health = IncidentKey => Unknown
    BY <2>1, <2>4 DEF Unknown, KnownIncident
  <2>6. more \in Nat /\ (view.health = IncidentKey => more <= again + 1) /\ (view.health # IncidentKey => more = again)
    BY <1>1
  <2> HIDE DEF more
  <2>7. more <= faults
    BY <1>1, <1>2, <2>5, <2>6
  <2>8. stopping => again + 1 <= faults
    BY <1>1, <1>2
  <2>9. again' <= faults' /\ (~d => again' + 1 <= faults')
    <3>1. CASE faults' = faults + 1 /\ again' \in {again, more}
      <4>1. again <= faults
        BY <1>1, <1>2
      <4>2. again' \in Nat /\ again' <= faults
        BY <1>1, <2>6, <2>7, <3>1, <4>1
      <4>3. faults \in Nat /\ faults' \in Nat /\ faults' = faults + 1
        BY <1>1, <3>1
      <4>4. again' + 1 <= faults'
        <5>1. \A a, f \in Nat : a <= f => a + 1 <= f + 1
          OBVIOUS
        <5> QED
          BY <4>2, <4>3, <5>1
      <4>5. again' <= faults'
        BY <4>2, <4>3
      <4> QED
        BY <4>4, <4>5
    <3>2. CASE ~d /\ stopping /\ faults' = faults /\ again' = again
      BY <1>1, <2>8, <3>2
    <3>3. CASE d /\ faults' = faults /\ again' = more
      BY <1>1, <2>7, <3>3
    <3> QED
      BY <2>2, <3>1, <3>2, <3>3
  <2> QED
    BY <1>3, <2>2, <2>3, <2>9 DEF AlertInv
<1>4. CASE pc' = "recovered"
  <2>1. PICK d \in BOOLEAN :
             /\ round' = [round EXCEPT !.sending = {}, !.delivered = d]
             /\ d => ~stopping /\ faults' = faults /\ view'.health = None /\ again' = again
             /\ ~d => \/ stopping /\ faults' = faults /\ view' = view /\ again' = again
                      \/ faults' = faults + 1 /\ view' = view /\ again' = again
                      \/ faults' = faults + 1 /\ view'.health = None /\ again' = again
    BY <1>4, IncidentSent
  <2>2. round'.delivered = d
    BY <1>1, <2>1 DEF Rounds
  <2>3. Unknown' => Unknown
    BY <1>1, <2>1 DEF Unknown
  <2>4. Owed' <= Owed /\ Owed \in 0..2 /\ Owed' \in 0..2
    BY <1>1, <1>4, <2>3 DEF Owed
  <2>5. again' + Owed' <= faults'
    BY <1>1, <1>2, <2>1, <2>4
  <2> QED
    BY <1>4, <2>1, <2>2, <2>5 DEF AlertInv
<1> QED
  BY <1>3, <1>4, IncidentSent

LEMMA AlertRecorded ==
  ASSUME TypeInv, AlertInv, RecordAlert \/ RecordRecovery \/ Quiet \/ Crash
  PROVE  AlertInv'
<1>1. /\ again \in Nat /\ faults \in Nat /\ mem \in Memories /\ round.delivered \in BOOLEAN
      /\ view \in Views
  BY DEF TypeInv, OperatorOK, MemOK, MemoryOK, RoundOK, Rounds
<1>2. pc' = "rest" /\ view' = view /\ again' = again
  BY DEF RecordAlert, RecordRecovery, Quiet, Crash, Finish, operator
<1>3. again <= faults
  BY <1>1 DEF AlertInv, Owed
<1>4. SUFFICES again + (IF Unknown' THEN 1 ELSE 0) <= faults'
  BY <1>2, <1>4 DEF AlertInv, Owed
<1>9. ASSUME NEW t \in Noted, pc \in Answered
      PROVE  t \in Memories /\ t.incident = mem.incident
  BY <1>9, NotedStates DEF FiledFrom, MemoryOK
<1>5. CASE RecordAlert
  <2> DEFINE new == [key |-> IncidentKey, delivered |-> round.delivered, severity |-> EffectiveSeverity]
  <2>1. /\ pc = "alerted" /\ faults' = faults /\ \E noted \in Noted : mem' = [noted EXCEPT !.incident = new]
    BY <1>5 DEF RecordAlert, Finish, Forgets
  <2>2. mem'.incident = new
    BY <1>9, <2>1 DEF Answered, Memories
  <2>3. mem'.incident.key = IncidentKey /\ mem'.incident.delivered = round.delivered
    BY <2>2
  <2> QED
    BY <1>1, <1>2, <1>3, <2>1, <2>3 DEF AlertInv, Unknown
<1>6. CASE RecordRecovery
  <2>1. /\ pc = "recovered" /\ faults' = faults
        /\ \E noted \in Noted :
             mem' = IF round.delivered THEN [noted EXCEPT !.incident = NoIncident] ELSE noted
    BY <1>6 DEF RecordRecovery, Finish, Forgets
  <2>2. ~round.delivered => mem'.incident = mem.incident
    BY <1>9, <2>1 DEF Answered
  <2>3. Unknown' => Unknown
    BY <1>2, <2>1, <2>2 DEF AlertInv, Unknown
  <2> QED
    BY <1>1, <2>1, <2>3 DEF AlertInv, Owed
<1>7. CASE Quiet
  <2>1. /\ pc = "alert" /\ faults' = faults
        /\ mem' = mem \/ (~mem.incident.delivered /\ mem' = [mem EXCEPT !.incident = NoIncident])
    BY <1>7 DEF Quiet, Finish, disturbed
  <2>2. Unknown' => Unknown
    BY <1>2, <2>1 DEF Unknown
  <2> QED
    BY <1>1, <2>1, <2>2 DEF AlertInv, Owed
<1>8. CASE Crash
  BY <1>1, <1>3, <1>8 DEF Crash
<1> QED
  BY <1>5, <1>6, <1>7, <1>8

\* However long a problem stays and whatever the reviews say of it, the operator
\* gets the same alert again at most once for each crash, failed send and stop.
THEOREM AlertsAreNotRepeated == Spec => []AlertsNotRepeated
<1>1. Init => TypeInv /\ AlertInv
  <2> SUFFICES ASSUME Init
               PROVE  TypeInv /\ AlertInv
    OBVIOUS
  <2>1. TypeInv
    BY InitType
  <2>2. Owed = 0
    BY DEF Init, Owed, Unknown
  <2> QED
    BY <2>1, <2>2 DEF Init, AlertInv
<1>2. TypeInv /\ AlertInv /\ [Next]_vars => (TypeInv /\ AlertInv)'
  <2> SUFFICES ASSUME TypeInv, AlertInv, [Next]_vars
               PROVE  TypeInv' /\ AlertInv'
    OBVIOUS
  <2>1. TypeInv'
    BY TypeStep
  <2>2. CASE Next
    <3>1. OtherSteps \/ SendAlert \/ SendRecovery \/ RecordAlert \/ RecordRecovery \/ Quiet \/ Crash
      BY <2>2 DEF Next, Monitor, Environment, OtherSteps
    <3>2. OtherSteps => AlertInv'
      BY AlertOther
    <3>3. SendAlert \/ SendRecovery => AlertInv'
      BY AlertSent
    <3>4. RecordAlert \/ RecordRecovery \/ Quiet \/ Crash => AlertInv'
      BY AlertRecorded
    <3> QED
      BY <2>1, <3>1, <3>2, <3>3, <3>4
  <2>3. CASE UNCHANGED vars
    <3>1. UNCHANGED <<pc, again, faults, round, view, mem, stopping>>
      BY <2>3 DEF vars
    <3>2. IncidentKey' = IncidentKey /\ Owed' = Owed
      BY <3>1 DEF Owed, Unknown, IncidentKey, Remaining
    <3> QED
      BY <2>1, <3>1, <3>2 DEF AlertInv
  <2> QED
    BY <2>1, <2>2, <2>3
<1>3. TypeInv /\ AlertInv => AlertsNotRepeated
  <2> SUFFICES ASSUME TypeInv, AlertInv
               PROVE  again <= faults
    BY DEF AlertsNotRepeated
  <2>1. again \in Nat /\ faults \in Nat /\ Owed \in 0..2
    BY DEF TypeInv, OperatorOK, Owed
  <2> QED
    BY <2>1 DEF AlertInv
<1> QED
  BY <1>1, <1>2, <1>3, PTL DEF Spec

-----------------------------------------------------------------------------
(* An event is told once, but for one repetition for each fault and each time   *)
(* its record found no room.  A round has nothing to tell that is on record,    *)
(* and what was told is marked somewhere: by a digest, in a list of keys, or in *)
(* the round until it is recorded; it is unmarked only by a crash or by being   *)
(* forgotten.                                                                   *)

Telling == {"ask", "notices", "noticed", "findings", "found"}
Judges == {"judgments", "judged"}

FlowInv ==
  /\ pc \in {"notices", "noticed"} => round.notices \intersect mem.digests = {}
  /\ pc \in Telling => \A e \in round.findings : ~Contains(mem.findings, e)
  /\ pc \in Telling \union Judges => \A e \in round.judgments : ~Contains(mem.judged, e) /\ e \notin round.acked
  /\ pc \in Telling => round.acked = {}
  /\ pc \in Judges => \A e \in round.acked : ~Contains(mem.judged, e)

\* What was told in this round and has to be recorded.
Pending(e) ==
  \/ pc \in {"noticed", "found", "judged"} /\ round.delivered /\ e \in round.sending
  \/ pc \in Judges /\ e \in round.acked

Marked(e) == Known(mem, e) \/ Pending(e)

\* What only recording and a crash change.
LEMMA RecordsKept ==
  ASSUME TypeInv, Next, ~Files, ~Crash
  PROVE  /\ mem'.findings = mem.findings /\ mem'.judged = mem.judged
         /\ \A e \in Events : e \in mem'.digests <=> e \in mem.digests
<1>1. mem \in Memories /\ round \in Rounds /\ Events \intersect ReviewMessages = {}
  BY AlertConstants DEF TypeInv, MemOK, MemoryOK, RoundOK
<1>2. CASE mem' = mem
  BY <1>2
<1>3. CASE Look
  <2>1. mem' = [mem EXCEPT !.starving = Starves]
    BY <1>3 DEF Look
  <2> QED
    BY <1>1, <2>1 DEF Memories
<1>4. CASE Ask
  <2> DEFINE kept == IF opinion.kind = "ai_review"
                       THEN IF mem.failures < Threshold THEN mem.failures + 1 ELSE Threshold ELSE 0
  <2>1. mem' = [mem EXCEPT !.failures = kept]
    BY <1>4 DEF Ask
  <2> HIDE DEF kept
  <2> QED
    BY <1>1, <2>1 DEF Memories
<1>5. CASE Quiet
  <2>1. mem' = mem \/ \E i : mem' = [mem EXCEPT !.incident = i]
    BY <1>5 DEF Quiet, Finish
  <2> QED
    BY <1>1, <2>1 DEF Memories
<1>6. CASE ReviewFails
  <2>1. \E d : /\ mem' = [mem EXCEPT !.review_down = TRUE, !.digests = d]
               /\ d = mem.digests \/ d = mem.digests \ {"cycle_review_recovered"}
    BY <1>6 DEF ReviewFails
  <2> QED
    BY <1>1, <2>1 DEF Memories, ReviewMessages
<1>7. CASE ReviewRecovers
  <2>1. mem' = [mem EXCEPT !.review_down = FALSE, !.digests = @ \ {"cycle_review_unavailable"}]
    BY <1>7 DEF ReviewRecovers
  <2> QED
    BY <1>1, <2>1 DEF Memories, ReviewMessages
<1>9. CASE Discovered
  <2>1. mem' = [mem EXCEPT !.searched = TRUE]
    BY <1>9 DEF Discovered
  <2> QED
    BY <1>1, <2>1 DEF Memories
<1>10. Abandon \/ Improve \/ Suppress \/ Restart \/ Sends => mem' = mem
  BY SendStep DEF Abandon, Improve, Suppress, Finish, Restart
<1>11. CooldownRunsOut \/ JobChanges \/ WorkChanges \/ OpinionChanges \/ ReviewerChanges
         \/ EventAppears \/ EventVanishes \/ Stop => mem' = mem
  BY DEF CooldownRunsOut, JobChanges, WorkChanges, OpinionChanges, ReviewerChanges, EventAppears,
     EventVanishes, Changes, Stop
<1> QED
  BY <1>2, <1>3, <1>4, <1>5, <1>6, <1>7, <1>9, <1>10, <1>11
     DEF Next, Monitor, ReviewSteps, Environment, Sends, Files

\* The operator hears nothing but by a message.
LEMMA QuietStep ==
  ASSUME TypeInv, Next, ~Sends
  PROVE  UNCHANGED <<view, told, again>> /\ faults' \in {faults, faults + 1}
<1>1. UNCHANGED operator => UNCHANGED <<view, told, again>>
  BY DEF operator
<1>2. UNCHANGED disturbed \/ StopArrives => faults' \in {faults, faults + 1}
  BY DEF disturbed, StopArrives
<1>3. CASE Files
  BY <1>1, <1>3, RecordDoes
<1>4. CASE Look \/ Abandon \/ Ask \/ Improve \/ Suppress \/ Quiet \/ ReviewRecovers \/ Discovered \/ Restart
           \/ CooldownRunsOut \/ JobChanges \/ WorkChanges \/ OpinionChanges \/ ReviewerChanges
           \/ EventAppears \/ EventVanishes
  <2>1. UNCHANGED <<operator, disturbed>>
    BY <1>4 DEF Look, Abandon, Ask, Improve, Suppress, Quiet, ReviewRecovers, Discovered, Restart,
       CooldownRunsOut, JobChanges, WorkChanges, OpinionChanges, ReviewerChanges, EventAppears,
       EventVanishes, Changes
  <2> QED
    BY <1>1, <1>2, <2>1
<1>5. CASE ReviewFails \/ Stop \/ Crash
  BY <1>1, <1>2, <1>5 DEF ReviewFails, Stop, Crash
<1> QED
  BY <1>3, <1>4, <1>5 DEF Next, Monitor, ReviewSteps, Environment, Sends, Files

\* A round that goes on with the same events to tell, and records that are the same.
LEMMA FlowKept ==
  ASSUME FlowInv, round'.findings = round.findings, round'.judgments = round.judgments,
         round'.acked = round.acked, mem'.findings = mem.findings, mem'.judged = mem.judged,
         pc' \in Telling => pc \in Telling, pc' \in Judges => pc \in Telling \union Judges,
         pc' \in {"notices", "noticed"} => round'.notices \intersect mem'.digests = {}
  PROVE  FlowInv'
BY DEF FlowInv

LEMMA FlowStep ==
  ASSUME TypeInv, FlowInv, Next
  PROVE  FlowInv'
<1>1. /\ mem \in Memories /\ round \in Rounds /\ pc \in PCs /\ SendingOK
      /\ mem.findings \in Seq(Findings) /\ mem.judged \in Seq(Judgments)
  BY DEF TypeInv, MemOK, MemoryOK, Memories, RoundOK
<1>2. CASE Look
  <2>1. PICK batch \in SUBSET NewFindings :
          round' = [NoRound EXCEPT !.problems = OperationalProblems(Starves), !.runnable = runnable,
                                   !.findings = batch, !.judgments = NewJudgments]
    BY <1>2 DEF Look
  <2>2. pc' = "ask" /\ mem'.findings = mem.findings /\ mem'.judged = mem.judged
    BY <1>1, <1>2 DEF Look, Memories
  <2>3. round'.findings = batch /\ round'.judgments = NewJudgments /\ round'.acked = {}
    BY <2>1 DEF NoRound
  <2> QED
    BY <2>2, <2>3 DEF FlowInv, NewFindings, NewJudgments
<1>3. CASE Ask
  <2> DEFINE verdict == IF opinion.kind = "ai_review"
                          THEN [opinion EXCEPT !.notify =
                                  (IF mem.failures < Threshold THEN mem.failures + 1 ELSE Threshold) >= Threshold]
                          ELSE opinion
  <2>1. round' = [round EXCEPT !.verdict = verdict, !.notices = PendingNotices]
    BY <1>3 DEF Ask
  <2> HIDE DEF verdict
  <2>2. /\ round'.findings = round.findings /\ round'.judgments = round.judgments
        /\ round'.acked = round.acked /\ round'.notices = PendingNotices
    BY <1>1, <2>1 DEF Rounds
  <2>3. mem'.findings = mem.findings /\ mem'.judged = mem.judged /\ mem'.digests = mem.digests
    BY <1>1, <1>3 DEF Ask, Memories
  <2>4. pc = "ask" /\ pc' = "notices"
    BY <1>3 DEF Ask
  <2>5. round'.notices \intersect mem'.digests = {}
    BY <2>2, <2>3 DEF PendingNotices
  <2> QED
    BY <2>2, <2>3, <2>4, <2>5, FlowKept DEF Telling, Judges
<1>4. CASE RecordNotice
  <2>1. /\ pc = "noticed" /\ pc' = "notices" /\ round' = [round EXCEPT !.notices = @ \ round.sending]
    BY <1>4 DEF RecordNotice
  <2>2. /\ round'.findings = round.findings /\ round'.judgments = round.judgments
        /\ round'.acked = round.acked /\ round'.notices = round.notices \ round.sending
    BY <1>1, <2>1 DEF Rounds
  <2>3. /\ mem'.findings = mem.findings /\ mem'.judged = mem.judged
        /\ mem'.digests \subseteq mem.digests \union round.sending
    BY <1>4, <2>1, RecordDoes DEF Files, Sent
  <2>4. round'.notices \intersect mem'.digests = {}
    BY <2>1, <2>2, <2>3 DEF FlowInv
  <2> QED
    BY <2>1, <2>2, <2>3, <2>4, FlowKept DEF Telling, Judges
<1>5. CASE Improve
  <2>1. PICK recovered \in SUBSET {p[1] : p \in problems \intersect round.problems}, handled \in BOOLEAN :
          round' = [round EXCEPT !.recovered = recovered, !.handled = handled]
    BY <1>5 DEF Improve
  <2>2. pc = "notices" /\ pc' \in {"findings", "judgments", "alert"} /\ mem' = mem
    BY <1>5 DEF Improve, Judging
  <2>3. /\ round'.findings = round.findings /\ round'.judgments = round.judgments
        /\ round'.acked = round.acked
    BY <1>1, <2>1 DEF Rounds
  <2> QED
    BY <2>2, <2>3, FlowKept DEF Telling, Judges
<1>6. CASE RecordFindings
  <2>1. pc = "found" /\ pc' \in {"judgments", "alert"} /\ round' = round
    BY <1>6 DEF RecordFindings, KeepFindings, Judging
  <2>2. mem'.judged = mem.judged
    BY <1>6, <2>1, RecordDoes DEF Files
  <2> QED
    BY <2>1, <2>2 DEF FlowInv, Telling, Judges
<1>7. CASE RecordJudgment
  <2>1. /\ pc = "judged" /\ pc' = "judgments"
        /\ round' = [round EXCEPT !.judgments = @ \ round.sending,
                            !.acked = IF round.delivered THEN @ \union round.sending ELSE @]
    BY <1>7 DEF RecordJudgment
  <2>2. round'.judgments = round.judgments \ round.sending /\ round'.acked \subseteq round.acked \union round.sending
    BY <1>1, <2>1 DEF Rounds
  <2>3. mem'.judged = mem.judged /\ round.sending \subseteq round.judgments
    BY <1>1, <1>7, <2>1, RecordDoes DEF Files, SendingOK
  <2> QED
    BY <2>1, <2>2, <2>3 DEF FlowInv, Telling, Judges
<1>8. CASE Sends
  <2>1. /\ mem' = mem
        /\ \/ round' = round /\ pc' = "reviewTold"
           \/ \E sending \in SUBSET (Events \union ReviewMessages), d \in BOOLEAN :
                /\ round' = [round EXCEPT !.sending = sending, !.delivered = d]
                /\ Message(sending, pc')
    BY <1>8, SendStep
  <2>2. CASE pc' = "reviewTold"
    BY <2>2 DEF FlowInv, Telling, Judges
  <2>3. ASSUME NEW sending \in SUBSET (Events \union ReviewMessages), NEW d \in BOOLEAN,
               round' = [round EXCEPT !.sending = sending, !.delivered = d], Message(sending, pc')
        PROVE  FlowInv'
    <3>1. /\ round'.findings = round.findings /\ round'.judgments = round.judgments
          /\ round'.acked = round.acked /\ round'.notices = round.notices
      BY <1>1, <2>3 DEF Rounds
    <3>2. /\ pc' \in Telling => pc \in Telling
          /\ pc' \in Judges => pc \in Telling \union Judges
          /\ pc' \in {"notices", "noticed"} => pc = "notices"
      BY <2>3 DEF Message, Telling, Judges
    <3>3. pc' \in {"notices", "noticed"} => round'.notices \intersect mem'.digests = {}
      BY <2>1, <3>1, <3>2 DEF FlowInv
    <3> QED
      BY <2>1, <3>1, <3>2, <3>3, FlowKept
  <2> QED
    BY <2>1, <2>2, <2>3
<1>9. CASE pc' \in {"rest", "alert", "reviewing"}
  BY <1>9 DEF FlowInv, Telling, Judges
<1>10. Abandon \/ RecordJudgments \/ Suppress \/ RecordAlert \/ RecordRecovery \/ Quiet \/ ReviewFails
         \/ ReviewRecovers \/ RecordReview \/ Discovered \/ Restart \/ Crash => pc' \in {"rest", "alert", "reviewing"}
  BY DEF Abandon, RecordJudgments, Suppress, RecordAlert, RecordRecovery, Quiet, Finish, ReviewFails,
     ReviewRecovers, RecordReview, Discovered, Restart, Crash
<1>11. CooldownRunsOut \/ JobChanges \/ WorkChanges \/ OpinionChanges \/ ReviewerChanges
         \/ EventAppears \/ EventVanishes \/ Stop => UNCHANGED <<pc, round, mem>>
  BY DEF CooldownRunsOut, JobChanges, WorkChanges, OpinionChanges, ReviewerChanges, EventAppears,
     EventVanishes, Changes, Stop
<1>12. CASE UNCHANGED <<pc, round, mem>>
  BY <1>12 DEF FlowInv
<1>13. CASE OtherMessage
  <2>1. UNCHANGED <<pc, round>> /\ pc = "rest"
    BY <1>13 DEF OtherMessage
  <2> QED
    BY <2>1 DEF FlowInv, Telling, Judges
<1> QED
  BY <1>2, <1>3, <1>4, <1>5, <1>6, <1>7, <1>8, <1>9, <1>10, <1>11, <1>12, <1>13
     DEF Next, Monitor, ReviewSteps, Environment, Sends

LEMMA ContainsOnly ==
  ASSUME NEW S, NEW s \in Seq(S), NEW e, Contains(s, e)
  PROVE  e \in S
<1>1. PICK i \in 1..Len(s) : s[i] = e
  BY DEF Contains
<1> QED
  BY <1>1, ElementOfSeq

\* What is on record of which kind of event.
LEMMA Kinds ==
  ASSUME TypeInv
  PROVE  /\ \A e : Contains(mem.findings, e) => e \in Findings
         /\ \A e : Contains(mem.judged, e) => e \in Judgments
         /\ mem.digests \subseteq Notices \union ReviewMessages
         /\ round.findings \subseteq Findings /\ round.judgments \subseteq Judgments
         /\ round.notices \subseteq Notices /\ round.acked \subseteq Judgments
         /\ Findings \intersect Judgments = {} /\ (Findings \union Judgments) \intersect Notices = {}
         /\ (Findings \union Judgments) \intersect ReviewMessages = {} /\ Notices \intersect ReviewMessages = {}
<1>1. /\ mem.findings \in Seq(Findings) /\ mem.judged \in Seq(Judgments)
      /\ mem.digests \subseteq Notices \union ReviewMessages
      /\ round.findings \subseteq Findings /\ round.judgments \subseteq Judgments
      /\ round.notices \subseteq Notices /\ round.acked \subseteq Judgments
  BY DEF TypeInv, MemOK, MemoryOK, Memories, Deduplicated, RoundOK, Rounds
<1>2. /\ Findings \intersect Judgments = {} /\ (Findings \union Judgments) \intersect Notices = {}
      /\ (Findings \union Judgments) \intersect ReviewMessages = {} /\ Notices \intersect ReviewMessages = {}
  BY AlertConstants DEF Events
<1>3. /\ \A e : Contains(mem.findings, e) => e \in Findings
      /\ \A e : Contains(mem.judged, e) => e \in Judgments
  BY <1>1, ContainsOnly
<1> QED
  BY <1>1, <1>2, <1>3

\* What waits to be recorded is not on record.
LEMMA PendingNew ==
  ASSUME TypeInv, FlowInv, NEW e, Pending(e)
  PROVE  ~Known(mem, e)
<1>1. SendingOK
  BY DEF TypeInv, RoundOK
<1>2. CASE pc = "noticed"
  <2>1. e \in round.notices
    BY <1>1, <1>2 DEF Pending, SendingOK, Judges
  <2> QED
    BY <1>2, <2>1, Kinds DEF FlowInv, Known
<1>3. CASE pc = "found"
  <2>1. e \in round.findings
    BY <1>1, <1>3 DEF Pending, SendingOK, Judges
  <2> QED
    BY <1>3, <2>1, Kinds DEF FlowInv, Known, Telling
<1>4. CASE pc \in Judges
  <2>1. e \in round.judgments \union round.acked
    BY <1>1, <1>4 DEF Pending, SendingOK, Judges
  <2>2. ~Contains(mem.judged, e) /\ e \in Judgments
    BY <1>4, <2>1, Kinds DEF FlowInv
  <2> QED
    BY <2>2, Kinds DEF Known
<1> QED
  BY <1>2, <1>3, <1>4 DEF Pending, Judges

\* What recording does to what waits for it.
LEMMA PendingRecorded ==
  ASSUME TypeInv, FlowInv, Files, NEW e \in Events
  PROVE  /\ e \in Sent \union Listed => Pending(e)
         /\ Pending(e) => Pending(e)' \/ e \in Sent \union Listed
         /\ Pending(e)' => Pending(e) /\ e \notin Listed
<1>1. /\ round \in Rounds /\ pc \in PCs /\ SendingOK /\ Events \intersect ReviewMessages = {}
  BY AlertConstants DEF TypeInv, RoundOK
<1>2. CASE RecordNotice
  <2>1. pc = "noticed" /\ pc' = "notices" /\ round.sending \subseteq Notices
    BY <1>1, <1>2, Kinds DEF RecordNotice, SendingOK
  <2> QED
    BY <2>1 DEF Pending, Sent, Listed, Answered, Deduplicated, Judges
<1>3. CASE RecordFindings
  <2>1. /\ pc = "found" /\ pc' \in {"judgments", "alert"} /\ round' = round
        /\ round.sending \subseteq Findings /\ round.acked = {}
    BY <1>1, <1>3, Kinds DEF RecordFindings, KeepFindings, Judging, SendingOK, FlowInv, Telling
  <2>2. Sent = {}
    BY <2>1, Kinds DEF Sent, Deduplicated
  <2> QED
    BY <2>1, <2>2 DEF Pending, Listed, Judges
<1>4. CASE RecordJudgment
  <2>1. /\ pc = "judged" /\ pc' = "judgments" /\ round.sending \subseteq Judgments
        /\ round' = [round EXCEPT !.judgments = @ \ round.sending,
                            !.acked = IF round.delivered THEN @ \union round.sending ELSE @]
    BY <1>1, <1>4, Kinds DEF RecordJudgment, SendingOK
  <2>2. round'.acked = IF round.delivered THEN round.acked \union round.sending ELSE round.acked
    BY <1>1, <2>1 DEF Rounds
  <2>3. Sent = {} /\ Listed = {}
    BY <2>1, Kinds DEF Sent, Listed, Deduplicated
  <2> QED
    BY <2>1, <2>2, <2>3 DEF Pending, Judges
<1>5. CASE RecordJudgments
  <2>1. pc = "judgments" /\ pc' = "alert"
    BY <1>5 DEF RecordJudgments
  <2> QED
    BY <2>1 DEF Pending, Sent, Listed, Answered, Judges
<1>6. CASE RecordAlert \/ RecordRecovery \/ RecordReview \/ OtherMessage
  <2>1. pc \in {"alerted", "recovered", "reviewTold", "rest"} /\ pc' = "rest"
    BY <1>6 DEF RecordAlert, RecordRecovery, RecordReview, OtherMessage, Finish
  <2>2. Listed = {} /\ Sent \subseteq ReviewMessages
    BY <1>1, <2>1 DEF Listed, Sent, Answered, SendingOK
  <2> QED
    BY <1>1, <2>1, <2>2 DEF Pending, Judges
<1> QED
  BY <1>2, <1>3, <1>4, <1>5, <1>6 DEF Files

\* What is marked stays so or is counted as forgotten.
LEMMA FileMarks ==
  ASSUME TypeInv, FlowInv, Files, NEW e \in Events
  PROVE  /\ Marked(e)' => Marked(e)
         /\ forgotten'[e] = IF Marked(e) /\ ~Marked(e)' /\ forgotten[e] < Often
                              THEN forgotten[e] + 1 ELSE forgotten[e]
<1>1. /\ mem.findings \in Seq(Findings) /\ mem.judged \in Seq(Judgments) /\ round \in Rounds /\ SendingOK
      /\ IsFiniteSet(round.findings) /\ IsFiniteSet(round.acked)
  BY DEF TypeInv, MemOK, MemoryOK, Memories, RoundOK
<1>2. Known(mem', e) => Known(mem, e) \/ e \in Sent \union Listed
  <2>1. Contains(mem'.findings, e) => Contains(mem.findings, e) \/ e \in Listed
    <3>1. CASE pc = "found" /\ round.delivered
      <4>1. round.sending \in SUBSET Findings /\ IsFiniteSet(round.sending) /\ Listed = round.sending
        BY <1>1, <3>1 DEF SendingOK, Rounds, Listed
      <4>2. mem'.findings = Recorded(mem.findings, round.sending)
        BY <3>1, RecordDoes
      <4> QED
        BY <1>1, <4>1, <4>2, RecordedList
    <3>2. CASE ~(pc = "found" /\ round.delivered)
      BY <3>2, RecordDoes
    <3> QED
      BY <3>1, <3>2
  <2>2. Contains(mem'.judged, e) => Contains(mem.judged, e) \/ e \in Listed
    <3>1. CASE pc = "judgments"
      <4>1. round.acked \in SUBSET Judgments /\ Listed = round.acked
        BY <1>1, <3>1 DEF Rounds, Listed
      <4>2. mem'.judged = Recorded(mem.judged, round.acked)
        BY <3>1, RecordDoes
      <4> QED
        BY <1>1, <4>1, <4>2, RecordedList
    <3>2. CASE pc # "judgments"
      BY <3>2, RecordDoes
    <3> QED
      BY <3>1, <3>2
  <2>3. mem'.digests \subseteq mem.digests \union Sent
    BY RecordDoes
  <2> QED
    BY <2>1, <2>2, <2>3 DEF Known
<1>3. e \in Sent => Known(mem, e) \/ Known(mem', e)
  BY RecordDoes DEF Known
<1>4. forgotten'[e] = IF (Known(mem, e) \/ e \in Listed) /\ ~Known(mem', e) /\ forgotten[e] < Often
                        THEN forgotten[e] + 1 ELSE forgotten[e]
  BY RecordDoes DEF Forgets
<1>5. /\ e \in Sent \union Listed => Pending(e)
      /\ Pending(e) => Pending(e)' \/ e \in Sent \union Listed
      /\ Pending(e)' => Pending(e) /\ e \notin Listed
  BY PendingRecorded
<1>6. Pending(e) => ~Known(mem, e)
  BY PendingNew
<1>7. Marked(e)' <=> Known(mem', e) \/ Pending(e)'
  BY DEF Marked, Known
<1>8. Marked(e)' => Marked(e)
  BY <1>2, <1>5, <1>7 DEF Marked
<1>9. (Known(mem, e) \/ e \in Listed) /\ ~Known(mem', e) <=> Marked(e) /\ ~Marked(e)'
  BY <1>2, <1>3, <1>5, <1>6, <1>7 DEF Marked
<1> QED
  BY <1>4, <1>8, <1>9

LEMMA MarkedKept ==
  ASSUME TypeInv, FlowInv, Next, ~Sends, ~Crash, NEW e \in Events
  PROVE  /\ Marked(e)' => Marked(e)
         /\ forgotten'[e] = IF Marked(e) /\ ~Marked(e)' /\ forgotten[e] < Often
                              THEN forgotten[e] + 1 ELSE forgotten[e]
<1>1. /\ mem \in Memories /\ round \in Rounds /\ pc \in PCs /\ SendingOK
  BY DEF TypeInv, MemOK, MemoryOK, RoundOK
<1>2. CASE Files
  BY <1>2, FileMarks
<1>3. CASE ~Files
  <2>1. Known(mem', e) <=> Known(mem, e)
    BY <1>3, RecordsKept DEF Known
  <2>2. forgotten' = forgotten
    BY <1>3, OthersForgetNothing
  <2> DEFINE idle == PCs \ ({"noticed", "found", "judged"} \union Judges)
  <2>3. Pending(e)' <=> Pending(e)
    <3>1. CASE pc \in idle /\ pc' \in idle
      BY <3>1 DEF Pending, Judges
    <3>2. CASE UNCHANGED <<pc, round>>
      BY <3>2 DEF Pending
    <3>3. CASE Improve
      <4>1. PICK recovered \in SUBSET {p[1] : p \in problems \intersect round.problems}, handled \in BOOLEAN :
              round' = [round EXCEPT !.recovered = recovered, !.handled = handled]
        BY <3>3 DEF Improve
      <4>2. pc = "notices" /\ pc' \in {"findings", "judgments", "alert"}
        BY <3>3 DEF Improve, Judging
      <4>3. round.acked = {} /\ round'.acked = {}
        BY <1>1, <4>1, <4>2 DEF FlowInv, Telling, Rounds
      <4> QED
        BY <4>2, <4>3 DEF Pending, Judges
    <3>4. Look \/ Abandon \/ Ask \/ Suppress \/ Quiet \/ ReviewFails \/ ReviewRecovers
            => pc \in idle /\ pc' \in idle
      BY DEF Look, Abandon, Ask, Suppress, Quiet, Finish, ReviewFails, ReviewRecovers, PCs, Judges
    <3>5. Discovered \/ Restart \/ CooldownRunsOut \/ JobChanges \/ WorkChanges \/ OpinionChanges
            \/ ReviewerChanges \/ EventAppears \/ EventVanishes \/ Stop => UNCHANGED <<pc, round>>
      BY DEF Discovered, Restart, CooldownRunsOut, JobChanges, WorkChanges, OpinionChanges,
         ReviewerChanges, EventAppears, EventVanishes, Changes, Stop
    <3> QED
      BY <1>3, <3>1, <3>2, <3>3, <3>4, <3>5 DEF Next, Monitor, ReviewSteps, Environment, Sends, Files
  <2>4. Marked(e)' <=> Marked(e)
    BY <2>1, <2>3 DEF Marked, Known
  <2> QED
    BY <2>2, <2>4
<1> QED
  BY <1>2, <1>3

\* What a round has to tell is not marked.
LEMMA Unmarked ==
  ASSUME TypeInv, FlowInv
  PROVE  /\ pc = "notices" => \A e \in round.notices : ~Marked(e)
         /\ pc = "findings" => \A e \in round.findings : ~Marked(e)
         /\ pc = "judgments" => \A e \in round.judgments : ~Marked(e)
<1>1. ASSUME pc = "notices", NEW e \in round.notices
      PROVE  ~Marked(e)
  BY <1>1, Kinds DEF FlowInv, Marked, Known, Pending, Judges
<1>2. ASSUME pc = "findings", NEW e \in round.findings
      PROVE  ~Marked(e)
  BY <1>2, Kinds DEF FlowInv, Marked, Known, Pending, Judges, Telling
<1>3. ASSUME pc = "judgments", NEW e \in round.judgments
      PROVE  ~Marked(e)
  BY <1>3, Kinds DEF FlowInv, Marked, Known, Pending, Judges
<1> QED
  BY <1>1, <1>2, <1>3

\* What a message about the events in S does to what is marked and what was told.
EventsSent(S, d) ==
  /\ \A e \in S : ~Marked(e)
  /\ \A e \in Events : Marked(e)' <=> Marked(e) \/ (d /\ e \in S)
  /\ d => faults' = faults /\ told' = Heard(S)
  /\ ~d => \/ faults' = faults /\ told' = told /\ (stopping \/ S = {})
           \/ faults' = faults + 1 /\ (told' = told \/ told' = Heard(S))

LEMMA SendMarks ==
  ASSUME TypeInv, FlowInv, Sends
  PROVE  \E S \in SUBSET Events, d \in BOOLEAN : EventsSent(S, d)
<1>1. /\ round \in Rounds /\ view \in Views /\ told \in [Events -> 0..Often] /\ again \in 0..Often /\ OperatorOK
      /\ mem' = mem /\ TypeInv'
  BY SendStep, TypeStep DEF TypeInv, RoundOK, OperatorOK, Next, Monitor, ReviewSteps, Sends
<1>2. /\ \A e \in round.notices \union round.judgments : {e} \in SUBSET Events
      /\ round.findings \in SUBSET Events
  BY <1>1 DEF Rounds, Events
<1>3. ASSUME NEW S \in SUBSET Events, NEW next, pc \in {"notices", "findings", "judgments"},
             next = (IF pc = "notices" THEN "noticed" ELSE IF pc = "findings" THEN "found" ELSE "judged"),
             \A e \in S : ~Marked(e), Send(S, view, Heard(S), again, next)
      PROVE  \E d \in BOOLEAN : EventsSent(S, d)
  <2>1. S \in SUBSET (Events \union ReviewMessages) /\ Heard(S) \in [Events -> 0..Often]
    BY <1>1, HeardOK
  <2>2. /\ pc' = next
        /\ \E d \in BOOLEAN :
             /\ round' = [round EXCEPT !.sending = S, !.delivered = d]
             /\ d => ~stopping /\ faults' = faults /\ view' = view /\ told' = Heard(S) /\ again' = again
             /\ ~d => \/ stopping /\ UNCHANGED <<view, told, again, faults>>
                      \/ faults' = faults + 1 /\ UNCHANGED <<view, told, again>>
                      \/ faults' = faults + 1 /\ view' = view /\ told' = Heard(S) /\ again' = again
    BY <1>1, <1>3, <2>1, SendDoes
  <2>3. PICK d \in BOOLEAN :
             /\ round' = [round EXCEPT !.sending = S, !.delivered = d]
             /\ d => faults' = faults /\ told' = Heard(S)
             /\ ~d => \/ stopping /\ faults' = faults /\ told' = told
                      \/ faults' = faults + 1 /\ (told' = told \/ told' = Heard(S))
    BY <2>2
  <2>4. round'.sending = S /\ round'.delivered = d /\ round'.acked = round.acked
    BY <1>1, <2>3 DEF Rounds
  <2>5. \A e \in Events : Marked(e)' <=> Marked(e) \/ (d /\ e \in S)
    BY <1>1, <1>3, <2>2, <2>4 DEF Marked, Known, Pending, Judges
  <2> QED
    BY <1>3, <2>3, <2>5 DEF EventsSent
<1>4. CASE SendNotice
  <2>1. PICK e \in round.notices : Send({e}, view, Heard({e}), again, "noticed") /\ pc = "notices"
    BY <1>4 DEF SendNotice
  <2>2. {e} \in SUBSET Events /\ ~Marked(e)
    BY <1>2, <2>1, Unmarked
  <2> QED
    BY <1>3, <2>1, <2>2
<1>5. CASE SendFindings
  <2>1. Send(round.findings, view, Heard(round.findings), again, "found") /\ pc = "findings"
    BY <1>5 DEF SendFindings
  <2>2. \A e \in round.findings : ~Marked(e)
    BY <2>1, Unmarked
  <2> QED
    BY <1>2, <1>3, <2>1, <2>2
<1>6. CASE SendJudgment
  <2>1. PICK e \in round.judgments : Send({e}, view, Heard({e}), again, "judged") /\ pc = "judgments"
    BY <1>6 DEF SendJudgment
  <2>2. {e} \in SUBSET Events /\ ~Marked(e)
    BY <1>2, <2>1, Unmarked
  <2> QED
    BY <1>3, <2>1, <2>2
<1>7. CASE SendAlert \/ SendRecovery \/ TellReview
  <2>1. /\ pc \in {"alert", "reviewing"} /\ pc' \in {"alerted", "recovered", "reviewTold"} /\ told' = told
        /\ faults' \in {faults, faults + 1}
    BY <1>7 DEF SendAlert, SendRecovery, TellReview, Send, operator, disturbed
  <2>2. \A e \in Events : Marked(e)' <=> Marked(e)
    BY <1>1, <2>1 DEF Marked, Known, Pending, Judges
  <2>3. EventsSent({}, FALSE)
    BY <2>1, <2>2 DEF EventsSent
  <2> QED
    BY <2>3
<1> QED
  BY <1>4, <1>5, <1>6, <1>7 DEF Sends

ToldInv == \A e \in Events : told[e] <= faults + forgotten[e] + (IF Marked(e) THEN 1 ELSE 0)

LEMMA ToldStep ==
  ASSUME TypeInv, FlowInv, ToldInv, Next
  PROVE  ToldInv'
<1>1. /\ told \in [Events -> 0..Often] /\ faults \in Nat /\ forgotten \in [Events -> 0..Often]
      /\ forgotten' \in [Events -> 0..Often] /\ Often \in Nat
  BY ForgottenStep, AlertConstants DEF TypeInv, OperatorOK, ForgottenOK
<1>2. SUFFICES ASSUME NEW e \in Events
               PROVE  told'[e] <= faults' + forgotten'[e] + (IF Marked(e)' THEN 1 ELSE 0)
  BY DEF ToldInv
<1>3. /\ told[e] <= faults + forgotten[e] + (IF Marked(e) THEN 1 ELSE 0) /\ told[e] \in 0..Often
      /\ forgotten[e] \in 0..Often
  BY <1>1 DEF ToldInv
<1>4. CASE Sends
  <2>1. PICK S \in SUBSET Events, d \in BOOLEAN : EventsSent(S, d)
    BY <1>4, SendMarks
  <2>2. Heard(S)[e] = (IF e \in S /\ told[e] < Often THEN told[e] + 1 ELSE told[e])
    BY DEF Heard
  <2>3. /\ e \in S => ~Marked(e)
        /\ Marked(e)' <=> Marked(e) \/ (d /\ e \in S)
        /\ d => faults' = faults /\ told' = Heard(S)
        /\ ~d => \/ faults' = faults /\ told' = told
                 \/ faults' = faults + 1 /\ (told' = told \/ told' = Heard(S))
        /\ forgotten' = forgotten
    BY <1>4, <2>1, SendStep DEF EventsSent
  <2> HIDE DEF Marked
  <2>4. CASE e \in S
    <3>1. told[e] <= faults + forgotten[e]
      BY <1>1, <1>3, <2>3, <2>4
    <3>2. told'[e] \in {told[e], told[e] + 1}
      BY <2>2, <2>3
    <3>3. CASE faults' = faults + 1
      BY <1>1, <1>3, <2>3, <3>1, <3>2, <3>3
    <3>4. CASE faults' = faults /\ told' = told
      BY <1>1, <1>3, <2>3, <3>1, <3>4
    <3>5. CASE d /\ faults' = faults
      BY <1>1, <1>3, <2>3, <2>4, <3>1, <3>2, <3>5
    <3> QED
      BY <2>3, <3>3, <3>4, <3>5
  <2>5. CASE e \notin S
    <3>1. told'[e] = told[e] /\ (Marked(e)' <=> Marked(e)) /\ faults' \in {faults, faults + 1}
      BY <2>2, <2>3, <2>5
    <3> QED
      BY <1>1, <1>3, <2>3, <3>1
  <2> QED
    BY <2>4, <2>5
<1>5. CASE Crash
  <2>1. told' = told /\ faults' = faults + 1 /\ forgotten' = forgotten
    BY <1>5 DEF Crash, operator
  <2> HIDE DEF Marked
  <2> QED
    BY <1>1, <1>3, <2>1
<1>6. CASE ~Sends /\ ~Crash
  <2>1. /\ Marked(e)' => Marked(e)
        /\ forgotten'[e] = IF Marked(e) /\ ~Marked(e)' /\ forgotten[e] < Often
                             THEN forgotten[e] + 1 ELSE forgotten[e]
    BY <1>6, MarkedKept
  <2>2. told' = told /\ faults' \in {faults, faults + 1}
    BY <1>6, QuietStep
  <2> HIDE DEF Marked
  <2> QED
    BY <1>1, <1>3, <2>1, <2>2
<1> QED
  BY <1>4, <1>5, <1>6

\* A finding, a verdict and the outcome of a strategy or a rotation reach the
\* operator once, and once more for each crash, failed send and stop, and for each
\* time the record of it had to make room, at most.
THEOREM EventsAreToldOnce == Spec => []ToldOnce
<1> DEFINE Inv == TypeInv /\ FlowInv /\ ToldInv
<1>1. Init => Inv
  <2> SUFFICES ASSUME Init
               PROVE  Inv
    OBVIOUS
  <2>1. TypeInv
    BY InitType
  <2>2. FlowInv
    BY DEF Init, FlowInv, Telling, Judges
  <2>3. ToldInv
    BY DEF Init, ToldInv
  <2> QED
    BY <2>1, <2>2, <2>3
<1>2. Inv /\ [Next]_vars => Inv'
  <2> SUFFICES ASSUME Inv, [Next]_vars
               PROVE  Inv'
    OBVIOUS
  <2>1. TypeInv'
    BY TypeStep
  <2>2. CASE Next
    BY <2>1, <2>2, FlowStep, ToldStep
  <2>3. CASE UNCHANGED vars
    <3>1. UNCHANGED <<pc, round, mem, told, faults, forgotten>>
      BY <2>3 DEF vars
    <3> QED
      BY <2>1, <3>1 DEF FlowInv, ToldInv, Marked, Known, Pending
  <2> QED
    BY <2>2, <2>3
<1>3. Inv => ToldOnce
  <2> SUFFICES ASSUME Inv, NEW e \in Events
               PROVE  told[e] <= 1 + faults + forgotten[e]
    BY DEF ToldOnce
  <2>1. /\ told[e] <= faults + forgotten[e] + (IF Marked(e) THEN 1 ELSE 0)
        /\ told[e] \in Nat /\ faults \in Nat /\ forgotten[e] \in Nat
    BY AlertConstants DEF ToldInv, TypeInv, OperatorOK, ForgottenOK
  <2> QED
    BY <2>1
<1> QED
  BY <1>1, <1>2, <1>3, PTL DEF Spec

-----------------------------------------------------------------------------
(* As long as nothing was disturbed the operator knows what is on record.       *)

HealthKnown ==
  /\ pc = "alerted" => view.health = IncidentKey
  /\ pc = "recovered" => view.health = None
  /\ pc \notin {"alerted", "recovered"} =>
       view.health = mem.incident.key /\ (mem.incident.delivered <=> mem.incident.key # None)

\* The digest of an outage is there only while it is open, unless it had to make
\* room, and that of a recovery only while it is not; between a message and the
\* record of it, its digest is not there.
ReviewKnown ==
  /\ mem.review_down => "cycle_review_recovered" \notin mem.digests
  /\ ~mem.review_down => "cycle_review_unavailable" \notin mem.digests
  /\ pc \in {"reviewing", "reviewTold"} =>
       /\ round.sending \intersect mem.digests = {}
       /\ mem.review_down <=> round.sending = {"cycle_review_unavailable"}
  /\ pc # "reviewing" => (view.review = "fails" <=> mem.review_down)

\* What was sent has arrived and was acknowledged.
Acknowledged ==
  /\ ~stopping
  /\ pc \in {"noticed", "found", "judged", "alerted", "recovered", "reviewTold"} => round.delivered

ToldKnown ==
  \A e \in Events :
    told[e] = IF Marked(e) /\ forgotten[e] < Often THEN forgotten[e] + 1 ELSE forgotten[e]

\* No fault so far, and none in this step.
Calm == faults = 0 /\ faults' = 0

LEMMA CalmStep ==
  ASSUME TypeInv, Next, faults' = 0
  PROVE  Calm /\ ~Crash /\ ~Stop /\ (ReviewFails => ~StopArrives)
<1>1. faults \in Nat
  BY DEF TypeInv, OperatorOK
<1>2. faults' \in {faults, faults + 1}
  <2>1. CASE Sends
    <3>1. SendOutcomes \subseteq {"ok", "lost", "doubt", "stopped"}
      BY DEF SendOutcomes
    <3>2. (\E sending, newView, newTold, newAgain, next : Send(sending, newView, newTold, newAgain, next))
             \/ UNCHANGED disturbed
      BY <2>1 DEF Sends, SendNotice, SendFindings, SendJudgment, SendAlert, SendRecovery, TellReview
    <3> QED
      BY <3>1, <3>2 DEF Send, disturbed
  <2>2. CASE ~Sends
    BY <2>2, QuietStep
  <2> QED
    BY <2>1, <2>2
<1>3. faults = 0
  BY <1>1, <1>2
<1>4. ~StopArrives /\ ~Crash
  BY <1>3 DEF StopArrives, Crash
<1> QED
  BY <1>3, <1>4 DEF Calm, Stop

\* A message of an undisturbed agent arrives and is acknowledged.
LEMMA CalmSend ==
  ASSUME Calm, Acknowledged, TypeInv, NEW sending, NEW newView, NEW newTold, NEW newAgain, NEW next,
         Send(sending, newView, newTold, newAgain, next)
  PROVE  round'.delivered /\ view' = newView /\ told' = newTold /\ pc' = next
<1>1. PICK outcome \in SendOutcomes :
        /\ faults' = IF outcome \in {"lost", "doubt"} THEN faults + 1 ELSE faults
        /\ IF outcome \in {"ok", "doubt"}
             THEN view' = newView /\ told' = newTold /\ again' = newAgain
             ELSE UNCHANGED operator
        /\ round' = [round EXCEPT !.sending = sending, !.delivered = outcome = "ok"]
        /\ pc' = next
  BY DEF Send
<1>2. outcome = "ok"
  BY <1>1 DEF Calm, Acknowledged, SendOutcomes
<1>3. round \in Rounds
  BY DEF TypeInv, RoundOK
<1>4. round'.delivered = (outcome = "ok")
  BY <1>1, <1>3 DEF Rounds
<1> QED
  BY <1>1, <1>2, <1>4

LEMMA AcknowledgedStep ==
  ASSUME TypeInv, Acknowledged, ReviewKnown, Next, faults' = 0
  PROVE  Acknowledged'
<1>1. Calm /\ ~Crash /\ ~Stop /\ (ReviewFails => ~StopArrives)
  BY CalmStep
<1>2. ~stopping'
  <2>1. CASE Sends
    BY <2>1, SendStep DEF Acknowledged
  <2>2. CASE ReviewFails \/ Restart
    BY <1>1, <2>2 DEF ReviewFails, Restart, Acknowledged
  <2>3. Files => stopping' = stopping
    BY RecordDoes
  <2>4. Look \/ Abandon \/ Ask \/ Improve \/ Suppress \/ Quiet \/ ReviewRecovers \/ Discovered
          \/ CooldownRunsOut \/ JobChanges \/ WorkChanges \/ OpinionChanges \/ ReviewerChanges
          \/ EventAppears \/ EventVanishes => stopping' = stopping
    BY DEF Look, Abandon, Ask, Improve, Suppress, Quiet, ReviewRecovers, Discovered, CooldownRunsOut,
       JobChanges, WorkChanges, OpinionChanges, ReviewerChanges, EventAppears, EventVanishes, Changes
  <2> QED
    BY <1>1, <2>1, <2>2, <2>3, <2>4 DEF Next, Monitor, ReviewSteps, Environment, Sends, Files, Acknowledged
<1>3. CASE Sends
  <2>1. CASE SendNotice \/ SendFindings \/ SendJudgment \/ SendAlert \/ SendRecovery
    <3>1. \E sending, newView, newTold, newAgain, next : Send(sending, newView, newTold, newAgain, next)
      BY <2>1 DEF SendNotice, SendFindings, SendJudgment, SendAlert, SendRecovery
    <3> QED
      BY <1>1, <1>2, <3>1, CalmSend DEF Acknowledged
  <2>2. CASE TellReview
    <3>1. ~(round.sending \subseteq mem.digests)
      BY <2>2 DEF TellReview, ReviewKnown, TypeInv, RoundOK, SendingOK
    <3>2. \E sending, newView, newTold, newAgain, next : Send(sending, newView, newTold, newAgain, next)
      BY <2>2, <3>1 DEF TellReview
    <3> QED
      BY <1>1, <1>2, <3>2, CalmSend DEF Acknowledged
  <2> QED
    BY <1>3, <2>1, <2>2 DEF Sends
<1>4. Look \/ Abandon \/ Ask \/ RecordNotice \/ Improve \/ RecordFindings \/ RecordJudgment \/ RecordJudgments
        \/ Suppress \/ RecordAlert \/ RecordRecovery \/ Quiet \/ ReviewFails \/ ReviewRecovers \/ RecordReview
        => pc' \in {"rest", "ask", "notices", "findings", "judgments", "alert", "reviewing"}
  BY DEF Look, Abandon, Ask, RecordNotice, Improve, Judging, RecordFindings, KeepFindings, RecordJudgment,
     RecordJudgments, Suppress, RecordAlert, RecordRecovery, Quiet, Finish, ReviewFails, ReviewRecovers, RecordReview
<1>5. Discovered \/ Restart \/ CooldownRunsOut \/ JobChanges \/ WorkChanges
         \/ OpinionChanges \/ ReviewerChanges \/ EventAppears \/ EventVanishes \/ OtherMessage
         => pc' = pc /\ round' = round
  BY DEF Discovered, Restart, CooldownRunsOut, JobChanges, WorkChanges,
     OpinionChanges, ReviewerChanges, EventAppears, EventVanishes, OtherMessage, Changes
<1> QED
  BY <1>1, <1>2, <1>3, <1>4, <1>5 DEF Next, Monitor, ReviewSteps, Environment, Sends, Acknowledged

LEMMA HealthStep ==
  ASSUME TypeInv, Acknowledged, HealthKnown, Next, faults' = 0
  PROVE  HealthKnown'
<1>1. Calm /\ ~Crash
  BY CalmStep
<1>2. mem \in Memories /\ round \in Rounds
  BY DEF TypeInv, MemOK, MemoryOK, RoundOK
<1>3. CASE OtherSteps
  <2>1. /\ view'.health = view.health /\ mem'.incident = mem.incident
        /\ pc \in {"alerted", "recovered"} => pc' = pc /\ round' = round
        /\ pc' \in {"alerted", "recovered"} => pc' = pc /\ round' = round
    BY <1>3, OtherStep
  <2>2. round' = round => IncidentKey' = IncidentKey
    BY DEF IncidentKey, Remaining
  <2> QED
    BY <2>1, <2>2 DEF HealthKnown
<1>4. CASE SendAlert
  <2>1. view' = [view EXCEPT !.health = IncidentKey] /\ pc' = "alerted" /\ pc = "alert"
    BY <1>1, <1>4, CalmSend DEF SendAlert
  <2>2. \E d \in BOOLEAN : round' = [round EXCEPT !.sending = {}, !.delivered = d]
    BY <1>4, IncidentSent
  <2>3. IncidentKey' = IncidentKey
    BY <1>2, <2>2 DEF Rounds, IncidentKey, Remaining
  <2>4. view'.health = IncidentKey
    BY <2>1 DEF TypeInv, OperatorOK, Views
  <2> QED
    BY <2>1, <2>3, <2>4 DEF HealthKnown
<1>5. CASE SendRecovery
  <2>1. view' = [view EXCEPT !.health = None] /\ pc' = "recovered"
    BY <1>1, <1>5, CalmSend DEF SendRecovery
  <2>2. view'.health = None
    BY <2>1 DEF TypeInv, OperatorOK, Views
  <2> QED
    BY <2>1, <2>2 DEF HealthKnown
<1>9. ASSUME NEW t \in Noted, pc \in Answered
      PROVE  t \in Memories
  BY <1>9, NotedStates DEF FiledFrom, MemoryOK
<1>6. CASE RecordAlert
  <2> DEFINE new == [key |-> IncidentKey, delivered |-> round.delivered, severity |-> EffectiveSeverity]
  <2>1. /\ pc = "alerted" /\ pc' = "rest" /\ view' = view
        /\ \E noted \in Noted : mem' = [noted EXCEPT !.incident = new]
    BY <1>6 DEF RecordAlert, Finish, operator
  <2>5. mem'.incident = new
    BY <1>9, <2>1 DEF Memories, Answered
  <2>2. mem'.incident.key = IncidentKey /\ mem'.incident.delivered = round.delivered
    BY <2>5
  <2>3. IncidentKey # None
    BY <2>1, IncidentOK DEF TypeInv, Asked, PCs
  <2>4. round.delivered /\ view.health = IncidentKey
    BY <2>1 DEF Acknowledged, HealthKnown
  <2> QED
    BY <2>1, <2>2, <2>3, <2>4 DEF HealthKnown
<1>7. CASE RecordRecovery
  <2>1. /\ pc = "recovered" /\ pc' = "rest" /\ view' = view
        /\ \E noted \in Noted :
             mem' = IF round.delivered THEN [noted EXCEPT !.incident = NoIncident] ELSE noted
    BY <1>7 DEF RecordRecovery, Finish, operator
  <2>2. round.delivered /\ view.health = None
    BY <2>1 DEF Acknowledged, HealthKnown
  <2>3. mem'.incident = NoIncident
    BY <1>9, <2>1, <2>2 DEF Memories, Answered
  <2>4. mem'.incident.key = None /\ ~mem'.incident.delivered
    BY <2>3 DEF NoIncident
  <2> QED
    BY <2>1, <2>2, <2>4 DEF HealthKnown
<1>8. CASE Quiet
  <2>1. /\ pc = "alert" /\ pc' = "rest" /\ view' = view
        /\ mem' = mem \/ (~mem.incident.delivered /\ mem' = [mem EXCEPT !.incident = NoIncident])
    BY <1>8 DEF Quiet, Finish, operator
  <2>2. NoIncident.key = None /\ ~NoIncident.delivered
    BY DEF NoIncident
  <2> QED
    BY <1>2, <2>1, <2>2 DEF HealthKnown, Memories
<1> QED
  BY <1>1, <1>3, <1>4, <1>5, <1>6, <1>7, <1>8 DEF Next, Monitor, Environment, OtherSteps

\* What only the review of a batch changes.
LEMMA ReviewKept ==
  ASSUME TypeInv, Acknowledged, Next, faults' = 0, ~ReviewFails, ~ReviewRecovers, ~TellReview, ~RecordReview
  PROVE  /\ mem'.review_down = mem.review_down /\ view'.review = view.review
         /\ \A m \in ReviewMessages : m \in mem'.digests => m \in mem.digests
         /\ \/ UNCHANGED <<pc, round>>
            \/ pc \notin {"reviewing", "reviewTold"} /\ pc' \notin {"reviewing", "reviewTold"}
<1>1. /\ mem \in Memories /\ round \in Rounds /\ view \in Views
      /\ Notices \intersect ReviewMessages = {}
  BY AlertConstants DEF TypeInv, MemOK, MemoryOK, RoundOK, OperatorOK, Events
<1>2. Calm /\ ~Crash /\ ~Stop
  BY CalmStep
<1>3. CASE SendNotice \/ SendFindings \/ SendJudgment
  <2>1. CASE SendNotice
    <3>1. PICK n \in round.notices : Send({n}, view, Heard({n}), again, "noticed")
      BY <2>1 DEF SendNotice
    <3>2. view' = view /\ pc' = "noticed"
      BY <1>2, <3>1, CalmSend
    <3> QED
      BY <2>1, <3>2 DEF SendNotice
  <2>2. CASE SendFindings
    <3>1. view' = view /\ pc' = "found"
      BY <1>2, <2>2, CalmSend DEF SendFindings
    <3> QED
      BY <2>2, <3>1 DEF SendFindings
  <2>3. CASE SendJudgment
    <3>1. PICK e \in round.judgments : Send({e}, view, Heard({e}), again, "judged")
      BY <2>3 DEF SendJudgment
    <3>2. view' = view /\ pc' = "judged"
      BY <1>2, <3>1, CalmSend
    <3> QED
      BY <2>3, <3>2 DEF SendJudgment
  <2> QED
    BY <1>3, <2>1, <2>2, <2>3
<1>4. CASE SendAlert \/ SendRecovery
  <2>1. CASE SendAlert
    <3>1. view' = [view EXCEPT !.health = IncidentKey] /\ pc' = "alerted"
      BY <1>2, <2>1, CalmSend DEF SendAlert
    <3> QED
      BY <1>1, <2>1, <3>1 DEF SendAlert, Views
  <2>2. CASE SendRecovery
    <3>1. view' = [view EXCEPT !.health = None] /\ pc' = "recovered"
      BY <1>2, <2>2, CalmSend DEF SendRecovery
    <3> QED
      BY <1>1, <2>2, <3>1 DEF SendRecovery, Views
  <2> QED
    BY <1>4, <2>1, <2>2
<1>5. ASSUME ~Sends
      PROVE  mem'.review_down = mem.review_down /\ \A m \in ReviewMessages : m \in mem'.digests => m \in mem.digests
  <2> DEFINE Same == mem'.review_down = mem.review_down /\ \A m \in ReviewMessages : m \in mem'.digests => m \in mem.digests
  <2>1. ASSUME Look PROVE Same
    <3>1. mem' = [mem EXCEPT !.starving = Starves]
      BY <2>1 DEF Look
    <3> QED
      BY <1>1, <3>1 DEF Memories
  <2>2. ASSUME Ask PROVE Same
    <3>1. \E n : mem' = [mem EXCEPT !.failures = n]
      BY <2>2 DEF Ask
    <3> QED
      BY <1>1, <3>1 DEF Memories
  <2>3. ASSUME Files PROVE Same
    <3>1. mem'.review_down = mem.review_down /\ mem'.digests \subseteq mem.digests \union Sent
      BY <2>3, RecordDoes
    <3>2. pc \notin {"reviewing", "reviewTold"}
      BY <2>3 DEF Files, RecordNotice, RecordFindings, KeepFindings, RecordJudgment, RecordJudgments,
         RecordAlert, RecordRecovery, OtherMessage
    <3>3. Sent \intersect ReviewMessages = {}
      <4>1. SendingOK
        BY DEF TypeInv, RoundOK
      <4>2. pc \in Answered => round.sending \subseteq Events
        BY <3>2, <4>1, Kinds DEF SendingOK, Answered, Events
      <4> QED
        BY <4>2, AlertConstants DEF Sent
    <3> QED
      BY <3>1, <3>3
  <2>5. ASSUME Quiet PROVE Same
    <3>1. mem' = mem \/ \E i : mem' = [mem EXCEPT !.incident = i]
      BY <2>5 DEF Quiet, Finish
    <3> QED
      BY <1>1, <3>1 DEF Memories
  <2>6. ASSUME Discovered PROVE Same
    <3>1. mem' = [mem EXCEPT !.searched = TRUE]
      BY <2>6 DEF Discovered
    <3> QED
      BY <1>1, <3>1 DEF Memories
  <2>7. Abandon \/ Improve \/ Suppress \/ Restart => mem' = mem
    BY DEF Abandon, Improve, Suppress, Finish, Restart
  <2>8. CooldownRunsOut \/ JobChanges \/ WorkChanges \/ OpinionChanges \/ ReviewerChanges
           \/ EventAppears \/ EventVanishes => mem' = mem
    BY DEF CooldownRunsOut, JobChanges, WorkChanges, OpinionChanges, ReviewerChanges, EventAppears,
       EventVanishes, Changes
  <2>9. mem' = mem => Same
    OBVIOUS
  <2> HIDE DEF Same
  <2>10. Same
    BY <1>2, <1>5, <2>1, <2>2, <2>3, <2>5, <2>6, <2>7, <2>8, <2>9
       DEF Next, Monitor, ReviewSteps, Environment, Sends, Files
  <2> QED
    BY <2>10 DEF Same
<1>6. ASSUME ~Sends
      PROVE  \/ UNCHANGED <<pc, round>>
             \/ pc \notin {"reviewing", "reviewTold"} /\ pc' \notin {"reviewing", "reviewTold"}
  <2>1. Look \/ Abandon \/ Ask \/ RecordNotice \/ Improve \/ RecordFindings \/ RecordJudgment \/ RecordJudgments
          \/ Suppress \/ RecordAlert \/ RecordRecovery \/ Quiet
          => pc \notin {"reviewing", "reviewTold"} /\ pc' \notin {"reviewing", "reviewTold"}
    BY DEF Look, Abandon, Ask, RecordNotice, Improve, Judging, RecordFindings, KeepFindings, RecordJudgment,
       RecordJudgments, Suppress, RecordAlert, RecordRecovery, Quiet, Finish
  <2>2. Discovered \/ Restart \/ CooldownRunsOut \/ JobChanges \/ WorkChanges \/ OpinionChanges
          \/ ReviewerChanges \/ EventAppears \/ EventVanishes \/ OtherMessage => UNCHANGED <<pc, round>>
    BY DEF Discovered, Restart, CooldownRunsOut, JobChanges, WorkChanges, OpinionChanges,
       ReviewerChanges, EventAppears, EventVanishes, OtherMessage, Changes
  <2> QED
    BY <1>2, <1>6, <2>1, <2>2 DEF Next, Monitor, ReviewSteps, Environment, Sends
<1>7. CASE ~Sends
  <2>1. view'.review = view.review
    BY <1>7, QuietStep
  <2> QED
    BY <1>5, <1>6, <1>7, <2>1
<1> QED
  BY <1>3, <1>4, <1>7 DEF Sends

LEMMA ReviewStep ==
  ASSUME TypeInv, Acknowledged, ReviewKnown, Next, faults' = 0
  PROVE  ReviewKnown'
<1>1. /\ mem \in Memories /\ round \in Rounds /\ view \in Views /\ SendingOK
  BY DEF TypeInv, MemOK, MemoryOK, RoundOK, OperatorOK
<1>2. Calm /\ ~Crash /\ ~Stop /\ (ReviewFails => ~StopArrives)
  BY CalmStep
<1>3. CASE ReviewFails
  <2> DEFINE kept == IF mem.review_down THEN mem.digests ELSE mem.digests \ {"cycle_review_recovered"}
  <2>1. /\ pc = "rest" /\ pc' = "reviewing" /\ "cycle_review_unavailable" \notin mem.digests
        /\ mem' = [mem EXCEPT !.review_down = TRUE, !.digests = kept]
        /\ round' = [NoRound EXCEPT !.sending = {"cycle_review_unavailable"}]
    BY <1>3 DEF ReviewFails
  <2>2. kept \subseteq mem.digests /\ "cycle_review_recovered" \notin kept
    BY DEF ReviewKnown
  <2> HIDE DEF kept
  <2>3. mem'.review_down /\ mem'.digests = kept
    BY <1>1, <2>1 DEF Memories
  <2>4. round'.sending = {"cycle_review_unavailable"}
    BY <2>1 DEF NoRound
  <2> QED
    BY <2>1, <2>2, <2>3, <2>4 DEF ReviewKnown
<1>4. CASE ReviewRecovers
  <2>1. /\ pc = "rest" /\ pc' = "reviewing" /\ mem.review_down
        /\ mem' = [mem EXCEPT !.review_down = FALSE, !.digests = @ \ {"cycle_review_unavailable"}]
        /\ round' = [NoRound EXCEPT !.sending = {"cycle_review_recovered"}]
    BY <1>4 DEF ReviewRecovers
  <2>2. "cycle_review_recovered" \notin mem.digests
    BY <2>1 DEF ReviewKnown
  <2>3. mem'.review_down = FALSE /\ mem'.digests = mem.digests \ {"cycle_review_unavailable"}
    BY <1>1, <2>1 DEF Memories
  <2>4. round'.sending = {"cycle_review_recovered"}
    BY <2>1 DEF NoRound
  <2>5. {"cycle_review_recovered"} # {"cycle_review_unavailable"}
    OBVIOUS
  <2> QED
    BY <2>1, <2>2, <2>3, <2>4, <2>5 DEF ReviewKnown
<1>5. CASE TellReview
  <2> DEFINE new == [view EXCEPT !.review = IF mem.review_down THEN "fails" ELSE "works"]
  <2>1. /\ pc = "reviewing" /\ mem' = mem
        /\ ~(round.sending \subseteq mem.digests) => Send(round.sending, new, told, again, "reviewTold")
    BY <1>5 DEF TellReview
  <2>2. ~(round.sending \subseteq mem.digests)
    BY <1>1, <2>1 DEF ReviewKnown, SendingOK
  <2>3. new.review = (IF mem.review_down THEN "fails" ELSE "works")
    BY <1>1 DEF Views
  <2> HIDE DEF new
  <2>4. view' = new /\ pc' = "reviewTold"
    BY <1>2, <2>1, <2>2, CalmSend
  <2>5. \E d \in BOOLEAN : round' = [round EXCEPT !.sending = round.sending, !.delivered = d]
    BY <2>1, <2>2, <2>4 DEF Send
  <2>6. round'.sending = round.sending
    BY <1>1, <2>5 DEF Rounds
  <2> QED
    BY <2>1, <2>3, <2>4, <2>6 DEF ReviewKnown
<1>6. CASE RecordReview
  <2>1. pc = "reviewTold" /\ pc' = "rest" /\ view' = view
    BY <1>6 DEF RecordReview, operator
  <2>2. mem'.review_down = mem.review_down /\ mem'.digests \subseteq mem.digests \union round.sending
    BY <1>6, RecordDoes DEF Files, Sent
  <2>3. \E m \in ReviewMessages : round.sending = {m}
    BY <1>1, <2>1 DEF SendingOK
  <2>4. /\ ~mem.review_down => "cycle_review_unavailable" \notin mem.digests
        /\ mem.review_down <=> round.sending = {"cycle_review_unavailable"}
        /\ mem.review_down => "cycle_review_recovered" \notin mem.digests
        /\ view.review = "fails" <=> mem.review_down
    BY <2>1 DEF ReviewKnown
  <2>5. mem'.review_down => "cycle_review_recovered" \notin mem'.digests
    BY <2>2, <2>4
  <2>6. ~mem'.review_down => "cycle_review_unavailable" \notin mem'.digests
    BY <2>2, <2>3, <2>4
  <2> QED
    BY <2>1, <2>2, <2>4, <2>5, <2>6 DEF ReviewKnown
<1>7. CASE ~ReviewFails /\ ~ReviewRecovers /\ ~TellReview /\ ~RecordReview
  <2>1. /\ mem'.review_down = mem.review_down /\ view'.review = view.review
        /\ \A m \in ReviewMessages : m \in mem'.digests => m \in mem.digests
        /\ \/ UNCHANGED <<pc, round>>
           \/ pc \notin {"reviewing", "reviewTold"} /\ pc' \notin {"reviewing", "reviewTold"}
    BY <1>7, ReviewKept
  <2>2. /\ "cycle_review_unavailable" \in mem'.digests => "cycle_review_unavailable" \in mem.digests
        /\ "cycle_review_recovered" \in mem'.digests => "cycle_review_recovered" \in mem.digests
    BY <2>1 DEF ReviewMessages
  <2>3. CASE UNCHANGED <<pc, round>>
    <3>1. pc \in {"reviewing", "reviewTold"} => \E m \in ReviewMessages : round.sending = {m}
      BY <1>1 DEF SendingOK
    <3>2. pc \in {"reviewing", "reviewTold"} => round'.sending \intersect mem'.digests = {}
      BY <2>1, <2>3, <3>1 DEF ReviewKnown
    <3> QED
      BY <2>1, <2>2, <2>3, <3>2 DEF ReviewKnown
  <2>4. CASE pc \notin {"reviewing", "reviewTold"} /\ pc' \notin {"reviewing", "reviewTold"}
    BY <2>1, <2>2, <2>4 DEF ReviewKnown
  <2> QED
    BY <2>1, <2>3, <2>4
<1> QED
  BY <1>3, <1>4, <1>5, <1>6, <1>7

LEMMA ToldKnownStep ==
  ASSUME TypeInv, FlowInv, Acknowledged, ToldKnown, Next, faults' = 0
  PROVE  ToldKnown'
<1>1. Calm /\ ~Crash
  BY CalmStep
<1>2. told \in [Events -> 0..Often] /\ forgotten \in [Events -> 0..Often] /\ Often \in Nat
  BY AlertConstants DEF TypeInv, OperatorOK, ForgottenOK
<1>3. SUFFICES ASSUME NEW e \in Events
               PROVE  told'[e] = IF Marked(e)' /\ forgotten'[e] < Often
                                   THEN forgotten'[e] + 1 ELSE forgotten'[e]
  BY DEF ToldKnown
<1>4. /\ told[e] = IF Marked(e) /\ forgotten[e] < Often THEN forgotten[e] + 1 ELSE forgotten[e]
      /\ told[e] \in 0..Often /\ forgotten[e] \in 0..Often
  BY <1>2 DEF ToldKnown
<1>5. CASE Sends
  <2>1. PICK S \in SUBSET Events, d \in BOOLEAN : EventsSent(S, d)
    BY <1>5, SendMarks
  <2>2. /\ e \in S => ~Marked(e)
        /\ Marked(e)' <=> Marked(e) \/ (d /\ e \in S)
        /\ d => told' = Heard(S)
        /\ ~d => told' = told /\ (stopping \/ S = {})
    <3>1. faults' # faults + 1
      BY <1>1 DEF Calm
    <3> QED
      BY <2>1, <3>1 DEF EventsSent
  <2>7. forgotten' = forgotten
    BY <1>5, SendStep
  <2>3. ~d => S = {}
    BY <2>2 DEF Acknowledged
  <2>4. Heard(S)[e] = (IF e \in S /\ told[e] < Often THEN told[e] + 1 ELSE told[e])
    BY DEF Heard
  <2> HIDE DEF Marked
  <2>5. CASE e \in S
    BY <1>2, <1>4, <2>2, <2>3, <2>4, <2>5, <2>7
  <2>6. CASE e \notin S
    BY <1>4, <2>2, <2>4, <2>6, <2>7
  <2> QED
    BY <2>5, <2>6
<1>6. CASE ~Sends
  <2>1. /\ Marked(e)' => Marked(e)
        /\ forgotten'[e] = IF Marked(e) /\ ~Marked(e)' /\ forgotten[e] < Often
                             THEN forgotten[e] + 1 ELSE forgotten[e]
    BY <1>1, <1>6, MarkedKept
  <2>2. told' = told
    BY <1>6, QuietStep
  <2> HIDE DEF Marked
  <2> QED
    BY <1>2, <1>4, <2>1, <2>2
<1> QED
  BY <1>5, <1>6

\* In an agent that nothing disturbed the operator believes, whenever the monitor
\* and the reviews are done, just what is on record: the incident and which one,
\* whether the review of the batches is down, and every event as often as it came
\* on record, there still or forgotten for want of room.
THEOREM OperatorKnowsTheRecord == Spec => []ViewMatches
<1> DEFINE Base == TypeInv /\ FlowInv
           AllKnown == Acknowledged /\ HealthKnown /\ ReviewKnown /\ ToldKnown
           Inv == Base /\ (faults = 0 => AllKnown)
<1>1. Init => Inv
  <2> SUFFICES ASSUME Init
               PROVE  Inv
    OBVIOUS
  <2>1. TypeInv
    BY InitType
  <2>2. FlowInv
    BY DEF Init, FlowInv, Telling, Judges
  <2>3. Acknowledged /\ HealthKnown /\ ReviewKnown
    BY DEF Init, Acknowledged, HealthKnown, ReviewKnown, FreshState, NoIncident
  <2>4. ToldKnown
    BY DEF Init, ToldKnown, Marked, Known, Pending, FreshState, Contains, Judges
  <2> QED
    BY <2>1, <2>2, <2>3, <2>4
<1>2. Inv /\ [Next]_vars => Inv'
  <2> SUFFICES ASSUME Inv, [Next]_vars
               PROVE  Inv'
    OBVIOUS
  <2>1. TypeInv'
    BY TypeStep
  <2>2. CASE Next
    <3>1. FlowInv'
      BY <2>2, FlowStep
    <3>2. ASSUME faults' = 0
          PROVE  Acknowledged' /\ HealthKnown' /\ ReviewKnown' /\ ToldKnown'
      <4>1. faults = 0
        BY <2>2, <3>2, CalmStep DEF Calm
      <4>2. AllKnown
        BY <4>1
      <4> QED
        BY <2>2, <3>2, <4>2, AcknowledgedStep, HealthStep, ReviewStep, ToldKnownStep
    <3> QED
      BY <2>1, <3>1, <3>2
  <2>3. CASE UNCHANGED vars
    <3>1. UNCHANGED <<pc, round, mem, told, view, stopping, faults, forgotten>>
      BY <2>3 DEF vars
    <3>2. FlowInv'
      BY <3>1 DEF FlowInv
    <3>3. faults = 0 => Acknowledged' /\ HealthKnown' /\ ReviewKnown' /\ ToldKnown'
      BY <3>1 DEF Acknowledged, HealthKnown, IncidentKey, Remaining, ReviewKnown, ToldKnown, Marked,
         Known, Pending
    <3> QED
      BY <2>1, <3>1, <3>2, <3>3
  <2> QED
    BY <2>2, <2>3
<1>3. Inv => ViewMatches
  <2> SUFFICES ASSUME Inv, pc = "rest", faults = 0
               PROVE  /\ view.health = mem.incident.key
                      /\ (view.review = "fails") = mem.review_down
                      /\ \A e \in Events :
                           told[e] = IF Known(mem, e) /\ forgotten[e] < Often
                                       THEN forgotten[e] + 1 ELSE forgotten[e]
    BY DEF ViewMatches
  <2>1. mem.review_down \in BOOLEAN
    BY DEF TypeInv, MemOK, MemoryOK, Memories
  <2>2. \A e \in Events : Marked(e) <=> Known(mem, e)
    BY DEF Marked, Pending, Judges
  <2>3. \A e \in Events : told[e] = IF Known(mem, e) /\ forgotten[e] < Often
                                      THEN forgotten[e] + 1 ELSE forgotten[e]
    BY <2>2 DEF ToldKnown
  <2>4. view.health = mem.incident.key
    BY DEF HealthKnown
  <2>5. (view.review = "fails") = mem.review_down
    BY <2>1 DEF ReviewKnown
  <2> QED
    BY <2>3, <2>4, <2>5
<1> QED
  BY <1>1, <1>2, <1>3, PTL DEF Spec
================================================================================
