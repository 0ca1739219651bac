-------------------------- MODULE TvPlayoutProofs --------------------------
(* What holds of TvPlayout for any number of arbiters, any schedules, any  *)
(* calendar and any bounds.                                                *)
EXTENDS TvPlayout, TLAPS, FiniteSetTheorems, SequenceTheorems,
        WellFoundedInduction

(***************************************************************************)
(* The inductive invariant.                                                *)
(***************************************************************************)

\* What the planner starts from, once a source was read, is well formed.
SourceKnown ==
  \A h \in Holder : pc[h] \in {"sourced", "append"} =>
    /\ work[h].schedule \in Schedule
    /\ work[h].prov # Legacy =>
         work[h].prov.release \in Release /\ work[h].prov.epoch \in Int

\* Rows last a while, so ends grow with the media sequence.
RowsLast == \A m \in DOMAIN journal : journal[m].starts < journal[m].ends

\* A purge leaves nothing, and nothing comes back.
PurgedIsEmpty ==
  station.life = "PURGED" =>
    DOMAIN journal = {} /\ observed = 0 /\ lease.holder = None

\* The fences a process still acts for.
FencesOf(h) == {work[h].fence, runtime[h].fence} \ {0}

\* Until a purge, a process's fences are not newer than the lease, and the
\* lease's own fence is in the hands of its holder only.
FencesHeld ==
  station.life # "PURGED" =>
    \A h \in Holder : \A f \in FencesOf(h) :
      f <= lease.fence /\ (f = lease.fence => lease.holder = h)

FencesDisjoint ==
  \A g, h \in Holder : g # h => FencesOf(g) \cap FencesOf(h) = {}

IInv ==
  /\ TypeOK
  /\ SourceKnown
  /\ WindowServable /\ RowsLast
  /\ FencesOrdered /\ PurgedIsEmpty
  /\ FencesHeld /\ FencesDisjoint

(***************************************************************************)
(* Data lemmas.                                                            *)
(***************************************************************************)

\* Segment k of a timeline is a planned segment: integer times, a mark.
LEMMA SegmentAtType ==
  ASSUME NEW s \in Schedule, NEW e \in Int, NEW k \in Nat
  PROVE  SegmentAt(s, e, k) \in PlannedSegment
<1>1. LoopLen[s] \in Nat \ {0} /\ Period[s] \in Nat \ {0}
      /\ Loop[s] \in [1 .. LoopLen[s] -> Segment]
  BY ConstantsAssumption
<1> DEFINE j == k % LoopLen[s]
           q == k \div LoopLen[s]
<1>2. j \in 0 .. (LoopLen[s] - 1) /\ q \in Int
  BY <1>1
<1>3. Loop[s][j + 1] \in Segment
  BY <1>1, <1>2
<1>4. e + q * Period[s] \in Int
  BY <1>1, <1>2
<1> HIDE DEF j, q
<1>5. \A c \in Segment, base \in Int :
        [starts |-> base + c.at, ends |-> base + c.at + c.dur, disc |-> c.first]
          \in PlannedSegment
  BY ConstantsAssumption DEF Segment, PlannedSegment
<1>6. SegmentAt(s, e, k)
        = [starts |-> e + q * Period[s] + Loop[s][j + 1].at,
           ends |-> e + q * Period[s] + Loop[s][j + 1].at + Loop[s][j + 1].dur,
           disc |-> Loop[s][j + 1].first]
  BY DEF SegmentAt, j, q
<1> QED BY <1>3, <1>4, <1>5, <1>6

\* A plan is a sequence of planned segments.
LEMMA PlanOfType ==
  ASSUME NEW s \in Schedule, NEW e \in Int, NEW k \in Nat, NEW n \in Nat,
         NEW tail
  PROVE  PlanOf(s, e, k, n, tail) \in Seq(PlannedSegment)
<1> DEFINE P == PlanOf(s, e, k, n, tail)
<1>1. \A i \in 1 .. n : SegmentAt(s, e, k + i - 1) \in PlannedSegment
  <2> TAKE i \in 1 .. n
  <2>1. k + i - 1 \in Nat
    OBVIOUS
  <2> QED BY <2>1, SegmentAtType
<1>2. \A g \in PlannedSegment, b \in BOOLEAN :
        [g EXCEPT !.disc = b] \in PlannedSegment
  BY DEF PlannedSegment
<1>3. \A i \in 1 .. n : P[i] \in PlannedSegment
  <2> TAKE i \in 1 .. n
  <2> DEFINE g == SegmentAt(s, e, k + i - 1)
             b == g.disc \/ (i = 1 /\ (tail = None \/ g.starts > tail))
  <2>1. g \in PlannedSegment BY <1>1
  <2>2. b \in BOOLEAN BY <2>1 DEF PlannedSegment
  <2>3. P[i] = [g EXCEPT !.disc = b]
    BY DEF PlanOf
  <2> HIDE DEF g, b, P
  <2> QED BY <1>2, <2>1, <2>2, <2>3
<1>4. P = [i \in 1 .. n |-> P[i]]
  BY DEF PlanOf
<1> HIDE DEF P
<1>5. P \in [1 .. n -> PlannedSegment]
  BY <1>3, <1>4
<1>6. Seq(PlannedSegment) = UNION {[1 .. m -> PlannedSegment] : m \in Nat}
  BY SeqDef
<1>7. P \in Seq(PlannedSegment)
  BY <1>5, <1>6
<1> QED BY <1>7 DEF P
\* The marks of a plan are counted one segment after the other.
LEMMA MarksCount ==
  ASSUME NEW plan, NEW k \in Nat
  PROVE  /\ Marks(plan, 0) = 0
         /\ Marks(plan, k) \in Nat
         /\ Marks(plan, k + 1) = Marks(plan, k) + IF plan[k + 1].disc THEN 1 ELSE 0
<1> DEFINE M(n) == {i \in 1 .. n : plan[i].disc}
<1>1. M(0) = {} /\ Cardinality({}) = 0
  BY FS_EmptySet
<1>2. IsFiniteSet(M(k)) /\ Cardinality(M(k)) \in Nat
  <2>1. M(k) \in SUBSET (1 .. k)
    OBVIOUS
  <2>2. IsFiniteSet(1 .. k)
    BY FS_Interval
  <2> QED BY <2>1, <2>2, FS_Subset, FS_CardinalityType
<1>3. CASE plan[k + 1].disc
  <2>1. M(k + 1) = M(k) \cup {k + 1} /\ k + 1 \notin M(k)
    BY <1>3
  <2>2. Cardinality(M(k + 1)) = Cardinality(M(k)) + 1
    BY <1>2, <2>1, FS_AddElement
  <2> QED BY <1>1, <1>2, <1>3, <2>2 DEF Marks
<1>4. CASE ~plan[k + 1].disc
  <2>1. M(k + 1) = M(k)
    BY <1>4
  <2> QED BY <1>1, <1>2, <1>4, <2>1 DEF Marks
<1> QED BY <1>3, <1>4

\* In a servable window of rows that last, ends grow with the media sequence.
LEMMA EndsGrow ==
  ASSUME TypeOK, WindowServable, RowsLast,
         NEW a \in DOMAIN journal, NEW b \in DOMAIN journal, a < b
  PROVE  journal[a].ends <= journal[b].starts
<1> DEFINE T == {m \in DOMAIN journal : a < m /\ ~(journal[a].ends <= journal[m].starts)}
<1>1. \A m \in DOMAIN journal :
        m \in Nat /\ journal[m].starts \in Int /\ journal[m].ends \in Int
  BY DEF TypeOK, Row
<1>2. SUFFICES ASSUME T # {} PROVE FALSE
  OBVIOUS
<1>3. T \subseteq Nat
  BY <1>1
<1>4. PICK m \in T : \A k \in T : ~(<<k, m>> \in OpToRel(<, Nat))
  <2> HIDE DEF T
  <2> QED BY <1>2, <1>3, WFMin, NatLessThanWellFounded
<1>5. m - 1 \in DOMAIN journal
  <2>1. m - 1 \in a .. m
    BY <1>1
  <2> QED BY <2>1 DEF WindowServable
<1>6. m - 1 \notin T
  <2>1. m \in Nat /\ m - 1 \in Nat /\ m - 1 < m
    BY <1>1, <1>5
  <2>2. \A x, y \in Nat : x < y => <<x, y>> \in OpToRel(<, Nat)
    BY DEF OpToRel
  <2>3. <<m - 1, m>> \in OpToRel(<, Nat)
    BY <2>1, <2>2
  <2> HIDE DEF T
  <2> QED BY <1>4, <2>3
<1>7. journal[m - 1].ends <= journal[m].starts
  <2>1. (m - 1) + 1 \in DOMAIN journal /\ (m - 1) + 1 = m
    BY <1>1
  <2> QED BY <1>1, <1>5, <2>1 DEF WindowServable
<1>8. CASE m - 1 = a
  BY <1>7, <1>8
<1>9. CASE m - 1 # a
  <2>1. a < m - 1
    BY <1>1, <1>5, <1>9
  <2>2. journal[a].ends <= journal[m - 1].starts
    BY <1>5, <1>6, <2>1
  <2> QED BY <1>1, <1>5, <1>7, <2>2 DEF RowsLast
<1> QED BY <1>8, <1>9
(***************************************************************************)
(* Type correctness.                                                       *)
(***************************************************************************)

LEMMA ConstantRecordsType ==
  /\ Legacy \in Provenance
  /\ NoWork \in Work
  /\ NoRuntime \in [fence : Nat, until : Nat]
<1>1. Legacy \in Provenance
  BY DEF Legacy, Provenance
<1>2. <<>> \in Seq(PlannedSegment)
  BY EmptySeq
<1>3. NoWork \in Work
  BY <1>1, <1>2 DEF NoWork, Work
<1>4. NoRuntime \in [fence : Nat, until : Nat]
  BY DEF NoRuntime
<1> QED BY <1>1, <1>3, <1>4

LEMMA InitType == Init => TypeOK /\ SourceKnown
<1> SUFFICES ASSUME Init PROVE TypeOK /\ SourceKnown
  OBVIOUS
<1>1. TypeOK
  BY ConstantRecordsType DEF Init, TypeOK, Life, PC
<1>2. SourceKnown
  BY DEF Init, SourceKnown
<1> QED BY <1>1, <1>2

\* A reconciliation that ends leaves no locals behind.
LEMMA EndReconcileType ==
  ASSUME TypeOK, SourceKnown, NEW h \in Holder, EndReconcile(h)
  PROVE  /\ pc' \in [Holder -> PC] /\ work' \in [Holder -> Work]
         /\ SourceKnown'
<1>1. pc' \in [Holder -> PC]
  BY DEF TypeOK, EndReconcile, PC
<1>2. work' \in [Holder -> Work]
  BY ConstantRecordsType DEF TypeOK, EndReconcile
<1>3. SourceKnown'
  BY DEF TypeOK, SourceKnown, EndReconcile
<1> QED BY <1>1, <1>2, <1>3

LEMMA ReleaseType ==
  ASSUME TypeOK, NEW h \in Holder, NEW f \in Nat, Release_(h, f)
  PROVE  lease' \in [holder : Holder \cup {None}, fence : Nat, until : Nat]
BY DEF TypeOK, Release_

\* What holds of a record with one more field set.
LEMMA WorkUpdate ==
  ASSUME NEW w \in Work
  PROVE  /\ \A f \in Nat : [w EXCEPT !.fence = f] \in Work
         /\ \A u \in Nat : [w EXCEPT !.until = u] \in Work
         /\ \A f, u \in Nat : [w EXCEPT !.fence = f, !.until = u] \in Work
BY DEF Work

\* The steps of a reconciliation before its source is known.
LEMMA LeaseStepsType ==
  ASSUME TypeOK, SourceKnown, NEW h \in Holder,
         DropStation(h) \/ Acquire(h) \/ ReuseRuntime(h) \/ ClaimAcquired(h)
           \/ Renew(h) \/ ClaimRenewed(h) \/ ReleaseRuntimes(h)
  PROVE  TypeOK' /\ SourceKnown'
<1> DEFINE LeaseRow == [holder : Holder \cup {None}, fence : Nat, until : Nat]
           RuntimeRow == [fence : Nat, until : Nat]
<1>1. /\ work[h] \in Work /\ work[h].fence \in Nat /\ work[h].until \in Nat
      /\ runtime[h].fence \in Nat /\ lease.fence \in Nat /\ now + LeaseTicks \in Nat
      /\ now \in Nat
  BY ConstantsAssumption DEF TypeOK, Work
<1>2. CASE DropStation(h)
  <2>1. lease' \in LeaseRow
    BY <1>1, <1>2, ReleaseType DEF DropStation
  <2>2. runtime' \in [Holder -> RuntimeRow]
    BY <1>2, ConstantRecordsType DEF DropStation, TypeOK
  <2> QED BY <1>2, <2>1, <2>2 DEF DropStation, TypeOK, SourceKnown
<1>3. CASE Acquire(h)
  <2>1. NextFence(h) \in Nat
    BY <1>1 DEF NextFence
  <2>2. lease' \in LeaseRow
    BY <1>1, <1>3, <2>1 DEF Acquire
  <2>3. work' = [work EXCEPT ![h] = [work[h] EXCEPT !.fence = NextFence(h),
                                                    !.until = now + LeaseTicks]]
    BY <1>3 DEF Acquire
  <2>4. work' \in [Holder -> Work]
    BY <1>1, <2>1, <2>3, WorkUpdate DEF TypeOK
  <2>5. pc' \in [Holder -> PC] /\ SourceKnown'
    BY <1>3, <2>3 DEF Acquire, Goto, TypeOK, PC, SourceKnown
  <2> QED BY <1>3, <2>2, <2>4, <2>5 DEF Acquire, TypeOK
<1>4. CASE ReuseRuntime(h)
  <2>1. work' = [work EXCEPT ![h] = [work[h] EXCEPT !.fence = runtime[h].fence]]
    BY <1>4 DEF ReuseRuntime
  <2>2. work' \in [Holder -> Work]
    BY <1>1, <2>1, WorkUpdate DEF TypeOK
  <2>3. pc' \in [Holder -> PC] /\ SourceKnown'
    BY <1>4, <2>1 DEF ReuseRuntime, Goto, TypeOK, PC, SourceKnown
  <2> QED BY <1>4, <2>2, <2>3 DEF ReuseRuntime, TypeOK
<1>5. CASE ClaimAcquired(h)
  <2>1. CASE Valid(h, work[h].fence)
    <3>1. work' = [work EXCEPT ![h] = [work[h] EXCEPT !.until = 0]]
      BY <1>5, <2>1 DEF ClaimAcquired
    <3>2. work' \in [Holder -> Work]
      BY <1>1, <3>1, WorkUpdate DEF TypeOK
    <3>3. pc' \in [Holder -> PC] /\ SourceKnown'
      BY <1>5, <2>1, <3>1 DEF ClaimAcquired, Goto, TypeOK, PC, SourceKnown
    <3>4. runtime' \in [Holder -> RuntimeRow] /\ observed' \in Nat
      BY <1>1, <1>5, <2>1 DEF ClaimAcquired, TypeOK
    <3> QED BY <1>5, <2>1, <3>2, <3>3, <3>4 DEF ClaimAcquired, TypeOK
  <2>2. CASE ~Valid(h, work[h].fence)
    <3>1. lease' \in LeaseRow
      BY <1>1, <1>5, <2>2, ReleaseType DEF ClaimAcquired
    <3>2. pc' \in [Holder -> PC] /\ work' \in [Holder -> Work] /\ SourceKnown'
      BY <1>5, <2>2, EndReconcileType DEF ClaimAcquired
    <3> QED BY <1>5, <2>2, <3>1, <3>2 DEF ClaimAcquired, TypeOK
  <2> QED BY <2>1, <2>2
<1>6. CASE Renew(h)
  <2>1. CASE Valid(h, work[h].fence)
    <3>1. work' = [work EXCEPT ![h] = [work[h] EXCEPT !.until = now + LeaseTicks]]
      BY <1>6, <2>1 DEF Renew
    <3>2. work' \in [Holder -> Work]
      BY <1>1, <3>1, WorkUpdate DEF TypeOK
    <3>3. pc' \in [Holder -> PC] /\ SourceKnown'
      BY <1>6, <2>1, <3>1 DEF Renew, Goto, TypeOK, PC, SourceKnown
    <3>4. lease' \in LeaseRow
      BY <1>1, <1>6, <2>1 DEF Renew, TypeOK
    <3> QED BY <1>6, <2>1, <3>2, <3>3, <3>4 DEF Renew, TypeOK
  <2>2. CASE ~Valid(h, work[h].fence)
    <3>1. runtime' \in [Holder -> RuntimeRow]
      BY <1>6, <2>2, ConstantRecordsType DEF Renew, TypeOK
    <3>2. pc' \in [Holder -> PC] /\ work' \in [Holder -> Work] /\ SourceKnown'
      BY <1>6, <2>2, EndReconcileType DEF Renew
    <3> QED BY <1>6, <2>2, <3>1, <3>2 DEF Renew, TypeOK
  <2> QED BY <2>1, <2>2
<1>7. CASE ClaimRenewed(h)
  <2>1. CASE Keeps(h) /\ Valid(h, work[h].fence)
    <3>1. work' = [work EXCEPT ![h] = [work[h] EXCEPT !.until = 0]]
      BY <1>7, <2>1 DEF ClaimRenewed
    <3>2. work' \in [Holder -> Work]
      BY <1>1, <3>1, WorkUpdate DEF TypeOK
    <3>3. pc' \in [Holder -> PC] /\ SourceKnown'
      BY <1>7, <2>1, <3>1 DEF ClaimRenewed, Goto, TypeOK, PC, SourceKnown
    <3>4. /\ runtime' = [runtime EXCEPT ![h].until = work[h].until]
          /\ observed' = work[h].fence
      BY <1>7, <2>1 DEF ClaimRenewed
    <3>5. runtime' \in [Holder -> RuntimeRow] /\ observed' \in Nat
      BY <1>1, <3>4 DEF TypeOK
    <3> QED BY <1>7, <2>1, <3>2, <3>3, <3>5 DEF ClaimRenewed, TypeOK
  <2>2. CASE Keeps(h) /\ ~Valid(h, work[h].fence)
    <3>1. runtime' \in [Holder -> RuntimeRow]
      BY <1>7, <2>2, ConstantRecordsType DEF ClaimRenewed, TypeOK
    <3>2. pc' \in [Holder -> PC] /\ work' \in [Holder -> Work] /\ SourceKnown'
      BY <1>7, <2>2, EndReconcileType DEF ClaimRenewed
    <3> QED BY <1>7, <2>2, <3>1, <3>2 DEF ClaimRenewed, TypeOK
  <2>3. CASE ~Keeps(h)
    <3>1. lease' \in LeaseRow
      BY <1>1, <1>7, <2>3, ReleaseType DEF ClaimRenewed
    <3>2. pc' \in [Holder -> PC] /\ work' \in [Holder -> Work] /\ SourceKnown'
      BY <1>7, <2>3, EndReconcileType DEF ClaimRenewed
    <3> QED BY <1>7, <2>3, <3>1, <3>2 DEF ClaimRenewed, TypeOK
  <2> QED BY <2>1, <2>2, <2>3
<1>8. CASE ReleaseRuntimes(h)
  <2>1. lease' \in LeaseRow
    BY <1>1, <1>8, ReleaseType DEF ReleaseRuntimes, TypeOK
  <2>2. /\ runtime' \in [Holder -> RuntimeRow]
        /\ stopping' \in [Holder -> {"no", "signalled", "done", "died"}]
    BY <1>8, ConstantRecordsType DEF ReleaseRuntimes, TypeOK
  <2> QED BY <1>8, <2>1, <2>2 DEF ReleaseRuntimes, TypeOK, SourceKnown
<1> QED BY <1>2, <1>3, <1>4, <1>5, <1>6, <1>7, <1>8
LEMMA SourcedType ==
  ASSUME TypeOK, NEW w \in Work, NEW s \in Schedule, NEW p \in Provenance,
         NEW b \in Nat \cup {None}
  PROVE  /\ Sourced(w, s, p, b) \in Work
         /\ Sourced(w, s, p, b).schedule = s /\ Sourced(w, s, p, b).prov = p
BY DEF TypeOK, Work, Sourced

\* The boundaries of a calendar are times.
LEMMA BoundariesType ==
  ASSUME NEW r \in Release, NEW t
  PROVE  /\ BoundariesAfter(r, t) \subseteq Nat
         /\ ActiveAt(r, t) \subseteq Occurrence
<1>1. Occurrences[r] \subseteq Occurrence /\ Horizon[r] \in Nat \cup {None}
  BY ConstantsAssumption
<1>2. \A o \in Occurrence : o.starts \in Nat /\ (o.ends # None => o.ends \in Nat)
  BY DEF Occurrence
<1> QED BY <1>1, <1>2 DEF BoundariesAfter, ActiveAt

LEMMA ReadSourceType ==
  ASSUME TypeOK, SourceKnown, NEW h \in Holder, ReadSource(h)
  PROVE  TypeOK' /\ SourceKnown'
<1>1. work[h] \in Work /\ station.schedule \in Schedule /\ station.epoch \in Int
      /\ station.release \in Release \cup {None}
  BY DEF TypeOK
<1>2. SUFFICES /\ pc' \in [Holder -> PC] /\ work' \in [Holder -> Work]
               /\ SourceKnown'
  BY DEF ReadSource, TypeOK
<1>3. ASSUME NEW s \in Schedule, NEW p \in Provenance, NEW b \in Nat \cup {None},
             p # Legacy => p.release \in Release /\ p.epoch \in Int,
             Goto(h, "sourced"),
             work' = [work EXCEPT ![h] = Sourced(work[h], s, p, b)]
      PROVE  /\ pc' \in [Holder -> PC] /\ work' \in [Holder -> Work]
             /\ SourceKnown'
  <2>1. Sourced(work[h], s, p, b) \in Work
        /\ Sourced(work[h], s, p, b).schedule = s
        /\ Sourced(work[h], s, p, b).prov = p
    BY <1>1, SourcedType
  <2>2. pc' \in [Holder -> PC] /\ work' \in [Holder -> Work]
    BY <1>3, <2>1 DEF TypeOK, Goto, PC
  <2>3. work'[h].schedule = s /\ work'[h].prov = p
        /\ \A g \in Holder \ {h} : work'[g] = work[g] /\ pc'[g] = pc[g]
    BY <1>3, <2>1 DEF TypeOK, Goto
  <2>4. SourceKnown'
    BY <1>3, <2>3 DEF SourceKnown
  <2> QED BY <2>2, <2>4
<1>4. CASE /\ work' = [work EXCEPT ![h] = Sourced(@, station.schedule, Legacy, None)]
           /\ Goto(h, "sourced")
  <2>1. work' = [work EXCEPT ![h] = Sourced(work[h], station.schedule, Legacy, None)]
    BY <1>4
  <2> QED BY <1>1, <1>3, <1>4, <2>1, ConstantRecordsType
<1>5. CASE /\ station.release # None
           /\ CalendarSource(h, station.release)
           /\ Goto(h, "sourced")
  <2> DEFINE r == station.release
  <2>1. r \in Release
    BY <1>1, <1>5
  <2>2. PICK b \in BoundariesAfter(r, now) \cup {None} :
          \/ \E o \in ActiveAt(r, now) :
               work' = [work EXCEPT ![h] = Sourced(work[h], o.schedule,
                 [release |-> r, occurrence |-> o.id, epoch |-> o.starts], b)]
          \/ work' = [work EXCEPT ![h] = Sourced(work[h], station.schedule,
               [release |-> r, occurrence |-> None, epoch |-> station.epoch], b)]
    BY <1>5 DEF CalendarSource
  <2>3. b \in Nat \cup {None}
    BY <2>1, BoundariesType
  <2>4. ASSUME NEW o \in ActiveAt(r, now),
               work' = [work EXCEPT ![h] = Sourced(work[h], o.schedule,
                 [release |-> r, occurrence |-> o.id, epoch |-> o.starts], b)]
        PROVE  /\ pc' \in [Holder -> PC] /\ work' \in [Holder -> Work]
               /\ SourceKnown'
    <3> DEFINE p == [release |-> r, occurrence |-> o.id, epoch |-> o.starts]
    <3>1. o.schedule \in Schedule /\ o.id \in Nat /\ o.starts \in Nat
      BY <2>1, BoundariesType DEF Occurrence
    <3>2. p \in Provenance /\ p.release \in Release /\ p.epoch \in Int
      BY <2>1, <3>1 DEF Provenance
    <3> QED BY <1>3, <1>5, <2>3, <2>4, <3>1, <3>2
  <2>5. ASSUME work' = [work EXCEPT ![h] = Sourced(work[h], station.schedule,
               [release |-> r, occurrence |-> None, epoch |-> station.epoch], b)]
        PROVE  /\ pc' \in [Holder -> PC] /\ work' \in [Holder -> Work]
               /\ SourceKnown'
    <3> DEFINE p == [release |-> r, occurrence |-> None, epoch |-> station.epoch]
    <3>1. p \in Provenance /\ p.release \in Release /\ p.epoch \in Int
      BY <1>1, <2>1 DEF Provenance
    <3> QED BY <1>1, <1>3, <1>5, <2>3, <2>5, <3>1
  <2> QED BY <2>2, <2>4, <2>5
<1>6. CASE EndReconcile(h)
  BY <1>6, EndReconcileType
<1> QED BY <1>4, <1>5, <1>6 DEF ReadSource

LEMMA PlanAheadType ==
  ASSUME TypeOK, SourceKnown, NEW h \in Holder, PlanAhead(h)
  PROVE  TypeOK' /\ SourceKnown'
<1> DEFINE w == work[h]
           e == IF w.prov = Legacy THEN station.epoch ELSE w.prov.epoch
<1>1. /\ w \in Work /\ w.schedule \in Schedule /\ e \in Int
      /\ pc[h] = "sourced"
  BY DEF TypeOK, SourceKnown, PlanAhead
<1>2. SUFFICES /\ pc' \in [Holder -> PC] /\ work' \in [Holder -> Work]
               /\ SourceKnown'
  BY DEF PlanAhead, TypeOK
<1>3. CASE EndReconcile(h)
  BY <1>3, EndReconcileType
<1>4. CASE ~EndReconcile(h)
  <2> DEFINE tails == {None} \cup {journal[m].ends : m \in DOMAIN journal}
  <2>1. PICK tail \in tails, k \in 0 .. MaxIndex, n \in 1 .. MaxAppend :
          work' = [work EXCEPT ![h] =
            [w EXCEPT !.plan = PlanOf(w.schedule, e, k, n, tail), !.at = 0,
                      !.through = None]]
    BY <1>4 DEF PlanAhead
  <2>2. Goto(h, "append")
    BY <1>4 DEF PlanAhead
  <2> DEFINE P == PlanOf(w.schedule, e, k, n, tail)
             v == [w EXCEPT !.plan = P, !.at = 0, !.through = None]
  <2>3. P \in Seq(PlannedSegment)
    <3>1. k \in Nat /\ n \in Nat
      BY ConstantsAssumption
    <3> QED BY <1>1, <3>1, PlanOfType
  <2> HIDE DEF P, w, e
  <2>4. v \in Work /\ v.schedule = w.schedule /\ v.prov = w.prov
    BY <1>1, <2>3 DEF Work
  <2>5. work' = [work EXCEPT ![h] = v]
    BY <2>1 DEF P
  <2> HIDE DEF v
  <2>6. pc' \in [Holder -> PC] /\ work' \in [Holder -> Work]
    BY <2>2, <2>4, <2>5 DEF TypeOK, Goto, PC
  <2>7. SourceKnown'
    <3>1. /\ work'[h] = v
          /\ \A g \in Holder \ {h} : work'[g] = work[g] /\ pc'[g] = pc[g]
      BY <2>2, <2>5 DEF TypeOK, Goto
    <3> QED BY <1>1, <2>4, <3>1 DEF SourceKnown, w
  <2> QED BY <2>6, <2>7
<1> QED BY <1>3, <1>4
\* What an append may write: a typed plan of a typed record.
LEMMA InsertType ==
  ASSUME TypeOK, NEW w \in Work, w.schedule \in Schedule,
         NEW plan \in Seq(PlannedSegment), NEW base \in Nat, NEW seq \in Nat,
         Insert(w, plan, base, seq)
  PROVE  \A m \in DOMAIN journal' : m \in Nat /\ journal'[m] \in Row
<1>1. /\ Len(plan) \in Nat
      /\ \A i \in 1 .. Len(plan) : plan[i] \in PlannedSegment
  BY LenProperties, ElementOfSeq
<1> DEFINE D == DOMAIN journal \cup (base .. (base + Len(plan) - 1))
<1>2. DOMAIN journal' = D
  BY DEF Insert
<1>3. SUFFICES ASSUME NEW m \in D
               PROVE  m \in Nat /\ journal'[m] \in Row
  BY <1>2
<1>4. CASE m \in DOMAIN journal
  BY <1>4 DEF Insert, TypeOK
<1>5. CASE m \notin DOMAIN journal
  <2> DEFINE i == m - base + 1
             row == [starts |-> plan[i].starts, ends |-> plan[i].ends,
                     disc |-> plan[i].disc, discSeq |-> seq + Marks(plan, i - 1),
                     fence |-> w.fence, schedule |-> w.schedule, prov |-> w.prov]
  <2>1. m \in Nat /\ i \in 1 .. Len(plan) /\ i - 1 \in Nat
    BY <1>1, <1>5
  <2>2. journal'[m] = row
    BY <1>5 DEF Insert
  <2>3. plan[i] \in PlannedSegment /\ Marks(plan, i - 1) \in Nat
    BY <1>1, <2>1, MarksCount
  <2>4. w.fence \in Nat /\ w.prov \in Provenance
    BY DEF Work
  <2> HIDE DEF i
  <2>5. row \in Row
    BY <2>3, <2>4 DEF Row, PlannedSegment
  <2> QED BY <2>1, <2>2, <2>5
<1> QED BY <1>4, <1>5

\* Marking a plan keeps its type, its length and its times.
LEMMA MarkedPlan ==
  ASSUME NEW plan \in Seq(PlannedSegment), NEW t, NEW prov
  PROVE  /\ Marked(plan, t, prov) \in Seq(PlannedSegment)
         /\ Len(Marked(plan, t, prov)) = Len(plan)
<1>1. CASE journal[t].prov = prov \/ Len(plan) = 0
  <2>1. CASE Len(plan) = 0
    <3>1. plan = <<>>
      BY <2>1, EmptySeq
    <3>2. DOMAIN plan = {}
      BY <3>1
    <3>3. [plan EXCEPT ![1].disc = TRUE] = plan
      BY <3>2, <3>1
    <3> QED BY <3>3 DEF Marked
  <2> QED BY <1>1, <2>1 DEF Marked
<1>2. CASE journal[t].prov # prov /\ Len(plan) # 0
  <2>1. 1 \in 1 .. Len(plan) /\ plan[1] \in PlannedSegment
    BY <1>2, LenProperties, ElementOfSeq
  <2>2. [plan[1] EXCEPT !.disc = TRUE] \in PlannedSegment
    BY <2>1 DEF PlannedSegment
  <2>3. Marked(plan, t, prov) = [plan EXCEPT ![1] = [plan[1] EXCEPT !.disc = TRUE]]
    BY <1>2 DEF Marked
  <2> QED BY <2>1, <2>2, <2>3, ExceptSeq
<1> QED BY <1>1, <1>2

LEMMA AppendSegmentsType ==
  ASSUME TypeOK, SourceKnown, NEW h \in Holder, AppendSegments(h)
  PROVE  TypeOK' /\ SourceKnown'
<1> DEFINE w == work[h]
<1>1. /\ w \in Work /\ w.schedule \in Schedule /\ w.plan \in Seq(PlannedSegment)
      /\ w.fence \in Nat
  BY DEF TypeOK, SourceKnown, AppendSegments, Work
<1>2. \A m \in DOMAIN journal' : m \in Nat /\ journal'[m] \in Row
  <2>1. CASE AppendFirst(w)
    BY <1>1, <2>1, InsertType DEF AppendFirst
  <2>2. ASSUME NEW t \in DOMAIN journal, AppendAfter(w, t)
        PROVE  \A m \in DOMAIN journal' : m \in Nat /\ journal'[m] \in Row
    <3>1. t + 1 \in Nat /\ SeqAfter(journal[t]) \in Nat
      BY DEF TypeOK, Row, SeqAfter
    <3>2. Marked(w.plan, t, w.prov) \in Seq(PlannedSegment)
      BY <1>1, MarkedPlan
    <3> HIDE DEF w
    <3> QED BY <1>1, <2>2, <3>1, <3>2, InsertType DEF AppendAfter
  <2> QED BY <2>1, <2>2 DEF AppendSegments
<1>3. pc' \in [Holder -> PC] /\ work' \in [Holder -> Work] /\ SourceKnown'
  BY EndReconcileType DEF AppendSegments
<1> QED BY <1>1, <1>2, <1>3 DEF AppendSegments, TypeOK

LEMMA AppendRejectedType ==
  ASSUME TypeOK, SourceKnown, NEW h \in Holder, AppendRejected(h)
  PROVE  TypeOK' /\ SourceKnown'
<1>1. pc' \in [Holder -> PC] /\ work' \in [Holder -> Work] /\ SourceKnown'
  BY EndReconcileType DEF AppendRejected
<1> QED BY <1>1 DEF AppendRejected, TypeOK

LEMMA EventType ==
  ASSUME TypeOK, SourceKnown, NEW h \in Holder, Event(h)
  PROVE  TypeOK' /\ SourceKnown'
<1>1. CASE LeaseTimer(h)
  <2>1. runtime' \in [Holder -> [fence : Nat, until : Nat]]
    BY <1>1, ConstantRecordsType DEF LeaseTimer, TypeOK
  <2> QED BY <1>1, <2>1 DEF LeaseTimer, TypeOK, SourceKnown
<1>2. CASE Signal(h)
  <2>1. /\ pc' \in [Holder -> PC]
        /\ stopping' \in [Holder -> {"no", "signalled", "done", "died"}]
    BY <1>2 DEF Signal, TypeOK, PC
  <2>2. SourceKnown'
    BY <1>2 DEF Signal, TypeOK, SourceKnown
  <2> QED BY <1>2, <2>1, <2>2 DEF Signal, TypeOK
<1>3. CASE Crash(h)
  <2>1. /\ pc' \in [Holder -> PC]
        /\ stopping' \in [Holder -> {"no", "signalled", "done", "died"}]
        /\ runtime' \in [Holder -> [fence : Nat, until : Nat]]
        /\ work' \in [Holder -> Work]
    BY <1>3, ConstantRecordsType DEF Crash, TypeOK, PC
  <2>2. SourceKnown'
    BY <1>3 DEF Crash, TypeOK, SourceKnown
  <2> QED BY <1>3, <2>1, <2>2 DEF Crash, TypeOK
<1> QED BY <1>1, <1>2, <1>3 DEF Event

LEMMA ControlType ==
  ASSUME TypeOK, SourceKnown, Control \/ Tick
  PROVE  TypeOK' /\ SourceKnown'
<1>1. SourceKnown'
  BY DEF SourceKnown, Control, Tick, ChangeSchedule, ActivateRelease, StopStation,
     StartStation, DeleteStation, RestoreStation, PurgeStation, PruneJournal,
     arbiter
<1> USE <1>1 DEF TypeOK, Life
<1>2. Epochs \subseteq Int
  BY ConstantsAssumption DEF Epochs
<1>3. CASE ChangeSchedule
  <2>1. PICK s \in Schedule, e \in Int :
          station' = [station EXCEPT !.schedule = s, !.epoch = e]
    BY <1>2, <1>3 DEF ChangeSchedule
  <2>2. station' \in [life : Life, schedule : Schedule, epoch : Int,
                      release : Release \cup {None}]
    BY <2>1
  <2>3. commands' \in Nat
    BY <1>3 DEF ChangeSchedule, Command
  <2> QED BY <1>3, <2>2, <2>3 DEF ChangeSchedule, arbiter
<1>4. CASE ActivateRelease
  BY <1>4 DEF ActivateRelease, Command, arbiter
<1>5. CASE StopStation
  BY <1>5 DEF StopStation, Command, arbiter
<1>6. CASE StartStation
  <2>1. \/ \E e \in Int :
             station' = [station EXCEPT !.life = "RUNNING", !.epoch = e]
        \/ station' = [station EXCEPT !.life = "RUNNING"]
    BY <1>2, <1>6 DEF StartStation
  <2> QED BY <1>6, <2>1 DEF StartStation, arbiter
<1>7. CASE DeleteStation
  BY <1>7 DEF DeleteStation, Command, arbiter
<1>8. CASE RestoreStation
  BY <1>8 DEF RestoreStation, arbiter
<1>9. CASE PurgeStation
  BY <1>9 DEF PurgeStation, arbiter
<1>10. CASE PruneJournal
  BY <1>10 DEF PruneJournal, arbiter
<1>11. CASE Tick
  BY <1>11 DEF Tick, arbiter
<1> QED BY <1>3, <1>4, <1>5, <1>6, <1>7, <1>8, <1>9, <1>10, <1>11 DEF Control

LEMMA TypeStep == TypeOK /\ SourceKnown /\ [Next]_vars => TypeOK' /\ SourceKnown'
<1> SUFFICES ASSUME TypeOK, SourceKnown, [Next]_vars PROVE TypeOK' /\ SourceKnown'
  OBVIOUS
<1>1. ASSUME NEW h \in Holder, ArbiterStep(h) PROVE TypeOK' /\ SourceKnown'
  BY <1>1, LeaseStepsType, ReadSourceType, PlanAheadType, AppendSegmentsType,
     AppendRejectedType DEF ArbiterStep
<1>2. ASSUME NEW h \in Holder, Event(h) PROVE TypeOK' /\ SourceKnown'
  BY <1>2, EventType
<1>3. CASE Control \/ Tick
  BY <1>3, ControlType
<1>4. CASE UNCHANGED vars
  BY <1>4 DEF vars, TypeOK, SourceKnown
<1> QED BY <1>1, <1>2, <1>3, <1>4 DEF Next

(* Every reachable state is well typed: the journal's rows, the lease and  *)
(* each process's locals hold what the database and the code declare.      *)
THEOREM TypeCorrect == Spec => []TypeOK
<1>1. TypeOK /\ SourceKnown /\ [Next]_vars => (TypeOK /\ SourceKnown)'
  BY TypeStep
<1> QED BY InitType, <1>1, PTL DEF Spec
(***************************************************************************)
(* The window.                                                             *)
(***************************************************************************)

\* Rows written behind the tail, numbered and marked as an append does, keep
\* the journal servable.
LEMMA InsertKeepsWindow ==
  ASSUME TypeOK, WindowServable, RowsLast,
         NEW w \in Work, NEW plan \in Seq(PlannedSegment),
         NEW base \in Nat, NEW seq \in Nat, NEW ends \in Int \cup {None},
         Insert(w, plan, base, seq), ValidIntervals(plan, ends),
         \/ DOMAIN journal = {}
         \/ /\ IsTail(base - 1)
            /\ seq = SeqAfter(journal[base - 1]) /\ ends = journal[base - 1].ends
  PROVE  WindowServable' /\ RowsLast'
<1> DEFINE n == Len(plan)
           D == DOMAIN journal
           N == base .. (base + n - 1)
<1>1. n \in Nat /\ \A i \in 1 .. n : plan[i] \in PlannedSegment
  BY LenProperties, ElementOfSeq
<1>2. \A m \in D : m \in Nat /\ m < base /\ journal[m] \in Row
  BY DEF IsTail, TypeOK
<1>3. DOMAIN journal' = D \cup N /\ \A m \in D : journal'[m] = journal[m]
  BY DEF Insert
<1>4. \A m \in N : LET i == m - base + 1 IN
        /\ i \in 1 .. n /\ m \notin D
        /\ journal'[m].starts = plan[i].starts /\ journal'[m].ends = plan[i].ends
        /\ journal'[m].disc = plan[i].disc
        /\ journal'[m].discSeq = seq + Marks(plan, i - 1)
  BY <1>1, <1>2 DEF Insert
<1>5. \A i \in 1 .. n :
        LET before == IF i = 1 THEN ends ELSE plan[i - 1].ends IN
        /\ plan[i].starts < plan[i].ends
        /\ before # None =>
             plan[i].starts >= before
               /\ (plan[i].starts > before => plan[i].disc)
  BY <1>1, ConstantsAssumption DEF ValidIntervals, PlannedSegment
<1>6. \A i \in 1 .. n : plan[i].ends # None
  BY <1>1, ConstantsAssumption DEF PlannedSegment
<1>7. RowsLast'
  <2>1. SUFFICES ASSUME NEW m \in D \cup N
                 PROVE  journal'[m].starts < journal'[m].ends
    BY <1>3 DEF RowsLast
  <2>2. CASE m \in D
    BY <1>3, <2>2 DEF RowsLast
  <2>3. CASE m \in N
    BY <1>4, <1>5, <2>3
  <2> QED BY <2>2, <2>3
<1>8. ASSUME NEW a \in D \cup N, NEW b \in D \cup N
      PROVE  a .. b \subseteq D \cup N
  <2>1. SUFFICES ASSUME NEW c \in a .. b, c \notin N PROVE c \in D
    OBVIOUS
  <2>2. a \in Nat /\ b \in Nat /\ c \in Nat /\ a <= c /\ c <= b
    BY <1>2
  <2>3. CASE b \in D
    <3>1. a \in D
      BY <1>1, <1>2, <2>2, <2>3
    <3> QED BY <2>3, <3>1 DEF WindowServable
  <2>4. CASE b \in N
    <3>1. c < base
      BY <1>1, <2>1, <2>2, <2>4
    <3>2. a \in D
      BY <1>1, <2>2, <3>1
    <3>3. base - 1 \in D
      BY <3>2 DEF IsTail
    <3> QED BY <2>2, <3>1, <3>2, <3>3 DEF WindowServable
  <2> QED BY <2>3, <2>4
<1>9. ASSUME NEW m \in D \cup N, m + 1 \in D \cup N
      PROVE  /\ journal'[m + 1].discSeq = SeqAfter(journal'[m])
             /\ journal'[m + 1].starts >= journal'[m].ends
             /\ journal'[m + 1].starts > journal'[m].ends => journal'[m + 1].disc
  <2>1. CASE m + 1 \in D
    <3>1. m \in D
      BY <1>2, <1>9, <2>1
    <3> QED BY <1>3, <2>1, <3>1 DEF WindowServable
  <2>2. CASE m \in D /\ m + 1 \in N
    <3>1. m = base - 1 /\ n > 0
      BY <1>1, <1>2, <2>2
    <3>2. seq = SeqAfter(journal[m]) /\ ends = journal[m].ends /\ ends # None
      BY <1>2, <2>2, <3>1, ConstantsAssumption DEF Row
    <3>3. /\ journal'[m + 1].starts = plan[1].starts
          /\ journal'[m + 1].disc = plan[1].disc
          /\ journal'[m + 1].discSeq = seq + Marks(plan, 0)
      BY <1>2, <1>4, <2>2, <3>1
    <3>4. Marks(plan, 0) = 0 /\ journal'[m] = journal[m]
      BY <1>3, <2>2, MarksCount
    <3> QED BY <1>1, <1>5, <3>1, <3>2, <3>3, <3>4
  <2>3. CASE m \in N /\ m + 1 \in N
    <3> DEFINE i == m - base + 1
    <3>1. /\ i \in 1 .. n /\ i + 1 \in 1 .. n
          /\ (m + 1) - base + 1 = i + 1 /\ i - 1 \in Nat /\ (i - 1) + 1 = i
      BY <1>1, <2>3
    <3>2. /\ journal'[m].ends = plan[i].ends /\ journal'[m].disc = plan[i].disc
          /\ journal'[m].discSeq = seq + Marks(plan, i - 1)
          /\ journal'[m + 1].starts = plan[i + 1].starts
          /\ journal'[m + 1].disc = plan[i + 1].disc
          /\ journal'[m + 1].discSeq = seq + Marks(plan, (i + 1) - 1)
      BY <1>4, <2>3, <3>1
    <3>3. /\ Marks(plan, i) = Marks(plan, i - 1) + IF plan[i].disc THEN 1 ELSE 0
          /\ Marks(plan, i - 1) \in Nat
      BY <3>1, MarksCount
    <3>4. /\ plan[i + 1].starts >= plan[i].ends
          /\ plan[i + 1].starts > plan[i].ends => plan[i + 1].disc
      <4>1. i + 1 # 1 /\ (i + 1) - 1 = i
        BY <3>1
      <4> HIDE DEF i
      <4> QED BY <1>5, <1>6, <3>1, <4>1
    <3>5. (i + 1) - 1 = i
      BY <3>1
    <3> HIDE DEF i
    <3> QED BY <3>2, <3>3, <3>4, <3>5 DEF SeqAfter
  <2> QED BY <1>9, <2>1, <2>2, <2>3
<1>10. WindowServable'
  BY <1>3, <1>8, <1>9 DEF WindowServable, SeqAfter
<1> QED BY <1>7, <1>10

LEMMA AppendKeepsWindow ==
  ASSUME TypeOK, SourceKnown, WindowServable, RowsLast,
         NEW h \in Holder, AppendSegments(h)
  PROVE  WindowServable' /\ RowsLast'
<1> DEFINE w == work[h]
<1>1. w \in Work /\ w.plan \in Seq(PlannedSegment)
  BY DEF TypeOK, Work
<1>2. CASE AppendFirst(w)
  BY <1>1, <1>2, InsertKeepsWindow DEF AppendFirst
<1>3. ASSUME NEW t \in DOMAIN journal, AppendAfter(w, t)
      PROVE  WindowServable' /\ RowsLast'
  <2> DEFINE plan == Marked(w.plan, t, w.prov)
  <2>1. /\ t + 1 \in Nat /\ (t + 1) - 1 = t /\ journal[t].ends \in Int
        /\ SeqAfter(journal[t]) \in Nat
    BY DEF TypeOK, Row, SeqAfter
  <2>2. plan \in Seq(PlannedSegment)
    BY <1>1, MarkedPlan
  <2>3. /\ IsTail(t) /\ ValidIntervals(plan, journal[t].ends)
        /\ Insert(w, plan, t + 1, SeqAfter(journal[t]))
    BY <1>3 DEF AppendAfter
  <2> HIDE DEF plan, w
  <2> QED BY <1>1, <2>1, <2>2, <2>3, InsertKeepsWindow
<1> QED BY <1>2, <1>3 DEF AppendSegments

\* What a prune leaves has no hole: it deletes a prefix, because ends grow.
LEMMA PruneKeepsWindow ==
  ASSUME TypeOK, WindowServable, RowsLast, PruneJournal
  PROVE  WindowServable' /\ RowsLast'
<1>1. PICK last \in Prunable :
        journal' = [m \in DOMAIN journal \ {k \in Prunable : k <= last} |-> journal[m]]
  BY DEF PruneJournal
<1> DEFINE Old == {k \in Prunable : k <= last}
           K == DOMAIN journal \ Old
<1>2. DOMAIN journal' = K /\ \A m \in K : journal'[m] = journal[m]
  BY <1>1
<1>3. \A m \in DOMAIN journal :
        m \in Nat /\ journal[m].starts \in Int /\ journal[m].ends \in Int
  BY DEF TypeOK, Row
<1>4. ASSUME NEW a \in K, NEW b \in K, NEW c \in a .. b, c \in Old
      PROVE  FALSE
  <2>1. /\ c \in DOMAIN journal /\ journal[c].ends < now - Retention
        /\ c <= last /\ ~IsTail(c) /\ last \in DOMAIN journal /\ ~IsTail(last)
    BY <1>4 DEF Prunable
  <2>2. a \in Nat /\ c \in Nat /\ last \in Nat /\ a <= c /\ a <= last
    BY <1>3, <2>1
  <2>3. a # c
    BY <1>4
  <2>4. journal[a].ends <= journal[c].starts
    BY <2>1, <2>2, <2>3, EndsGrow
  <2>5. journal[a].ends < now - Retention
    BY <1>3, <2>1, <2>4, ConstantsAssumption DEF RowsLast, TypeOK
  <2>6. ~IsTail(a)
    BY <2>1, <2>2, <2>3 DEF IsTail
  <2> QED BY <2>2, <2>5, <2>6 DEF Prunable
<1>5. \A a, b \in K : a .. b \subseteq K
  BY <1>4 DEF WindowServable
<1>6. \A m \in K : m + 1 \in K =>
        /\ journal[m + 1].discSeq = SeqAfter(journal[m])
        /\ journal[m + 1].starts >= journal[m].ends
        /\ journal[m + 1].starts > journal[m].ends => journal[m + 1].disc
  BY DEF WindowServable
<1> HIDE DEF K
<1>7. WindowServable'
  BY <1>2, <1>5, <1>6 DEF WindowServable, SeqAfter
<1>8. RowsLast'
  BY <1>2 DEF RowsLast, K
<1> QED BY <1>7, <1>8
LEMMA InitWindow == Init => WindowServable /\ RowsLast
BY DEF Init, WindowServable, RowsLast

LEMMA WindowStep ==
  TypeOK /\ SourceKnown /\ WindowServable /\ RowsLast /\ [Next]_vars
    => WindowServable' /\ RowsLast'
<1> SUFFICES ASSUME TypeOK, SourceKnown, WindowServable, RowsLast, [Next]_vars
             PROVE  WindowServable' /\ RowsLast'
  OBVIOUS
<1>1. CASE journal' = journal
  BY <1>1 DEF WindowServable, RowsLast, SeqAfter
<1>2. ASSUME NEW h \in Holder, ArbiterStep(h) PROVE WindowServable' /\ RowsLast'
  BY <1>1, <1>2, AppendKeepsWindow
  DEF ArbiterStep, DropStation, Acquire, ReuseRuntime, ClaimAcquired, Renew,
      ClaimRenewed, ReadSource, PlanAhead, AppendRejected, ReleaseRuntimes
<1>3. ASSUME NEW h \in Holder, Event(h) PROVE WindowServable' /\ RowsLast'
  BY <1>1, <1>3 DEF Event, LeaseTimer, Signal, Crash
<1>4. CASE PurgeStation
  BY <1>4 DEF PurgeStation, WindowServable, RowsLast
<1>5. CASE Control \/ Tick
  BY <1>1, <1>4, <1>5, PruneKeepsWindow
  DEF Control, Tick, ChangeSchedule, ActivateRelease, StopStation, StartStation,
      DeleteStation, RestoreStation
<1>6. CASE UNCHANGED vars
  BY <1>1, <1>6 DEF vars
<1> QED BY <1>2, <1>3, <1>5, <1>6 DEF Next

(* Whatever the arbiters append, however their leases change hands, and    *)
(* however much is pruned meanwhile, the journal is always a window a      *)
(* playlist can be served from.                                            *)
THEOREM WindowAlwaysServable == Spec => []WindowServable
<1> DEFINE I == TypeOK /\ SourceKnown /\ WindowServable /\ RowsLast
<1>1. Init => I
  BY InitType, InitWindow
<1>2. I /\ [Next]_vars => I'
  BY TypeStep, WindowStep
<1>3. I => WindowServable
  OBVIOUS
<1> QED BY <1>1, <1>2, <1>3, PTL DEF Spec

(***************************************************************************)
(* The fences.                                                             *)
(***************************************************************************)

\* The fence part of the invariant.
Fences == FencesOrdered /\ PurgedIsEmpty /\ FencesHeld /\ FencesDisjoint

\* A step that neither moves the lease to a new owner nor hands a process a
\* fence it did not have keeps every fact about fences.
LEMMA FencesKept ==
  ASSUME TypeOK, Fences,
         lease'.fence = lease.fence, lease'.holder = lease.holder,
         station'.life = "PURGED" <=> station.life = "PURGED",
         \A h \in Holder : FencesOf(h)' \subseteq FencesOf(h),
         DOMAIN journal' \subseteq DOMAIN journal,
         \A m \in DOMAIN journal' : journal'[m] = journal[m],
         \/ observed' = observed
         \/ observed' = lease.fence /\ station.life # "PURGED"
  PROVE  Fences'
<1>1. FencesOrdered'
  BY DEF Fences, FencesOrdered, TypeOK
<1>2. PurgedIsEmpty'
  BY DEF Fences, PurgedIsEmpty
<1>3. FencesHeld'
  BY DEF Fences, FencesHeld
<1>4. FencesDisjoint'
  BY DEF Fences, FencesDisjoint
<1> QED BY <1>1, <1>2, <1>3, <1>4 DEF Fences

\* The lease of a station that was purged has no holder.
LEMMA HeldNotPurged ==
  ASSUME TypeOK, PurgedIsEmpty, NEW h \in Holder, NEW f, Valid(h, f)
  PROVE  station.life # "PURGED" /\ lease.fence = f /\ lease.holder = h
BY ConstantsAssumption DEF PurgedIsEmpty, Valid

\* Ending a reconciliation gives up the fence it acted for.
LEMMA EndReconcileFences ==
  ASSUME TypeOK, NEW h \in Holder, EndReconcile(h),
         NEW g \in Holder,
         runtime'[g].fence = runtime[g].fence \/ runtime'[g].fence = 0
  PROVE  FencesOf(g)' \subseteq FencesOf(g)
<1>1. work'[g].fence \in {work[g].fence, 0}
  BY DEF EndReconcile, TypeOK, NoWork
<1> QED BY <1>1 DEF FencesOf

\* A release keeps holder and fence.
LEMMA ReleaseKeepsFence ==
  ASSUME TypeOK, NEW h, NEW f, Release_(h, f)
  PROVE  lease'.fence = lease.fence /\ lease'.holder = lease.holder
BY DEF TypeOK, Release_

\* A fence just acquired is new to everybody else.
LEMMA AcquireFences ==
  ASSUME TypeOK, Fences, NEW h \in Holder, Acquire(h)
  PROVE  Fences'
<1> DEFINE f == NextFence(h)
<1>1. /\ station.life # "PURGED" /\ station' = station
      /\ journal' = journal /\ observed' = observed /\ runtime' = runtime
  BY DEF Acquire, Desired, OnAir
<1>2. /\ lease'.fence = f /\ lease'.holder = h /\ f \in Nat
      /\ f = lease.fence + 1 \/ (f = lease.fence /\ lease.holder = h)
  BY DEF Acquire, NextFence, TypeOK
<1>3. /\ work'[h].fence = f
      /\ \A g \in Holder \ {h} : work'[g] = work[g]
  BY DEF Acquire, TypeOK, Work
<1>4. lease.fence \in Nat /\ \A g \in Holder : FencesOf(g) \subseteq Nat
  BY DEF TypeOK, FencesOf, Work
<1> HIDE DEF f
<1>5. /\ FencesOf(h)' \subseteq FencesOf(h) \cup {f}
      /\ \A g \in Holder \ {h} : FencesOf(g)' = FencesOf(g)
  BY <1>1, <1>3 DEF FencesOf
<1>6. FencesOrdered'
  BY <1>1, <1>2, <1>4 DEF Fences, FencesOrdered, TypeOK, Row
<1>7. PurgedIsEmpty'
  BY <1>1 DEF PurgedIsEmpty
<1>8. \A g \in Holder : \A x \in FencesOf(g) :
        x <= lease.fence /\ (x = lease.fence => lease.holder = g)
  BY <1>1 DEF Fences, FencesHeld
<1>9. \A g \in Holder \ {h} : \A x \in FencesOf(g) : x < f
  BY <1>2, <1>4, <1>8
<1>10. FencesHeld'
  BY <1>2, <1>4, <1>5, <1>8, <1>9 DEF FencesHeld
<1>11. FencesDisjoint'
  <2>1. \A g \in Holder \ {h} : f \notin FencesOf(g)'
    BY <1>2, <1>4, <1>5, <1>9
  <2>2. \A g \in Holder \ {h} : FencesOf(g) \cap FencesOf(h) = {}
    BY DEF Fences, FencesDisjoint
  <2>3. \A g, k \in Holder \ {h} : g # k => FencesOf(g) \cap FencesOf(k) = {}
    BY DEF Fences, FencesDisjoint
  <2>4. \A g, k \in Holder : g # k => FencesOf(g)' \cap FencesOf(k)' = {}
    <3> TAKE g, k \in Holder
    <3>1. CASE g = h
      BY <1>5, <2>1, <2>2, <3>1
    <3>2. CASE k = h
      BY <1>5, <2>1, <2>2, <3>2
    <3>3. CASE g # h /\ k # h
      BY <1>5, <2>3, <3>3
    <3> QED BY <3>1, <3>2, <3>3
  <2> QED BY <2>4 DEF FencesDisjoint
<1> QED BY <1>6, <1>7, <1>10, <1>11 DEF Fences
\* The rows an append writes carry the lease's fence, behind all others.
LEMMA InsertFences ==
  ASSUME TypeOK, NEW w \in Work, NEW plan \in Seq(PlannedSegment),
         NEW base \in Nat, NEW seq, Insert(w, plan, base, seq),
         \A m \in DOMAIN journal : m < base
  PROVE  /\ DOMAIN journal \subseteq DOMAIN journal'
         /\ \A m \in DOMAIN journal : journal'[m] = journal[m]
         /\ \A m \in DOMAIN journal' \ DOMAIN journal :
              /\ journal'[m].fence = w.fence
              /\ m \in Nat
              /\ \A a \in DOMAIN journal : a < m
<1>1. Len(plan) \in Nat
  BY LenProperties
<1>2. \A m \in DOMAIN journal : m \in Nat
  BY DEF TypeOK
<1> QED BY <1>1, <1>2 DEF Insert

LEMMA AppendRows ==
  ASSUME TypeOK, NEW h \in Holder, AppendSegments(h)
  PROVE  /\ DOMAIN journal \subseteq DOMAIN journal'
         /\ \A m \in DOMAIN journal : journal'[m] = journal[m]
         /\ \A m \in DOMAIN journal' \ DOMAIN journal :
              /\ journal'[m].fence = work[h].fence
              /\ m \in Nat
              /\ \A a \in DOMAIN journal : a < m
<1> DEFINE w == work[h]
           Extended ==
             /\ DOMAIN journal \subseteq DOMAIN journal'
             /\ \A m \in DOMAIN journal : journal'[m] = journal[m]
             /\ \A m \in DOMAIN journal' \ DOMAIN journal :
                  /\ journal'[m].fence = w.fence
                  /\ m \in Nat
                  /\ \A a \in DOMAIN journal : a < m
<1>1. w \in Work /\ w.plan \in Seq(PlannedSegment)
  BY DEF TypeOK, Work
<1>2. CASE AppendFirst(w)
  <2>1. Insert(w, w.plan, 0, 0) /\ \A m \in DOMAIN journal : m < 0
    BY <1>2 DEF AppendFirst
  <2> HIDE DEF w
  <2>2. Extended
    BY <1>1, <2>1, InsertFences
  <2> QED BY <2>2 DEF w
<1>3. ASSUME NEW t \in DOMAIN journal, AppendAfter(w, t)
      PROVE  Extended
  <2> DEFINE plan == Marked(w.plan, t, w.prov)
  <2>1. plan \in Seq(PlannedSegment)
    BY <1>1, MarkedPlan
  <2>2. Insert(w, plan, t + 1, SeqAfter(journal[t]))
    BY <1>3 DEF AppendAfter
  <2>3. t + 1 \in Nat /\ \A m \in DOMAIN journal : m < t + 1
    BY <1>3 DEF AppendAfter, IsTail, TypeOK
  <2> HIDE DEF plan, w
  <2> QED BY <1>1, <2>1, <2>2, <2>3, InsertFences
<1> QED BY <1>2, <1>3 DEF AppendSegments

LEMMA AppendFences ==
  ASSUME TypeOK, Fences, NEW h \in Holder, AppendSegments(h)
  PROVE  Fences'
<1>1. /\ station.life # "PURGED" /\ lease.fence = work[h].fence
      /\ station' = station /\ lease' = lease /\ runtime' = runtime
      /\ observed' = lease.fence
  BY HeldNotPurged DEF AppendSegments, Fences
<1>2. \A g \in Holder : FencesOf(g)' \subseteq FencesOf(g)
  BY <1>1, EndReconcileFences DEF AppendSegments
<1>3. /\ DOMAIN journal \subseteq DOMAIN journal'
      /\ \A m \in DOMAIN journal : journal'[m] = journal[m]
      /\ \A m \in DOMAIN journal' \ DOMAIN journal :
           /\ journal'[m].fence = lease.fence
           /\ m \in Nat
           /\ \A a \in DOMAIN journal : a < m
  BY <1>1, AppendRows
<1>4. FencesOrdered'
  <2>1. lease.fence \in Nat /\ \A m \in DOMAIN journal :
          m \in Nat /\ journal[m].fence \in Nat /\ journal[m].fence <= lease.fence
    BY DEF TypeOK, Row, Fences, FencesOrdered
  <2>2. \A m \in DOMAIN journal' : journal'[m].fence <= lease.fence
    BY <1>3, <2>1
  <2>3. ASSUME NEW a \in DOMAIN journal', NEW b \in DOMAIN journal', a <= b
        PROVE  journal'[a].fence <= journal'[b].fence
    <3>1. CASE b \in DOMAIN journal
      <4>1. a \in DOMAIN journal
        BY <1>3, <2>1, <2>3, <3>1
      <4> QED BY <1>3, <2>3, <3>1, <4>1 DEF Fences, FencesOrdered
    <3>2. CASE b \notin DOMAIN journal
      BY <1>3, <2>2, <3>2
    <3> QED BY <3>1, <3>2
  <2>4. observed' <= lease.fence
    BY <1>1, <2>1
  <2> QED BY <1>1, <2>2, <2>3, <2>4 DEF FencesOrdered
<1>5. PurgedIsEmpty'
  BY <1>1 DEF PurgedIsEmpty
<1>6. FencesHeld' /\ FencesDisjoint'
  BY <1>1, <1>2 DEF Fences, FencesHeld, FencesDisjoint
<1> QED BY <1>4, <1>5, <1>6 DEF Fences

LEMMA PurgeFences ==
  ASSUME TypeOK, Fences, PurgeStation
  PROVE  Fences'
<1>1. \A g \in Holder : FencesOf(g)' = FencesOf(g)
  BY DEF PurgeStation, arbiter, FencesOf
<1>2. station'.life = "PURGED"
  BY DEF PurgeStation, TypeOK
<1>3. /\ DOMAIN journal' = {} /\ observed' = 0
      /\ lease'.fence = 0 /\ lease'.holder = None
  BY DEF PurgeStation
<1> QED BY <1>1, <1>2, <1>3
        DEF Fences, FencesOrdered, PurgedIsEmpty, FencesHeld, FencesDisjoint

\* The other steps of an arbiter.
LEMMA ArbiterFences ==
  ASSUME TypeOK, Fences, NEW h \in Holder, ArbiterStep(h)
  PROVE  Fences'
<1>1. work[h].fence \in Nat /\ runtime[h].fence \in Nat
  BY DEF TypeOK, Work
<1>2. CASE DropStation(h)
  <2>1. /\ lease'.fence = lease.fence /\ lease'.holder = lease.holder
        /\ \A g \in Holder : FencesOf(g)' \subseteq FencesOf(g)
    BY <1>1, <1>2, ReleaseKeepsFence DEF DropStation, FencesOf, TypeOK, NoRuntime
  <2> QED BY <1>2, <2>1, FencesKept DEF DropStation
<1>3. CASE ReuseRuntime(h)
  <2>1. \A g \in Holder : FencesOf(g)' \subseteq FencesOf(g)
    BY <1>3 DEF ReuseRuntime, FencesOf, TypeOK, Work
  <2> QED BY <1>3, <2>1, FencesKept DEF ReuseRuntime
<1>4. CASE ClaimAcquired(h)
  <2>1. CASE Valid(h, work[h].fence)
    <3>1. observed' = lease.fence /\ station.life # "PURGED" /\ lease' = lease
      BY <1>4, <2>1, HeldNotPurged DEF ClaimAcquired, Fences
    <3>2. /\ work' = [work EXCEPT ![h].until = 0]
          /\ runtime' = [runtime EXCEPT ![h] = [fence |-> work[h].fence,
                                                until |-> work[h].until]]
      BY <1>4, <2>1 DEF ClaimAcquired
    <3>3. /\ \A g \in Holder : work'[g].fence = work[g].fence
          /\ \A g \in Holder : runtime'[g].fence \in {work[g].fence, runtime[g].fence}
      BY <3>2 DEF TypeOK, Work
    <3>4. \A g \in Holder : FencesOf(g)' \subseteq FencesOf(g)
      BY <3>3 DEF FencesOf
    <3> QED BY <1>4, <3>1, <3>4, FencesKept DEF ClaimAcquired
  <2>2. CASE ~Valid(h, work[h].fence)
    <3>1. lease'.fence = lease.fence /\ lease'.holder = lease.holder
      BY <1>1, <1>4, <2>2, ReleaseKeepsFence DEF ClaimAcquired
    <3>2. \A g \in Holder : FencesOf(g)' \subseteq FencesOf(g)
      BY <1>4, <2>2, EndReconcileFences DEF ClaimAcquired
    <3> QED BY <1>4, <2>2, <3>1, <3>2, FencesKept DEF ClaimAcquired
  <2> QED BY <2>1, <2>2
<1>5. CASE Renew(h)
  <2>1. lease'.fence = lease.fence /\ lease'.holder = lease.holder
    BY <1>5 DEF Renew, TypeOK
  <2>2. CASE Valid(h, work[h].fence)
    <3>1. /\ work' = [work EXCEPT ![h].until = now + LeaseTicks]
          /\ runtime' = runtime
      BY <1>5, <2>2 DEF Renew
    <3>2. \A g \in Holder : work'[g].fence = work[g].fence
      BY <3>1 DEF TypeOK, Work
    <3>3. \A g \in Holder : FencesOf(g)' \subseteq FencesOf(g)
      BY <3>1, <3>2 DEF FencesOf
    <3> QED BY <1>5, <2>1, <3>3, FencesKept DEF Renew
  <2>3. CASE ~Valid(h, work[h].fence)
    <3>1. \A g \in Holder : runtime'[g].fence \in {runtime[g].fence, 0}
      BY <1>5, <2>3 DEF Renew, TypeOK, NoRuntime
    <3>2. \A g \in Holder : FencesOf(g)' \subseteq FencesOf(g)
      BY <1>5, <2>3, <3>1, EndReconcileFences DEF Renew
    <3> QED BY <1>5, <2>1, <3>2, FencesKept DEF Renew
  <2> QED BY <2>2, <2>3
<1>6. CASE ClaimRenewed(h)
  <2>1. CASE Keeps(h) /\ Valid(h, work[h].fence)
    <3>1. observed' = lease.fence /\ station.life # "PURGED" /\ lease' = lease
      BY <1>6, <2>1, HeldNotPurged DEF ClaimRenewed, Fences
    <3>2. /\ work' = [work EXCEPT ![h].until = 0]
          /\ runtime' = [runtime EXCEPT ![h].until = work[h].until]
      BY <1>6, <2>1 DEF ClaimRenewed
    <3>3. /\ \A g \in Holder : work'[g].fence = work[g].fence
          /\ \A g \in Holder : runtime'[g].fence = runtime[g].fence
      BY <3>2 DEF TypeOK, Work
    <3>4. \A g \in Holder : FencesOf(g)' \subseteq FencesOf(g)
      BY <3>3 DEF FencesOf
    <3> QED BY <1>6, <3>1, <3>4, FencesKept DEF ClaimRenewed
  <2>2. CASE ~(Keeps(h) /\ Valid(h, work[h].fence))
    <3>1. lease'.fence = lease.fence /\ lease'.holder = lease.holder
      BY <1>1, <1>6, <2>2, ReleaseKeepsFence DEF ClaimRenewed
    <3>2. EndReconcile(h) /\ observed' = observed
      BY <1>6, <2>2 DEF ClaimRenewed
    <3>3. \A g \in Holder : runtime'[g].fence \in {runtime[g].fence, 0}
      BY <1>6, <2>2 DEF ClaimRenewed, TypeOK, NoRuntime
    <3>4. \A g \in Holder : FencesOf(g)' \subseteq FencesOf(g)
      BY <3>2, <3>3, EndReconcileFences
    <3> QED BY <1>6, <3>1, <3>2, <3>4, FencesKept DEF ClaimRenewed
  <2> QED BY <2>1, <2>2
<1>7. CASE ReadSource(h)
  <2>1. \A g \in Holder : work'[g].fence \in {work[g].fence, 0}
    <3>1. \A s, p, b : Sourced(work[h], s, p, b).fence = work[h].fence
      BY DEF Sourced, TypeOK, Work
    <3>2. CASE EndReconcile(h)
      BY <3>2 DEF EndReconcile, TypeOK, NoWork
    <3>3. CASE \E s, p, b : work' = [work EXCEPT ![h] = Sourced(work[h], s, p, b)]
      BY <3>1, <3>3 DEF TypeOK
    <3>4. CalendarSource(h, station.release)
            => \E s, p, b : work' = [work EXCEPT ![h] = Sourced(work[h], s, p, b)]
      BY DEF CalendarSource
    <3>5. \/ EndReconcile(h)
          \/ CalendarSource(h, station.release)
          \/ work' = [work EXCEPT ![h] = Sourced(work[h], station.schedule, Legacy, None)]
      BY <1>7 DEF ReadSource
    <3> QED BY <3>2, <3>3, <3>4, <3>5
  <2>2. \A g \in Holder : FencesOf(g)' \subseteq FencesOf(g)
    BY <1>7, <2>1 DEF ReadSource, FencesOf
  <2> QED BY <1>7, <2>2, FencesKept DEF ReadSource
<1>8. CASE PlanAhead(h)
  <2>1. \A g \in Holder : work'[g].fence \in {work[g].fence, 0}
    <3>1. CASE EndReconcile(h)
      BY <3>1 DEF EndReconcile, TypeOK, NoWork
    <3>2. CASE \E P : work' = [work EXCEPT ![h] =
                        [work[h] EXCEPT !.plan = P, !.at = 0, !.through = None]]
      BY <3>2 DEF TypeOK, Work
    <3> QED BY <1>8, <3>1, <3>2 DEF PlanAhead
  <2>2. \A g \in Holder : FencesOf(g)' \subseteq FencesOf(g)
    BY <1>8, <2>1 DEF PlanAhead, FencesOf
  <2> QED BY <1>8, <2>2, FencesKept DEF PlanAhead
<1>9. CASE AppendRejected(h)
  <2>1. \A g \in Holder : FencesOf(g)' \subseteq FencesOf(g)
    BY <1>9, EndReconcileFences DEF AppendRejected
  <2> QED BY <1>9, <2>1, FencesKept DEF AppendRejected
<1>10. CASE ReleaseRuntimes(h)
  <2>1. /\ lease'.fence = lease.fence /\ lease'.holder = lease.holder
        /\ \A g \in Holder : FencesOf(g)' \subseteq FencesOf(g)
    BY <1>1, <1>10, ReleaseKeepsFence
    DEF ReleaseRuntimes, FencesOf, TypeOK, NoRuntime
  <2> QED BY <1>10, <2>1, FencesKept DEF ReleaseRuntimes
<1> QED BY <1>2, <1>3, <1>4, <1>5, <1>6, <1>7, <1>8, <1>9, <1>10,
           AcquireFences, AppendFences DEF ArbiterStep
LEMMA EventFences ==
  ASSUME TypeOK, Fences, NEW h \in Holder, Event(h)
  PROVE  Fences'
<1>1. \A g \in Holder : /\ work'[g].fence \in {work[g].fence, 0}
                        /\ runtime'[g].fence \in {runtime[g].fence, 0}
  <2>1. CASE LeaseTimer(h)
    BY <2>1 DEF LeaseTimer, TypeOK, NoRuntime
  <2>2. CASE Signal(h)
    BY <2>2 DEF Signal
  <2>3. CASE Crash(h)
    BY <2>3 DEF Crash, TypeOK, NoRuntime, NoWork
  <2> QED BY <2>1, <2>2, <2>3 DEF Event
<1>2. \A g \in Holder : FencesOf(g)' \subseteq FencesOf(g)
  BY <1>1 DEF FencesOf
<1>3. /\ lease' = lease /\ station' = station
      /\ journal' = journal /\ observed' = observed
  BY DEF Event, LeaseTimer, Signal, Crash
<1> QED BY <1>2, <1>3, FencesKept

LEMMA ControlFences ==
  ASSUME TypeOK, Fences, Control \/ Tick
  PROVE  Fences'
<1>1. CASE PurgeStation
  BY <1>1, PurgeFences
<1>2. CASE ~PurgeStation
  <2>1. /\ work' = work /\ runtime' = runtime
        /\ lease' = lease /\ observed' = observed
    BY <1>2 DEF Control, Tick, ChangeSchedule, ActivateRelease, StopStation,
       StartStation, DeleteStation, RestoreStation, PruneJournal, arbiter
  <2>2. station'.life = "PURGED" <=> station.life = "PURGED"
    BY <1>2 DEF Control, Tick, ChangeSchedule, ActivateRelease, StopStation,
       StartStation, DeleteStation, RestoreStation, PruneJournal, OnAir, TypeOK
  <2>3. /\ DOMAIN journal' \subseteq DOMAIN journal
        /\ \A m \in DOMAIN journal' : journal'[m] = journal[m]
    <3>1. CASE PruneJournal
      BY <3>1 DEF PruneJournal
    <3>2. CASE ~PruneJournal
      BY <1>2, <3>2 DEF Control, Tick, ChangeSchedule, ActivateRelease,
         StopStation, StartStation, DeleteStation, RestoreStation
    <3> QED BY <3>1, <3>2
  <2>4. \A g \in Holder : FencesOf(g)' \subseteq FencesOf(g)
    BY <2>1 DEF FencesOf
  <2> QED BY <2>1, <2>2, <2>3, <2>4, FencesKept
<1> QED BY <1>1, <1>2

LEMMA InitFences == Init => Fences
<1> SUFFICES ASSUME Init PROVE Fences
  OBVIOUS
<1>1. \A h \in Holder : FencesOf(h) = {}
  BY DEF Init, FencesOf, NoRuntime, NoWork
<1> QED BY <1>1 DEF Init, Fences, FencesOrdered, PurgedIsEmpty, FencesHeld,
           FencesDisjoint

LEMMA FencesStep == TypeOK /\ Fences /\ [Next]_vars => Fences'
<1> SUFFICES ASSUME TypeOK, Fences, [Next]_vars PROVE Fences'
  OBVIOUS
<1>1. CASE UNCHANGED vars
  <2>1. \A h \in Holder : FencesOf(h)' \subseteq FencesOf(h)
    BY <1>1 DEF vars, FencesOf
  <2> QED BY <1>1, <2>1, FencesKept DEF vars
<1> QED BY <1>1, ArbiterFences, EventFences, ControlFences DEF Next

LEMMA Invariance == Spec => []IInv
<1>1. Init => IInv
  BY InitType, InitWindow, InitFences DEF IInv, Fences
<1>2. IInv /\ [Next]_vars => IInv'
  BY TypeStep, WindowStep, FencesStep DEF IInv, Fences
<1> QED BY <1>1, <1>2, PTL DEF Spec

(* Fences order the owners of the channel: nothing in the journal or in    *)
(* the playout state is newer than the lease, and the journal never goes   *)
(* back to an older owner.                                                 *)
THEOREM FencesAlwaysOrdered == Spec => []FencesOrdered
BY Invariance, PTL DEF IInv

(* Two processes never act under the same fence, even after a purge has    *)
(* reset the lease row while they were still at work.                      *)
THEOREM FenceAlwaysUnique == Spec => []FenceUnique
<1>1. IInv => FenceUnique
  BY DEF IInv, FencesDisjoint, FencesOf, FenceUnique
<1> QED BY <1>1, Invariance, PTL

(***************************************************************************)
(* What a step does to the journal.                                        *)
(***************************************************************************)

\* Only appends, prunes and purges touch the journal.
LEMMA JournalSteps ==
  ASSUME [Next]_vars, journal' # journal
  PROVE  (\E h \in Holder : AppendSegments(h)) \/ PruneJournal \/ PurgeStation
BY DEF Next, ArbiterStep, DropStation, Acquire, ReuseRuntime, ClaimAcquired,
   Renew, ClaimRenewed, ReadSource, PlanAhead, AppendRejected, ReleaseRuntimes,
   Event, LeaseTimer, Signal, Crash, Control, ChangeSchedule, ActivateRelease,
   StopStation, StartStation, DeleteStation, RestoreStation, Tick, vars

(* A media sequence a player was given keeps its row for as long as the    *)
(* row exists, and is never given to another one.                          *)
THEOREM ServedIsKept == Spec => NeverReissued
<1>1. IInv /\ [Next]_vars => [KeepsServed]_journal
  <2> SUFFICES ASSUME IInv, [Next]_vars, journal' # journal PROVE KeepsServed
    OBVIOUS
  <2>1. ASSUME NEW h \in Holder, AppendSegments(h) PROVE KeepsServed
    <3>1. /\ DOMAIN journal \subseteq DOMAIN journal'
          /\ \A m \in DOMAIN journal : journal'[m] = journal[m]
          /\ \A m \in DOMAIN journal' \ DOMAIN journal :
               \A a \in DOMAIN journal : a < m
      BY <2>1, AppendRows DEF IInv
    <3> QED BY <3>1 DEF KeepsServed
  <2>2. CASE PruneJournal
    <3>1. PICK last \in Prunable :
            journal' = [m \in DOMAIN journal \ {k \in Prunable : k <= last}
                          |-> journal[m]]
      BY <2>2 DEF PruneJournal
    <3>2. PICK m \in DOMAIN journal : ~(m <= last)
      BY <3>1 DEF Prunable, IsTail
    <3>3. m \in DOMAIN journal'
      BY <3>1, <3>2
    <3> QED BY <3>1, <3>3 DEF KeepsServed
  <2>3. CASE PurgeStation
    BY <2>3 DEF PurgeStation, KeepsServed, IInv, TypeOK
  <2> QED BY <2>1, <2>2, <2>3, JournalSteps
<1> QED BY <1>1, Invariance, PTL DEF Spec, NeverReissued

(***************************************************************************)
(* The abstract journal.                                                   *)
(***************************************************************************)

\* The rows a player sees.
Rows == [m \in DOMAIN journal |-> Served(journal[m])]

\* An insertion numbers its rows one after the other, from its base on.
LEMMA InsertNumbers ==
  ASSUME TypeOK, NEW w \in Work, NEW plan \in Seq(PlannedSegment),
         NEW base \in Nat, NEW seq \in Nat, Insert(w, plan, base, seq),
         NEW m \in DOMAIN journal' \ DOMAIN journal
  PROVE  \/ m - 1 \in DOMAIN journal'
         \/ m = base /\ journal'[m].discSeq = seq
<1>1. Len(plan) \in Nat
  BY LenProperties
<1>2. m \in base .. (base + Len(plan) - 1) /\ m \notin DOMAIN journal
  BY DEF Insert
<1>3. CASE m = base
  <2>1. journal'[m].discSeq = seq + Marks(plan, m - base + 1 - 1)
    BY <1>2 DEF Insert
  <2>2. m - base + 1 - 1 = 0 /\ Marks(plan, 0) = 0
    BY <1>1, <1>3, MarksCount
  <2> QED BY <1>3, <2>1, <2>2
<1>4. CASE m # base
  <2>1. m - 1 \in base .. (base + Len(plan) - 1)
    BY <1>1, <1>2, <1>4
  <2> QED BY <2>1 DEF Insert
<1> QED BY <1>3, <1>4

\* A row an append writes has its predecessor, or is the first of all.
LEMMA AppendNumbers ==
  ASSUME TypeOK, NEW h \in Holder, AppendSegments(h),
         NEW m \in DOMAIN journal' \ DOMAIN journal
  PROVE  \/ m - 1 \in DOMAIN journal'
         \/ m = 0 /\ journal'[m].discSeq = 0
<1> DEFINE w == work[h]
<1>1. w \in Work /\ w.plan \in Seq(PlannedSegment)
  BY DEF TypeOK, Work
<1>2. CASE AppendFirst(w)
  BY <1>1, <1>2, InsertNumbers DEF AppendFirst
<1>3. ASSUME NEW t \in DOMAIN journal, AppendAfter(w, t)
      PROVE  m - 1 \in DOMAIN journal'
  <2> DEFINE plan == Marked(w.plan, t, w.prov)
  <2>1. plan \in Seq(PlannedSegment)
    BY <1>1, MarkedPlan
  <2>2. t + 1 \in Nat /\ (t + 1) - 1 = t /\ SeqAfter(journal[t]) \in Nat
    BY DEF TypeOK, Row, SeqAfter
  <2>3. Insert(w, plan, t + 1, SeqAfter(journal[t]))
    BY <1>3 DEF AppendAfter
  <2>4. t \in DOMAIN journal'
    BY <2>3 DEF Insert
  <2>5. m - 1 \in DOMAIN journal' \/ m = t + 1
    <3> HIDE DEF plan, w
    <3> QED BY <1>1, <2>1, <2>2, <2>3, InsertNumbers
  <2> QED BY <2>2, <2>4, <2>5
<1> QED BY <1>2, <1>3 DEF AppendSegments

\* An append is an extension of the log by its owner.
LEMMA AppendExtends ==
  ASSUME IInv, IInv', NEW h \in Holder, AppendSegments(h)
  PROVE  Log!Extend
<1>1. /\ DOMAIN journal \subseteq DOMAIN journal'
      /\ \A m \in DOMAIN journal : journal'[m] = journal[m]
      /\ \A m \in DOMAIN journal' \ DOMAIN journal :
           /\ journal'[m].fence = work[h].fence
           /\ m \in Nat
           /\ \A a \in DOMAIN journal : a < m
  BY AppendRows DEF IInv
<1>2. /\ station' = station /\ lease' = lease
      /\ station.life = "RUNNING" /\ work[h].fence = lease.fence
  BY DEF AppendSegments, StationAccepts, OnAir, Valid
<1>3. DOMAIN Rows = DOMAIN journal /\ DOMAIN Rows' = DOMAIN journal'
  BY DEF Rows
<1>4. \A m \in DOMAIN journal' : Rows'[m] = Served(journal'[m])
  BY DEF Rows, Served
<1>5. \A m \in DOMAIN journal : Rows'[m] = Rows[m]
  BY <1>1, <1>4 DEF Rows
<1>6. ASSUME NEW m \in DOMAIN journal' \ DOMAIN journal
      PROVE  /\ Rows'[m] \in Log!Segment
             /\ Rows'[m].starts < Rows'[m].ends
             /\ Rows'[m].fence = lease.fence
             /\ \A k \in DOMAIN journal : k < m
             /\ IF m - 1 \in DOMAIN journal'
                THEN Log!Continues(Rows'[m - 1], Rows'[m])
                ELSE m = 0 /\ Rows'[m].discSeq = 0
  <2>1. /\ journal'[m] \in Row /\ journal'[m].starts < journal'[m].ends
        /\ journal'[m].fence = lease.fence /\ m \in Nat
    BY <1>1, <1>2 DEF IInv, TypeOK, RowsLast
  <2>2. Rows'[m] = Served(journal'[m])
    BY <1>4
  <2>3. CASE m - 1 \in DOMAIN journal'
    <3>1. Rows'[m - 1] = Served(journal'[m - 1])
      BY <1>4, <2>3
    <3>2. (m - 1) + 1 = m
      BY <2>1
    <3>3. /\ journal'[m].discSeq = SeqAfter(journal'[m - 1])
          /\ journal'[m].starts >= journal'[m - 1].ends
          /\ journal'[m].starts > journal'[m - 1].ends => journal'[m].disc
      BY <2>3, <3>2 DEF IInv, WindowServable, SeqAfter
    <3>4. Log!Continues(Rows'[m - 1], Rows'[m])
      BY <2>2, <3>1, <3>3 DEF Log!Continues, Log!CountedTo, Served, SeqAfter
    <3> QED BY <1>1, <2>1, <2>2, <2>3, <3>4 DEF Log!Segment, Served, Row
  <2>4. CASE m - 1 \notin DOMAIN journal'
    <3>1. m = 0 /\ journal'[m].discSeq = 0
      BY <2>4, AppendNumbers DEF IInv
    <3> QED BY <1>1, <2>1, <2>2, <2>4, <3>1 DEF Log!Segment, Served, Row
  <2> QED BY <2>3, <2>4
<1> QED BY <1>1, <1>2, <1>3, <1>5, <1>6 DEF Log!Extend, Rows

\* A prune forgets the oldest segments.
LEMMA PruneForgets ==
  ASSUME IInv, PruneJournal
  PROVE  Log!Forget
<1>1. PICK last \in Prunable :
        journal' = [m \in DOMAIN journal \ {k \in Prunable : k <= last} |-> journal[m]]
  BY DEF PruneJournal
<1> DEFINE Old == {k \in Prunable : k <= last}
           K == DOMAIN journal \ Old
<1>2. DOMAIN journal' = K /\ \A m \in K : journal'[m] = journal[m]
  BY <1>1
<1>3. \A m \in DOMAIN journal :
        m \in Nat /\ journal[m].starts \in Int /\ journal[m].ends \in Int
  BY DEF IInv, TypeOK, Row
<1>4. ASSUME NEW a \in K, NEW c \in Old, c > a
      PROVE  FALSE
  <2>1. /\ c \in DOMAIN journal /\ journal[c].ends < now - Retention
        /\ c <= last /\ a \in DOMAIN journal /\ last \in DOMAIN journal
    BY <1>4 DEF Prunable
  <2>2. journal[a].ends <= journal[c].starts
    BY <1>3, <1>4, <2>1, EndsGrow DEF IInv
  <2>3. journal[a].ends < now - Retention
    BY <1>3, <2>1, <2>2, ConstantsAssumption DEF IInv, RowsLast, TypeOK
  <2>4. ~IsTail(a) /\ a <= last
    BY <1>3, <1>4, <2>1 DEF IsTail
  <2> QED BY <2>1, <2>3, <2>4 DEF Prunable
<1>5. K # {}
  <2>1. PICK m \in DOMAIN journal : ~(m <= last)
    BY DEF Prunable, IsTail
  <2> QED BY <2>1
<1>6. DOMAIN Rows = DOMAIN journal /\ DOMAIN Rows' = K
  BY <1>2 DEF Rows
<1>7. \A m \in K : Rows'[m] = Rows[m]
  BY <1>2 DEF Rows, Served
<1>8. lease' = lease /\ station' = station
  BY DEF PruneJournal
<1>9. \A m \in K, k \in DOMAIN journal : k > m => k \in K
  BY <1>4
<1> HIDE DEF K
<1> QED BY <1>5, <1>6, <1>7, <1>8, <1>9 DEF Log!Forget, Rows, K

\* Only an acquisition by another owner changes the fence, but for a purge.
LEMMA LeaseSteps ==
  ASSUME IInv, [Next]_vars, ~PurgeStation
  PROVE  /\ station'.life = "PURGED" <=> station.life = "PURGED"
         /\ \/ lease'.fence = lease.fence
            \/ /\ lease'.fence = lease.fence + 1
               /\ station.life # "PURGED" /\ journal' = journal
<1>1. ASSUME NEW h \in Holder, NEW f, Release_(h, f)
      PROVE  lease'.fence = lease.fence
  BY <1>1, ReleaseKeepsFence DEF IInv
<1>2. CASE UNCHANGED vars
  BY <1>2 DEF vars
<1>3. ASSUME NEW h \in Holder, ArbiterStep(h)
      PROVE  /\ station' = station
             /\ \/ lease'.fence = lease.fence
                \/ /\ lease'.fence = lease.fence + 1
                   /\ station.life # "PURGED" /\ journal' = journal
  <2>1. CASE Acquire(h)
    BY <2>1 DEF Acquire, NextFence, Desired, OnAir, IInv, TypeOK
  <2>2. CASE Renew(h)
    BY <2>2 DEF Renew, IInv, TypeOK
  <2>3. CASE DropStation(h) \/ ClaimAcquired(h) \/ ClaimRenewed(h) \/ ReleaseRuntimes(h)
    BY <1>1, <2>3 DEF DropStation, ClaimAcquired, ClaimRenewed, ReleaseRuntimes
  <2>4. CASE ReuseRuntime(h) \/ ReadSource(h) \/ PlanAhead(h) \/ AppendSegments(h)
               \/ AppendRejected(h)
    BY <2>4 DEF ReuseRuntime, ReadSource, PlanAhead, AppendSegments, AppendRejected
  <2> QED BY <1>3, <2>1, <2>2, <2>3, <2>4 DEF ArbiterStep
<1>4. ASSUME NEW h \in Holder, Event(h) PROVE station' = station /\ lease' = lease
  BY <1>4 DEF Event, LeaseTimer, Signal, Crash
<1>5. CASE Control \/ Tick
  <2>1. lease' = lease
    BY <1>5 DEF Control, Tick, ChangeSchedule, ActivateRelease, StopStation,
       StartStation, DeleteStation, RestoreStation, PruneJournal
  <2>2. station'.life = "PURGED" <=> station.life = "PURGED"
    BY <1>5 DEF Control, Tick, ChangeSchedule, ActivateRelease, StopStation,
       StartStation, DeleteStation, RestoreStation, PruneJournal, OnAir, IInv, TypeOK
  <2> QED BY <2>1, <2>2
<1> QED BY <1>2, <1>3, <1>4, <1>5 DEF Next

(* Every arbiter, lease, plan, append, prune and purge together implement  *)
(* the log: what players see is one timeline, numbered once and for all,   *)
(* that one owner at a time extends at its end.                            *)
THEOREM LogImplemented == Spec => ImplementsLog
<1>1. Init => Log!Init
  <2> SUFFICES ASSUME Init PROVE Log!Init
    OBVIOUS
  <2>1. DOMAIN journal = {} /\ lease.fence = 0 /\ station.life # "PURGED"
    BY DEF Init
  <2>2. [m \in DOMAIN journal |-> Served(journal[m])] = [m \in {} |-> 0]
    BY <2>1
  <2> QED BY <2>1, <2>2 DEF Log!Init
<1>2. IInv /\ IInv' /\ [Next]_vars => [Log!Next]_Log!log
  <2> SUFFICES ASSUME IInv, IInv', [Next]_vars, ~(UNCHANGED Log!log)
               PROVE  Log!Next
    OBVIOUS
  <2>1. CASE PurgeStation
    <3>1. station'.life = "PURGED" /\ DOMAIN journal' = {} /\ lease'.fence = 0
      BY <2>1 DEF PurgeStation, IInv, TypeOK
    <3> QED BY <3>1 DEF Log!Next, Log!Close
  <2>2. CASE ~PurgeStation /\ journal' # journal
    <3>1. CASE PruneJournal
      BY <3>1, PruneForgets DEF Log!Next
    <3>2. ASSUME NEW h \in Holder, AppendSegments(h) PROVE Log!Next
      BY <3>2, AppendExtends DEF Log!Next
    <3> QED BY <2>2, <3>1, <3>2, JournalSteps
  <2>3. CASE ~PurgeStation /\ journal' = journal
    <3>1. (station'.life = "PURGED") = (station.life = "PURGED")
      BY <2>3, LeaseSteps
    <3>2. [m \in DOMAIN journal |-> Served(journal[m])]'
            = [m \in DOMAIN journal |-> Served(journal[m])]
      BY <2>3 DEF Served
    <3>3. lease'.fence = lease.fence + 1 /\ station.life # "PURGED"
      BY <2>3, <3>1, <3>2, LeaseSteps DEF Log!log
    <3> QED BY <3>1, <3>2, <3>3 DEF Log!Next, Log!TakeOver
  <2> QED BY <2>1, <2>2, <2>3
<1> QED BY <1>1, <1>2, Invariance, PTL DEF Spec, ImplementsLog, Log!Spec
=============================================================================
