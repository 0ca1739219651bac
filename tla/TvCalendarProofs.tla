-------------------------- MODULE TvCalendarProofs --------------------------
(* What the journal of TvPlayout owes to the calendar, for any number of   *)
(* arbiters, any schedules, any calendar and any bounds.                   *)
EXTENDS TvPlayoutProofs

(***************************************************************************)
(* The rows of an append.                                                  *)
(***************************************************************************)

\* The i-th row of a plan inserted at base takes the plan's times and mark,
\* and the provenance and the schedule of the work it was planned for.
Inserted(w, plan, base) ==
  LET N == base .. (base + Len(plan) - 1) IN
  /\ DOMAIN journal' = DOMAIN journal \cup N
  /\ \A m \in DOMAIN journal : journal'[m] = journal[m]
  /\ \A m \in N :
       /\ m \notin DOMAIN journal /\ m - base + 1 \in 1 .. Len(plan)
       /\ journal'[m].starts = plan[m - base + 1].starts
       /\ journal'[m].disc = plan[m - base + 1].disc
       /\ journal'[m].prov = w.prov
       /\ journal'[m].schedule = w.schedule

LEMMA InsertedRows ==
  ASSUME NEW w, NEW plan \in Seq(PlannedSegment), NEW base \in Nat, NEW seq,
         Insert(w, plan, base, seq), \A m \in DOMAIN journal : m \in Nat /\ m < base
  PROVE  Inserted(w, plan, base)
<1>1. Len(plan) \in Nat
  BY LenProperties
<1> QED BY <1>1 DEF Insert, Inserted

\* Marking a plan changes no time, and marks its first segment when the
\* provenance changes.
LEMMA MarkedTimes ==
  ASSUME NEW plan \in Seq(PlannedSegment), NEW t, NEW prov, NEW i \in 1 .. Len(plan)
  PROVE  /\ Marked(plan, t, prov)[i].starts = plan[i].starts
         /\ Marked(plan, t, prov)[i].ends = plan[i].ends
         /\ i = 1 /\ journal[t].prov # prov => Marked(plan, t, prov)[i].disc
<1>1. plan[i] \in PlannedSegment /\ i \in DOMAIN plan
  BY LenProperties, ElementOfSeq
<1> QED BY <1>1 DEF Marked, PlannedSegment

(***************************************************************************)
(* Switches are marked.                                                    *)
(***************************************************************************)

LEMMA AppendMarksSwitch ==
  ASSUME TypeOK, SwitchMarked, NEW h \in Holder, AppendSegments(h)
  PROVE  SwitchMarked'
<1> DEFINE w == work[h]
<1>1. w \in Work /\ w.plan \in Seq(PlannedSegment)
  BY DEF TypeOK, Work
<1>2. CASE AppendFirst(w)
  <2>1. DOMAIN journal = {} /\ Insert(w, w.plan, 0, 0)
    BY <1>2 DEF AppendFirst
  <2>2. \A m \in DOMAIN journal' : journal'[m].prov = w.prov
    <3> HIDE DEF w
    <3>1. Inserted(w, w.plan, 0)
      BY <1>1, <2>1, InsertedRows
    <3> QED BY <2>1, <3>1 DEF Inserted
  <2> QED BY <2>2 DEF SwitchMarked
<1>3. ASSUME NEW t \in DOMAIN journal, AppendAfter(w, t)
      PROVE  SwitchMarked'
  <2> DEFINE plan == Marked(w.plan, t, w.prov)
             N == (t + 1) .. (t + 1 + Len(plan) - 1)
  <2>1. plan \in Seq(PlannedSegment) /\ Len(plan) = Len(w.plan) /\ Len(plan) \in Nat
    BY <1>1, MarkedPlan, LenProperties
  <2>2. /\ t \in Nat /\ t + 1 \in Nat
        /\ \A m \in DOMAIN journal : m \in Nat /\ m < t + 1
    BY <1>3 DEF AppendAfter, IsTail, TypeOK
  <2>3. Insert(w, plan, t + 1, SeqAfter(journal[t]))
    BY <1>3 DEF AppendAfter
  <2>4. /\ DOMAIN journal' = DOMAIN journal \cup N
        /\ \A m \in DOMAIN journal : journal'[m] = journal[m]
        /\ \A m \in N :
             /\ m - (t + 1) + 1 \in 1 .. Len(plan)
             /\ journal'[m].disc = plan[m - (t + 1) + 1].disc
             /\ journal'[m].prov = w.prov
    <3>1. Inserted(w, plan, t + 1)
      <4> HIDE DEF plan, w
      <4> QED BY <2>1, <2>2, <2>3, InsertedRows
    <3> QED BY <3>1 DEF Inserted
  <2>5. SUFFICES ASSUME NEW m \in DOMAIN journal', m + 1 \in DOMAIN journal',
                        journal'[m].prov # journal'[m + 1].prov
                 PROVE  journal'[m + 1].disc
    BY DEF SwitchMarked
  <2>6. CASE m + 1 \in DOMAIN journal
    <3>1. m \in DOMAIN journal
      BY <2>1, <2>2, <2>4, <2>6
    <3> QED BY <2>4, <2>5, <2>6, <3>1 DEF SwitchMarked
  <2>7. CASE m + 1 \in N
    <3>1. m \in DOMAIN journal
      BY <2>4, <2>5, <2>7
    <3>2. m = t
      BY <2>1, <2>2, <2>7, <3>1
    <3>3. (m + 1) - (t + 1) + 1 = 1 /\ 1 \in 1 .. Len(w.plan)
      <4>1. (m + 1) - (t + 1) + 1 = 1
        BY <2>2, <3>2
      <4>2. (m + 1) - (t + 1) + 1 \in 1 .. Len(plan)
        BY <2>4, <2>7
      <4> HIDE DEF plan, w
      <4> QED BY <2>1, <4>1, <4>2
    <3>4. journal[t].prov # w.prov
      BY <2>4, <2>5, <2>7, <3>1, <3>2
    <3>5. plan[1].disc
      BY <1>1, <3>3, <3>4, MarkedTimes
    <3> QED BY <2>4, <2>7, <3>3, <3>5
  <2> QED BY <2>4, <2>5, <2>6, <2>7
<1> QED BY <1>2, <1>3 DEF AppendSegments

\* A step that only removes rows keeps them marked.
LEMMA SwitchStep ==
  TypeOK /\ SwitchMarked /\ [Next]_vars => SwitchMarked'
<1> SUFFICES ASSUME TypeOK, SwitchMarked, [Next]_vars PROVE SwitchMarked'
  OBVIOUS
<1>1. CASE journal' = journal
  BY <1>1 DEF SwitchMarked
<1>2. ASSUME NEW h \in Holder, AppendSegments(h) PROVE SwitchMarked'
  BY <1>2, AppendMarksSwitch
<1>3. CASE PruneJournal \/ PurgeStation
  BY <1>3 DEF PruneJournal, PurgeStation, SwitchMarked
<1> QED BY <1>1, <1>2, <1>3, JournalSteps

(* Wherever the journal passes from the loop to the calendar, back, or from*)
(* one occurrence to the next, the player is told, though the planner read *)
(* the tail long before and another arbiter may have moved it.             *)
THEOREM SwitchAlwaysMarked == Spec => []SwitchMarked
<1>1. Init => SwitchMarked
  BY DEF Init, SwitchMarked
<1> QED BY <1>1, SwitchStep, TypeCorrect, PTL DEF Spec

(***************************************************************************)
(* The calendar.                                                           *)
(***************************************************************************)

\* What release r says of time t: no occurrence, or this programme.
Says(r, occurrence, schedule, t) ==
  IF occurrence = None
  THEN ActiveAt(r, t) = {}
  ELSE \E o \in ActiveAt(r, t) :
         /\ Rules(o, r, t)
         /\ o.id = occurrence /\ o.schedule = schedule /\ o.kind = "PROGRAM"

\* The calendar says of the time of the snapshot what the work will play, and
\* nothing changes before the boundary the work is cut at.
SourceHonours ==
  \A h \in Holder : pc[h] = "sourced" /\ work[h].prov # Legacy =>
    /\ work[h].at \in Nat
    /\ Says(work[h].prov.release, work[h].prov.occurrence, work[h].schedule,
            work[h].at)
    /\ IsNextBoundary(work[h].through, work[h].prov.release, work[h].at)

\* Every planned segment that follows the first one is inside the occurrence.
\* Of the first, which may straddle the snapshot's time, the append makes sure.
PlanHonours ==
  \A h \in Holder : pc[h] = "append" /\ work[h].prov # Legacy =>
    \A i \in 1 .. Len(work[h].plan) :
      work[h].plan[1].ends <= work[h].plan[i].starts =>
        Says(work[h].prov.release, work[h].prov.occurrence, work[h].schedule,
             work[h].plan[i].starts)

Planning == SourceHonours /\ PlanHonours

\* The calendar does not change its mind before the next boundary.
LEMMA SaysUntilBoundary ==
  ASSUME NEW r \in Release, NEW occurrence, NEW schedule,
         NEW t \in Nat, NEW u \in Int, t <= u,
         NEW b \in Nat \cup {None}, IsNextBoundary(b, r, t), b # None => u < b,
         Says(r, occurrence, schedule, t)
  PROVE  Says(r, occurrence, schedule, u)
<1>1. /\ Occurrences[r] \subseteq Occurrence
      /\ \A o \in Occurrences[r] : o.starts \in Nat /\ (o.ends # None => o.ends \in Nat)
  BY ConstantsAssumption DEF Occurrence
<1>2. \A c \in BoundariesAfter(r, t) : c > u
  <2>1. ASSUME NEW c \in BoundariesAfter(r, t) PROVE c > u
    <3>1. b \in BoundariesAfter(r, t) /\ b <= c
      BY DEF IsNextBoundary
    <3>2. b \in Nat /\ c \in Nat
      BY <3>1, BoundariesType
    <3>3. b # None
      BY <3>2, ConstantsAssumption
    <3> QED BY <3>1, <3>2, <3>3
  <2> QED BY <2>1
<1>3. \A o \in Occurrences[r] : o.starts > t => o.starts > u
  BY <1>2 DEF BoundariesAfter
<1>4. ActiveAt(r, u) \subseteq ActiveAt(r, t)
  BY <1>1, <1>3 DEF ActiveAt
<1>5. ASSUME NEW o \in ActiveAt(r, t), Rules(o, r, t)
      PROVE  o \in ActiveAt(r, u) /\ Rules(o, r, u)
  <2>1. o.ends # None => o.ends > u
    BY <1>2, <1>5 DEF BoundariesAfter
  <2>2. o \in ActiveAt(r, u)
    BY <1>1, <2>1 DEF ActiveAt
  <2> QED BY <1>4, <1>5, <2>2 DEF Rules
<1> QED BY <1>4, <1>5 DEF Says

\* What the catch-up keeps of a calendar's timeline lies between the time of
\* the snapshot and the boundary.
LEMMA KeptInside ==
  ASSUME NEW w \in Work, w.prov # Legacy, NEW e \in Int, NEW tail \in Int \cup {None},
         w.schedule \in Schedule, NEW k \in KeptFor(w, e, tail)
  PROVE  /\ k \in Nat
         /\ SegmentAt(w.schedule, e, k).ends > w.at
         /\ w.through # None => SegmentAt(w.schedule, e, k).starts < w.through
<1>1. /\ w.at \in Nat /\ w.at - 0 = w.at /\ w.through \in Nat \cup {None}
      /\ Ahead \in Nat /\ MaxIndex \in Nat
  BY ConstantsAssumption DEF Work
<1> DEFINE from == IF tail = None THEN w.at ELSE Larger(w.at, tail)
<1>2. k \in Kept(w.schedule, e, from, Through(w), tail)
  BY <1>1 DEF KeptFor
<1>3. from \in Int /\ from >= w.at
  BY <1>1 DEF Larger
<1> HIDE DEF from
<1>4. /\ k \in 0 .. MaxIndex
      /\ SegmentAt(w.schedule, e, k).ends > Larger(from, e)
      /\ SegmentAt(w.schedule, e, k).starts < Through(w)
  BY <1>2 DEF Kept
<1>5. k \in Nat
  BY <1>1, <1>4
<1>6. /\ SegmentAt(w.schedule, e, k).starts \in Int
      /\ SegmentAt(w.schedule, e, k).ends \in Int
  BY <1>5, SegmentAtType DEF PlannedSegment
<1>7. SegmentAt(w.schedule, e, k).ends > w.at
  BY <1>1, <1>3, <1>4, <1>6 DEF Larger
<1>8. w.through # None => SegmentAt(w.schedule, e, k).starts < w.through
  BY <1>1, <1>4, <1>6 DEF Through, Smaller
<1> QED BY <1>5, <1>7, <1>8

\* A plan made of a source that honours the calendar honours it too.
LEMMA PlanAheadHonours ==
  ASSUME TypeOK, SourceKnown, Planning, NEW h \in Holder, PlanAhead(h)
  PROVE  Planning'
<1> DEFINE w == work[h]
           e == IF w.prov = Legacy THEN station.epoch ELSE w.prov.epoch
<1>1. /\ w \in Work /\ w.schedule \in Schedule /\ e \in Int
      /\ pc[h] = "sourced"
  BY DEF TypeOK, SourceKnown, PlanAhead
<1>2. CASE EndReconcile(h)
  BY <1>2 DEF EndReconcile, Planning, SourceHonours, PlanHonours, TypeOK
<1>3. CASE ~EndReconcile(h)
  <2> DEFINE tails == {None} \cup {journal[m].ends : m \in DOMAIN journal}
  <2>1. PICK tail \in tails, k \in 0 .. MaxIndex, n \in 1 .. MaxAppend :
          /\ KeptFor(w, e, tail) = k .. (k + n - 1)
          /\ work' = [work EXCEPT ![h] =
               [w EXCEPT !.plan = PlanOf(w.schedule, e, k, n, tail), !.at = 0,
                         !.through = None]]
    BY <1>3 DEF PlanAhead
  <2>2. Goto(h, "append")
    BY <1>3 DEF PlanAhead
  <2> DEFINE P == PlanOf(w.schedule, e, k, n, tail)
             v == [w EXCEPT !.plan = P, !.at = 0, !.through = None]
  <2>3. /\ k \in Nat /\ n \in Nat /\ n >= 1 /\ tail \in Int \cup {None}
    BY ConstantsAssumption DEF TypeOK, Row
  <2>4. /\ Len(P) = n
        /\ \A i \in 1 .. n :
             /\ P[i].starts = SegmentAt(w.schedule, e, k + i - 1).starts
             /\ P[i].ends = SegmentAt(w.schedule, e, k + i - 1).ends
             /\ P[i].starts \in Int /\ P[i].ends \in Int
    <3>1. Len(P) = n
      BY <2>3 DEF PlanOf
    <3>2. ASSUME NEW i \in 1 .. n
          PROVE  /\ P[i].starts = SegmentAt(w.schedule, e, k + i - 1).starts
                 /\ P[i].ends = SegmentAt(w.schedule, e, k + i - 1).ends
                 /\ P[i].starts \in Int /\ P[i].ends \in Int
      <4> DEFINE g == SegmentAt(w.schedule, e, k + i - 1)
      <4>1. k + i - 1 \in Nat
        BY <2>3
      <4>2. g \in PlannedSegment
        BY <1>1, <4>1, SegmentAtType
      <4>3. P[i] = [g EXCEPT !.disc = g.disc \/ (i = 1 /\ (tail = None \/ g.starts > tail))]
        BY DEF PlanOf
      <4> HIDE DEF P, g
      <4>4. P[i].starts = g.starts /\ P[i].ends = g.ends
        BY <4>2, <4>3 DEF PlannedSegment
      <4> QED BY <4>2, <4>4 DEF PlannedSegment, g
    <3> QED BY <3>1, <3>2
  <2> HIDE DEF P, e
  <2>5. /\ v.plan = P /\ v.schedule = w.schedule /\ v.prov = w.prov
    BY <1>1 DEF Work
  <2>6. /\ work'[h] = v /\ pc'[h] = "append"
        /\ \A g \in Holder \ {h} : work'[g] = work[g] /\ pc'[g] = pc[g]
    BY <2>1, <2>2 DEF TypeOK, Goto, P
  <2> HIDE DEF v
  <2>7. ASSUME w.prov # Legacy, NEW i \in 1 .. n, P[1].ends <= P[i].starts
        PROVE  Says(w.prov.release, w.prov.occurrence, w.schedule, P[i].starts)
    <3>1. /\ w.at \in Nat /\ w.prov.release \in Release
          /\ Says(w.prov.release, w.prov.occurrence, w.schedule, w.at)
          /\ IsNextBoundary(w.through, w.prov.release, w.at)
      BY <1>1, <2>7 DEF Planning, SourceHonours, SourceKnown
    <3>2. k \in KeptFor(w, e, tail) /\ k + i - 1 \in KeptFor(w, e, tail)
      BY <2>1, <2>3
    <3>3. 1 \in 1 .. n /\ k + 1 - 1 = k
      BY <2>3
    <3>4. P[1].ends > w.at
      <4>1. SegmentAt(w.schedule, e, k).ends > w.at
        <5> HIDE DEF w
        <5> QED BY <1>1, <2>3, <2>7, <3>2, KeptInside
      <4>2. P[1].ends = SegmentAt(w.schedule, e, k + 1 - 1).ends
        BY <2>4, <3>3
      <4> QED BY <3>3, <4>1, <4>2
    <3>5. w.through # None => P[i].starts < w.through
      <4>1. w.through # None =>
              SegmentAt(w.schedule, e, k + i - 1).starts < w.through
        <5> HIDE DEF w
        <5> QED BY <1>1, <2>3, <2>7, <3>2, KeptInside
      <4> QED BY <2>4, <4>1
    <3>6. P[i].starts \in Int /\ P[1].ends \in Int
      BY <2>4, <3>3
    <3>7. w.through \in Nat \cup {None}
      BY <1>1 DEF Work
    <3>8. w.at <= P[i].starts
      BY <2>7, <3>1, <3>4, <3>6
    <3> HIDE DEF w
    <3> QED BY <3>1, <3>5, <3>6, <3>7, <3>8, SaysUntilBoundary
  <2>8. SourceHonours'
    BY <2>6 DEF Planning, SourceHonours
  <2>9. PlanHonours'
    <3>1. v.prov # Legacy => \A i \in 1 .. Len(v.plan) :
            v.plan[1].ends <= v.plan[i].starts =>
              Says(v.prov.release, v.prov.occurrence, v.schedule, v.plan[i].starts)
      BY <2>4, <2>5, <2>7
    <3> QED BY <2>6, <3>1 DEF Planning, PlanHonours
  <2> QED BY <2>8, <2>9 DEF Planning
<1> QED BY <1>2, <1>3

\* The source read from a calendar honours it.
LEMMA ReadSourceHonours ==
  ASSUME TypeOK, Planning, NEW h \in Holder, ReadSource(h)
  PROVE  Planning'
<1>1. /\ work[h] \in Work /\ station.release \in Release \cup {None} /\ now \in Nat
  BY DEF TypeOK
<1>2. CASE EndReconcile(h)
  BY <1>2 DEF EndReconcile, Planning, SourceHonours, PlanHonours, TypeOK
<1>3. ASSUME NEW s, NEW p, NEW b, Goto(h, "sourced"),
             work' = [work EXCEPT ![h] = Sourced(work[h], s, p, b)],
             p # Legacy => /\ Says(p.release, p.occurrence, s, now)
                           /\ IsNextBoundary(b, p.release, now)
      PROVE  Planning'
  <2>1. /\ Sourced(work[h], s, p, b).schedule = s /\ Sourced(work[h], s, p, b).prov = p
        /\ Sourced(work[h], s, p, b).at = now /\ Sourced(work[h], s, p, b).through = b
    BY <1>1 DEF Sourced, Work
  <2>2. /\ work'[h] = Sourced(work[h], s, p, b) /\ pc'[h] = "sourced"
        /\ \A g \in Holder \ {h} : work'[g] = work[g] /\ pc'[g] = pc[g]
    BY <1>3 DEF TypeOK, Goto
  <2>3. SourceHonours'
    BY <1>1, <1>3, <2>1, <2>2 DEF Planning, SourceHonours
  <2>4. PlanHonours'
    BY <2>2 DEF Planning, PlanHonours
  <2> QED BY <2>3, <2>4 DEF Planning
<1>4. CASE /\ work' = [work EXCEPT ![h] = Sourced(@, station.schedule, Legacy, None)]
           /\ Goto(h, "sourced")
  BY <1>3, <1>4
<1>5. CASE /\ station.release # None
           /\ CalendarSource(h, station.release)
           /\ Goto(h, "sourced")
  <2> DEFINE r == station.release
  <2>1. r \in Release
    BY <1>1, <1>5
  <2>2. PICK b \in BoundariesAfter(r, now) \cup {None} :
          /\ IsNextBoundary(b, r, now)
          /\ \/ \E o \in ActiveAt(r, now) :
                  /\ Rules(o, r, now) /\ o.kind = "PROGRAM"
                  /\ work' = [work EXCEPT ![h] = Sourced(work[h], o.schedule,
                       [release |-> r, occurrence |-> o.id, epoch |-> o.starts], b)]
             \/ /\ ActiveAt(r, now) = {}
                /\ work' = [work EXCEPT ![h] = Sourced(work[h], station.schedule,
                     [release |-> r, occurrence |-> None, epoch |-> station.epoch], b)]
    BY <1>5 DEF CalendarSource
  <2>3. ASSUME NEW o \in ActiveAt(r, now), Rules(o, r, now), o.kind = "PROGRAM",
               work' = [work EXCEPT ![h] = Sourced(work[h], o.schedule,
                 [release |-> r, occurrence |-> o.id, epoch |-> o.starts], b)]
        PROVE  Planning'
    <3> DEFINE p == [release |-> r, occurrence |-> o.id, epoch |-> o.starts]
    <3>1. o.id \in Nat
      BY <2>1, BoundariesType DEF Occurrence
    <3>2. Says(p.release, p.occurrence, o.schedule, now)
      BY <2>3, <3>1, ConstantsAssumption DEF Says
    <3> QED BY <1>3, <1>5, <2>2, <2>3, <3>2
  <2>4. ASSUME ActiveAt(r, now) = {},
               work' = [work EXCEPT ![h] = Sourced(work[h], station.schedule,
                 [release |-> r, occurrence |-> None, epoch |-> station.epoch], b)]
        PROVE  Planning'
    <3> DEFINE p == [release |-> r, occurrence |-> None, epoch |-> station.epoch]
    <3>1. Says(p.release, p.occurrence, station.schedule, now)
      BY <2>4 DEF Says
    <3> QED BY <1>3, <1>5, <2>2, <2>4, <3>1
  <2> QED BY <2>2, <2>3, <2>4
<1> QED BY <1>2, <1>4, <1>5 DEF ReadSource

\* No other step touches what an arbiter has sourced or planned, but to drop it.
LEMMA PlanningStep ==
  TypeOK /\ SourceKnown /\ Planning /\ [Next]_vars => Planning'
<1> SUFFICES ASSUME TypeOK, SourceKnown, Planning, [Next]_vars PROVE Planning'
  OBVIOUS
<1>1. ASSUME \A g \in Holder :
               \/ work'[g] = work[g] /\ pc'[g] = pc[g]
               \/ pc'[g] \notin {"sourced", "append"}
      PROVE  Planning'
  BY <1>1 DEF Planning, SourceHonours, PlanHonours
<1>2. ASSUME NEW h \in Holder, ArbiterStep(h) PROVE Planning'
  <2>1. CASE ReadSource(h)
    BY <2>1, ReadSourceHonours
  <2>2. CASE PlanAhead(h)
    BY <2>2, PlanAheadHonours
  <2>3. CASE DropStation(h) \/ ReleaseRuntimes(h)
    BY <1>1, <2>3 DEF DropStation, ReleaseRuntimes
  <2>4. CASE Acquire(h) \/ ReuseRuntime(h) \/ ClaimAcquired(h) \/ Renew(h)
               \/ ClaimRenewed(h) \/ AppendSegments(h) \/ AppendRejected(h)
    BY <1>1, <2>4 DEF TypeOK, Goto, EndReconcile, Acquire, ReuseRuntime,
       ClaimAcquired, Renew, ClaimRenewed, AppendSegments, AppendRejected
  <2> QED BY <1>2, <2>1, <2>2, <2>3, <2>4 DEF ArbiterStep
<1>3. ASSUME NEW h \in Holder, Event(h) PROVE Planning'
  BY <1>1, <1>3 DEF TypeOK, Event, LeaseTimer, Signal, Crash
<1>4. CASE Control \/ Tick
  BY <1>1, <1>4 DEF Control, Tick, ChangeSchedule, ActivateRelease, StopStation,
     StartStation, DeleteStation, RestoreStation, PurgeStation, PruneJournal, arbiter
<1>5. CASE UNCHANGED vars
  BY <1>1, <1>5 DEF vars
<1> QED BY <1>2, <1>3, <1>4, <1>5 DEF Next

\* In a plan the append takes, every other segment starts after the first ends.
LEMMA PlanGrows ==
  ASSUME NEW plan \in Seq(PlannedSegment), NEW ends, ValidIntervals(plan, ends),
         NEW i \in 2 .. Len(plan)
  PROVE  plan[1].ends <= plan[i].starts
<1> DEFINE T == {j \in 2 .. Len(plan) : ~(plan[1].ends <= plan[j].starts)}
<1>1. /\ Len(plan) \in Nat
      /\ \A j \in 1 .. Len(plan) : plan[j].starts \in Int /\ plan[j].ends \in Int
  <2>1. Len(plan) \in Nat /\ \A j \in 1 .. Len(plan) : plan[j] \in PlannedSegment
    BY LenProperties, ElementOfSeq
  <2> QED BY <2>1 DEF PlannedSegment
<1>2. ASSUME NEW j \in 2 .. Len(plan)
      PROVE  /\ j - 1 \in 1 .. Len(plan)
             /\ plan[j - 1].starts < plan[j - 1].ends
             /\ plan[j - 1].ends <= plan[j].starts
  <2>1. j \in 1 .. Len(plan) /\ j - 1 \in 1 .. Len(plan) /\ j # 1
    BY <1>1
  <2>2. plan[j - 1].ends # None
    BY <1>1, <2>1, ConstantsAssumption
  <2>3. plan[j].starts >= plan[j - 1].ends
    BY <2>1, <2>2 DEF ValidIntervals
  <2>4. plan[j - 1].ends - plan[j - 1].starts \in 1 .. MaxSegment
    BY <2>1 DEF ValidIntervals
  <2> QED BY <1>1, <2>1, <2>3, <2>4, ConstantsAssumption
<1>3. SUFFICES ASSUME T # {} PROVE FALSE
  OBVIOUS
<1>4. T \subseteq Nat
  BY <1>1
<1>5. PICK j \in T : \A k \in T : ~(<<k, j>> \in OpToRel(<, Nat))
  <2> HIDE DEF T
  <2> QED BY <1>3, <1>4, WFMin, NatLessThanWellFounded
<1>6. j \in 2 .. Len(plan) /\ ~(plan[1].ends <= plan[j].starts)
  OBVIOUS
<1>7. CASE j = 2
  <2>1. plan[2 - 1].ends <= plan[2].starts /\ 2 - 1 = 1
    BY <1>2, <1>6, <1>7
  <2> QED BY <1>6, <1>7, <2>1
<1>8. CASE j # 2
  <2>1. j \in Nat /\ j - 1 \in 2 .. Len(plan) /\ j - 1 < j
    BY <1>1, <1>6, <1>8
  <2>2. <<j - 1, j>> \in OpToRel(<, Nat)
    BY <2>1 DEF OpToRel
  <2>3. j - 1 \notin T
    <3> HIDE DEF T
    <3> QED BY <1>5, <2>2
  <2>4. plan[1].ends <= plan[j - 1].starts
    BY <2>1, <2>3
  <2>5. /\ plan[j - 1].starts < plan[j - 1].ends
        /\ plan[j - 1].ends <= plan[j].starts
        /\ j \in 1 .. Len(plan) /\ j - 1 \in 1 .. Len(plan) /\ 1 \in 1 .. Len(plan)
    BY <1>1, <1>2, <1>6
  <2>6. /\ plan[1].ends \in Int /\ plan[j - 1].starts \in Int
        /\ plan[j - 1].ends \in Int /\ plan[j].starts \in Int
    BY <1>1, <2>5
  <2>7. plan[1].ends <= plan[j].starts
    BY <2>4, <2>5, <2>6
  <2> QED BY <1>6, <2>7
<1> QED BY <1>7, <1>8

\* Every segment of a plan the append accepts is what the calendar says.
LEMMA AcceptedHonours ==
  ASSUME TypeOK, SourceKnown, Planning, NEW h \in Holder,
         pc[h] = "append", StationAccepts(work[h]), work[h].prov # Legacy,
         NEW plan \in Seq(PlannedSegment), Len(plan) = Len(work[h].plan),
         \A i \in 1 .. Len(plan) : /\ plan[i].starts = work[h].plan[i].starts
                                   /\ plan[i].ends = work[h].plan[i].ends,
         NEW ends, ValidIntervals(plan, ends),
         NEW i \in 1 .. Len(plan)
  PROVE  Says(work[h].prov.release, work[h].prov.occurrence, work[h].schedule,
              plan[i].starts)
<1> DEFINE w == work[h]
<1>1. 1 \in 1 .. Len(plan) /\ (i = 1 \/ i \in 2 .. Len(plan))
  BY LenProperties
<1>2. CASE i = 1
  <2>1. w.prov.release \in Release
    BY DEF SourceKnown
  <2>2. \A o \in ActiveAt(w.prov.release, w.plan[1].starts) : o.id # None
    BY <2>1, BoundariesType, ConstantsAssumption DEF Occurrence
  <2>3. Says(w.prov.release, w.prov.occurrence, w.schedule, w.plan[1].starts)
    BY <2>2 DEF StationAccepts, Says
  <2> QED BY <1>1, <1>2, <2>3
<1>3. CASE i # 1
  <2>1. plan[1].ends <= plan[i].starts
    BY <1>1, <1>3, PlanGrows
  <2>2. w.plan[1].ends <= w.plan[i].starts /\ i \in 1 .. Len(w.plan)
    BY <1>1, <2>1
  <2> QED BY <2>2 DEF Planning, PlanHonours
<1> QED BY <1>2, <1>3

LEMMA AppendHonours ==
  ASSUME TypeOK, SourceKnown, Planning, CalendarHonoured,
         NEW h \in Holder, AppendSegments(h)
  PROVE  CalendarHonoured'
<1> DEFINE w == work[h]
           Honoured(row) == row.prov.release # None =>
             Says(row.prov.release, row.prov.occurrence, row.schedule, row.starts)
<1>1. w \in Work /\ w.plan \in Seq(PlannedSegment)
  BY DEF TypeOK, Work
<1>2. \A m \in DOMAIN journal : Honoured(journal[m])
  BY DEF CalendarHonoured, Says
<1>3. SUFFICES \A m \in DOMAIN journal' : Honoured(journal'[m])
  BY DEF CalendarHonoured, Says
<1>4. pc[h] = "append" /\ StationAccepts(w)
  BY DEF AppendSegments
<1>5. ASSUME NEW plan \in Seq(PlannedSegment), Len(plan) = Len(w.plan),
             \A i \in 1 .. Len(plan) : /\ plan[i].starts = w.plan[i].starts
                                       /\ plan[i].ends = w.plan[i].ends,
             NEW ends, ValidIntervals(plan, ends),
             NEW base \in Nat, NEW seq, Insert(w, plan, base, seq),
             \A m \in DOMAIN journal : m \in Nat /\ m < base,
             NEW m \in DOMAIN journal'
      PROVE  Honoured(journal'[m])
  <2> DEFINE N == base .. (base + Len(plan) - 1)
  <2>1. /\ DOMAIN journal' = DOMAIN journal \cup N
        /\ \A k \in DOMAIN journal : journal'[k] = journal[k]
        /\ \A k \in N : /\ k - base + 1 \in 1 .. Len(plan)
                        /\ journal'[k].starts = plan[k - base + 1].starts
                        /\ journal'[k].prov = w.prov
                        /\ journal'[k].schedule = w.schedule
    <3>1. Inserted(w, plan, base)
      <4> HIDE DEF w
      <4> QED BY <1>5, InsertedRows
    <3> QED BY <3>1 DEF Inserted
  <2>2. CASE m \in DOMAIN journal
    BY <1>2, <2>1, <2>2
  <2>3. CASE m \in N
    <3>1. CASE w.prov = Legacy
      BY <2>1, <2>3, <3>1 DEF Legacy
    <3>2. CASE w.prov # Legacy
      <4>1. Says(w.prov.release, w.prov.occurrence, w.schedule,
                 plan[m - base + 1].starts)
        BY <1>4, <1>5, <2>1, <2>3, <3>2, AcceptedHonours
      <4> QED BY <2>1, <2>3, <4>1
    <3> QED BY <3>1, <3>2
  <2> QED BY <1>5, <2>1, <2>2, <2>3
<1>6. CASE AppendFirst(w)
  BY <1>1, <1>5, <1>6 DEF AppendFirst
<1>7. ASSUME NEW t \in DOMAIN journal, AppendAfter(w, t)
      PROVE  \A m \in DOMAIN journal' : Honoured(journal'[m])
  <2> DEFINE plan == Marked(w.plan, t, w.prov)
  <2>1. plan \in Seq(PlannedSegment) /\ Len(plan) = Len(w.plan)
    BY <1>1, MarkedPlan
  <2>2. \A i \in 1 .. Len(plan) : /\ plan[i].starts = w.plan[i].starts
                                  /\ plan[i].ends = w.plan[i].ends
    BY <1>1, <2>1, MarkedTimes
  <2>3. /\ t + 1 \in Nat
        /\ \A m \in DOMAIN journal : m \in Nat /\ m < t + 1
    BY <1>7 DEF AppendAfter, IsTail, TypeOK
  <2>4. /\ ValidIntervals(plan, journal[t].ends)
        /\ Insert(w, plan, t + 1, SeqAfter(journal[t]))
    BY <1>7 DEF AppendAfter
  <2> HIDE DEF plan, w, Honoured
  <2> QED BY <1>5, <2>1, <2>2, <2>3, <2>4
<1> QED BY <1>6, <1>7 DEF AppendSegments

LEMMA CalendarStep ==
  TypeOK /\ SourceKnown /\ Planning /\ CalendarHonoured /\ [Next]_vars
    => CalendarHonoured'
<1> SUFFICES ASSUME TypeOK, SourceKnown, Planning, CalendarHonoured, [Next]_vars
             PROVE  CalendarHonoured'
  OBVIOUS
<1>1. CASE journal' = journal
  BY <1>1 DEF CalendarHonoured
<1>2. ASSUME NEW h \in Holder, AppendSegments(h) PROVE CalendarHonoured'
  BY <1>2, AppendHonours
<1>3. CASE PruneJournal \/ PurgeStation
  <2>1. \A m \in DOMAIN journal' : m \in DOMAIN journal /\ journal'[m] = journal[m]
    BY <1>3 DEF PruneJournal, PurgeStation
  <2> QED BY <2>1 DEF CalendarHonoured
<1> QED BY <1>1, <1>2, <1>3, JournalSteps

(* Whatever the calendar, however its occurrences overlap, and however far *)
(* ahead of the clock or behind its plan an append commits: a row that     *)
(* names a release plays what that release says of the row's own start.    *)
THEOREM CalendarAlwaysHonoured == Spec => []CalendarHonoured
<1> DEFINE I == TypeOK /\ SourceKnown /\ Planning /\ CalendarHonoured
<1>1. Init => I
  <2>1. Init => Planning /\ CalendarHonoured
    BY DEF Init, Planning, SourceHonours, PlanHonours, CalendarHonoured
  <2> QED BY <2>1, InitType
<1>2. I /\ [Next]_vars => I'
  BY TypeStep, PlanningStep, CalendarStep
<1>3. I => CalendarHonoured
  OBVIOUS
<1> QED BY <1>1, <1>2, <1>3, PTL DEF Spec
=============================================================================
