----------------------- MODULE RadioProgrammingProofs -----------------------
(* What holds of RadioProgramming for any calendars and profiles, any       *)
(* numbers of weeks compiled and prepared, and any bounds.                  *)
EXTENDS RadioProgramming, TLAPS, SequenceTheorems

(***************************************************************************)
(* Type correctness.                                                       *)
(***************************************************************************)

\* Delivering weeks of one release leaves a list of releases as long.
LEMMA DeliverType ==
  ASSUME clocks \in Seq(Clock), NEW n \in 1 .. Len(clocks), NEW weeks \in SUBSET Int,
         Deliver(n, weeks)
  PROVE  /\ clocks' \in Seq(Clock) /\ Len(clocks') = Len(clocks)
         /\ clocks'[n] = clocks[n] \cup weeks
         /\ \A k \in 1 .. Len(clocks) : k # n => clocks'[k] = clocks[k]
<1>1. clocks[n] \in Clock
  BY ElementOfSeq
<1>2. clocks[n] \cup weeks \in Clock
  BY <1>1 DEF Clock
<1>3. clocks' = [clocks EXCEPT ![n] = clocks[n] \cup weeks]
  BY DEF Deliver
<1> QED BY <1>2, <1>3, ExceptSeq

\* A release published last is the one behind all others.
LEMMA AppendType ==
  ASSUME clocks \in Seq(Clock), NEW weeks \in SUBSET Int,
         clocks' = Append(clocks, weeks)
  PROVE  /\ clocks' \in Seq(Clock) /\ Len(clocks') = Len(clocks) + 1
         /\ clocks'[Len(clocks')] = weeks
         /\ \A k \in 1 .. Len(clocks) : clocks'[k] = clocks[k]
<1>1. weeks \in Clock
  BY DEF Clock
<1> QED BY <1>1, AppendProperties

\* A loop under way goes over the weeks of a release there is.
JobsKnown ==
  \A j \in {"maintenance", "script"} :
    job[j] # None => /\ job[j].clock \in 1 .. Len(clocks)
                     /\ job[j].since \in Int /\ job[j].since <= week

LEMMA WeeksType ==
  ASSUME NEW first \in Int, NEW count \in Nat
  PROVE  Weeks(first, count) \in SUBSET Int
BY DEF Weeks

\* The loop over weeks of a maintenance pass, or of the script, delivers some.
LEMMA LoopWeeks ==
  ASSUME NEW first \in Int, NEW count \in Nat, NEW static \in BOOLEAN
  PROVE  (IF static THEN Weeks(first, count) ELSE {}) \in SUBSET Int
BY WeeksType

\* What each step does to the clock releases: it keeps them and what was
\* delivered of them.
ClocksKept ==
  /\ clocks' \in Seq(Clock) /\ Len(clocks) <= Len(clocks')
  /\ \A k \in 1 .. Len(clocks) : clocks[k] \subseteq clocks'[k]

LEMMA ClocksOnlyGrow ==
  ASSUME TypeOK, JobsKnown, ProgrammingStep
  PROVE  ClocksKept /\ Len(clocks') <= MaxClock
<1> USE DEF TypeOK
<1>1. CASE PublishClock
  <2>1. PICK weeks \in SUBSET Int : clocks' = Append(clocks, weeks)
    <3>1. Weeks(week, PublishWeeks) \in SUBSET Int
      BY WeeksType, ConstantsAssumption
    <3> QED BY <1>1, <3>1 DEF PublishClock
  <2>2. Len(clocks) < MaxClock
    BY <1>1 DEF PublishClock
  <2> QED BY <2>1, <2>2, AppendType, LenProperties, ConstantsAssumption DEF ClocksKept
<1>2. CASE MaintainClock
  <2>1. PICK done \in 0 .. EnsureWeeks :
          Deliver(job["maintenance"].clock,
                  IF job["maintenance"].static
                  THEN Weeks(job["maintenance"].since, done) ELSE {})
    BY <1>2 DEF MaintainClock
  <2>2. /\ job["maintenance"].clock \in 1 .. Len(clocks)
        /\ job["maintenance"].since \in Int
        /\ job["maintenance"].static \in BOOLEAN
    BY <1>2 DEF MaintainClock, JobsKnown, Job
  <2>3. done \in Nat
    BY ConstantsAssumption
  <2>4. (IF job["maintenance"].static
         THEN Weeks(job["maintenance"].since, done) ELSE {}) \in SUBSET Int
    BY <2>2, <2>3, LoopWeeks
  <2> HIDE DEF TypeOK
  <2>5. clocks \in Seq(Clock) /\ Len(clocks) <= MaxClock
    BY DEF TypeOK
  <2> QED BY <2>1, <2>2, <2>4, <2>5, DeliverType DEF ClocksKept
<1>3. CASE DeliverWeeks
  <2>1. PICK done \in 0 .. BackfillWeeks :
          Deliver(job["script"].clock, Weeks(job["script"].since - 1, done))
    BY <1>3 DEF DeliverWeeks
  <2>2. /\ job["script"].clock \in 1 .. Len(clocks)
        /\ job["script"].since - 1 \in Int
    BY <1>3 DEF DeliverWeeks, JobsKnown
  <2>3. done \in Nat
    BY ConstantsAssumption
  <2>4. Weeks(job["script"].since - 1, done) \in SUBSET Int
    BY <2>2, <2>3, WeeksType
  <2> HIDE DEF TypeOK
  <2>5. clocks \in Seq(Clock) /\ Len(clocks) <= MaxClock
    BY DEF TypeOK
  <2> QED BY <2>1, <2>2, <2>4, <2>5, DeliverType DEF ClocksKept
<1>4. CASE UNCHANGED clocks
  BY <1>4 DEF ClocksKept
<1>5. \/ PublishClock \/ MaintainClock \/ DeliverWeeks \/ UNCHANGED clocks
  BY DEF ProgrammingStep, StartStation, StopStation, BeginMaintenance, BeginScript,
         BeginEnsure, RollBackDelivery, SwitchToStatic, PublishCalendar,
         ExtendCalendar, ExtensionFails, ActivateNow, ActivateRelease, DropPending,
         QueueRelease, PromoteDue, Tick
<1> QED BY <1>1, <1>2, <1>3, <1>4, <1>5

\* The station after a step: a new clock is the last release, everything else the
\* step writes is of its type.
LEMMA StationTyped ==
  ASSUME TypeOK, JobsKnown, ProgrammingStep
  PROVE  station' \in Station /\ station'.clock \in 0 .. Len(clocks')
<1>1. /\ station \in Station /\ station.clock \in 0 .. Len(clocks)
      /\ week \in Int /\ clocks \in Seq(Clock)
  BY DEF TypeOK
<1>2. clocks' \in Seq(Clock) /\ Len(clocks) <= Len(clocks')
  BY ClocksOnlyGrow DEF ClocksKept
<1>3. Len(clocks) \in Nat /\ Len(clocks') \in Nat
  BY <1>1, <1>2, LenProperties
<1>4. \A c \in Calendar : ProfileOf[c] \in Profile
  BY DEF Profile
<1>5. CASE UNCHANGED station
  BY <1>1, <1>2, <1>3, <1>5
<1>6. CASE PublishClock
  BY <1>1, <1>3, <1>6 DEF PublishClock, Station
<1>7. CASE StartStation \/ StopStation \/ RollBackDelivery \/ SwitchToStatic
  <2>1. CASE StartStation
    BY <1>1, <1>2, <1>3, <2>1 DEF StartStation, Station
  <2>2. CASE StopStation
    BY <1>1, <1>2, <1>3, <2>2 DEF StopStation, Station
  <2>3. CASE RollBackDelivery
    BY <1>1, <1>2, <1>3, <2>3 DEF RollBackDelivery, Station
  <2>4. CASE SwitchToStatic
    <3>1. \/ UNCHANGED station \/ station' = [station EXCEPT !.static = TRUE]
      BY <2>4 DEF SwitchToStatic
    <3>2. CASE station' = [station EXCEPT !.static = TRUE]
      <4>1. station' \in Station /\ station'.clock = station.clock
        BY <1>1, <3>2 DEF Station
      <4> QED BY <1>1, <1>2, <1>3, <4>1
    <3> QED BY <1>5, <3>1, <3>2
  <2> QED BY <1>7, <2>1, <2>2, <2>3, <2>4
<1>8. ASSUME NEW c \in Calendar,
             ActivateNow(c) \/ DropPending(c) \/ QueueRelease(c) \/ PromoteDue(c)
      PROVE  station' \in Station /\ station'.clock \in 0 .. Len(clocks')
  <2>1. CASE ActivateNow(c) \/ PromoteDue(c)
    BY <1>1, <1>2, <1>3, <1>4, <2>1 DEF ActivateNow, PromoteDue, ActivateRelease, Station
  <2>2. CASE DropPending(c)
    BY <1>1, <1>2, <1>3, <2>2 DEF DropPending, Station
  <2>3. CASE QueueRelease(c)
    <3> DEFINE d == IF station.pending # None /\ station.due > week
                    THEN station.due ELSE week + 1
    <3>1. station' = [station EXCEPT !.static = FALSE, !.pending = c, !.due = d]
      BY <2>3, Zenon DEF QueueRelease
    <3>2. d \in Int \cup {None}
      <4>1. station.due \in Int \cup {None}
        BY <1>1 DEF Station
      <4>2. week + 1 \in Int
        BY <1>1
      <4> QED BY <4>1, <4>2
    <3> HIDE DEF d
    <3>3. station' \in Station
      BY <1>1, <3>1, <3>2 DEF Station
    <3>4. station'.clock = station.clock
      BY <1>1, <3>1 DEF Station
    <3> QED BY <1>1, <1>2, <1>3, <3>3, <3>4
  <2> QED BY <1>8, <2>1, <2>2, <2>3
<1>9. \/ UNCHANGED station \/ PublishClock
      \/ StartStation \/ StopStation \/ RollBackDelivery \/ SwitchToStatic
      \/ \E c \in Calendar :
           ActivateNow(c) \/ DropPending(c) \/ QueueRelease(c) \/ PromoteDue(c)
  BY DEF ProgrammingStep, BeginMaintenance, BeginScript, BeginEnsure, MaintainClock,
         DeliverWeeks, PublishCalendar, ExtendCalendar, ExtensionFails, Tick
<1> QED BY <1>5, <1>6, <1>7, <1>8, <1>9

\* The releases after a step: where an extension ends is after where it began.
LEMMA CalendarsTyped ==
  ASSUME TypeOK, ProgrammingStep
  PROVE  calendars' \in [Calendar -> Materialized]
<1>1. calendars \in [Calendar -> Materialized] /\ week \in Int
  BY DEF TypeOK
<1>2. Horizon \in Int
  BY ConstantsAssumption
<1>3. \A c \in Calendar : TargetThrough(c) \in Int
  BY <1>1, <1>2 DEF TargetThrough, Larger, Materialized
<1>4. CASE UNCHANGED calendars
  BY <1>1, <1>4
<1>5. ASSUME NEW c \in Calendar, PublishCalendar(c)
      PROVE  calendars' \in [Calendar -> Materialized]
  <2>1. Expansion(week - 1, week + Horizon) \in SUBSET Int
    BY <1>1, <1>2 DEF Expansion
  <2> QED BY <1>1, <1>2, <1>5, <2>1 DEF PublishCalendar, Materialized
<1>6. ASSUME NEW c \in Calendar, ExtendCalendar(c)
      PROVE  calendars' \in [Calendar -> Materialized]
  <2>1. Expansion(ExtensionFrom(c), TargetThrough(c)) \in SUBSET Int
    BY <1>1, <1>3 DEF Expansion, ExtensionFrom, Materialized
  <2> DEFINE old == calendars[c]
             new == [old EXCEPT !.status = "READY", !.through = TargetThrough(c),
                                !.target = TargetThrough(c),
                                !.occurrences = @ \cup Expansion(ExtensionFrom(c),
                                                                 TargetThrough(c))]
  <2>2. old \in Materialized
    BY <1>1
  <2>3. new \in Materialized
    BY <1>3, <2>1, <2>2 DEF Materialized
  <2>4. calendars' = [calendars EXCEPT ![c] = new]
    BY <1>1, <1>6 DEF ExtendCalendar
  <2> HIDE DEF old, new
  <2> QED BY <1>1, <2>3, <2>4
<1>7. ASSUME NEW c \in Calendar, ExtensionFails(c)
      PROVE  calendars' \in [Calendar -> Materialized]
  BY <1>1, <1>3, <1>7 DEF ExtensionFails, Larger, Materialized
<1>8. \/ UNCHANGED calendars
      \/ \E c \in Calendar : PublishCalendar(c) \/ ExtendCalendar(c) \/ ExtensionFails(c)
  BY DEF ProgrammingStep, BeginMaintenance, BeginScript, BeginEnsure, MaintainClock,
         DeliverWeeks, PublishClock, StartStation, StopStation, RollBackDelivery,
         SwitchToStatic, ActivateNow, DropPending, QueueRelease, PromoteDue,
         ActivateRelease, Tick
<1> QED BY <1>4, <1>5, <1>6, <1>7, <1>8

\* The loops after a step are over the weeks of a release there is, and began no
\* later than now.
LEMMA JobsTyped ==
  ASSUME TypeOK, JobsKnown, ProgrammingStep
  PROVE  /\ job' \in [{"maintenance", "script"} -> Job \cup {None}]
         /\ JobsKnown'
<1>1. /\ job \in [{"maintenance", "script"} -> Job \cup {None}]
      /\ station \in Station /\ station.clock \in 0 .. Len(clocks)
      /\ week \in 0 .. MaxWeek
  BY DEF TypeOK
<1>2. Len(clocks) <= Len(clocks') /\ Len(clocks) \in Nat /\ Len(clocks') \in Nat
  <2>1. clocks \in Seq(Clock) /\ clocks' \in Seq(Clock) /\ Len(clocks) <= Len(clocks')
    BY ClocksOnlyGrow DEF ClocksKept, TypeOK
  <2> QED BY <2>1, LenProperties
<1>3. week \in Int /\ week' \in Int /\ week <= week'
  <2>1. week' = week \/ week' = week + 1
    BY DEF ProgrammingStep, BeginMaintenance, BeginScript, BeginEnsure, MaintainClock,
           DeliverWeeks, PublishClock, StartStation, StopStation, RollBackDelivery,
           SwitchToStatic, ActivateNow, DropPending, QueueRelease, PromoteDue,
           ActivateRelease, Tick, PublishCalendar, ExtendCalendar, ExtensionFails
  <2>2. week \in Int
    BY <1>1
  <2> QED BY <2>1, <2>2
<1>4. CASE UNCHANGED job
  BY <1>1, <1>2, <1>3, <1>4 DEF JobsKnown
<1>5. ASSUME NEW j \in {"maintenance", "script"}, BeginEnsure(j)
      PROVE  /\ job' \in [{"maintenance", "script"} -> Job \cup {None}]
             /\ JobsKnown'
  <2> DEFINE new == [clock |-> station.clock, static |-> station.static,
                     since |-> week, prepared |-> FALSE]
  <2>1. new \in Job /\ new.clock \in 1 .. Len(clocks) /\ new.since = week
    BY <1>1, <1>2, <1>5 DEF BeginEnsure, Job, Station
  <2>2. job' = [job EXCEPT ![j] = new]
    BY <1>5 DEF BeginEnsure
  <2> HIDE DEF new
  <2> QED BY <1>1, <1>2, <1>3, <2>1, <2>2 DEF JobsKnown
<1>6. ASSUME NEW j \in {"maintenance", "script"}, job' = [job EXCEPT ![j] = None]
      PROVE  /\ job' \in [{"maintenance", "script"} -> Job \cup {None}]
             /\ JobsKnown'
  BY <1>1, <1>2, <1>3, <1>6 DEF JobsKnown
<1>7. CASE job["script"] # None /\ job' = [job EXCEPT !["script"].prepared = TRUE]
  <2>1. job["script"] \in Job
    BY <1>1, <1>7
  <2> DEFINE old == job["script"]
             new == [old EXCEPT !.prepared = TRUE]
  <2>2. job' = [job EXCEPT !["script"] = new]
    BY <1>1, <1>7
  <2>3. new \in Job /\ new.clock = old.clock /\ new.since = old.since
    BY <2>1 DEF Job
  <2>4. /\ old.clock \in 1 .. Len(clocks) /\ old.since \in Int /\ old.since <= week
    BY <1>7 DEF JobsKnown
  <2> HIDE DEF new, old
  <2>5. job' \in [{"maintenance", "script"} -> Job \cup {None}]
    BY <1>1, <2>2, <2>3
  <2>6. job'["script"] = new /\ job'["maintenance"] = job["maintenance"]
    BY <1>1, <2>2
  <2>7. /\ new.clock \in 1 .. Len(clocks') /\ new.since \in Int /\ new.since <= week'
    BY <1>2, <1>3, <2>3, <2>4
  <2> QED BY <1>2, <1>3, <2>5, <2>6, <2>7 DEF JobsKnown
<1>8. \/ UNCHANGED job
      \/ \E j \in {"maintenance", "script"} :
           BeginEnsure(j) \/ job' = [job EXCEPT ![j] = None]
      \/ job["script"] # None /\ job' = [job EXCEPT !["script"].prepared = TRUE]
  BY DEF ProgrammingStep, BeginMaintenance, BeginScript, MaintainClock,
         DeliverWeeks, PublishClock, StartStation, StopStation, RollBackDelivery,
         SwitchToStatic, ActivateNow, DropPending, QueueRelease, PromoteDue,
         ActivateRelease, Tick, PublishCalendar, ExtendCalendar, ExtensionFails
<1> QED BY <1>4, <1>5, <1>6, <1>7, <1>8

\* Types, and the loops over weeks, are preserved by every step.
LEMMA TypeStep ==
  ASSUME TypeOK, JobsKnown, [ProgrammingStep]_vars
  PROVE  TypeOK' /\ JobsKnown'
<1>1. CASE UNCHANGED vars
  BY <1>1 DEF vars, TypeOK, JobsKnown
<1>2. CASE ProgrammingStep
  <2>1. clocks' \in Seq(Clock) /\ Len(clocks') <= MaxClock
    BY <1>2, ClocksOnlyGrow DEF ClocksKept
  <2>2. station' \in Station /\ station'.clock \in 0 .. Len(clocks')
    BY <1>2, StationTyped
  <2>3. calendars' \in [Calendar -> Materialized]
    BY <1>2, CalendarsTyped
  <2>4. /\ job' \in [{"maintenance", "script"} -> Job \cup {None}]
        /\ JobsKnown'
    BY <1>2, JobsTyped
  <2>5. week' \in 0 .. MaxWeek /\ failures' \in 0 .. MaxFailures
    <3>1. UNCHANGED week \/ Tick
      BY <1>2 DEF ProgrammingStep, BeginMaintenance, BeginScript, BeginEnsure,
         MaintainClock, DeliverWeeks, PublishClock, StartStation, StopStation,
         RollBackDelivery, SwitchToStatic, ActivateNow, DropPending, QueueRelease,
         PromoteDue, ActivateRelease, PublishCalendar, ExtendCalendar,
         ExtensionFails
    <3>2. UNCHANGED failures \/ \E c \in Calendar : ExtensionFails(c)
      BY <1>2 DEF ProgrammingStep, BeginMaintenance, BeginScript, BeginEnsure,
         MaintainClock, DeliverWeeks, PublishClock, StartStation, StopStation,
         RollBackDelivery, SwitchToStatic, ActivateNow, DropPending, QueueRelease,
         PromoteDue, ActivateRelease, Tick, PublishCalendar, ExtendCalendar
    <3>3. week \in 0 .. MaxWeek /\ failures \in 0 .. MaxFailures
      BY DEF TypeOK
    <3>4. MaxWeek \in Nat /\ MaxFailures \in Nat
      BY ConstantsAssumption
    <3>5. week' \in 0 .. MaxWeek
      BY <3>1, <3>3, <3>4 DEF Tick
    <3>6. failures' \in 0 .. MaxFailures
      <4>1. \/ failures' = failures
            \/ failures < MaxFailures /\ failures' = failures + 1
        BY <3>2 DEF ExtensionFails
      <4> QED BY <3>3, <3>4, <4>1
    <3> QED BY <3>5, <3>6
  <2>6. maintained' \in BOOLEAN
    BY <1>2 DEF TypeOK, ProgrammingStep, BeginMaintenance, BeginScript, BeginEnsure,
         MaintainClock, DeliverWeeks, PublishClock, StartStation, StopStation,
         RollBackDelivery, SwitchToStatic, ActivateNow, DropPending, QueueRelease,
         PromoteDue, ActivateRelease, Tick, PublishCalendar, ExtendCalendar,
         ExtensionFails
  <2>7. active' \in SUBSET Profile
    <3>1. \/ UNCHANGED active \/ \E c \in Calendar : active' = Activated(c)
      BY <1>2 DEF ProgrammingStep, BeginMaintenance, BeginScript, BeginEnsure,
         MaintainClock, DeliverWeeks, PublishClock, StartStation, StopStation,
         RollBackDelivery, SwitchToStatic, ActivateNow, DropPending, QueueRelease,
         PromoteDue, ActivateRelease, Tick, PublishCalendar, ExtendCalendar,
         ExtensionFails
    <3>2. active \in SUBSET Profile
      BY DEF TypeOK
    <3> QED BY <3>1, <3>2 DEF Activated, Profile
  <2> QED BY <2>1, <2>2, <2>3, <2>4, <2>5, <2>6, <2>7 DEF TypeOK
<1> QED BY <1>1, <1>2

LEMMA TypeInit ==
  ASSUME Init
  PROVE  TypeOK /\ JobsKnown
<1>1. station \in Station /\ station.clock = 0
  BY DEF Init, Station, Profile
<1>2. clocks \in Seq(Clock) /\ Len(clocks) = 0
  BY EmptySeq DEF Init
<1>3. active \in SUBSET Profile
  BY DEF Init, Profile
<1>4. calendars \in [Calendar -> Materialized]
  BY DEF Init, Materialized
<1>5. job \in [{"maintenance", "script"} -> Job \cup {None}] /\ JobsKnown
  BY DEF Init, JobsKnown
<1>6. /\ week \in 0 .. MaxWeek /\ failures \in 0 .. MaxFailures
      /\ maintained \in BOOLEAN
  <2>1. MaxWeek \in Nat /\ MaxFailures \in Nat
    BY ConstantsAssumption
  <2>2. week = 0 /\ failures = 0
    BY DEF Init
  <2>3. maintained \in BOOLEAN
    BY DEF Init
  <2> QED BY <2>1, <2>2, <2>3
<1>7. MaxClock \in Nat
  BY ConstantsAssumption
<1> QED BY <1>1, <1>2, <1>3, <1>4, <1>5, <1>6, <1>7 DEF TypeOK

LEMMA TypesAlways == Spec => [](TypeOK /\ JobsKnown)
BY TypeInit, TypeStep, PTL DEF Spec

\* Every variable of RadioProgramming keeps its type, whatever the steps of
\* publications, maintenance, the script and activations in whatever order.
THEOREM RadioTypeCorrect == Spec => []TypeOK
BY TypesAlways, PTL

(***************************************************************************)
(* Calendar releases.                                                      *)
(***************************************************************************)

\* Materialization never leaves a hole: an extension begins where the last one
\* that committed ended, also after failures.  That is so before a release is
\* materialized, when it has nothing from 0 to 0.
Materialization ==
  \A c \in Calendar :
    /\ calendars[c].from <= calendars[c].through
    /\ calendars[c].occurrences = Expansion(calendars[c].from, calendars[c].through)

LEMMA MaterializationStep ==
  ASSUME TypeOK, Materialization, [ProgrammingStep]_vars
  PROVE  Materialization'
<1>1. calendars \in [Calendar -> Materialized] /\ week \in Int
  BY DEF TypeOK
<1>2. Horizon \in Nat
  BY ConstantsAssumption
<1>3. CASE UNCHANGED calendars
  BY <1>3 DEF Materialization, Expansion
<1>4. ASSUME NEW c \in Calendar, NEW m, calendars' = [calendars EXCEPT ![c] = m],
             m.from <= m.through, m.occurrences = Expansion(m.from, m.through)
      PROVE  Materialization'
  BY <1>1, <1>4 DEF Materialization, Expansion
<1>5. ASSUME NEW c \in Calendar, PublishCalendar(c)
      PROVE  Materialization'
  <2> DEFINE new == [status |-> "READY", from |-> week - 1, through |-> week + Horizon,
                     target |-> week + Horizon,
                     occurrences |-> Expansion(week - 1, week + Horizon)]
  <2>1. calendars' = [calendars EXCEPT ![c] = new]
    BY <1>5 DEF PublishCalendar
  <2>2. new.from <= new.through /\ new.occurrences = Expansion(new.from, new.through)
    BY <1>1, <1>2
  <2> HIDE DEF new
  <2> QED BY <1>4, <2>1, <2>2
<1>6. ASSUME NEW c \in Calendar, ExtendCalendar(c)
      PROVE  Materialization'
  <2> DEFINE old == calendars[c]
             to == TargetThrough(c)
             new == [old EXCEPT !.status = "READY", !.through = to, !.target = to,
                                !.occurrences = @ \cup Expansion(ExtensionFrom(c), to)]
  <2>1. /\ old \in Materialized /\ old.from <= old.through
        /\ old.occurrences = Expansion(old.from, old.through)
    BY <1>1 DEF Materialization
  <2>2. to \in Int /\ old.through <= to
    BY <1>1, <1>2 DEF TargetThrough, Larger, Materialized
  <2>3. /\ new.from = old.from /\ new.through = to
        /\ new.occurrences = old.occurrences \cup Expansion(old.through, to)
    BY <2>1 DEF Materialized, ExtensionFrom
  <2>4. old.from \in Int /\ old.through \in Int
    BY <2>1 DEF Materialized
  <2>5. Expansion(old.from, old.through) \cup Expansion(old.through, to)
          = Expansion(old.from, to)
    BY <2>1, <2>2, <2>4 DEF Expansion
  <2>6. calendars' = [calendars EXCEPT ![c] = new]
    BY <1>1, <1>6 DEF ExtendCalendar
  <2>7. new.from <= new.through
    BY <2>1, <2>2, <2>3, <2>4
  <2>8. new.occurrences = Expansion(new.from, new.through)
    BY <2>1, <2>3, <2>5
  <2> HIDE DEF new
  <2> QED BY <1>4, <2>6, <2>7, <2>8
<1>7. ASSUME NEW c \in Calendar, ExtensionFails(c)
      PROVE  Materialization'
  BY <1>1, <1>7 DEF ExtensionFails, Materialization, Materialized, Expansion
<1>8. \/ UNCHANGED calendars
      \/ \E c \in Calendar : PublishCalendar(c) \/ ExtendCalendar(c) \/ ExtensionFails(c)
  BY DEF vars, ProgrammingStep, BeginMaintenance, BeginScript, BeginEnsure,
         MaintainClock, DeliverWeeks, PublishClock, StartStation, StopStation,
         RollBackDelivery, SwitchToStatic, ActivateNow, DropPending, QueueRelease,
         PromoteDue, ActivateRelease, Tick
<1> QED BY <1>3, <1>5, <1>6, <1>7, <1>8

LEMMA MaterializationInit == Init => Materialization
<1>1. Expansion(0, 0) = {}
  BY DEF Expansion
<1> SUFFICES ASSUME Init, NEW c \in Calendar
             PROVE  /\ calendars[c].from = 0 /\ calendars[c].through = 0
                    /\ calendars[c].occurrences = {}
  <2>1. 0 <= 0
    OBVIOUS
  <2> QED BY <1>1, <2>1, Zenon DEF Materialization
<1> QED BY DEF Init

\* A release that is played has all its occurrences, however many extensions
\* failed and however far apart maintenance passes were.
THEOREM CoveredAlways == Spec => []Covered
<1>1. Init => Materialization
  BY MaterializationInit
<1>2. TypeOK /\ JobsKnown /\ Materialization /\ [ProgrammingStep]_vars => Materialization'
  BY MaterializationStep
<1>3. Materialization => Covered
  BY DEF Materialization, Covered
<1> QED BY <1>1, <1>2, <1>3, TypesAlways, PTL DEF Spec

LEMMA CoherenceStep ==
  ASSUME TypeOK, CalendarCoherent, [ProgrammingStep]_vars
  PROVE  CalendarCoherent'
<1>1. station \in Station /\ week \in Int /\ None \notin Calendar /\ None \notin Int
  BY ConstantsAssumption DEF TypeOK
<1>2. \A c \in Calendar : ProfileOf[c] # Baseline
  BY ConstantsAssumption
<1>3. CASE UNCHANGED <<station.profile, station.calendar, station.pending,
                       station.due, active>>
  BY <1>3 DEF CalendarCoherent, OnCalendar
<1>4. CASE \/ PublishClock \/ StartStation \/ StopStation \/ RollBackDelivery
           \/ SwitchToStatic
  <2>1. UNCHANGED <<station.profile, station.calendar, station.pending,
                    station.due, active>>
    BY <1>1, <1>4 DEF PublishClock, StartStation, StopStation, RollBackDelivery,
                      SwitchToStatic, Station
  <2> QED BY <1>3, <2>1
<1>5. ASSUME NEW c \in Calendar, ActivateNow(c) \/ PromoteDue(c)
      PROVE  CalendarCoherent'
  <2>1. /\ station' = [station EXCEPT !.static = FALSE, !.profile = ProfileOf[c],
                                      !.calendar = c, !.pending = None, !.due = None]
        /\ active' = Activated(c)
    BY <1>5 DEF ActivateNow, PromoteDue, ActivateRelease
  <2>2. /\ station'.profile = ProfileOf[c] /\ station'.calendar = c
        /\ station'.pending = None /\ station'.due = None
    BY <1>1, <2>1 DEF Station
  <2>3. active' = {ProfileOf[c]}
    BY <2>1 DEF Activated, CalendarCoherent
  <2> QED BY <1>1, <2>2, <2>3 DEF CalendarCoherent, OnCalendar
<1>6. ASSUME NEW c \in Calendar, DropPending(c)
      PROVE  CalendarCoherent'
  <2>1. /\ station'.profile = station.profile /\ station'.calendar = station.calendar
        /\ station'.pending = None /\ station'.due = None /\ active' = active
    BY <1>1, <1>6 DEF DropPending, Station
  <2> QED BY <2>1 DEF CalendarCoherent, OnCalendar
<1>7. ASSUME NEW c \in Calendar, QueueRelease(c)
      PROVE  CalendarCoherent'
  <2> DEFINE d == IF station.pending # None /\ station.due > week
                  THEN station.due ELSE week + 1
  <2>1. station' = [station EXCEPT !.static = FALSE, !.pending = c, !.due = d]
    BY <1>7, Zenon DEF QueueRelease
  <2>2. d # None
    BY <1>1 DEF CalendarCoherent
  <2>3. active' = active /\ ~AlreadyActive(c)
    BY <1>7 DEF QueueRelease
  <2> HIDE DEF d
  <2>4. /\ station'.profile = station.profile /\ station'.calendar = station.calendar
        /\ station'.pending = c /\ station'.due = d
    BY <1>1, <2>1 DEF Station
  <2>5. station.calendar # c
    BY <1>1, <2>3 DEF CalendarCoherent, AlreadyActive
  <2> QED BY <1>1, <2>2, <2>3, <2>4, <2>5 DEF CalendarCoherent, OnCalendar
<1>8. \/ UNCHANGED <<station.profile, station.calendar, station.pending,
                     station.due, active>>
      \/ PublishClock \/ StartStation \/ StopStation \/ RollBackDelivery
      \/ SwitchToStatic
      \/ \E c \in Calendar :
           ActivateNow(c) \/ PromoteDue(c) \/ DropPending(c) \/ QueueRelease(c)
  BY DEF vars, ProgrammingStep, BeginMaintenance, BeginScript, BeginEnsure,
         MaintainClock, DeliverWeeks, PublishCalendar, ExtendCalendar,
         ExtensionFails, Tick
<1> QED BY <1>3, <1>4, <1>5, <1>6, <1>7, <1>8

\* The station, its profiles and its releases agree, whatever was activated,
\* queued, replaced in the queue or promoted.
THEOREM CalendarAlwaysCoherent == Spec => []CalendarCoherent
<1>1. Init => CalendarCoherent
  BY DEF Init, CalendarCoherent, OnCalendar
<1>2. /\ TypeOK /\ JobsKnown /\ CalendarCoherent /\ [ProgrammingStep]_vars
      => CalendarCoherent'
  BY CoherenceStep
<1> QED BY <1>1, <1>2, TypesAlways, PTL DEF Spec

(***************************************************************************)
(* Static delivery.                                                        *)
(***************************************************************************)

\* While the script runs at most one week begins; once it is past its weeks,
\* last week and the two after this one are delivered of its release.
ScriptServed ==
  /\ job["script"] # None => week <= job["script"].since + 1
  /\ job["script"] # None /\ job["script"].prepared =>
       Weeks(job["script"].since - 1, BackfillWeeks) \subseteq clocks[job["script"].clock]

\* This week was gone through for the station's release, or is being so.
Maintaining ==
  \/ maintained
  \/ /\ job["maintenance"] # None
     /\ job["maintenance"].since = week
     /\ ~(job["maintenance"].static /\ job["maintenance"].clock = station.clock)

\* What a static station serves next week is delivered, too, once maintenance
\* went through this week, and while it goes through it for something else: the
\* station then turned static, or took its release, this week.
StaticServed ==
  station.static =>
    /\ station.clock # 0
    /\ week \in clocks[station.clock]
    /\ Maintaining => week + 1 \in clocks[station.clock]

IInv == TypeOK /\ JobsKnown /\ ScriptServed /\ StaticServed

LEMMA WeeksWithin ==
  ASSUME NEW first \in Int, NEW count \in Nat, NEW w \in Int,
         first <= w, w < first + count
  PROVE  w \in Weeks(first, count)
BY DEF Weeks

LEMMA ScriptServedStep ==
  ASSUME IInv, [ProgrammingStep]_vars
  PROVE  ScriptServed'
<1>1. CASE UNCHANGED vars
  BY <1>1 DEF vars, IInv, ScriptServed
<1>2. CASE ProgrammingStep
  <2>1. /\ job \in [{"maintenance", "script"} -> Job \cup {None}]
        /\ week \in Int
    BY DEF IInv, TypeOK
  <2>2. ClocksKept
    BY <1>2, ClocksOnlyGrow DEF IInv
  <2>3. ASSUME UNCHANGED job["script"], UNCHANGED week
        PROVE  ScriptServed'
    BY <2>2, <2>3 DEF IInv, ScriptServed, JobsKnown, ClocksKept
  <2>4. CASE Tick
    BY <2>1, <2>4 DEF Tick, IInv, ScriptServed, JobsKnown
  <2>5. CASE BeginScript
    <3>1. /\ job'["script"].since = week /\ job'["script"].prepared = FALSE
          /\ week' = week
      BY <2>1, <2>5 DEF BeginScript, BeginEnsure
    <3> QED BY <2>1, <3>1 DEF ScriptServed
  <2>6. CASE SwitchToStatic
    BY <2>1, <2>6 DEF SwitchToStatic, ScriptServed
  <2>7. CASE DeliverWeeks
    <3>1. PICK done \in 0 .. BackfillWeeks :
            /\ Deliver(job["script"].clock, Weeks(job["script"].since - 1, done))
            /\ job' = IF done = BackfillWeeks
                      THEN [job EXCEPT !["script"].prepared = TRUE]
                      ELSE [job EXCEPT !["script"] = None]
      BY <2>7 DEF DeliverWeeks
    <3>2. /\ job["script"] \in Job /\ job["script"].clock \in 1 .. Len(clocks)
          /\ job["script"].since - 1 \in Int /\ week' = week
      BY <2>1, <2>7 DEF DeliverWeeks, IInv, JobsKnown
    <3>3. CASE done # BackfillWeeks
      BY <2>1, <3>1, <3>3 DEF ScriptServed
    <3>4. CASE done = BackfillWeeks
      <4>1. /\ job'["script"].since = job["script"].since
            /\ job'["script"].clock = job["script"].clock
        BY <2>1, <3>1, <3>2, <3>4 DEF Job
      <4>2. BackfillWeeks \in Nat
        BY ConstantsAssumption
      <4>3. Weeks(job["script"].since - 1, BackfillWeeks) \in SUBSET Int
        BY <3>2, <4>2, WeeksType
      <4>4. Deliver(job["script"].clock, Weeks(job["script"].since - 1, BackfillWeeks))
        BY <3>1, <3>4
      <4>5. clocks \in Seq(Clock)
        BY DEF IInv, TypeOK
      <4>6. Weeks(job["script"].since - 1, BackfillWeeks)
              \subseteq clocks'[job["script"].clock]
        BY <3>2, <4>3, <4>4, <4>5, DeliverType
      <4>7. week' <= job'["script"].since + 1
        BY <2>7, <3>2, <4>1 DEF DeliverWeeks, IInv, ScriptServed
      <4> QED BY <4>1, <4>6, <4>7 DEF ScriptServed
    <3> QED BY <3>3, <3>4
  <2>8. \/ UNCHANGED job["script"] /\ UNCHANGED week
        \/ Tick \/ BeginScript \/ SwitchToStatic \/ DeliverWeeks
    <3>1. CASE BeginMaintenance \/ MaintainClock
      BY <2>1, <3>1 DEF BeginMaintenance, BeginEnsure, MaintainClock
    <3> QED BY <1>2, <3>1
            DEF ProgrammingStep, PublishClock, StartStation, StopStation,
            RollBackDelivery, ActivateNow, DropPending, QueueRelease, PromoteDue,
            ActivateRelease, PublishCalendar, ExtendCalendar, ExtensionFails
  <2> QED BY <2>3, <2>4, <2>5, <2>6, <2>7, <2>8
<1> QED BY <1>1, <1>2

\* Maintenance has gone through the weeks of a static station's release, or found
\* next week delivered before.
LEMMA MaintainServes ==
  ASSUME IInv, MaintainClock
  PROVE  StaticServed'
<1>1. /\ clocks \in Seq(Clock) /\ station.clock \in 0 .. Len(clocks) /\ week \in Int
      /\ job \in [{"maintenance", "script"} -> Job \cup {None}] /\ maintained \in BOOLEAN
  BY DEF IInv, TypeOK
<1>2. PICK done \in 0 .. EnsureWeeks :
        /\ Deliver(job["maintenance"].clock,
                   IF job["maintenance"].static
                   THEN Weeks(job["maintenance"].since, done) ELSE {})
        /\ maintained' = (maintained \/ (/\ done = EnsureWeeks
                                         /\ job["maintenance"].since = week))
  BY DEF MaintainClock
<1>3. /\ job' = [job EXCEPT !["maintenance"] = None] /\ job["maintenance"] # None
      /\ UNCHANGED <<week, station>>
  BY DEF MaintainClock
<1>4. ClocksKept
  BY ClocksOnlyGrow DEF IInv, ProgrammingStep
<1>5. job'["maintenance"] = None
  BY <1>1, <1>3
<1>6. Maintaining' => maintained'
  BY <1>5 DEF Maintaining
<1> SUFFICES ASSUME station.static
    PROVE  /\ station.clock # 0 /\ week \in clocks'[station.clock]
           /\ maintained' => week + 1 \in clocks'[station.clock]
  BY <1>3, <1>6 DEF StaticServed
<1>7. /\ station.clock # 0 /\ week \in clocks[station.clock]
      /\ Maintaining => week + 1 \in clocks[station.clock]
  BY DEF IInv, StaticServed
<1>8. station.clock \in 1 .. Len(clocks)
  BY <1>1, <1>7, LenProperties
<1>9. clocks[station.clock] \subseteq clocks'[station.clock]
  BY <1>4, <1>8 DEF ClocksKept
<1>10. ASSUME done = EnsureWeeks, job["maintenance"].since = week, ~Maintaining
       PROVE  week + 1 \in clocks'[station.clock]
  <2>1. job["maintenance"].static /\ job["maintenance"].clock = station.clock
    BY <1>3, <1>10 DEF Maintaining
  <2>2. Deliver(station.clock, Weeks(week, EnsureWeeks))
    BY <1>2, <1>10, <2>1
  <2>3. EnsureWeeks \in Nat \ {0, 1}
    BY ConstantsAssumption
  <2>4. week + 1 \in Weeks(week, EnsureWeeks)
    BY <1>1, <2>3, WeeksWithin
  <2>5. Weeks(week, EnsureWeeks) \in SUBSET Int
    BY <1>1, <2>3, WeeksType
  <2>6. Weeks(week, EnsureWeeks) \subseteq clocks'[station.clock]
    BY <1>1, <1>8, <2>2, <2>5, DeliverType
  <2> QED BY <2>4, <2>6
<1>11. maintained => Maintaining
  BY DEF Maintaining
<1> QED BY <1>2, <1>7, <1>9, <1>10, <1>11

\* A station published while static gets its first two weeks with its release.
LEMMA PublicationServes ==
  ASSUME IInv, PublishClock
  PROVE  StaticServed'
<1>1. /\ clocks \in Seq(Clock) /\ station \in Station /\ week \in Int
  BY DEF IInv, TypeOK
<1>2. /\ PublishWeeks \in Nat \ {0, 1}
      /\ PublishWeeks \in Nat /\ 1 < PublishWeeks
  BY ConstantsAssumption
<1>3. Weeks(week, PublishWeeks) \in SUBSET Int
  BY <1>1, <1>2, WeeksType
<1>4. /\ station' = [station EXCEPT !.clock = Len(clocks')]
      /\ clocks' = Append(clocks, IF station.static THEN Weeks(week, PublishWeeks) ELSE {})
      /\ UNCHANGED week
  BY DEF PublishClock
<1>5. station'.static = station.static /\ station'.clock = Len(clocks')
  BY <1>1, <1>4 DEF Station
<1> SUFFICES ASSUME station.static
    PROVE  /\ Len(clocks') # 0 /\ week \in clocks'[Len(clocks')]
           /\ week + 1 \in clocks'[Len(clocks')]
  BY <1>4, <1>5 DEF StaticServed
<1>6. clocks' = Append(clocks, Weeks(week, PublishWeeks))
  BY <1>4
<1>7. /\ Len(clocks') = Len(clocks) + 1
      /\ clocks'[Len(clocks')] = Weeks(week, PublishWeeks)
  BY <1>1, <1>3, <1>6, AppendType
<1>8. week \in Weeks(week, PublishWeeks) /\ week + 1 \in Weeks(week, PublishWeeks)
  BY <1>1, <1>2, WeeksWithin
<1>9. Len(clocks) \in Nat
  BY <1>1, LenProperties
<1> QED BY <1>7, <1>8, <1>9

\* The script turns a station static with this week and the next delivered.
LEMMA SwitchServes ==
  ASSUME IInv, SwitchToStatic
  PROVE  StaticServed'
<1>1. /\ station \in Station /\ week \in Int
      /\ job \in [{"maintenance", "script"} -> Job \cup {None}]
  BY DEF IInv, TypeOK
<1> DEFINE s == job["script"]
<1>2. /\ s # None /\ s.prepared /\ job' = [job EXCEPT !["script"] = None]
      /\ UNCHANGED <<week, clocks, maintained>>
  BY DEF SwitchToStatic
<1>3. job'["maintenance"] = job["maintenance"]
  BY <1>1, <1>2
<1>4. CASE UNCHANGED station
  BY <1>2, <1>3, <1>4 DEF IInv, StaticServed, Maintaining
<1>5. CASE /\ week \in clocks[s.clock] /\ Switches(s.clock)
           /\ station' = [station EXCEPT !.static = TRUE]
  <2>1. station'.clock = s.clock
    BY <1>1, <1>5 DEF Switches, Station
  <2>2. s.clock \in 1 .. Len(clocks) /\ s.since \in Int /\ s.since <= week
    BY <1>2 DEF IInv, JobsKnown
  <2>3. /\ week <= s.since + 1
        /\ Weeks(s.since - 1, BackfillWeeks) \subseteq clocks[s.clock]
    BY <1>2 DEF IInv, ScriptServed
  <2>4. BackfillWeeks \in Nat /\ 3 < BackfillWeeks
    BY ConstantsAssumption
  <2>5. week + 1 \in Weeks(s.since - 1, BackfillWeeks)
    <3>1. /\ s.since - 1 \in Int /\ week + 1 \in Int /\ s.since - 1 <= week + 1
          /\ week + 1 < (s.since - 1) + BackfillWeeks
      BY <1>1, <2>2, <2>3, <2>4
    <3> QED BY <2>4, <3>1, WeeksWithin
  <2>6. s.clock # 0
    BY <2>2
  <2> QED BY <1>2, <1>5, <2>1, <2>3, <2>5, <2>6 DEF StaticServed
<1>6. \/ UNCHANGED station
      \/ /\ week \in clocks[s.clock] /\ Switches(s.clock)
         /\ station' = [station EXCEPT !.static = TRUE]
  BY DEF SwitchToStatic
<1> QED BY <1>4, <1>5, <1>6

LEMMA StaticServedStep ==
  ASSUME IInv, [ProgrammingStep]_vars
  PROVE  StaticServed'
<1>1. CASE UNCHANGED vars
  BY <1>1 DEF vars, IInv, StaticServed, Maintaining
<1>2. CASE ProgrammingStep
  <2>1. /\ job \in [{"maintenance", "script"} -> Job \cup {None}]
        /\ week \in Int /\ station \in Station /\ maintained \in BOOLEAN
    BY DEF IInv, TypeOK
  <2>2. CASE MaintainClock
    BY <2>2, MaintainServes
  <2>3. CASE PublishClock
    BY <2>3, PublicationServes
  <2>4. CASE SwitchToStatic
    BY <2>4, SwitchServes
  <2>5. CASE Tick
    <3>1. /\ station.static => maintained
          /\ maintained' = FALSE /\ week' = week + 1 /\ UNCHANGED <<station, clocks, job>>
      BY <2>5 DEF Tick
    <3>2. ~Maintaining'
      <4>1. job["maintenance"] # None => job["maintenance"].since <= week
        BY DEF IInv, JobsKnown
      <4>2. job["maintenance"] # None => job["maintenance"].since # week + 1
        <5>1. job["maintenance"] # None => job["maintenance"].since \in Int
          BY DEF IInv, JobsKnown
        <5> QED BY <2>1, <4>1, <5>1
      <4> QED BY <3>1, <4>2 DEF Maintaining
    <3>3. station.static => station.clock # 0 /\ week + 1 \in clocks[station.clock]
      BY <3>1 DEF IInv, StaticServed, Maintaining
    <3> QED BY <3>1, <3>2, <3>3 DEF StaticServed
  <2>6. CASE BeginMaintenance
    <3>1. /\ job'["maintenance"].static = station.static
          /\ job'["maintenance"].clock = station.clock
          /\ UNCHANGED <<week, station, clocks, maintained>>
      BY <2>1, <2>6 DEF BeginMaintenance, BeginEnsure
    <3>2. station.static /\ Maintaining' => maintained
      BY <3>1 DEF Maintaining
    <3>3. maintained => Maintaining
      BY DEF Maintaining
    <3> QED BY <3>1, <3>2, <3>3 DEF IInv, StaticServed
  <2>7. CASE BeginScript \/ DeliverWeeks
    <3>1. UNCHANGED <<week, station, maintained>> /\ ClocksKept
      BY <1>2, <2>7, ClocksOnlyGrow DEF IInv, BeginScript, BeginEnsure, DeliverWeeks
    <3>2. UNCHANGED job["maintenance"]
      BY <2>1, <2>7 DEF BeginScript, BeginEnsure, DeliverWeeks
    <3>3. UNCHANGED Maintaining
      BY <3>1, <3>2 DEF Maintaining
    <3>4. station.clock # 0 => station.clock \in 1 .. Len(clocks)
      <4>1. clocks \in Seq(Clock) /\ station.clock \in 0 .. Len(clocks)
        BY DEF IInv, TypeOK
      <4> QED BY <4>1, LenProperties
    <3>5. station.clock # 0 => clocks[station.clock] \subseteq clocks'[station.clock]
      BY <3>1, <3>4 DEF ClocksKept
    <3> QED BY <3>1, <3>3, <3>5 DEF IInv, StaticServed
  <2>8. ASSUME ~station'.static
        PROVE  StaticServed'
    BY <2>8 DEF StaticServed
  <2>9. ASSUME station'.static = station.static, station'.clock = station.clock,
               UNCHANGED <<week, clocks, job, maintained>>
        PROVE  StaticServed'
    BY <2>9 DEF IInv, StaticServed, Maintaining
  <2>10. CASE StartStation \/ StopStation
    BY <2>1, <2>9, <2>10 DEF StartStation, StopStation, Station
  <2>11. CASE RollBackDelivery
    BY <2>1, <2>8, <2>11 DEF RollBackDelivery, Station
  <2>12. ASSUME NEW c \in Calendar,
                \/ PublishCalendar(c) \/ ExtendCalendar(c) \/ ExtensionFails(c)
                \/ ActivateNow(c) \/ DropPending(c) \/ QueueRelease(c) \/ PromoteDue(c)
         PROVE  StaticServed'
    <3>1. CASE PublishCalendar(c) \/ ExtendCalendar(c) \/ ExtensionFails(c)
      BY <2>9, <3>1 DEF PublishCalendar, ExtendCalendar, ExtensionFails
    <3>2. CASE ActivateNow(c) \/ PromoteDue(c)
      <4>1. station'.static = FALSE
        BY <2>1, <3>2 DEF ActivateNow, PromoteDue, ActivateRelease, Station
      <4> QED BY <2>8, <4>1
    <3>3. CASE DropPending(c) \/ QueueRelease(c)
      <4>1. station'.static = FALSE
        BY <2>1, <3>3 DEF DropPending, QueueRelease, Station
      <4> QED BY <2>8, <4>1
    <3> QED BY <2>12, <3>1, <3>2, <3>3
  <2> QED BY <1>2, <2>2, <2>3, <2>4, <2>5, <2>6, <2>7, <2>10, <2>11, <2>12
          DEF ProgrammingStep
<1> QED BY <1>1, <1>2

\* A static station serves the week it is in, whatever publications, maintenance,
\* the script and activations do at the same time: for any numbers of weeks that
\* leave the week after delivered.
THEOREM StaticAlwaysOnAir == Spec => []StaticOnAir
<1>1. Init => ScriptServed /\ StaticServed
  <2>1. Init => job["script"] = None /\ station.static = FALSE
    BY DEF Init
  <2> QED BY <2>1 DEF ScriptServed, StaticServed
<1>2. IInv /\ [ProgrammingStep]_vars => IInv'
  BY TypeStep, ScriptServedStep, StaticServedStep DEF IInv
<1>3. IInv => StaticOnAir
  BY DEF IInv, StaticServed, StaticOnAir
<1>4. Init => IInv
  BY <1>1, TypeInit DEF IInv
<1> QED BY <1>2, <1>3, <1>4, PTL DEF Spec
=============================================================================
