------------------------- MODULE RadioProgramming -------------------------
(* What ONE radio station broadcasts: its published weekly clocks and their *)
(* timelines (lib/clock-publication.ts, lib/clock-timeline.ts), the static  *)
(* delivery of their weeks (lib/radio-delivery-publication.ts and the       *)
(* script backfill-radio-hls.ts), its calendar releases and how they are    *)
(* materialized, queued and activated (lib/calendar-publication.ts,         *)
(* lib/calendar-maintenance.ts), and start and stop.                        *)
(*                                                                          *)
(* Time is counted in service weeks; a programme or an occurrence lasts one.*)
(* A step is one transaction.                                               *)
EXTENDS Integers, Sequences

CONSTANTS
  Calendar,      \* calendar releases that may be published
  ProfileOf,     \* ProfileOf[c]: the programming profile of a release
  Baseline,      \* the profile a station is created with
  None,          \* SQL NULL
  PublishWeeks,  \* weeks compiled by a publication (2)
  EnsureWeeks,   \* weekCount of ensureClockTimeline (3)
  BackfillWeeks, \* weeks the script prepares, from last week on (4)
  Horizon,       \* CALENDAR_HORIZON_DAYS
  Early,         \* how long before its end a release is extended (30 days)
  MaxClock,      \* bound: clock releases
  MaxWeek,       \* bound: the clock stops here
  MaxFailures    \* bound: failed extensions

ASSUME ConstantsAssumption ==
  /\ PublishWeeks \in Nat \ {0, 1} /\ EnsureWeeks \in Nat \ {0, 1}
  /\ BackfillWeeks \in Nat \ {0, 1, 2, 3}
  /\ Horizon \in Nat \ {0} /\ Early \in 0 .. Horizon
  /\ MaxClock \in Nat /\ MaxWeek \in Nat /\ MaxFailures \in Nat
  /\ None \notin Calendar \cup Int
  /\ \A c \in Calendar : ProfileOf[c] # Baseline

VARIABLES
  week,       \* clock_timestamp()
  station,    \* the stations row
  clocks,     \* clock_releases, in order, with their weeks
  active,     \* profiles whose lifecycle is ACTIVE
  calendars,  \* calendar_release_materialization_state and the occurrences
  job,        \* the loops over weeks under way
  maintained, \* a maintenance pass of this week went through the weeks
  failures    \* failed extensions so far, for the bound

vars == <<week, station, clocks, active, calendars, job, maintained, failures>>
-----------------------------------------------------------------------------
Profile == {Baseline} \cup {ProfileOf[c] : c \in Calendar}

Station == [running : BOOLEAN, static : BOOLEAN, clock : Nat, profile : Profile,
            calendar : Calendar \cup {None}, pending : Calendar \cup {None},
            due : Int \cup {None}]

\* A clock release: its weeks with radio_timeline_delivery.  (A week is compiled
\* before it is delivered; that it is compiled already changes no step.)
Clock == SUBSET Int

Materialized == [status : {"NONE", "READY", "FAILED"}, from : Int, through : Int,
                 target : Int, occurrences : SUBSET Int]

\* A loop over weeks: the release and the delivery mode read before it, the week
\* in which it began, and whether the script is past it.
Job == [clock : Nat, static : BOOLEAN, since : Int, prepared : BOOLEAN]

\* Type correctness.
TypeOK ==
  /\ week \in 0 .. MaxWeek /\ failures \in 0 .. MaxFailures
  /\ clocks \in Seq(Clock) /\ Len(clocks) <= MaxClock
  /\ station \in Station /\ station.clock \in 0 .. Len(clocks)
  /\ active \in SUBSET Profile
  /\ calendars \in [Calendar -> Materialized]
  /\ job \in [{"maintenance", "script"} -> Job \cup {None}]
  /\ maintained \in BOOLEAN
-----------------------------------------------------------------------------
Larger(a, b) == IF a > b THEN a ELSE b

\* serviceWeeksFrom.
Weeks(first, count) == first .. (first + count - 1)

OnCalendar == station.profile # Baseline

\* The occurrences of a release that start in [from, to).
Expansion(from, to) == from .. (to - 1)

\* readActivationRelease, assertCalendarStartReady.
CoversNow(c) ==
  /\ calendars[c].status = "READY"
  /\ calendars[c].from <= week /\ week < calendars[c].through

\* insertRadioTimelineDelivery, for some weeks of a release.
Deliver(n, weeks) == clocks' = [clocks EXCEPT ![n] = @ \cup weeks]

Init ==
  /\ week = 0 /\ failures = 0 /\ maintained = FALSE
  /\ station = [running |-> FALSE, static |-> FALSE, clock |-> 0,
                profile |-> Baseline, calendar |-> None, pending |-> None,
                due |-> None]
  /\ clocks = <<>>
  /\ active = {Baseline}
  /\ calendars = [c \in Calendar |-> [status |-> "NONE", from |-> 0, through |-> 0,
                                      target |-> 0, occurrences |-> {}]]
  /\ job = [j \in {"maintenance", "script"} |-> None]
-----------------------------------------------------------------------------
(* The weekly clock and its static delivery.  Whether every track has its   *)
(* HLS artifacts is up to the radio-prep jobs: a step that asks for them may *)
(* be taken or not.                                                         *)

\* publishClockRelease.
PublishClock ==
  /\ Len(clocks) < MaxClock
  /\ clocks' = Append(clocks, IF station.static THEN Weeks(week, PublishWeeks) ELSE {})
  /\ station' = [station EXCEPT !.clock = Len(clocks')]
  /\ UNCHANGED <<week, active, calendars, job, maintained, failures>>

\* ensureClockTimeline reads the mode once, before the weeks.
BeginEnsure(j) ==
  /\ job[j] = None
  /\ station.clock # 0
  /\ job' = [job EXCEPT ![j] = [clock |-> station.clock, static |-> station.static,
                                since |-> week, prepared |-> FALSE]]
  /\ UNCHANGED <<week, station, clocks, active, calendars, maintained, failures>>

\* Maintenance extends static stations and those on a calendar.
BeginMaintenance ==
  /\ station.static \/ OnCalendar
  /\ BeginEnsure("maintenance")

\* activateReadyStations selects a station on PLAYOUT, on a calendar or not.
BeginScript ==
  /\ ~station.static
  /\ BeginEnsure("script")

\* The weeks of ensureClockTimeline.  Each is a transaction of its own: the loop
\* may fail, or its process die, before any of them.
MaintainClock ==
  LET j == job["maintenance"] IN
  /\ j # None
  /\ \E done \in 0 .. EnsureWeeks :
       /\ Deliver(j.clock, IF j.static THEN Weeks(j.since, done) ELSE {})
       /\ maintained' = (maintained \/ (done = EnsureWeeks /\ j.since = week))
  /\ job' = [job EXCEPT !["maintenance"] = None]
  /\ UNCHANGED <<week, station, active, calendars, failures>>

\* The script has compiled its weeks, from last week on, and goes through them
\* once more to deliver them, whatever the mode that was read.
DeliverWeeks ==
  LET j == job["script"] IN
  /\ j # None /\ ~j.prepared
  /\ \E done \in 0 .. BackfillWeeks :
       /\ Deliver(j.clock, Weeks(j.since - 1, done))
       /\ job' = IF done = BackfillWeeks
                 THEN [job EXCEPT !["script"].prepared = TRUE]
                 ELSE [job EXCEPT !["script"] = None]
  /\ UNCHANGED <<week, station, active, calendars, maintained, failures>>

\* The UPDATE that makes a station static.  Mutant: of whatever release.
SwitchesAny(n) == ~station.static

Switches(n) == ~station.static /\ station.clock = n

\* The script's last transaction: the current week must be delivered.
SwitchToStatic ==
  LET n == job["script"].clock IN
  /\ job["script"] # None /\ job["script"].prepared
  /\ job' = [job EXCEPT !["script"] = None]
  /\ station' = IF week \in clocks[n] /\ Switches(n)
                THEN [station EXCEPT !.static = TRUE] ELSE station
  /\ UNCHANGED <<week, clocks, active, calendars, maintained, failures>>

\* The rollback of docs/stateless-radio-rollout.md, by hand.
RollBackDelivery ==
  /\ station.static
  /\ station' = [station EXCEPT !.static = FALSE]
  /\ UNCHANGED <<week, clocks, active, calendars, job, maintained, failures>>
-----------------------------------------------------------------------------
(* Start and stop.                                                          *)

\* The baseline of a calendar, and what static delivery needs.
StartStation ==
  /\ ~station.running /\ station.clock # 0
  /\ IF OnCalendar
     THEN station.calendar # None /\ CoversNow(station.calendar) /\ ~station.static
     ELSE station.static => week \in clocks[station.clock]
  /\ station' = [station EXCEPT !.running = TRUE]
  /\ UNCHANGED <<week, clocks, active, calendars, job, maintained, failures>>

StopStation ==
  /\ station.running
  /\ station' = [station EXCEPT !.running = FALSE]
  /\ UNCHANGED <<week, clocks, active, calendars, job, maintained, failures>>
-----------------------------------------------------------------------------
(* Calendar releases.                                                       *)

\* publishCalendarRelease: materialized and READY in the same transaction.
PublishCalendar(c) ==
  /\ calendars[c].status = "NONE"
  /\ calendars' = [calendars EXCEPT ![c] =
       [status |-> "READY", from |-> week - 1, through |-> week + Horizon,
        target |-> week + Horizon,
        occurrences |-> Expansion(week - 1, week + Horizon)]]
  /\ UNCHANGED <<week, station, clocks, active, job, maintained, failures>>

\* The releases a maintenance pass extends.
NeedsExtension(c) ==
  /\ c \in {station.calendar, station.pending}
  /\ calendars[c].status # "READY" \/ calendars[c].through < week + Early

TargetThrough(c) ==
  Larger(week + Horizon, Larger(calendars[c].target, calendars[c].through))

\* Where an extension begins.  Mutant: where the last one should have ended.
ExtensionFromTarget(c) == calendars[c].target

ExtensionFrom(c) == calendars[c].through

\* ensureCalendarReleaseMaterialized, called by maintenance only.
ExtendCalendar(c) ==
  /\ NeedsExtension(c)
  /\ calendars' = [calendars EXCEPT
       ![c].status = "READY", ![c].through = TargetThrough(c),
       ![c].target = TargetThrough(c),
       ![c].occurrences = @ \cup Expansion(ExtensionFrom(c), TargetThrough(c))]
  /\ UNCHANGED <<week, station, clocks, active, job, maintained, failures>>

\* The extension is rolled back and markMaterializationFailed commits.
\* Mutant: it writes NULL, as for a release not materialized yet.
ExtensionFailsNull(c) ==
  /\ NeedsExtension(c)
  /\ failures < MaxFailures /\ failures' = failures + 1
  /\ calendars' = [calendars EXCEPT ![c].status = "FAILED", ![c].through = None,
                                    ![c].target = Larger(@, TargetThrough(c))]
  /\ UNCHANGED <<week, station, clocks, active, job, maintained>>

ExtensionFails(c) ==
  /\ NeedsExtension(c)
  /\ failures < MaxFailures /\ failures' = failures + 1
  /\ calendars' = [calendars EXCEPT ![c].status = "FAILED",
                                    ![c].target = Larger(@, TargetThrough(c))]
  /\ UNCHANGED <<week, station, clocks, active, job, maintained>>

AlreadyActive(c) == station.calendar = c /\ station.profile = ProfileOf[c]

\* readActivationRelease, switchStoppedRadioToPlayout, assertCalendarBaselineReady.
Activatable(c) ==
  /\ CoversNow(c)
  /\ station.static => ~station.running
  /\ station.clock # 0

\* The profiles after an activation.  Mutant: the old one is not archived.
ActivatedKept(c) == active \cup {ProfileOf[c]}

Activated(c) ==
  (IF station.profile = ProfileOf[c] THEN active ELSE active \ {station.profile})
    \cup {ProfileOf[c]}

\* activateReleaseLocked.
ActivateRelease(c) ==
  /\ station' = [station EXCEPT !.static = FALSE, !.profile = ProfileOf[c],
                                !.calendar = c, !.pending = None, !.due = None]
  /\ active' = Activated(c)
  /\ UNCHANGED <<week, clocks, calendars, job, maintained, failures>>

\* activateCalendarRelease, IMMEDIATE.
ActivateNow(c) ==
  /\ Activatable(c)
  /\ ~AlreadyActive(c)
  /\ ActivateRelease(c)

\* Of the release that is active: only what was queued is dropped.
DropPending(c) ==
  /\ Activatable(c)
  /\ AlreadyActive(c)
  /\ station' = [station EXCEPT !.static = FALSE, !.pending = None, !.due = None]
  /\ UNCHANGED <<week, clocks, active, calendars, job, maintained, failures>>

\* activateCalendarRelease, NEXT_BOUNDARY: a future instant is kept; otherwise it
\* is the end of the occurrence or of the item on air, currentCalendarBoundary.
QueueRelease(c) ==
  LET kept == station.pending # None /\ station.due > week IN
  /\ Activatable(c)
  /\ ~AlreadyActive(c)
  /\ station' = [station EXCEPT !.static = FALSE, !.pending = c,
                                !.due = IF kept THEN @ ELSE week + 1]
  /\ UNCHANGED <<week, clocks, active, calendars, job, maintained, failures>>

\* promoteDueCalendarRelease, called by maintenance.
PromoteDue(c) ==
  /\ station.pending = c /\ station.due <= week
  /\ Activatable(c)
  /\ ActivateRelease(c)
-----------------------------------------------------------------------------
(* A pass of maintenance takes minutes, the script less than a week: no week *)
(* ends before each static station was gone through, or in which two begin   *)
(* during one run of the script.                                             *)
Tick ==
  /\ week < MaxWeek
  /\ station.static => maintained
  /\ job["script"] # None => job["script"].since = week
  /\ week' = week + 1
  /\ maintained' = FALSE
  /\ UNCHANGED <<station, clocks, active, calendars, job, failures>>

ProgrammingStep ==
  \/ PublishClock \/ StartStation \/ StopStation
  \/ BeginMaintenance \/ MaintainClock \/ RollBackDelivery
  \/ BeginScript \/ DeliverWeeks \/ SwitchToStatic
  \/ \E c \in Calendar :
       \/ PublishCalendar(c) \/ ExtendCalendar(c) \/ ExtensionFails(c)
       \/ ActivateNow(c) \/ DropPending(c) \/ QueueRelease(c) \/ PromoteDue(c)
  \/ Tick

Spec == Init /\ [][ProgrammingStep]_vars
-----------------------------------------------------------------------------
\* A static station has nobody to play it: what it serves of the current week
\* must have been delivered, by the publication, by maintenance or by the
\* script, however their loops over weeks interleave with each other, with new
\* releases, with activations and with the turn of the week.
StaticOnAir ==
  station.static => week \in clocks[station.clock]

\* A release that is played has all its occurrences, from its start to where it
\* says it is materialized, whatever extensions failed on the way.
Covered ==
  \A c \in Calendar : calendars[c].status # "NONE" =>
    calendars[c].occurrences = Expansion(calendars[c].from, calendars[c].through)

\* The station, its profiles and its releases agree: one profile is active, the
\* station's; the release is of that profile; what is queued is not on air.
CalendarCoherent ==
  /\ active = {station.profile}
  /\ IF station.calendar = None THEN ~OnCalendar
     ELSE station.profile = ProfileOf[station.calendar]
  /\ (station.pending = None) = (station.due = None)
  /\ station.pending # None => station.pending # station.calendar
=============================================================================
