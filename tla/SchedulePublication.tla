------------------------ MODULE SchedulePublication ------------------------
(***************************************************************************)
(* How the edits of ONE television station reach its viewers: the playlist *)
(* its owner edits, the immutable snapshots ("schedules") published from   *)
(* it, and the station row that says which of them loops on air and which  *)
(* one waits for the end of the loop (lib/schedule-publication.ts,         *)
(* lib/station-lifecycle.ts, the activation half of                        *)
(* lib/calendar-publication.ts and the publishing tail of src-worker.ts    *)
(* and src-media-worker.ts).                                               *)
(*                                                                         *)
(* Every route locks the station row first, so a whole transaction of a    *)
(* route is one step.  The media worker publishes without that lock: its   *)
(* transaction is three steps, between which any route may run.            *)
(***************************************************************************)
EXTENDS Integers, FiniteSets

CONSTANTS
  ScheduleId,  \* ids of snapshots; an INSERT draws one nothing refers to
  Periods,     \* the total_duration_ms a snapshot can have, in ticks
  Video,       \* videos the playlist can hold
  Prepared,    \* videos deliverable from the start (all, in LEGACY_VOD)
  Jobs,        \* videos a preparation job succeeds for; the others' jobs fail
  Calendar,    \* TRUE: the owner may activate calendar programming
  None,        \* SQL NULL
  MaxTime,     \* bound: the clock stops here
  MaxVersion   \* bound: playlist_version stops here

ASSUME ConstantsAssumption ==
  /\ Periods \subseteq Nat \ {0} /\ Periods # {}
  /\ Prepared \subseteq Video /\ Jobs \subseteq Video
  /\ Calendar \in BOOLEAN
  /\ MaxTime \in Nat /\ MaxVersion \in Nat
  /\ None \notin Int
  /\ None \notin [id : ScheduleId, period : Periods, version : 0 .. MaxVersion]

VARIABLES
  now,       \* the clock
  station,   \* the stations row
  list,      \* the editable playlist
  delivered, \* videos with a committed tv_channel_derivatives row
  worker     \* worker[v]: the transaction preparing video v

vars == <<now, station, list, delivered, worker>>

Schedule == [id : ScheduleId, period : Periods, version : 0 .. MaxVersion]
Paused == [schedule : ScheduleId, cycle : Nat, offset : Nat]
Station ==
  [onAir : BOOLEAN, deleted : BOOLEAN, calendar : BOOLEAN, auto : BOOLEAN,
   active : Schedule \cup {None}, started : Nat \cup {None},
   pending : Schedule \cup {None}, pendingAt : Nat \cup {None},
   paused : Paused \cup {None}]
Playlist == [version : 0 .. MaxVersion, items : SUBSET Video, period : Periods]

Idle == [pc |-> "idle"]
Transaction ==
       {Idle}
  \cup [pc : {"selected"}, seen : Station, at : Nat]
  \cup [pc : {"read"}, seen : Station, at : Nat, list : Playlist, delivered : SUBSET Video]

-----------------------------------------------------------------------------
(* Time on a loop *)

Elapsed(start, t) == IF t > start THEN t - start ELSE 0
\* Mutant: a whole period from now.
NextLoopAtFromNow(start, t, period) == t + period
NextLoopAt(start, t, period) == start + (Elapsed(start, t) \div period + 1) * period
PositionAt(start, t, period) ==
  [cycle |-> Elapsed(start, t) \div period, offset |-> Elapsed(start, t) % period]
\* Mutants: the cycle not counted (the default of the parameter); one cycle too many.
ResumedStartNoCycle(t, position, period) == t - position.offset
ResumedStartOneMore(t, position, period) ==
  t - (position.cycle + 1) * period - position.offset
ResumedStart(t, position, period) == t - position.cycle * period - position.offset

(* Promotion of the snapshot that waits: due and promotePendingLocked *)

\* Mutant: only at the very instant.
DueExactly(st) == st.onAir /\ st.pending # None /\ st.pendingAt = now
Due(st) == /\ st.onAir /\ st.pending # None
           /\ st.pendingAt # None /\ st.pendingAt <= now

\* Mutants: the old epoch is kept; the instant is kept.
PromotedOldEpoch(st) ==
  IF Due(st) THEN [st EXCEPT !.active = st.pending, !.pending = None, !.pendingAt = None]
             ELSE st
PromotedKeepsInstant(st) ==
  IF Due(st) THEN [st EXCEPT !.active = st.pending, !.started = st.pendingAt, !.pending = None]
             ELSE st
Promoted(st) ==
  IF Due(st)
  THEN [st EXCEPT !.active = st.pending, !.started = st.pendingAt,
                  !.pending = None, !.pendingAt = None]
  ELSE st

(***************************************************************************)
(* Publication.  "seen" is the station row the transaction read and "t"    *)
(* the time it took; "st" the row it updates: the same row for a           *)
(* transaction that holds the lock.                                        *)
(***************************************************************************)
Snapshot(id, l) == [id |-> id, period |-> l.period, version |-> l.version]

ActivationFor(seen, t) ==
  IF seen.onAir /\ seen.started # None /\ seen.active # None
  THEN NextLoopAt(seen.started, t, seen.active.period)
  ELSE None

\* Mutant: a loop from now, whatever was promised.
KeptActivationMoved(seen, t) ==
  IF seen.onAir /\ seen.active # None THEN t + seen.active.period ELSE None
KeptActivation(seen, t) ==
  IF seen.pending # None /\ seen.pendingAt # None
  THEN seen.pendingAt
  ELSE ActivationFor(seen, t)

\* Mutant: the saved position survives.
ActivatedKeepsPosition(st, seen, snapshot, t) ==
  [st EXCEPT !.active = snapshot, !.started = IF seen.onAir THEN t ELSE None,
             !.pending = None, !.pendingAt = None]
Activated(st, seen, snapshot, t) ==
  [st EXCEPT !.active = snapshot, !.started = IF seen.onAir THEN t ELSE None,
             !.pending = None, !.pendingAt = None, !.paused = None]

Queued(st, seen, snapshot, t) ==
  [st EXCEPT !.pending = snapshot, !.pendingAt = KeptActivation(seen, t)]

Cleared(st, seen) ==
  IF st.pending = seen.pending
  THEN [st EXCEPT !.pending = None, !.pendingAt = None]
  ELSE st

Loops(st) == st.active # None /\ (st.onAir => st.started # None)

\* publishAfterScheduleMutation.  A video of the list that has no channel
\* delivery yet is TV_DELIVERY_NOT_READY, which the code swallows.
PublishAfter(st, seen, l, ready, id, t) ==
  CASE ~seen.auto \/ (l.items # {} /\ ~(l.items \subseteq ready)) -> st
    [] seen.auto /\ l.items = {} -> Cleared(st, seen)
    [] OTHER -> IF Loops(seen)
                THEN Queued(st, seen, Snapshot(id, l), t)
                ELSE Activated(st, seen, Snapshot(id, l), t)

\* Ids some row or some transaction under way still refers to.
InUse ==
  LET Refers(st) == {x.id : x \in {st.active, st.pending} \ {None}}
                      \cup {p.schedule : p \in {st.paused} \ {None}}
  IN  Refers(station) \cup UNION {Refers(worker[v].seen) : v \in {u \in Video : worker[u] # Idle}}

\* Which of the ids nothing refers to is drawn makes no difference.
NewIds == {id \in ScheduleId \ InUse : id = CHOOSE unused \in ScheduleId \ InUse : TRUE}

-----------------------------------------------------------------------------
(* The owner *)

Init ==
  /\ now = 0
  /\ station = [onAir |-> FALSE, deleted |-> FALSE, calendar |-> FALSE, auto |-> TRUE,
                active |-> None, started |-> None, pending |-> None, pendingAt |-> None,
                paused |-> None]
  /\ \E period \in Periods : list = [version |-> 0, items |-> {}, period |-> period]
  /\ delivered = Prepared
  /\ worker = [v \in Video |-> Idle]

\* Any change of the list that bumps its version: order, rows, titles, removals,
\* the transition, the playback order, a finished transcode, a library asset.
Edit ==
  /\ ~station.deleted /\ list.version < MaxVersion
  /\ \E items \in SUBSET Video, period \in Periods, id \in NewIds :
       LET edited == [version |-> list.version + 1, items |-> items, period |-> period]
           st == Promoted(station)
       IN  /\ list' = edited
           /\ station' = PublishAfter(st, st, edited, delivered, id, now)
  /\ UNCHANGED <<now, delivered, worker>>

\* Mutant: the switch does not publish.
ToggleAutoSilent ==
  /\ ~station.deleted
  /\ station' = [Promoted(station) EXCEPT !.auto = ~station.auto]
  /\ UNCHANGED <<now, list, delivered, worker>>

\* PATCH autoPublishNextLoop: switching it on publishes the list as it stands.
ToggleAuto ==
  /\ ~station.deleted
  /\ \E id \in NewIds :
       LET st == [Promoted(station) EXCEPT !.auto = ~station.auto]
       IN  station' = PublishAfter(st, st, list, delivered, id, now)
  /\ UNCHANGED <<now, list, delivered, worker>>

\* publishEditableSchedule: refused, and rolled back, unless the list is deliverable.
Apply(nextLoop) ==
  /\ ~station.deleted
  /\ list.items # {} /\ list.items \subseteq delivered
  /\ \E id \in NewIds :
       LET st == Promoted(station)
       IN  station' = IF nextLoop /\ Loops(st)
                      THEN Queued(st, st, Snapshot(id, list), now)
                      ELSE Activated(st, st, Snapshot(id, list), now)
  /\ UNCHANGED <<now, list, delivered, worker>>

\* Mutant: the position on the row as it is, before what is due is promoted.
StopStationUnpromoted ==
  /\ ~station.deleted /\ station.onAir
  /\ LET position == PositionAt(station.started, now, station.active.period)
         saved == ~station.calendar /\ station.active # None /\ station.started # None
     IN  station' = [station EXCEPT !.onAir = FALSE,
                                    !.paused = IF saved
                                               THEN [schedule |-> station.active.id,
                                                     cycle |-> position.cycle,
                                                     offset |-> position.offset]
                                               ELSE None]
  /\ UNCHANGED <<now, list, delivered, worker>>

StopStation ==
  /\ ~station.deleted /\ station.onAir
  /\ LET st == IF station.calendar THEN station ELSE Promoted(station)
         position == PositionAt(st.started, now, st.active.period)
         saved == ~st.calendar /\ st.active # None /\ st.started # None
     IN  station' = [st EXCEPT !.onAir = FALSE,
                               !.paused = IF saved
                                          THEN [schedule |-> st.active.id,
                                                cycle |-> position.cycle,
                                                offset |-> position.offset]
                                          ELSE None]
  /\ UNCHANGED <<now, list, delivered, worker>>

MayStart(st) == ~st.deleted /\ ~st.onAir

StartRestart ==
  /\ MayStart(station) /\ ~station.calendar
  /\ station.active # None \/ station.pending # None
  /\ station' = [station EXCEPT !.onAir = TRUE, !.started = now, !.paused = None,
                                !.active = IF station.pending # None
                                           THEN station.pending ELSE station.active,
                                !.pending = None, !.pendingAt = None]
  /\ UNCHANGED <<now, list, delivered, worker>>

\* Mutant: what was queued off air is not given its boundary.
StartResumeUntimed ==
  /\ MayStart(station) /\ ~station.calendar
  /\ station.active # None /\ station.paused # None
  /\ station.paused.schedule = station.active.id
  /\ station' = [station EXCEPT !.onAir = TRUE, !.paused = None,
                                !.started = ResumedStart(now, station.paused,
                                                         station.active.period)]
  /\ UNCHANGED <<now, list, delivered, worker>>

StartResume ==
  /\ MayStart(station) /\ ~station.calendar
  /\ station.active # None /\ station.paused # None
  /\ station.paused.schedule = station.active.id
  /\ LET period == station.active.period
         start == ResumedStart(now, station.paused, period)
     IN  station' = [station EXCEPT !.onAir = TRUE, !.started = start, !.paused = None,
                                    !.pendingAt = IF station.pending # None
                                                  THEN NextLoopAt(start, now, period)
                                                  ELSE None]
  /\ UNCHANGED <<now, list, delivered, worker>>

\* Under a calendar release the loop is the baseline between occurrences.
StartCalendar ==
  /\ MayStart(station) /\ station.calendar /\ station.active # None
  /\ station' = [station EXCEPT !.onAir = TRUE, !.paused = None,
                                !.started = IF station.started = None
                                            THEN now ELSE station.started]
  /\ UNCHANGED <<now, list, delivered, worker>>

ActivateCalendar ==
  /\ Calendar /\ ~station.calendar /\ ~station.deleted /\ station.active # None
  /\ station' = [station EXCEPT !.calendar = TRUE]
  /\ UNCHANGED <<now, list, delivered, worker>>

Delete ==
  /\ ~station.deleted
  /\ station' = [station EXCEPT !.deleted = TRUE, !.onAir = FALSE]
  /\ UNCHANGED <<now, list, delivered, worker>>

Restore ==
  /\ station.deleted
  /\ station' = [station EXCEPT !.deleted = FALSE]
  /\ UNCHANGED <<now, list, delivered, worker>>

(* The readers: a viewer, the guide and the editor promote what is due *)

PromoteDue ==
  /\ Due(station)
  /\ station' = Promoted(station)
  /\ UNCHANGED <<now, list, delivered, worker>>

(***************************************************************************)
(* The media worker.  It publishes at the end of the transaction that      *)
(* makes a video deliverable, and takes no lock on the station row.  Its   *)
(* own INSERT into schedules holds a key-share lock from there to the      *)
(* commit, so the last step is atomic for those who lock the row.          *)
(***************************************************************************)
WorkerSelect(v) ==
  /\ v \in Jobs /\ worker[v] = Idle /\ v \in list.items /\ v \notin delivered
  /\ worker' = [worker EXCEPT ![v] = [pc |-> "selected", seen |-> station, at |-> now]]
  /\ UNCHANGED <<now, station, list, delivered>>

WorkerRead(v) ==
  /\ worker[v].pc = "selected"
  /\ worker' = [worker EXCEPT ![v] = [pc |-> "read", seen |-> worker[v].seen,
                                      at |-> worker[v].at, list |-> list,
                                      delivered |-> delivered \cup {v}]]
  /\ UNCHANGED <<now, station, list, delivered>>

\* Mutant: without IS NOT DISTINCT FROM.
WorkerCommitBlind(v) ==
  /\ worker[v].pc = "read"
  /\ \E id \in NewIds :
       LET w == worker[v]
       IN  station' = PublishAfter(station, w.seen, w.list, w.delivered, id, w.at)
  /\ delivered' = delivered \cup {v}
  /\ worker' = [worker EXCEPT ![v] = Idle]
  /\ UNCHANGED <<now, list>>

\* Both UPDATEs compare the active schedule with the one read; a publication that
\* lost that race throws, and the job is tried again.
WorkerCommit(v) ==
  /\ worker[v].pc = "read"
  /\ \E id \in NewIds :
       LET w == worker[v]
           published == PublishAfter(station, w.seen, w.list, w.delivered, id, w.at)
           lost == /\ station.active # w.seen.active
                   /\ w.seen.auto /\ w.list.items # {} /\ w.list.items \subseteq w.delivered
       IN  /\ station' = IF lost THEN station ELSE published
           /\ delivered' = IF lost THEN delivered ELSE delivered \cup {v}
  /\ worker' = [worker EXCEPT ![v] = Idle]
  /\ UNCHANGED <<now, list>>

Tick == now < MaxTime /\ now' = now + 1 /\ UNCHANGED <<station, list, delivered, worker>>

Next ==
  \/ Edit \/ ToggleAuto \/ Apply(TRUE) \/ Apply(FALSE)
  \/ StopStation \/ StartRestart \/ StartResume \/ StartCalendar
  \/ ActivateCalendar \/ Delete \/ Restore \/ PromoteDue
  \/ \E v \in Video : WorkerSelect(v) \/ WorkerRead(v) \/ WorkerCommit(v)
  \/ Tick

Spec == Init /\ [][Next]_vars

\* Time passes, and somebody keeps watching: every read of the guide or of the
\* station promotes what is due.
Fairness == WF_vars(Tick) /\ WF_vars(PromoteDue)
LiveSpec == Spec /\ Fairness

-----------------------------------------------------------------------------
(* What the publication promises *)

\* The rows and the transactions under way hold what their columns may hold.
TypeOK ==
  /\ now \in 0 .. MaxTime
  /\ station \in Station
  /\ list \in Playlist
  /\ delivered \in SUBSET Video
  /\ worker \in [Video -> Transaction]

\* A station on air has a loop with an epoch, and a snapshot waits only behind
\* another one: startStation refuses to start without one, and nothing takes the
\* loop of a station away afterwards.
OnAirHasLoop ==
  /\ station.onAir => station.active # None /\ station.started # None
  /\ station.pending # None => station.active # None
  /\ station.pendingAt # None => station.pending # None

\* The instant a queued snapshot goes on air is the end of a cycle of the loop that
\* is on air, through stops, resumptions, calendar starts and replacements of the
\* queued snapshot: nextLoopAt is never computed from an epoch that has since moved.
QueuedAtBoundary ==
  station.onAir /\ station.pendingAt # None =>
    /\ station.pendingAt > station.started
    /\ (station.pendingAt - station.started) % station.active.period = 0

\* A saved position belongs to the stopped station's current loop and lies inside
\* one cycle of it: "resume" can never land in a loop of another length.
PausedPosition ==
  station.paused # None =>
    /\ ~station.onAir
    /\ station.active # None
    /\ station.paused.schedule = station.active.id
    /\ station.paused.offset < station.active.period

\* While automatic publication is on, the newest published snapshot is the list as
\* it stands, whenever all of it can be delivered: no sequence of edits, failed
\* deliveries, removals and restarts leaves an edit behind.
Newest == IF station.pending # None THEN station.pending ELSE station.active
UpToDate ==
  station.auto /\ list.items # {} /\ list.items \subseteq delivered =>
    Newest # None /\ Newest.version = list.version

\* A snapshot queued on air, or while the station was stopped, has an instant to go
\* on air at: "A playlist update is queued for the next loop after the station
\* resumes" (components/station-editor.tsx).  Not under a calendar: a start leaves
\* the time of a snapshot that was queued off air empty there.
QueuedHasInstant ==
  station.onAir /\ ~station.calendar /\ station.pending # None => station.pendingAt # None

\* While the station stays on air, viewers see its loop change in two ways only: a
\* new loop that begins now, or the queued one, at the instant it was queued for.
LoopPreserved ==
  [][ station.onAir /\ station'.onAir /\ station'.active # station.active =>
        \/ station'.started = now
        \/ station'.active = station.pending /\ station'.started = station.pendingAt ]_vars

\* A loop that stays on air keeps its epoch, and one that is stopped and resumed
\* goes on from the position viewers left (a calendar's baseline runs on instead).
PositionKept ==
  [][ /\ station.onAir /\ station'.onAir /\ station'.active = station.active =>
           station'.started = station.started
      /\ ~station.onAir /\ station'.onAir /\ ~station.calendar /\ station.paused # None
           /\ station'.active = station.active /\ station'.started # now =>
           LET position == PositionAt(station'.started, now, station.active.period)
           IN  /\ position.cycle = station.paused.cycle
               /\ position.offset = station.paused.offset ]_vars

\* While a loop stays on air, replacing the snapshot queued behind it moves the
\* instant it goes on air neither forward nor back.
BoundaryKept ==
  [][ station.onAir /\ station'.onAir /\ station'.active = station.active
        /\ station.pendingAt # None /\ station'.pendingAt # None =>
      station'.pendingAt = station.pendingAt ]_vars

\* An instant a snapshot is queued for is acted upon once it has come, however often
\* the snapshot is replaced in the meantime: it does not stay queued, on air, forever.
QueuedGoesOnAir ==
  \A instant \in 0 .. MaxTime :
    station.onAir /\ station.pendingAt = instant
      ~> station.pendingAt # instant \/ ~station.onAir

-----------------------------------------------------------------------------
(* The loop on air that the rows implement.  Every reader promotes what is    *)
(* due before it uses the row, so what is due is on air, whether or not       *)
(* anybody has read the row yet.                                              *)
Seen == Promoted(station)

Airing == IF Seen.onAir THEN [loop |-> Seen.active, since |-> Seen.started] ELSE None
NextUp == IF Seen.onAir /\ Seen.pendingAt # None
          THEN [loop |-> Seen.pending, at |-> Seen.pendingAt]
          ELSE None
LeftAt == IF station.paused # None
          THEN [loop |-> station.active,
                cycle |-> station.paused.cycle, offset |-> station.paused.offset]
          ELSE None

\* SQL NULL is none of these records.
ASSUME NoneAssumption ==
  /\ None \notin [loop : Schedule, since : Nat] /\ None \notin [loop : Schedule, at : Nat]
  /\ None \notin [loop : Schedule, cycle : Nat, offset : Nat] /\ None \notin Paused

OnAir == INSTANCE LoopOnAir WITH
  Loop <- Schedule, Nothing <- None, calendar <- station.calendar,
  airing <- Airing, next <- NextUp, left <- LeftAt

\* Whatever is edited, published, queued, withdrawn, promoted late, stopped and resumed,
\* viewers see the steps of LoopOnAir or nothing at all, if every publication takes the
\* lock: no loop is cut short or moved.
ImplementsLoopOnAir == OnAir!Spec
=============================================================================
