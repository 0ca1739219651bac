----------------------------- MODULE TvPlayout -----------------------------
(***************************************************************************)
(* The playout of ONE television station: the arbiters of src-tv-playout.ts*)
(* (one process per Holder), the lease that elects the arbiter in charge   *)
(* (lib/tv-playout-lease.ts), the state and the snapshot it works from     *)
(* (lib/tv-playout-program.ts) and the segment journal it extends          *)
(* (lib/tv-segment-journal.ts), from which every HLS playlist is served.   *)
(*                                                                         *)
(* A step is one database statement, one transaction, or one timer or      *)
(* signal callback: what another process can see or interrupt.  Time is    *)
(* the database's clock, in ticks; it may pass between any two steps.      *)
(***************************************************************************)
EXTENDS Integers, Sequences, FiniteSets

CONSTANTS
  Holder,      \* arbiter processes; each start draws a new holder id
  Schedule,    \* published schedules of the station
  Loop,        \* Loop[s]: the segments of one cycle, in order, 1..Len
  LoopLen,     \* LoopLen[s]: how many there are
  Period,      \* Period[s]: total_duration_ms, in ticks
  Release,     \* calendar releases of the station
  Occurrences, \* Occurrences[r]: the materialized occurrences of a release
  Horizon,     \* Horizon[r]: materialized_through; None: kept ahead of the clock
  None,        \* SQL NULL
  LeaseTicks,  \* TV_PLAYOUT_LEASE_SECONDS
  Ahead,       \* normalAheadMs
  CatchUp,     \* maxCatchUpMs
  MaxAppend,   \* maxAppendSegments
  MaxSegment,  \* the longest segment a journal row may have (2000 ms)
  Retention,   \* TV journal retention, in ticks
  Skew,        \* how far an arbiter's clock may run ahead of the database's
  MaxCommands, \* bound: control-plane commands
  MaxLag,      \* bound: how far in the past a timeline may be started
  MaxTime,     \* bound: the clock stops here
  LastCrash,   \* bound: no process dies later than this
  MaxFence,    \* bound: no take-over beyond this fence
  MaxIndex     \* bound: segments of a timeline the planner looks at

Segment == [at : Nat, dur : 1 .. MaxSegment, first : BOOLEAN]
Occurrence == [id : Nat, starts : Nat, ends : Nat \cup {None}, priority : Nat,
               kind : {"PROGRAM", "OFFLINE"}, schedule : Schedule]

(***************************************************************************)
(* A cycle is contiguous from zero and as long as its period: what         *)
(* validateDescriptor and validateSchedulePlan throw on otherwise.         *)
(***************************************************************************)
ASSUME ConstantsAssumption ==
  /\ LeaseTicks \in Nat \ {0} /\ Ahead \in Nat \ {0} /\ CatchUp \in Nat
  /\ MaxAppend \in Nat \ {0} /\ MaxSegment \in Nat \ {0} /\ Retention \in Nat
  /\ Skew \in Nat /\ MaxCommands \in Nat /\ MaxLag \in Nat
  /\ MaxTime \in Nat /\ LastCrash \in Nat /\ MaxFence \in Nat /\ MaxIndex \in Nat
  /\ None \notin Holder \cup Schedule \cup Release \cup Int
  /\ \A r \in Release :
       Occurrences[r] \subseteq Occurrence /\ Horizon[r] \in Nat \cup {None}
  /\ \A s \in Schedule :
       /\ LoopLen[s] \in Nat \ {0} /\ Period[s] \in Nat \ {0}
       /\ Loop[s] \in [1 .. LoopLen[s] -> Segment]
       /\ Loop[s][1].at = 0
       /\ \A i \in 1 .. LoopLen[s] :
            Loop[s][i].at + Loop[s][i].dur
              = IF i = LoopLen[s] THEN Period[s] ELSE Loop[s][i + 1].at

VARIABLES
  now,       \* clock_timestamp()
  station,   \* the stations row, as far as playout reads it
  lease,     \* the tv_playout_leases row; fence 0: no row yet
  observed,  \* tv_playout_state.lease_fence; 0: no row yet
  journal,   \* tv_segment_journal: media_sequence -> row
  pc,        \* where each arbiter is in its reconcile loop
  stopping,  \* shuttingDown: a signal arrived, the runtimes were released; or
             \* the process died
  runtime,   \* the fence and local expiry of runtimes.get(station), if any
  work,      \* locals of the reconciliation under way (reset when dead)
  commands   \* control-plane commands so far, for the bound

vars == <<now, station, lease, observed, journal, pc, stopping, runtime, work,
          commands>>
arbiter == <<pc, stopping, runtime, work>>
-----------------------------------------------------------------------------
(* Types.                                                                  *)

Life == {"RUNNING", "STOPPED", "DELETED", "PURGED"}

PC == {"idle", "acquired", "held", "renewed", "claimed", "sourced", "append",
       "gone"}

\* The calendar columns of a row: NULL for a row of the legacy loop.
Provenance == [release : Release \cup {None}, occurrence : Nat \cup {None},
               epoch : Int \cup {None}]
Legacy == [release |-> None, occurrence |-> None, epoch |-> None]

Row == [starts : Int, ends : Int, disc : BOOLEAN, discSeq : Nat, fence : Nat,
        schedule : Schedule, prov : Provenance]

PlannedSegment == [starts : Int, ends : Int, disc : BOOLEAN]

\* What a reconciliation carries from step to step.
Work == [fence : Nat, until : Nat, at : Nat, schedule : Schedule \cup {None},
         prov : Provenance, through : Nat \cup {None}, plan : Seq(PlannedSegment)]

NoWork == [fence |-> 0, until |-> 0, at |-> 0, schedule |-> None,
           prov |-> Legacy, through |-> None,
           plan |-> <<>>]
NoRuntime == [fence |-> 0, until |-> 0]

\* Type correctness.
TypeOK ==
  /\ now \in Nat /\ commands \in Nat
  /\ station \in [life : Life, schedule : Schedule, epoch : Int,
                  release : Release \cup {None}]
  /\ lease \in [holder : Holder \cup {None}, fence : Nat, until : Nat]
  /\ observed \in Nat
  /\ \A m \in DOMAIN journal : m \in Nat /\ journal[m] \in Row
  /\ pc \in [Holder -> PC]
  /\ stopping \in [Holder -> {"no", "signalled", "done", "died"}]
  /\ runtime \in [Holder -> [fence : Nat, until : Nat]]
  /\ work \in [Holder -> Work]
-----------------------------------------------------------------------------
(* Helpers.                                                                *)

Larger(a, b) == IF a > b THEN a ELSE b
Smaller(a, b) == IF a < b THEN a ELSE b

OnAir == station.life = "RUNNING"
Expired == lease.until <= now

Valid(h, f) == lease.holder = h /\ lease.fence = f /\ ~Expired

\* The fence an acquisition gives: the old one only if it is the holder's own
\* and live.  Mutant: a take-over keeps it.
NextFenceKept(h) == IF lease.fence = 0 THEN 1 ELSE lease.fence

NextFence(h) ==
  IF lease.holder = h /\ ~Expired THEN lease.fence ELSE lease.fence + 1

\* desiredStations: on air and not under another holder's live lease.
\* Mutant: not under another holder's lease, expired or not.
DesiredUnowned(h) == OnAir /\ lease.holder \in {None, h}

Desired(h) == OnAir /\ (Expired \/ lease.holder = h)

\* The row latestTvJournalSegment and the append's locked read return.
IsTail(t) == t \in DOMAIN journal /\ \A m \in DOMAIN journal : m <= t

\* releaseTvPlayoutLease: no check that the lease still runs.
Release_(h, f) ==
  lease' = IF lease.holder = h /\ lease.fence = f
           THEN [lease EXCEPT !.until = now] ELSE lease

\* Segment k of the endless timeline of schedule s started at epoch e.
SegmentAt(s, e, k) ==
  LET c == Loop[s][(k % LoopLen[s]) + 1]
      base == e + (k \div LoopLen[s]) * Period[s]
  IN  [starts |-> base + c.at, ends |-> base + c.at + c.dur, disc |-> c.first]
\* Starts of the timelines the control plane may set: now, or a little ago
\* (a due promotion starts when it was due, a resumed loop where it paused).
Epochs == (now - MaxLag) .. now
-----------------------------------------------------------------------------
(* The calendar: which occurrence rules at time t, and until when.         *)

ActiveAt(r, t) ==
  {o \in Occurrences[r] : o.starts <= t /\ (o.ends = None \/ o.ends > t)}

\* compareOccurrences: priority, then the later start, then the id.
Outranks(a, b) ==
  \/ a.priority > b.priority
  \/ a.priority = b.priority /\ a.starts > b.starts
  \/ a.priority = b.priority /\ a.starts = b.starts /\ a.id < b.id

Rules(o, r, t) ==
  o \in ActiveAt(r, t) /\ \A p \in ActiveAt(r, t) \ {o} : Outranks(o, p)

\* A release is only played while the clock is inside what is materialized.
Ready(r) == Horizon[r] # None => now < Horizon[r]

\* earliestBoundary: the end of the occurrence that rules, the next start, or
\* the end of what is materialized.
BoundariesAfter(r, t) ==
  ({Horizon[r]} \ {None})
    \cup {o.starts : o \in {p \in Occurrences[r] : p.starts > t}}
    \cup {o.ends : o \in {p \in ActiveAt(r, t) : Rules(p, r, t) /\ p.ends # None}}

IsNextBoundary(b, r, t) ==
  LET C == BoundariesAfter(r, t)
  IN  IF C = {} THEN b = None ELSE b \in C /\ \A c \in C : b <= c
-----------------------------------------------------------------------------
Init ==
  /\ now = 0 /\ commands = 0
  /\ station \in [life : {"RUNNING", "STOPPED"}, schedule : Schedule,
                  epoch : {0}, release : Release \cup {None}]
  /\ lease = [holder |-> None, fence |-> 0, until |-> 0]
  /\ observed = 0
  /\ journal = [m \in {} |-> None]
  /\ pc = [h \in Holder |-> "idle"]
  /\ stopping = [h \in Holder |-> "no"]
  /\ runtime = [h \in Holder |-> NoRuntime]
  /\ work = [h \in Holder |-> NoWork]

\* Every return and every caught error of reconcileStation ends here.
EndReconcile(h) ==
  /\ pc' = [pc EXCEPT ![h] = IF stopping[h] = "no" THEN "idle" ELSE "gone"]
  /\ work' = [work EXCEPT ![h] = NoWork]

Goto(h, label) == pc' = [pc EXCEPT ![h] = label]
-----------------------------------------------------------------------------
(* The arbiter's loop.                                                     *)

\* reconcile, the station is no longer desired: stopRuntime(runtime, true).
DropStation(h) ==
  /\ pc[h] = "idle" /\ runtime[h].fence # 0
  /\ ~Desired(h)
  /\ Release_(h, runtime[h].fence)
  /\ runtime' = [runtime EXCEPT ![h] = NoRuntime]
  /\ UNCHANGED <<commands, now, station, observed, journal, pc, stopping, work>>

\* reconcileStation without a runtime: acquireTvPlayoutLease takes a free, an
\* expired or its own lease.
Acquire(h) ==
  LET f == NextFence(h) IN
  /\ pc[h] = "idle" /\ runtime[h].fence = 0
  /\ Desired(h)
  /\ f <= MaxFence
  /\ lease' = [holder |-> h, fence |-> f, until |-> now + LeaseTicks]
  /\ work' = [work EXCEPT ![h].fence = f, ![h].until = now + LeaseTicks]
  /\ Goto(h, "acquired")
  /\ UNCHANGED <<commands, now, station, observed, journal, stopping, runtime>>

\* reconcileStation with the runtime of an earlier round.
ReuseRuntime(h) ==
  /\ pc[h] = "idle" /\ runtime[h].fence # 0
  /\ Desired(h)
  /\ work' = [work EXCEPT ![h].fence = runtime[h].fence]
  /\ Goto(h, "held")
  /\ UNCHANGED <<commands, now, station, lease, observed, journal, stopping,
                 runtime>>

\* acquireRuntime after the lease: claim the state, then keep the runtime, or
\* give the lease back.
ClaimAcquired(h) ==
  LET f == work[h].fence IN
  /\ pc[h] = "acquired"
  /\ \/ /\ Valid(h, f)
        /\ observed' = f
        /\ runtime' = [runtime EXCEPT ![h] = [fence |-> f, until |-> work[h].until]]
        /\ work' = [work EXCEPT ![h].until = 0]
        /\ Goto(h, "held")
        /\ UNCHANGED lease
     \/ /\ ~Valid(h, f)
        /\ Release_(h, f)
        /\ EndReconcile(h)
        /\ UNCHANGED <<observed, runtime>>
  /\ UNCHANGED <<commands, now, station, journal, stopping>>

\* renewTvPlayoutLease; a lost lease stops the runtime without a release.
Renew(h) ==
  LET f == work[h].fence IN
  /\ pc[h] = "held"
  /\ \/ /\ Valid(h, f)
        /\ lease' = [lease EXCEPT !.until = now + LeaseTicks]
        /\ work' = [work EXCEPT ![h].until = now + LeaseTicks]
        /\ Goto(h, "renewed")
        /\ UNCHANGED runtime
     \/ /\ ~Valid(h, f)
        /\ runtime' = [runtime EXCEPT ![h] = NoRuntime]
        /\ EndReconcile(h)
        /\ UNCHANGED lease
  /\ UNCHANGED <<commands, now, station, observed, journal, stopping>>

\* Neither a shutdown nor the expiry timer ran while the renewal was awaited.
\* Mutant: only the runtime is looked up.
KeepsWhileStopping(h) == runtime[h].fence # 0

Keeps(h) == stopping[h] = "no" /\ runtime[h].fence # 0

\* After the renewal: the lease is given back, or the timer is armed and the
\* state claimed.
ClaimRenewed(h) ==
  LET f == work[h].fence IN
  /\ pc[h] = "renewed"
  /\ \/ /\ Keeps(h) /\ Valid(h, f)
        /\ observed' = f
        /\ runtime' = [runtime EXCEPT ![h].until = work[h].until]
        /\ work' = [work EXCEPT ![h].until = 0]
        /\ Goto(h, "claimed")
        /\ UNCHANGED lease
     \/ /\ Keeps(h) /\ ~Valid(h, f)
        /\ runtime' = [runtime EXCEPT ![h] = NoRuntime]
        /\ EndReconcile(h)
        /\ UNCHANGED <<lease, observed>>
     \/ /\ ~Keeps(h)
        /\ Release_(h, f)
        /\ EndReconcile(h)
        /\ UNCHANGED <<observed, runtime>>
  /\ UNCHANGED <<commands, now, station, journal, stopping>>

\* The work record once the source is known.
Sourced(w, schedule, prov, through) ==
  [w EXCEPT !.at = now, !.schedule = schedule, !.prov = prov, !.through = through]

\* The calendar's source at this time: the occurrence that rules, or the
\* baseline loop where none does.
CalendarSource(h, r) ==
  \E b \in BoundariesAfter(r, now) \cup {None} :
    /\ IsNextBoundary(b, r, now)
    /\ \/ \E o \in ActiveAt(r, now) :
            /\ Rules(o, r, now) /\ o.kind = "PROGRAM"
            /\ work' = [work EXCEPT ![h] = Sourced(@, o.schedule,
                 [release |-> r, occurrence |-> o.id, epoch |-> o.starts], b)]
       \/ /\ ActiveAt(r, now) = {}
          /\ work' = [work EXCEPT ![h] = Sourced(@, station.schedule,
               [release |-> r, occurrence |-> None, epoch |-> station.epoch], b)]

OfflineNow ==
  \E o \in ActiveAt(station.release, now) :
       Rules(o, station.release, now) /\ o.kind = "OFFLINE"

\* loadTvAutomationSnapshot and resolveCalendarRuntime.  No snapshot is an
\* error and the runtime stays; an OFFLINE occurrence appends nothing; a release
\* that is not materialized at this time leaves the station to its legacy loop.
ReadSource(h) ==
  LET loads == Valid(h, work[h].fence) /\ OnAir
      calendar == station.release # None /\ Ready(station.release)
  IN
  /\ pc[h] = "claimed"
  /\ \/ /\ loads /\ ~calendar
        /\ work' = [work EXCEPT ![h] = Sourced(@, station.schedule, Legacy, None)]
        /\ Goto(h, "sourced")
     \/ /\ loads /\ calendar
        /\ CalendarSource(h, station.release)
        /\ Goto(h, "sourced")
     \/ ~loads /\ EndReconcile(h)
     \/ loads /\ calendar /\ OfflineNow /\ EndReconcile(h)
  /\ UNCHANGED <<commands, now, station, lease, observed, journal, stopping,
                 runtime>>
-----------------------------------------------------------------------------
(* Planning.                                                               *)

\* The indices planTvJournalCatchUp keeps of the timeline (s, e): those that
\* reach past `from' and start before `through', at most MaxAppend of them,
\* and none that starts before the tail ends.
Kept(s, e, from, through, tail) ==
  LET Wanted == {k \in 0 .. MaxIndex :
                   /\ SegmentAt(s, e, k).ends > Larger(from, e)
                   /\ SegmentAt(s, e, k).starts < through}
  IN  {k \in Wanted :
         /\ \A j \in Wanted : k < j + MaxAppend
         /\ tail = None \/ SegmentAt(s, e, k).starts >= tail}

\* The n segments from index k on; the first is marked when it does not
\* continue the tail.
PlanOf(s, e, k, n, tail) ==
  [i \in 1 .. n |->
     LET g == SegmentAt(s, e, k + i - 1)
     IN  [g EXCEPT !.disc = g.disc \/ (i = 1 /\ (tail = None \/ g.starts > tail))]]

\* Plans reach Ahead, and no further than the calendar's next boundary.
\* Mutant: the boundary is forgotten.
ThroughAhead(w) == w.at + Ahead

Through(w) ==
  IF w.through = None THEN w.at + Ahead ELSE Smaller(w.at + Ahead, w.through)

\* planTvJournalCatchUp for the work w, given when the tail ends.  A calendar
\* plan does not catch up: behind the clock it starts with a whole segment.
KeptFor(w, e, tail) ==
  LET calendar == w.prov # Legacy
      behind == w.at - (IF calendar THEN 0 ELSE CatchUp)
      from == IF tail = None THEN behind ELSE Larger(behind, tail)
  IN  {k \in Kept(w.schedule, e, from, Through(w), tail) :
         calendar /\ tail # None /\ tail < w.at
           => SegmentAt(w.schedule, e, k).starts >= w.at}

\* Without a tail, or with one less than Ahead from the snapshot's time.
NeedsMore(w, tail) ==
  \/ tail = None /\ DOMAIN journal = {}
  \/ \E t \in DOMAIN journal :
       IsTail(t) /\ journal[t].ends = tail /\ tail < w.at + Ahead

\* latestTvJournalSegment, loadTvAutomationSchedulePlan, planTvJournalCatchUp.
PlanAhead(h) ==
  LET w == work[h]
      e == IF w.prov = Legacy THEN station.epoch ELSE w.prov.epoch
      loads == OnAir /\ (w.prov # Legacy \/ w.schedule = station.schedule)
      tails == {None} \cup {journal[m].ends : m \in DOMAIN journal}
      Writes(k, n, tail) ==
        /\ NeedsMore(w, tail)
        /\ KeptFor(w, e, tail) = k .. (k + n - 1)
  IN
  /\ pc[h] = "sourced"
  /\ \/ /\ loads
        /\ \E tail \in tails, k \in 0 .. MaxIndex, n \in 1 .. MaxAppend :
             /\ Writes(k, n, tail)
             /\ work' = [work EXCEPT ![h] =
                  [w EXCEPT !.plan = PlanOf(w.schedule, e, k, n, tail), !.at = 0,
                            !.through = None]]
        /\ Goto(h, "append")
     \/ /\ ~loads \/ ~(\E tail \in tails : NeedsMore(w, tail)
                                     /\ KeptFor(w, e, tail) # {})
        /\ EndReconcile(h)
  /\ UNCHANGED <<commands, now, station, lease, observed, journal, stopping,
                 runtime>>
-----------------------------------------------------------------------------
(* The append: one transaction that locks the station, the lease and the   *)
(* tail, so nothing it checks changes before it commits.                   *)

\* The station's row still wants what was planned.  The legacy loop is only
\* compared by schedule, the calendar also by release, occurrence and epoch.
StationAccepts(w) ==
  LET first == w.plan[1].starts IN
  /\ OnAir
  /\ IF w.prov = Legacy THEN station.schedule = w.schedule
     ELSE /\ station.release = w.prov.release /\ Ready(w.prov.release)
          /\ \/ /\ w.prov.occurrence = None
                /\ station.schedule = w.schedule /\ station.epoch = w.prov.epoch
                /\ ActiveAt(w.prov.release, first) = {}
             \/ \E o \in ActiveAt(w.prov.release, first) :
                  /\ Rules(o, w.prov.release, first)
                  /\ o.id = w.prov.occurrence /\ o.starts = w.prov.epoch
                  /\ o.kind = "PROGRAM" /\ o.schedule = w.schedule

\* Mutant: no boundary is marked.
MarkedNever(plan, tail, prov) == plan

\* withSourceBoundary: the first segment is marked where the provenance changes.
Marked(plan, tail, prov) ==
  IF journal[tail].prov = prov THEN plan ELSE [plan EXCEPT ![1].disc = TRUE]

\* validateJournalIntervals: no overlap, no unmarked gap, durations in bounds.
ValidIntervals(plan, ends) ==
  \A i \in 1 .. Len(plan) :
    LET before == IF i = 1 THEN ends ELSE plan[i - 1].ends IN
    /\ plan[i].ends - plan[i].starts \in 1 .. MaxSegment
    /\ before # None =>
         /\ plan[i].starts >= before
         /\ plan[i].starts > before => plan[i].disc

\* Mutant: a whole append counts as one.
MarksNone(plan, k) == 0

\* How many of the first k planned segments carry a discontinuity.
Marks(plan, k) == Cardinality({i \in 1 .. k : plan[i].disc})

\* The new rows take the media sequences from base on; each counts the
\* discontinuities before it, starting from seq.
Insert(w, plan, base, seq) ==
  journal' = [m \in DOMAIN journal \cup (base .. (base + Len(plan) - 1)) |->
    IF m \in DOMAIN journal THEN journal[m]
    ELSE LET i == m - base + 1 IN
         [starts |-> plan[i].starts, ends |-> plan[i].ends, disc |-> plan[i].disc,
          discSeq |-> seq + Marks(plan, i - 1), fence |-> w.fence,
          schedule |-> w.schedule, prov |-> w.prov]]

\* The first append takes media sequence 0.  Mutant: it forgets the + 1.
AppendFirstAtTail(w) ==
  /\ DOMAIN journal = {}
  /\ ValidIntervals(w.plan, None)
  /\ Insert(w, w.plan, -1, 0)

AppendFirst(w) ==
  /\ DOMAIN journal = {}
  /\ ValidIntervals(w.plan, None)
  /\ Insert(w, w.plan, 0, 0)

\* The discontinuity sequence after a row.  Mutant: its own mark is not counted.
SeqAfterSame(row) == row.discSeq

SeqAfter(row) == row.discSeq + IF row.disc THEN 1 ELSE 0

\* A later append goes on from the tail.
AppendAfter(w, t) ==
  LET plan == Marked(w.plan, t, w.prov) IN
  /\ IsTail(t)
  /\ ValidIntervals(plan, journal[t].ends)
  /\ Insert(w, plan, t + 1, SeqAfter(journal[t]))

\* appendTvJournalSegments commits, and notes its fence in the playout state.
AppendSegments(h) ==
  /\ pc[h] = "append"
  /\ StationAccepts(work[h])
  /\ Valid(h, work[h].fence)
  /\ AppendFirst(work[h]) \/ \E t \in DOMAIN journal : AppendAfter(work[h], t)
  /\ observed' = work[h].fence
  /\ EndReconcile(h)
  /\ UNCHANGED <<commands, now, station, lease, stopping, runtime>>

\* It throws: the station or the lease changed, or the tail moved.
AppendRejected(h) ==
  /\ pc[h] = "append"
  /\ \/ ~StationAccepts(work[h])
     \/ ~Valid(h, work[h].fence)
     \/ \E t \in DOMAIN journal :
          /\ IsTail(t)
          /\ ~ValidIntervals(Marked(work[h].plan, t, work[h].prov),
                             journal[t].ends)
  /\ EndReconcile(h)
  /\ UNCHANGED <<commands, now, station, lease, observed, journal, stopping, runtime>>
-----------------------------------------------------------------------------
(* Timers, signals, crashes.                                               *)

\* armLeaseExpiry's timer, on the arbiter's own clock: stopRuntime, no release.
\* It interleaves with a reconciliation under way.
LeaseTimer(h) ==
  /\ runtime[h].fence # 0 /\ pc[h] # "gone"
  /\ now + Skew >= runtime[h].until
  /\ runtime' = [runtime EXCEPT ![h] = NoRuntime]
  /\ UNCHANGED <<commands, now, station, lease, observed, journal, pc, stopping, work>>

\* SIGTERM or SIGINT: shuttingDown is set first.  It may find the loop asleep,
\* or in a round that read the desired stations and has yet to acquire ...
Signal(h) ==
  /\ pc[h] # "gone" /\ stopping[h] = "no"
  /\ stopping' = [stopping EXCEPT ![h] = "signalled"]
  /\ pc' = pc \/ (pc[h] = "idle" /\ pc' = [pc EXCEPT ![h] = "gone"])
  /\ UNCHANGED <<commands, now, station, lease, observed, journal, runtime, work>>

\* ... and, the heartbeat stopped, the runtimes there are then are released.
ReleaseRuntimes(h) ==
  /\ stopping[h] = "signalled"
  /\ stopping' = [stopping EXCEPT ![h] = "done"]
  /\ IF runtime[h].fence = 0 THEN UNCHANGED lease
     ELSE Release_(h, runtime[h].fence)
  /\ runtime' = [runtime EXCEPT ![h] = NoRuntime]
  /\ UNCHANGED <<commands, now, station, observed, journal, pc, work>>

\* The process dies; whatever statement it had sent is done or never will be.
Crash(h) ==
  /\ now <= LastCrash
  /\ pc[h] # "gone" \/ stopping[h] = "signalled"
  /\ pc' = [pc EXCEPT ![h] = "gone"]
  /\ stopping' = [stopping EXCEPT ![h] = "died"]
  /\ runtime' = [runtime EXCEPT ![h] = NoRuntime]
  /\ work' = [work EXCEPT ![h] = NoWork]
  /\ UNCHANGED <<commands, now, station, lease, observed, journal>>
-----------------------------------------------------------------------------
(* What the rest of the system does to the rows playout reads.             *)

Command == commands < MaxCommands /\ commands' = commands + 1

\* An immediate publication or a due promotion: another loop, from epoch e.
ChangeSchedule ==
  /\ Command
  /\ OnAir
  /\ \E s \in Schedule, e \in Epochs :
       station' = [station EXCEPT !.schedule = s, !.epoch = e]
  /\ UNCHANGED <<now, lease, observed, journal, arbiter>>

\* Activation of a calendar release.
ActivateRelease ==
  /\ Command
  /\ station.life \in {"RUNNING", "STOPPED"}
  /\ \E r \in Release : station' = [station EXCEPT !.release = r]
  /\ UNCHANGED <<now, lease, observed, journal, arbiter>>

StopStation ==
  /\ Command
  /\ OnAir
  /\ station' = [station EXCEPT !.life = "STOPPED"]
  /\ UNCHANGED <<now, lease, observed, journal, arbiter>>

\* restart or resume; under a calendar the epoch is kept.
StartStation ==
  /\ station.life = "STOPPED"
  /\ IF station.release = None
     THEN \E e \in Epochs :
            station' = [station EXCEPT !.life = "RUNNING", !.epoch = e]
     ELSE Ready(station.release) /\ station' = [station EXCEPT !.life = "RUNNING"]
  /\ UNCHANGED <<commands, now, lease, observed, journal, arbiter>>

DeleteStation ==
  /\ Command
  /\ station.life \in {"RUNNING", "STOPPED"}
  /\ station' = [station EXCEPT !.life = "DELETED"]
  /\ UNCHANGED <<now, lease, observed, journal, arbiter>>

RestoreStation ==
  /\ station.life = "DELETED"
  /\ station' = [station EXCEPT !.life = "STOPPED"]
  /\ UNCHANGED <<commands, now, lease, observed, journal, arbiter>>

\* purge_tv_station_runtime: the journal, the state and the lease go.
\* Mutant: the state stays.
PurgeStationKeepsState ==
  /\ station.life = "DELETED"
  /\ station' = [station EXCEPT !.life = "PURGED"]
  /\ journal' = [m \in {} |-> None]
  /\ lease' = [holder |-> None, fence |-> 0, until |-> 0]
  /\ UNCHANGED <<commands, now, observed, arbiter>>

\* Mutant: the station's row stays, and may be restored.
PurgeStationRestorable ==
  /\ station.life = "DELETED"
  /\ journal' = [m \in {} |-> None]
  /\ observed' = 0
  /\ lease' = [holder |-> None, fence |-> 0, until |-> 0]
  /\ UNCHANGED <<commands, now, station, arbiter>>

PurgeStation ==
  /\ station.life = "DELETED"
  /\ station' = [station EXCEPT !.life = "PURGED"]
  /\ journal' = [m \in {} |-> None]
  /\ observed' = 0
  /\ lease' = [holder |-> None, fence |-> 0, until |-> 0]
  /\ UNCHANGED <<commands, now, arbiter>>

\* prune_tv_segment_journal: rows past retention, never the newest one.
\* Mutant: the newest one too.
PrunableAll == {m \in DOMAIN journal : journal[m].ends < now - Retention}

Prunable == {m \in DOMAIN journal :
               journal[m].ends < now - Retention /\ ~IsTail(m)}

\* One run deletes the oldest of them, up to its LIMIT.
PruneJournal ==
  /\ \E last \in Prunable :
       journal' = [m \in DOMAIN journal \ {k \in Prunable : k <= last} |->
                     journal[m]]
  /\ UNCHANGED <<commands, now, station, lease, observed, arbiter>>

Tick ==
  /\ now < MaxTime
  /\ now' = now + 1
  /\ UNCHANGED <<commands, station, lease, observed, journal, arbiter>>
-----------------------------------------------------------------------------
ArbiterStep(h) ==
  \/ DropStation(h) \/ Acquire(h) \/ ReuseRuntime(h) \/ ClaimAcquired(h)
  \/ Renew(h) \/ ClaimRenewed(h) \/ ReadSource(h) \/ PlanAhead(h) \/ AppendSegments(h)
  \/ AppendRejected(h) \/ ReleaseRuntimes(h)

Event(h) == LeaseTimer(h) \/ Signal(h) \/ Crash(h)

Control ==
  \/ ChangeSchedule \/ ActivateRelease \/ StopStation \/ StartStation
  \/ DeleteStation \/ RestoreStation \/ PurgeStation \/ PruneJournal

Next == (\E h \in Holder : ArbiterStep(h) \/ Event(h)) \/ Control \/ Tick

Spec == Init /\ [][Next]_vars

\* The loop of main never ends while the process lives, and time passes.
\* Nothing is assumed of commands, timers, signals, crashes or pruning.
LiveSpec ==
  Spec /\ WF_vars(Tick) /\ \A h \in Holder : WF_vars(ArbiterStep(h))
-----------------------------------------------------------------------------
(* Safety.                                                                 *)

\* A playlist is a window of consecutive rows, and lib/tv-hls.ts refuses to
\* serve one that is not: whatever was appended, by whom, and pruned, the rows
\* kept have consecutive media sequences, each row's discontinuity sequence
\* counts the marks before it, no two overlap and a gap is marked.
WindowServable ==
  /\ \A a, b \in DOMAIN journal : a .. b \subseteq DOMAIN journal
  /\ \A m \in DOMAIN journal : m + 1 \in DOMAIN journal =>
       LET r == journal[m]
           q == journal[m + 1]
       IN  /\ q.discSeq = SeqAfter(r)
           /\ q.starts >= r.ends
           /\ q.starts > r.ends => q.disc

\* The fence orders the owners: rows carry non-decreasing fences, none newer
\* than the lease, and the playout state never names a later owner than it.
FencesOrdered ==
  /\ \A a, b \in DOMAIN journal : a <= b => journal[a].fence <= journal[b].fence
  /\ \A m \in DOMAIN journal : journal[m].fence <= lease.fence
  /\ observed <= lease.fence

\* No two processes ever act for the same fence, however late, whatever the
\* lease row says by then.
FenceUnique ==
  \A g, h \in Holder :
    /\ work[g].fence # 0 /\ work[g].fence = work[h].fence => g = h
    /\ runtime[g].fence # 0 /\ runtime[g].fence = work[h].fence => g = h

\* Players keep what they were served: a media sequence is never issued again,
\* a kept row never changes, and only a purge removes the newest row.
KeepsServed ==
  /\ \A m \in DOMAIN journal' \cap DOMAIN journal : journal'[m] = journal[m]
  /\ \A m \in DOMAIN journal' \ DOMAIN journal : \A a \in DOMAIN journal : a < m
  /\ DOMAIN journal' = {} /\ DOMAIN journal # {} => station'.life = "PURGED"
NeverReissued == [][KeepsServed]_journal

\* An arbiter that was shut down, and did not die of it, leaves no lease its
\* successor would have to wait out: whatever it was acquiring, claiming or
\* renewing when the signal came, its last lease was given back or its own
\* timer, at most Skew early, had already dropped it.
HandedOver ==
  \A h \in Holder :
    pc[h] = "gone" /\ stopping[h] = "done" /\ lease.holder = h
      => lease.until <= now + Skew

\* A change of what the calendar plays is marked for the player.
SwitchMarked ==
  \A m \in DOMAIN journal : m + 1 \in DOMAIN journal =>
    (journal[m].prov # journal[m + 1].prov => journal[m + 1].disc)

\* A row of a calendar release plays what its release says of the row's own
\* start, however long after the plan it was appended and however far ahead.
CalendarHonoured ==
  \A m \in DOMAIN journal :
    LET row == journal[m] IN
    row.prov.release # None =>
      IF row.prov.occurrence = None
      THEN ActiveAt(row.prov.release, row.starts) = {}
      ELSE \E o \in ActiveAt(row.prov.release, row.starts) :
             /\ Rules(o, row.prov.release, row.starts)
             /\ o.id = row.prov.occurrence /\ o.schedule = row.schedule
             /\ o.kind = "PROGRAM"
-----------------------------------------------------------------------------
(* The abstract journal.                                                   *)

\* A row as a player sees it, and its fence.
Served(row) == [starts |-> row.starts, ends |-> row.ends, disc |-> row.disc,
                discSeq |-> row.discSeq, fence |-> row.fence]

Log == INSTANCE SegmentLog WITH
  rows <- [m \in DOMAIN journal |-> Served(journal[m])],
  owner <- lease.fence,
  closed <- station.life = "PURGED"

\* The leases, the plans made ahead of time and the appends of all arbiters
\* together are one log that one owner at a time extends at its end: through
\* every take-over, late append, prune and purge, to the players' eyes.
ImplementsLog == Log!Spec
-----------------------------------------------------------------------------
(* Liveness.                                                               *)

\* A station that stays on air is played to the end of the clock by any one
\* arbiter that stays up, whatever leases others took and died holding (with
\* LastCrash + LeaseTicks <= MaxTime: the last such lease still runs out).
StaysOnAir ==
  \A h \in Holder :
    []OnAir /\ [](stopping[h] = "no")
      => <>(\E t \in DOMAIN journal : journal[t].ends >= MaxTime + Ahead)
=============================================================================
