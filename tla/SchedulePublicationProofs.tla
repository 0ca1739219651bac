---------------------- MODULE SchedulePublicationProofs ----------------------
(* What holds of SchedulePublication for any snapshots, any lengths of loop, *)
(* any playlist and any bounds.                                              *)
EXTENDS SchedulePublication, TLAPS

(***************************************************************************)
(* The inductive invariant, as properties of a row: the station's now, and *)
(* the copy a transaction of the media worker read of it earlier.          *)
(***************************************************************************)

Looped(st) ==
  /\ st.onAir => st.active # None /\ st.started # None
  /\ st.pending # None => st.active # None
  /\ st.pendingAt # None => st.pending # None

\* A saved position is one the loop had reached, since time began, at time t.
Saved(st, t) ==
  st.paused # None =>
    /\ ~st.onAir
    /\ st.active # None
    /\ st.paused.schedule = st.active.id
    /\ st.paused.offset < st.active.period
    /\ st.paused.cycle * st.active.period + st.paused.offset <= t

\* A snapshot does not wait behind itself.
Distinct(st) == st.pending # None => st.pending # st.active

Sound(st, t) == st \in Station /\ Looped(st) /\ Saved(st, t) /\ Distinct(st)

\* A stopped station keeps the instant it had, for a calendar start to return to.
AtBoundary(st) ==
  st.pendingAt # None =>
    /\ st.started # None
    /\ st.pendingAt > st.started
    /\ (st.pendingAt - st.started) % st.active.period = 0

\* The newest snapshot of a row is the list l, when there is something to publish.
NewestOf(st) == IF st.pending # None THEN st.pending ELSE st.active
Follows(st, l, ready) ==
  st.auto /\ l.items # {} /\ l.items \subseteq ready =>
    NewestOf(st) # None /\ NewestOf(st).version = l.version

SeenLooped == \A v \in Video : worker[v] # Idle => Looped(worker[v].seen)

IInv == TypeOK /\ Sound(station, now) /\ SeenLooped

\* What holds besides where every publication takes the lock.
NoWorker == \A v \in Video : worker[v] = Idle
LockedInv == IInv /\ NoWorker /\ AtBoundary(station) /\ Follows(station, list, delivered)

(***************************************************************************)
(* Arithmetic of cycles.                                                   *)
(***************************************************************************)

\* Quotient and remainder make up the dividend.
LEMMA Division ==
  ASSUME NEW a \in Nat, NEW p \in Nat \ {0}
  PROVE  /\ a \div p \in Nat /\ a % p \in 0 .. (p - 1)
         /\ (a \div p) * p + (a % p) = a
<1>1. p \in Int /\ p > 0
  OBVIOUS
<1>2. a = p * (a \div p) + (a % p)
  BY <1>1
<1>3. a \div p \in Nat
  BY <1>1
<1>4. a % p \in 0 .. (p - 1)
  BY <1>1
<1>5. p * (a \div p) = (a \div p) * p
  BY <1>3
<1> QED
  BY <1>2, <1>3, <1>4, <1>5

\* They are the only ones that do.
LEMMA DivisionUnique ==
  ASSUME NEW p \in Int, p > 0, NEW c \in Int, NEW q \in Int,
         NEW o \in 0 .. (p - 1), NEW r \in 0 .. (p - 1),
         c * p + o = q * p + r
  PROVE  c = q /\ o = r
<1>1. ~(c >= q + 1)
  <2>1. SUFFICES ASSUME c >= q + 1 PROVE FALSE
    OBVIOUS
  <2>2. c * p >= (q + 1) * p
    BY <2>1
  <2>3. (q + 1) * p = q * p + p
    OBVIOUS
  <2>4. c * p \in Int /\ q * p \in Int
    OBVIOUS
  <2> QED
    BY <2>2, <2>3, <2>4
<1>2. ~(q >= c + 1)
  <2>1. SUFFICES ASSUME q >= c + 1 PROVE FALSE
    OBVIOUS
  <2>2. q * p >= (c + 1) * p
    BY <2>1
  <2>3. (c + 1) * p = c * p + p
    OBVIOUS
  <2>4. c * p \in Int /\ q * p \in Int
    OBVIOUS
  <2> QED
    BY <2>2, <2>3, <2>4
<1>3. c = q
  BY <1>1, <1>2
<1> QED
  BY <1>3

\* A position is read back from the time it took to reach it.
LEMMA DivisionBack ==
  ASSUME NEW c \in Nat, NEW p \in Nat \ {0}, NEW o \in 0 .. (p - 1)
  PROVE  (c * p + o) \div p = c /\ (c * p + o) % p = o
<1> DEFINE a == c * p + o
           q == a \div p
           r == a % p
<1>1. a \in Nat
  OBVIOUS
<1>2. p \in Int /\ p > 0
  OBVIOUS
<1>3. q \in Int /\ r \in 0 .. (p - 1) /\ c * p + o = q * p + r
  <2> HIDE DEF a
  <2>1. a \div p \in Nat /\ a % p \in 0 .. (p - 1) /\ (a \div p) * p + (a % p) = a
    BY <1>1, Division
  <2> QED
    BY <2>1 DEF a
<1>4. c = q /\ o = r
  <2> HIDE DEF a, q, r
  <2>1. c \in Int
    OBVIOUS
  <2> QED
    BY <1>2, <1>3, <2>1, DivisionUnique
<1> QED
  BY <1>4

\* Products of naturals.
LEMMA Multiple ==
  ASSUME NEW n \in Nat, NEW p \in Nat \ {0}
  PROVE  n * p \in Nat /\ (n + 1) * p > 0 /\ (n + 1) * p \in Nat /\ ((n + 1) * p) % p = 0
<1>1. n + 1 \in Nat
  OBVIOUS
<1>2. n * p \in Nat /\ (n + 1) * p > 0 /\ (n + 1) * p \in Nat
  BY SMTT(30)
<1>3. \A m \in Nat : (m * p) % p = 0
  BY SMTT(30)
<1> QED
  BY <1>1, <1>2, <1>3

\* nextLoopAt returns an end of a cycle, after the start.
LEMMA NextLoopBoundary ==
  ASSUME NEW start \in Nat, NEW t \in Nat, NEW p \in Nat \ {0}
  PROVE  /\ NextLoopAt(start, t, p) \in Nat
         /\ NextLoopAt(start, t, p) > start
         /\ (NextLoopAt(start, t, p) - start) % p = 0
<1> DEFINE n == Elapsed(start, t) \div p
           m == (n + 1) * p
<1>1. n \in Nat
  <2>1. Elapsed(start, t) \in Nat
    BY DEF Elapsed
  <2> QED
    BY <2>1, Division
<1>2. m \in Nat /\ m > 0 /\ m % p = 0
  BY <1>1, Multiple
<1>3. NextLoopAt(start, t, p) = start + m
  BY DEF NextLoopAt
<1> HIDE DEF m
<1>4. (start + m) - start = m
  BY <1>2
<1> QED
  BY <1>2, <1>3, <1>4

(***************************************************************************)
(* What the steps of a transaction do to a sound row.                      *)
(***************************************************************************)

\* A snapshot is a row of its own, and not NULL.
LEMMA SnapshotType ==
  ASSUME NEW id \in ScheduleId, NEW l \in Playlist
  PROVE  /\ Snapshot(id, l) \in Schedule /\ Snapshot(id, l) # None
         /\ Snapshot(id, l).id = id /\ Snapshot(id, l).version = l.version
<1>1. Snapshot(id, l) \in Schedule
  BY DEF Snapshot, Schedule, Playlist
<1>2. Snapshot(id, l) # None
  BY <1>1, ConstantsAssumption DEF Schedule
<1> QED
  BY <1>1, <1>2 DEF Snapshot

\* The instant a snapshot is queued for is an instant, or none at all.
LEMMA KeptActivationType ==
  ASSUME NEW seen \in Station, NEW t \in Nat
  PROVE  KeptActivation(seen, t) \in Nat \cup {None}
<1>1. CASE seen.pending # None /\ seen.pendingAt # None
  BY <1>1 DEF KeptActivation, Station
<1>2. CASE ~(seen.pending # None /\ seen.pendingAt # None)
  <2>1. CASE seen.onAir /\ seen.started # None /\ seen.active # None
    <3>1. seen.started \in Nat /\ seen.active \in Schedule
      BY <2>1 DEF Station
    <3>2. seen.active.period \in Nat \ {0}
      BY <3>1, ConstantsAssumption DEF Schedule
    <3>3. NextLoopAt(seen.started, t, seen.active.period) \in Nat
      BY <3>1, <3>2, NextLoopBoundary
    <3> QED
      BY <1>2, <2>1, <3>3 DEF KeptActivation, ActivationFor
  <2>2. CASE ~(seen.onAir /\ seen.started # None /\ seen.active # None)
    BY <1>2, <2>2 DEF KeptActivation, ActivationFor
  <2> QED
    BY <2>1, <2>2
<1> QED
  BY <1>1, <1>2

\* On a sound row, it is an end of a cycle of the loop on air.
LEMMA KeptActivationBoundary ==
  ASSUME NEW st \in Station, NEW t \in Nat, Looped(st), AtBoundary(st),
         KeptActivation(st, t) # None
  PROVE  /\ st.started # None
         /\ KeptActivation(st, t) > st.started
         /\ (KeptActivation(st, t) - st.started) % st.active.period = 0
<1>1. CASE st.pending # None /\ st.pendingAt # None
  BY <1>1 DEF KeptActivation, AtBoundary
<1>2. CASE ~(st.pending # None /\ st.pendingAt # None)
  <2>1. st.onAir /\ st.started # None /\ st.active # None
    BY <1>2 DEF KeptActivation, ActivationFor
  <2>2. st.started \in Nat /\ st.active \in Schedule
    BY <2>1 DEF Station
  <2>3. st.active.period \in Nat \ {0}
    BY <2>2, ConstantsAssumption DEF Schedule
  <2>4. KeptActivation(st, t) = NextLoopAt(st.started, t, st.active.period)
    BY <1>2, <2>1 DEF KeptActivation, ActivationFor
  <2>5. /\ NextLoopAt(st.started, t, st.active.period) > st.started
        /\ (NextLoopAt(st.started, t, st.active.period) - st.started) % st.active.period = 0
    BY <2>2, <2>3, NextLoopBoundary
  <2> QED
    BY <2>1, <2>4, <2>5
<1> QED
  BY <1>1, <1>2

\* Promotion leaves a row sound, and its newest snapshot the newest.
LEMMA PromotedSound ==
  ASSUME NEW st, Sound(st, now)
  PROVE  /\ Sound(Promoted(st), now)
         /\ AtBoundary(st) => AtBoundary(Promoted(st))
         /\ NewestOf(Promoted(st)) = NewestOf(st)
         /\ Promoted(st).auto = st.auto /\ Promoted(st).onAir = st.onAir
         /\ Promoted(st).calendar = st.calendar
<1>1. CASE ~Due(st)
  BY <1>1 DEF Promoted
<1>2. CASE Due(st)
  <2> DEFINE pr == [st EXCEPT !.active = st.pending, !.started = st.pendingAt,
                              !.pending = None, !.pendingAt = None]
  <2>1. Promoted(st) = pr
    BY <1>2 DEF Promoted
  <2>2. st \in Station /\ st.onAir /\ st.pending # None /\ st.pendingAt # None /\ st.paused = None
    BY <1>2 DEF Due, Sound, Saved
  <2>3. pr \in Station
    BY <2>2 DEF Station
  <2>4. /\ pr.active = st.pending /\ pr.started = st.pendingAt /\ pr.pending = None
        /\ pr.pendingAt = None /\ pr.onAir = st.onAir /\ pr.auto = st.auto
        /\ pr.calendar = st.calendar /\ pr.paused = st.paused
    BY <2>2 DEF Station
  <2> HIDE DEF pr
  <2>5. Sound(pr, now) /\ AtBoundary(pr)
    BY <2>2, <2>3, <2>4 DEF Sound, Looped, Saved, Distinct, AtBoundary
  <2>6. NewestOf(pr) = NewestOf(st)
    BY <2>2, <2>4 DEF NewestOf
  <2> QED
    BY <2>1, <2>4, <2>5, <2>6
<1> QED
  BY <1>1, <1>2

\* Queueing behind a loop leaves a row sound.
LEMMA QueuedSound ==
  ASSUME NEW st, NEW t \in Nat, Sound(st, t), NEW seen \in Station, NEW at \in Nat,
         NEW snapshot \in Schedule, snapshot # None,
         st.active # None, st.active # snapshot
  PROVE  /\ Sound(Queued(st, seen, snapshot, at), t)
         /\ Queued(st, seen, snapshot, at).onAir = st.onAir
         /\ Queued(st, seen, snapshot, at).active = st.active
         /\ Queued(st, seen, snapshot, at).started = st.started
         /\ Queued(st, seen, snapshot, at).pending = snapshot
         /\ Queued(st, seen, snapshot, at).pendingAt = KeptActivation(seen, at)
<1> DEFINE q == Queued(st, seen, snapshot, at)
<1>1. KeptActivation(seen, at) \in Nat \cup {None}
  BY KeptActivationType
<1>2. st \in Station
  BY DEF Sound
<1>3. q \in Station
  BY <1>1, <1>2 DEF Queued, Station
<1>4. /\ q.active = st.active /\ q.started = st.started /\ q.pending = snapshot
      /\ q.pendingAt = KeptActivation(seen, at) /\ q.onAir = st.onAir /\ q.paused = st.paused
  BY <1>2 DEF Queued, Station
<1> HIDE DEF q
<1>5. Sound(q, t)
  BY <1>3, <1>4 DEF Sound, Looped, Saved, Distinct
<1> QED
  BY <1>4, <1>5 DEF q

\* So does replacing the loop at once.
LEMMA ActivatedSound ==
  ASSUME NEW st, NEW t \in Nat, Sound(st, t), NEW seen \in Station, NEW at \in Nat,
         NEW snapshot \in Schedule, snapshot # None, st.onAir = seen.onAir
  PROVE  /\ Sound(Activated(st, seen, snapshot, at), t)
         /\ Activated(st, seen, snapshot, at).onAir = st.onAir
         /\ Activated(st, seen, snapshot, at).active = snapshot
         /\ Activated(st, seen, snapshot, at).started = IF st.onAir THEN at ELSE None
         /\ Activated(st, seen, snapshot, at).pending = None
         /\ Activated(st, seen, snapshot, at).pendingAt = None
<1> DEFINE q == Activated(st, seen, snapshot, at)
<1>2. st \in Station
  BY DEF Sound
<1>3. q \in Station
  BY <1>2 DEF Activated, Station
<1>4. /\ q.active = snapshot /\ q.started = (IF st.onAir THEN at ELSE None)
      /\ q.pending = None /\ q.pendingAt = None /\ q.onAir = st.onAir /\ q.paused = None
  BY <1>2 DEF Activated, Station
<1> HIDE DEF q
<1>5. Sound(q, t)
  BY <1>3, <1>4, ConstantsAssumption DEF Sound, Looped, Saved, Distinct
<1> QED
  BY <1>4, <1>5 DEF q

\* And so does withdrawing what waits.
LEMMA ClearedSound ==
  ASSUME NEW st, NEW t \in Nat, Sound(st, t), NEW seen
  PROVE  /\ Sound(Cleared(st, seen), t)
         /\ Cleared(st, seen).onAir = st.onAir
         /\ Cleared(st, seen).active = st.active
         /\ Cleared(st, seen).started = st.started
         /\ AtBoundary(st) => AtBoundary(Cleared(st, seen))
         /\ Cleared(st, seen).pendingAt \in {st.pendingAt, None}
<1> DEFINE q == [st EXCEPT !.pending = None, !.pendingAt = None]
<1>1. st \in Station
  BY DEF Sound
<1>2. q \in Station
  BY <1>1 DEF Station
<1>3. /\ q.active = st.active /\ q.started = st.started /\ q.pending = None
      /\ q.pendingAt = None /\ q.onAir = st.onAir /\ q.paused = st.paused
  BY <1>1 DEF Station
<1>4. Cleared(st, seen) \in {st, q}
  BY DEF Cleared
<1> HIDE DEF q
<1>5. Sound(q, t) /\ AtBoundary(q)
  BY <1>2, <1>3 DEF Sound, Looped, Saved, Distinct, AtBoundary
<1> QED
  BY <1>3, <1>4, <1>5

(***************************************************************************)
(* Publication, by whoever read the row "seen" and updates the row "st".   *)
(***************************************************************************)

Publishes(seen, l, ready) == seen.auto /\ l.items # {} /\ l.items \subseteq ready

\* Publication leaves a row sound when the loop is still the one that was read,
\* and replaces no loop that is on air.
LEMMA PublishSound ==
  ASSUME NEW st, NEW t \in Nat, Sound(st, t),
         NEW seen \in Station, Looped(seen), NEW at \in Nat,
         NEW l \in Playlist, NEW ready, NEW id \in ScheduleId,
         Publishes(seen, l, ready) => st.active = seen.active,
         st.active # None => st.active.id # id
  PROVE  /\ Sound(PublishAfter(st, seen, l, ready, id, at), t)
         /\ PublishAfter(st, seen, l, ready, id, at).onAir = st.onAir
         /\ st.onAir =>
              /\ PublishAfter(st, seen, l, ready, id, at).active = st.active
              /\ PublishAfter(st, seen, l, ready, id, at).started = st.started
<1> DEFINE s == Snapshot(id, l)
           q == PublishAfter(st, seen, l, ready, id, at)
<1>1. s \in Schedule /\ s # None /\ s.id = id
  BY SnapshotType
<1>2. st \in Station
  BY DEF Sound
<1> HIDE DEF s
<1>3. CASE ~seen.auto \/ (l.items # {} /\ ~(l.items \subseteq ready))
  BY <1>3 DEF PublishAfter
<1>4. CASE seen.auto /\ l.items = {}
  <2>1. q = Cleared(st, seen)
    BY <1>4 DEF PublishAfter
  <2> QED
    BY <2>1, ClearedSound
<1>5. CASE Publishes(seen, l, ready)
  <2>1. q = IF Loops(seen) THEN Queued(st, seen, s, at) ELSE Activated(st, seen, s, at)
    BY <1>5 DEF PublishAfter, Publishes, s
  <2>2. st.active = seen.active
    BY <1>5
  <2>3. CASE Loops(seen)
    <3>1. st.active # None /\ st.active # s
      BY <1>1, <2>2, <2>3 DEF Loops
    <3>2. q = Queued(st, seen, s, at)
      BY <2>1, <2>3
    <3> HIDE DEF q
    <3>3. /\ Sound(Queued(st, seen, s, at), t)
          /\ Queued(st, seen, s, at).onAir = st.onAir
          /\ Queued(st, seen, s, at).active = st.active
          /\ Queued(st, seen, s, at).started = st.started
      <4>1. s \in Schedule /\ s # None
        BY <1>1
      <4>2. Sound(Queued(st, seen, s, at), t)
        BY <4>1, <3>1, QueuedSound, Zenon
      <4>3. Queued(st, seen, s, at).onAir = st.onAir
        BY <4>1, <3>1, QueuedSound
      <4>4. Queued(st, seen, s, at).active = st.active
        BY <4>1, <3>1, QueuedSound
      <4>5. Queued(st, seen, s, at).started = st.started
        BY <4>1, <3>1, QueuedSound
      <4> QED
        BY <4>2, <4>3, <4>4, <4>5
    <3> QED
      BY <3>2, <3>3 DEF q
  <2>4. CASE ~Loops(seen)
    <3>1. seen.active = None /\ ~seen.onAir
      BY <2>4 DEF Loops, Looped
    <3>2. ~st.onAir
      BY <2>2, <3>1 DEF Sound, Looped
    <3>3. st.onAir = seen.onAir
      BY <1>2, <3>1, <3>2 DEF Station
    <3>4. q = Activated(st, seen, s, at)
      BY <2>1, <2>4
    <3> HIDE DEF q
    <3>5. /\ Sound(Activated(st, seen, s, at), t)
          /\ Activated(st, seen, s, at).onAir = st.onAir
      BY <1>1, <3>3, ActivatedSound
    <3> QED
      BY <3>2, <3>4, <3>5 DEF q
  <2> QED
    BY <2>3, <2>4
<1> QED
  BY <1>3, <1>4, <1>5 DEF Publishes

\* Under the lock, the row updated is the row read: what waits does so for the end of
\* a cycle, for the same one as before, and what was published is the list.
LEMMA PublishLocked ==
  ASSUME NEW st, NEW t \in Nat, Sound(st, t), AtBoundary(st),
         NEW l \in Playlist, NEW ready, NEW id \in ScheduleId,
         st.active # None => st.active.id # id
  PROVE  /\ AtBoundary(PublishAfter(st, st, l, ready, id, t))
         /\ Follows(PublishAfter(st, st, l, ready, id, t), l, ready)
         /\ st.pendingAt # None =>
              PublishAfter(st, st, l, ready, id, t).pendingAt \in {st.pendingAt, None}
<1> DEFINE s == Snapshot(id, l)
           q == PublishAfter(st, st, l, ready, id, t)
<1>1. s \in Schedule /\ s # None /\ s.id = id /\ s.version = l.version
  BY SnapshotType
<1>2. st \in Station /\ Looped(st)
  BY DEF Sound
<1> HIDE DEF s
<1>3. CASE ~st.auto \/ (l.items # {} /\ ~(l.items \subseteq ready))
  BY <1>3 DEF PublishAfter, Follows
<1>4. CASE st.auto /\ l.items = {}
  <2>1. q = Cleared(st, st)
    BY <1>4 DEF PublishAfter
  <2>2. Follows(q, l, ready)
    BY <1>4 DEF Follows
  <2> HIDE DEF q
  <2>3. AtBoundary(q) /\ q.pendingAt \in {st.pendingAt, None}
    BY <2>1, ClearedSound
  <2> QED
    BY <2>2, <2>3 DEF q
<1>5. CASE Publishes(st, l, ready)
  <2>1. q = IF Loops(st) THEN Queued(st, st, s, t) ELSE Activated(st, st, s, t)
    BY <1>5 DEF PublishAfter, Publishes, s
  <2>3. CASE Loops(st)
    <3>1. st.active # None /\ st.active # s
      BY <1>1, <2>3 DEF Loops
    <3>2. q = Queued(st, st, s, t)
      BY <2>1, <2>3
    <3> HIDE DEF q
    <3>3. /\ q.onAir = st.onAir /\ q.active = st.active /\ q.started = st.started
          /\ q.pending = s /\ q.pendingAt = KeptActivation(st, t)
      <4>1. /\ Queued(st, st, s, t).onAir = st.onAir
            /\ Queued(st, st, s, t).active = st.active
            /\ Queued(st, st, s, t).started = st.started
            /\ Queued(st, st, s, t).pending = s
            /\ Queued(st, st, s, t).pendingAt = KeptActivation(st, t)
        BY <1>1, <1>2, <3>1, QueuedSound
      <4> QED
        BY <3>2, <4>1
    <3>4. AtBoundary(q)
      BY <1>2, <3>3, KeptActivationBoundary DEF AtBoundary
    <3>5. Follows(q, l, ready)
      BY <1>1, <3>3 DEF Follows, NewestOf
    <3>6. st.pendingAt # None => q.pendingAt = st.pendingAt
      BY <1>2, <3>3 DEF KeptActivation, Looped
    <3> QED
      BY <3>4, <3>5, <3>6 DEF q
  <2>4. CASE ~Loops(st)
    <3>1. q = Activated(st, st, s, t)
      BY <2>1, <2>4
    <3> HIDE DEF q
    <3>2. q.active = s /\ q.pending = None /\ q.pendingAt = None
      <4>1. /\ Activated(st, st, s, t).active = s
            /\ Activated(st, st, s, t).pending = None
            /\ Activated(st, st, s, t).pendingAt = None
        BY <1>1, <1>2, ActivatedSound
      <4> QED
        BY <3>1, <4>1
    <3> QED
      BY <1>1, <3>2 DEF AtBoundary, Follows, NewestOf, q
  <2> QED
    BY <2>3, <2>4
<1> QED
  BY <1>3, <1>4, <1>5 DEF Publishes

(***************************************************************************)
(* The routes: every step keeps the row sound, and says what becomes of a  *)
(* loop that is on air.                                                    *)
(***************************************************************************)

\* The fresh id of a snapshot is no id of the row, promoted or not.
LEMMA FreshId ==
  ASSUME NEW id \in NewIds, Sound(station, now)
  PROVE  /\ id \in ScheduleId
         /\ station.active # None => station.active.id # id
         /\ station.pending # None => station.pending.id # id
         /\ Promoted(station).active # None => Promoted(station).active.id # id
<1> DEFINE Refers(st) == {x.id : x \in {st.active, st.pending} \ {None}}
                           \cup {p.schedule : p \in {st.paused} \ {None}}
<1>1. id \in ScheduleId /\ id \notin InUse
  BY DEF NewIds
<1>2. id \notin Refers(station)
  BY <1>1 DEF InUse
<1>3. /\ station.active # None => station.active.id # id
      /\ station.pending # None => station.pending.id # id
  BY <1>2
<1>4. CASE ~Due(station)
  BY <1>1, <1>3, <1>4 DEF Promoted
<1>5. CASE Due(station)
  <2>1. Promoted(station).active = station.pending
    BY <1>5 DEF Promoted, Sound, Station
  <2> QED
    BY <1>1, <1>3, <1>5, <2>1 DEF Due
<1> QED
  BY <1>4, <1>5

\* What promotion does to a loop on air.
LEMMA PromotedLoop ==
  ASSUME NEW st, Sound(st, now)
  PROVE  \/ /\ ~Due(st) /\ Promoted(st) = st
         \/ /\ Due(st) /\ st.onAir
            /\ st.pending # None /\ st.pendingAt # None /\ st.pending # st.active
            /\ Promoted(st).active = st.pending
            /\ Promoted(st).started = st.pendingAt
            /\ Promoted(st).pendingAt = None /\ Promoted(st).pending = None
<1>1. CASE ~Due(st)
  BY <1>1 DEF Promoted
<1>2. CASE Due(st)
  <2>1. st.onAir /\ st.pending # None /\ st.pendingAt # None /\ st.pending # st.active
    BY <1>2 DEF Due, Sound, Distinct
  <2>2. /\ Promoted(st).active = st.pending /\ Promoted(st).started = st.pendingAt
        /\ Promoted(st).pendingAt = None /\ Promoted(st).pending = None
    BY <1>2 DEF Promoted, Sound, Station
  <2> QED
    BY <1>2, <2>1, <2>2
<1> QED
  BY <1>1, <1>2

\* The row an edit, or a switch of automatic publication, leaves.
LEMMA EditedSound ==
  ASSUME Sound(station, now), now \in Nat,
         NEW st, Sound(st, now),
         st.active = Promoted(station).active, st.started = Promoted(station).started,
         st.onAir = station.onAir,
         NEW l \in Playlist, NEW id \in NewIds,
         station' = PublishAfter(st, st, l, delivered, id, now)
  PROVE  /\ Sound(station', now)
         /\ station'.onAir = station.onAir
         /\ station.onAir =>
              /\ station'.active = Promoted(station).active
              /\ station'.started = Promoted(station).started
<1>1. id \in ScheduleId /\ (st.active # None => st.active.id # id)
  BY FreshId
<1>2. st \in Station /\ Looped(st)
  BY DEF Sound
<1> QED
  BY <1>1, <1>2, PublishSound

\* What a step may do to a loop that stays on air.
LoopKept == station'.active = station.active /\ station'.started = station.started
LoopPromoted ==
  /\ station.pending # None /\ station.pendingAt # None /\ station.pending # station.active
  /\ station'.active = station.pending /\ station'.started = station.pendingAt
LoopReplaced == station'.active # station.active /\ station'.started = now
LoopStep == station.onAir /\ station'.onAir => LoopKept \/ LoopPromoted \/ LoopReplaced

\* Where a stopped loop starts again.
Returned ==
  ~station.onAir /\ station'.onAir /\ ~station.calendar /\ station.paused # None
    /\ station'.active = station.active /\ station'.started # now =>
    LET position == PositionAt(station'.started, now, station.active.period)
    IN  /\ position.cycle = station.paused.cycle
        /\ position.offset = station.paused.offset

StationStep == Sound(station', now') /\ LoopStep /\ Returned

LEMMA EditStep ==
  ASSUME IInv, Edit
  PROVE  StationStep
<1>1. PICK items \in SUBSET Video, period \in Periods, id \in NewIds :
        station' = PublishAfter(Promoted(station), Promoted(station),
                     [version |-> list.version + 1, items |-> items, period |-> period],
                     delivered, id, now)
  BY DEF Edit
<1> DEFINE l == [version |-> list.version + 1, items |-> items, period |-> period]
<1>2. l \in Playlist
  BY ConstantsAssumption DEF IInv, TypeOK, Playlist, Edit
<1> HIDE DEF l
<1>3. station' = PublishAfter(Promoted(station), Promoted(station), l, delivered, id, now)
  BY <1>1 DEF l
<1>4. Sound(station, now) /\ now \in Nat
  BY ConstantsAssumption DEF IInv, TypeOK
<1>5. Sound(Promoted(station), now) /\ Promoted(station).onAir = station.onAir
  BY <1>4, PromotedSound
<1>6. /\ Sound(station', now) /\ station'.onAir = station.onAir
      /\ station.onAir => /\ station'.active = Promoted(station).active
                          /\ station'.started = Promoted(station).started
  BY <1>2, <1>3, <1>4, <1>5, EditedSound
<1>7. LoopStep
  BY <1>4, <1>6, PromotedLoop DEF LoopStep, LoopKept, LoopPromoted
<1>8. now' = now /\ Returned
  BY <1>6 DEF Edit, Returned
<1> QED
  BY <1>6, <1>7, <1>8 DEF StationStep

LEMMA ToggleStep ==
  ASSUME IInv, ToggleAuto
  PROVE  StationStep
<1> DEFINE pr == Promoted(station)
           st == [pr EXCEPT !.auto = ~station.auto]
<1>1. PICK id \in NewIds : station' = PublishAfter(st, st, list, delivered, id, now)
  BY DEF ToggleAuto
<1>2. list \in Playlist
  BY DEF IInv, TypeOK
<1>4. Sound(station, now) /\ now \in Nat
  BY ConstantsAssumption DEF IInv, TypeOK
<1>5. Sound(pr, now) /\ pr.onAir = station.onAir
  BY <1>4, PromotedSound
<1> HIDE DEF pr
<1>6. /\ st \in Station /\ st.active = pr.active /\ st.started = pr.started
      /\ st.onAir = pr.onAir /\ st.pending = pr.pending /\ st.pendingAt = pr.pendingAt
      /\ st.paused = pr.paused
  <2>1. pr \in Station
    BY <1>5 DEF Sound
  <2>2. station.auto \in BOOLEAN
    BY <1>4 DEF Sound, Station
  <2>3. st \in Station
    BY <2>1, <2>2 DEF Station
  <2> QED
    BY <2>1, <2>3 DEF Station
<1> HIDE DEF st
<1>7. Sound(st, now)
  BY <1>5, <1>6 DEF Sound, Looped, Saved, Distinct
<1>8. /\ Sound(station', now) /\ station'.onAir = station.onAir
      /\ station.onAir => /\ station'.active = Promoted(station).active
                          /\ station'.started = Promoted(station).started
  BY <1>1, <1>2, <1>4, <1>5, <1>6, <1>7, EditedSound DEF pr
<1>9. LoopStep
  BY <1>4, <1>8, PromotedLoop DEF LoopStep, LoopKept, LoopPromoted
<1>10. now' = now /\ Returned
  BY <1>8 DEF ToggleAuto, Returned
<1> QED
  BY <1>8, <1>9, <1>10 DEF StationStep

LEMMA ApplyStep ==
  ASSUME IInv, NEW nextLoop, Apply(nextLoop)
  PROVE  StationStep
<1> DEFINE st == Promoted(station)
<1>1. PICK id \in NewIds :
        station' = IF nextLoop /\ Loops(st)
                   THEN Queued(st, st, Snapshot(id, list), now)
                   ELSE Activated(st, st, Snapshot(id, list), now)
  BY DEF Apply
<1> DEFINE s == Snapshot(id, list)
<1>2. Sound(station, now) /\ now \in Nat /\ list \in Playlist /\ now' = now
  BY ConstantsAssumption DEF IInv, TypeOK, Apply
<1>3. Sound(st, now) /\ st.onAir = station.onAir /\ st \in Station
  BY <1>2, PromotedSound DEF Sound
<1>4. /\ id \in ScheduleId
      /\ station.active # None => station.active.id # id
      /\ st.active # None => st.active.id # id
  BY <1>2, FreshId
<1>5. s \in Schedule /\ s # None /\ s.id = id
  BY <1>2, <1>4, SnapshotType
<1>6. \/ st = station
      \/ /\ station.pending # None /\ station.pendingAt # None
         /\ station.pending # station.active
         /\ st.active = station.pending /\ st.started = station.pendingAt
  BY <1>2, PromotedLoop
<1>7. s # st.active /\ s # station.active
  BY <1>4, <1>5
<1> HIDE DEF st, s
<1>8. CASE nextLoop /\ Loops(st)
  <2>1. station' = Queued(st, st, s, now)
    BY <1>1, <1>8 DEF s
  <2>2. st.active # None
    BY <1>8 DEF Loops
  <2>3. /\ Sound(station', now) /\ station'.onAir = st.onAir
        /\ station'.active = st.active /\ station'.started = st.started
    <3>1. now \in Nat /\ st.active # s
      BY <1>2, <1>7
    <3>2. /\ Sound(Queued(st, st, s, now), now)
          /\ Queued(st, st, s, now).onAir = st.onAir
          /\ Queued(st, st, s, now).active = st.active
          /\ Queued(st, st, s, now).started = st.started
      BY <1>3, <1>5, <2>2, <3>1, QueuedSound
    <3> QED
      BY <2>1, <3>2
  <2> QED
    BY <1>2, <1>3, <1>6, <2>3 DEF StationStep, LoopStep, LoopKept, LoopPromoted, Returned
<1>9. CASE ~(nextLoop /\ Loops(st))
  <2>1. station' = Activated(st, st, s, now)
    BY <1>1, <1>9 DEF s
  <2>2. /\ Sound(station', now) /\ station'.onAir = st.onAir /\ station'.active = s
        /\ station'.started = IF st.onAir THEN now ELSE None
    <3>1. /\ Sound(Activated(st, st, s, now), now)
          /\ Activated(st, st, s, now).onAir = st.onAir
          /\ Activated(st, st, s, now).active = s
          /\ Activated(st, st, s, now).started = IF st.onAir THEN now ELSE None
      BY <1>2, <1>3, <1>5, ActivatedSound
    <3> QED
      BY <2>1, <3>1
  <2> QED
    BY <1>2, <1>3, <1>7, <2>2 DEF StationStep, LoopStep, LoopReplaced, Returned
<1> QED
  BY <1>8, <1>9

\* The position that is saved was reached since time began.
LEMMA StopStep ==
  ASSUME IInv, StopStation
  PROVE  StationStep
<1> DEFINE st == IF station.calendar THEN station ELSE Promoted(station)
           position == PositionAt(st.started, now, st.active.period)
           saved == ~st.calendar /\ st.active # None /\ st.started # None
           paused == IF saved
                     THEN [schedule |-> st.active.id,
                           cycle |-> position.cycle, offset |-> position.offset]
                     ELSE None
           stopped == [st EXCEPT !.onAir = FALSE, !.paused = paused]
<1>1. station' = stopped /\ now' = now
  BY DEF StopStation
<1>2. Sound(station, now) /\ now \in Nat
  BY ConstantsAssumption DEF IInv, TypeOK
<1>3. Sound(st, now)
  BY <1>2, PromotedSound
<1>4. paused # None =>
        /\ paused \in Paused /\ st.active # None
        /\ paused.schedule = st.active.id
        /\ paused.offset < st.active.period
        /\ paused.cycle * st.active.period + paused.offset <= now
  <2> HIDE DEF st
  <2>1. SUFFICES ASSUME saved
                 PROVE  /\ paused \in Paused /\ st.active # None
                        /\ paused.schedule = st.active.id
                        /\ paused.offset < st.active.period
                        /\ paused.cycle * st.active.period + paused.offset <= now
    OBVIOUS
  <2> DEFINE p == st.active.period
             e == Elapsed(st.started, now)
  <2>2. st.active \in Schedule /\ st.started \in Nat
    BY <1>3, <2>1 DEF Sound, Station
  <2>3. p \in Nat \ {0} /\ st.active.id \in ScheduleId
    BY <2>2, ConstantsAssumption DEF Schedule
  <2>4. e \in Nat /\ e <= now
    BY <1>2, <2>2 DEF Elapsed
  <2>5. paused = [schedule |-> st.active.id, cycle |-> e \div p, offset |-> e % p]
    BY <2>1 DEF PositionAt
  <2> HIDE DEF p, e, paused
  <2>6. e \div p \in Nat /\ e % p \in 0 .. (p - 1) /\ (e \div p) * p + (e % p) = e
    BY <2>3, <2>4, Division
  <2>7. paused \in Paused
    BY <2>3, <2>5, <2>6 DEF Paused
  <2>8. paused.schedule = st.active.id /\ paused.offset < p
        /\ paused.cycle * p + paused.offset <= now
    BY <2>3, <2>4, <2>5, <2>6
  <2> QED
    BY <2>1, <2>7, <2>8 DEF p
<1> HIDE DEF paused, st
<1>5. stopped \in Station
  BY <1>3, <1>4 DEF Sound, Station
<1>6. /\ stopped.onAir = FALSE /\ stopped.active = st.active /\ stopped.started = st.started
      /\ stopped.pending = st.pending /\ stopped.pendingAt = st.pendingAt
      /\ stopped.paused = paused
  BY <1>3 DEF Sound, Station
<1> HIDE DEF stopped
<1>7. Sound(stopped, now)
  BY <1>3, <1>4, <1>5, <1>6 DEF Sound, Looped, Saved, Distinct
<1> QED
  BY <1>1, <1>6, <1>7 DEF StationStep, LoopStep, Returned

LEMMA StartRestartStep ==
  ASSUME IInv, StartRestart
  PROVE  StationStep
<1> DEFINE active == IF station.pending # None THEN station.pending ELSE station.active
           q == [station EXCEPT !.onAir = TRUE, !.started = now, !.paused = None,
                                !.active = active, !.pending = None, !.pendingAt = None]
<1>1. station' = q /\ now' = now
  BY DEF StartRestart
<1>2. Sound(station, now) /\ station \in Station /\ now \in Nat
  BY ConstantsAssumption DEF IInv, TypeOK, Sound
<1>3. active # None /\ active \in Schedule \cup {None}
  BY <1>2 DEF StartRestart, Station
<1> HIDE DEF active
<1>4. q \in Station
  BY <1>2, <1>3 DEF Station
<1>5. /\ q.onAir = TRUE /\ q.active = active /\ q.started = now
      /\ q.pending = None /\ q.pendingAt = None /\ q.paused = None
  BY <1>2 DEF Station
<1>6. ~station.onAir
  BY DEF StartRestart, MayStart
<1> HIDE DEF q
<1>7. Sound(q, now)
  BY <1>2, <1>3, <1>4, <1>5, ConstantsAssumption DEF Sound, Looped, Saved, Distinct
<1> QED
  BY <1>1, <1>5, <1>6, <1>7 DEF StationStep, LoopStep, Returned

\* A saved position is resumed at the time it was saved at.
LEMMA ResumedPosition ==
  ASSUME NEW t \in Nat, NEW position \in Paused, NEW p \in Nat \ {0},
         position.offset < p, position.cycle * p + position.offset <= t
  PROVE  /\ ResumedStart(t, position, p) \in Nat
         /\ PositionAt(ResumedStart(t, position, p), t, p).cycle = position.cycle
         /\ PositionAt(ResumedStart(t, position, p), t, p).offset = position.offset
<1> DEFINE c == position.cycle
           o == position.offset
           start == ResumedStart(t, position, p)
<1>1. c \in Nat /\ o \in Nat /\ o \in 0 .. (p - 1)
  BY DEF Paused
<1>2. c * p \in Nat
  BY <1>1, Multiple
<1>3. start = t - c * p - o
  BY DEF ResumedStart
<1>4. (c * p + o) \div p = c /\ (c * p + o) % p = o
  BY <1>1, DivisionBack
<1>5. c * p + o <= t
  OBVIOUS
<1> HIDE DEF c, o
<1>6. start \in Nat /\ start <= t /\ t - start = c * p + o
  BY <1>1, <1>2, <1>3, <1>5
<1> HIDE DEF start
<1>7. Elapsed(start, t) = c * p + o
  BY <1>6 DEF Elapsed
<1>8. PositionAt(start, t, p).cycle = c /\ PositionAt(start, t, p).offset = o
  BY <1>4, <1>7 DEF PositionAt
<1> QED
  BY <1>6, <1>8 DEF start, c, o

LEMMA StartResumeStep ==
  ASSUME IInv, StartResume
  PROVE  StationStep
<1> DEFINE p == station.active.period
           start == ResumedStart(now, station.paused, p)
           at == IF station.pending # None THEN NextLoopAt(start, now, p) ELSE None
           q == [station EXCEPT !.onAir = TRUE, !.started = start, !.paused = None,
                                !.pendingAt = at]
<1>1. station' = q /\ now' = now
  BY DEF StartResume
<1>2. Sound(station, now) /\ station \in Station /\ now \in Nat
  BY ConstantsAssumption DEF IInv, TypeOK, Sound
<1>3. station.active # None /\ station.paused # None /\ ~station.onAir
  BY DEF StartResume, MayStart
<1>4. station.active \in Schedule /\ station.paused \in Paused
  BY <1>2, <1>3 DEF Station
<1>5. p \in Nat \ {0}
  BY <1>4, ConstantsAssumption DEF Schedule
<1>6. station.paused.offset < p /\ station.paused.cycle * p + station.paused.offset <= now
  BY <1>2, <1>3 DEF Sound, Saved
<1> HIDE DEF p
<1>7. /\ start \in Nat
      /\ PositionAt(start, now, p).cycle = station.paused.cycle
      /\ PositionAt(start, now, p).offset = station.paused.offset
  BY <1>2, <1>4, <1>5, <1>6, ResumedPosition
<1> HIDE DEF start
<1>8. at \in Nat \cup {None} /\ (at # None => station.pending # None)
  BY <1>2, <1>5, <1>7, NextLoopBoundary
<1> HIDE DEF at
<1>9. q \in Station
  BY <1>2, <1>7, <1>8 DEF Station
<1>10. /\ q.onAir = TRUE /\ q.active = station.active /\ q.started = start
       /\ q.pending = station.pending /\ q.pendingAt = at /\ q.paused = None
  BY <1>2 DEF Station
<1> HIDE DEF q
<1>11. Sound(q, now)
  BY <1>2, <1>3, <1>7, <1>8, <1>9, <1>10, ConstantsAssumption
  DEF Sound, Looped, Saved, Distinct
<1>12. Returned
  BY <1>1, <1>7, <1>10 DEF Returned, p
<1> QED
  BY <1>1, <1>3, <1>11, <1>12 DEF StationStep, LoopStep

LEMMA StartCalendarStep ==
  ASSUME IInv, StartCalendar
  PROVE  StationStep
<1> DEFINE started == IF station.started = None THEN now ELSE station.started
           q == [station EXCEPT !.onAir = TRUE, !.paused = None, !.started = started]
<1>1. station' = q /\ now' = now
  BY DEF StartCalendar
<1>2. Sound(station, now) /\ station \in Station /\ now \in Nat
  BY ConstantsAssumption DEF IInv, TypeOK, Sound
<1>3. station.active # None /\ ~station.onAir /\ station.calendar
  BY DEF StartCalendar, MayStart
<1>4. started \in Nat /\ started # None
  BY <1>2, ConstantsAssumption DEF Station
<1> HIDE DEF started
<1>5. q \in Station
  BY <1>2, <1>4 DEF Station
<1>6. /\ q.onAir = TRUE /\ q.active = station.active /\ q.started = started
      /\ q.pending = station.pending /\ q.pendingAt = station.pendingAt /\ q.paused = None
  BY <1>2 DEF Station
<1> HIDE DEF q
<1>7. Sound(q, now)
  BY <1>2, <1>3, <1>4, <1>5, <1>6 DEF Sound, Looped, Saved, Distinct
<1> QED
  BY <1>1, <1>3, <1>7 DEF StationStep, LoopStep, Returned

LEMMA OwnerStep ==
  ASSUME IInv, ActivateCalendar \/ Delete \/ Restore
  PROVE  StationStep
<1>1. Sound(station, now) /\ station \in Station /\ now' = now
  BY DEF IInv, Sound, ActivateCalendar, Delete, Restore
<1>2. /\ station' \in Station
      /\ station'.onAir \in {station.onAir, FALSE}
      /\ station'.active = station.active /\ station'.started = station.started
      /\ station'.pending = station.pending /\ station'.pendingAt = station.pendingAt
      /\ station'.paused = station.paused
  <2>1. CASE ActivateCalendar
    BY <1>1, <2>1 DEF ActivateCalendar, Station
  <2>2. CASE Delete
    BY <1>1, <2>2 DEF Delete, Station
  <2>3. CASE Restore
    BY <1>1, <2>3 DEF Restore, Station
  <2> QED
    BY <2>1, <2>2, <2>3
<1>3. Sound(station', now)
  BY <1>1, <1>2 DEF Sound, Looped, Saved, Distinct
<1> QED
  BY <1>1, <1>2, <1>3 DEF StationStep, LoopStep, LoopKept, Returned

LEMMA PromoteStep ==
  ASSUME IInv, PromoteDue
  PROVE  StationStep
<1>1. Sound(station, now) /\ now' = now /\ station' = Promoted(station)
  BY DEF IInv, PromoteDue
<1>2. Sound(station', now) /\ station'.onAir = station.onAir
  BY <1>1, PromotedSound
<1>3. LoopStep
  BY <1>1, PromotedLoop DEF LoopStep, LoopKept, LoopPromoted
<1> QED
  BY <1>1, <1>2, <1>3 DEF StationStep, Returned

\* A worker publishes only onto the loop it read, so replaces none on air.
LEMMA CommitStep ==
  ASSUME IInv, NEW v \in Video, WorkerCommit(v)
  PROVE  StationStep
<1> DEFINE w == worker[v]
<1>1. PICK id \in NewIds :
        station' = IF /\ station.active # w.seen.active
                      /\ w.seen.auto /\ w.list.items # {} /\ w.list.items \subseteq w.delivered
                   THEN station
                   ELSE PublishAfter(station, w.seen, w.list, w.delivered, id, w.at)
  BY DEF WorkerCommit
<1>2. Sound(station, now) /\ now \in Nat /\ now' = now
  BY ConstantsAssumption DEF IInv, TypeOK, WorkerCommit
<1>3. w.pc = "read" /\ w \in Transaction /\ w # Idle
  BY DEF WorkerCommit, IInv, TypeOK, Idle
<1>4. Looped(w.seen)
  BY <1>3 DEF IInv, SeenLooped
<1> HIDE DEF w
<1>5. w.seen \in Station /\ w.at \in Nat /\ w.list \in Playlist
  BY <1>3 DEF Transaction, Idle
<1>6. id \in ScheduleId /\ (station.active # None => station.active.id # id)
  BY <1>2, FreshId
<1>7. CASE station.active # w.seen.active /\ Publishes(w.seen, w.list, w.delivered)
  <2>1. station' = station
    BY <1>1, <1>7 DEF Publishes
  <2> QED
    BY <1>2, <2>1 DEF StationStep, LoopStep, LoopKept, Returned
<1>8. CASE Publishes(w.seen, w.list, w.delivered) => station.active = w.seen.active
  <2>1. station' = PublishAfter(station, w.seen, w.list, w.delivered, id, w.at)
    BY <1>1, <1>8 DEF Publishes
  <2> DEFINE published == PublishAfter(station, w.seen, w.list, w.delivered, id, w.at)
  <2>2. /\ Sound(published, now) /\ published.onAir = station.onAir
        /\ station.onAir => /\ published.active = station.active
                            /\ published.started = station.started
    BY <1>2, <1>4, <1>5, <1>6, <1>8, PublishSound
  <2>3. /\ Sound(station', now) /\ station'.onAir = station.onAir
        /\ station.onAir => /\ station'.active = station.active
                            /\ station'.started = station.started
    BY <2>1, <2>2
  <2> QED
    BY <1>2, <2>3 DEF StationStep, LoopStep, LoopKept, Returned
<1> QED
  BY <1>7, <1>8

(***************************************************************************)
(* The inductive invariant holds, whatever the media worker does.          *)
(***************************************************************************)

\* What a step that leaves the station alone does to it.
LEMMA UntouchedStep ==
  ASSUME IInv, UNCHANGED station, now' \in Int, now' >= now
  PROVE  StationStep
<1>1. Sound(station, now) /\ now \in Nat
  BY ConstantsAssumption DEF IInv, TypeOK
<1>2. Saved(station, now')
  <2>1. SUFFICES ASSUME station.paused # None
                 PROVE  station.paused.cycle * station.active.period
                          + station.paused.offset <= now'
    BY <1>1 DEF Sound, Saved
  <2>2. /\ station.active \in Schedule /\ station.paused \in Paused
        /\ station.paused.cycle * station.active.period + station.paused.offset <= now
    BY <1>1, <2>1 DEF Sound, Saved, Station
  <2>3. /\ station.active.period \in Nat \ {0} /\ station.paused.cycle \in Nat
        /\ station.paused.offset \in Nat
    BY <2>2, ConstantsAssumption DEF Schedule, Paused
  <2>4. station.paused.cycle * station.active.period \in Nat
    BY <2>3, Multiple
  <2> QED
    BY <1>1, <2>2, <2>3, <2>4
<1> QED
  BY <1>1, <1>2 DEF StationStep, Sound, LoopStep, LoopKept, Returned

LEMMA EveryStep ==
  ASSUME IInv, [Next]_vars
  PROVE  StationStep
<1>0. now \in Nat
  BY ConstantsAssumption DEF IInv, TypeOK
<1>1. CASE Edit
  BY <1>1, EditStep
<1>2. CASE ToggleAuto
  BY <1>2, ToggleStep
<1>3. CASE Apply(TRUE) \/ Apply(FALSE)
  BY <1>3, ApplyStep
<1>4. CASE StopStation
  BY <1>4, StopStep
<1>5. CASE StartRestart
  BY <1>5, StartRestartStep
<1>6. CASE StartResume
  BY <1>6, StartResumeStep
<1>7. CASE StartCalendar
  BY <1>7, StartCalendarStep
<1>8. CASE ActivateCalendar \/ Delete \/ Restore
  BY <1>8, OwnerStep
<1>9. CASE PromoteDue
  BY <1>9, PromoteStep
<1>10. ASSUME NEW v \in Video, WorkerSelect(v) \/ WorkerRead(v)
       PROVE  StationStep
  BY <1>0, <1>10, UntouchedStep DEF WorkerSelect, WorkerRead
<1>11. ASSUME NEW v \in Video, WorkerCommit(v)
       PROVE  StationStep
  BY <1>11, CommitStep
<1>12. CASE Tick
  BY <1>0, <1>12, UntouchedStep DEF Tick
<1>13. CASE UNCHANGED vars
  BY <1>0, <1>13, UntouchedStep DEF vars
<1> QED
  BY <1>1, <1>2, <1>3, <1>4, <1>5, <1>6, <1>7, <1>8, <1>9, <1>10, <1>11, <1>12, <1>13 DEF Next

LEMMA InitIInv ==
  ASSUME Init
  PROVE  IInv
<1>1. station \in Station
  BY DEF Init, Station
<1>2. Sound(station, now)
  BY <1>1 DEF Init, Sound, Looped, Saved, Distinct
<1>3. list \in Playlist
  BY ConstantsAssumption DEF Init, Playlist
<1>4. now \in 0 .. MaxTime /\ delivered \in SUBSET Video
  BY ConstantsAssumption DEF Init
<1>5. worker \in [Video -> Transaction] /\ SeenLooped
  BY DEF Init, Transaction, SeenLooped
<1> QED
  BY <1>1, <1>2, <1>3, <1>4, <1>5 DEF IInv, TypeOK

LEMMA StepIInv ==
  ASSUME IInv, [Next]_vars
  PROVE  IInv'
<1>1. StationStep
  BY EveryStep
<1>2. station' \in Station /\ Sound(station', now')
  BY <1>1 DEF StationStep, Sound
<1>3. TypeOK /\ SeenLooped /\ Looped(station)
  BY DEF IInv, Sound
<1>4. now' \in 0 .. MaxTime
  <2>1. CASE Tick
    BY <1>3, <2>1, ConstantsAssumption DEF Tick, TypeOK
  <2>2. CASE ~Tick
    BY <1>3, <2>2 DEF TypeOK, Next, vars, Edit, ToggleAuto, Apply, StopStation, StartRestart,
         StartResume, StartCalendar, ActivateCalendar, Delete, Restore, PromoteDue,
         WorkerSelect, WorkerRead, WorkerCommit
  <2> QED
    BY <2>1, <2>2
<1>5. list' \in Playlist
  <2>1. CASE Edit
    BY <1>3, <2>1, ConstantsAssumption DEF Edit, TypeOK, Playlist
  <2>2. CASE ~Edit
    BY <1>3, <2>2 DEF TypeOK, Next, vars, Tick, ToggleAuto, Apply, StopStation, StartRestart,
         StartResume, StartCalendar, ActivateCalendar, Delete, Restore, PromoteDue,
         WorkerSelect, WorkerRead, WorkerCommit
  <2> QED
    BY <2>1, <2>2
<1>6. CASE \E v \in Video : WorkerSelect(v) \/ WorkerRead(v) \/ WorkerCommit(v)
  <2>1. PICK v \in Video : WorkerSelect(v) \/ WorkerRead(v) \/ WorkerCommit(v)
    BY <1>6
  <2>2. CASE WorkerSelect(v)
    <3> DEFINE w == [pc |-> "selected", seen |-> station, at |-> now]
    <3>1. w \in Transaction /\ Looped(w.seen)
      BY <1>3, ConstantsAssumption DEF TypeOK, Transaction
    <3>2. worker' = [worker EXCEPT ![v] = w] /\ delivered' = delivered
      BY <2>2 DEF WorkerSelect
    <3> HIDE DEF w
    <3>3. worker' \in [Video -> Transaction] /\ SeenLooped'
      BY <1>3, <3>1, <3>2 DEF TypeOK, SeenLooped
    <3> QED
      BY <1>2, <1>3, <1>4, <1>5, <3>2, <3>3 DEF IInv, TypeOK
  <2>3. CASE WorkerRead(v)
    <3> DEFINE w == [pc |-> "read", seen |-> worker[v].seen, at |-> worker[v].at,
                     list |-> list, delivered |-> delivered \cup {v}]
    <3>1. worker[v] \in Transaction /\ worker[v].pc = "selected" /\ worker[v] # Idle
      BY <1>3, <2>3 DEF WorkerRead, TypeOK, Idle
    <3>2. worker[v].seen \in Station /\ worker[v].at \in Nat
      BY <3>1 DEF Transaction, Idle
    <3>3. Looped(worker[v].seen)
      BY <1>3, <3>1 DEF SeenLooped
    <3>4. w \in Transaction
      BY <1>3, <3>2 DEF TypeOK, Transaction
    <3>5. Looped(w.seen)
      BY <3>3
    <3>6. worker' = [worker EXCEPT ![v] = w] /\ delivered' = delivered
      BY <2>3 DEF WorkerRead
    <3> HIDE DEF w
    <3>7. worker' \in [Video -> Transaction] /\ SeenLooped'
      BY <1>3, <3>4, <3>5, <3>6 DEF TypeOK, SeenLooped
    <3> QED
      BY <1>2, <1>3, <1>4, <1>5, <3>6, <3>7 DEF IInv, TypeOK
  <2>4. CASE WorkerCommit(v)
    <3>1. worker' = [worker EXCEPT ![v] = Idle] /\ delivered' \in SUBSET Video
      BY <1>3, <2>4 DEF WorkerCommit, TypeOK
    <3>2. worker' \in [Video -> Transaction] /\ SeenLooped'
      BY <1>3, <3>1 DEF TypeOK, SeenLooped, Transaction
    <3> QED
      BY <1>2, <1>3, <1>4, <1>5, <3>1, <3>2 DEF IInv, TypeOK
  <2> QED
    BY <2>1, <2>2, <2>3, <2>4
<1>7. CASE UNCHANGED <<delivered, worker>>
  <2>1. SeenLooped'
    BY <1>3, <1>7 DEF SeenLooped
  <2> QED
    BY <1>2, <1>3, <1>4, <1>5, <1>7, <2>1 DEF IInv, TypeOK
<1>8. \/ \E v \in Video : WorkerSelect(v) \/ WorkerRead(v) \/ WorkerCommit(v)
      \/ UNCHANGED <<delivered, worker>>
  BY DEF Next, vars, Edit, Tick, ToggleAuto, Apply, StopStation, StartRestart,
         StartResume, StartCalendar, ActivateCalendar, Delete, Restore, PromoteDue
<1> QED
  BY <1>6, <1>7, <1>8

LEMMA Invariance == Spec => []IInv
<1>1. Init => IInv
  BY InitIInv
<1>2. IInv /\ [Next]_vars => IInv'
  BY StepIInv
<1> QED
  BY <1>1, <1>2, PTL DEF Spec

(***************************************************************************)
(* The theorems, first of them those that need no lock.                    *)
(***************************************************************************)

\* Every row and every transaction under way keeps its type.
THEOREM TypeCorrect == Spec => []TypeOK
<1>1. IInv => TypeOK
  BY DEF IInv
<1> QED
  BY <1>1, Invariance, PTL

\* A station on air has a loop with an epoch: no publication, stop, resumption or
\* promotion, and no worker acting on a row it read earlier, leaves one without.
THEOREM AlwaysALoop == Spec => []OnAirHasLoop
<1>1. IInv => OnAirHasLoop
  BY DEF IInv, Sound, Looped, OnAirHasLoop
<1> QED
  BY <1>1, Invariance, PTL

\* A saved position is always one of the stopped station's own loop.
THEOREM PositionOfLoop == Spec => []PausedPosition
<1>1. IInv => PausedPosition
  BY DEF IInv, Sound, Saved, PausedPosition
<1> QED
  BY <1>1, Invariance, PTL

\* Viewers see the loop on air change at a promised instant or start over, only.
THEOREM LoopAlwaysPreserved == Spec => LoopPreserved
<1>1. IInv /\ [Next]_vars =>
        [station.onAir /\ station'.onAir /\ station'.active # station.active =>
           \/ station'.started = now
           \/ station'.active = station.pending /\ station'.started = station.pendingAt]_vars
  BY EveryStep DEF StationStep, LoopStep, LoopKept, LoopPromoted, LoopReplaced
<1> QED
  BY <1>1, Invariance, PTL DEF Spec, LoopPreserved

\* A loop on air keeps its epoch, and a stopped one is resumed where it was left.
THEOREM PositionAlwaysKept == Spec => PositionKept
<1>1. IInv /\ [Next]_vars =>
        [ /\ station.onAir /\ station'.onAir /\ station'.active = station.active =>
               station'.started = station.started
          /\ ~station.onAir /\ station'.onAir /\ ~station.calendar /\ station.paused # None
               /\ station'.active = station.active /\ station'.started # now =>
               LET position == PositionAt(station'.started, now, station.active.period)
               IN  /\ position.cycle = station.paused.cycle
                   /\ position.offset = station.paused.offset ]_vars
  BY EveryStep DEF StationStep, LoopStep, LoopKept, LoopPromoted, LoopReplaced, Returned
<1> QED
  BY <1>1, Invariance, PTL DEF Spec, PositionKept

(***************************************************************************)
(* Where every publication takes the lock (no job of the media worker      *)
(* publishes), the guide is right as well.                                 *)
(***************************************************************************)

\* What a step may do to the instant promised to viewers.
InstantKept ==
  station.onAir /\ station'.onAir /\ station'.active = station.active
    /\ station.pendingAt # None /\ station'.pendingAt # None =>
  station'.pendingAt = station.pendingAt

LockedStep == AtBoundary(station') /\ Follows(station', list', delivered') /\ InstantKept

LEMMA EditLocked ==
  ASSUME LockedInv, Edit
  PROVE  LockedStep
<1>1. PICK items \in SUBSET Video, period \in Periods, id \in NewIds :
        /\ list' = [version |-> list.version + 1, items |-> items, period |-> period]
        /\ station' = PublishAfter(Promoted(station), Promoted(station),
                        [version |-> list.version + 1, items |-> items, period |-> period],
                        delivered, id, now)
  BY DEF Edit
<1>2. list' \in Playlist /\ delivered' = delivered
  BY <1>1, ConstantsAssumption DEF LockedInv, IInv, TypeOK, Playlist, Edit
<1>3. station' = PublishAfter(Promoted(station), Promoted(station), list', delivered, id, now)
  BY <1>1
<1>4. Sound(station, now) /\ now \in Nat /\ AtBoundary(station)
  BY ConstantsAssumption DEF LockedInv, IInv, TypeOK
<1>5. /\ Sound(Promoted(station), now) /\ AtBoundary(Promoted(station))
      /\ Promoted(station).onAir = station.onAir
  BY <1>4, PromotedSound
<1>6. id \in ScheduleId /\ (Promoted(station).active # None => Promoted(station).active.id # id)
  BY <1>4, FreshId
<1>7. /\ AtBoundary(station') /\ Follows(station', list', delivered)
      /\ Promoted(station).pendingAt # None =>
           station'.pendingAt \in {Promoted(station).pendingAt, None}
  BY <1>2, <1>3, <1>4, <1>5, <1>6, PublishLocked
<1>8. station.onAir => station'.active = Promoted(station).active
  BY <1>2, <1>3, <1>4, <1>5, EditedSound
<1>9. InstantKept
  BY <1>4, <1>7, <1>8, PromotedLoop DEF InstantKept
<1> QED
  BY <1>2, <1>7, <1>9 DEF LockedStep

LEMMA ToggleLocked ==
  ASSUME LockedInv, ToggleAuto
  PROVE  LockedStep
<1> DEFINE pr == Promoted(station)
           st == [pr EXCEPT !.auto = ~station.auto]
<1>1. PICK id \in NewIds : station' = PublishAfter(st, st, list, delivered, id, now)
  BY DEF ToggleAuto
<1>2. list \in Playlist /\ list' = list /\ delivered' = delivered
  BY DEF LockedInv, IInv, TypeOK, ToggleAuto
<1>3. Sound(station, now) /\ now \in Nat /\ AtBoundary(station)
  BY ConstantsAssumption DEF LockedInv, IInv, TypeOK
<1>4. Sound(pr, now) /\ pr.onAir = station.onAir /\ AtBoundary(pr)
  BY <1>3, PromotedSound
<1>5. id \in ScheduleId /\ (pr.active # None => pr.active.id # id)
  BY <1>3, FreshId
<1>6. \/ pr = station
      \/ station.pending # station.active /\ pr.active = station.pending
  BY <1>3, PromotedLoop
<1> HIDE DEF pr
<1>7. /\ st \in Station /\ st.active = pr.active /\ st.started = pr.started
      /\ st.onAir = pr.onAir /\ st.pending = pr.pending /\ st.pendingAt = pr.pendingAt
      /\ st.paused = pr.paused
  <2>1. pr \in Station
    BY <1>4 DEF Sound
  <2>2. station.auto \in BOOLEAN
    BY <1>3 DEF Sound, Station
  <2>3. st \in Station
    BY <2>1, <2>2 DEF Station
  <2> QED
    BY <2>1, <2>3 DEF Station
<1> HIDE DEF st
<1>8. Sound(st, now) /\ AtBoundary(st)
  BY <1>4, <1>7 DEF Sound, Looped, Saved, Distinct, AtBoundary
<1>9. /\ AtBoundary(station') /\ Follows(station', list, delivered)
      /\ st.pendingAt # None => station'.pendingAt \in {st.pendingAt, None}
  BY <1>1, <1>2, <1>3, <1>5, <1>7, <1>8, PublishLocked
<1>10. station.onAir => station'.active = pr.active
  BY <1>1, <1>2, <1>3, <1>4, <1>7, <1>8, EditedSound DEF pr
<1>11. InstantKept
  BY <1>6, <1>7, <1>9, <1>10 DEF InstantKept
<1> QED
  BY <1>2, <1>9, <1>11 DEF LockedStep

LEMMA ApplyLocked ==
  ASSUME LockedInv, NEW nextLoop, Apply(nextLoop)
  PROVE  LockedStep
<1> DEFINE st == Promoted(station)
<1>1. PICK id \in NewIds :
        station' = IF nextLoop /\ Loops(st)
                   THEN Queued(st, st, Snapshot(id, list), now)
                   ELSE Activated(st, st, Snapshot(id, list), now)
  BY DEF Apply
<1> DEFINE snapshot == Snapshot(id, list)
<1>2. Sound(station, now) /\ AtBoundary(station) /\ now \in Nat /\ list \in Playlist
  BY ConstantsAssumption DEF LockedInv, IInv, TypeOK
<1>3. list' = list /\ delivered' = delivered
  BY DEF Apply
<1>4. Sound(st, now) /\ AtBoundary(st) /\ st.onAir = station.onAir /\ st \in Station /\ Looped(st)
  BY <1>2, PromotedSound DEF Sound
<1>5. id \in ScheduleId /\ (st.active # None => st.active.id # id)
  BY <1>2, FreshId
<1>6. /\ snapshot \in Schedule /\ snapshot # None /\ snapshot.id = id
      /\ snapshot.version = list.version
  BY <1>2, <1>5, SnapshotType
<1>7. st = station \/ (station.pending # station.active /\ st.active = station.pending)
  BY <1>2, PromotedLoop
<1> HIDE DEF st, snapshot
<1>8. CASE nextLoop /\ Loops(st)
  <2>1. station' = Queued(st, st, snapshot, now)
    BY <1>1, <1>8 DEF snapshot
  <2>2. st.active # None /\ st.active # snapshot
    BY <1>5, <1>6, <1>8 DEF Loops
  <2>3. /\ station'.onAir = st.onAir /\ station'.active = st.active
        /\ station'.started = st.started /\ station'.pending = snapshot
        /\ station'.pendingAt = KeptActivation(st, now)
    <3>1. /\ Queued(st, st, snapshot, now).onAir = st.onAir
          /\ Queued(st, st, snapshot, now).active = st.active
          /\ Queued(st, st, snapshot, now).started = st.started
          /\ Queued(st, st, snapshot, now).pending = snapshot
          /\ Queued(st, st, snapshot, now).pendingAt = KeptActivation(st, now)
      BY <1>2, <1>4, <1>6, <2>2, QueuedSound
    <3> QED
      BY <2>1, <3>1
  <2>4. AtBoundary(station')
    BY <1>2, <1>4, <2>3, KeptActivationBoundary DEF AtBoundary
  <2>5. Follows(station', list, delivered)
    BY <1>6, <2>3 DEF Follows, NewestOf
  <2>6. InstantKept
    BY <1>4, <1>7, <2>3 DEF InstantKept, KeptActivation, Looped
  <2> QED
    BY <1>3, <2>4, <2>5, <2>6 DEF LockedStep
<1>9. CASE ~(nextLoop /\ Loops(st))
  <2>1. station' = Activated(st, st, snapshot, now)
    BY <1>1, <1>9 DEF snapshot
  <2>2. station'.active = snapshot /\ station'.pending = None /\ station'.pendingAt = None
    <3>1. /\ Activated(st, st, snapshot, now).active = snapshot
          /\ Activated(st, st, snapshot, now).pending = None
          /\ Activated(st, st, snapshot, now).pendingAt = None
      BY <1>2, <1>4, <1>6, ActivatedSound
    <3> QED
      BY <2>1, <3>1
  <2> QED
    BY <1>3, <1>6, <2>2 DEF LockedStep, AtBoundary, Follows, NewestOf, InstantKept
<1> QED
  BY <1>8, <1>9

\* The other routes publish nothing: what waits, or loops, is what did before.
LEMMA OthersLocked ==
  ASSUME LockedInv,
         StopStation \/ StartRestart \/ StartCalendar \/ ActivateCalendar
           \/ Delete \/ Restore \/ PromoteDue
  PROVE  LockedStep
<1>1. /\ Sound(station, now) /\ station \in Station /\ now \in Nat
      /\ AtBoundary(station) /\ Follows(station, list, delivered)
  BY ConstantsAssumption DEF LockedInv, IInv, TypeOK, Sound
<1>2. list' = list /\ delivered' = delivered
  BY DEF StopStation, StartRestart, StartCalendar, ActivateCalendar, Delete, Restore, PromoteDue
<1>3. CASE StopStation
  <2> DEFINE st == IF station.calendar THEN station ELSE Promoted(station)
  <2>1. /\ Sound(st, now) /\ AtBoundary(st) /\ NewestOf(st) = NewestOf(station)
        /\ st.auto = station.auto
    BY <1>1, PromotedSound
  <2>2. PICK paused : station' = [st EXCEPT !.onAir = FALSE, !.paused = paused]
    BY <1>3 DEF StopStation
  <2> HIDE DEF st
  <2>3. /\ station'.onAir = FALSE /\ station'.auto = st.auto
        /\ station'.active = st.active /\ station'.started = st.started
        /\ station'.pending = st.pending /\ station'.pendingAt = st.pendingAt
    BY <2>1, <2>2 DEF Sound, Station
  <2> QED
    BY <1>1, <1>2, <2>1, <2>3 DEF LockedStep, AtBoundary, Follows, NewestOf, InstantKept
<1>4. CASE StartRestart
  <2>1. /\ station'.pending = None /\ station'.pendingAt = None /\ station'.auto = station.auto
        /\ station'.active = NewestOf(station)
    BY <1>1, <1>4 DEF StartRestart, Station, NewestOf
  <2> QED
    BY <1>1, <1>2, <2>1 DEF LockedStep, AtBoundary, Follows, NewestOf, InstantKept
<1>5. CASE StartCalendar
  <2>1. /\ ~station.onAir /\ station'.auto = station.auto /\ station'.active = station.active
        /\ station'.pending = station.pending /\ station'.pendingAt = station.pendingAt
        /\ station.started # None => station'.started = station.started
    BY <1>1, <1>5 DEF StartCalendar, MayStart, Station
  <2> QED
    BY <1>1, <1>2, <2>1 DEF LockedStep, AtBoundary, Follows, NewestOf, InstantKept
<1>6. CASE ActivateCalendar \/ Delete \/ Restore
  <2>1. /\ station'.auto = station.auto
        /\ station'.active = station.active /\ station'.started = station.started
        /\ station'.pending = station.pending /\ station'.pendingAt = station.pendingAt
    BY <1>1, <1>6 DEF ActivateCalendar, Delete, Restore, Station
  <2> QED
    BY <1>1, <1>2, <2>1 DEF LockedStep, AtBoundary, Follows, NewestOf, InstantKept
<1>7. CASE PromoteDue
  <2>1. station' = Promoted(station)
    BY <1>7 DEF PromoteDue
  <2>2. /\ AtBoundary(station') /\ NewestOf(station') = NewestOf(station)
        /\ station'.auto = station.auto
    BY <1>1, <2>1, PromotedSound
  <2>3. InstantKept
    BY <1>1, <2>1, PromotedLoop DEF InstantKept
  <2> QED
    BY <1>1, <1>2, <2>2, <2>3 DEF LockedStep, Follows
<1> QED
  BY <1>3, <1>4, <1>5, <1>6, <1>7

\* A resumption computes the instant again, from the epoch it sets.
LEMMA StartResumeLocked ==
  ASSUME LockedInv, StartResume
  PROVE  LockedStep
<1> DEFINE p == station.active.period
           start == ResumedStart(now, station.paused, p)
           at == IF station.pending # None THEN NextLoopAt(start, now, p) ELSE None
           q == [station EXCEPT !.onAir = TRUE, !.started = start, !.paused = None,
                                !.pendingAt = at]
<1>1. station' = q /\ list' = list /\ delivered' = delivered
  BY DEF StartResume
<1>2. /\ Sound(station, now) /\ station \in Station /\ now \in Nat
      /\ Follows(station, list, delivered)
  BY ConstantsAssumption DEF LockedInv, IInv, TypeOK, Sound
<1>3. station.active # None /\ station.paused # None /\ ~station.onAir
  BY DEF StartResume, MayStart
<1>4. station.active \in Schedule /\ station.paused \in Paused
  BY <1>2, <1>3 DEF Station
<1>5. p \in Nat \ {0}
  BY <1>4, ConstantsAssumption DEF Schedule
<1>6. station.paused.offset < p /\ station.paused.cycle * p + station.paused.offset <= now
  BY <1>2, <1>3 DEF Sound, Saved
<1> HIDE DEF p
<1>7. start \in Nat
  BY <1>2, <1>4, <1>5, <1>6, ResumedPosition
<1> HIDE DEF start
<1>8. at # None => at > start /\ (at - start) % p = 0
  BY <1>2, <1>5, <1>7, NextLoopBoundary
<1> HIDE DEF at
<1>9. /\ q.active = station.active /\ q.started = start /\ q.auto = station.auto
      /\ q.pending = station.pending /\ q.pendingAt = at
  BY <1>2 DEF Station
<1> HIDE DEF q
<1>10. AtBoundary(q)
  BY <1>7, <1>8, <1>9, ConstantsAssumption DEF AtBoundary, p
<1>11. Follows(q, list, delivered)
  BY <1>2, <1>9 DEF Follows, NewestOf
<1> QED
  BY <1>1, <1>3, <1>10, <1>11 DEF LockedStep, InstantKept

LEMMA StepLocked ==
  ASSUME LockedInv, Jobs = {}, [Next]_vars
  PROVE  LockedInv' /\ LockedStep
<1>1. IInv'
  BY StepIInv DEF LockedInv
<1>2. AtBoundary(station) /\ Follows(station, list, delivered) /\ NoWorker
  BY DEF LockedInv
<1>3. \A v \in Video : ~WorkerSelect(v) /\ ~WorkerRead(v) /\ ~WorkerCommit(v)
  BY <1>2 DEF NoWorker, WorkerSelect, WorkerRead, WorkerCommit, Idle
<1>4. worker' = worker
  BY <1>3 DEF Next, vars, Edit, Tick, ToggleAuto, Apply, StopStation, StartRestart,
         StartResume, StartCalendar, ActivateCalendar, Delete, Restore, PromoteDue
<1>5. LockedStep
  <2>1. CASE Edit
    BY <2>1, EditLocked
  <2>2. CASE ToggleAuto
    BY <2>2, ToggleLocked
  <2>3. CASE Apply(TRUE) \/ Apply(FALSE)
    BY <2>3, ApplyLocked
  <2>4. CASE StartResume
    BY <2>4, StartResumeLocked
  <2>5. CASE StopStation \/ StartRestart \/ StartCalendar \/ ActivateCalendar
               \/ Delete \/ Restore \/ PromoteDue
    BY <2>5, OthersLocked
  <2>6. CASE Tick \/ UNCHANGED vars
    BY <1>2, <2>6 DEF Tick, vars, LockedStep, InstantKept
  <2> QED
    BY <1>3, <2>1, <2>2, <2>3, <2>4, <2>5, <2>6 DEF Next
<1>6. NoWorker'
  BY <1>2, <1>4 DEF NoWorker
<1> QED
  BY <1>1, <1>5, <1>6 DEF LockedInv, LockedStep

LEMMA LockedInvariance ==
  ASSUME Jobs = {}
  PROVE  Spec => []LockedInv
<1>1. Init => LockedInv
  <2>1. SUFFICES ASSUME Init PROVE LockedInv
    OBVIOUS
  <2>2. IInv
    BY <2>1, InitIInv
  <2>3. station.pendingAt = None /\ AtBoundary(station)
    BY <2>1 DEF Init, AtBoundary
  <2>4. Follows(station, list, delivered)
    BY <2>1 DEF Init, Follows
  <2>5. NoWorker
    BY <2>1 DEF Init, NoWorker
  <2> QED
    BY <2>2, <2>3, <2>4, <2>5 DEF LockedInv
<1>2. LockedInv /\ [Next]_vars => LockedInv'
  BY StepLocked
<1> QED
  BY <1>1, <1>2, PTL DEF Spec

\* The instant a queued snapshot goes on air is an end of a cycle of the loop on air.
THEOREM AlwaysAtBoundary ==
  ASSUME Jobs = {}
  PROVE  Spec => []QueuedAtBoundary
<1>1. LockedInv => QueuedAtBoundary
  BY DEF LockedInv, AtBoundary, QueuedAtBoundary
<1> QED
  BY <1>1, LockedInvariance, PTL

\* With automatic publication on, no edit that can be delivered is left behind.
THEOREM AlwaysUpToDate ==
  ASSUME Jobs = {}
  PROVE  Spec => []UpToDate
<1>1. LockedInv => UpToDate
  BY DEF LockedInv, Follows, NewestOf, UpToDate, Newest
<1> QED
  BY <1>1, LockedInvariance, PTL

\* Replacing the queued snapshot never moves the instant viewers were promised.
THEOREM InstantAlwaysKept ==
  ASSUME Jobs = {}
  PROVE  Spec => BoundaryKept
<1>1. LockedInv /\ [Next]_vars =>
        [station.onAir /\ station'.onAir /\ station'.active = station.active
           /\ station.pendingAt # None /\ station'.pendingAt # None =>
         station'.pendingAt = station.pendingAt]_vars
  BY StepLocked DEF LockedStep, InstantKept
<1> QED
  BY <1>1, LockedInvariance, PTL DEF Spec, BoundaryKept

(***************************************************************************)
(* Without calendar programming, nothing waits without an instant: only the *)
(* start under a calendar puts a queue on air without computing one.        *)
(***************************************************************************)

Timed(st) ==
  st.onAir /\ ~st.calendar /\ st.pending # None => st.pendingAt # None

LEMMA PromotedTimed ==
  ASSUME NEW st \in Station, Timed(st)
  PROVE  Timed(Promoted(st))
BY DEF Promoted, Timed, Station

LEMMA QueuedTimed ==
  ASSUME NEW st, NEW t \in Nat, Sound(st, t), Timed(st), NEW s \in Schedule
  PROVE  Timed(Queued(st, st, s, t))
<1>1. st \in Station /\ Looped(st)
  BY DEF Sound
<1>2. KeptActivation(st, t) \in Nat \cup {None}
  BY <1>1, KeptActivationType
<1>3. st.onAir => KeptActivation(st, t) # None
  <2>1. SUFFICES ASSUME st.onAir PROVE KeptActivation(st, t) # None
    OBVIOUS
  <2>2. CASE st.pending # None /\ st.pendingAt # None
    BY <2>2 DEF KeptActivation
  <2>3. CASE ~(st.pending # None /\ st.pendingAt # None)
    <3>1. st.active \in Schedule /\ st.started \in Nat /\ st.active # None /\ st.started # None
      BY <1>1, <2>1 DEF Looped, Station
    <3>2. st.active.period \in Nat \ {0}
      BY <3>1, ConstantsAssumption DEF Schedule
    <3>3. KeptActivation(st, t) = NextLoopAt(st.started, t, st.active.period)
      BY <2>1, <2>3, <3>1 DEF KeptActivation, ActivationFor
    <3>4. KeptActivation(st, t) \in Nat
      BY <3>1, <3>2, <3>3, NextLoopBoundary
    <3> QED
      BY <3>4, ConstantsAssumption
  <2> QED
    BY <2>2, <2>3
<1>4. /\ Queued(st, st, s, t).onAir = st.onAir /\ Queued(st, st, s, t).calendar = st.calendar
      /\ Queued(st, st, s, t).pendingAt = KeptActivation(st, t)
  BY <1>1, <1>2 DEF Queued, Station
<1> QED
  BY <1>3, <1>4 DEF Timed

LEMMA ActivatedTimed ==
  ASSUME NEW st \in Station, Timed(st), NEW t \in Nat, NEW s \in Schedule
  PROVE  Timed(Activated(st, st, s, t))
BY DEF Activated, Timed, Station

LEMMA PublishTimed ==
  ASSUME NEW st, NEW t \in Nat, Sound(st, t), Timed(st),
         NEW l \in Playlist, NEW ready, NEW id \in ScheduleId
  PROVE  Timed(PublishAfter(st, st, l, ready, id, t))
<1> DEFINE q == PublishAfter(st, st, l, ready, id, t)
           s == Snapshot(id, l)
<1>1. st \in Station /\ s \in Schedule
  BY SnapshotType DEF Sound
<1>2. \/ q = st \/ q = Cleared(st, st)
      \/ q = Queued(st, st, s, t) \/ q = Activated(st, st, s, t)
  BY DEF PublishAfter
<1>3. Timed(Cleared(st, st))
  BY <1>1 DEF Cleared, Timed, Station
<1> HIDE DEF q, s
<1>4. Timed(q)
  BY <1>1, <1>2, <1>3, QueuedTimed, ActivatedTimed
<1> QED
  BY <1>4 DEF q

LEMMA StepTimed ==
  ASSUME LockedInv, Timed(station), Jobs = {}, [Next]_vars
  PROVE  Timed(station')
<1>1. /\ Sound(station, now) /\ station \in Station /\ now \in Nat /\ list \in Playlist
  BY ConstantsAssumption DEF LockedInv, IInv, TypeOK, Sound
<1>2. /\ Sound(Promoted(station), now) /\ Promoted(station) \in Station
      /\ Timed(Promoted(station))
  BY <1>1, PromotedSound, PromotedTimed DEF Sound
<1>3. CASE Edit
  <2>1. PICK items \in SUBSET Video, period \in Periods, id \in NewIds :
          /\ list' = [version |-> list.version + 1, items |-> items, period |-> period]
          /\ station' = PublishAfter(Promoted(station), Promoted(station), list', delivered, id, now)
    BY <1>3 DEF Edit
  <2>2. list' \in Playlist
    BY <1>1, <1>3, <2>1, ConstantsAssumption DEF Playlist, Edit
  <2>3. id \in ScheduleId
    BY <1>1, FreshId
  <2> QED
    BY <1>1, <1>2, <2>1, <2>2, <2>3, PublishTimed
<1>4. CASE ToggleAuto
  <2> DEFINE pr == Promoted(station)
             st == [pr EXCEPT !.auto = ~station.auto]
  <2>1. PICK id \in NewIds : station' = PublishAfter(st, st, list, delivered, id, now)
    BY <1>4 DEF ToggleAuto
  <2>2. id \in ScheduleId
    BY <1>1, FreshId
  <2>3. Sound(pr, now) /\ pr \in Station /\ Timed(pr) /\ station.auto \in BOOLEAN
    BY <1>1, <1>2 DEF Station
  <2> HIDE DEF pr
  <2>4. st \in Station
    BY <2>3 DEF Station
  <2>5. /\ st.active = pr.active /\ st.started = pr.started /\ st.onAir = pr.onAir
        /\ st.pending = pr.pending /\ st.pendingAt = pr.pendingAt
        /\ st.paused = pr.paused /\ st.calendar = pr.calendar
    BY <2>3 DEF Station
  <2> HIDE DEF st
  <2>6. Sound(st, now) /\ Timed(st)
    BY <2>3, <2>4, <2>5 DEF Sound, Looped, Saved, Distinct, Timed
  <2> QED
    BY <1>1, <2>1, <2>2, <2>6, PublishTimed
<1>5. CASE Apply(TRUE) \/ Apply(FALSE)
  <2>1. PICK id \in NewIds :
          \/ station' = Queued(Promoted(station), Promoted(station), Snapshot(id, list), now)
          \/ station' = Activated(Promoted(station), Promoted(station), Snapshot(id, list), now)
    BY <1>5 DEF Apply
  <2>2. Snapshot(id, list) \in Schedule
    BY <1>1, FreshId, SnapshotType
  <2> QED
    BY <1>1, <1>2, <2>1, <2>2, QueuedTimed, ActivatedTimed
<1>6. CASE StopStation
  <2> DEFINE st == IF station.calendar THEN station ELSE Promoted(station)
  <2>1. PICK paused : station' = [st EXCEPT !.onAir = FALSE, !.paused = paused]
    BY <1>6 DEF StopStation
  <2>2. st \in Station /\ Timed(st)
    BY <1>1, <1>2
  <2> HIDE DEF st
  <2> QED
    BY <2>1, <2>2 DEF Timed, Station
<1>7. CASE StartResume
  <2> DEFINE start == ResumedStart(now, station.paused, station.active.period)
             at == NextLoopAt(start, now, station.active.period)
  <2>1. /\ station' = [station EXCEPT !.onAir = TRUE, !.started = start, !.paused = None,
                          !.pendingAt = IF station.pending # None THEN at ELSE None]
        /\ station.active # None /\ station.paused # None
    BY <1>7 DEF StartResume
  <2>2. station.active \in Schedule /\ station.paused \in Paused
    BY <1>1, <2>1 DEF Station
  <2>3. station.active.period \in Nat \ {0}
    BY <2>2, ConstantsAssumption DEF Schedule
  <2>4. station.paused.cycle * station.active.period + station.paused.offset <= now
        /\ station.paused.offset < station.active.period
    BY <1>1, <2>1 DEF Sound, Saved
  <2>5. start \in Nat
    BY <1>1, <2>2, <2>3, <2>4, ResumedPosition
  <2> HIDE DEF start
  <2>6. at \in Nat
    BY <1>1, <2>3, <2>5, NextLoopBoundary
  <2> HIDE DEF at
  <2>7. at # None
    BY <2>6, ConstantsAssumption
  <2> QED
    BY <1>1, <2>1, <2>7 DEF Timed, Station
<1>8. CASE StartRestart \/ Delete \/ Restore
  BY <1>1, <1>8 DEF StartRestart, Delete, Restore, Timed, Station
<1>9. CASE StartCalendar \/ ActivateCalendar
  BY <1>1, <1>9 DEF StartCalendar, ActivateCalendar, Timed, Station
<1>10. CASE PromoteDue
  BY <1>2, <1>10 DEF PromoteDue
<1>11. \A v \in Video : ~WorkerSelect(v) /\ ~WorkerRead(v) /\ ~WorkerCommit(v)
  BY DEF LockedInv, NoWorker, WorkerSelect, WorkerRead, WorkerCommit, Idle
<1>12. CASE Tick \/ UNCHANGED vars
  BY <1>12 DEF Tick, vars
<1> QED
  BY <1>3, <1>4, <1>5, <1>6, <1>7, <1>8, <1>9, <1>10, <1>11, <1>12 DEF Next

\* If the lock is taken, the start under a calendar is the only one that leaves what
\* was queued without an instant to go on air at.
THEOREM InstantAlwaysThere ==
  ASSUME Jobs = {}
  PROVE  Spec => []QueuedHasInstant
<1>1. Init => Timed(station)
  BY DEF Init, Timed
<1>2. LockedInv /\ Timed(station) /\ [Next]_vars => Timed(station)'
  BY StepTimed
<1>3. Timed(station) => QueuedHasInstant
  BY DEF Timed, QueuedHasInstant
<1> QED
  BY <1>1, <1>2, <1>3, LockedInvariance, PTL DEF Spec

(***************************************************************************)
(* What viewers see.  What is due counts as on air, so a promotion that    *)
(* comes late is no step of LoopOnAir, and the switch itself is a step of  *)
(* time.  This needs the epoch and the instant to lie where time can reach *)
(* them: the epoch is not in the future, and the instant within a cycle.   *)
(***************************************************************************)

OnTime(st, t) ==
  /\ st.started # None => st.started <= t
  /\ st.pendingAt # None => st.pendingAt <= t + st.active.period

\* Nothing is due on the row.
Ahead(st, t) == st.onAir /\ st.pendingAt # None => st.pendingAt > t

AirInv == LockedInv /\ OnTime(station, now)

\* The next end of a cycle is within a cycle from now.
LEMMA NextLoopAhead ==
  ASSUME NEW start \in Nat, NEW t \in Nat, start <= t, NEW p \in Nat \ {0}
  PROVE  NextLoopAt(start, t, p) > t /\ NextLoopAt(start, t, p) <= t + p
<1> DEFINE e == t - start
           n == e \div p
           r == e % p
<1>1. e \in Nat /\ Elapsed(start, t) = e
  BY DEF Elapsed
<1> HIDE DEF e
<1>2. n \in Nat /\ r \in 0 .. (p - 1) /\ n * p + r = e
  BY <1>1, Division
<1>3. NextLoopAt(start, t, p) = start + (n + 1) * p
  BY <1>1 DEF NextLoopAt
<1> HIDE DEF n, r
<1>4. (n + 1) * p = n * p + p /\ n * p \in Nat
  BY <1>2
<1>5. start + (n + 1) * p = t + p - r
  BY <1>2, <1>4 DEF e
<1> QED BY <1>2, <1>3, <1>5

\* A cycle has one end.
LEMMA CycleEndUnique ==
  ASSUME NEW s \in Int, NEW p \in Nat \ {0}, NEW t \in Int,
         NEW a \in t + 1 .. t + p, NEW b \in t + 1 .. t + p,
         (a - s) % p = 0, (b - s) % p = 0
  PROVE  a = b
<1> DEFINE m == (a - s) \div p
           n == (b - s) \div p
           x == a - s
           y == b - s
<1>1. x \in Int /\ y \in Int /\ p > 0 /\ p \in Int
  OBVIOUS
<1> HIDE DEF x, y
<1>2. \A z \in Int : z \div p \in Int /\ z = p * (z \div p) + (z % p)
  BY <1>1
<1>3. m \in Int /\ n \in Int /\ x = p * m /\ y = p * n
  BY <1>1, <1>2 DEF x, y
<1> HIDE DEF m, n
<1>4. x - y < p /\ y - x < p
  BY DEF x, y
<1>5. ~(m >= n + 1)
  <2> SUFFICES ASSUME m >= n + 1 PROVE FALSE
    OBVIOUS
  <2>1. p * m >= p * (n + 1) /\ p * (n + 1) = p * n + p /\ p * n \in Int /\ p * m \in Int
    BY <1>3
  <2> QED BY <1>1, <1>3, <1>4, <2>1
<1>6. ~(n >= m + 1)
  <2> SUFFICES ASSUME n >= m + 1 PROVE FALSE
    OBVIOUS
  <2>1. p * n >= p * (m + 1) /\ p * (m + 1) = p * m + p /\ p * n \in Int /\ p * m \in Int
    BY <1>3
  <2> QED BY <1>1, <1>3, <1>4, <2>1
<1>7. x = y
  BY <1>3, <1>5, <1>6
<1> QED BY <1>7 DEF x, y

\* Promotion leaves nothing that is due.
LEMMA PromotedOnTime ==
  ASSUME NEW st, Sound(st, now), OnTime(st, now), now \in Nat
  PROVE  OnTime(Promoted(st), now) /\ Ahead(Promoted(st), now)
<1>1. st \in Station /\ Looped(st)
  BY DEF Sound
<1>2. CASE ~Due(st)
  <2>1. st.onAir /\ st.pendingAt # None => ~(st.pendingAt <= now) /\ st.pendingAt \in Nat
    BY <1>1, <1>2 DEF Due, Looped, Station
  <2> QED BY <1>2, <2>1 DEF Promoted, Ahead
<1>3. CASE Due(st)
  <2>1. st.pendingAt <= now
    BY <1>3 DEF Due
  <2>2. Promoted(st).started = st.pendingAt /\ Promoted(st).pendingAt = None
    BY <1>1, <1>3 DEF Promoted, Station
  <2> QED BY <2>1, <2>2 DEF OnTime, Ahead
<1> QED BY <1>2, <1>3

\* The instant a snapshot is queued for is ahead, and within a cycle.
LEMMA KeptActivationAhead ==
  ASSUME NEW st, NEW t \in Nat, Sound(st, t), OnTime(st, t), Ahead(st, t),
         KeptActivation(st, t) # None
  PROVE  /\ KeptActivation(st, t) <= t + st.active.period
         /\ st.onAir => KeptActivation(st, t) > t
<1>1. st \in Station /\ Looped(st)
  BY DEF Sound
<1>2. CASE st.pending # None /\ st.pendingAt # None
  BY <1>2 DEF KeptActivation, OnTime, Ahead
<1>3. CASE ~(st.pending # None /\ st.pendingAt # None)
  <2>1. /\ st.onAir /\ st.started # None /\ st.active # None
        /\ KeptActivation(st, t) = NextLoopAt(st.started, t, st.active.period)
    BY <1>3 DEF KeptActivation, ActivationFor
  <2>2. st.started \in Nat /\ st.active \in Schedule /\ st.started <= t
    BY <1>1, <2>1 DEF Station, OnTime
  <2>3. st.active.period \in Nat \ {0}
    BY <2>2, ConstantsAssumption DEF Schedule
  <2> QED BY <2>1, <2>2, <2>3, NextLoopAhead
<1> QED BY <1>2, <1>3

\* What a publication does to the loop on air: nothing, or, where there is none on air,
\* it takes the place of the loop that was left.
LoopUntouched(st, q) ==
  /\ q.onAir = st.onAir /\ q.calendar = st.calendar
  /\ \/ q.active = st.active /\ q.started = st.started /\ q.paused = st.paused
     \/ ~st.onAir /\ q.paused = None

LEMMA QueuedOnTime ==
  ASSUME NEW st, NEW t \in Nat, Sound(st, t), OnTime(st, t), Ahead(st, t),
         NEW s \in Schedule
  PROVE  LET q == Queued(st, st, s, t)
         IN  OnTime(q, t) /\ Ahead(q, t) /\ LoopUntouched(st, q)
<1>1. st \in Station
  BY DEF Sound
<1>2. /\ Queued(st, st, s, t).onAir = st.onAir /\ Queued(st, st, s, t).calendar = st.calendar
      /\ Queued(st, st, s, t).active = st.active /\ Queued(st, st, s, t).started = st.started
      /\ Queued(st, st, s, t).paused = st.paused
      /\ Queued(st, st, s, t).pendingAt = KeptActivation(st, t)
  BY <1>1 DEF Queued, Station
<1> QED BY <1>2, KeptActivationAhead DEF OnTime, Ahead, LoopUntouched

LEMMA ActivatedOnTime ==
  ASSUME NEW st, NEW t \in Nat, Sound(st, t), NEW s \in Schedule
  PROVE  LET q == Activated(st, st, s, t)
         IN  /\ OnTime(q, t) /\ Ahead(q, t)
             /\ q.onAir = st.onAir /\ q.calendar = st.calendar /\ q.active = s
             /\ q.started = (IF st.onAir THEN t ELSE None)
             /\ q.pending = None /\ q.pendingAt = None /\ q.paused = None
<1>1. st \in Station
  BY DEF Sound
<1>2. LET q == Activated(st, st, s, t)
      IN  /\ q.onAir = st.onAir /\ q.calendar = st.calendar /\ q.active = s
          /\ q.started = (IF st.onAir THEN t ELSE None)
          /\ q.pending = None /\ q.pendingAt = None /\ q.paused = None
  BY <1>1 DEF Activated, Station
<1> QED BY <1>2 DEF OnTime, Ahead

LEMMA PublishOnTime ==
  ASSUME NEW st, NEW t \in Nat, Sound(st, t), OnTime(st, t), Ahead(st, t),
         NEW l \in Playlist, NEW ready, NEW id \in ScheduleId
  PROVE  LET q == PublishAfter(st, st, l, ready, id, t)
         IN  OnTime(q, t) /\ Ahead(q, t) /\ LoopUntouched(st, q)
<1> DEFINE q == PublishAfter(st, st, l, ready, id, t)
           s == Snapshot(id, l)
<1>1. st \in Station /\ Looped(st) /\ s \in Schedule
  BY SnapshotType DEF Sound
<1>2. \/ q = st \/ q = Cleared(st, st)
      \/ q = Queued(st, st, s, t)
      \/ q = Activated(st, st, s, t) /\ ~Loops(st)
  BY DEF PublishAfter
<1>3. LET c == Cleared(st, st)
      IN  OnTime(c, t) /\ Ahead(c, t) /\ LoopUntouched(st, c)
  <2>1. LET c == Cleared(st, st)
        IN  /\ c.onAir = st.onAir /\ c.calendar = st.calendar /\ c.active = st.active
            /\ c.started = st.started /\ c.paused = st.paused /\ c.pendingAt = None
    BY <1>1 DEF Cleared, Station
  <2> QED BY <2>1 DEF OnTime, Ahead, LoopUntouched
<1>4. ~Loops(st) => ~st.onAir
  BY <1>1 DEF Loops, Looped
<1>5. LoopUntouched(st, st)
  BY DEF LoopUntouched
<1> HIDE DEF q, s
<1>6. OnTime(q, t) /\ Ahead(q, t) /\ LoopUntouched(st, q)
  <2>1. CASE q = st
    BY <1>5, <2>1
  <2>2. CASE q = Cleared(st, st)
    BY <1>3, <2>2
  <2>3. CASE q = Queued(st, st, s, t)
    BY <1>1, <2>3, QueuedOnTime
  <2>4. CASE q = Activated(st, st, s, t) /\ ~Loops(st)
    BY <1>1, <1>4, <2>4, ActivatedOnTime DEF LoopUntouched
  <2> QED BY <1>2, <2>1, <2>2, <2>3, <2>4
<1> QED BY <1>6 DEF q

LEMMA AirSound ==
  ASSUME AirInv
  PROVE  /\ now \in Nat /\ list \in Playlist
         /\ Sound(station, now) /\ AtBoundary(station)
         /\ Sound(Seen, now) /\ AtBoundary(Seen) /\ OnTime(Seen, now) /\ Ahead(Seen, now)
         /\ Seen.onAir = station.onAir /\ Seen.calendar = station.calendar
         /\ ~station.onAir => Seen = station
<1>1. now \in Nat /\ list \in Playlist /\ Sound(station, now) /\ AtBoundary(station)
  BY ConstantsAssumption DEF AirInv, LockedInv, IInv, TypeOK
<1>2. ~station.onAir => Seen = station
  BY DEF Seen, Promoted, Due
<1> QED BY <1>1, <1>2, PromotedSound, PromotedOnTime DEF AirInv, Seen

\* What the mapping makes of the rows.
AirFacts ==
  /\ station.onAir =>
       /\ Airing \in [loop : Schedule, since : 0 .. now] /\ Airing # None
       /\ Airing.loop.period \in Nat \ {0}
       /\ LeftAt = None
  /\ ~station.onAir => Airing = None
  /\ NextUp # None =>
       /\ station.onAir
       /\ NextUp \in [loop : Schedule, at : OnAir!CycleEnds(Airing, now)]
  /\ station.paused # None =>
       LeftAt # None /\ LeftAt = [loop |-> station.active, cycle |-> station.paused.cycle,
                                  offset |-> station.paused.offset]
  /\ station.paused = None => LeftAt = None

LEMMA MappedRows == AirInv => AirFacts
<1> SUFFICES ASSUME AirInv PROVE AirFacts
  OBVIOUS
<1>1. /\ now \in Nat /\ Sound(station, now)
      /\ Seen \in Station /\ Looped(Seen) /\ AtBoundary(Seen)
      /\ OnTime(Seen, now) /\ Ahead(Seen, now) /\ Seen.onAir = station.onAir
  BY AirSound DEF Sound
<1>2. ASSUME station.onAir
      PROVE  /\ Airing = [loop |-> Seen.active, since |-> Seen.started]
             /\ Seen.active \in Schedule /\ Seen.started \in 0 .. now
             /\ Seen.active.period \in Nat \ {0}
             /\ station.paused = None
  <2>1. Seen.active \in Schedule /\ Seen.started \in Nat /\ Seen.started <= now
    BY <1>1, <1>2 DEF Looped, OnTime, Station
  <2>2. station.paused = None
    BY <1>1, <1>2 DEF Sound, Saved
  <2>3. Seen.active.period \in Nat \ {0}
    BY <2>1, ConstantsAssumption DEF Schedule
  <2>4. Seen.started \in 0 .. now
    BY <1>1, <2>1
  <2>5. Airing = [loop |-> Seen.active, since |-> Seen.started]
    BY <1>1, <1>2 DEF Airing
  <2> QED BY <2>1, <2>2, <2>3, <2>4, <2>5
<1>3. station.onAir =>
        /\ Airing \in [loop : Schedule, since : 0 .. now] /\ Airing # None
        /\ Airing.loop.period \in Nat \ {0}
        /\ LeftAt = None
  <2> SUFFICES ASSUME station.onAir
               PROVE  /\ Airing \in [loop : Schedule, since : 0 .. now] /\ Airing # None
                      /\ Airing.loop.period \in Nat \ {0}
                      /\ LeftAt = None
    OBVIOUS
  <2>1. Airing \in [loop : Schedule, since : 0 .. now] /\ Airing.loop.period \in Nat \ {0}
    BY <1>2
  <2>2. Airing \in [loop : Schedule, since : Nat]
    BY <1>1, <1>2
  <2> QED BY <1>2, <2>1, <2>2, NoneAssumption DEF LeftAt
<1>4. ~station.onAir => Airing = None /\ NextUp = None
  BY <1>1 DEF Airing, NextUp
<1>5. ASSUME NextUp # None
      PROVE  /\ station.onAir
             /\ NextUp \in [loop : Schedule, at : OnAir!CycleEnds(Airing, now)]
  <2>1. /\ station.onAir /\ Seen.pendingAt # None
        /\ NextUp = [loop |-> Seen.pending, at |-> Seen.pendingAt]
    BY <1>1, <1>5 DEF NextUp
  <2>2. Seen.pending \in Schedule /\ Seen.pendingAt \in Nat
    BY <1>1, <2>1 DEF Looped, Station
  <2>3. /\ Seen.pendingAt > now /\ Seen.pendingAt <= now + Seen.active.period
        /\ (Seen.pendingAt - Seen.started) % Seen.active.period = 0
    BY <1>1, <2>1 DEF AtBoundary, OnTime, Ahead
  <2>4. Seen.pendingAt \in now + 1 .. now + Seen.active.period
    BY <1>1, <1>2, <2>1, <2>2, <2>3
  <2>5. Seen.pendingAt \in OnAir!CycleEnds(Airing, now)
    BY <1>2, <2>1, <2>3, <2>4 DEF OnAir!CycleEnds
  <2> QED BY <2>1, <2>2, <2>5
<1>6. station.paused # None =>
        LeftAt # None /\ LeftAt = [loop |-> station.active, cycle |-> station.paused.cycle,
                                   offset |-> station.paused.offset]
  <2> SUFFICES ASSUME station.paused # None
               PROVE  LeftAt # None
    BY DEF LeftAt
  <2>1. station.paused \in Paused /\ station.active \in Schedule
    BY <1>1 DEF Sound, Saved, Station
  <2>2. LeftAt \in [loop : Schedule, cycle : Nat, offset : Nat]
    BY <2>1 DEF LeftAt, Paused
  <2> QED BY <2>2, NoneAssumption
<1>7. station.paused = None => LeftAt = None
  BY DEF LeftAt
<1> QED BY <1>3, <1>4, <1>5, <1>6, <1>7 DEF AirFacts

LEMMA MappedRowsNext == AirInv' => AirFacts'
BY MappedRows, PTL

\* What is announced after a step is announced for the end of the cycle then on air.
LEMMA AnnouncedNext ==
  ASSUME AirInv', now' = now
  PROVE  OnAir!Announced(Airing')
<1>1. NextUp' = None \/ NextUp' \in [loop : Schedule, at : OnAir!CycleEnds(Airing', now)]
  BY MappedRowsNext DEF AirFacts
<1> QED BY <1>1 DEF OnAir!Announced

\* A step that leaves the loop on air alone changes what is announced, or forgets the
\* position of a stopped station, or nothing.
LEMMA LoopLeftAlone ==
  ASSUME AirInv, AirInv', now' = now, station'.calendar = station.calendar,
         Airing' = Airing, LeftAt' = LeftAt \/ (Airing = None /\ LeftAt' = None)
  PROVE  [OnAir!Next]_(OnAir!air)
<1>1. AirFacts /\ AirFacts'
  BY MappedRows, MappedRowsNext
<1>2. CASE LeftAt' # LeftAt
  <2>1. NextUp = None /\ NextUp' = None
    BY <1>1, <1>2 DEF AirFacts
  <2>2. OnAir!Forget
    BY <1>2, <2>1 DEF OnAir!Forget
  <2> QED BY <2>2 DEF OnAir!Next
<1>3. CASE LeftAt' = LeftAt
  <2>1. CASE NextUp' = None
    <3>1. OnAir!Withdraw
      BY <1>3, <2>1 DEF OnAir!Withdraw
    <3> QED BY <3>1 DEF OnAir!Next
  <2>2. CASE NextUp' # None
    <3>1. station'.onAir /\ Airing # None
          /\ NextUp' \in [loop : Schedule, at : OnAir!CycleEnds(Airing, now)]
      BY <1>1, <2>2 DEF AirFacts
    <3>2. CASE NextUp = None
      <4>1. OnAir!Announce
        BY <1>3, <3>1, <3>2 DEF OnAir!Announce
      <4> QED BY <4>1 DEF OnAir!Next
    <3>3. CASE NextUp # None
      <4>1. station.onAir /\ NextUp \in [loop : Schedule, at : OnAir!CycleEnds(Airing, now)]
            /\ Airing \in [loop : Schedule, since : 0 .. now]
            /\ Airing.loop.period \in Nat \ {0}
        BY <1>1, <3>3 DEF AirFacts
      <4>2. now \in Nat
        BY AirSound
      <4> DEFINE p == Airing.loop.period
                 s == Airing.since
      <4>3. /\ NextUp.at \in now + 1 .. now + p /\ (NextUp.at - s) % p = 0
            /\ NextUp'.at \in now + 1 .. now + p /\ (NextUp'.at - s) % p = 0
        BY <3>1, <4>1 DEF OnAir!CycleEnds
      <4>4. s \in Int /\ p \in Nat \ {0}
        BY <4>1
      <4> HIDE DEF s, p
      <4> DEFINE a == NextUp.at
                 b == NextUp'.at
      <4>5. b = a
        <5>1. /\ a \in now + 1 .. now + p /\ (a - s) % p = 0
              /\ b \in now + 1 .. now + p /\ (b - s) % p = 0
          BY <4>3
        <5> HIDE DEF a, b
        <5>2. now \in Int
          BY <4>2
        <5> QED BY <4>4, <5>1, <5>2, CycleEndUnique
      <4>6. NextUp' \in [loop : Schedule, at : {NextUp.at}]
        BY <3>1, <4>5
      <4>7. OnAir!Announce
        BY <1>3, <3>1, <3>3, <4>6 DEF OnAir!Announce
      <4> QED BY <4>7 DEF OnAir!Next
    <3> QED BY <3>2, <3>3
  <2> QED BY <2>1, <2>2
<1> QED BY <1>2, <1>3

(* The steps: what each leaves on time, and what viewers see of it. *)

\* A publication that waits, or that is for a stopped station.
Waits ==
  /\ now' = now /\ OnTime(station', now) /\ Ahead(station', now)
  /\ LoopUntouched(Seen, station')

\* A publication that is on air at once.
PutOnAir ==
  /\ now' = now /\ OnTime(station', now)
  /\ station.onAir /\ station'.onAir /\ station'.calendar = station.calendar
  /\ station'.active \in Schedule /\ station'.started = now
  /\ station'.pending = None /\ station'.pendingAt = None /\ station'.paused = None

LEMMA EditAir ==
  ASSUME AirInv, Edit
  PROVE  Waits
<1>1. PICK items \in SUBSET Video, period \in Periods, id \in NewIds :
        /\ list' = [version |-> list.version + 1, items |-> items, period |-> period]
        /\ station' = PublishAfter(Seen, Seen, list', delivered, id, now)
  BY DEF Edit, Seen
<1>2. /\ now \in Nat /\ Sound(station, now)
      /\ Sound(Seen, now) /\ OnTime(Seen, now) /\ Ahead(Seen, now)
  BY AirSound
<1>3. list' \in Playlist
  BY <1>1, ConstantsAssumption DEF AirInv, LockedInv, IInv, TypeOK, Playlist, Edit
<1>4. id \in ScheduleId
  BY <1>2, FreshId
<1>5. OnTime(station', now) /\ Ahead(station', now) /\ LoopUntouched(Seen, station')
  BY <1>1, <1>2, <1>3, <1>4, PublishOnTime
<1> QED BY <1>5 DEF Waits, Edit

LEMMA ToggleAir ==
  ASSUME AirInv, ToggleAuto
  PROVE  Waits
<1> DEFINE st == [Seen EXCEPT !.auto = ~station.auto]
<1>1. PICK id \in NewIds : station' = PublishAfter(st, st, list, delivered, id, now)
  BY DEF ToggleAuto, Seen
<1>2. /\ now \in Nat /\ list \in Playlist /\ Sound(station, now)
      /\ Sound(Seen, now) /\ OnTime(Seen, now) /\ Ahead(Seen, now)
  BY AirSound
<1>3. id \in ScheduleId
  BY <1>2, FreshId
<1>4. Seen \in Station /\ station.auto \in BOOLEAN
  BY <1>2 DEF Sound, Station
<1>5. st \in Station
  BY <1>4 DEF Station
<1>6. /\ st.active = Seen.active /\ st.started = Seen.started /\ st.onAir = Seen.onAir
      /\ st.pending = Seen.pending /\ st.pendingAt = Seen.pendingAt
      /\ st.paused = Seen.paused /\ st.calendar = Seen.calendar
  BY <1>4 DEF Station
<1> HIDE DEF st
<1>7. Sound(st, now) /\ OnTime(st, now) /\ Ahead(st, now)
  BY <1>2, <1>5, <1>6 DEF Sound, Looped, Saved, Distinct, OnTime, Ahead
<1>8. OnTime(station', now) /\ Ahead(station', now) /\ LoopUntouched(st, station')
  BY <1>1, <1>2, <1>3, <1>7, PublishOnTime
<1>9. LoopUntouched(Seen, station')
  BY <1>6, <1>8 DEF LoopUntouched
<1> QED BY <1>8, <1>9 DEF Waits, ToggleAuto

LEMMA ApplyAir ==
  ASSUME AirInv, NEW nextLoop, Apply(nextLoop)
  PROVE  Waits \/ PutOnAir
<1>1. PICK id \in NewIds :
        \/ station' = Queued(Seen, Seen, Snapshot(id, list), now)
        \/ station' = Activated(Seen, Seen, Snapshot(id, list), now)
  BY DEF Apply, Seen
<1>2. /\ now \in Nat /\ list \in Playlist /\ Sound(station, now)
      /\ Sound(Seen, now) /\ OnTime(Seen, now) /\ Ahead(Seen, now)
      /\ Seen.onAir = station.onAir /\ Seen.calendar = station.calendar
  BY AirSound
<1>3. Snapshot(id, list) \in Schedule
  BY <1>2, FreshId, SnapshotType
<1>4. now' = now
  BY DEF Apply
<1>5. CASE station' = Queued(Seen, Seen, Snapshot(id, list), now)
  <2>1. OnTime(station', now) /\ Ahead(station', now) /\ LoopUntouched(Seen, station')
    BY <1>2, <1>3, <1>5, QueuedOnTime
  <2> QED BY <1>4, <2>1 DEF Waits
<1>6. CASE station' = Activated(Seen, Seen, Snapshot(id, list), now)
  <2>1. /\ OnTime(station', now) /\ Ahead(station', now)
        /\ station'.onAir = Seen.onAir /\ station'.calendar = Seen.calendar
        /\ station'.active = Snapshot(id, list)
        /\ station'.started = (IF Seen.onAir THEN now ELSE None)
        /\ station'.pending = None /\ station'.pendingAt = None /\ station'.paused = None
    BY <1>2, <1>3, <1>6, ActivatedOnTime
  <2> QED BY <1>2, <1>3, <1>4, <2>1 DEF Waits, PutOnAir, LoopUntouched
<1> QED BY <1>1, <1>5, <1>6

LEMMA StopAir ==
  ASSUME AirInv, StopStation
  PROVE  LET st == IF station.calendar THEN station ELSE Seen
             saved == ~st.calendar /\ st.active # None /\ st.started # None
             position == PositionAt(st.started, now, st.active.period)
         IN  /\ now' = now /\ station.onAir /\ ~station'.onAir
             /\ station'.calendar = station.calendar
             /\ station'.active = st.active /\ OnTime(station', now)
             /\ station'.paused = IF saved
                                  THEN [schedule |-> st.active.id, cycle |-> position.cycle,
                                        offset |-> position.offset]
                                  ELSE None
<1> DEFINE st == IF station.calendar THEN station ELSE Seen
           saved == ~st.calendar /\ st.active # None /\ st.started # None
           position == PositionAt(st.started, now, st.active.period)
           paused == IF saved
                     THEN [schedule |-> st.active.id, cycle |-> position.cycle,
                           offset |-> position.offset]
                     ELSE None
<1>1. /\ now' = now /\ station.onAir
      /\ station' = [st EXCEPT !.onAir = FALSE, !.paused = paused]
  BY DEF StopStation, Seen
<1>2. st \in Station /\ OnTime(st, now) /\ st.calendar = station.calendar
  <2>1. station \in Station /\ OnTime(station, now)
    BY AirSound DEF AirInv, Sound
  <2>2. Seen \in Station /\ OnTime(Seen, now) /\ Seen.calendar = station.calendar
    BY AirSound DEF Sound
  <2> QED BY <2>1, <2>2
<1> HIDE DEF st, paused
<1>3. /\ ~station'.onAir /\ station'.calendar = station.calendar
      /\ station'.active = st.active /\ station'.started = st.started
      /\ station'.pendingAt = st.pendingAt /\ station'.paused = paused
  BY <1>1, <1>2 DEF Station
<1> QED BY <1>1, <1>2, <1>3 DEF OnTime, paused, st

LEMMA RestartAir ==
  ASSUME AirInv, StartRestart
  PROVE  /\ now' = now /\ ~station.onAir /\ station'.onAir
         /\ station'.calendar = station.calendar /\ OnTime(station', now)
         /\ station'.active \in Schedule /\ station'.started = now
         /\ station'.pending = None /\ station'.pendingAt = None /\ station'.paused = None
<1>1. station \in Station /\ now \in Nat
  BY AirSound DEF Sound
<1>2. /\ now' = now /\ ~station.onAir /\ station'.onAir
      /\ station'.calendar = station.calendar
      /\ station'.active = IF station.pending # None THEN station.pending ELSE station.active
      /\ station'.started = now
      /\ station'.pending = None /\ station'.pendingAt = None /\ station'.paused = None
      /\ station.active # None \/ station.pending # None
  BY <1>1 DEF StartRestart, MayStart, Station
<1>3. station'.active \in Schedule
  BY <1>1, <1>2 DEF Station
<1> QED BY <1>1, <1>2, <1>3 DEF OnTime

LEMMA ResumeAir ==
  ASSUME AirInv, StartResume
  PROVE  /\ now' = now /\ ~station.onAir /\ ~station.calendar /\ station.paused # None
         /\ station'.onAir /\ ~station'.calendar /\ station'.paused = None
         /\ station'.active = station.active
         /\ station'.started = now - station.paused.cycle * station.active.period
                                   - station.paused.offset
         /\ OnTime(station', now) /\ Ahead(station', now)
<1> DEFINE p == station.active.period
           start == ResumedStart(now, station.paused, p)
           at == IF station.pending # None THEN NextLoopAt(start, now, p) ELSE None
<1>1. station \in Station /\ now \in Nat /\ Sound(station, now)
  BY AirSound DEF Sound
<1>2. /\ now' = now /\ ~station.onAir /\ ~station.calendar
      /\ station.paused # None /\ station.active # None
      /\ station' = [station EXCEPT !.onAir = TRUE, !.started = start, !.paused = None,
                                    !.pendingAt = at]
  BY DEF StartResume, MayStart
<1>3. /\ station'.onAir /\ ~station'.calendar /\ station'.paused = None
      /\ station'.active = station.active /\ station'.started = start
      /\ station'.pendingAt = at
  BY <1>1, <1>2 DEF Station
<1>4. p \in Nat \ {0} /\ station.paused \in Paused
  <2>1. station.active \in Schedule /\ station.paused \in Paused
    BY <1>1, <1>2 DEF Station
  <2> QED BY <2>1, ConstantsAssumption DEF Schedule
<1>5. station.paused.offset < p /\ station.paused.cycle * p + station.paused.offset <= now
  BY <1>1, <1>2 DEF Sound, Saved
<1> HIDE DEF p
<1>6. start \in Nat /\ start <= now
  <2>1. start \in Nat
    BY <1>1, <1>4, <1>5, ResumedPosition
  <2>2. station.paused.cycle \in Nat /\ station.paused.offset \in Nat
    BY <1>4 DEF Paused
  <2>3. station.paused.cycle * p \in Nat
    BY <1>4, <2>2
  <2> QED BY <1>1, <2>1, <2>2, <2>3 DEF ResumedStart
<1>7. start = now - station.paused.cycle * p - station.paused.offset
  BY DEF ResumedStart
<1> HIDE DEF start
<1>8. at # None => at > now /\ at <= now + p
  BY <1>1, <1>4, <1>6, NextLoopAhead
<1> QED BY <1>2, <1>3, <1>6, <1>7, <1>8 DEF OnTime, Ahead, p

LEMMA CalendarAir ==
  ASSUME AirInv, StartCalendar
  PROVE  /\ now' = now /\ ~station.onAir /\ station.calendar
         /\ station'.onAir /\ station'.calendar /\ station'.paused = None
         /\ OnTime(station', now)
<1>1. station \in Station /\ now \in Nat /\ OnTime(station, now)
  BY AirSound DEF AirInv, Sound
<1>2. /\ now' = now /\ ~station.onAir /\ station.calendar
      /\ station' = [station EXCEPT !.onAir = TRUE, !.paused = None,
                                    !.started = IF station.started = None
                                                THEN now ELSE station.started]
  BY DEF StartCalendar, MayStart
<1>3. /\ station'.onAir /\ station'.calendar /\ station'.paused = None
      /\ station'.active = station.active /\ station'.pendingAt = station.pendingAt
      /\ station'.started = IF station.started = None THEN now ELSE station.started
  BY <1>1, <1>2 DEF Station
<1> QED BY <1>1, <1>2, <1>3 DEF OnTime

\* Promoting late is nothing to see: the row says afterwards what was seen before.
LEMMA PromoteAir ==
  ASSUME AirInv, PromoteDue
  PROVE  /\ now' = now /\ station' = Seen /\ OnTime(station', now) /\ Ahead(station', now)
BY AirSound DEF PromoteDue, Seen

LEMMA RowAir ==
  ASSUME AirInv, ActivateCalendar \/ Delete \/ Restore
  PROVE  /\ now' = now
         /\ station'.active = station.active /\ station'.started = station.started
         /\ station'.pending = station.pending /\ station'.pendingAt = station.pendingAt
         /\ station'.paused = station.paused
         /\ station'.onAir = (station.onAir /\ ~Delete)
         /\ ActivateCalendar => ~station.calendar /\ station'.calendar
         /\ ~ActivateCalendar => station'.calendar = station.calendar
<1>1. station \in Station
  BY AirSound DEF Sound
<1>2. CASE ActivateCalendar
  <2>1. ~Delete
    BY <1>1, <1>2 DEF ActivateCalendar, Delete, Station
  <2> QED BY <1>1, <1>2, <2>1 DEF ActivateCalendar, Station
<1>3. CASE Delete
  <2>1. ~ActivateCalendar
    BY <1>1, <1>3 DEF ActivateCalendar, Delete, Station
  <2> QED BY <1>1, <1>3, <2>1 DEF Delete, Station
<1>4. CASE Restore
  <2>1. ~ActivateCalendar /\ ~Delete
    BY <1>1, <1>4 DEF ActivateCalendar, Delete, Restore, Station
  <2> QED BY <1>1, <1>4, <2>1 DEF Restore, Station
<1> QED BY <1>2, <1>3, <1>4

LEMMA NoWorkerStep ==
  ASSUME AirInv, Jobs = {}
  PROVE  \A v \in Video : ~WorkerSelect(v) /\ ~WorkerRead(v) /\ ~WorkerCommit(v)
BY DEF AirInv, LockedInv, NoWorker, WorkerSelect, WorkerRead, WorkerCommit, Idle

LEMMA StepAirInv ==
  ASSUME AirInv, Jobs = {}, [Next]_vars
  PROVE  AirInv'
<1>1. LockedInv'
  BY StepLocked DEF AirInv
<1>2. station \in Station /\ now \in Nat /\ OnTime(station, now)
  BY AirSound DEF AirInv, Sound
<1>3. OnTime(station', now')
  <2>1. CASE Edit \/ ToggleAuto
    BY <2>1, EditAir, ToggleAir DEF Waits
  <2>2. CASE Apply(TRUE) \/ Apply(FALSE)
    BY <2>2, ApplyAir DEF Waits, PutOnAir
  <2>3. CASE StopStation
    <3>1. now' = now /\ OnTime(station', now)
      BY <2>3, StopAir
    <3> QED BY <3>1
  <2>4. CASE StartRestart
    <3>1. now' = now /\ OnTime(station', now)
      BY <2>4, RestartAir
    <3> QED BY <3>1
  <2>5. CASE StartResume
    <3>1. now' = now /\ OnTime(station', now)
      BY <2>5, ResumeAir
    <3> QED BY <3>1
  <2>6. CASE StartCalendar
    <3>1. now' = now /\ OnTime(station', now)
      BY <2>6, CalendarAir
    <3> QED BY <3>1
  <2>7. CASE ActivateCalendar \/ Delete \/ Restore
    <3>1. /\ now' = now /\ station'.active = station.active
          /\ station'.started = station.started /\ station'.pendingAt = station.pendingAt
      BY <2>7, RowAir
    <3> QED BY <1>2, <3>1 DEF OnTime
  <2>8. CASE PromoteDue
    <3>1. now' = now /\ OnTime(station', now)
      BY <2>8, PromoteAir
    <3> QED BY <3>1
  <2>9. CASE Tick
    <3>1. station' = station /\ now' = now + 1
      BY <2>9 DEF Tick
    <3>2. /\ station.started # None => station.started \in Nat
          /\ station.pendingAt # None =>
               station.pendingAt \in Nat /\ station.active.period \in Nat
      <4>1. Looped(station)
        BY AirSound DEF Sound
      <4>2. station.active # None => station.active \in Schedule
        BY <1>2 DEF Station
      <4> QED BY <1>2, <4>1, <4>2, ConstantsAssumption DEF Looped, Station, Schedule
    <3> QED BY <1>2, <3>1, <3>2 DEF OnTime
  <2>10. CASE UNCHANGED vars
    BY <1>2, <2>10 DEF vars
  <2> QED
    BY <2>1, <2>2, <2>3, <2>4, <2>5, <2>6, <2>7, <2>8, <2>9, <2>10, NoWorkerStep DEF Next
<1> QED BY <1>1, <1>3 DEF AirInv

LEMMA AirInvariance ==
  ASSUME Jobs = {}
  PROVE  Spec => []AirInv
<1>1. Init => OnTime(station, now)
  BY DEF Init, OnTime
<1>2. LockedInv /\ OnTime(station, now) => AirInv
  BY DEF AirInv
<1>3. AirInv /\ [Next]_vars => AirInv'
  BY StepAirInv
<1>4. AirInv => OnTime(station, now)
  BY DEF AirInv
<1> QED BY <1>1, <1>2, <1>3, <1>4, LockedInvariance, PTL DEF Spec

LEMMA SeenNext ==
  ASSUME AirInv', now' = now, ~station'.onAir \/ Ahead(station', now)
  PROVE  Seen' = station'
<1>1. station' \in Station /\ now \in Nat
  BY ConstantsAssumption DEF AirInv, LockedInv, IInv, TypeOK
<1>2. ~Due(station)'
  <2>1. station'.onAir /\ station'.pendingAt # None =>
          station'.pendingAt \in Nat /\ station'.pendingAt > now
    BY <1>1 DEF Ahead, Station
  <2> QED BY <1>1, <2>1 DEF Due
<1> QED BY <1>2 DEF Seen, Promoted

LEMMA WaitsMapped ==
  ASSUME AirInv, AirInv', Waits
  PROVE  [OnAir!Next]_(OnAir!air)
<1>1. /\ now' = now /\ Ahead(station', now) /\ LoopUntouched(Seen, station')
      /\ Seen.onAir = station.onAir /\ Seen.calendar = station.calendar
      /\ ~station.onAir => Seen = station
  BY AirSound DEF Waits
<1>2. Seen' = station'
  BY <1>1, SeenNext
<1>3. AirFacts /\ AirFacts'
  BY MappedRows, MappedRowsNext
<1>4. Airing' = Airing /\ (LeftAt' = LeftAt \/ (Airing = None /\ LeftAt' = None))
  <2>1. CASE station.onAir
    <3>1. LeftAt = None /\ LeftAt' = None
      BY <1>1, <1>3, <2>1 DEF AirFacts, LoopUntouched
    <3>2. Airing' = Airing
      BY <1>1, <1>2, <2>1 DEF Airing, LoopUntouched
    <3> QED BY <3>1, <3>2
  <2>2. CASE ~station.onAir
    <3>1. Airing = None /\ Airing' = None
      BY <1>1, <1>3, <2>2 DEF AirFacts, LoopUntouched
    <3>2. LeftAt' = LeftAt \/ LeftAt' = None
      BY <1>1, <1>3, <2>2 DEF AirFacts, LoopUntouched, LeftAt
    <3> QED BY <3>1, <3>2
  <2> QED BY <2>1, <2>2
<1> QED BY <1>1, <1>4, LoopLeftAlone DEF LoopUntouched

LEMMA PutOnAirMapped ==
  ASSUME AirInv, AirInv', PutOnAir
  PROVE  OnAir!Replace
<1>1. Seen' = station'
  BY SeenNext DEF PutOnAir, Ahead
<1>2. AirFacts /\ AirFacts'
  BY MappedRows, MappedRowsNext
<1>3. Airing' = [loop |-> station'.active, since |-> now] /\ NextUp' = None
  BY <1>1 DEF PutOnAir, Airing, NextUp
<1>4. Airing # None /\ LeftAt = None /\ LeftAt' = None
  BY <1>2 DEF PutOnAir, AirFacts
<1> QED BY <1>3, <1>4 DEF OnAir!Replace, PutOnAir

LEMMA StopMapped ==
  ASSUME AirInv, AirInv', StopStation
  PROVE  OnAir!Stop
<1> DEFINE st == IF station.calendar THEN station ELSE Seen
           saved == ~st.calendar /\ st.active # None /\ st.started # None
           position == PositionAt(st.started, now, st.active.period)
<1>1. /\ now' = now /\ station.onAir /\ ~station'.onAir
      /\ station'.calendar = station.calendar /\ station'.active = st.active
      /\ station'.paused = IF saved
                           THEN [schedule |-> st.active.id, cycle |-> position.cycle,
                                 offset |-> position.offset]
                           ELSE None
  BY StopAir
<1>2. AirFacts /\ AirFacts'
  BY MappedRows, MappedRowsNext
<1>3. Airing # None /\ Airing' = None /\ NextUp' = None
  BY <1>1, <1>2 DEF AirFacts
<1>4. CASE station.calendar
  <2>1. station'.paused = None
    BY <1>1, <1>4
  <2>2. LeftAt' = None
    BY <1>2, <2>1 DEF AirFacts
  <2> QED BY <1>1, <1>3, <1>4, <2>2 DEF OnAir!Stop
<1>5. CASE ~station.calendar
  <2>1. /\ st = Seen /\ Seen.onAir /\ ~Seen.calendar
        /\ Seen.active # None /\ Seen.started # None
        /\ Seen.started \in Nat /\ Seen.started <= now /\ now \in Nat
    <3>1. /\ Seen \in Station /\ Looped(Seen) /\ OnTime(Seen, now) /\ now \in Nat
          /\ Seen.onAir = station.onAir /\ Seen.calendar = station.calendar
      BY AirSound DEF Sound
    <3> QED BY <1>1, <1>5, <3>1 DEF Looped, OnTime, Station
  <2>2. Airing = [loop |-> Seen.active, since |-> Seen.started]
    BY <2>1 DEF Airing
  <2>3. Elapsed(Seen.started, now) = now - Seen.started
    BY <2>1 DEF Elapsed
  <2>4. /\ position.cycle = (now - Airing.since) \div Airing.loop.period
        /\ position.offset = (now - Airing.since) % Airing.loop.period
    BY <2>1, <2>2, <2>3 DEF PositionAt
  <2> HIDE DEF position
  <2>5. station'.paused = [schedule |-> Seen.active.id, cycle |-> position.cycle,
                           offset |-> position.offset]
    BY <1>1, <2>1
  <2>6. station'.paused # None
    <3>1. Seen.active \in Schedule /\ Seen.active.period \in Nat \ {0}
      BY <1>1, <1>2, <2>2 DEF AirFacts
    <3>2. Seen.active.id \in ScheduleId
      BY <3>1 DEF Schedule
    <3>3. position.cycle \in Nat /\ position.offset \in Nat
      <4> DEFINE e == now - Seen.started
                 p == Seen.active.period
      <4>1. e \in Nat /\ p \in Nat \ {0}
        BY <2>1, <3>1
      <4>2. e \div p \in Nat /\ e % p \in 0 .. (p - 1)
        <5> HIDE DEF e, p
        <5> QED BY <4>1, Division
      <4> QED BY <2>2, <2>4, <4>2
    <3>4. station'.paused \in Paused
      BY <2>5, <3>2, <3>3 DEF Paused
    <3> QED BY <3>4, NoneAssumption
  <2>7. LeftAt' = [loop |-> Airing.loop,
                   cycle |-> (now - Airing.since) \div Airing.loop.period,
                   offset |-> (now - Airing.since) % Airing.loop.period]
    BY <1>1, <2>1, <2>2, <2>4, <2>5, <2>6 DEF LeftAt
  <2> QED BY <1>1, <1>3, <1>5, <2>7 DEF OnAir!Stop
<1> QED BY <1>4, <1>5

LEMMA RestartMapped ==
  ASSUME AirInv, AirInv', StartRestart
  PROVE  OnAir!Begin
<1>1. /\ now' = now /\ ~station.onAir /\ station'.onAir
      /\ station'.calendar = station.calendar
      /\ station'.active \in Schedule /\ station'.started = now
      /\ station'.pending = None /\ station'.pendingAt = None /\ station'.paused = None
  BY RestartAir
<1>2. Seen' = station'
  BY <1>1, SeenNext DEF Ahead
<1>3. AirFacts /\ AirFacts'
  BY MappedRows, MappedRowsNext
<1>4. /\ Airing = None /\ Airing' = [loop |-> station'.active, since |-> now]
      /\ NextUp' = None /\ LeftAt' = None
  BY <1>1, <1>2, <1>3 DEF AirFacts, Airing, NextUp
<1> QED BY <1>1, <1>4 DEF OnAir!Begin

LEMMA ResumeMapped ==
  ASSUME AirInv, AirInv', StartResume
  PROVE  OnAir!Resume
<1>1. /\ now' = now /\ ~station.onAir /\ ~station.calendar /\ station.paused # None
      /\ station'.onAir /\ ~station'.calendar /\ station'.paused = None
      /\ station'.active = station.active
      /\ station'.started = now - station.paused.cycle * station.active.period
                                - station.paused.offset
      /\ Ahead(station', now)
  BY ResumeAir
<1>2. Seen' = station'
  BY <1>1, SeenNext
<1>3. AirFacts /\ AirFacts'
  BY MappedRows, MappedRowsNext
<1>4. /\ Airing = None /\ LeftAt # None /\ LeftAt' = None
      /\ Airing' = [loop |-> LeftAt.loop,
                    since |-> now - LeftAt.cycle * LeftAt.loop.period - LeftAt.offset]
  BY <1>1, <1>2, <1>3 DEF AirFacts, Airing
<1>5. OnAir!Announced(Airing')
  BY <1>1, AnnouncedNext
<1>6. station'.calendar = station.calendar
  BY <1>1, AirSound DEF Sound, Station, AirInv, LockedInv, IInv, TypeOK
<1> QED BY <1>1, <1>4, <1>5, <1>6 DEF OnAir!Resume

LEMMA CalendarMapped ==
  ASSUME AirInv, AirInv', StartCalendar
  PROVE  OnAir!RunOn
<1>1. /\ now' = now /\ ~station.onAir /\ station.calendar
      /\ station'.onAir /\ station'.calendar /\ station'.paused = None
  BY CalendarAir
<1>2. AirFacts /\ AirFacts'
  BY MappedRows, MappedRowsNext
<1>3. /\ Airing = None /\ LeftAt' = None
      /\ Airing' \in [loop : Schedule, since : 0 .. now]
  BY <1>1, <1>2 DEF AirFacts
<1>4. OnAir!Announced(Airing')
  BY <1>1, AnnouncedNext
<1>5. station'.calendar = station.calendar
  BY <1>1, AirSound DEF Sound, Station, AirInv, LockedInv, IInv, TypeOK
<1> QED BY <1>1, <1>3, <1>4, <1>5 DEF OnAir!RunOn

LEMMA RowMapped ==
  ASSUME AirInv, AirInv', ActivateCalendar \/ Delete \/ Restore
  PROVE  [OnAir!Next]_(OnAir!air)
<1>1. /\ now' = now
      /\ station'.active = station.active /\ station'.started = station.started
      /\ station'.pending = station.pending /\ station'.pendingAt = station.pendingAt
      /\ station'.paused = station.paused
      /\ station'.onAir = (station.onAir /\ ~Delete)
      /\ ActivateCalendar => ~station.calendar /\ station'.calendar
      /\ ~ActivateCalendar => station'.calendar = station.calendar
  BY RowAir
<1>2. AirFacts /\ AirFacts'
  BY MappedRows, MappedRowsNext
<1>3. station \in Station /\ station' \in Station /\ now \in Nat
  BY ConstantsAssumption DEF AirInv, LockedInv, IInv, TypeOK
<1>4. LeftAt' = LeftAt
  BY <1>1 DEF LeftAt
<1>5. ASSUME ~Delete
      PROVE  Airing' = Airing /\ NextUp' = NextUp
  <2>1. Due(station)' <=> Due(station)
    BY <1>1, <1>5 DEF Due
  <2>2. /\ Seen'.onAir = Seen.onAir /\ Seen'.active = Seen.active
        /\ Seen'.started = Seen.started /\ Seen'.pending = Seen.pending
        /\ Seen'.pendingAt = Seen.pendingAt
    BY <1>1, <1>3, <1>5, <2>1 DEF Seen, Promoted, Station
  <2> QED BY <2>2 DEF Airing, NextUp
<1>6. CASE ActivateCalendar
  <2>1. ~Delete
    BY <1>1, <1>3, <1>6 DEF ActivateCalendar, Delete, Station
  <2>2. OnAir!EnterCalendar
    BY <1>1, <1>4, <1>5, <1>6, <2>1 DEF OnAir!EnterCalendar
  <2> QED BY <2>2 DEF OnAir!Next
<1>7. CASE Delete /\ ~ActivateCalendar
  <2>1. Airing' = None /\ NextUp' = None
    BY <1>1, <1>2, <1>7 DEF AirFacts
  <2>2. CASE station.onAir
    <3>1. Airing # None /\ LeftAt' = None
      BY <1>2, <1>4, <2>2 DEF AirFacts
    <3>2. OnAir!TakeOff
      BY <1>1, <1>7, <2>1, <3>1 DEF OnAir!TakeOff
    <3> QED BY <3>2 DEF OnAir!Next
  <2>3. CASE ~station.onAir
    <3>1. Airing = None
      BY <1>2, <2>3 DEF AirFacts
    <3> QED BY <1>1, <1>4, <1>7, <2>1, <3>1, LoopLeftAlone
  <2> QED BY <2>2, <2>3
<1>8. CASE ~Delete /\ ~ActivateCalendar
  BY <1>1, <1>4, <1>5, <1>8, LoopLeftAlone
<1> QED BY <1>6, <1>7, <1>8

LEMMA PromoteMapped ==
  ASSUME AirInv, AirInv', PromoteDue
  PROVE  [OnAir!Next]_(OnAir!air)
<1>1. now' = now /\ station' = Seen /\ Ahead(station', now)
  BY PromoteAir
<1>2. Seen' = station' /\ Seen.onAir = station.onAir /\ Seen.calendar = station.calendar
  BY <1>1, SeenNext, AirSound
<1>3. AirFacts /\ AirFacts' /\ station.onAir
  BY MappedRows, MappedRowsNext DEF PromoteDue, Due
<1>4. Airing' = Airing
  BY <1>1, <1>2 DEF Airing
<1>5. LeftAt' = None /\ LeftAt = None
  BY <1>1, <1>2, <1>3 DEF AirFacts
<1> QED BY <1>1, <1>2, <1>4, <1>5, LoopLeftAlone

\* The switch itself: what is announced for the instant that comes is then due.
LEMMA TickMapped ==
  ASSUME AirInv, AirInv', Tick
  PROVE  OnAir!Tick
<1>1. station' = station /\ now' = now + 1
  BY DEF Tick
<1>2. /\ now \in Nat /\ station \in Station /\ Looped(station) /\ Looped(Seen) /\ Seen \in Station
      /\ Ahead(Seen, now) /\ Seen.onAir = station.onAir
  BY AirSound DEF Sound
<1>3. AirFacts
  BY MappedRows
<1>4. LeftAt' = LeftAt
  BY <1>1 DEF LeftAt
<1>5. CASE Due(station)
  <2>1. Due(station)'
    BY <1>1, <1>2, <1>5 DEF Due, Station
  <2>2. Seen' = Seen
    BY <1>1, <1>5, <2>1 DEF Seen, Promoted
  <2>3. NextUp = None
    BY <1>2, <1>5 DEF NextUp, Seen, Promoted, Station
  <2>4. Airing' = Airing /\ NextUp' = NextUp
    BY <2>2 DEF Airing, NextUp
  <2> QED BY <1>1, <1>4, <2>3, <2>4 DEF OnAir!Tick
<1>6. CASE ~Due(station)
  <2>1. Seen = station
    BY <1>6 DEF Seen, Promoted
  <2>2. CASE Due(station)'
    <3>1. /\ station.onAir /\ station.pending # None /\ station.pendingAt # None
          /\ station.pendingAt <= now + 1
      BY <1>1, <2>2 DEF Due
    <3>2. station.pendingAt \in Nat /\ station.pendingAt > now
      BY <1>2, <2>1, <3>1 DEF Ahead, Station
    <3>3. station.pendingAt = now + 1
      BY <1>2, <3>1, <3>2
    <3>4. NextUp = [loop |-> station.pending, at |-> now + 1]
      BY <2>1, <3>1, <3>3 DEF NextUp
    <3>5. /\ Seen'.onAir /\ Seen'.active = station.pending
          /\ Seen'.started = now + 1 /\ Seen'.pendingAt = None
      BY <1>1, <1>2, <2>2, <3>1, <3>3 DEF Seen, Promoted, Station
    <3>6. Airing' = [loop |-> station.pending, since |-> now + 1] /\ NextUp' = None
      BY <3>5 DEF Airing, NextUp
    <3>7. NextUp # None
      <4>1. station.pending \in Schedule
        BY <1>2, <3>1 DEF Station
      <4>2. NextUp \in [loop : Schedule, at : Nat]
        BY <1>2, <3>4, <4>1
      <4> QED BY <4>2, NoneAssumption
    <3> QED BY <1>1, <1>4, <3>4, <3>6, <3>7 DEF OnAir!Tick
  <2>3. CASE ~Due(station)'
    <3>1. Seen' = Seen
      BY <1>1, <2>1, <2>3 DEF Seen, Promoted
    <3>2. Airing' = Airing /\ NextUp' = NextUp
      BY <3>1 DEF Airing, NextUp
    <3>3. ~(NextUp # None /\ NextUp.at = now + 1)
      <4> SUFFICES ASSUME NextUp # None, NextUp.at = now + 1 PROVE FALSE
        OBVIOUS
      <4>1. station.onAir /\ station.pendingAt # None /\ station.pendingAt = now + 1
        BY <2>1 DEF NextUp
      <4>2. station.pending # None
        BY <1>2, <4>1 DEF Looped
      <4> QED BY <1>1, <1>2, <2>3, <4>1, <4>2 DEF Due
    <3> QED BY <1>1, <1>4, <3>2, <3>3 DEF OnAir!Tick
  <2> QED BY <2>2, <2>3
<1> QED BY <1>5, <1>6

LEMMA StepMapped ==
  ASSUME AirInv, AirInv', Jobs = {}, [Next]_vars
  PROVE  [OnAir!Next]_(OnAir!air)
<1>1. CASE Edit \/ ToggleAuto
  BY <1>1, EditAir, ToggleAir, WaitsMapped
<1>2. CASE Apply(TRUE) \/ Apply(FALSE)
  <2>1. Waits \/ PutOnAir
    BY <1>2, ApplyAir
  <2> QED BY <2>1, WaitsMapped, PutOnAirMapped DEF OnAir!Next
<1>3. CASE StopStation
  BY <1>3, StopMapped DEF OnAir!Next
<1>4. CASE StartRestart
  BY <1>4, RestartMapped DEF OnAir!Next
<1>5. CASE StartResume
  BY <1>5, ResumeMapped DEF OnAir!Next
<1>6. CASE StartCalendar
  BY <1>6, CalendarMapped DEF OnAir!Next
<1>7. CASE ActivateCalendar \/ Delete \/ Restore
  BY <1>7, RowMapped
<1>8. CASE PromoteDue
  BY <1>8, PromoteMapped
<1>9. CASE Tick
  BY <1>9, TickMapped DEF OnAir!Next
<1>10. CASE UNCHANGED vars
  BY <1>10 DEF vars, OnAir!air, Airing, NextUp, LeftAt, Seen, Promoted, Due
<1> QED
  BY <1>1, <1>2, <1>3, <1>4, <1>5, <1>6, <1>7, <1>8, <1>9, <1>10, NoWorkerStep DEF Next

LEMMA InitMapped ==
  ASSUME Init
  PROVE  OnAir!Init
<1>1. Seen = station
  BY DEF Init, Seen, Promoted, Due
<1> QED BY <1>1 DEF Init, OnAir!Init, Airing, NextUp, LeftAt

\* The rows implement the loop on air: viewers see its steps, or nothing.
THEOREM LoopOnAirImplemented ==
  ASSUME Jobs = {}
  PROVE  Spec => ImplementsLoopOnAir
<1>1. Init => OnAir!Init
  BY InitMapped
<1>2. AirInv /\ AirInv' /\ [Next]_vars => [OnAir!Next]_(OnAir!air)
  BY StepMapped
<1> QED BY <1>1, <1>2, AirInvariance, PTL DEF Spec, ImplementsLoopOnAir, OnAir!Spec

\* What is announced to viewers begins at the end of the cycle they are watching, so
\* within one length of the loop on air, through every replacement, stop and start.
THEOREM AnnouncedAlwaysNext ==
  ASSUME Jobs = {}
  PROVE  Spec => []OnAir!AnnouncedForCycleEnd
<1>1. AirInv => OnAir!AnnouncedForCycleEnd
  <2> SUFFICES ASSUME AirInv PROVE OnAir!AnnouncedForCycleEnd
    OBVIOUS
  <2>1. NextUp # None =>
          Airing # None /\ NextUp \in [loop : Schedule, at : OnAir!CycleEnds(Airing, now)]
    BY MappedRows DEF AirFacts
  <2> QED BY <2>1 DEF OnAir!AnnouncedForCycleEnd
<1> QED BY <1>1, AirInvariance, PTL

\* Viewers watch a loop to the end of a cycle, and then what was announced, unless its
\* owner replaces it at once or takes the station off the air.
THEOREM AlwaysWatchedToTheEnd ==
  ASSUME Jobs = {}
  PROVE  Spec => OnAir!WatchedToTheEnd
<1> DEFINE Watched ==
      Airing # None /\ Airing' # None /\ Airing' # Airing =>
        \/ now' = now /\ Airing'.since = now
        \/ /\ NextUp # None /\ Airing' = [loop |-> NextUp.loop, since |-> NextUp.at]
           /\ now' = NextUp.at /\ (now' - Airing.since) % Airing.loop.period = 0
<1>1. OnAir!AnnouncedForCycleEnd /\ [OnAir!Next]_(OnAir!air) => [Watched]_(OnAir!air)
  <2> SUFFICES ASSUME OnAir!AnnouncedForCycleEnd, OnAir!Next PROVE Watched
    OBVIOUS
  <2>1. CASE OnAir!Replace
    BY <2>1 DEF OnAir!Replace
  <2>2. CASE OnAir!Tick
    <3>1. CASE NextUp # None /\ NextUp.at = now'
      <4>1. NextUp.at \in OnAir!CycleEnds(Airing, now)
        BY <3>1 DEF OnAir!AnnouncedForCycleEnd
      <4>2. (now' - Airing.since) % Airing.loop.period = 0
        BY <3>1, <4>1 DEF OnAir!CycleEnds
      <4>3. Airing' = [loop |-> NextUp.loop, since |-> NextUp.at]
        BY <2>2, <3>1 DEF OnAir!Tick
      <4> QED BY <3>1, <4>2, <4>3
    <3>2. CASE ~(NextUp # None /\ NextUp.at = now')
      BY <2>2, <3>2 DEF OnAir!Tick
    <3> QED BY <3>1, <3>2
  <2>3. CASE ~OnAir!Replace /\ ~OnAir!Tick
    BY <2>3 DEF OnAir!Next, OnAir!Begin, OnAir!Resume, OnAir!RunOn, OnAir!Stop, OnAir!TakeOff,
         OnAir!Announce, OnAir!Withdraw, OnAir!Forget, OnAir!EnterCalendar
  <2> QED BY <2>1, <2>2, <2>3
<1>2. OnAir!WatchedToTheEnd <=> [][Watched]_(OnAir!air)
  BY DEF OnAir!WatchedToTheEnd
<1> QED
  BY <1>1, <1>2, LoopOnAirImplemented, AnnouncedAlwaysNext, PTL
  DEF ImplementsLoopOnAir, OnAir!Spec
=============================================================================
