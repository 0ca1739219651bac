# StreamTumi in TLA+

StreamTumi runs television and radio stations. Station owners upload media,
arrange it in playlists or calendars, and publish; worker processes encode the
media; playout processes turn the published programme into HLS journals and
audio streams; viewers tune in through the web, the mobile and the Roku
clients. Postgres holds all durable state, Valkey holds queues and counters,
MinIO holds the objects. Every process is a Node.js program that talks to the
others only through those three, so the interesting behaviour is what happens
*between* two database statements of one process.

The modules here model that behaviour. A step of a module is one database
statement or one transaction (what another process can see), or one timer or
signal callback of a process. What a transaction reads under a row lock and
writes before it commits is one step; what code reads without a lock and uses
later is several.

## Inventory

| Component | State it keeps | Operations | What is hard |
|---|---|---|---|
| TV playout (`src-tv-playout.ts`, `lib/tv-*.ts`) | lease row, playout state, segment journal; in memory: runtimes with expiry timers | acquire, renew, release; snapshot, plan, append; prune, purge | several arbiters, expiring leases, stale plans, crashes, media sequences that may never be reissued |
| Schedule publication (`lib/schedule-publication.ts`) | active and pending schedule of a station and their times | publish now or at the next loop, promote, publish after a mutation | promotion by whoever comes first; one caller without the row lock |
| Station lifecycle (`lib/station-lifecycle.ts`) | broadcast state, paused position, deletion times | stop, start (restart or resume), delete, restore | a pause must resume where it stopped while publications go on |
| Radio playout (`src-radio-playout.ts`, `lib/radio-playout-*.ts`) | lease row, playout state, streaming sessions | acquire, renew, create, activate, fail and retire a session | failover between sessions, retired sessions still read by listeners |
| Radio delivery (`src-radio-worker.ts`, `lib/radio-delivery*.ts`) | prepared tracks, timeline delivery rows | prepare, publish | two writers of one delivery window |
| Weekly clock (`lib/clock-*.ts`, `lib/weekly-clock.ts`) | clock releases, expanded timeline | publish, extend the timeline | the expansion must be gap-free across extensions |
| Calendar (`lib/calendar-*.ts`) | drafts, releases, materialized occurrences, queued activation, runtime state | validate, publish, materialize, activate, promote | optimistic versions, activation at a boundary that moves |
| Media jobs (`src-media-worker.ts`, `lib/media-*.ts`) | assets, variants, jobs with claim tokens and leases | claim, renew, publish, fail, retry, clean output | an expired claim that still runs, crash between object and row |
| Uploads and quota (`lib/media-uploads.ts`, `lib/upload-*.ts`) | upload sessions, chunks, reserved bytes | reserve, put a chunk, complete, abort, expire | concurrent chunks, completion against expiry |
| Maintenance (`lib/maintenance.ts`) | garbage-collection tasks | expire, collect, purge | deleting what a concurrent upload or job still uses |
| Legacy transcode worker (`src-worker.ts`) | videos and their status | claim by status, publish, fail | no claim token: two workers on one video |
| Device authorization (`lib/device-auth.ts`) | device codes, device tokens | start, approve, poll, revoke | polls racing approval, one-time consumption |
| Mobile sessions (`lib/mobile-auth.ts`) | refresh-token families | issue, rotate, revoke | reuse detection against lost answers |
| Web accounts (`lib/auth.ts`, `lib/password-reset.ts`, ...) | sessions, single-use tokens | sign in, verify, reset | single use under concurrency, revocation |
| Rooms and chat (`lib/station-rooms.ts`, `lib/chat.ts`, ...) | rooms, members, messages, reports, presence | join, leave, post, moderate | presence that outlives its connection |
| Read models (`lib/guide*.ts`, `lib/*catalog*.ts`, `lib/public-access.ts`) | a time-bounded cache | read | staleness only |
| Studio, weather, clients | rundowns; rendered weather segments; user interfaces | edit; render | nothing two processes do to each other |

The components interact through rows: publication and the calendar write the
`stations` row that playout reads; media jobs write the artifacts a
publication snapshots; lifecycle and maintenance remove what playout holds a
lease on. `PROJECT.json` lists every component with its status, and the
hazards with the line where each bites.

## Modules

| Module | Models | Composes | Proofs |
|---|---|---|---|
| `SegmentLog` | what a TV journal promises its players | | |
| `TvPlayout` | the TV arbiters, the journal and the calendar as they see it | implements `SegmentLog` | `TvPlayoutProofs`, `TvCalendarProofs` |
| `LoopOnAir` | what the viewers of a looping TV station are promised | | |
| `SchedulePublication` | the loop of a TV station: publication, queueing, promotion, stop and start | implements `LoopOnAir` | `SchedulePublicationProofs` |
| `MediaLibrary` | what the media library promises a station's owner | | `MediaLibraryProofs` |
| `MediaUploads` | uploads, quota, archiving, the maintenance pass and its garbage collection | | |
| `MediaJobs` | the media worker's jobs | extends `MediaUploads`, implements `MediaLibrary` | `MediaJobsProofs` |
| `Accounts` | users and what administrators, owners and maintenance do to them | | |
| `SignIn` | logins, refresh tokens, devices | extends `Accounts` | `SignInProofs` |
| `RadioProgramming` | weekly clocks, static delivery, calendar releases of a Radio station | | `RadioProgrammingProofs` |
| `RadioPlayout` | the Radio supervisors and their sessions | extends `RadioProgramming` | `RadioPlayoutProofs` |

An `MC` module gives the constants of its specification values that a `.cfg`
cannot write. Every property has a comment that says what it is about; what
each definition stands for, file and lines, is in the `map` of `PROJECT.json`.

What could follow: `TvPlayout` and `SchedulePublication` each have an
abstraction of the other's side (the actions on `station` here, the reads that
promote there), and one module over both could replace them; the first
transactions of TV channel automation; the playlists a Radio session publishes.

## TvPlayout

One station. `Holder` is the set of arbiter processes (a restart draws a new
holder id, so a process that dies does not come back). The variables are the
rows the processes share (`station`, `lease`, `observed`, `journal`) and the
memory of each arbiter (`pc`, `stopping`, `runtime`, `work`).

One reconciliation of `reconcileStation` is the sequence of steps

    Acquire, ClaimAcquired | ReuseRuntime   acquireRuntime, or a runtime kept
    Renew, ClaimRenewed                     renew, the check after it, claim
    ReadSource                              snapshot and calendar
    PlanAhead                               tail, schedule plan, catch-up
    AppendSegments | AppendRejected         the append transaction

and between any two of them time passes, the other arbiter runs, the expiry
timer fires (`LeaseTimer`), a signal arrives (`Signal`, then `ReleaseRuntimes`),
the process dies (`Crash`), or the control plane changes the station.

What is abstracted: times are ticks of the database clock; a schedule is its
list of segments (`Loop`), so the order of a shuffled cycle and the inventory
checks of the append are left out; the rows the lifecycle and publication
write are changed by actions that allow at least what those components do (a
schedule may start at any time up to `MaxLag` ago); the snapshot and the
calendar resolution, two reads one after the other, are one step, and the
claim of the playout state, which reads the lease without a lock, is one step.

`SegmentLog` is what players may rely on, without leases, plans or arbiters: a
set of numbered segments that an owner extends at its end, each continuing the
one before (times, discontinuity counts), and that loses its oldest segments; a
new owner takes a higher number; once closed it is never opened. `ImplementsLog`
is that specification with `rows` the journal without its provenance, `owner`
the lease's fence and `closed` a purged station.

### Runs

| Run | Instance | Shows |
|---|---|---|
| `tv_playout` | two arbiters, one loop of two segments, a lease of one tick, an arbiter clock up to one tick ahead, one command, no retention | the window stays servable, fences are ordered and unique, sequences are never reissued; together, every step is a step of `SegmentLog` |
| `tv_calendar` | one arbiter, two loops, two releases, one with an offline window inside a programme, one whose materialization ends | every calendar row plays what its release says of that row's start, and every change of source is marked |
| `tv_liveness` | two arbiters that may die or be signalled until tick 1, in the middle of a round or between two, leases of one tick, five take-overs | a station that stays on air is played by any arbiter that stays up; one that was shut down has given its last lease back |

A lease of one tick makes every expiry race reachable: between any two steps
of an arbiter its lease may run out and be taken by the other. Two arbiters
suffice for take-over and for the return of an owner whose fence is old. Two
segments per loop and `MaxAppend` 2 give appends of one and of two rows, from
every index, with and without a gap. `MaxFence` bounds take-overs, `MaxIndex`
the part of the timeline the planner looks at, `MaxCommands`, `MaxTime` and
`LastCrash` the rest. The runs switch the deadlock check off because the clock
and the commands are bounded, so that the system ends.

Fairness (`LiveSpec`): the clock advances, and an arbiter that is up goes on
with its loop (`while (!shuttingDown)` in `main`, which catches every error).
Nothing is assumed of timers, signals, crashes, commands or pruning.
`StaysOnAir` needs `LastCrash + LeaseTicks <= MaxTime`: the last lease of a
dead holder must run out before the clock stops. It also needs clocks that
agree (`Skew = 0`): an arbiter whose own clock is ahead by a lease gives back
every renewal and appends nothing.

### Proofs

`TvPlayoutProofs` proves `TypeOK`, `WindowServable`, `FencesOrdered`,
`FenceUnique`, `NeverReissued` and `ImplementsLog` for every
value of the constants that satisfies `ConstantsAssumption` (a cycle is
contiguous from zero and as long as its period, which the code checks before it
plans). `TvCalendarProofs` proves `SwitchMarked` and `CalendarHonoured`.

The inductive invariant `IInv` adds four facts to the properties.
`SourceKnown`: a plan under way has a schedule and, under a calendar, a release
and an epoch. `RowsLast`: a row ends after it starts, so the tail is the row
that ends last. `PurgedIsEmpty`: nothing is appended to a purged station, whose
lease row is gone. `FencesHeld` and `FencesDisjoint`: a fence an arbiter holds
is at most the lease's, and no other arbiter holds it, which is what makes a
new fence (the lease's plus one) unique. `WindowServable` then needs two lemmas
on what an append inserts: the marks of a plan are counted one by one
(`MarksCount`), and the ends of a valid plan grow (`EndsGrow`).

`LogImplemented` maps every step that touches the journal, the lease's fence or
the station's life to one of `SegmentLog`: a claim is `TakeOver`, an append
`Extend` (by the same lemmas), a prune `Forget`, a purge `Close`, and everything
else a stutter.

`CalendarHonoured` is about rows that were planned several steps earlier. Its
strengthening, `Planning`, follows the work through those steps. `SourceHonours`:
what an arbiter read at the snapshot is what the release says of that time, and
says until the next boundary (`SaysUntilBoundary`). `PlanHonours`: every planned
segment but the first lies before that boundary, since the plan's times grow
(`PlanGrows`, `KeptInside`). Of the first segment, which may straddle the
snapshot's time, the append makes sure (`AcceptedHonours`). That releases never
change once published is what carries the argument over from the plan to the
append.

Only model-checked: `StaysOnAir` (liveness under fairness is out of the
prover's reach) and `HandedOver`. That one is about the moments at which a
signal may find an arbiter: `main` gives back the runtimes there are when it ends,
and a round that is under way, with a lease just acquired or just renewed and
its runtime not kept yet or dropped by the expiry timer meanwhile, has to give
that lease back itself (`Keeps`). Otherwise the successor waits for its end.

## SchedulePublication

One TV station: its row (`station`), the playlist its owner edits (`list`), the
videos that can be delivered on an HLS channel (`delivered`) and the
transactions of the media worker (`worker`). A snapshot is its id, its length
and the version of the list it was taken from. `Loops`, `Queued`, `Activated`
and `PublishAfter` take both the row a transaction read (`seen`) and the row
it updates (`st`): a route holds the row lock, so the two are the same; the
media worker does not, so they may differ.

| Code | Action |
|---|---|
| reorder, row, video and settings routes, `src-worker.ts`, `materializeMediaAsset` | `Edit` (lock, promote, change, `publishAfterScheduleMutation`) |
| `PATCH autoPublishNextLoop` | `ToggleAuto` |
| `publishEditableSchedule` | `Apply(FALSE)` now, `Apply(TRUE)` at the next loop |
| `stopStation`, `startStation` | `StopStation`, `StartRestart`, `StartResume`, `StartCalendar` |
| `activateReleaseLocked` | `ActivateCalendar` |
| `scheduleStationDeletion`, `restoreStation` | `Delete`, `Restore` |
| reads of the guide, a viewer, the editor | `PromoteDue` |
| `prepareTvAutomation` (its final transaction) | `WorkerSelect`, `WorkerRead`, `WorkerCommit` |

The worker's three steps are its reads of the station row, of the list, and the
rest: the `INSERT` into `schedules` takes a key-share lock on the station row,
which waits for and keeps out everyone who locks it `FOR UPDATE`. A settings
change that publishes nothing is a `PromoteDue`. A transcode that ends on a
deleted station changes nothing here. A video outside `Jobs` is one whose
preparation fails for good; it stands as well for a transition filler that was
never prepared. Schedule ids are drawn from those nothing refers to any more,
which keeps the state space finite without a bound on publications.

Taken as one: the clock of the database and those of the processes. Left out:
what the snapshot copies of each row, the order of a shuffled cycle, the Radio
stations, the second publication mode `tv-channel-activation.ts` switches
(its effect on the row is an `Apply(FALSE)`).

`LoopOnAir` is the abstract specification: what viewers see. A loop is on air
since some time; another may be announced, for the end of the cycle that is on
air; a stopped station has the position it was left at. There is no playlist, no
snapshot, no version and no promotion. `SchedulePublication` implements it
(`ImplementsLoopOnAir`) under a mapping that reads the row as every reader of
the code does, after promoting what is due (`Seen`):

| `LoopOnAir` | in `SchedulePublication` |
|---|---|
| `airing` | the active snapshot and `schedule_started_at` of the promoted row, if on air |
| `next` | the pending snapshot and its instant, if it has one and the station is on air |
| `left` | the saved cycle and offset, in the active snapshot |

So the switch from one loop to the next is a step of *time*, at the announced
instant, and the `UPDATE` that promotes, however late it comes, is no step at all.
A stop that saved its position from the row before promoting it would satisfy
every property of the row and break this one. `RunOn`, a start under a calendar,
says only that the loop began no later than now: the calendar decides what is
shown over it.

### Runs

| Run | Instance | Shows |
|---|---|---|
| `schedule` | two videos of which one can never be delivered, loops of two and of three ticks, a calendar, three versions, six ticks | the queue, the boundary, the saved position and automatic publication are right in every order of commands, and the whole is a `LoopOnAir` |
| `schedule_worker` | one video being prepared by a transaction without the lock, one deliverable; loops of one length, three ticks | what survives that publication: the station on air keeps a loop, it changes only as allowed; and what was queued for an instant goes on air, or is withdrawn, or the station stops |
| `schedule_lost_edit` | one video being prepared | violated: an edit during the worker's transaction is not published |

Six ticks hold two cycles of the longer loop and three of the shorter, so a
pause after a whole cycle, a promotion that comes late and a second queueing
all happen. Two lengths are needed for a saved position or a boundary of the
wrong loop to show. Three versions let an edit be overtaken twice. Deadlock is
not checked: the clock and the versions are bounded, and a deleted station may
stay deleted.

`QueuedHasInstant` excepts a station under a calendar: a snapshot that was queued
while the station was stopped, and so has no instant yet, does not get one when
the station starts under a calendar, since that start leaves the pending columns
alone. The editor says of it that it "is queued for the next loop after the
station resumes" (`components/station-editor.tsx:543`).

`schedule_worker` does not claim `QueuedAtBoundary`: a worker that read the row
before a stop and a restart queues its snapshot for a boundary of the earlier
epoch. Nor `UpToDate`, which is the first finding below. One such transaction is
enough for both; the theorems hold for any number. Nor `ImplementsLoopOnAir`, for
the reason of the first. All three hold where the worker does not publish, so
they would if it locked the row as every route does.

Fairness: the clock advances, and somebody reads the station (`PromoteDue`):
promotion has no timer of its own, every read of the guide, of a viewer or of
the editor performs it.

### Proofs

`SchedulePublicationProofs` proves, for every value of the constants that
satisfies `ConstantsAssumption`, in two layers.

With the media worker as it is, publishing without the lock: `TypeOK`,
`OnAirHasLoop`, `PausedPosition`, `LoopPreserved` and `PositionKept`. The
inductive invariant is `IInv`: the types; `Sound`, four facts about the station
row; and `SeenLooped`, one of them about the row each worker read. `Looped` is
`OnAirHasLoop`. `Saved` adds to `PausedPosition` that the cycles and the offset
saved together are no more than the present time, without which a resumption
would set an epoch before time began. `Distinct` says that a snapshot does not
wait behind itself, so that a promotion always changes the loop. `SeenLooped`
carries the argument about the race: a worker replaces the active schedule only
when the row it read had none, and then, as the `UPDATE` compares the two, the
row it writes has none either, and is not on air. Each route is one lemma
(`EditStep`, `ApplyStep`, ...), which rests on what promotion, queueing and
activation do to a sound row. `ResumedPosition` reads a position back from the
epoch computed from it; it needs that quotient and remainder are unique.

Where no job of the worker publishes (`Jobs = {}`), so that every publication
holds the row lock: `QueuedAtBoundary`, `UpToDate` and `BoundaryKept`, which the
worker can break. `LockedInv` adds `Follows` (the newest snapshot is the list)
and `AtBoundary`, which is `QueuedAtBoundary` for stopped stations too: a
calendar start takes up the instant and the epoch the stop left.

`InstantAlwaysThere` is `QueuedHasInstant` where no job publishes without the
lock. The hypothesis is needed: a worker that read the row of a stopped station,
where a queued snapshot needs no instant, writes it after the start.

`LoopOnAirImplemented` is the refinement. Its proof needs one more part of the
invariant, `OnTime`: the epoch is not in the future, and a queued snapshot's
instant is within one cycle from now. With it the row as readers see it has
nothing due (`Ahead`), and what is announced is always the end of the cycle on
air. A cycle has one end (`CycleEndUnique`), so a step that leaves the loop on
air alone cannot move the instant (`LoopLeftAlone`): the refinement of every
publication that waits follows from the invariant before and after it. The
steps that remain are the starts, the stop, the publication at once, and
`TickMapped`, the switch itself. Two consequences are theorems of their own:
`AnnouncedAlwaysNext`, and `AlwaysWatchedToTheEnd`, which is proved of `LoopOnAir`
alone and carried over by the refinement.

Only model-checked: `QueuedGoesOnAir`, a liveness property.

## MediaUploads and MediaJobs

The canonical media of one station. `MediaUploads` holds the rows and objects
the owner's routes and the hourly maintenance pass change; `MediaJobs` extends
it with the durable jobs and the workers.

| Code | Action |
|---|---|
| the routes of `lib/media-uploads.ts` | `Initiate`, `WritePart`, `CompleteUpload` (with its job), `Abort` |
| `updateOwnerMediaAsset`, `createMediaClip` | `Archive`, `Restore`, `RequestClip` (with its job) |
| a PUT whose database session died | `WritePart` (third disjunct), then `LandPut` at any later time |
| `runMaintenance`, one action per statement | `BeginPass`, `ArchiveExpired`, `ScheduleExpired`, `SelectTasks`, `Collect`, `Settle`, `Release`, `EndPass`; `PassDies` between any two |
| `dispatchDurableJobs` and `claimMediaJob` | `BecomesDue`, `ClaimJob`, `Renew` |
| `processMediaJob`, `materializeMediaClip` | `Assemble`, `Produce`, `Finalize`, `CollectParts`, `Report`, `DropLost`, `FailUpload`, `FailClip`; `Breaks` when a step fails, `WorkerDies` |

A worker's state is kept by the claim it drew (`run[a][n]`), so that a worker
that lost its claim goes on beside its successor, as in the code. The object
store is three variables (`parts`, `flying`, `output`) that no transaction
covers. The quota counts assets instead of bytes: what matters here is which
states hold it. Checksums are the contents themselves.

`MediaLibrary` is the abstract specification: what all of that is to the owner.
An asset is reserved, submitted (or cut out of another), published or failed,
put away and taken back, dropped and forgotten; there are no workers, claims,
parts, passes or retries. `MediaJobs` implements it (`ImplementsLibrary`) under
this mapping:

| `MediaLibrary` | in `MediaJobs` |
|---|---|
| `stage` | the row's `status`, and for an asset its owner archived the status it is kept to return to |
| `shelved` | archived with such a status; an upload given up is archived without one, and is `dropped` |
| `source` | the receipts of a complete upload |
| `version` | the claim that published |
| `content` | the bytes that claim's worker had assembled |

So a step of a worker is `Publish` or `Fail` if it commits under a claim that
is still its own, and nothing otherwise; the hourly pass is `Drop` and `Forget`;
an abort is `Drop`. An archive is `PutAway`, which changes neither the stage nor
what is published.

### Runs

| Run | Instance | Shows |
|---|---|---|
| `media_jobs` | one upload of one part, which has two possible contents; one clip; room for one asset; two attempts; one request the store fails; one death | what becomes playable is what was received, its objects stay, parts stay until they were used, a claim is ended by its holder, every job is decided, and the whole is a `MediaLibrary` |
| `media_cleanup` | one upload, two failed requests, two collection attempts | violated: the cleanup of an aborted upload is never carried out |

Room for one asset makes the quota refuse and be given back. Two attempts are
the smallest number for which a worker that lost its claim has a successor. One
death and one failed request put either at every step, alone and together;
`GcAttempts` 2 leaves a failed cleanup one more try. Both runs may end: the
bounds stop them, so deadlock is not checked.

Fairness of `media_jobs` (`LiveSpec`): time passes (`BecomesDue`), the
dispatcher's timer hands over due jobs (`ClaimJob`), and a worker goes on
(`Work`). Renewals, failures and deaths are not assumed. `JobDecided` excepts a
job whose last worker died: nothing claims it again, and nothing fails it.
Fairness of `media_cleanup` (`PassSpec`): the pass comes round every hour.

`PlayableHasObjects` excepts the worker that published: when its last call, which
reports progress to the queue, fails, its catch block removes the objects of the
asset it has just published. No document speaks of it; it is listed as a hazard.

### Proofs

`MediaJobsProofs` proves `TypeOK`, `PlayableHasObjects`, `PlayableFromReceipts`,
`PartsKept` and `ClaimEndedByHolder`, for any uploads, clips, parts, contents,
attempts and bounds, assuming that the two kinds of asset are disjoint, that
there is at least one part and one attempt, and that NULL is no value of a row.

Each property speaks of the end of a chain of steps by different processes, so
`IInv` says where each of them can be in between. Of jobs: `Entered` (a job is
of a complete upload or of a clip), `Started` and `TokensDrawn` (a claim not
drawn yet has done nothing). Of the pass: `PassKnown` (what its earlier
statements read still holds) and `PartsFreed` (parts are garbage only if their
upload was given up or published). Of publication: `Undecided` and
`PlayableWon`, and `Winner` (where the publishing worker can be). Of the
objects: `Stored` (what was assembled equals the receipts, which no longer
change), `Untouched` (output is garbage only if its worker gave it up without
having published) and `OutputKept`. What a step does is written once per family
of actions (`RunMoves`, `AssetMoves`, `NewTask`, `OutputMoves`, ...), and each
part of `IInv` is preserved by those.

`LibraryImplemented` is the refinement, `Spec => ImplementsLibrary`. The mapping
reads rows the route that moves an asset never looks at, so the refinement needs
to know how they hang together; `LibInv` adds to `IInv`:

- `KeptArchived`: a status to return to is kept by archived rows only. The table
  has that as a `CHECK` (`media_assets_archived_from_status_check`); the proof
  shows that no statement modelled here is ever refused by it.
- `Submitted`: what is past its upload has a job, put away or not, so what an
  owner takes back is never an upload half done.
- `Opened`: an upload has an asset from its first request on.
- `AbandonedParts`: only the parts of an upload that was given up are collected
  as aborted or expired, so only its asset becomes DELETED when they are gone:
  the pass forgets nothing that somebody still uploads.
- `ClipBytes`: a clip has no receipts to be made of.

Each action of `MediaJobs` is then one lemma (`LibraryAborts`, `LibraryFinalize`,
...): the step of `MediaLibrary` it is, or that it is none.

`MediaLibraryProofs` proves what follows from `MediaLibrary` alone, with no
worker in sight: what is playable plays what was submitted (`PlaysItsSource`),
the quota holds (`InQuota`; reserving compares a count, so the proof is about
what one more or one less asset does to a cardinality), and a decision is for
good (`DecidedOnce`). Through the refinement these hold of the code:
`PromiseImplemented`, `QuotaAlwaysKept`, stated of the rows, and
`DecidedForGood`. The quota theorem needs a finite number of assets.

`ExhaustedCleanupStays` turns the run `media_cleanup` into a fact about every
behaviour: a cleanup that failed as often as it may is never recorded again, so
its objects stay whatever happens later.

Only model-checked: `JobDecided`, which is liveness.

## Accounts and SignIn

`Accounts` is the users table with the credentials that hang on it and every
operation that takes some away; `SignIn` adds what issues them. What a
transaction sees, and when, is the point of both:

- A READ COMMITTED transaction (sign-in, password reset, the owner's own
  changes) locks the user's row first and reads after it: one action. What the
  request read before the transaction is `call`, a step of its own (`Begin...`),
  of which the transaction checks only what the code checks again
  (`StillCurrent`, `MobileAllowed`).
- A SERIALIZABLE one (`privilegedMutation`, `requestMobileAccountDeletion`,
  `scripts/reset-admin-password.ts`) sees the database as it was at its first
  statement, before it locks its target: `snapshot`. It fails if a row that it
  locks, deletes or updates has changed since (`Change`, `Finds`). A row that was
  inserted since it does not see, and leaves (`Missed`).
- A logout locks the refresh token it is given, and its `UPDATE` revokes the
  tokens there were when it started: `BeginLogout`, `EndLogout`. A token that a
  rotation inserted meanwhile stays.

| Code | Action |
|---|---|
| `lib/admin-users.ts` | `UpdateUserProfile`, `ChangeUserRole`, `DisableUser`, `EnableUser`, `AssignTemporaryPassword`, `RequestUserDeletion`, each after `BeginAdmin` |
| `lib/account.ts`, `lib/mobile-account.ts` | `ReplaceTemporaryPassword`, `ChangeMobilePassword`; `RequestMobileAccountDeletion` after `BeginMobileDeletion` |
| `lib/password-reset.ts` | `IssueReset`, `ExpireReset`, `ResetPassword` |
| scripts and maintenance | `BootstrapFirstAdmin`, `ResetAdminPassword` after `BeginResetAdmin`, `AnonymizeUser` |
| login routes, `lib/auth.ts` | `BeginLogin`, `CreateSession`, `EndSession` |
| `lib/mobile-auth.ts` | `CreateMobileCredentials`, `RotateMobileRefreshToken`, `EndFamily`, `BeginLogout`, `EndLogout` |
| `lib/device-auth.ts` | `BeginApprove`, `ApproveDevice`, `PollApproved`, `LoginDevice`, `RevokeDevice` |

A password is named by the version of the row that set it. Two history fields
say of a credential what the code cannot know. `since` is the password that was
compared when it was signed in, or None if that one was replaced before the
credential was issued: the login routes compare, and `createSession` does not
read the password again. `missed` says that a transaction that revokes what it
sees of the account, or of the family, committed without having seen the row;
what is rotated from such a token is missed too. Any refresh token ever issued
may be presented at any time, which covers a lost answer, a retry and a stolen
token.

### Runs

| Run | Instance | Shows |
|---|---|---|
| `sign_in` | four situations at the start: two accounts that administer each other, two that do not, one that is alone and refreshes, and an administrator with devices and a reset | what is locked out holds nothing, a password ends with what was signed in by it, a family ends as a whole, except for what was missed; the last administrator stays |
| `sign_in_reenabled` | the same | violated: a session created between the snapshot and the commit of the transaction that disables its account is signed in again when the account is enabled |

Two administrators are what it takes to remove each other; two changes of rows
are a temporary password and its replacement, a change and one that overtakes it,
or disabling and enabling. Three tokens in a family are those that a logout with
the first meets while the second is rotated. One request and one SERIALIZABLE
transaction are open at a time: two of the latter commit as if one came after
the other, and a request looks only at the rows of its own account. The bounds on
rows are per account, so that the situation with devices does not also have
families of three. Deadlock is not checked: the bounds end the run.

`LockedOut`, `PasswordBound` and `FamilyEnds` except what was missed, because the
code leaves it: without the exceptions they are violated, and `sign_in_reenabled`
is what one of them means to a user. What is left says that there is no other
way, and that what was missed stays apart: no credential seen by a revocation
comes back.

### Proofs

`SignInProofs` proves `TypeOK`, `LockedOut`, `PasswordBound`, `FamilyEnds` and
`AdminRemains` for any accounts, families and bounds. The invariant is
`TypeOK /\ Bound /\ Families /\ SeesOwn`. `Bound` strengthens `LockedOut` and
`PasswordBound` to one statement per credential that looks at its user's row
only (`SessionFits`, `TokenFits`, `DeviceFits`): an operation on one account
then says nothing about the others. `DeviceFits` also speaks of disabled
accounts, which may be enabled again. `Families` adds to `FamilyEnds` that a
family has one user and that a session of a family has a token of it: revoking
the tokens of a user then revokes whole families. `SeesOwn`: a snapshot has
credentials of its target only. Of a revocation by snapshot, `RowRevokedSeen`
says that what it leaves of the account is missed, and `FamiliesRevoked` that the
families it leaves are still of one usable token each. `AdminRemains` is a step
property: an operation that takes an administrator away counts them under the
advisory lock, and a set with more than one element keeps one when one is
removed.

## RadioProgramming

What one Radio station broadcasts. Time is counted in service weeks. Clock
releases have the weeks that were delivered of them; calendar releases have a
materialized range. Loops over weeks that commit week by week (maintenance, and
the script that moves a station to static delivery) are `job`: what they read at
their start, used later.

| Code | Action |
|---|---|
| `publishClockRelease`, `ensureClockTimeline` | `PublishClock`, `BeginMaintenance`, `MaintainClock` |
| `scripts/backfill-radio-hls.ts` | `BeginScript`, `DeliverWeeks`, `SwitchToStatic` |
| `publishCalendarRelease`, `ensureCalendarReleaseMaterialized`, `markMaterializationFailed` | `PublishCalendar`, `ExtendCalendar`, `ExtensionFails` |
| `activateCalendarRelease`, `promoteDueCalendarRelease` | `ActivateNow`, `DropPending`, `QueueRelease`, `PromoteDue` |
| start and stop; the documented rollback | `StartStation`, `StopStation`, `RollBackDelivery` |

Assumed of time, in `Tick`: maintenance goes through a static station at least
once a week (it runs hourly), and a run of the script sees at most one week
begin. Without the first a static station runs dry however correct the code.

### Run and proofs

`radio`: two clock releases, two calendar releases of one profile, three weeks,
one failed extension. Two releases of either kind are what activation, queueing
and a publication during a loop need; over three weeks the script, the
maintenance after it and the week after that all come into play. The two
calendars are interchangeable, and a symmetry set makes use of it.

`RadioProgrammingProofs` proves `TypeOK`, `Covered`, `CalendarCoherent` and
`StaticOnAir`. `Covered` needs that `from <= through` (`Materialization`);
`CalendarCoherent` is inductive as it stands. `StaticOnAir` is about the week
that is yet to begin, so its invariant says more than this week is delivered:
`JobsKnown` (a loop works on a release there is), `ScriptServed` (a script past
its weeks has delivered the next ones, and at most one week began since) and
`StaticServed` (once maintenance went through this week, the next is delivered,
or the release or the mode changed this week, and then whoever changed it
delivered it).

## RadioPlayout

The supervisors of a station that is not static: acquisition, the session, the
acknowledgement of what is played, activation, failure, retirement, release,
backoff, signals, deaths and lapsed leases, one action per transaction or
callback of `runStation` and `reconcile`.

What a run starts for its session, the feeder and the two uploads, is a task of
its own (`tasks`), because nobody waits for it where `runStation` throws, and
because it looks at its abort signal only at the top of its loop. So a task may
acknowledge, write the playout state or activate its session after its run was
aborted, has failed or has ended, and beside the next run of the same process;
the guards of `Acknowledge`, `UpdatePlayoutState` and `ActivateSession` are those
of their statements and no more. A feeder also extends the timeline
(`ensureClockTimeline`): `FeederReads` reads the delivery mode, `FeederDelivers`
writes weeks with the mode that was read, which may no longer be that of the
station. `RadioPlayout` therefore changes variables of `RadioProgramming`.

`radio_silent`: two supervisors, two session ids, one fault, three take-overs,
no calendar. `GoesLive` is violated: no session ever becomes ACTIVE, because the
acknowledgement requires the session that only an activation makes the active
one. Fairness (`LivePlayout`): a supervisor and its tasks go on, the lease of a
dead holder lapses, retired sessions are removed. Of one supervisor, with one
session id and one fault, `GoesLive` is violated too, and there it holds with an
acknowledgement that also accepts a state without a session: it is that condition
that keeps the station silent, and nothing the model assumes. The actions behind the
acknowledgement (`FeederReads`, `FeederDelivers`, `UpdatePlayoutState`,
`ActivateSession`, `SourceChanged`) cannot be reached in the code as it is.

No run checks a safety property of the sessions, since on an instance it would
hold because nothing plays. `RadioPlayoutProofs` proves them instead. The
invariants it uses for the first four say nothing of what was acknowledged, and
every action, those that cannot be reached included, is shown to preserve them.
For any supervisors, sessions and numbers of faults:

- `OneOwnerAlways`: two supervisors never act for one fence, however often a
  lease lapsed under a live one, was taken over or given back, and whatever an
  ended run left behind (`OneOwnerPerFence`).
- `OpenOfOwnerAlways`: a session that is STARTING or ACTIVE has the fence of the
  state row (`OpenOfOwner`). An upload that finishes late can open a session
  again that was failed or retired, but only one of the present fence.
- `SuccessorNeverDisturbed`: once a successor has its session, nothing an earlier
  owner still does, in its run or in a task, changes it or the state row
  (`SuccessorUndisturbed`).
- `ProgrammingKept`: `TypeOK`, `StaticOnAir`, `Covered` and `CalendarCoherent`
  hold of the station and its supervisors together. A feeder delivers weeks of a
  release that was published (`FeedersKnown`) and removes none; each invariant of
  `RadioProgramming` is shown to allow that at any time.
- `NeverLiveAlways`: the finding as a fact about every behaviour. No session is
  ever ACTIVE and nothing is ever fed, for any number of supervisors and with or
  without faults (`NeverLive`). It assumes that None is no session id.

What is not claimed: that one session is open at a time. A holder that fails and
starts again within its lease keeps its fence, and an upload left behind by the
failed run would open the failed session beside the new one. In the code as it
is no upload gets that far; with an acknowledgement that also accepts a state
without a session, TLC finds the two open sessions of one fence.

`PlayoutInv` relates the four places a fence is kept, the lease, the state row,
the sessions and each process's memory. `Fenced`: all come from the lease, the
state row is not ahead of it, the sessions are not ahead of the state row, and
the present fence is held by the lease's holder alone, in its runtime and its
tasks.

## Findings

| Run | The code | Against |
|---|---|---|
| `schedule_lost_edit` | the media worker publishes without the row lock, and an edit made meanwhile is not published | the editor's text on what an edit does |
| `media_cleanup` | after ten failed attempts the CHECK on the attempt count refuses every further record of a cleanup, and the pass ends there every hour | the upload tests: an abort schedules its cleanup durably |
| `sign_in_reenabled` | the snapshot of a privileged transaction is older than its lock of the account, and a session created in between is not revoked | the administration guide: disabling revokes all sessions, and after enabling the user must sign in again |
| `radio_silent` | the first program of a session is acknowledged only where the session is already the active one, which it becomes by playing | the rollback guide and the playout test |

`PROJECT.json` has each with its lines and the quotation.

## Proved and only checked

Every safety property of a passing run but `HandedOver`, and every refinement
that a run checks, is a theorem for all values of the constants, from the named
assumptions of its module (five of `SchedulePublication` where no job of the
worker publishes, as in the run). Two of the four findings are theorems too, about
every behaviour and not only the counterexample's instance: `NeverLiveAlways` and
`ExhaustedCleanupStays`.

Only checked, on the instances above: `HandedOver`, and the liveness properties
`StaysOnAir`, `QueuedGoesOnAir` and `JobDecided`. Liveness rests on `ENABLED`, which is out of
the prover's reach, as is induction over data.

## Not modelled

Much of the repository is user interface, route plumbing, encoding, rendering
and external feeds, where a state machine says nothing; the model covers a
modest part of the lines, and most of what several processes do to each other.
Left out of what was considered:

- Radio: the row of `calendar_runtime_state`, which only the interface reads;
  what a week compiles to, and the media sequences of delivered weeks (a week
  delivered before one already delivered is refused by the code as not
  contiguous; the model lets it be delivered); the limit on concurrent stations
  of a supervisor; the audio from the feeder to the objects.
- Calendars: drafts and their validation, recurrence rules and daylight saving.
- `SwitchToStatic` leaves an active calendar as it is when it changes the mode,
  as the statement in the script does; nothing is claimed of that combination
  beyond `StaticOnAir`.
- TV: the automation job before its last transaction, the order of a shuffled
  cycle, the rendering of playlists.
- Media: the older chunk uploads of videos, projections into playlists, quota in
  bytes.
- Accounts: registration and e-mail verification (they give no session of
  another account), the expiry of sessions by time, playback grants.
- Rooms and chat: single statements, or transactions under the station's row
  lock; presence is one atomic script with a time to live.
- Studio: every mutation locks the station, compares a version and records an
  idempotency receipt in one transaction.
- The legacy transcode worker: its claim is the status of the video and its
  output prefix is fixed, so two workers of one job write the same objects; its
  publication is the `Edit` of `SchedulePublication`.
- Weather, guide, catalogs and clients: rendering and reading.
- Legal holds and deletion deadlines, other than that a held station keeps its
  owner's account.
