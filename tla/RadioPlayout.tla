--------------------------- MODULE RadioPlayout ---------------------------
(* The playout of the same station when it is not delivered statically: the *)
(* supervisors of src-radio-playout.ts (one process per Holder), the lease  *)
(* that elects one (lib/radio-playout-lease.ts), the sessions whose playlists*)
(* listeners follow, and the program a session plays                        *)
(* (lib/radio-playout-program.ts).                                          *)
(*                                                                          *)
(* The lease is renewed long before it ends; that it lapses under a live    *)
(* holder (a stall, a lost connection), or that a feeder or a packager fails,*)
(* happens MaxFaults times.                                                 *)
EXTENDS RadioProgramming

CONSTANTS
  Holder,    \* supervisor processes; each start draws a new holder id
  SessionId, \* session ids
  MaxFaults, \* bound: lapses under a live holder and failed feeders
  MaxFence   \* bound: no take-over beyond this fence

VARIABLES
  lease,    \* the radio_playout_leases row; fence 0: no row yet
  state,    \* the radio_playout_state row; fence 0: no row yet
  sessions, \* radio_playout_sessions: id -> row
  runtime,  \* runStation and the backoff of each process
  tasks,    \* what each process runs for a session: its feeder, its uploads
  faults    \* faults so far, for the bound

playout == <<lease, state, sessions, runtime, tasks, faults>>
allVars == <<vars, playout>>
-----------------------------------------------------------------------------
\* The key of loadRadioProgramDecision: a release of the weekly clock, or what the
\* calendar has in this week.
ProgramNow == <<station.clock, station.calendar, IF OnCalendar THEN week ELSE 0>>
Silence == <<0, None, 0>>

\* A process without a runtime.  clock and calendar: what reconcile read of the
\* station; program: the decision that was acknowledged; error: runStation is going
\* to throw.
Idle == [phase |-> "idle", fence |-> 0, session |-> None, clock |-> 0,
         calendar |-> FALSE, program |-> Silence, aborted |-> FALSE,
         error |-> FALSE, stopping |-> FALSE]

\* feedProgram and the two publishOutput of a run.  Nobody waits for them where
\* runStation throws: they may outlive their run, and meet the next one of the
\* process.  fed: the clock release last acknowledged, 0 before the first; read: what
\* ensureClockTimeline read before its weeks.
Read == [static : BOOLEAN, since : Int]

Task == [session : SessionId, fence : Nat, fed : Nat, read : Read \cup {None}]

SessionStatus == {"STARTING", "ACTIVE", "RETIRED", "FAILED"}

Ended(h, phase) == [Idle EXCEPT !.phase = phase, !.stopping = runtime[h].stopping]

Running(h) == runtime[h].phase \notin {"idle", "backoff", "gone"}

Holds(h, fence) == lease.live /\ lease.holder = h /\ lease.fence = fence

Valid(h) == Holds(h, runtime[h].fence)

\* The station as reconcile's query selects it.
Eligible ==
  /\ station.running /\ ~station.static /\ station.clock # 0
  /\ OnCalendar =>
       station.calendar # None /\ calendars[station.calendar].status = "READY"

Desired(h) == Eligible /\ (~lease.live \/ lease.holder = h)

Goto(h, phase) == runtime' = [runtime EXCEPT ![h].phase = phase]

\* A task goes on as u.
Continue(h, t, u) == tasks' = [tasks EXCEPT ![h] = (@ \ {t}) \cup {u}]

\* The run of a task has not ended.
Current(h, t) ==
  t.session = runtime[h].session /\ runtime[h].phase \in {"deciding", "feeding"}

\* failRadioSession, retireRadioSession: the state row only under the same fence.
CloseSession(h, from, to, status) ==
  /\ sessions' = [s \in DOMAIN sessions |->
       IF /\ s = runtime[h].session /\ sessions[s].fence = runtime[h].fence
          /\ sessions[s].status \in from
       THEN [sessions[s] EXCEPT !.status = to] ELSE sessions[s]]
  /\ state' = IF state.fence = runtime[h].fence
              THEN [state EXCEPT !.status = status, !.session = None] ELSE state

PlayoutInit ==
  /\ lease = [holder |-> None, fence |-> 0, live |-> FALSE]
  /\ state = [fence |-> 0, status |-> "OFFLINE", session |-> None]
  /\ sessions = [s \in {} |-> None]
  /\ runtime = [h \in Holder |-> Idle]
  /\ tasks = [h \in Holder |-> {}]
  /\ faults = 0
-----------------------------------------------------------------------------
(* reconcile.                                                               *)

\* acquireRadioLease: a take-over draws a new fence, the holder's own is kept.
Acquire(h) ==
  LET fence == IF lease.holder = h THEN lease.fence ELSE lease.fence + 1 IN
  /\ runtime[h].phase = "idle" /\ ~runtime[h].stopping
  /\ Desired(h)
  /\ fence <= MaxFence
  /\ lease' = [holder |-> h, fence |-> fence, live |-> TRUE]
  /\ runtime' = [runtime EXCEPT ![h] =
       [Idle EXCEPT !.phase = "starting", !.fence = fence, !.clock = station.clock,
                    !.calendar = OnCalendar]]
  /\ UNCHANGED <<vars, state, sessions, tasks, faults>>

\* A runtime is aborted when reconcile no longer finds its station, or finds it in
\* another mode, and once it has a session, when the renewal fails or finds the
\* station stopped.
Abort(h) ==
  /\ Running(h) /\ ~runtime[h].aborted
  /\ \/ ~Desired(h) \/ runtime[h].calendar # OnCalendar
     \/ /\ runtime[h].phase \in {"deciding", "feeding", "failing"}
        /\ ~Valid(h) \/ ~station.running
  /\ runtime' = [runtime EXCEPT ![h].aborted = TRUE]
  /\ UNCHANGED <<vars, lease, state, sessions, tasks, faults>>
-----------------------------------------------------------------------------
(* runStation.                                                              *)

\* createRadioSession: sessions left by others are retired, the state is reset.  The
\* id is a fresh one.
CreateSession(h) ==
  /\ runtime[h].phase = "starting"
  /\ Valid(h) /\ station.running /\ station.clock = runtime[h].clock
  /\ \E s \in SessionId \ DOMAIN sessions :
       /\ \A g \in Holder : \A t \in tasks[g] : t.session # s
       /\ sessions' = [r \in DOMAIN sessions \cup {s} |->
            IF r = s THEN [fence |-> runtime[h].fence, status |-> "STARTING"]
            ELSE [sessions[r] EXCEPT
                    !.status = IF @ \in {"STARTING", "ACTIVE"} THEN "RETIRED" ELSE @]]
       /\ runtime' = [runtime EXCEPT ![h].phase = "deciding", ![h].session = s]
       /\ tasks' = [tasks EXCEPT ![h] = @ \cup
            {[session |-> s, fence |-> runtime[h].fence, fed |-> 0, read |-> None]}]
  /\ state' = [fence |-> runtime[h].fence, status |-> "STARTING", session |-> None]
  /\ UNCHANGED <<vars, lease, faults>>

\* It throws: the lease, the station or its release changed.
CreateSessionRefused(h) ==
  /\ runtime[h].phase = "starting"
  /\ ~Valid(h) \/ ~station.running \/ station.clock # runtime[h].clock
  /\ runtime' = [runtime EXCEPT ![h].phase = "releasing",
                                ![h].error = ~runtime[h].aborted]
  /\ UNCHANGED <<vars, lease, state, sessions, tasks, faults>>

\* acknowledgeRadioProgramSource: the session must be the active one.
Acknowledges(h, t) ==
  /\ Holds(h, t.fence) /\ state.fence = t.fence
  /\ state.session = t.session

\* feedProgram, the last feeder done: the decision is loaded and its source
\* acknowledged, whether or not the run was aborted meanwhile, or has ended ...
Acknowledge(h, t) ==
  /\ t.read = None
  /\ station.running /\ Acknowledges(h, t)
  /\ Continue(h, t, [t EXCEPT !.fed = station.clock])
  /\ runtime' = IF Current(h, t)
                THEN [runtime EXCEPT ![h].phase = "feeding", ![h].program = ProgramNow]
                ELSE runtime
  /\ UNCHANGED <<vars, lease, state, sessions, faults>>

\* ... or it throws.
AcknowledgeFails(h) ==
  /\ runtime[h].phase = "deciding" /\ ~runtime[h].aborted
  /\ \E t \in tasks[h] :
       /\ t.session = runtime[h].session
       /\ ~station.running \/ ~Acknowledges(h, t)
  /\ Goto(h, "failing")
  /\ UNCHANGED <<vars, lease, state, sessions, tasks, faults>>

\* feedTimeline begins a round with ensureClockTimeline, which reads the mode ...
FeederReads(h, t) ==
  /\ t.fed # 0 /\ t.read = None
  /\ Continue(h, t, [t EXCEPT !.read = [static |-> station.static, since |-> week]])
  /\ UNCHANGED <<vars, lease, state, sessions, runtime, faults>>

\* ... and goes through the weeks, each in a transaction of its own; it may throw
\* before any of them, and the feeder fails.
FeederDelivers(h, t) ==
  /\ t.read # None
  /\ \E done \in 0 .. EnsureWeeks :
       Deliver(t.fed, IF t.read.static THEN Weeks(t.read.since, done) ELSE {})
  /\ Continue(h, t, [t EXCEPT !.read = None])
  /\ UNCHANGED <<week, station, active, calendars, job, maintained, failures,
                 lease, state, sessions, runtime, faults>>

\* The feeder notes what it plays; audio now reaches both packagers.
UpdatePlayoutState(h, t) ==
  /\ t.fed # 0
  /\ Holds(h, t.fence) /\ state.fence = t.fence
  /\ state' = [state EXCEPT !.status = "RUNNING"]
  /\ UNCHANGED <<vars, lease, sessions, runtime, tasks, faults>>

\* maybeActivate, after the uploads of both playlists.  An abort is not looked at
\* between an upload and the activation, nor is the status of the session.
ActivateSession(h, t) ==
  /\ t.fed # 0
  /\ Holds(h, t.fence)
  /\ t.session \in DOMAIN sessions /\ sessions[t.session].fence = lease.fence
  /\ sessions' = [sessions EXCEPT ![t.session].status = "ACTIVE"]
  /\ state' = IF state.fence = t.fence
              THEN [state EXCEPT !.status = "RUNNING", !.session = t.session]
              ELSE state
  /\ UNCHANGED <<vars, lease, runtime, tasks, faults>>

\* A task whose run has ended sees the abort, or fails unheard.
TaskEnds(h) ==
  /\ \E t \in tasks[h] :
       ~Current(h, t) /\ tasks' = [tasks EXCEPT ![h] = @ \ {t}]
  /\ UNCHANGED <<vars, lease, state, sessions, runtime, faults>>

\* The watcher sees another decision: the loop of feedProgram goes round.
SourceChanged(h) ==
  /\ runtime[h].phase = "feeding" /\ runtime[h].program # ProgramNow
  /\ Goto(h, "deciding")
  /\ UNCHANGED <<vars, lease, state, sessions, tasks, faults>>

\* The feeder or a packager fails.
FeedingFails(h) ==
  /\ runtime[h].phase \in {"deciding", "feeding"} /\ ~runtime[h].aborted
  /\ faults < MaxFaults /\ faults' = faults + 1
  /\ Goto(h, "failing")
  /\ UNCHANGED <<vars, lease, state, sessions, tasks>>

FailSession(h) ==
  /\ runtime[h].phase = "failing"
  /\ CloseSession(h, SessionStatus, "FAILED", "FAILED")
  /\ runtime' = [runtime EXCEPT ![h].phase = "retiring",
                                ![h].error = ~runtime[h].aborted]
  /\ UNCHANGED <<vars, lease, tasks, faults>>

\* An abort leaves the loops of feedProgram without an error.
FeedingAborted(h) ==
  /\ runtime[h].phase \in {"deciding", "feeding"} /\ runtime[h].aborted
  /\ Goto(h, "retiring")
  /\ UNCHANGED <<vars, lease, state, sessions, tasks, faults>>

\* The finally block ...
RetireSession(h) ==
  /\ runtime[h].phase = "retiring"
  /\ CloseSession(h, {"STARTING", "ACTIVE"}, "RETIRED", "OFFLINE")
  /\ Goto(h, "releasing")
  /\ UNCHANGED <<vars, lease, tasks, faults>>

\* ... gives the lease back; no error, and the next reconcile may start again.
ReleaseLease(h) ==
  /\ runtime[h].phase = "releasing"
  /\ lease' = IF lease.holder = h /\ lease.fence = runtime[h].fence
              THEN [lease EXCEPT !.live = FALSE] ELSE lease
  /\ runtime' = [runtime EXCEPT ![h] =
       IF runtime[h].error THEN [@ EXCEPT !.phase = "offline"]
       ELSE Ended(h, "idle")]
  /\ UNCHANGED <<vars, state, sessions, tasks, faults>>

\* The catch handler in reconcile: markRadioOffline, and a later retry.
MarkOffline(h) ==
  /\ runtime[h].phase = "offline"
  /\ state' = IF state.fence = runtime[h].fence
              THEN [state EXCEPT !.status = "OFFLINE", !.session = None] ELSE state
  /\ runtime' = [runtime EXCEPT ![h] =
       Ended(h, IF runtime[h].aborted THEN "idle" ELSE "backoff")]
  /\ UNCHANGED <<vars, lease, sessions, tasks, faults>>

RetryDue(h) ==
  /\ runtime[h].phase = "backoff"
  /\ Goto(h, "idle")
  /\ UNCHANGED <<vars, lease, state, sessions, tasks, faults>>
-----------------------------------------------------------------------------
(* Processes, time and maintenance.                                         *)

\* SIGTERM aborts the runtime, and the process ends once it is done.
Signal(h) ==
  /\ runtime[h].phase # "gone" /\ ~runtime[h].stopping
  /\ runtime' = [runtime EXCEPT ![h].stopping = TRUE,
                                ![h].aborted = Running(h)]
  /\ UNCHANGED <<vars, lease, state, sessions, tasks, faults>>

Exit(h) ==
  /\ runtime[h].stopping /\ runtime[h].phase \in {"idle", "backoff"}
  /\ runtime' = [runtime EXCEPT ![h] = [Idle EXCEPT !.phase = "gone"]]
  /\ tasks' = [tasks EXCEPT ![h] = {}]
  /\ UNCHANGED <<vars, lease, state, sessions, faults>>

Crash(h) ==
  /\ runtime[h].phase # "gone"
  /\ runtime' = [runtime EXCEPT ![h] = [Idle EXCEPT !.phase = "gone"]]
  /\ tasks' = [tasks EXCEPT ![h] = {}]
  /\ UNCHANGED <<vars, lease, state, sessions, faults>>

\* lease_until passes.
LeaseLapses ==
  /\ lease.live
  /\ IF runtime[lease.holder].phase = "gone" THEN UNCHANGED faults
     ELSE faults < MaxFaults /\ faults' = faults + 1
  /\ lease' = [lease EXCEPT !.live = FALSE]
  /\ UNCHANGED <<vars, state, sessions, runtime, tasks>>

\* removeRetiredRadioPlayoutSession: never the one the state names.
RemoveSession ==
  /\ \E s \in DOMAIN sessions :
       /\ sessions[s].status \in {"RETIRED", "FAILED"} /\ state.session # s
       /\ sessions' = [r \in DOMAIN sessions \ {s} |-> sessions[r]]
  /\ UNCHANGED <<vars, lease, state, runtime, tasks, faults>>
-----------------------------------------------------------------------------
SupervisorStep(h) ==
  \/ Acquire(h) \/ Abort(h) \/ CreateSession(h) \/ CreateSessionRefused(h)
  \/ AcknowledgeFails(h) \/ FailSession(h) \/ FeedingAborted(h) \/ RetireSession(h)
  \/ ReleaseLease(h) \/ MarkOffline(h) \/ RetryDue(h) \/ Exit(h)

TaskStep(h, t) ==
  \/ Acknowledge(h, t) \/ FeederReads(h, t) \/ FeederDelivers(h, t)
  \/ UpdatePlayoutState(h, t) \/ ActivateSession(h, t)

PlayoutNext ==
  \/ ProgrammingStep /\ UNCHANGED playout
  \/ \E h \in Holder :
       \/ SupervisorStep(h) \/ \E t \in tasks[h] : TaskStep(h, t)
       \/ TaskEnds(h) \/ SourceChanged(h) \/ FeedingFails(h) \/ Signal(h) \/ Crash(h)
  \/ LeaseLapses \/ RemoveSession

PlayoutSpec == Init /\ PlayoutInit /\ [][PlayoutNext]_allVars

\* A supervisor and its tasks go on while the process lives, a lease whose holder
\* died runs out, and maintenance comes round.
LivePlayout ==
  /\ PlayoutSpec
  /\ WF_allVars(LeaseLapses) /\ WF_allVars(RemoveSession)
  /\ \A h \in Holder :
       /\ WF_allVars(SupervisorStep(h)) /\ WF_allVars(TaskEnds(h))
       /\ WF_allVars(\E t \in tasks[h] : Acknowledge(h, t))
       /\ WF_allVars(\E t \in tasks[h] : ActivateSession(h, t))
-----------------------------------------------------------------------------
\* A station that is to be played by a supervisor gets a session listeners can
\* follow, while some supervisor stays up and nothing but its own steps, other
\* processes' deaths and a few stalls happens to it.
GoesLive ==
  \A h \in Holder :
    <>[]Eligible /\ <>[](runtime[h].phase # "gone" /\ ~runtime[h].stopping)
      => <>(\E s \in DOMAIN sessions : sessions[s].status = "ACTIVE")
-----------------------------------------------------------------------------
Open(s) == sessions[s].status \in {"STARTING", "ACTIVE"}

\* The fences a process acts for: that of its runtime, and those of earlier runs
\* that left something behind.
Fences(h) == ({runtime[h].fence} \cup {t.fence : t \in tasks[h]}) \ {0}

\* No two supervisors ever act for one fence, however often the lease lapsed
\* under one that is alive, was taken over and was given back, and whatever an
\* ended run left behind.
OneOwnerPerFence ==
  \A g, h \in Holder : Fences(g) \cap Fences(h) # {} => g = h

\* What listeners are offered is of the owner that the state row names: a session
\* that an earlier owner left, or that an upload of it finishes late, is never
\* open beside.
OpenOfOwner ==
  \A s \in DOMAIN sessions : Open(s) => sessions[s].fence = state.fence

\* Once a successor has its session, nothing an earlier owner still does, feeding,
\* activating, failing its session, retiring it, going offline, touches that of the
\* successor or the state row.
SuccessorUndisturbed ==
  [][ \A h \in Holder :
        \/ SupervisorStep(h) /\ runtime[h].fence \in 1 .. state.fence - 1
        \/ \E t \in tasks[h] : TaskStep(h, t) /\ t.fence < state.fence
        =>
          /\ state' = state
          /\ \A s \in DOMAIN sessions :
               Open(s) => s \in DOMAIN sessions' /\ sessions'[s] = sessions[s] ]_allVars

\* What is wrong, as a fact about every behaviour: an acknowledgement comes too
\* early or never, and no session gets past it.
NeverLive ==
  /\ state.session = None
  /\ \A h \in Holder :
       runtime[h].phase # "feeding" /\ \A t \in tasks[h] : t.fed = 0
  /\ \A s \in DOMAIN sessions : sessions[s].status # "ACTIVE"
=============================================================================
