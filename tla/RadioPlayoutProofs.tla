------------------------- MODULE RadioPlayoutProofs -------------------------
(* What holds of RadioPlayout for any supervisors, session ids, calendars   *)
(* and bounds.  What is assumed of them: None is no session id.             *)
EXTENDS RadioPlayout, RadioProgrammingProofs

PlayoutAssumption == None \notin SessionId

(***************************************************************************)
(* Type correctness.                                                       *)
(***************************************************************************)

Phases == {"idle", "backoff", "gone", "starting", "deciding", "feeding", "failing",
           "retiring", "releasing", "offline"}

Runtime == [phase : Phases, fence : Nat, session : SessionId \cup {None}, clock : Nat,
            calendar : BOOLEAN, program : Nat \X (Calendar \cup {None}) \X Int,
            aborted : BOOLEAN, error : BOOLEAN, stopping : BOOLEAN]

SessionRow == [fence : Nat, status : SessionStatus]

StateRow == [fence : Nat, status : SessionStatus \cup {"OFFLINE", "RUNNING"},
             session : SessionId \cup {None}]

PlayoutTypeOK ==
  /\ lease \in [holder : Holder \cup {None}, fence : Nat, live : BOOLEAN]
  /\ state \in StateRow
  /\ DOMAIN sessions \subseteq SessionId /\ sessions \in [DOMAIN sessions -> SessionRow]
  /\ runtime \in [Holder -> Runtime]
  /\ tasks \in [Holder -> SUBSET Task]

\* A step that draws no fence: processes keep theirs or give them up.
Quiet ==
  /\ runtime' \in [Holder -> Runtime] /\ tasks' \in [Holder -> SUBSET Task]
  /\ \A g \in Holder : Fences(g)' \subseteq Fences(g)

\* A step that opens no session and leaves lease and state to their owners.
Closes ==
  /\ lease'.holder = lease.holder /\ lease'.fence = lease.fence
  /\ state'.fence = state.fence
  /\ DOMAIN sessions' \subseteq DOMAIN sessions
  /\ \A s \in DOMAIN sessions' :
       sessions'[s].fence = sessions[s].fence /\ (Open(s)' => Open(s))

LEMMA IdleTyped == Idle \in Runtime /\ Idle.fence = 0
BY DEF Idle, Runtime, Phases, Silence

LEMMA EndedTyped ==
  ASSUME runtime \in [Holder -> Runtime], NEW h \in Holder, NEW phase \in Phases
  PROVE  /\ Ended(h, phase) \in Runtime
         /\ Ended(h, phase).phase = phase /\ Ended(h, phase).fence = 0
<1>1. Ended(h, phase) = [Idle EXCEPT !.phase = phase, !.stopping = runtime[h].stopping]
  BY DEF Ended
<1>2. runtime[h].stopping \in BOOLEAN
  BY DEF Runtime
<1> QED BY <1>1, <1>2, IdleTyped DEF Runtime

LEMMA ReleasedTyped ==
  ASSUME TypeOK
  PROVE  /\ station.clock \in Nat /\ OnCalendar \in BOOLEAN
         /\ ProgramNow \in Nat \X (Calendar \cup {None}) \X Int
<1>1. station.clock \in Nat /\ station.calendar \in Calendar \cup {None} /\ week \in Int
  BY DEF TypeOK, Station
<1>2. OnCalendar \in BOOLEAN
  BY DEF OnCalendar
<1> QED BY <1>1, <1>2 DEF ProgramNow

\* h goes on with the fence it had, or without one.
LEMMA RuntimeQuiet ==
  ASSUME PlayoutTypeOK, NEW h \in Holder, NEW r \in Runtime,
         runtime' = [runtime EXCEPT ![h] = r], r.fence \in {0, runtime[h].fence},
         UNCHANGED tasks
  PROVE  Quiet /\ runtime'[h] = r
<1>1. runtime \in [Holder -> Runtime] /\ tasks \in [Holder -> SUBSET Task]
  BY DEF PlayoutTypeOK
<1>2. runtime' \in [Holder -> Runtime] /\ runtime'[h] = r
      /\ \A g \in Holder : g # h => runtime'[g] = runtime[g]
  BY <1>1
<1>3. ASSUME NEW g \in Holder
      PROVE  Fences(g)' \subseteq Fences(g)
  <2>1. runtime'[g].fence \in {0, runtime[g].fence}
    BY <1>2
  <2> QED BY <2>1 DEF Fences
<1> QED BY <1>1, <1>2, <1>3 DEF Quiet

LEMMA PhaseQuiet ==
  ASSUME PlayoutTypeOK, NEW h \in Holder, NEW phase \in Phases, Goto(h, phase),
         UNCHANGED tasks
  PROVE  Quiet
<1> DEFINE r == [runtime[h] EXCEPT !.phase = phase]
<1>1. runtime \in [Holder -> Runtime] /\ runtime[h] \in Runtime
  BY DEF PlayoutTypeOK
<1>2. r \in Runtime /\ r.fence = runtime[h].fence
  BY <1>1 DEF Runtime
<1>3. runtime' = [runtime EXCEPT ![h] = r]
  BY DEF Goto
<1> HIDE DEF r
<1> QED BY <1>2, <1>3, RuntimeQuiet

\* A task of h goes on with the fence it had.
LEMMA ContinueQuiet ==
  ASSUME PlayoutTypeOK, NEW h \in Holder, NEW t \in tasks[h], NEW u \in Task,
         Continue(h, t, u), u.fence = t.fence, runtime' \in [Holder -> Runtime],
         \A g \in Holder : runtime'[g].fence = runtime[g].fence
  PROVE  Quiet
<1>1. tasks \in [Holder -> SUBSET Task]
  BY DEF PlayoutTypeOK
<1>2. tasks' \in [Holder -> SUBSET Task] /\ tasks'[h] \subseteq tasks[h] \cup {u}
      /\ \A g \in Holder : g # h => tasks'[g] = tasks[g]
  BY <1>1 DEF Continue
<1>3. ASSUME NEW g \in Holder
      PROVE  Fences(g)' \subseteq Fences(g)
  <2>1. {x.fence : x \in tasks'[g]} \subseteq {x.fence : x \in tasks[g]}
    BY <1>2
  <2> QED BY <2>1 DEF Fences
<1> QED BY <1>2, <1>3 DEF Quiet

LEMMA TaskTyped ==
  ASSUME PlayoutTypeOK, NEW h \in Holder, NEW t \in tasks[h]
  PROVE  t \in Task
BY DEF PlayoutTypeOK

LEMMA ReadsTyped ==
  ASSUME NEW t \in Task, NEW read \in Read \cup {None}
  PROVE  /\ [t EXCEPT !.read = read] \in Task
         /\ [t EXCEPT !.read = read].fence = t.fence
         /\ [t EXCEPT !.read = read].fed = t.fed
         /\ [t EXCEPT !.read = read].read = read
BY DEF Task

LEMMA FedTyped ==
  ASSUME NEW t \in Task, NEW fed \in Nat
  PROVE  /\ [t EXCEPT !.fed = fed] \in Task
         /\ [t EXCEPT !.fed = fed].fence = t.fence
         /\ [t EXCEPT !.fed = fed].fed = fed
         /\ [t EXCEPT !.fed = fed].read = t.read
BY DEF Task

\* No step of a task draws a fence ...
LEMMA TaskQuiet ==
  ASSUME PlayoutTypeOK, TypeOK, NEW h \in Holder, NEW t \in tasks[h], TaskStep(h, t)
  PROVE  Quiet
<1>1. /\ runtime \in [Holder -> Runtime] /\ runtime[h] \in Runtime
      /\ tasks \in [Holder -> SUBSET Task] /\ t \in Task
  BY TaskTyped DEF PlayoutTypeOK
<1>2. CASE Acknowledge(h, t)
  <2> DEFINE u == [t EXCEPT !.fed = station.clock]
             r == [runtime[h] EXCEPT !.phase = "feeding", !.program = ProgramNow]
  <2>1. u \in Task /\ u.fence = t.fence
    BY <1>1, FedTyped, ReleasedTyped
  <2>2. r \in Runtime /\ r.fence = runtime[h].fence
    BY <1>1, ReleasedTyped DEF Runtime, Phases
  <2>3. runtime' = runtime \/ runtime' = [runtime EXCEPT ![h] = r]
    BY <1>1, <1>2 DEF Acknowledge
  <2>4. /\ runtime' \in [Holder -> Runtime]
        /\ \A g \in Holder : runtime'[g].fence = runtime[g].fence
    BY <1>1, <2>2, <2>3
  <2>5. Continue(h, t, u)
    BY <1>2 DEF Acknowledge
  <2> HIDE DEF u, r
  <2> QED BY <2>1, <2>4, <2>5, ContinueQuiet
<1>3. CASE FeederReads(h, t)
  <2> DEFINE read == [static |-> station.static, since |-> week]
             u == [t EXCEPT !.read = read]
  <2>1. read \in Read \cup {None}
    BY DEF TypeOK, Station, Read
  <2>2. u \in Task /\ u.fence = t.fence
    BY <1>1, <2>1, ReadsTyped
  <2>3. Continue(h, t, u) /\ runtime' = runtime
    BY <1>3 DEF FeederReads
  <2> HIDE DEF u, read
  <2> QED BY <1>1, <2>2, <2>3, ContinueQuiet
<1>4. CASE FeederDelivers(h, t)
  <2> DEFINE u == [t EXCEPT !.read = None]
  <2>1. u \in Task /\ u.fence = t.fence
    BY <1>1, ReadsTyped
  <2>2. Continue(h, t, u) /\ runtime' = runtime
    BY <1>4 DEF FeederDelivers
  <2> HIDE DEF u
  <2> QED BY <1>1, <2>1, <2>2, ContinueQuiet
<1>5. CASE UpdatePlayoutState(h, t) \/ ActivateSession(h, t)
  BY <1>1, <1>5 DEF UpdatePlayoutState, ActivateSession, Quiet, Fences
<1> QED BY <1>2, <1>3, <1>4, <1>5 DEF TaskStep

\* ... and a process that takes no lease and starts no session draws none.
LEMMA SupervisorQuiet ==
  ASSUME PlayoutTypeOK, TypeOK, NEW h \in Holder,
         \/ SupervisorStep(h) \/ TaskEnds(h) \/ SourceChanged(h) \/ FeedingFails(h)
         \/ Signal(h) \/ Crash(h),
         ~Acquire(h), ~CreateSession(h)
  PROVE  Quiet
<1>0. /\ runtime \in [Holder -> Runtime] /\ runtime[h] \in Runtime
      /\ tasks \in [Holder -> SUBSET Task]
  BY DEF PlayoutTypeOK
<1>1. CASE Abort(h)
  <2> DEFINE r == [runtime[h] EXCEPT !.aborted = TRUE]
  <2>1. r \in Runtime /\ r.fence = runtime[h].fence
    BY <1>0 DEF Runtime
  <2>2. runtime' = [runtime EXCEPT ![h] = r] /\ UNCHANGED tasks
    BY <1>0, <1>1 DEF Abort
  <2> HIDE DEF r
  <2> QED BY <2>1, <2>2, RuntimeQuiet
<1>2. CASE CreateSessionRefused(h) \/ FailSession(h)
  <2>1. PICK phase \in {"releasing", "retiring"} :
          /\ UNCHANGED tasks
          /\ runtime' = [runtime EXCEPT ![h].phase = phase,
                                        ![h].error = ~runtime[h].aborted]
    BY <1>2 DEF CreateSessionRefused, FailSession
  <2> DEFINE r == [runtime[h] EXCEPT !.phase = phase, !.error = ~runtime[h].aborted]
  <2>2. r \in Runtime /\ r.fence = runtime[h].fence
    BY <1>0 DEF Runtime, Phases
  <2>3. runtime' = [runtime EXCEPT ![h] = r]
    BY <1>0, <2>1
  <2> HIDE DEF r
  <2> QED BY <2>1, <2>2, <2>3, RuntimeQuiet
<1>3. CASE \/ AcknowledgeFails(h) \/ SourceChanged(h) \/ FeedingFails(h)
           \/ FeedingAborted(h) \/ RetireSession(h) \/ RetryDue(h)
  <2>1. PICK phase \in Phases : Goto(h, phase) /\ UNCHANGED tasks
    BY <1>3 DEF AcknowledgeFails, SourceChanged, FeedingFails, FeedingAborted,
                RetireSession, RetryDue, Phases
  <2> QED BY <2>1, PhaseQuiet
<1>4. CASE ReleaseLease(h)
  <2>1. UNCHANGED tasks
    BY <1>4 DEF ReleaseLease
  <2>2. CASE runtime[h].error
    <3> DEFINE r == [runtime[h] EXCEPT !.phase = "offline"]
    <3>1. r \in Runtime /\ r.fence = runtime[h].fence
      BY <1>0 DEF Runtime, Phases
    <3>2. runtime' = [runtime EXCEPT ![h] = r]
      BY <1>0, <1>4, <2>2 DEF ReleaseLease
    <3> HIDE DEF r
    <3> QED BY <2>1, <3>1, <3>2, RuntimeQuiet
  <2>3. CASE ~runtime[h].error
    <3>1. runtime' = [runtime EXCEPT ![h] = Ended(h, "idle")]
      BY <1>0, <1>4, <2>3 DEF ReleaseLease
    <3>2. Ended(h, "idle") \in Runtime /\ Ended(h, "idle").fence = 0
      BY <1>0, EndedTyped DEF Phases
    <3> QED BY <2>1, <3>1, <3>2, RuntimeQuiet
  <2> QED BY <2>2, <2>3
<1>5. CASE MarkOffline(h)
  <2>1. PICK phase \in Phases :
          runtime' = [runtime EXCEPT ![h] = Ended(h, phase)] /\ UNCHANGED tasks
    <3>1. "idle" \in Phases /\ "backoff" \in Phases
      BY DEF Phases
    <3> QED BY <1>5, <3>1 DEF MarkOffline
  <2>2. Ended(h, phase) \in Runtime /\ Ended(h, phase).fence = 0
    BY <1>0, EndedTyped
  <2> QED BY <2>1, <2>2, RuntimeQuiet
<1>6. CASE Signal(h)
  <2> DEFINE r == [runtime[h] EXCEPT !.stopping = TRUE, !.aborted = Running(h)]
  <2>1. r \in Runtime /\ r.fence = runtime[h].fence
    BY <1>0 DEF Runtime, Running
  <2>2. runtime' = [runtime EXCEPT ![h] = r] /\ UNCHANGED tasks
    BY <1>0, <1>6 DEF Signal
  <2> HIDE DEF r
  <2> QED BY <2>1, <2>2, RuntimeQuiet
<1>7. CASE Exit(h) \/ Crash(h)
  <2> DEFINE r == [Idle EXCEPT !.phase = "gone"]
  <2>1. r \in Runtime /\ r.fence = 0
    BY IdleTyped DEF Runtime, Phases
  <2>2. runtime' = [runtime EXCEPT ![h] = r] /\ tasks' = [tasks EXCEPT ![h] = {}]
    BY <1>7 DEF Exit, Crash
  <2> HIDE DEF r
  <2>3. runtime' \in [Holder -> Runtime] /\ tasks' \in [Holder -> SUBSET Task]
    BY <1>0, <2>1, <2>2
  <2>4. ASSUME NEW g \in Holder
        PROVE  Fences(g)' \subseteq Fences(g)
    <3>1. runtime'[g].fence \in {0, runtime[g].fence} /\ tasks'[g] \subseteq tasks[g]
      BY <1>0, <2>1, <2>2
    <3> QED BY <3>1 DEF Fences
  <2> QED BY <2>3, <2>4 DEF Quiet
<1>8. CASE TaskEnds(h)
  <2>1. PICK t \in tasks[h] : tasks' = [tasks EXCEPT ![h] = @ \ {t}]
    BY <1>8 DEF TaskEnds
  <2>2. UNCHANGED runtime
    BY <1>8 DEF TaskEnds
  <2>3. /\ tasks' \in [Holder -> SUBSET Task]
        /\ \A g \in Holder : tasks'[g] \subseteq tasks[g]
    BY <1>0, <2>1
  <2> QED BY <1>0, <2>2, <2>3 DEF Quiet, Fences
<1> QED BY <1>1, <1>2, <1>3, <1>4, <1>5, <1>6, <1>7, <1>8 DEF SupervisorStep

\* What the rows are after a step that opens nothing.
RowsTyped ==
  /\ lease' \in [holder : Holder \cup {None}, fence : Nat, live : BOOLEAN]
  /\ state' \in StateRow
  /\ DOMAIN sessions' \subseteq SessionId /\ sessions' \in [DOMAIN sessions' -> SessionRow]

LEMMA SameRows ==
  ASSUME PlayoutTypeOK, UNCHANGED <<lease, state, sessions>>
  PROVE  Closes /\ RowsTyped
BY DEF Closes, Open, PlayoutTypeOK, RowsTyped

LEMMA ClosedSession ==
  ASSUME PlayoutTypeOK, NEW h \in Holder, NEW from \in SUBSET SessionStatus,
         NEW to \in {"RETIRED", "FAILED"}, NEW status \in {"OFFLINE", "FAILED"},
         CloseSession(h, from, to, status), UNCHANGED lease
  PROVE  /\ Closes /\ RowsTyped
         /\ \A s \in DOMAIN sessions :
              \/ sessions'[s] = sessions[s]
              \/ sessions[s].fence = runtime[h].fence /\ sessions'[s].status = to
         /\ state.fence # runtime[h].fence => state' = state
         /\ state'.session \in {state.session, None}
         /\ DOMAIN sessions' = DOMAIN sessions
<1> DEFINE closed(s) == /\ s = runtime[h].session /\ sessions[s].fence = runtime[h].fence
                        /\ sessions[s].status \in from
<1>1. sessions' = [s \in DOMAIN sessions |->
        IF closed(s) THEN [sessions[s] EXCEPT !.status = to] ELSE sessions[s]]
  BY DEF CloseSession
<1>2. \A s \in DOMAIN sessions : sessions[s] \in SessionRow
  BY DEF PlayoutTypeOK
<1>3. DOMAIN sessions' = DOMAIN sessions
  BY <1>1
<1>4. ASSUME NEW s \in DOMAIN sessions, closed(s)
      PROVE  /\ sessions'[s] \in SessionRow /\ sessions'[s].fence = sessions[s].fence
             /\ sessions'[s].status = to
  <2>1. sessions'[s] = [sessions[s] EXCEPT !.status = to]
    BY <1>1, <1>4
  <2> QED BY <2>1, <1>2 DEF SessionRow, SessionStatus
<1>5. ASSUME NEW s \in DOMAIN sessions, ~closed(s)
      PROVE  sessions'[s] = sessions[s]
  BY <1>1, <1>5
<1>6. \A s \in DOMAIN sessions :
        sessions'[s] \in SessionRow /\ sessions'[s].fence = sessions[s].fence
  BY <1>2, <1>4, <1>5
<1>7. sessions' \in [DOMAIN sessions -> SessionRow]
  <2>1. sessions' = [s \in DOMAIN sessions' |-> sessions'[s]]
    BY <1>1
  <2> QED BY <2>1, <1>3, <1>6
<1>8. state' = IF state.fence = runtime[h].fence
               THEN [state EXCEPT !.status = status, !.session = None] ELSE state
  BY DEF CloseSession
<1>9. state' \in StateRow /\ state'.fence = state.fence
      /\ state'.session \in {state.session, None}
  BY <1>8 DEF PlayoutTypeOK, StateRow, SessionStatus
<1>10. Closes
  <2>1. \A s \in DOMAIN sessions : Open(s)' => Open(s)
    BY <1>4, <1>5 DEF Open
  <2> QED BY <1>3, <1>6, <1>9, <2>1 DEF Closes
<1>11. RowsTyped
  BY <1>3, <1>7, <1>9 DEF RowsTyped, PlayoutTypeOK
<1> QED BY <1>3, <1>4, <1>5, <1>8, <1>9, <1>10, <1>11

LEMMA SupervisorCloses ==
  ASSUME PlayoutTypeOK, NEW h \in Holder,
         \/ SupervisorStep(h) \/ TaskEnds(h) \/ SourceChanged(h) \/ FeedingFails(h)
         \/ Signal(h) \/ Crash(h),
         ~Acquire(h), ~CreateSession(h)
  PROVE  Closes /\ RowsTyped
<1>1. CASE FailSession(h) \/ RetireSession(h)
  <2>1. PICK from \in SUBSET SessionStatus, to \in {"RETIRED", "FAILED"},
             status \in {"OFFLINE", "FAILED"} : CloseSession(h, from, to, status)
    BY <1>1 DEF FailSession, RetireSession, SessionStatus
  <2>2. UNCHANGED lease
    BY <1>1 DEF FailSession, RetireSession
  <2> QED BY <2>1, <2>2, ClosedSession
<1>2. CASE ReleaseLease(h)
  <2>1. /\ lease' \in [holder : Holder \cup {None}, fence : Nat, live : BOOLEAN]
        /\ lease'.holder = lease.holder /\ lease'.fence = lease.fence
    BY <1>2 DEF ReleaseLease, PlayoutTypeOK
  <2>2. UNCHANGED <<state, sessions>>
    BY <1>2 DEF ReleaseLease
  <2> QED BY <2>1, <2>2 DEF Closes, Open, RowsTyped, PlayoutTypeOK
<1>3. CASE MarkOffline(h)
  <2>1. UNCHANGED <<lease, sessions>> /\ state' \in StateRow /\ state'.fence = state.fence
    BY <1>3 DEF MarkOffline, PlayoutTypeOK, StateRow
  <2> QED BY <2>1 DEF Closes, Open, RowsTyped, PlayoutTypeOK
<1>4. CASE ~FailSession(h) /\ ~RetireSession(h) /\ ~ReleaseLease(h) /\ ~MarkOffline(h)
  <2>1. UNCHANGED <<lease, state, sessions>>
    BY <1>4 DEF SupervisorStep, TaskEnds, SourceChanged, FeedingFails, Signal, Crash, Abort,
           CreateSessionRefused, AcknowledgeFails, FeedingAborted, RetryDue, Exit
  <2> QED BY <2>1, SameRows
<1> QED BY <1>1, <1>2, <1>3, <1>4

LEMMA TaskCloses ==
  ASSUME PlayoutTypeOK, NEW h \in Holder, NEW t \in tasks[h], TaskStep(h, t),
         ~ActivateSession(h, t)
  PROVE  Closes /\ RowsTyped
<1>1. CASE UpdatePlayoutState(h, t)
  <2>1. UNCHANGED <<lease, sessions>> /\ state' \in StateRow /\ state'.fence = state.fence
    BY <1>1 DEF UpdatePlayoutState, PlayoutTypeOK, StateRow
  <2> QED BY <2>1 DEF Closes, Open, RowsTyped, PlayoutTypeOK
<1>2. CASE ~UpdatePlayoutState(h, t)
  BY <1>2, SameRows DEF TaskStep, Acknowledge, FeederReads, FeederDelivers
<1> QED BY <1>1, <1>2

\* Time and maintenance.
LEMMA LapseCloses ==
  ASSUME PlayoutTypeOK, LeaseLapses \/ RemoveSession
  PROVE  Closes /\ RowsTyped /\ UNCHANGED <<runtime, tasks>>
<1>1. CASE LeaseLapses
  <2>1. /\ lease' \in [holder : Holder \cup {None}, fence : Nat, live : BOOLEAN]
        /\ lease'.holder = lease.holder /\ lease'.fence = lease.fence
    BY <1>1 DEF LeaseLapses, PlayoutTypeOK
  <2> QED BY <1>1, <2>1 DEF LeaseLapses, Closes, Open, RowsTyped, PlayoutTypeOK
<1>2. CASE RemoveSession
  <2>1. PICK s \in DOMAIN sessions :
          sessions' = [r \in DOMAIN sessions \ {s} |-> sessions[r]]
    BY <1>2 DEF RemoveSession
  <2>2. UNCHANGED <<lease, state, runtime, tasks>>
    BY <1>2 DEF RemoveSession
  <2>3. \A r \in DOMAIN sessions' : r \in DOMAIN sessions /\ sessions'[r] = sessions[r]
    BY <2>1
  <2> QED BY <2>1, <2>2, <2>3 DEF Closes, Open, RowsTyped, PlayoutTypeOK
<1> QED BY <1>1, <1>2

(***************************************************************************)
(* The invariant.                                                          *)
(***************************************************************************)

\* Fences only come from the lease: the state row and the sessions are not ahead of
\* it, and its present fence is held by its holder alone.
Fenced ==
  /\ state.fence <= lease.fence
  /\ \A s \in DOMAIN sessions : sessions[s].fence <= state.fence
  /\ \A h \in Holder : \A f \in Fences(h) :
       f <= lease.fence /\ (f = lease.fence => lease.holder = h)

PlayoutInv == PlayoutTypeOK /\ Fenced /\ OneOwnerPerFence /\ OpenOfOwner

LEMMA InitPlayoutInv == PlayoutInit => PlayoutInv
<1> SUFFICES ASSUME PlayoutInit PROVE PlayoutInv
  OBVIOUS
<1>1. \A h \in Holder : runtime[h].fence = 0 /\ tasks[h] = {}
  BY IdleTyped DEF PlayoutInit
<1>2. \A h \in Holder : Fences(h) = {}
  BY <1>1 DEF Fences
<1>3. PlayoutTypeOK
  BY IdleTyped DEF PlayoutInit, PlayoutTypeOK, StateRow, SessionStatus
<1>4. Fenced /\ OneOwnerPerFence /\ OpenOfOwner
  BY <1>2 DEF PlayoutInit, Fenced, OneOwnerPerFence, OpenOfOwner
<1> QED BY <1>3, <1>4 DEF PlayoutInv

LEMMA FencesTyped ==
  ASSUME PlayoutTypeOK, NEW h \in Holder, NEW f \in Fences(h)
  PROVE  f \in Nat \ {0}
BY DEF PlayoutTypeOK, Fences, Runtime, Task

\* Nothing is drawn and nothing opened.
LEMMA SettledInv ==
  ASSUME PlayoutInv, Quiet, Closes, RowsTyped
  PROVE  PlayoutInv'
<1>1. PlayoutTypeOK'
  BY DEF Quiet, RowsTyped, PlayoutTypeOK
<1>2. lease'.fence = lease.fence /\ lease'.holder = lease.holder /\ state'.fence = state.fence
      /\ \A s \in DOMAIN sessions' : s \in DOMAIN sessions
           /\ sessions'[s].fence = sessions[s].fence /\ (Open(s)' => Open(s))
  BY DEF Closes
<1>3. \A h \in Holder : Fences(h)' \subseteq Fences(h)
  BY DEF Quiet
<1>4. Fenced'
  BY <1>2, <1>3 DEF PlayoutInv, Fenced
<1>5. OneOwnerPerFence'
  BY <1>3 DEF PlayoutInv, OneOwnerPerFence
<1>6. OpenOfOwner'
  BY <1>2 DEF PlayoutInv, OpenOfOwner
<1> QED BY <1>1, <1>4, <1>5, <1>6 DEF PlayoutInv

\* A take-over draws a fence nobody has; a process that still holds the lease draws
\* its own again.
LEMMA AcquireInv ==
  ASSUME PlayoutInv, TypeOK, NEW h \in Holder, Acquire(h)
  PROVE  PlayoutInv'
<1> DEFINE fence == IF lease.holder = h THEN lease.fence ELSE lease.fence + 1
           r == [Idle EXCEPT !.phase = "starting", !.fence = fence, !.clock = station.clock,
                             !.calendar = OnCalendar]
<1>1. PlayoutTypeOK /\ Fenced /\ OneOwnerPerFence /\ OpenOfOwner
  BY DEF PlayoutInv
<1>2. /\ runtime \in [Holder -> Runtime] /\ lease.fence \in Nat /\ fence \in Nat
      /\ state.fence \in Nat
  BY <1>1 DEF PlayoutTypeOK, StateRow
<1>3. r \in Runtime /\ r.fence = fence
  <2>1. Idle \in Runtime /\ station.clock \in Nat /\ OnCalendar \in BOOLEAN
    BY IdleTyped, ReleasedTyped
  <2> HIDE DEF fence
  <2> QED BY <1>2, <2>1 DEF Runtime, Phases
<1>4. /\ runtime' = [runtime EXCEPT ![h] = r]
      /\ lease' = [holder |-> h, fence |-> fence, live |-> TRUE]
      /\ UNCHANGED <<state, sessions, tasks>>
  BY DEF Acquire
<1> HIDE DEF r
<1>5. fence \in {lease.fence, lease.fence + 1} /\ lease.fence <= fence
  BY <1>2
<1>6. ASSUME NEW g \in Holder, g # h
      PROVE  /\ Fences(g)' = Fences(g)
             /\ \A f \in Fences(g) : f < fence
  <2>1. runtime'[g] = runtime[g] /\ tasks'[g] = tasks[g]
    BY <1>2, <1>4, <1>6
  <2>2. ASSUME NEW f \in Fences(g)
        PROVE  f < fence
    <3>1. f \in Nat /\ f <= lease.fence /\ (f = lease.fence => lease.holder = g)
      BY <1>1, FencesTyped DEF Fenced
    <3> QED BY <1>2, <1>6, <3>1
  <2> QED BY <2>1, <2>2 DEF Fences
<1>7. \A f \in Fences(h)' : f = fence \/ f \in Fences(h)
  BY <1>2, <1>3, <1>4 DEF Fences
<1>8. \A f \in Fences(h) : f \in Nat /\ f <= fence
  <2> SUFFICES ASSUME NEW f \in Fences(h) PROVE f \in Nat /\ f <= fence
    OBVIOUS
  <2>1. f \in Nat /\ f <= lease.fence
    BY <1>1, FencesTyped DEF Fenced
  <2> QED BY <1>2, <1>5, <2>1
<1> HIDE DEF fence
<1>9. PlayoutTypeOK'
  BY <1>1, <1>2, <1>3, <1>4 DEF PlayoutTypeOK
<1>10. Fenced'
  <2>1. lease'.fence = fence /\ lease'.holder = h
    BY <1>4
  <2>2. state'.fence <= fence /\ \A s \in DOMAIN sessions' : sessions'[s].fence <= state'.fence
    BY <1>1, <1>2, <1>4, <1>5 DEF Fenced
  <2>3. ASSUME NEW g \in Holder, NEW f \in Fences(g)'
        PROVE  f <= fence /\ (f = fence => h = g)
    <3>1. CASE g = h
      BY <1>2, <1>7, <1>8, <2>3, <3>1
    <3>2. CASE g # h
      <4>1. f \in Nat /\ f < fence
        BY <1>1, <1>6, <2>3, <3>2, FencesTyped
      <4> QED BY <1>2, <4>1
    <3> QED BY <3>1, <3>2
  <2> QED BY <2>1, <2>2, <2>3 DEF Fenced
<1>11. OneOwnerPerFence'
  <2> SUFFICES ASSUME NEW f \in Holder, NEW g \in Holder, NEW n \in Fences(f)',
                      n \in Fences(g)'
               PROVE  f = g
    BY DEF OneOwnerPerFence
  <2>1. CASE f = h /\ g # h
    <3>1. n \in Fences(g) /\ n # fence
      BY <1>1, <1>2, <1>6, <2>1, FencesTyped
    <3> QED BY <1>1, <1>7, <2>1, <3>1 DEF OneOwnerPerFence
  <2>2. CASE f # h /\ g = h
    <3>1. n \in Fences(f) /\ n # fence
      BY <1>1, <1>2, <1>6, <2>2, FencesTyped
    <3> QED BY <1>1, <1>7, <2>2, <3>1 DEF OneOwnerPerFence
  <2>3. CASE f # h /\ g # h
    BY <1>1, <1>6, <2>3 DEF OneOwnerPerFence
  <2> QED BY <2>1, <2>2, <2>3
<1>12. OpenOfOwner'
  BY <1>1, <1>4 DEF OpenOfOwner, Open
<1> QED BY <1>9, <1>10, <1>11, <1>12 DEF PlayoutInv

\* What createRadioSession leaves: one new session, everything else closed.
LEMMA CreateShape ==
  ASSUME PlayoutTypeOK, NEW h \in Holder, CreateSession(h)
  PROVE  /\ PlayoutTypeOK' /\ UNCHANGED lease /\ Valid(h)
         /\ \A g \in Holder : runtime'[g].fence = runtime[g].fence
         /\ \A g \in Holder : \A t \in tasks'[g] :
              t \in tasks[g] \/ /\ g = h /\ t.fence = runtime[h].fence
                                /\ t.fed = 0 /\ t.read = None
         /\ \A g \in Holder : runtime'[g].phase \in {"deciding", runtime[g].phase}
         /\ state' = [fence |-> runtime[h].fence, status |-> "STARTING", session |-> None]
         /\ \A s \in DOMAIN sessions' :
              \/ /\ sessions'[s].fence = runtime[h].fence
                 /\ sessions'[s].status = "STARTING"
              \/ /\ s \in DOMAIN sessions /\ sessions'[s].fence = sessions[s].fence
                 /\ sessions'[s].status \notin {"STARTING", "ACTIVE"}
<1>1. PICK s \in SessionId \ DOMAIN sessions :
       /\ sessions' = [r \in DOMAIN sessions \cup {s} |->
            IF r = s THEN [fence |-> runtime[h].fence, status |-> "STARTING"]
            ELSE [sessions[r] EXCEPT
                    !.status = IF @ \in {"STARTING", "ACTIVE"} THEN "RETIRED" ELSE @]]
       /\ runtime' = [runtime EXCEPT ![h].phase = "deciding", ![h].session = s]
       /\ tasks' = [tasks EXCEPT ![h] = @ \cup
            {[session |-> s, fence |-> runtime[h].fence, fed |-> 0, read |-> None]}]
  BY DEF CreateSession
<1>2. /\ Valid(h) /\ UNCHANGED lease
      /\ state' = [fence |-> runtime[h].fence, status |-> "STARTING", session |-> None]
  BY DEF CreateSession
<1>3. runtime \in [Holder -> Runtime] /\ runtime[h] \in Runtime
      /\ tasks \in [Holder -> SUBSET Task]
  BY DEF PlayoutTypeOK
<1> DEFINE q == [runtime[h] EXCEPT !.phase = "deciding", !.session = s]
           u == [session |-> s, fence |-> runtime[h].fence, fed |-> 0, read |-> None]
<1>4. q \in Runtime /\ q.phase = "deciding" /\ q.fence = runtime[h].fence
  BY <1>3 DEF Runtime, Phases
<1>5. u \in Task /\ u.fence = runtime[h].fence /\ u.fed = 0 /\ u.read = None
  BY <1>3 DEF Task, Runtime
<1>6. runtime' = [runtime EXCEPT ![h] = q] /\ tasks' = [tasks EXCEPT ![h] = @ \cup {u}]
  BY <1>1, <1>3
<1> HIDE DEF q, u
<1>7. /\ runtime' \in [Holder -> Runtime]
      /\ \A g \in Holder : runtime'[g].fence = runtime[g].fence
      /\ \A g \in Holder : runtime'[g].phase \in {"deciding", runtime[g].phase}
  BY <1>3, <1>4, <1>6
<1>8. /\ tasks' \in [Holder -> SUBSET Task]
      /\ \A g \in Holder : \A t \in tasks'[g] : t \in tasks[g] \/ (g = h /\ t = u)
  BY <1>3, <1>5, <1>6
<1>9. runtime[h].fence \in Nat
  BY <1>3 DEF Runtime
<1>10. ASSUME NEW r \in DOMAIN sessions
       PROVE  /\ sessions'[r] \in SessionRow /\ sessions'[r].fence = sessions[r].fence
              /\ sessions'[r].status \notin {"STARTING", "ACTIVE"}
  <2>1. sessions[r] \in SessionRow /\ r # s
    BY <1>1 DEF PlayoutTypeOK
  <2>2. sessions'[r] = [sessions[r] EXCEPT
                          !.status = IF @ \in {"STARTING", "ACTIVE"} THEN "RETIRED" ELSE @]
    BY <1>1, <2>1
  <2> QED BY <2>1, <2>2 DEF SessionRow, SessionStatus
<1>11. sessions'[s] = [fence |-> runtime[h].fence, status |-> "STARTING"]
       /\ DOMAIN sessions' = DOMAIN sessions \cup {s}
  BY <1>1
<1>12. sessions' \in [DOMAIN sessions' -> SessionRow]
  <2>1. \A r \in DOMAIN sessions' : sessions'[r] \in SessionRow
    BY <1>9, <1>10, <1>11 DEF SessionRow, SessionStatus
  <2>2. sessions' = [r \in DOMAIN sessions' |-> sessions'[r]]
    BY <1>1
  <2> QED BY <2>1, <2>2
<1>13. PlayoutTypeOK'
  <2>1. DOMAIN sessions' \subseteq SessionId
    BY <1>11 DEF PlayoutTypeOK
  <2>2. state' \in StateRow
    BY <1>2, <1>9 DEF StateRow, SessionStatus
  <2> QED BY <1>2, <1>7, <1>8, <1>12, <2>1, <2>2 DEF PlayoutTypeOK
<1>14. \A r \in DOMAIN sessions' :
         \/ sessions'[r].fence = runtime[h].fence /\ sessions'[r].status = "STARTING"
         \/ /\ r \in DOMAIN sessions /\ sessions'[r].fence = sessions[r].fence
            /\ sessions'[r].status \notin {"STARTING", "ACTIVE"}
  BY <1>10, <1>11
<1>15. \A g \in Holder : \A t \in tasks'[g] :
         t \in tasks[g] \/ /\ g = h /\ t.fence = runtime[h].fence
                           /\ t.fed = 0 /\ t.read = None
  BY <1>5, <1>8
<1>16. \A r \in DOMAIN sessions' :
         \/ /\ sessions'[r].fence = runtime[h].fence
            /\ sessions'[r].status = "STARTING"
         \/ /\ r \in DOMAIN sessions /\ sessions'[r].fence = sessions[r].fence
            /\ sessions'[r].status \notin {"STARTING", "ACTIVE"}
  BY <1>14
<1> QED BY <1>2, <1>7, <1>13, <1>15, <1>16

LEMMA CreateInv ==
  ASSUME PlayoutInv, NEW h \in Holder, CreateSession(h)
  PROVE  PlayoutInv'
<1>1. PlayoutTypeOK /\ Fenced /\ OneOwnerPerFence /\ OpenOfOwner
  BY DEF PlayoutInv
<1>2. /\ PlayoutTypeOK' /\ UNCHANGED lease /\ Valid(h)
      /\ \A g \in Holder : runtime'[g].fence = runtime[g].fence
      /\ \A g \in Holder : \A t \in tasks'[g] :
           t \in tasks[g] \/ (g = h /\ t.fence = runtime[h].fence)
      /\ state' = [fence |-> runtime[h].fence, status |-> "STARTING", session |-> None]
      /\ \A s \in DOMAIN sessions' :
           \/ sessions'[s].fence = runtime[h].fence /\ sessions'[s].status = "STARTING"
           \/ /\ s \in DOMAIN sessions /\ sessions'[s].fence = sessions[s].fence
              /\ sessions'[s].status \notin {"STARTING", "ACTIVE"}
  BY <1>1, CreateShape
<1>3. /\ lease.fence \in Nat /\ state.fence \in Nat /\ runtime[h].fence = lease.fence
      /\ \A s \in DOMAIN sessions : sessions[s].fence \in Nat
      /\ state'.fence = lease.fence
  BY <1>1, <1>2 DEF PlayoutTypeOK, SessionRow, StateRow, Valid, Holds
<1>4. \A g \in Holder : Fences(g)' \subseteq Fences(g)
  BY <1>2 DEF Fences
<1>5. Fenced'
  <2>1. \A s \in DOMAIN sessions' : sessions'[s].fence <= lease.fence
    <3> SUFFICES ASSUME NEW s \in DOMAIN sessions' PROVE sessions'[s].fence <= lease.fence
      OBVIOUS
    <3>1. CASE sessions'[s].fence = runtime[h].fence
      BY <1>3, <3>1
    <3>2. CASE s \in DOMAIN sessions /\ sessions'[s].fence = sessions[s].fence
      BY <1>1, <1>3, <3>2 DEF Fenced
    <3> QED BY <1>2, <3>1, <3>2
  <2>2. \A g \in Holder : \A f \in Fences(g)' :
          f <= lease.fence /\ (f = lease.fence => lease.holder = g)
    BY <1>1, <1>4 DEF Fenced
  <2> QED BY <1>2, <1>3, <2>1, <2>2 DEF Fenced
<1>6. OneOwnerPerFence'
  BY <1>1, <1>4 DEF OneOwnerPerFence
<1>7. OpenOfOwner'
  BY <1>2, <1>3 DEF OpenOfOwner, Open
<1> QED BY <1>2, <1>5, <1>6, <1>7 DEF PlayoutInv

\* What an activation leaves, of a session that may have been closed before.
LEMMA ActivateShape ==
  ASSUME PlayoutTypeOK, NEW h \in Holder, NEW t \in tasks[h], ActivateSession(h, t)
  PROVE  /\ RowsTyped /\ UNCHANGED <<lease, runtime, tasks>>
         /\ t.fed # 0 /\ Holds(h, t.fence) /\ state'.fence = state.fence
         /\ DOMAIN sessions' = DOMAIN sessions
         /\ t.session \in DOMAIN sessions /\ sessions[t.session].fence = lease.fence
         /\ \A s \in DOMAIN sessions : sessions'[s].fence = sessions[s].fence
         /\ \A s \in DOMAIN sessions : s # t.session => sessions'[s] = sessions[s]
<1> DEFINE s == t.session
<1>1. /\ UNCHANGED <<lease, runtime, tasks>> /\ t.fed # 0 /\ Holds(h, t.fence)
      /\ s \in DOMAIN sessions /\ sessions[s].fence = lease.fence
      /\ sessions' = [sessions EXCEPT ![s].status = "ACTIVE"]
      /\ state' = IF state.fence = t.fence
                  THEN [state EXCEPT !.status = "RUNNING", !.session = s] ELSE state
  BY DEF ActivateSession
<1> HIDE DEF s
<1>2. /\ s \in SessionId /\ sessions \in [DOMAIN sessions -> SessionRow]
      /\ sessions[s] \in SessionRow /\ DOMAIN sessions \subseteq SessionId
  BY <1>1 DEF PlayoutTypeOK
<1>3. state' \in StateRow /\ state'.fence = state.fence
  BY <1>1, <1>2 DEF PlayoutTypeOK, StateRow
<1>4. /\ sessions' \in [DOMAIN sessions -> SessionRow]
      /\ \A r \in DOMAIN sessions : sessions'[r].fence = sessions[r].fence
      /\ \A r \in DOMAIN sessions : r # s => sessions'[r] = sessions[r]
  BY <1>1, <1>2 DEF SessionRow, SessionStatus
<1>5. DOMAIN sessions' = DOMAIN sessions
  BY <1>4
<1>6. RowsTyped
  BY <1>1, <1>2, <1>3, <1>4, <1>5 DEF RowsTyped, PlayoutTypeOK
<1> QED BY <1>1, <1>3, <1>4, <1>5, <1>6 DEF s

\* It is of the fence of the lease, which is then that of the state row.
LEMMA ActivateInv ==
  ASSUME PlayoutInv, NEW h \in Holder, NEW t \in tasks[h], ActivateSession(h, t)
  PROVE  PlayoutInv'
<1>1. PlayoutTypeOK /\ Fenced /\ OneOwnerPerFence /\ OpenOfOwner
  BY DEF PlayoutInv
<1> DEFINE s == t.session
<1>2. /\ RowsTyped /\ UNCHANGED <<lease, runtime, tasks>> /\ state'.fence = state.fence
      /\ DOMAIN sessions' = DOMAIN sessions
      /\ s \in DOMAIN sessions /\ sessions[s].fence = lease.fence
      /\ \A r \in DOMAIN sessions : sessions'[r].fence = sessions[r].fence
      /\ \A r \in DOMAIN sessions : r # s => sessions'[r] = sessions[r]
  BY <1>1, ActivateShape
<1> HIDE DEF s
<1>3. PlayoutTypeOK'
  BY <1>1, <1>2 DEF RowsTyped, PlayoutTypeOK
<1>4. sessions[s].fence = state.fence
  <2>1. sessions[s].fence <= state.fence /\ state.fence <= lease.fence
        /\ state.fence \in Nat /\ lease.fence \in Nat
    BY <1>1, <1>2 DEF Fenced, PlayoutTypeOK, StateRow
  <2> QED BY <1>2, <2>1
<1>5. \A g \in Holder : Fences(g)' = Fences(g)
  BY <1>2 DEF Fences
<1>6. Fenced' /\ OneOwnerPerFence'
  BY <1>1, <1>2, <1>5 DEF Fenced, OneOwnerPerFence
<1>7. OpenOfOwner'
  BY <1>1, <1>2, <1>4 DEF OpenOfOwner, Open
<1> QED BY <1>3, <1>6, <1>7 DEF PlayoutInv

LEMMA StepPlayoutInv ==
  ASSUME TypeOK, PlayoutInv, [PlayoutNext]_allVars
  PROVE  PlayoutInv'
<1>1. PlayoutTypeOK
  BY DEF PlayoutInv
<1>2. CASE UNCHANGED playout
  <2>1. UNCHANGED <<lease, state, sessions, runtime, tasks>>
    BY <1>2 DEF playout
  <2>2. Quiet
    BY <1>1, <2>1 DEF Quiet, PlayoutTypeOK, Fences
  <2> QED BY <1>1, <2>1, <2>2, SameRows, SettledInv
<1>3. ASSUME NEW h \in Holder,
             \/ SupervisorStep(h) \/ TaskEnds(h) \/ SourceChanged(h) \/ FeedingFails(h)
             \/ Signal(h) \/ Crash(h)
      PROVE  PlayoutInv'
  <2>1. CASE Acquire(h)
    BY <2>1, AcquireInv
  <2>2. CASE CreateSession(h)
    BY <2>2, CreateInv
  <2>3. CASE ~Acquire(h) /\ ~CreateSession(h)
    BY <1>1, <1>3, <2>3, SupervisorQuiet, SupervisorCloses, SettledInv
  <2> QED BY <2>1, <2>2, <2>3
<1>4. ASSUME NEW h \in Holder, NEW t \in tasks[h], TaskStep(h, t)
      PROVE  PlayoutInv'
  <2>1. CASE ActivateSession(h, t)
    BY <2>1, ActivateInv
  <2>2. CASE ~ActivateSession(h, t)
    BY <1>1, <1>4, <2>2, TaskQuiet, TaskCloses, SettledInv
  <2> QED BY <2>1, <2>2
<1>5. CASE LeaseLapses \/ RemoveSession
  <2>1. Closes /\ RowsTyped /\ UNCHANGED <<runtime, tasks>>
    BY <1>1, <1>5, LapseCloses
  <2>2. Quiet
    BY <1>1, <2>1 DEF Quiet, PlayoutTypeOK, Fences
  <2> QED BY <2>1, <2>2, SettledInv
<1> QED BY <1>2, <1>3, <1>4, <1>5 DEF PlayoutNext, allVars

(***************************************************************************)
(* The programming of the station.                                         *)
(***************************************************************************)

\* The invariants of RadioProgramming, which the feeders write into.
Programming == IInv /\ Materialization /\ CalendarCoherent

\* A feeder delivers weeks of a release that was published.
FeedersKnown ==
  \A h \in Holder : \A t \in tasks[h] :
    t.fed \in 0 .. Len(clocks) /\ (t.read # None => t.fed # 0)

LEMMA ProgrammingStepKeeps ==
  ASSUME Programming, [ProgrammingStep]_vars
  PROVE  Programming'
<1>1. TypeOK' /\ JobsKnown'
  BY TypeStep DEF Programming, IInv
<1>2. ScriptServed' /\ StaticServed'
  BY ScriptServedStep, StaticServedStep DEF Programming
<1>3. Materialization' /\ CalendarCoherent'
  BY MaterializationStep, CoherenceStep DEF Programming, IInv
<1> QED BY <1>1, <1>2, <1>3 DEF Programming, IInv

\* Only feeders write, and they deliver weeks of one release.
LEMMA PlayoutFrame ==
  ASSUME NEW h \in Holder,
         \/ SupervisorStep(h) \/ TaskEnds(h) \/ SourceChanged(h) \/ FeedingFails(h)
         \/ Signal(h) \/ Crash(h) \/ LeaseLapses \/ RemoveSession
  PROVE  UNCHANGED vars
BY DEF SupervisorStep, TaskEnds, SourceChanged, FeedingFails, Signal, Crash, LeaseLapses,
       RemoveSession, Acquire, Abort, CreateSession, CreateSessionRefused,
       AcknowledgeFails, FailSession, FeedingAborted, RetireSession, ReleaseLease,
       MarkOffline, RetryDue, Exit

LEMMA TaskFrame ==
  ASSUME NEW h \in Holder, NEW t \in tasks[h], TaskStep(h, t), ~FeederDelivers(h, t)
  PROVE  UNCHANGED vars
BY DEF TaskStep, Acknowledge, FeederReads, UpdatePlayoutState, ActivateSession

LEMMA FeederClocks ==
  ASSUME TypeOK, PlayoutTypeOK, FeedersKnown, NEW h \in Holder, NEW t \in tasks[h],
         FeederDelivers(h, t)
  PROVE  /\ ClocksKept /\ Len(clocks') = Len(clocks)
         /\ UNCHANGED <<week, station, active, calendars, job, maintained, failures>>
<1>1. PICK done \in 0 .. EnsureWeeks :
        Deliver(t.fed, IF t.read.static THEN Weeks(t.read.since, done) ELSE {})
  BY DEF FeederDelivers
<1>2. clocks \in Seq(Clock) /\ t \in Task /\ t.read # None
      /\ UNCHANGED <<week, station, active, calendars, job, maintained, failures>>
  BY TaskTyped DEF FeederDelivers, TypeOK
<1>3. t.fed \in 1 .. Len(clocks)
  <2>1. t.fed \in 0 .. Len(clocks) /\ t.fed # 0
    BY <1>2 DEF FeedersKnown
  <2> QED BY <1>2, <2>1, LenProperties
<1>4. t.read.static \in BOOLEAN /\ t.read.since \in Int /\ done \in Nat
  BY <1>2, ConstantsAssumption DEF Task, Read
<1> DEFINE weeks == IF t.read.static THEN Weeks(t.read.since, done) ELSE {}
<1>5. weeks \in SUBSET Int
  BY <1>4, LoopWeeks
<1>6. Deliver(t.fed, weeks)
  BY <1>1
<1> HIDE DEF weeks
<1>7. /\ clocks' \in Seq(Clock) /\ Len(clocks') = Len(clocks)
      /\ clocks'[t.fed] = clocks[t.fed] \cup weeks
      /\ \A k \in 1 .. Len(clocks) : k # t.fed => clocks'[k] = clocks[k]
  BY <1>2, <1>3, <1>5, <1>6, DeliverType
<1>8. \A k \in 1 .. Len(clocks) : clocks[k] \subseteq clocks'[k]
  BY <1>7
<1>9. Len(clocks) \in Nat
  BY <1>2, LenProperties
<1> QED BY <1>2, <1>7, <1>8, <1>9 DEF ClocksKept

\* Whatever it read, and wherever it stops, a feeder only adds to what is delivered.
LEMMA FeederKeeps ==
  ASSUME Programming, PlayoutTypeOK, FeedersKnown, NEW h \in Holder, NEW t \in tasks[h],
         FeederDelivers(h, t)
  PROVE  Programming'
<1>1. TypeOK /\ JobsKnown /\ ScriptServed /\ StaticServed
      /\ Materialization /\ CalendarCoherent
  BY DEF Programming, IInv
<1>2. /\ ClocksKept /\ Len(clocks') = Len(clocks)
      /\ UNCHANGED <<week, station, active, calendars, job, maintained, failures>>
  BY <1>1, FeederClocks
<1>3. TypeOK' /\ JobsKnown'
  BY <1>1, <1>2 DEF TypeOK, JobsKnown, ClocksKept
<1>4. ScriptServed'
  <2>1. job["script"] # None =>
          clocks[job["script"].clock] \subseteq clocks'[job["script"].clock]
    BY <1>1, <1>2 DEF JobsKnown, ClocksKept
  <2> QED BY <1>1, <1>2, <2>1 DEF ScriptServed
<1>5. StaticServed'
  <2>1. station.clock # 0 => clocks[station.clock] \subseteq clocks'[station.clock]
    <3>1. station.clock # 0 => station.clock \in 1 .. Len(clocks)
      <4>1. clocks \in Seq(Clock) /\ station.clock \in 0 .. Len(clocks)
        BY <1>1 DEF TypeOK
      <4> QED BY <4>1, LenProperties
    <3> QED BY <1>2, <3>1 DEF ClocksKept
  <2>2. Maintaining' => Maintaining
    BY <1>2 DEF Maintaining
  <2> QED BY <1>1, <1>2, <2>1, <2>2 DEF StaticServed
<1>6. Materialization' /\ CalendarCoherent'
  BY <1>1, <1>2 DEF Materialization, CalendarCoherent, OnCalendar
<1> QED BY <1>3, <1>4, <1>5, <1>6 DEF Programming, IInv

LEMMA ProgrammingNext ==
  ASSUME Programming, PlayoutTypeOK, FeedersKnown, [PlayoutNext]_allVars
  PROVE  Programming'
<1>1. CASE ProgrammingStep
  BY <1>1, ProgrammingStepKeeps
<1>2. ASSUME UNCHANGED vars
      PROVE  Programming'
  BY <1>2, ProgrammingStepKeeps
<1>3. ASSUME NEW h \in Holder,
             \/ SupervisorStep(h) \/ TaskEnds(h) \/ SourceChanged(h) \/ FeedingFails(h)
             \/ Signal(h) \/ Crash(h)
      PROVE  Programming'
  BY <1>2, <1>3, PlayoutFrame
<1>4. ASSUME NEW h \in Holder, NEW t \in tasks[h], TaskStep(h, t)
      PROVE  Programming'
  <2>1. CASE FeederDelivers(h, t)
    BY <2>1, FeederKeeps
  <2>2. CASE ~FeederDelivers(h, t)
    BY <1>2, <1>4, <2>2, TaskFrame
  <2> QED BY <2>1, <2>2
<1>5. CASE LeaseLapses \/ RemoveSession
  BY <1>2, <1>5 DEF LeaseLapses, RemoveSession
<1>6. CASE UNCHANGED allVars
  BY <1>2, <1>6 DEF allVars
<1> QED BY <1>1, <1>3, <1>4, <1>5, <1>6 DEF PlayoutNext

\* Releases are never taken back, and what is acknowledged is the station's.
LEMMA ReleasesKept ==
  ASSUME Programming, PlayoutTypeOK, FeedersKnown, [PlayoutNext]_allVars
  PROVE  Len(clocks) \in Nat /\ Len(clocks') \in Nat /\ Len(clocks) <= Len(clocks')
<1>0. TypeOK /\ JobsKnown /\ clocks \in Seq(Clock) /\ TypeOK' /\ clocks' \in Seq(Clock)
  BY ProgrammingNext DEF Programming, IInv, TypeOK
<1>1. Len(clocks) \in Nat /\ Len(clocks') \in Nat
  BY <1>0, LenProperties
<1>2. CASE ProgrammingStep
  BY <1>0, <1>1, <1>2, ClocksOnlyGrow DEF ClocksKept
<1>3. CASE \E h \in Holder : \E t \in tasks[h] : FeederDelivers(h, t)
  BY <1>0, <1>1, <1>3, FeederClocks
<1>4. CASE UNCHANGED vars
  BY <1>1, <1>4 DEF vars
<1>5. \/ ProgrammingStep \/ UNCHANGED vars
      \/ \E h \in Holder : \E t \in tasks[h] : FeederDelivers(h, t)
  <2>1. ASSUME NEW h \in Holder, NEW t \in tasks[h], TaskStep(h, t), ~FeederDelivers(h, t)
        PROVE  UNCHANGED vars
    BY <2>1, TaskFrame
  <2>2. ASSUME NEW h \in Holder,
               \/ SupervisorStep(h) \/ TaskEnds(h) \/ SourceChanged(h)
               \/ FeedingFails(h) \/ Signal(h) \/ Crash(h)
        PROVE  UNCHANGED vars
    BY <2>2, PlayoutFrame
  <2>3. LeaseLapses \/ RemoveSession => UNCHANGED vars
    BY DEF LeaseLapses, RemoveSession
  <2> QED BY <2>1, <2>2, <2>3 DEF PlayoutNext, allVars
<1> QED BY <1>2, <1>3, <1>4, <1>5

LEMMA ContinuedTasks ==
  ASSUME PlayoutTypeOK, NEW h \in Holder, NEW t \in tasks[h], NEW u \in Task,
         Continue(h, t, u)
  PROVE  \A g \in Holder : \A x \in tasks'[g] : x \in tasks[g] \/ (g = h /\ x = u)
<1>1. tasks \in [Holder -> SUBSET Task]
  BY DEF PlayoutTypeOK
<1> QED BY <1>1 DEF Continue

LEMMA FeedersNext ==
  ASSUME Programming, PlayoutTypeOK, FeedersKnown, [PlayoutNext]_allVars
  PROVE  FeedersKnown'
<1>1. /\ Len(clocks) \in Nat /\ Len(clocks') \in Nat /\ Len(clocks) <= Len(clocks')
      /\ TypeOK /\ station.clock \in 0 .. Len(clocks)
      /\ tasks \in [Holder -> SUBSET Task]
  BY ReleasesKept DEF Programming, IInv, TypeOK, PlayoutTypeOK
<1>2. ASSUME NEW x, x.fed \in 0 .. Len(clocks)
      PROVE  x.fed \in 0 .. Len(clocks')
  BY <1>1, <1>2
<1>3. ASSUME \A g \in Holder : tasks'[g] \subseteq tasks[g]
      PROVE  FeedersKnown'
  BY <1>2, <1>3 DEF FeedersKnown
<1>4. ASSUME NEW h \in Holder, NEW t \in tasks[h], NEW u \in Task, Continue(h, t, u),
             u.fed \in 0 .. Len(clocks), u.read # None => u.fed # 0
      PROVE  FeedersKnown'
  <2>1. \A g \in Holder : \A x \in tasks'[g] : x \in tasks[g] \/ (g = h /\ x = u)
    BY <1>4, ContinuedTasks
  <2> QED BY <1>2, <1>4, <2>1 DEF FeedersKnown
<1>5. ASSUME NEW h \in Holder, NEW t \in tasks[h], TaskStep(h, t)
      PROVE  FeedersKnown'
  <2>0. t \in Task /\ t.fed \in 0 .. Len(clocks)
    BY TaskTyped DEF FeedersKnown
  <2>1. CASE Acknowledge(h, t)
    <3> DEFINE u == [t EXCEPT !.fed = station.clock]
    <3>1. u \in Task /\ u.fed = station.clock /\ u.read = t.read
      BY <1>1, <2>0, ReleasedTyped, FedTyped
    <3>2. Continue(h, t, u) /\ t.read = None
      BY <2>1 DEF Acknowledge
    <3> HIDE DEF u
    <3> QED BY <1>1, <1>4, <3>1, <3>2
  <2>2. CASE FeederReads(h, t)
    <3> DEFINE read == [static |-> station.static, since |-> week]
               u == [t EXCEPT !.read = read]
    <3>1. read \in Read \cup {None}
      BY <1>1 DEF TypeOK, Station, Read
    <3>2. u \in Task /\ u.fed = t.fed
      BY <2>0, <3>1, ReadsTyped
    <3>3. Continue(h, t, u) /\ t.fed # 0
      BY <2>2 DEF FeederReads
    <3> HIDE DEF u, read
    <3> QED BY <1>4, <2>0, <3>2, <3>3
  <2>3. CASE FeederDelivers(h, t)
    <3> DEFINE u == [t EXCEPT !.read = None]
    <3>1. u \in Task /\ u.fed = t.fed /\ u.read = None
      BY <2>0, ReadsTyped
    <3>2. Continue(h, t, u)
      BY <2>3 DEF FeederDelivers
    <3> HIDE DEF u
    <3> QED BY <1>4, <2>0, <3>1, <3>2
  <2>4. CASE UpdatePlayoutState(h, t) \/ ActivateSession(h, t)
    BY <1>3, <2>4 DEF UpdatePlayoutState, ActivateSession
  <2> QED BY <1>5, <2>1, <2>2, <2>3, <2>4 DEF TaskStep
<1>6. ASSUME NEW h \in Holder, CreateSession(h)
      PROVE  FeedersKnown'
  <2>1. \A g \in Holder : \A x \in tasks'[g] :
          x \in tasks[g] \/ (x.fed = 0 /\ x.read = None)
    BY <1>6, CreateShape
  <2>2. 0 \in 0 .. Len(clocks')
    BY <1>1
  <2> QED BY <1>2, <2>1, <2>2 DEF FeedersKnown
<1>7. ASSUME NEW h \in Holder,
             \/ SupervisorStep(h) \/ TaskEnds(h) \/ SourceChanged(h) \/ FeedingFails(h)
             \/ Signal(h) \/ Crash(h),
             ~CreateSession(h)
      PROVE  FeedersKnown'
  <2>1. CASE TaskEnds(h) \/ Exit(h) \/ Crash(h)
    BY <1>1, <1>3, <2>1 DEF TaskEnds, Exit, Crash
  <2>2. CASE ~TaskEnds(h) /\ ~Exit(h) /\ ~Crash(h)
    <3>1. UNCHANGED tasks
      BY <1>7, <2>2 DEF SupervisorStep, SourceChanged, FeedingFails, Signal, Acquire, Abort,
         CreateSessionRefused, AcknowledgeFails, FailSession, FeedingAborted,
         RetireSession, ReleaseLease, MarkOffline, RetryDue
    <3> QED BY <1>3, <3>1
  <2> QED BY <2>1, <2>2
<1>8. CASE LeaseLapses \/ RemoveSession
  BY <1>3, <1>8 DEF LeaseLapses, RemoveSession
<1>9. CASE UNCHANGED playout
  BY <1>3, <1>9 DEF playout
<1> QED BY <1>5, <1>6, <1>7, <1>8, <1>9 DEF PlayoutNext, allVars

LEMMA PlayoutInvariant ==
  PlayoutSpec => [](Programming /\ FeedersKnown /\ PlayoutInv)
<1>1. Init /\ PlayoutInit => Programming /\ FeedersKnown /\ PlayoutInv
  <2> SUFFICES ASSUME Init, PlayoutInit PROVE Programming /\ FeedersKnown /\ PlayoutInv
    OBVIOUS
  <2>1. PlayoutInv
    BY InitPlayoutInv
  <2>2. FeedersKnown
    BY DEF PlayoutInit, FeedersKnown
  <2>3. ScriptServed /\ StaticServed
    <3>1. job["script"] = None /\ station.static = FALSE
      BY DEF Init
    <3> QED BY <3>1 DEF ScriptServed, StaticServed
  <2>4. Materialization
    BY MaterializationInit
  <2>5. CalendarCoherent
    BY DEF Init, CalendarCoherent, OnCalendar
  <2> QED BY <2>1, <2>2, <2>3, <2>4, <2>5, TypeInit DEF Programming, IInv
<1>2. /\ Programming /\ FeedersKnown /\ PlayoutInv /\ [PlayoutNext]_allVars
      => Programming' /\ FeedersKnown' /\ PlayoutInv'
  BY ProgrammingNext, FeedersNext, StepPlayoutInv DEF PlayoutInv, Programming, IInv
<1> QED BY <1>1, <1>2, PTL DEF PlayoutSpec

\* The feeders write into the timeline of the station they play, some of them after
\* their run has ended and with a mode read before it changed.  What is proved of
\* the programming alone holds of the two together: static delivery, the
\* occurrences of the releases and the agreement of the profiles.
THEOREM ProgrammingKept ==
  PlayoutSpec => [](TypeOK /\ StaticOnAir /\ Covered /\ CalendarCoherent)
<1>1. Programming => TypeOK /\ StaticOnAir /\ Covered /\ CalendarCoherent
  BY DEF Programming, IInv, StaticServed, StaticOnAir, Materialization, Covered
<1> QED BY <1>1, PlayoutInvariant, PTL

\* However often the lease lapses under a supervisor that is alive, whatever an
\* ended run leaves behind, and whatever the bounds, a fence has one owner ...
THEOREM OneOwnerAlways == PlayoutSpec => []OneOwnerPerFence
<1>1. PlayoutInv => OneOwnerPerFence
  BY DEF PlayoutInv
<1> QED BY <1>1, PlayoutInvariant, PTL

\* ... an open session is of the owner that the state row names, even one that a
\* late upload opened again ...
THEOREM OpenOfOwnerAlways == PlayoutSpec => []OpenOfOwner
<1>1. PlayoutInv => OpenOfOwner
  BY DEF PlayoutInv
<1> QED BY <1>1, PlayoutInvariant, PTL

LEMMA EarlierRunTouchesNothing ==
  ASSUME PlayoutInv, NEW h \in Holder, SupervisorStep(h),
         runtime[h].fence \in 1 .. state.fence - 1
  PROVE  /\ state' = state
         /\ \A s \in DOMAIN sessions :
              Open(s) => s \in DOMAIN sessions' /\ sessions'[s] = sessions[s]
<1>1. PlayoutTypeOK /\ Fenced /\ OpenOfOwner
  BY DEF PlayoutInv
<1>2. ~Valid(h) /\ state.fence # runtime[h].fence
  BY <1>1 DEF PlayoutTypeOK, StateRow, Fenced, Valid, Holds
<1>3. ~CreateSession(h)
  BY <1>2 DEF CreateSession
<1>4. CASE FailSession(h) \/ RetireSession(h)
  <2>1. PICK from \in SUBSET SessionStatus, to \in {"RETIRED", "FAILED"},
             status \in {"OFFLINE", "FAILED"} : CloseSession(h, from, to, status)
    BY <1>4 DEF FailSession, RetireSession, SessionStatus
  <2>2. UNCHANGED lease
    BY <1>4 DEF FailSession, RetireSession
  <2>3. \A s \in DOMAIN sessions : Open(s) => sessions[s].fence # runtime[h].fence
    BY <1>1, <1>2 DEF OpenOfOwner
  <2> QED BY <1>1, <1>2, <2>1, <2>2, <2>3, ClosedSession
<1>5. CASE MarkOffline(h)
  BY <1>2, <1>5 DEF MarkOffline
<1>6. CASE ~(FailSession(h) \/ RetireSession(h) \/ MarkOffline(h))
  <2>1. UNCHANGED <<state, sessions>>
    BY <1>3, <1>6 DEF SupervisorStep, Acquire, Abort, CreateSessionRefused,
       AcknowledgeFails, FeedingAborted, ReleaseLease, RetryDue, Exit
  <2> QED BY <2>1
<1> QED BY <1>4, <1>5, <1>6

LEMMA EarlierTaskTouchesNothing ==
  ASSUME PlayoutInv, NEW h \in Holder, NEW t \in tasks[h], TaskStep(h, t),
         t.fence < state.fence
  PROVE  UNCHANGED <<state, sessions>>
<1>1. /\ t.fence \in Nat /\ state.fence \in Nat /\ lease.fence \in Nat
      /\ state.fence <= lease.fence
  BY TaskTyped DEF PlayoutInv, PlayoutTypeOK, StateRow, Fenced, Task
<1>2. ~Holds(h, t.fence)
  BY <1>1 DEF Holds
<1> QED BY <1>2 DEF TaskStep, Acknowledge, Acknowledges, FeederReads, FeederDelivers,
                    UpdatePlayoutState, ActivateSession

\* ... and an earlier owner, whatever it still has to do, disturbs neither.
THEOREM SuccessorNeverDisturbed == PlayoutSpec => SuccessorUndisturbed
<1> DEFINE Undisturbed ==
      \A h \in Holder :
        \/ SupervisorStep(h) /\ runtime[h].fence \in 1 .. state.fence - 1
        \/ \E t \in tasks[h] : TaskStep(h, t) /\ t.fence < state.fence
        =>
          /\ state' = state
          /\ \A s \in DOMAIN sessions :
               Open(s) => s \in DOMAIN sessions' /\ sessions'[s] = sessions[s]
<1>1. PlayoutInv => Undisturbed
  <2> SUFFICES ASSUME PlayoutInv, NEW h \in Holder,
                      \/ SupervisorStep(h) /\ runtime[h].fence \in 1 .. state.fence - 1
                      \/ \E t \in tasks[h] : TaskStep(h, t) /\ t.fence < state.fence
               PROVE  /\ state' = state
                      /\ \A s \in DOMAIN sessions :
                           Open(s) => s \in DOMAIN sessions' /\ sessions'[s] = sessions[s]
    OBVIOUS
  <2>1. CASE SupervisorStep(h) /\ runtime[h].fence \in 1 .. state.fence - 1
    BY <2>1, EarlierRunTouchesNothing
  <2>2. CASE \E t \in tasks[h] : TaskStep(h, t) /\ t.fence < state.fence
    BY <2>2, EarlierTaskTouchesNothing
  <2> QED BY <2>1, <2>2
<1>2. PlayoutSpec => [][Undisturbed]_allVars
  BY <1>1, PlayoutInvariant, PTL
<1> QED BY <1>2 DEF SuccessorUndisturbed

(***************************************************************************)
(* What is wrong.                                                          *)
(***************************************************************************)

LEMMA StepNeverLive ==
  ASSUME PlayoutAssumption, TypeOK, FeedersKnown, PlayoutInv, NeverLive,
         [PlayoutNext]_allVars
  PROVE  NeverLive'
<1>1. PlayoutTypeOK /\ runtime \in [Holder -> Runtime]
      /\ tasks \in [Holder -> SUBSET Task]
  BY DEF PlayoutInv, PlayoutTypeOK
\* No task gets past its acknowledgement.
<1>2. ASSUME NEW h \in Holder, NEW t \in tasks[h]
      PROVE  ~TaskStep(h, t)
  <2>1. t.session \in SessionId /\ t.fed = 0 /\ state.session = None
    BY <1>1, TaskTyped DEF NeverLive, Task
  <2>2. t.read = None
    BY <2>1 DEF FeedersKnown
  <2> QED BY <2>1, <2>2 DEF PlayoutAssumption, TaskStep, Acknowledge, Acknowledges,
                 FeederReads, FeederDelivers, UpdatePlayoutState, ActivateSession
<1>3. ASSUME NEW h \in Holder,
             \/ SupervisorStep(h) \/ TaskEnds(h) \/ SourceChanged(h) \/ FeedingFails(h)
             \/ Signal(h) \/ Crash(h)
      PROVE  /\ state'.session = None
             /\ \A s \in DOMAIN sessions' : sessions'[s].status # "ACTIVE"
  <2>1. CASE CreateSession(h)
    BY <1>1, <2>1, CreateShape
  <2>2. CASE FailSession(h) \/ RetireSession(h)
    <3>1. PICK from \in SUBSET SessionStatus, to \in {"RETIRED", "FAILED"},
               status \in {"OFFLINE", "FAILED"} : CloseSession(h, from, to, status)
      BY <2>2 DEF FailSession, RetireSession, SessionStatus
    <3>2. UNCHANGED lease
      BY <2>2 DEF FailSession, RetireSession
    <3>3. /\ DOMAIN sessions' = DOMAIN sessions
          /\ \A s \in DOMAIN sessions :
               sessions'[s] = sessions[s] \/ sessions'[s].status = to
          /\ state'.session \in {state.session, None}
      BY <1>1, <3>1, <3>2, ClosedSession
    <3> QED BY <3>3 DEF NeverLive
  <2>3. CASE MarkOffline(h)
    <3>1. UNCHANGED sessions /\ state'.session \in {state.session, None}
      BY <1>1, <2>3 DEF MarkOffline, PlayoutTypeOK, StateRow
    <3> QED BY <3>1 DEF NeverLive
  <2>4. CASE ~CreateSession(h) /\ ~FailSession(h) /\ ~RetireSession(h) /\ ~MarkOffline(h)
    <3>1. UNCHANGED <<state, sessions>>
      BY <1>3, <2>4 DEF SupervisorStep, Acquire, Abort, CreateSessionRefused,
         AcknowledgeFails, TaskEnds, SourceChanged, FeedingFails, FeedingAborted,
         ReleaseLease, RetryDue, Signal, Exit, Crash
    <3> QED BY <3>1 DEF NeverLive
  <2> QED BY <2>1, <2>2, <2>3, <2>4
<1>4. ASSUME NEW h \in Holder, NEW g \in Holder,
             \/ SupervisorStep(h) \/ TaskEnds(h) \/ SourceChanged(h) \/ FeedingFails(h)
             \/ Signal(h) \/ Crash(h)
      PROVE  runtime'[g].phase # "feeding"
  <2>0. runtime[g].phase # "feeding" /\ runtime[h].phase # "feeding"
        /\ runtime[h] \in Runtime
    BY <1>1 DEF NeverLive
  <2>1. CASE Acquire(h)
    <3> DEFINE r(f) == [Idle EXCEPT !.phase = "starting", !.fence = f,
                                    !.clock = station.clock, !.calendar = OnCalendar]
    <3>1. PICK f : runtime' = [runtime EXCEPT ![h] = r(f)]
      BY <2>1 DEF Acquire
    <3>2. r(f).phase = "starting"
      BY DEF Idle
    <3> HIDE DEF r
    <3> QED BY <1>1, <2>0, <3>1, <3>2
  <2>2. CASE CreateSession(h)
    BY <1>1, <2>0, <2>2, CreateShape
  <2>3. CASE ReleaseLease(h) \/ MarkOffline(h)
    <3>1. \A phase \in Phases : Ended(h, phase).phase = phase
      BY <1>1, EndedTyped
    <3>2. "idle" \in Phases /\ "backoff" \in Phases
      BY DEF Phases
    <3>3. \/ runtime' = [runtime EXCEPT ![h] = [@ EXCEPT !.phase = "offline"]]
          \/ runtime' = [runtime EXCEPT ![h] = Ended(h, "idle")]
          \/ runtime' = [runtime EXCEPT ![h] = Ended(h, "backoff")]
      BY <2>3 DEF ReleaseLease, MarkOffline
    <3> QED BY <1>1, <2>0, <3>1, <3>2, <3>3 DEF Runtime
  <2>4. CASE Exit(h) \/ Crash(h)
    <3>1. [Idle EXCEPT !.phase = "gone"].phase = "gone"
      BY DEF Idle
    <3>2. runtime' = [runtime EXCEPT ![h] = [Idle EXCEPT !.phase = "gone"]]
      BY <2>4 DEF Exit, Crash
    <3> QED BY <1>1, <2>0, <3>1, <3>2
  <2>5. CASE \/ Abort(h) \/ CreateSessionRefused(h) \/ AcknowledgeFails(h) \/ SourceChanged(h)
             \/ FeedingFails(h) \/ FeedingAborted(h) \/ RetryDue(h) \/ Signal(h)
             \/ FailSession(h) \/ RetireSession(h)
    <3>1. ASSUME NEW phase \in Phases \ {"feeding"}, Goto(h, phase)
          PROVE  runtime'[g].phase # "feeding"
      BY <1>1, <2>0, <3>1 DEF Goto, Runtime
    <3>2. {"failing", "deciding", "retiring", "idle", "releasing"} \subseteq Phases \ {"feeding"}
      BY DEF Phases
    <3>3. CASE AcknowledgeFails(h) \/ SourceChanged(h) \/ FeedingFails(h)
      BY <3>1, <3>2, <3>3 DEF AcknowledgeFails, SourceChanged, FeedingFails
    <3>4. CASE FeedingAborted(h) \/ RetryDue(h) \/ RetireSession(h)
      BY <3>1, <3>2, <3>4 DEF FeedingAborted, RetryDue, RetireSession
    <3>5. CASE Abort(h)
      BY <1>1, <2>0, <3>5 DEF Abort, Runtime
    <3>6. CASE CreateSessionRefused(h)
      BY <1>1, <2>0, <3>6 DEF CreateSessionRefused, Runtime
    <3>7. CASE Signal(h)
      BY <1>1, <2>0, <3>7 DEF Signal, Runtime
    <3>8. CASE FailSession(h)
      BY <1>1, <2>0, <3>8 DEF FailSession, Runtime
    <3> QED BY <2>5, <3>3, <3>4, <3>5, <3>6, <3>7, <3>8
  <2>6. CASE TaskEnds(h)
    BY <2>0, <2>6 DEF TaskEnds
  <2> QED BY <1>4, <2>1, <2>2, <2>3, <2>4, <2>5, <2>6 DEF SupervisorStep
<1>5. ASSUME NEW h \in Holder, NEW g \in Holder, NEW x \in tasks'[g],
             \/ SupervisorStep(h) \/ TaskEnds(h) \/ SourceChanged(h) \/ FeedingFails(h)
             \/ Signal(h) \/ Crash(h)
      PROVE  x.fed = 0
  <2>1. CASE CreateSession(h)
    <3>1. x \in tasks[g] \/ x.fed = 0
      BY <1>1, <1>5, <2>1, CreateShape
    <3> QED BY <3>1 DEF NeverLive
  <2>2. CASE TaskEnds(h) \/ Exit(h) \/ Crash(h)
    BY <1>1, <1>5, <2>2 DEF TaskEnds, Exit, Crash, NeverLive
  <2>3. CASE ~CreateSession(h) /\ ~TaskEnds(h) /\ ~Exit(h) /\ ~Crash(h)
    <3>1. UNCHANGED tasks
      BY <1>5, <2>3 DEF SupervisorStep, SourceChanged, FeedingFails, Signal, Acquire, Abort,
         CreateSessionRefused, AcknowledgeFails, FailSession, FeedingAborted,
         RetireSession, ReleaseLease, MarkOffline, RetryDue
    <3> QED BY <1>5, <3>1 DEF NeverLive
  <2> QED BY <2>1, <2>2, <2>3
<1>6. CASE LeaseLapses \/ RemoveSession
  BY <1>6 DEF LeaseLapses, RemoveSession, NeverLive
<1>7. CASE UNCHANGED playout
  BY <1>7 DEF playout, NeverLive
<1>8. ASSUME NEW h \in Holder,
             \/ SupervisorStep(h) \/ TaskEnds(h) \/ SourceChanged(h) \/ FeedingFails(h)
             \/ Signal(h) \/ Crash(h)
      PROVE  NeverLive'
  BY <1>3, <1>4, <1>5, <1>8 DEF NeverLive
<1> QED BY <1>2, <1>6, <1>7, <1>8 DEF PlayoutNext, allVars

\* No supervisor feeds a session and none goes live, with however many processes,
\* sessions, releases and retries: the run shows it for two processes.
THEOREM NeverLiveAlways ==
  ASSUME PlayoutAssumption
  PROVE  PlayoutSpec => []NeverLive
<1>1. PlayoutInit => NeverLive
  <2>1. Idle.phase = "idle"
    BY DEF Idle
  <2> QED BY <2>1 DEF PlayoutInit, NeverLive
<1>2. /\ Programming /\ FeedersKnown /\ PlayoutInv /\ NeverLive /\ [PlayoutNext]_allVars
      => NeverLive'
  BY StepNeverLive DEF Programming, IInv
<1> QED BY <1>1, <1>2, PlayoutInvariant, PTL DEF PlayoutSpec
=============================================================================
