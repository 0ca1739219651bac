--------------------------- MODULE MediaJobsProofs ---------------------------
(* What holds of MediaJobs for any uploads, clips, parts, contents, quota,  *)
(* numbers of attempts and bounds.                                          *)
EXTENDS MediaJobs, TLAPS

(***************************************************************************)
(* Claims.                                                                 *)
(***************************************************************************)

\* A worker goes on: of its claim only where it is changes, of others nothing.
WentOn(a, n, at) ==
  /\ run' \in [Asset -> [Claim -> Run]]
  /\ run'[a][n].at = at /\ run'[a][n].bytes = run[a][n].bytes
  /\ \A b \in Asset, m \in Claim : <<b, m>> # <<a, n>> => run'[b][m] = run[b][m]

Places == {"none", "claimed", "assembled", "produced", "won", "collected", "lost",
           "failing", "cleaned", "finished", "over", "failed", "dead"}

LEMMA GoProperty ==
  ASSUME run \in [Asset -> [Claim -> Run]], NEW a \in Asset, NEW n \in Claim,
         NEW at \in Places, Go(a, n, at)
  PROVE  WentOn(a, n, at)
<1> DEFINE new == [run[a][n] EXCEPT !.at = at]
<1>1. run[a][n] \in Run
  OBVIOUS
<1>2. new \in Run /\ new.at = at /\ new.bytes = run[a][n].bytes
  BY <1>1 DEF Run, Places
<1>3. run' = [run EXCEPT ![a] = [run[a] EXCEPT ![n] = new]]
  BY DEF Go
<1> HIDE DEF new
<1>4. run'[a] = [run[a] EXCEPT ![n] = new]
  BY <1>3
<1>5. \A b \in Asset : b # a => run'[b] = run[b]
  BY <1>3
<1>6. run'[a][n] = new /\ \A m \in Claim : m # n => run'[a][m] = run[a][m]
  BY <1>4
<1>7. run' \in [Asset -> [Claim -> Run]]
  BY <1>2, <1>3
<1> QED BY <1>2, <1>5, <1>6, <1>7 DEF WentOn

\* Assembling an upload, every part of which is what its receipt records.
LEMMA AssembledProperty ==
  ASSUME run \in [Asset -> [Claim -> Run]], NEW u \in Upload, NEW n \in Claim,
         parts \in [Upload -> [Part -> Content \cup {None}]],
         receipts \in [Upload -> [Part -> Content \cup {None}]], Assembled(u),
         run' = [run EXCEPT ![u][n] = [at |-> "assembled", bytes |-> parts[u]]]
  PROVE  /\ run' \in [Asset -> [Claim -> Run]]
         /\ run'[u][n].at = "assembled" /\ run'[u][n].bytes = receipts[u]
         /\ \A b \in Asset, m \in Claim : <<b, m>> # <<u, n>> => run'[b][m] = run[b][m]
<1> DEFINE new == [at |-> "assembled", bytes |-> parts[u]]
<1>1. parts[u] = receipts[u] /\ parts[u] \in [Part -> Content]
  BY DEF Assembled
<1>2. new \in Run /\ new.at = "assembled" /\ new.bytes = receipts[u]
  BY <1>1 DEF Run
<1>3. run' = [run EXCEPT ![u] = [run[u] EXCEPT ![n] = new]] /\ u \in Asset
  BY DEF Asset
<1> HIDE DEF new
<1>4. run'[u] = [run[u] EXCEPT ![n] = new]
  BY <1>3
<1>5. \A b \in Asset : b # u => run'[b] = run[b]
  BY <1>3
<1>6. run'[u][n] = new /\ \A m \in Claim : m # n => run'[u][m] = run[u][m]
  BY <1>3, <1>4
<1>7. run' \in [Asset -> [Claim -> Run]]
  BY <1>2, <1>3
<1> QED BY <1>2, <1>3, <1>5, <1>6, <1>7

(***************************************************************************)
(* Prefixes and tasks.                                                     *)
(***************************************************************************)

LEMMA ClaimIsNotZero == \A n \in Claim : n \in Nat /\ n # 0
BY MediaAssumption DEF Claim

LEMMA PrefixProperty ==
  ASSUME NEW x \in Prefix
  PROVE  \/ \E u \in Upload : x = PartsOf(u) /\ x[1] = u /\ x[2] = 0
         \/ \E a \in Asset, n \in Claim : x = OutputOf(a, n) /\ x[1] = a /\ x[2] = n /\ n # 0
BY ClaimIsNotZero DEF Prefix, PartsOf, OutputOf

LEMMA PrefixesDiffer ==
  /\ \A u \in Upload : PartsOf(u) \in Prefix
  /\ \A a \in Asset, n \in Claim : OutputOf(a, n) \in Prefix
  /\ \A u, v \in Upload : PartsOf(u) = PartsOf(v) => u = v
  /\ \A a, b \in Asset, n, m \in Claim : OutputOf(a, n) = OutputOf(b, m) => a = b /\ n = m
  /\ \A u \in Upload, a \in Asset, n \in Claim : PartsOf(u) # OutputOf(a, n)
BY ClaimIsNotZero DEF Prefix, PartsOf, OutputOf

\* A task is scheduled for a prefix that has none, and stays otherwise.
LEMMA ScheduledProperty ==
  ASSUME gc \in [Prefix -> Task \cup {None}], NEW x \in Prefix,
         NEW reason \in {"aborted", "expired", "processed", "failed"}
  PROVE  /\ Scheduled(gc, x, reason) \in [Prefix -> Task \cup {None}]
         /\ Scheduled(gc, x, reason)[x] \in Task
         /\ \A y \in Prefix : y # x => Scheduled(gc, x, reason)[y] = gc[y]
<1> DEFINE new == [status |-> "PENDING", attempts |-> 0, reason |-> reason]
<1>1. 0 \in 0 .. GcAttempts
  BY MediaAssumption
<1>2. new \in Task
  BY <1>1 DEF Task
<1>3. Scheduled(gc, x, reason) = IF gc[x] # None THEN gc ELSE [gc EXCEPT ![x] = new]
  BY DEF Scheduled
<1> HIDE DEF new
<1> QED BY <1>2, <1>3

(***************************************************************************)
(* Who writes what.                                                        *)
(***************************************************************************)

\* What each step leaves alone.
LEMMA Frames ==
  /\ \A u \in Upload : Initiate(u) =>
       UNCHANGED <<overdue, kept, receipts, parts, flying, output, gc, pass, outages,
                   crashes>>
  /\ \A u \in Upload : Abort(u) =>
       UNCHANGED <<overdue, kept, receipts, parts, flying, output, pass, outages, crashes>>
  /\ \A u \in Upload : LandPut(u) =>
       UNCHANGED <<session, overdue, asset, kept, receipts, output, gc, pass, outages,
                   crashes>>
  /\ \A u \in Upload : Overdue(u) =>
       UNCHANGED <<session, asset, kept, receipts, parts, flying, output, gc, pass,
                   outages, crashes>>
  /\ \A u \in Upload, p \in Part, content \in Content : WritePart(u, p, content) =>
       UNCHANGED <<overdue, asset, kept, output, gc, pass, outages>>
  /\ \A a \in Asset : Archive(a) =>
       UNCHANGED <<session, overdue, receipts, parts, flying, output, gc, pass, outages,
                   crashes>>
  /\ \A a \in Asset : Restore(a) =>
       UNCHANGED <<session, overdue, receipts, parts, flying, output, gc, pass, outages,
                   crashes>>
  /\ BeginPass =>
       UNCHANGED <<overdue, asset, kept, receipts, parts, flying, output, gc, outages,
                   crashes>>
  /\ ScheduleExpired =>
       UNCHANGED <<session, overdue, asset, kept, receipts, parts, flying, output,
                   outages, crashes>>
  /\ SelectTasks =>
       UNCHANGED <<session, overdue, asset, kept, receipts, parts, flying, output, gc,
                   outages, crashes>>
  /\ Settle =>
       UNCHANGED <<session, overdue, asset, kept, receipts, parts, flying, output,
                   outages, crashes>>
  /\ Release =>
       UNCHANGED <<session, overdue, kept, receipts, parts, flying, output, gc, outages,
                   crashes>>
  /\ EndPass =>
       UNCHANGED <<session, overdue, asset, kept, receipts, parts, flying, output, gc,
                   outages, crashes>>
  /\ \A u \in Upload : ArchiveExpired(u) =>
       UNCHANGED <<session, overdue, kept, receipts, parts, flying, output, gc, outages,
                   crashes>>
  /\ \A x \in Prefix : Collect(x) =>
       UNCHANGED <<session, overdue, asset, kept, receipts, flying, crashes>>
  /\ PassDies =>
       UNCHANGED <<session, overdue, asset, kept, receipts, parts, flying, output, gc,
                   outages>>
  /\ \A u \in Upload : CompleteUpload(u) =>
       UNCHANGED <<overdue, kept, receipts, parts, flying, output, gc, pass, run,
                   published, outages, crashes>>
  /\ \A c \in Clip : RequestClip(c) =>
       UNCHANGED <<session, overdue, kept, receipts, parts, flying, output, gc, pass, run,
                   published, outages, crashes>>
  /\ \A a \in Asset : BecomesDue(a) =>
       UNCHANGED <<session, overdue, asset, kept, receipts, parts, flying, output, gc,
                   pass, run, published, outages, crashes>>
  /\ \A a \in Asset : ClaimJob(a) =>
       UNCHANGED <<session, overdue, asset, kept, receipts, parts, flying, output, gc,
                   pass, published, outages, crashes>>
  /\ \A a \in Asset, n \in Claim : Renew(a, n) =>
       UNCHANGED <<session, overdue, asset, kept, receipts, parts, flying, output, gc,
                   pass, run, published, outages, crashes>>
  /\ \A a \in Asset, n \in Claim : Assemble(a, n) =>
       UNCHANGED <<session, overdue, asset, kept, receipts, parts, flying, output, gc,
                   pass, job, published, outages, crashes>>
  /\ \A a \in Asset, n \in Claim : Produce(a, n) =>
       UNCHANGED <<session, overdue, asset, kept, receipts, parts, flying, gc, pass, job,
                   published, outages, crashes>>
  /\ \A a \in Asset, n \in Claim : Finalize(a, n) =>
       UNCHANGED <<session, overdue, kept, receipts, parts, flying, output, pass, outages,
                   crashes>>
  /\ \A a \in Asset, n \in Claim : CollectParts(a, n) =>
       UNCHANGED <<session, overdue, asset, kept, receipts, flying, output, pass, job,
                   published, crashes>>
  /\ \A a \in Asset, n \in Claim : Report(a, n) =>
       UNCHANGED <<session, overdue, asset, kept, receipts, parts, flying, output, gc,
                   pass, job, published, outages>>
  /\ \A a \in Asset, n \in Claim : DropLost(a, n) =>
       UNCHANGED <<session, overdue, asset, kept, receipts, parts, flying, pass, job,
                   published, crashes>>
  /\ \A a \in Asset, n \in Claim : FailUpload(a, n) =>
       UNCHANGED <<session, overdue, kept, receipts, parts, flying, pass, published,
                   crashes>>
  /\ \A a \in Asset, n \in Claim : FailClip(a, n) =>
       UNCHANGED <<session, overdue, kept, receipts, parts, flying, gc, pass, published,
                   crashes>>
  /\ \A a \in Asset, n \in Claim : Breaks(a, n) =>
       UNCHANGED <<session, overdue, asset, kept, receipts, parts, flying, output, gc,
                   pass, job, published, outages, crashes>>
  /\ \A a \in Asset, n \in Claim : WorkerDies(a, n) =>
       UNCHANGED <<session, overdue, asset, kept, receipts, parts, flying, output, gc,
                   pass, job, published, outages>>
<1>1. ASSUME NEW u \in Upload, Initiate(u)
      PROVE  UNCHANGED <<overdue, kept, receipts, parts, flying, output, gc, pass, outages,
                         crashes>>
  BY <1>1 DEF Initiate, storage
<1>2. ASSUME NEW u \in Upload, Abort(u)
      PROVE  UNCHANGED <<overdue, kept, receipts, parts, flying, output, pass, outages, crashes>>
  BY <1>2 DEF Abort, storage
<1>3. ASSUME NEW u \in Upload, LandPut(u)
      PROVE  UNCHANGED <<session, overdue, asset, kept, receipts, output, gc, pass, outages,
                         crashes>>
  BY <1>3 DEF LandPut, storage
<1>4. ASSUME NEW u \in Upload, Overdue(u)
      PROVE  UNCHANGED <<session, asset, kept, receipts, parts, flying, output, gc, pass,
                         outages, crashes>>
  BY <1>4 DEF Overdue, storage
<1>5. ASSUME NEW u \in Upload, NEW p \in Part, NEW content \in Content, WritePart(u, p, content)
      PROVE  UNCHANGED <<overdue, asset, kept, output, gc, pass, outages>>
  BY <1>5 DEF WritePart, Dies, Put, storage
<1>6. ASSUME NEW a \in Asset, Archive(a)
      PROVE  UNCHANGED <<session, overdue, receipts, parts, flying, output, gc, pass, outages,
                         crashes>>
  BY <1>6 DEF Archive, storage
<1>7. ASSUME NEW a \in Asset, Restore(a)
      PROVE  UNCHANGED <<session, overdue, receipts, parts, flying, output, gc, pass, outages,
                         crashes>>
  BY <1>7 DEF Restore, storage
<1>8. ASSUME BeginPass
      PROVE  UNCHANGED <<overdue, asset, kept, receipts, parts, flying, output, gc, outages,
                         crashes>>
  BY <1>8 DEF BeginPass, storage
<1>9. ASSUME ScheduleExpired
      PROVE  UNCHANGED <<session, overdue, asset, kept, receipts, parts, flying, output,
                         outages, crashes>>
  BY <1>9 DEF ScheduleExpired, storage
<1>10. ASSUME SelectTasks
      PROVE  UNCHANGED <<session, overdue, asset, kept, receipts, parts, flying, output, gc,
                         outages, crashes>>
  BY <1>10 DEF SelectTasks, storage
<1>11. ASSUME Settle
      PROVE  UNCHANGED <<session, overdue, asset, kept, receipts, parts, flying, output,
                         outages, crashes>>
  BY <1>11 DEF Settle, Recorded, storage
<1>12. ASSUME Release
      PROVE  UNCHANGED <<session, overdue, kept, receipts, parts, flying, output, gc, outages,
                         crashes>>
  BY <1>12 DEF Release, storage
<1>13. ASSUME EndPass
      PROVE  UNCHANGED <<session, overdue, asset, kept, receipts, parts, flying, output, gc,
                         outages, crashes>>
  BY <1>13 DEF EndPass, storage
<1>14. ASSUME NEW u \in Upload, ArchiveExpired(u)
      PROVE  UNCHANGED <<session, overdue, kept, receipts, parts, flying, output, gc, outages,
                         crashes>>
  BY <1>14 DEF ArchiveExpired, storage
<1>15. ASSUME NEW x \in Prefix, Collect(x)
      PROVE  UNCHANGED <<session, overdue, asset, kept, receipts, flying, crashes>>
  BY <1>15 DEF Collect, StorageWorks, StorageFails, RemovePrefix, RemoveParts,
     RemoveOutput, Recorded, storage
<1>16. ASSUME PassDies
      PROVE  UNCHANGED <<session, overdue, asset, kept, receipts, parts, flying, output, gc,
                         outages>>
  BY <1>16 DEF PassDies, Dies, storage
<1>17. ASSUME NEW u \in Upload, CompleteUpload(u)
      PROVE  UNCHANGED <<overdue, kept, receipts, parts, flying, output, gc, pass, run,
                         published, outages, crashes>>
  BY <1>17 DEF CompleteUpload, Complete, storage, uploadVars, jobVars
<1>18. ASSUME NEW c \in Clip, RequestClip(c)
      PROVE  UNCHANGED <<session, overdue, kept, receipts, parts, flying, output, gc, pass, run,
                         published, outages, crashes>>
  BY <1>18 DEF RequestClip, CreateClip, storage, uploadVars, jobVars
<1>19. ASSUME NEW a \in Asset, BecomesDue(a)
      PROVE  UNCHANGED <<session, overdue, asset, kept, receipts, parts, flying, output, gc,
                         pass, run, published, outages, crashes>>
  BY <1>19 DEF BecomesDue, storage, uploadVars, jobVars
<1>20. ASSUME NEW a \in Asset, ClaimJob(a)
      PROVE  UNCHANGED <<session, overdue, asset, kept, receipts, parts, flying, output, gc,
                         pass, published, outages, crashes>>
  BY <1>20 DEF ClaimJob, Go, storage, uploadVars, jobVars
<1>21. ASSUME NEW a \in Asset, NEW n \in Claim, Renew(a, n)
      PROVE  UNCHANGED <<session, overdue, asset, kept, receipts, parts, flying, output, gc,
                         pass, run, published, outages, crashes>>
  BY <1>21 DEF Renew, storage, uploadVars, jobVars
<1>22. ASSUME NEW a \in Asset, NEW n \in Claim, Assemble(a, n)
      PROVE  UNCHANGED <<session, overdue, asset, kept, receipts, parts, flying, output, gc,
                         pass, job, published, outages, crashes>>
  BY <1>22 DEF Assemble, Go, storage, uploadVars, jobVars
<1>23. ASSUME NEW a \in Asset, NEW n \in Claim, Produce(a, n)
      PROVE  UNCHANGED <<session, overdue, asset, kept, receipts, parts, flying, gc, pass, job,
                         published, outages, crashes>>
  BY <1>23 DEF Produce, ClaimPrefix, Go, storage, uploadVars, jobVars
<1>24. ASSUME NEW a \in Asset, NEW n \in Claim, Finalize(a, n)
      PROVE  UNCHANGED <<session, overdue, kept, receipts, parts, flying, output, pass, outages,
                         crashes>>
  BY <1>24 DEF Finalize, Go, storage, uploadVars, jobVars
<1>25. ASSUME NEW a \in Asset, NEW n \in Claim, CollectParts(a, n)
      PROVE  UNCHANGED <<session, overdue, asset, kept, receipts, flying, output, pass, job,
                         published, crashes>>
  BY <1>25 DEF CollectParts, StorageWorks, StorageFails, RemoveParts, Go, storage,
     uploadVars, jobVars
<1>26. ASSUME NEW a \in Asset, NEW n \in Claim, Report(a, n)
      PROVE  UNCHANGED <<session, overdue, asset, kept, receipts, parts, flying, output, gc,
                         pass, job, published, outages>>
  BY <1>26 DEF Report, Dies, Go, storage, uploadVars, jobVars
<1>27. ASSUME NEW a \in Asset, NEW n \in Claim, DropLost(a, n)
      PROVE  UNCHANGED <<session, overdue, asset, kept, receipts, parts, flying, pass, job,
                         published, crashes>>
  BY <1>27 DEF DropLost, Cleaned, StorageWorks, StorageFails, RemoveOutput, Go,
     storage, uploadVars, jobVars
<1>28. ASSUME NEW a \in Asset, NEW n \in Claim, FailUpload(a, n)
      PROVE  UNCHANGED <<session, overdue, kept, receipts, parts, flying, pass, published,
                         crashes>>
  BY <1>28 DEF FailUpload, Cleaned, StorageWorks, StorageFails, RemoveOutput,
     FinishFailed, Go, storage, uploadVars, jobVars
<1>29. ASSUME NEW a \in Asset, NEW n \in Claim, FailClip(a, n)
      PROVE  UNCHANGED <<session, overdue, kept, receipts, parts, flying, gc, pass, published,
                         crashes>>
  BY <1>29 DEF FailClip, StorageWorks, StorageFails, RemoveOutput, FinishFailed,
     Go, storage, uploadVars, jobVars
<1>30. ASSUME NEW a \in Asset, NEW n \in Claim, Breaks(a, n)
      PROVE  UNCHANGED <<session, overdue, asset, kept, receipts, parts, flying, output, gc,
                         pass, job, published, outages, crashes>>
  BY <1>30 DEF Breaks, Go, storage, uploadVars, jobVars
<1>31. ASSUME NEW a \in Asset, NEW n \in Claim, WorkerDies(a, n)
      PROVE  UNCHANGED <<session, overdue, asset, kept, receipts, parts, flying, output, gc,
                         pass, job, published, outages>>
  BY <1>31 DEF WorkerDies, Dies, Go, storage, uploadVars, jobVars
<1> QED BY <1>1, <1>2, <1>3, <1>4, <1>5, <1>6, <1>7, <1>8, <1>9, <1>10, <1>11,
          <1>12, <1>13, <1>14, <1>15, <1>16, <1>17, <1>18, <1>19, <1>20, <1>21,
          <1>22, <1>23, <1>24, <1>25, <1>26, <1>27, <1>28, <1>29, <1>30, <1>31

LEMMA SessionWriters ==
  ASSUME [Next]_vars
  PROVE  \/ UNCHANGED session
         \/ BeginPass
         \/ \E u \in Upload : Initiate(u) \/ CompleteUpload(u) \/ Abort(u)
         \/ \E u \in Upload, p \in Part, content \in Content : WritePart(u, p, content)
BY Frames DEF vars, uploadVars, jobVars, Next, OwnerStep, PassStep, Work

LEMMA OverdueWriters ==
  ASSUME [Next]_vars
  PROVE  \/ UNCHANGED overdue
         \/ \E u \in Upload : Overdue(u)
BY Frames DEF vars, uploadVars, jobVars, Next, OwnerStep, PassStep, Work

LEMMA AssetWriters ==
  ASSUME [Next]_vars
  PROVE  \/ UNCHANGED asset
         \/ Release
         \/ \E u \in Upload :
                \/ Initiate(u) \/ CompleteUpload(u) \/ Abort(u) \/ ArchiveExpired(u)
         \/ \E c \in Clip : RequestClip(c)
         \/ \E a \in Asset : Archive(a) \/ Restore(a)
         \/ \E a \in Asset, n \in Claim :
                \/ Finalize(a, n) \/ FailUpload(a, n) \/ FailClip(a, n)
BY Frames DEF vars, uploadVars, jobVars, Next, OwnerStep, PassStep, Work

LEMMA KeptWriters ==
  ASSUME [Next]_vars
  PROVE  \/ UNCHANGED kept
         \/ \E a \in Asset : Archive(a) \/ Restore(a)
BY Frames DEF vars, uploadVars, jobVars, Next, OwnerStep, PassStep, Work

LEMMA ReceiptsWriters ==
  ASSUME [Next]_vars
  PROVE  \/ UNCHANGED receipts
         \/ \E u \in Upload, p \in Part, content \in Content : WritePart(u, p, content)
BY Frames DEF vars, uploadVars, jobVars, Next, OwnerStep, PassStep, Work

LEMMA PartsWriters ==
  ASSUME [Next]_vars
  PROVE  \/ UNCHANGED parts
         \/ \E u \in Upload : LandPut(u)
         \/ \E u \in Upload, p \in Part, content \in Content : WritePart(u, p, content)
         \/ \E a \in Asset, n \in Claim : CollectParts(a, n)
         \/ \E x \in Prefix : Collect(x)
BY Frames DEF vars, uploadVars, jobVars, Next, OwnerStep, PassStep, Work

LEMMA FlyingWriters ==
  ASSUME [Next]_vars
  PROVE  \/ UNCHANGED flying
         \/ \E u \in Upload : LandPut(u)
         \/ \E u \in Upload, p \in Part, content \in Content : WritePart(u, p, content)
BY Frames DEF vars, uploadVars, jobVars, Next, OwnerStep, PassStep, Work

LEMMA OutputWriters ==
  ASSUME [Next]_vars
  PROVE  \/ UNCHANGED output
         \/ \E a \in Asset, n \in Claim :
                \/ Produce(a, n) \/ DropLost(a, n) \/ FailUpload(a, n)
                \/ FailClip(a, n)
         \/ \E x \in Prefix : Collect(x)
BY Frames DEF vars, uploadVars, jobVars, Next, OwnerStep, PassStep, Work

LEMMA GcWriters ==
  ASSUME [Next]_vars
  PROVE  \/ UNCHANGED gc
         \/ ScheduleExpired \/ Settle
         \/ \E u \in Upload : Abort(u)
         \/ \E a \in Asset, n \in Claim :
                \/ Finalize(a, n) \/ CollectParts(a, n) \/ DropLost(a, n)
                \/ FailUpload(a, n)
         \/ \E x \in Prefix : Collect(x)
BY Frames DEF vars, uploadVars, jobVars, Next, OwnerStep, PassStep, Work

LEMMA PassWriters ==
  ASSUME [Next]_vars
  PROVE  \/ UNCHANGED pass
         \/ BeginPass \/ ScheduleExpired \/ SelectTasks \/ Settle \/ Release
         \/ EndPass \/ PassDies
         \/ \E u \in Upload : ArchiveExpired(u)
         \/ \E x \in Prefix : Collect(x)
BY Frames DEF vars, uploadVars, jobVars, Next, OwnerStep, PassStep, Work

LEMMA JobWriters ==
  ASSUME [Next]_vars
  PROVE  \/ UNCHANGED job
         \/ \E u \in Upload : CompleteUpload(u)
         \/ \E c \in Clip : RequestClip(c)
         \/ \E a \in Asset : BecomesDue(a) \/ ClaimJob(a)
         \/ \E a \in Asset, n \in Claim :
                \/ Renew(a, n) \/ Finalize(a, n) \/ FailUpload(a, n)
                \/ FailClip(a, n)
BY Frames DEF vars, uploadVars, jobVars, Next, OwnerStep, PassStep, Work

LEMMA RunWriters ==
  ASSUME [Next]_vars
  PROVE  \/ UNCHANGED run
         \/ \E a \in Asset : ClaimJob(a)
         \/ \E a \in Asset, n \in Claim :
                \/ Assemble(a, n) \/ Produce(a, n) \/ Finalize(a, n)
                \/ CollectParts(a, n) \/ Report(a, n) \/ DropLost(a, n)
                \/ FailUpload(a, n) \/ FailClip(a, n) \/ Breaks(a, n)
                \/ WorkerDies(a, n)
BY Frames DEF vars, uploadVars, jobVars, Next, OwnerStep, PassStep, Work

LEMMA PublishedWriters ==
  ASSUME [Next]_vars
  PROVE  \/ UNCHANGED published
         \/ \E a \in Asset, n \in Claim : Finalize(a, n)
BY Frames DEF vars, uploadVars, jobVars, Next, OwnerStep, PassStep, Work

LEMMA OutagesWriters ==
  ASSUME [Next]_vars
  PROVE  \/ UNCHANGED outages
         \/ \E a \in Asset, n \in Claim :
                \/ CollectParts(a, n) \/ DropLost(a, n) \/ FailUpload(a, n)
                \/ FailClip(a, n)
         \/ \E x \in Prefix : Collect(x)
BY Frames DEF vars, uploadVars, jobVars, Next, OwnerStep, PassStep, Work

LEMMA CrashesWriters ==
  ASSUME [Next]_vars
  PROVE  \/ UNCHANGED crashes
         \/ PassDies
         \/ \E u \in Upload, p \in Part, content \in Content : WritePart(u, p, content)
         \/ \E a \in Asset, n \in Claim : Report(a, n) \/ WorkerDies(a, n)
BY Frames DEF vars, uploadVars, jobVars, Next, OwnerStep, PassStep, Work

(***************************************************************************)
(* The inductive invariant.                                                *)
(***************************************************************************)

\* A job is of a clip, or of an upload that is complete.
Entered ==
  \A a \in Asset : job[a] \in Job =>
    asset[a] \notin {"none", "UPLOADING"} /\ (a \in Upload => session[a] = "COMPLETE")

\* Only claimed jobs run, and what is claimed never was anything else before.
Started ==
  \A a \in Asset, n \in Claim : run[a][n].at # "none" =>
    job[a] \in Job /\ n <= job[a].attempts

TokensDrawn == \A a \in Asset : job[a] \in Job => job[a].token <= job[a].attempts

GivenUp(u) == session[u] \in {"ABORTED", "EXPIRED"}

\* What the maintenance pass remembers from its earlier statements is still so.
PassKnown ==
  /\ pass.at \in {"archive", "schedule"} => \A u \in pass.todo : GivenUp(u)
  /\ pass.at = "schedule" => GivenUp(pass.upload)
  /\ pass.at \in {"collect", "settle", "release"} => \A x \in pass.todo : gc[x] # None
  /\ pass.at \in {"settle", "release"} => gc[pass.prefix] # None

\* Parts become garbage when nobody will complete their upload, or it is published.
PartsFreed ==
  \A u \in Upload : gc[PartsOf(u)] # None => GivenUp(u) \/ published[u] # 0

\* An asset in PROCESSING is not published yet, one that is playable was.
Undecided ==
  \A a \in Asset : asset[a] = "PROCESSING" =>
    published[a] = 0 /\ (a \in Upload => session[a] = "COMPLETE")

PlayableWon == \A a \in Asset : Playable(a) => published[a] # 0

\* Where the worker that published can be; it leaves a task for its upload's parts.
Winner ==
  \A a \in Asset, n \in Claim :
    /\ published[a] = n =>
         run[a][n].at \in {"won", "collected", "failing", "cleaned", "finished", "over",
                           "failed", "dead"}
    /\ run[a][n].at \in {"won", "collected"} =>
         published[a] = n /\ (a \in Upload => gc[PartsOf(a)] # None)

\* What a worker assembled is what the receipts record.
Stored ==
  \A u \in Upload, n \in Claim :
    run[u][n].at \in {"assembled", "produced"} \/ published[u] = n =>
      run[u][n].bytes = receipts[u]

\* Output is garbage only when its worker gave it up, and not having published.
Untouched ==
  \A a \in Asset, n \in Claim : gc[OutputOf(a, n)] # None =>
    \/ run[a][n].at \in {"cleaned", "failed", "dead"}
    \/ run[a][n].at = "over" /\ published[a] # n

OutputKept ==
  \A a \in Asset, n \in Claim :
    \/ run[a][n].at = "produced"
    \/ published[a] = n /\ run[a][n].at \in {"won", "collected", "failing", "over"}
    => n \in output[a]

IInv ==
  /\ TypeOK /\ Entered /\ Started /\ TokensDrawn /\ PassKnown /\ PartsFreed /\ Undecided
  /\ PlayableWon /\ Winner /\ Stored /\ Untouched /\ OutputKept /\ PartsKept

(***************************************************************************)
(* Type correctness.                                                       *)
(***************************************************************************)

\* The pass by the statement it is at.
LEMMA PassProperty ==
  ASSUME pass \in Pass
  PROVE  /\ pass.at \in {"idle", "archive", "schedule", "collect", "settle", "release"}
         /\ pass.at \in {"archive", "schedule"} => pass.todo \in SUBSET Upload
         /\ pass.at = "schedule" => pass.upload \in Upload
         /\ pass.at \in {"collect", "settle", "release"} => pass.todo \in SUBSET Prefix
         /\ pass.at \in {"settle", "release"} =>
              /\ pass.prefix \in Prefix
              /\ pass = [at |-> pass.at, todo |-> pass.todo, prefix |-> pass.prefix]
<1>1. CASE pass = Idle
  BY <1>1 DEF Idle
<1>2. CASE pass \in [at : {"archive"}, todo : SUBSET Upload]
  BY <1>2
<1>3. CASE pass \in [at : {"schedule"}, todo : SUBSET Upload, upload : Upload]
  BY <1>3
<1>4. CASE pass \in [at : {"collect"}, todo : SUBSET Prefix]
  BY <1>4
<1>5. CASE pass \in [at : {"settle", "release"}, todo : SUBSET Prefix, prefix : Prefix]
  BY <1>5
<1> QED BY <1>1, <1>2, <1>3, <1>4, <1>5 DEF Pass

LEMMA SessionTyped ==
  ASSUME IInv, [Next]_vars
  PROVE  session' \in [Upload -> {"none", "INITIATED", "UPLOADING", "COMPLETE",
                                  "ABORTED", "EXPIRED"}]
<1>1. session \in [Upload -> {"none", "INITIATED", "UPLOADING", "COMPLETE",
                              "ABORTED", "EXPIRED"}]
  BY DEF IInv, TypeOK
<1>2. CASE BeginPass
  BY <1>1, <1>2 DEF BeginPass
<1>3. ASSUME NEW u \in Upload, Initiate(u) \/ CompleteUpload(u) \/ Abort(u)
      PROVE  \E s \in {"INITIATED", "COMPLETE", "ABORTED"} :
               session' = [session EXCEPT ![u] = s]
  BY <1>3 DEF Initiate, CompleteUpload, Complete, Abort
<1>4. ASSUME NEW u \in Upload, NEW p \in Part, NEW content \in Content,
             WritePart(u, p, content)
      PROVE  UNCHANGED session \/ session' = [session EXCEPT ![u] = "UPLOADING"]
  BY <1>4 DEF WritePart
<1> QED BY <1>1, <1>2, <1>3, <1>4, SessionWriters

LEMMA AssetTyped ==
  ASSUME IInv, [Next]_vars
  PROVE  asset' \in [Asset -> {"none", "UPLOADING", "PROCESSING", "READY", "FAILED",
                               "ARCHIVED", "DELETED"}]
<1> DEFINE Status == {"none", "UPLOADING", "PROCESSING", "READY", "FAILED", "ARCHIVED",
                      "DELETED"}
<1>1. /\ asset \in [Asset -> Status] /\ kept \in [Asset -> {"READY", "FAILED", None}]
      /\ pass \in Pass /\ Upload \subseteq Asset /\ Clip \subseteq Asset
  BY DEF IInv, TypeOK, Asset
<1>2. ASSUME NEW a, NEW s \in Status, asset' = [asset EXCEPT ![a] = s]
      PROVE  asset' \in [Asset -> Status]
  BY <1>1, <1>2
<1>11. asset \in [Asset -> Status]
  BY <1>1
<1> SUFFICES asset' \in [Asset -> Status]
  OBVIOUS
<1> HIDE DEF Status
<1>3. {"none", "UPLOADING", "PROCESSING", "READY", "FAILED", "ARCHIVED", "DELETED"}
        \subseteq Status
  BY DEF Status
<1>4. CASE UNCHANGED asset
  BY <1>4, <1>11
<1>5. CASE Release
  <2>1. pass.prefix \in Prefix
    BY <1>1, <1>5, PassProperty DEF Release
  <2>2. pass.prefix[1] \in Asset
    BY <1>1, <2>1, PrefixProperty
  <2>3. asset[pass.prefix[1]] \in Status
    BY <1>1, <2>2
  <2>4. \E s \in Status : asset' = [asset EXCEPT ![pass.prefix[1]] = s]
    BY <1>3, <1>5, <2>3 DEF Release
  <2> QED BY <1>2, <2>4
<1>6. ASSUME NEW u \in Upload,
             Initiate(u) \/ CompleteUpload(u) \/ Abort(u) \/ ArchiveExpired(u)
      PROVE  asset' \in [Asset -> Status]
  <2>1. asset[u] \in Status
    BY <1>1
  <2> QED BY <1>2, <1>3, <1>6, <2>1
          DEF Initiate, CompleteUpload, Complete, Abort, ArchiveExpired
<1>7. ASSUME NEW c \in Clip, RequestClip(c)
      PROVE  asset' \in [Asset -> Status]
  BY <1>2, <1>3, <1>7 DEF RequestClip, CreateClip
<1>8. ASSUME NEW a \in Asset, Archive(a) \/ Restore(a)
      PROVE  asset' \in [Asset -> Status]
  <2>1. kept[a] # None => kept[a] \in Status
    BY <1>1, <1>3
  <2> QED BY <1>2, <1>3, <1>8, <2>1 DEF Archive, Restore
<1>9. ASSUME NEW a \in Asset, NEW n \in Claim,
             Finalize(a, n) \/ FailUpload(a, n) \/ FailClip(a, n)
      PROVE  asset' \in [Asset -> Status]
  <2>1. asset[a] \in Status
    BY <1>1
  <2>2. \/ UNCHANGED asset
        \/ asset' = [asset EXCEPT ![a] = "READY"]
        \/ asset' = [asset EXCEPT ![a] = IF @ = "PROCESSING" THEN "FAILED" ELSE @]
    BY <1>9 DEF Finalize, FailUpload, FailClip, FinishFailed
  <2> QED BY <1>2, <1>3, <1>4, <2>1, <2>2
<1> QED BY <1>4, <1>5, <1>6, <1>7, <1>8, <1>9, AssetWriters

LEMMA KeptTyped ==
  ASSUME IInv, [Next]_vars
  PROVE  kept' \in [Asset -> {"READY", "FAILED", None}] /\ overdue' \in SUBSET Upload
<1>1. kept \in [Asset -> {"READY", "FAILED", None}] /\ overdue \in SUBSET Upload
  BY DEF IInv, TypeOK
<1>2. ASSUME NEW a \in Asset, Archive(a) \/ Restore(a)
      PROVE  kept' \in [Asset -> {"READY", "FAILED", None}]
  BY <1>1, <1>2 DEF Archive, Restore
<1>3. ASSUME NEW u \in Upload, Overdue(u)
      PROVE  overdue' \in SUBSET Upload
  BY <1>1, <1>3 DEF Overdue
<1> QED BY <1>1, <1>2, <1>3, KeptWriters, OverdueWriters

\* The objects and what is recorded of them.
LEMMA StorageTyped ==
  ASSUME IInv, [Next]_vars
  PROVE  /\ receipts' \in [Upload -> [Part -> Content \cup {None}]]
         /\ parts' \in [Upload -> [Part -> Content \cup {None}]]
         /\ flying' \in [Upload -> (Part \X Content) \cup {None}]
         /\ output' \in [Asset -> SUBSET Claim]
<1>1. /\ receipts \in [Upload -> [Part -> Content \cup {None}]]
      /\ parts \in [Upload -> [Part -> Content \cup {None}]]
      /\ flying \in [Upload -> (Part \X Content) \cup {None}]
      /\ output \in [Asset -> SUBSET Claim] /\ pass \in Pass
  BY DEF IInv, TypeOK
<1>2. ASSUME NEW rows \in [Upload -> [Part -> Content \cup {None}]],
             NEW u \in Upload, NEW p \in Part, NEW content \in Content
      PROVE  [rows EXCEPT ![u][p] = content] \in [Upload -> [Part -> Content \cup {None}]]
  OBVIOUS
<1>3. NoParts \in [Part -> Content \cup {None}]
  BY DEF NoParts
<1>4. ASSUME NEW u, RemoveParts(u)
      PROVE  /\ parts' \in [Upload -> [Part -> Content \cup {None}]]
             /\ UNCHANGED output
  BY <1>1, <1>3, <1>4 DEF RemoveParts
<1>5. ASSUME NEW a, NEW n, RemoveOutput(a, n)
      PROVE  output' \in [Asset -> SUBSET Claim] /\ UNCHANGED parts
  BY <1>1, <1>5 DEF RemoveOutput
<1>6. ASSUME NEW u \in Upload, NEW p \in Part, NEW content \in Content,
             WritePart(u, p, content)
      PROVE  /\ receipts' \in [Upload -> [Part -> Content \cup {None}]]
             /\ parts' \in [Upload -> [Part -> Content \cup {None}]]
             /\ flying' \in [Upload -> (Part \X Content) \cup {None}]
  <2>1. \/ UNCHANGED receipts \/ receipts' = [receipts EXCEPT ![u][p] = content]
    BY <1>6 DEF WritePart
  <2>2. \/ UNCHANGED parts \/ parts' = [parts EXCEPT ![u][p] = content]
    BY <1>6 DEF WritePart, Put
  <2>4. receipts' \in [Upload -> [Part -> Content \cup {None}]]
    <3>1. CASE receipts' = [receipts EXCEPT ![u][p] = content]
      BY <1>1, <3>1
    <3> QED BY <1>1, <2>1, <3>1
  <2>5. parts' \in [Upload -> [Part -> Content \cup {None}]]
    <3>1. CASE parts' = [parts EXCEPT ![u][p] = content]
      BY <1>1, <3>1
    <3> QED BY <1>1, <2>2, <3>1
  <2>3. \/ UNCHANGED flying \/ flying' = [flying EXCEPT ![u] = <<p, content>>]
    BY <1>6 DEF WritePart, Put
  <2> QED BY <1>1, <2>3, <2>4, <2>5
<1>7. ASSUME NEW u \in Upload, LandPut(u)
      PROVE  /\ parts' \in [Upload -> [Part -> Content \cup {None}]]
             /\ flying' \in [Upload -> (Part \X Content) \cup {None}]
  <2>1. flying[u] \in Part \X Content
    BY <1>1, <1>7 DEF LandPut
  <2>2. flying[u][1] \in Part /\ flying[u][2] \in Content
    BY <2>1
  <2> QED BY <1>1, <1>2, <1>7, <2>2 DEF LandPut
<1>8. ASSUME NEW x \in Prefix, Collect(x)
      PROVE  /\ parts' \in [Upload -> [Part -> Content \cup {None}]]
             /\ output' \in [Asset -> SUBSET Claim]
  <2>1. RemoveParts(x[1]) \/ RemoveOutput(x[1], x[2]) \/ UNCHANGED <<parts, output>>
    BY <1>8 DEF Collect, RemovePrefix
  <2> QED BY <1>1, <1>4, <1>5, <2>1
<1>9. ASSUME NEW a \in Asset, NEW n \in Claim, CollectParts(a, n)
      PROVE  parts' \in [Upload -> [Part -> Content \cup {None}]]
  <2>1. RemoveParts(a) \/ UNCHANGED parts
    BY <1>9 DEF CollectParts
  <2> QED BY <1>1, <1>4, <2>1
<1>10. ASSUME NEW a \in Asset, NEW n \in Claim, Produce(a, n)
       PROVE  output' \in [Asset -> SUBSET Claim]
  <2>1. output' = [output EXCEPT ![a] = @ \cup {n}]
    BY <1>10 DEF Produce, ClaimPrefix, OutputOf
  <2> QED BY <1>1, <2>1
<1>11. ASSUME NEW a \in Asset, NEW n \in Claim,
              DropLost(a, n) \/ FailUpload(a, n) \/ FailClip(a, n)
       PROVE  output' \in [Asset -> SUBSET Claim]
  <2>1. RemoveOutput(a, n) \/ UNCHANGED output
    BY <1>11 DEF DropLost, FailUpload, FailClip, Cleaned
  <2> QED BY <1>1, <1>5, <2>1
<1>12. receipts' \in [Upload -> [Part -> Content \cup {None}]]
  BY <1>1, <1>6, ReceiptsWriters
<1>13. parts' \in [Upload -> [Part -> Content \cup {None}]]
  BY <1>1, <1>6, <1>7, <1>8, <1>9, PartsWriters
<1>14. flying' \in [Upload -> (Part \X Content) \cup {None}]
  BY <1>1, <1>6, <1>7, FlyingWriters
<1>15. output' \in [Asset -> SUBSET Claim]
  BY <1>1, <1>8, <1>10, <1>11, OutputWriters
<1> QED BY <1>12, <1>13, <1>14, <1>15

\* A run of a task is recorded while the table takes it.
LEMMA RecordedProperty ==
  ASSUME gc \in [Prefix -> Task \cup {None}], NEW x \in Prefix, gc[x] \in Task,
         NEW status \in {"FAILED", "SUCCEEDED"}, NEW next, Recorded(x, status, next)
  PROVE  /\ gc' \in [Prefix -> Task \cup {None}]
         /\ gc'[x] \in Task /\ \A y \in Prefix : y # x => gc'[y] = gc[y]
         /\ pass' = next \/ pass' = Idle
<1>1. CASE gc[x].attempts < GcAttempts
  <2> DEFINE new == [gc[x] EXCEPT !.status = status, !.attempts = gc[x].attempts + 1]
  <2>1. gc[x].attempts + 1 \in 0 .. GcAttempts
    <3>1. GcAttempts \in Nat /\ gc[x].attempts \in 0 .. GcAttempts
      BY MediaAssumption DEF Task
    <3> QED BY <1>1, <3>1
  <2>2. new \in Task
    BY <2>1 DEF Task
  <2>3. gc' = [gc EXCEPT ![x] = new] /\ pass' = next
    BY <1>1 DEF Recorded
  <2> HIDE DEF new
  <2> QED BY <2>2, <2>3
<1>2. CASE ~(gc[x].attempts < GcAttempts)
  BY <1>2 DEF Recorded
<1> QED BY <1>1, <1>2

\* Tasks are never deleted, and what a step schedules or records is one.
TasksKept ==
  /\ gc' \in [Prefix -> Task \cup {None}]
  /\ \A x \in Prefix : gc[x] # None => gc'[x] \in Task

LEMMA OneTask ==
  ASSUME gc \in [Prefix -> Task \cup {None}], gc' \in [Prefix -> Task \cup {None}],
         NEW x, \A y \in Prefix : y # x => gc'[y] = gc[y],
         x \in Prefix => gc'[x] \in Task
  PROVE  TasksKept
BY DEF TasksKept

LEMMA TasksTyped ==
  ASSUME IInv, [Next]_vars
  PROVE  TasksKept
<1>1. gc \in [Prefix -> Task \cup {None}] /\ pass \in Pass
      /\ \A x \in Prefix : gc[x] # None => gc[x] \in Task
  BY DEF IInv, TypeOK
<1>2. CASE UNCHANGED gc
  BY <1>1, <1>2 DEF TasksKept
<1>3. ASSUME NEW x \in Prefix,
             NEW reason \in {"aborted", "expired", "processed", "failed"},
             gc' = Scheduled(gc, x, reason)
      PROVE  TasksKept
  BY <1>1, <1>3, ScheduledProperty, OneTask
<1>4. ASSUME NEW u \in Upload, Abort(u)
      PROVE  TasksKept
  BY <1>3, <1>4, PrefixesDiffer DEF Abort
<1>5. CASE ScheduleExpired
  <2>1. pass.upload \in Upload
    BY <1>1, <1>5, PassProperty DEF ScheduleExpired
  <2> QED BY <1>3, <1>5, <2>1, PrefixesDiffer DEF ScheduleExpired
<1>6. ASSUME NEW x \in Prefix, Collect(x)
      PROVE  TasksKept
  <2>1. gc[x] \in Task
    BY <1>1, <1>6, PassProperty DEF Collect, IInv, PassKnown
  <2>2. CASE UNCHANGED gc
    BY <1>2, <2>2
  <2>3. ASSUME NEW next, Recorded(x, "FAILED", next)
        PROVE  TasksKept
    BY <1>1, <2>1, <2>3, RecordedProperty, OneTask
  <2> QED BY <1>6, <2>2, <2>3 DEF Collect
<1>7. CASE Settle
  <2>1. pass.prefix \in Prefix /\ gc[pass.prefix] \in Task
    BY <1>1, <1>7, PassProperty DEF Settle, IInv, PassKnown
  <2>2. PICK next : Recorded(pass.prefix, "SUCCEEDED", next)
    BY <1>7 DEF Settle
  <2> QED BY <1>1, <2>1, <2>2, RecordedProperty, OneTask
<1>8. ASSUME NEW a \in Asset, NEW n \in Claim, Finalize(a, n)
      PROVE  TasksKept
  <2>1. UNCHANGED gc \/ (a \in Upload /\ gc' = Scheduled(gc, PartsOf(a), "processed"))
    BY <1>8 DEF Finalize
  <2> QED BY <1>2, <1>3, <2>1, PrefixesDiffer
<1>9. ASSUME NEW a \in Asset, NEW n \in Claim, CollectParts(a, n)
      PROVE  TasksKept
  <2>1. a \in Upload /\ run[a][n].at = "won"
    BY <1>9 DEF CollectParts, At
  <2>2. PartsOf(a) \in Prefix /\ gc[PartsOf(a)] \in Task
    BY <1>1, <2>1, PrefixesDiffer DEF IInv, Winner
  <2>3. CASE UNCHANGED gc
    BY <1>2, <2>3
  <2>4. CASE gc' = [gc EXCEPT ![PartsOf(a)].status = IF @ = "PENDING" THEN "SUCCEEDED" ELSE @]
    <3>1. PICK s \in {"PENDING", "FAILED", "SUCCEEDED"} :
            gc' = [gc EXCEPT ![PartsOf(a)] = [gc[PartsOf(a)] EXCEPT !.status = s]]
      BY <2>2, <2>4 DEF Task
    <3> DEFINE new == [gc[PartsOf(a)] EXCEPT !.status = s]
    <3>2. new \in Task
      BY <2>2 DEF Task
    <3>3. gc' = [gc EXCEPT ![PartsOf(a)] = new]
      BY <3>1
    <3> HIDE DEF new
    <3> QED BY <1>1, <2>2, <3>2, <3>3, OneTask
  <2> QED BY <1>9, <2>3, <2>4 DEF CollectParts
<1>10. ASSUME NEW a \in Asset, NEW n \in Claim, DropLost(a, n) \/ FailUpload(a, n)
       PROVE  TasksKept
  <2>1. UNCHANGED gc \/ gc' = Scheduled(gc, OutputOf(a, n), "failed")
    BY <1>10 DEF DropLost, FailUpload, Cleaned
  <2> QED BY <1>2, <1>3, <2>1, PrefixesDiffer
<1> QED BY <1>2, <1>4, <1>5, <1>6, <1>7, <1>8, <1>9, <1>10, GcWriters

LEMMA PassTyped ==
  ASSUME IInv, [Next]_vars
  PROVE  pass' \in Pass
<1>1. pass \in Pass /\ gc \in [Prefix -> Task \cup {None}] /\ overdue \in SUBSET Upload
  BY DEF IInv, TypeOK
<1>2. Idle \in Pass
  BY DEF Pass
<1>3. CASE BeginPass
  <2>1. \E s \in SUBSET Upload : pass' = [at |-> "archive", todo |-> s]
    BY <1>1, <1>3 DEF BeginPass
  <2> QED BY <2>1 DEF Pass
<1>4. ASSUME NEW u \in Upload, ArchiveExpired(u)
      PROVE  pass' \in Pass
  <2>1. pass.todo \ {u} \in SUBSET Upload
    BY <1>1, <1>4, PassProperty DEF ArchiveExpired
  <2> QED BY <1>4, <2>1 DEF ArchiveExpired, Pass
<1>5. CASE ScheduleExpired
  <2>1. pass.todo \in SUBSET Upload
    BY <1>1, <1>5, PassProperty DEF ScheduleExpired
  <2> QED BY <1>5, <2>1 DEF ScheduleExpired, Pass
<1>6. CASE SelectTasks
  BY <1>6 DEF SelectTasks, Pass
<1>7. ASSUME NEW x \in Prefix, Collect(x)
      PROVE  pass' \in Pass
  <2>1. pass.todo \ {x} \in SUBSET Prefix /\ gc[x] \in Task
    BY <1>1, <1>7, PassProperty DEF Collect, IInv, PassKnown
  <2>2. \/ pass' = [at |-> "settle", todo |-> pass.todo \ {x}, prefix |-> x]
        \/ Recorded(x, "FAILED", [at |-> "collect", todo |-> pass.todo \ {x}])
    BY <1>7 DEF Collect
  <2>3. \/ pass' = [at |-> "settle", todo |-> pass.todo \ {x}, prefix |-> x]
        \/ pass' = [at |-> "collect", todo |-> pass.todo \ {x}] \/ pass' = Idle
    BY <1>1, <2>1, <2>2, RecordedProperty
  <2> QED BY <1>2, <2>1, <2>3 DEF Pass
<1>8. CASE Settle
  <2>1. /\ pass.prefix \in Prefix /\ gc[pass.prefix] \in Task /\ pass.todo \in SUBSET Prefix
        /\ pass = [at |-> pass.at, todo |-> pass.todo, prefix |-> pass.prefix]
    BY <1>1, <1>8, PassProperty DEF Settle, IInv, PassKnown
  <2>2. Recorded(pass.prefix, "SUCCEEDED", [pass EXCEPT !.at = "release"])
    BY <1>8 DEF Settle
  <2>3. pass' = [pass EXCEPT !.at = "release"] \/ pass' = Idle
    BY <1>1, <2>1, <2>2, RecordedProperty
  <2>4. [pass EXCEPT !.at = "release"]
          = [at |-> "release", todo |-> pass.todo, prefix |-> pass.prefix]
    BY <2>1
  <2> QED BY <1>2, <2>1, <2>3, <2>4 DEF Pass
<1>9. CASE Release
  <2>1. pass.todo \in SUBSET Prefix
    BY <1>1, <1>9, PassProperty DEF Release
  <2> QED BY <1>9, <2>1 DEF Release, Pass
<1>10. CASE EndPass \/ PassDies
  BY <1>2, <1>10 DEF EndPass, PassDies
<1> QED BY <1>1, <1>3, <1>4, <1>5, <1>6, <1>7, <1>8, <1>9, <1>10, PassWriters

\* Jobs keep their type; attempts only grow, and the token is one drawn by an attempt.
JobsKept ==
  /\ job' \in [Asset -> Job \cup {None}]
  /\ \A a \in Asset : job[a] \in Job =>
       job'[a] \in Job /\ job[a].attempts <= job'[a].attempts
  /\ TokensDrawn'

LEMMA Claimed ==
  ASSUME IInv
  PROVE  \A a \in Asset, n \in Claim : run[a][n].at # "none" => job[a] \in Job
BY DEF IInv, Started

LEMMA JobsTyped ==
  ASSUME IInv, [Next]_vars
  PROVE  JobsKept
<1>1. /\ job \in [Asset -> Job \cup {None}] /\ TokensDrawn
      /\ Upload \subseteq Asset /\ Clip \subseteq Asset
  BY DEF IInv, TypeOK, Asset
<1>2. \A j \in Job : j.attempts \in Int /\ j.token \in Int /\ j.attempts <= j.attempts
  BY DEF Job
<1>3. ASSUME NEW a \in Asset, NEW new \in Job, job' = [job EXCEPT ![a] = new],
             new.token <= new.attempts,
             job[a] \in Job => job[a].attempts <= new.attempts
      PROVE  JobsKept
  BY <1>1, <1>2, <1>3 DEF JobsKept, TokensDrawn
<1>4. CASE UNCHANGED job
  BY <1>1, <1>2, <1>4 DEF JobsKept, TokensDrawn
<1>5. 0 \in 0 .. MaxAttempts /\ MaxAttempts \in Nat
  BY MediaAssumption
<1>6. Queued \in Job /\ Queued.token <= Queued.attempts
  BY <1>5 DEF Queued, Job
<1>7. ASSUME NEW u \in Upload, CompleteUpload(u)
      PROVE  JobsKept
  BY <1>1, <1>3, <1>6, <1>7 DEF CompleteUpload, Complete, IInv, Entered
<1>8. ASSUME NEW c \in Clip, RequestClip(c)
      PROVE  JobsKept
  BY <1>1, <1>3, <1>6, <1>8 DEF RequestClip, CreateClip, IInv, Entered
<1>9. ASSUME NEW a \in Asset, job[a] \in Job, NEW status \in {"QUEUED", "FAILED", "SUCCEEDED"},
             NEW due \in BOOLEAN,
             job' = [job EXCEPT ![a].status = status, ![a].token = 0, ![a].due = due]
      PROVE  JobsKept
  <2> DEFINE new == [job[a] EXCEPT !.status = status, !.token = 0, !.due = due]
  <2>1. job[a] \in Job
    BY <1>9
  <2>2. /\ new \in Job /\ new.attempts = job[a].attempts /\ new.token = 0
    BY <1>5, <2>1 DEF Job
  <2>3. job' = [job EXCEPT ![a] = new]
    BY <1>9
  <2>4. job[a].attempts \in Int /\ 0 <= job[a].attempts
    BY <2>1 DEF Job
  <2> HIDE DEF new
  <2>5. new.token <= new.attempts /\ job[a].attempts <= new.attempts
    BY <2>2, <2>4
  <2> QED BY <1>3, <2>2, <2>3, <2>5
<1>10. ASSUME NEW a \in Asset, job[a] \in Job, NEW due \in BOOLEAN,
              job' = [job EXCEPT ![a].due = due]
       PROVE  JobsKept
  <2> DEFINE new == [job[a] EXCEPT !.due = due]
  <2>1. job[a] \in Job
    BY <1>10
  <2>2. new \in Job /\ new.attempts = job[a].attempts /\ new.token = job[a].token
    BY <2>1 DEF Job
  <2>3. job' = [job EXCEPT ![a] = new]
    BY <1>10
  <2> HIDE DEF new
  <2> QED BY <1>1, <1>2, <1>3, <2>1, <2>2, <2>3 DEF TokensDrawn<1>11. ASSUME NEW a \in Asset, BecomesDue(a)
       PROVE  JobsKept
  <2>1. job[a] \in Job /\ job' = [job EXCEPT ![a].due = TRUE]
    BY <1>1, <1>11 DEF BecomesDue
  <2> QED BY <1>10, <2>1
<1>12. ASSUME NEW a \in Asset, NEW n \in Claim, Renew(a, n)
       PROVE  JobsKept
  <2>1. job[a] \in Job /\ job' = [job EXCEPT ![a].due = FALSE]
    BY <1>12, Claimed DEF Renew, Alive
  <2> QED BY <1>10, <2>1
<1>13. ASSUME NEW a \in Asset, ClaimJob(a)
       PROVE  JobsKept
  <2> DEFINE n == job[a].attempts + 1
             new == [status |-> "RUNNING", attempts |-> n, token |-> n, due |-> FALSE]
  <2>1. job[a] \in Job /\ job[a].attempts < MaxAttempts
    BY <1>1, <1>13 DEF ClaimJob, Claimable
  <2>2. job[a].attempts \in 0 .. MaxAttempts
    BY <2>1 DEF Job
  <2>3. n \in 0 .. MaxAttempts /\ n <= n /\ job[a].attempts <= n
    BY <1>5, <2>1, <2>2
  <2>4. job' = [job EXCEPT ![a] = new]
    BY <1>13 DEF ClaimJob
  <2> HIDE DEF n
  <2>5. new \in Job /\ new.attempts = n /\ new.token = n
    BY <2>3 DEF Job
  <2> HIDE DEF new
  <2> QED BY <1>3, <2>3, <2>4, <2>5
<1>14. ASSUME NEW a \in Asset, job[a] \in Job, NEW status \in {"FAILED", "SUCCEEDED"},
              job' = [job EXCEPT ![a].status = status, ![a].token = 0]
       PROVE  JobsKept
  <2>1. job[a].due \in BOOLEAN
    BY <1>14 DEF Job
  <2>2. job' = [job EXCEPT ![a].status = status, ![a].token = 0, ![a].due = job[a].due]
    BY <1>14 DEF Job
  <2> QED BY <1>9, <1>14, <2>1, <2>2
<1>15. ASSUME NEW a \in Asset, NEW n \in Claim, Finalize(a, n)
       PROVE  JobsKept
  <2>1. job[a] \in Job
    BY <1>15, Claimed DEF Finalize, At
  <2>2. UNCHANGED job \/ job' = [job EXCEPT ![a].status = "SUCCEEDED", ![a].token = 0]
    BY <1>15 DEF Finalize
  <2> QED BY <1>4, <1>14, <2>1, <2>2
<1>16. ASSUME NEW a \in Asset, NEW n \in Claim, FailUpload(a, n) \/ FailClip(a, n)
       PROVE  JobsKept
  <2>1. job[a] \in Job
    BY <1>16, Claimed DEF FailUpload, FailClip, At
  <2>2. \/ UNCHANGED job \/ job' = [job EXCEPT ![a].status = "FAILED", ![a].token = 0]
        \/ job' = [job EXCEPT ![a].status = "QUEUED", ![a].token = 0, ![a].due = FALSE]
    BY <1>16 DEF FailUpload, FailClip, FinishFailed
  <2> QED BY <1>4, <1>9, <1>14, <2>1, <2>2
<1> QED BY <1>4, <1>7, <1>8, <1>11, <1>12, <1>13, <1>15, <1>16, JobWriters
(***************************************************************************)
(* What a step does to the claims, to an asset and to the tasks.           *)
(***************************************************************************)

To(a, n, at) == run'[a][n].at = at /\ run'[a][n].bytes = run[a][n].bytes

\* The ways a claim goes on, with the step that takes it there.
Moves(a, n) ==
  \/ ClaimJob(a) /\ At(a, n, "none") /\ n = job[a].attempts + 1 /\ To(a, n, "claimed")
  \/ /\ Assemble(a, n) /\ At(a, n, "claimed") /\ run'[a][n].at = "assembled"
     /\ a \in Upload => run'[a][n].bytes = receipts[a]
  \/ Assemble(a, n) /\ At(a, n, "claimed") /\ To(a, n, "failing")
  \/ Produce(a, n) /\ At(a, n, "assembled") /\ To(a, n, "produced")
  \/ /\ Breaks(a, n) /\ run[a][n].at \in {"claimed", "assembled", "produced"}
     /\ To(a, n, "failing")
  \/ Finalize(a, n) /\ At(a, n, "produced") /\ Holds(a, n) /\ To(a, n, "won")
  \/ /\ Finalize(a, n) /\ At(a, n, "produced") /\ ~Holds(a, n)
     /\ To(a, n, "lost") \/ To(a, n, "failing")
  \/ CollectParts(a, n) /\ At(a, n, "won") /\ To(a, n, "collected")
  \/ /\ Report(a, n) /\ run[a][n].at \in {"won", "collected"}
     /\ To(a, n, "over") \/ To(a, n, "failing")
  \/ DropLost(a, n) /\ At(a, n, "lost") /\ To(a, n, "over")
  \/ FailUpload(a, n) /\ At(a, n, "failing") /\ To(a, n, "cleaned")
  \/ FailUpload(a, n) /\ At(a, n, "cleaned") /\ To(a, n, "failed")
  \/ FailClip(a, n) /\ At(a, n, "failing") /\ To(a, n, "finished")
  \/ FailClip(a, n) /\ At(a, n, "finished") /\ To(a, n, "failed")
  \/ WorkerDies(a, n) /\ Alive(a, n) /\ To(a, n, "dead")

\* A step moves one claim at most.
OneMoves ==
  \/ UNCHANGED run
  \/ \E a \in Asset, n \in Claim :
       /\ Moves(a, n)
       /\ \A b \in Asset, m \in Claim : <<b, m>> # <<a, n>> => run'[b][m] = run[b][m]

\* The claim a worker's step is of is the one it moves.
LEMMA WorkMoves ==
  ASSUME IInv, NEW a \in Asset, NEW n \in Claim,
         \/ Assemble(a, n) \/ Produce(a, n) \/ Finalize(a, n) \/ CollectParts(a, n)
         \/ Report(a, n) \/ DropLost(a, n) \/ FailUpload(a, n) \/ FailClip(a, n)
         \/ Breaks(a, n) \/ WorkerDies(a, n)
  PROVE  /\ Moves(a, n) /\ run' \in [Asset -> [Claim -> Run]]
         /\ \A b \in Asset, m \in Claim : <<b, m>> # <<a, n>> => run'[b][m] = run[b][m]
<1> DEFINE Others == \A b \in Asset, m \in Claim : <<b, m>> # <<a, n>> => run'[b][m] = run[b][m]
           Typed == run' \in [Asset -> [Claim -> Run]]
<1>1. /\ run \in [Asset -> [Claim -> Run]]
      /\ parts \in [Upload -> [Part -> Content \cup {None}]]
      /\ receipts \in [Upload -> [Part -> Content \cup {None}]]
  BY DEF IInv, TypeOK
<1>2. ASSUME NEW at \in Places, Go(a, n, at)
      PROVE  To(a, n, at) /\ Typed /\ Others
  BY <1>1, <1>2, GoProperty DEF WentOn, To
<1> SUFFICES Moves(a, n) /\ Typed /\ Others
  OBVIOUS
<1> HIDE DEF Others, Typed
<1>3. ASSUME Assemble(a, n)
      PROVE  Moves(a, n) /\ Typed /\ Others
  <2>1. CASE a \in Upload /\ Assembled(a)
             /\ run' = [run EXCEPT ![a][n] = [at |-> "assembled", bytes |-> parts[a]]]
    BY <1>1, <1>3, <2>1, AssembledProperty DEF Assemble, Moves, Others, Typed
  <2>2. CASE Go(a, n, "failing")
    BY <1>2, <1>3, <2>2 DEF Assemble, Moves, Places
  <2>3. CASE a \in Clip /\ Go(a, n, "assembled")
    <3>1. a \notin Upload
      BY <2>3, MediaAssumption
    <3> QED BY <1>2, <1>3, <2>3, <3>1 DEF Assemble, Moves, Places, To
  <2> QED BY <1>3, <2>1, <2>2, <2>3 DEF Assemble
<1>4. ASSUME Produce(a, n)
      PROVE  Moves(a, n) /\ Typed /\ Others
  BY <1>2, <1>4 DEF Produce, Moves, Places
<1>5. ASSUME Finalize(a, n)
      PROVE  Moves(a, n) /\ Typed /\ Others
  BY <1>2, <1>5 DEF Finalize, Moves, Places
<1>6. ASSUME CollectParts(a, n)
      PROVE  Moves(a, n) /\ Typed /\ Others
  BY <1>2, <1>6 DEF CollectParts, Moves, Places
<1>7. ASSUME Report(a, n)
      PROVE  Moves(a, n) /\ Typed /\ Others
  <2>1. run[a][n].at \in {"won", "collected"}
    BY <1>7 DEF Report, At
  <2>2. Go(a, n, "over") \/ Go(a, n, "failing")
    BY <1>7 DEF Report
  <2> QED BY <1>2, <1>7, <2>1, <2>2 DEF Moves, Places
<1>8. ASSUME DropLost(a, n)
      PROVE  Moves(a, n) /\ Typed /\ Others
  BY <1>2, <1>8 DEF DropLost, Moves, Places
<1>9. ASSUME FailUpload(a, n)
      PROVE  Moves(a, n) /\ Typed /\ Others
  BY <1>2, <1>9 DEF FailUpload, Moves, Places
<1>10. ASSUME FailClip(a, n)
       PROVE  Moves(a, n) /\ Typed /\ Others
  BY <1>2, <1>10 DEF FailClip, Moves, Places
<1>11. ASSUME Breaks(a, n)
       PROVE  Moves(a, n) /\ Typed /\ Others
  BY <1>2, <1>11 DEF Breaks, Moves, Places
<1>12. ASSUME WorkerDies(a, n)
       PROVE  Moves(a, n) /\ Typed /\ Others
  BY <1>2, <1>12 DEF WorkerDies, Moves, Places
<1> QED BY <1>3, <1>4, <1>5, <1>6, <1>7, <1>8, <1>9, <1>10, <1>11, <1>12

LEMMA RunMoves ==
  ASSUME IInv, [Next]_vars
  PROVE  run' \in [Asset -> [Claim -> Run]] /\ OneMoves
<1>1. run \in [Asset -> [Claim -> Run]] /\ job \in [Asset -> Job \cup {None}]
  BY DEF IInv, TypeOK
<1>2. CASE UNCHANGED run
  BY <1>1, <1>2 DEF OneMoves
<1>3. ASSUME NEW a \in Asset, ClaimJob(a)
      PROVE  run' \in [Asset -> [Claim -> Run]] /\ OneMoves
  <2> DEFINE n == job[a].attempts + 1
  <2>1. job[a] \in Job /\ job[a].attempts < MaxAttempts /\ Go(a, n, "claimed")
    BY <1>1, <1>3 DEF ClaimJob, Claimable
  <2>2. MaxAttempts \in Nat /\ job[a].attempts \in 0 .. MaxAttempts
    BY <2>1, MediaAssumption DEF Job
  <2>3. n \in Claim /\ ~(n <= job[a].attempts)
    BY <2>1, <2>2 DEF Claim
  <2>4. n = job[a].attempts + 1
    OBVIOUS
  <2> HIDE DEF n
  <2>5. At(a, n, "none")
    BY <2>3 DEF IInv, Started, At
  <2>6. WentOn(a, n, "claimed")
    BY <1>1, <2>1, <2>3, GoProperty DEF Places
  <2>7. Moves(a, n)
    BY <1>3, <2>4, <2>5, <2>6 DEF Moves, To, WentOn
  <2> QED BY <2>3, <2>6, <2>7 DEF WentOn, OneMoves
<1> QED BY <1>2, <1>3, WorkMoves, RunWriters DEF OneMoves

LEMMA PublishedMoves ==
  ASSUME IInv, [Next]_vars
  PROVE  /\ published' \in [Asset -> 0 .. MaxAttempts]
         /\ \A a \in Asset :
              \/ published'[a] = published[a]
              \/ \E n \in Claim : /\ Finalize(a, n) /\ Holds(a, n) /\ published'[a] = n
                                  /\ published[a] = 0 /\ asset'[a] = "READY"
         /\ \A a \in Asset : published[a] # 0 => published'[a] = published[a]
<1>1. /\ published \in [Asset -> 0 .. MaxAttempts] /\ Claim \subseteq 0 .. MaxAttempts
      /\ asset \in [Asset -> {"none", "UPLOADING", "PROCESSING", "READY", "FAILED",
                              "ARCHIVED", "DELETED"}]
  BY MediaAssumption DEF IInv, TypeOK, Claim
<1>2. CASE UNCHANGED published
  BY <1>1, <1>2
<1>3. ASSUME NEW a \in Asset, NEW n \in Claim, Finalize(a, n), ~UNCHANGED published
      PROVE  /\ published' = [published EXCEPT ![a] = n] /\ asset'[a] = "READY"
             /\ Holds(a, n) /\ published[a] = 0
  BY <1>1, <1>3 DEF Finalize, IInv, Undecided
<1> QED BY <1>1, <1>2, <1>3, PublishedWriters

LEMMA BoundsTyped ==
  ASSUME IInv, [Next]_vars
  PROVE  outages' \in 0 .. MaxOutages /\ crashes' \in 0 .. MaxCrashes
<1>1. /\ outages \in 0 .. MaxOutages /\ crashes \in 0 .. MaxCrashes
      /\ MaxOutages \in Nat /\ MaxCrashes \in Nat
  BY MediaAssumption DEF IInv, TypeOK
<1>2. UNCHANGED outages \/ StorageFails
  BY OutagesWriters DEF CollectParts, DropLost, FailUpload, FailClip, Cleaned, Collect,
                        StorageWorks
<1>3. UNCHANGED crashes \/ Dies
  BY CrashesWriters DEF PassDies, WritePart, Report, WorkerDies
<1> QED BY <1>1, <1>2, <1>3 DEF StorageFails, Dies

LEMMA TypeStep ==
  ASSUME IInv, [Next]_vars
  PROVE  TypeOK'
BY SessionTyped, AssetTyped, KeptTyped, StorageTyped, TasksTyped, PassTyped, JobsTyped,
   RunMoves, PublishedMoves, BoundsTyped DEF TypeOK, TasksKept, JobsKept
\* What has happened to a session, an asset and a task stays so.
LEMMA SessionStays ==
  ASSUME IInv, [Next]_vars, NEW u \in Upload
  PROVE  /\ session[u] = "COMPLETE" => session'[u] = "COMPLETE"
         /\ GivenUp(u) => GivenUp(u)'
         /\ session'[u] = "COMPLETE" => session[u] = "COMPLETE" \/ CompleteUpload(u)
<1>1. session \in [Upload -> {"none", "INITIATED", "UPLOADING", "COMPLETE",
                              "ABORTED", "EXPIRED"}]
  BY DEF IInv, TypeOK
<1>2. CASE UNCHANGED session
  BY <1>2 DEF GivenUp
<1>3. CASE BeginPass
  BY <1>1, <1>3 DEF BeginPass, GivenUp
<1>4. ASSUME NEW v \in Upload, Initiate(v)
      PROVE  session' = [session EXCEPT ![v] = "INITIATED"] /\ session[v] = "none"
  BY <1>4 DEF Initiate
<1>5. ASSUME NEW v \in Upload, CompleteUpload(v)
      PROVE  /\ session' = [session EXCEPT ![v] = "COMPLETE"]
             /\ session[v] \in {"INITIATED", "UPLOADING"}
  BY <1>5 DEF CompleteUpload, Complete, Active
<1>6. ASSUME NEW v \in Upload, Abort(v)
      PROVE  /\ session' = [session EXCEPT ![v] = "ABORTED"]
             /\ session[v] # "COMPLETE"
  BY <1>6 DEF Abort, Abortable
<1>7. ASSUME NEW v \in Upload, NEW p \in Part, NEW content \in Content,
             WritePart(v, p, content)
      PROVE  /\ UNCHANGED session \/ session' = [session EXCEPT ![v] = "UPLOADING"]
             /\ session[v] \in {"INITIATED", "UPLOADING"}
  BY <1>7 DEF WritePart, Active
<1> QED BY <1>1, <1>2, <1>3, <1>4, <1>5, <1>6, <1>7, SessionWriters DEF GivenUp

\* The ways the status of an asset changes.
LEMMA AssetMoves ==
  ASSUME IInv, [Next]_vars, NEW a \in Asset
  PROVE  \/ asset'[a] = asset[a]
         \/ a \in Upload /\ Initiate(a) /\ session[a] = "none" /\ asset'[a] = "UPLOADING"
         \/ /\ (a \in Upload /\ CompleteUpload(a)) \/ (a \in Clip /\ RequestClip(a))
            /\ asset[a] \in {"none", "UPLOADING"} /\ asset'[a] = "PROCESSING"
         \/ asset'[a] \in {"ARCHIVED", "DELETED"}
         \/ kept[a] # None /\ asset'[a] = kept[a]
         \/ asset[a] = "PROCESSING" /\ asset'[a] = "FAILED"
         \/ /\ asset[a] = "PROCESSING" /\ asset'[a] = "READY"
            /\ \E n \in Claim : published'[a] = n
<1>1. /\ asset \in [Asset -> {"none", "UPLOADING", "PROCESSING", "READY", "FAILED",
                              "ARCHIVED", "DELETED"}]
      /\ published \in [Asset -> 0 .. MaxAttempts]
      /\ Upload \subseteq Asset /\ Clip \subseteq Asset
  BY DEF IInv, TypeOK, Asset
<1>2. CASE UNCHANGED asset
  BY <1>2
<1>3. CASE Release
  BY <1>1, <1>3 DEF Release
<1>4. ASSUME NEW u \in Upload, Initiate(u)
      PROVE  session[u] = "none" /\ asset' = [asset EXCEPT ![u] = "UPLOADING"]
  BY <1>4 DEF Initiate
<1>5. ASSUME NEW u \in Upload, CompleteUpload(u)
      PROVE  asset[u] = "UPLOADING" /\ asset' = [asset EXCEPT ![u] = "PROCESSING"]
  BY <1>5 DEF CompleteUpload, Complete
<1>6. ASSUME NEW c \in Clip, RequestClip(c)
      PROVE  asset[c] = "none" /\ asset' = [asset EXCEPT ![c] = "PROCESSING"]
  BY <1>6 DEF RequestClip, CreateClip
<1>7. ASSUME NEW u \in Upload, Abort(u) \/ ArchiveExpired(u)
      PROVE  asset'[a] = asset[a] \/ asset'[a] = "ARCHIVED"
  BY <1>1, <1>7 DEF Abort, ArchiveExpired
<1>8. ASSUME NEW b \in Asset, Archive(b) \/ Restore(b)
      PROVE  \/ asset'[a] = asset[a] \/ asset'[a] = "ARCHIVED"
             \/ kept[a] # None /\ asset'[a] = kept[a]
  BY <1>1, <1>8 DEF Archive, Restore
<1>9. ASSUME NEW b \in Asset, NEW n \in Claim, Finalize(b, n)
      PROVE  \/ asset'[a] = asset[a]
             \/ /\ asset[a] = "PROCESSING" /\ asset'[a] = "READY"
                /\ \E m \in Claim : published'[a] = m
  BY <1>1, <1>9 DEF Finalize
<1>10. ASSUME NEW b \in Asset, NEW n \in Claim, FailUpload(b, n) \/ FailClip(b, n)
       PROVE  asset'[a] = asset[a] \/ (asset[a] = "PROCESSING" /\ asset'[a] = "FAILED")
  <2>1. \/ UNCHANGED asset
        \/ asset' = [asset EXCEPT ![b] = IF @ = "PROCESSING" THEN "FAILED" ELSE @]
    BY <1>10 DEF FailUpload, FailClip, FinishFailed
  <2> QED BY <1>1, <2>1
<1>11. ASSUME NEW u \in Upload, Initiate(u) \/ CompleteUpload(u)
       PROVE  asset'[a] = asset[a] \/ a = u
  BY <1>1, <1>4, <1>5, <1>11
<1>12. ASSUME NEW c \in Clip, RequestClip(c)
       PROVE  asset'[a] = asset[a] \/ a = c
  BY <1>1, <1>6, <1>12
<1> QED BY <1>1, <1>2, <1>3, <1>4, <1>5, <1>6, <1>7, <1>8, <1>9, <1>10, <1>11, <1>12,
           AssetWriters

LEMMA TaskStays ==
  ASSUME IInv, [Next]_vars
  PROVE  \A x \in Prefix : gc[x] # None => gc'[x] # None
BY TasksTyped, NullAssumption DEF TasksKept

\* The steps that schedule a task, and for which prefix.
LEMMA NewTask ==
  ASSUME IInv, [Next]_vars, NEW x \in Prefix, gc[x] = None, gc'[x] # None
  PROVE  \/ \E u \in Upload : x = PartsOf(u) /\ Abort(u)
         \/ x = PartsOf(pass.upload) /\ ScheduleExpired
         \/ \E u \in Upload, n \in Claim :
              x = PartsOf(u) /\ Finalize(u, n) /\ published'[u] = n
         \/ \E a \in Asset, n \in Claim :
              x = OutputOf(a, n) /\ (DropLost(a, n) \/ (FailUpload(a, n) /\ At(a, n, "failing")))
<1>1. /\ gc \in [Prefix -> Task \cup {None}] /\ pass \in Pass
      /\ published \in [Asset -> 0 .. MaxAttempts] /\ Upload \subseteq Asset
  BY DEF IInv, TypeOK, Asset
<1>2. ASSUME NEW y, NEW reason, y \in Prefix, y # x, gc' = Scheduled(gc, y, reason)
      PROVE  FALSE
  BY <1>1, <1>2 DEF Scheduled
<1>3. ASSUME NEW y \in Prefix, NEW status, NEW next, Recorded(y, status, next), gc[y] # None
      PROVE  FALSE
  BY <1>1, <1>3 DEF Recorded
<1>4. ~UNCHANGED gc
  OBVIOUS
<1>5. ASSUME NEW u \in Upload, Abort(u)
      PROVE  x = PartsOf(u)
  BY <1>2, <1>5, PrefixesDiffer DEF Abort
<1>6. ASSUME ScheduleExpired
      PROVE  x = PartsOf(pass.upload)
  <2>1. pass.upload \in Upload
    BY <1>1, <1>6, PassProperty DEF ScheduleExpired
  <2> QED BY <1>2, <1>6, <2>1, PrefixesDiffer DEF ScheduleExpired
<1>7. ASSUME Settle
      PROVE  FALSE
  <2>1. pass.prefix \in Prefix /\ gc[pass.prefix] # None
    BY <1>1, <1>7, PassProperty DEF Settle, IInv, PassKnown
  <2> QED BY <1>3, <1>7, <2>1 DEF Settle
<1>8. ASSUME NEW y \in Prefix, Collect(y)
      PROVE  FALSE
  <2>1. gc[y] # None
    BY <1>1, <1>8, PassProperty DEF Collect, IInv, PassKnown
  <2> QED BY <1>3, <1>4, <1>8, <2>1 DEF Collect
<1>9. ASSUME NEW a \in Asset, NEW n \in Claim, Finalize(a, n)
      PROVE  a \in Upload /\ x = PartsOf(a) /\ published'[a] = n
  <2>1. a \in Upload /\ gc' = Scheduled(gc, PartsOf(a), "processed")
        /\ published' = [published EXCEPT ![a] = n]
    BY <1>4, <1>9 DEF Finalize
  <2> QED BY <1>1, <1>2, <2>1, PrefixesDiffer
<1>10. ASSUME NEW a \in Asset, NEW n \in Claim, CollectParts(a, n)
       PROVE  FALSE
  <2>1. /\ a \in Upload /\ run[a][n].at = "won"
        /\ gc' = [gc EXCEPT ![PartsOf(a)].status = IF @ = "PENDING" THEN "SUCCEEDED" ELSE @]
    BY <1>4, <1>10 DEF CollectParts, At
  <2>2. gc[PartsOf(a)] # None
    BY <1>1, <2>1 DEF IInv, Winner
  <2> QED BY <1>1, <2>1, <2>2
<1>11. ASSUME NEW a \in Asset, NEW n \in Claim, DropLost(a, n) \/ FailUpload(a, n)
       PROVE  x = OutputOf(a, n) /\ (DropLost(a, n) \/ (FailUpload(a, n) /\ At(a, n, "failing")))
  <2>1. /\ gc' = Scheduled(gc, OutputOf(a, n), "failed")
        /\ DropLost(a, n) \/ (FailUpload(a, n) /\ At(a, n, "failing"))
    <3>1. CASE DropLost(a, n)
      BY <1>4, <3>1 DEF DropLost, Cleaned
    <3>2. CASE FailUpload(a, n)
      <4>1. CASE At(a, n, "failing") /\ Cleaned(a, n)
        BY <1>4, <3>2, <4>1 DEF Cleaned
      <4>2. CASE UNCHANGED <<gc, parts, output, outages>>
        BY <1>4, <4>2
      <4> QED BY <3>2, <4>1, <4>2 DEF FailUpload
    <3> QED BY <1>11, <3>1, <3>2
  <2> QED BY <1>2, <2>1, PrefixesDiffer
<1> QED BY <1>4, <1>5, <1>6, <1>7, <1>8, <1>9, <1>10, <1>11, GcWriters
(***************************************************************************)
(* Every step keeps the invariant.                                         *)
(***************************************************************************)

LEMMA EnteredStep ==
  ASSUME IInv, [Next]_vars
  PROVE  Entered'
<1> SUFFICES ASSUME NEW a \in Asset, job'[a] \in Job
             PROVE  /\ asset'[a] \notin {"none", "UPLOADING"}
                    /\ a \in Upload => session'[a] = "COMPLETE"
  BY DEF Entered
<1>1. /\ job \in [Asset -> Job \cup {None}] /\ kept \in [Asset -> {"READY", "FAILED", None}]
      /\ session \in [Upload -> {"none", "INITIATED", "UPLOADING", "COMPLETE",
                                 "ABORTED", "EXPIRED"}]
      /\ asset \in [Asset -> {"none", "UPLOADING", "PROCESSING", "READY", "FAILED",
                              "ARCHIVED", "DELETED"}]
      /\ Upload \subseteq Asset /\ Clip \subseteq Asset /\ Upload \cap Clip = {}
  BY MediaAssumption DEF IInv, TypeOK, Asset
<1>2. CASE job[a] \in Job
  <2>1. asset[a] \notin {"none", "UPLOADING"} /\ (a \in Upload => session[a] = "COMPLETE")
    BY <1>2 DEF IInv, Entered
  <2> QED BY <1>1, <2>1, AssetMoves, SessionStays
<1>3. CASE job[a] \notin Job
  <2>1. job[a] = None /\ job'[a] # job[a]
    BY <1>1, <1>3
  <2>2. ASSUME NEW u \in Upload, CompleteUpload(u)
        PROVE  asset'[a] = "PROCESSING" /\ (a \in Upload => session'[a] = "COMPLETE")
    <3>1. a = u
      BY <1>1, <2>1, <2>2 DEF CompleteUpload
    <3> QED BY <1>1, <2>2, <3>1 DEF CompleteUpload, Complete
  <2>3. ASSUME NEW c \in Clip, RequestClip(c)
        PROVE  asset'[a] = "PROCESSING" /\ a \notin Upload
    <3>1. a = c
      BY <1>1, <2>1, <2>3 DEF RequestClip
    <3> QED BY <1>1, <2>3, <3>1 DEF RequestClip, CreateClip
  <2>4. ASSUME NEW b \in Asset, BecomesDue(b) \/ ClaimJob(b)
        PROVE  FALSE
    BY <1>1, <2>1, <2>4 DEF BecomesDue, ClaimJob, Claimable
  <2>5. ASSUME NEW b \in Asset, NEW n \in Claim,
               Renew(b, n) \/ Finalize(b, n) \/ FailUpload(b, n) \/ FailClip(b, n)
        PROVE  FALSE
    <3>1. job[b] \in Job
      BY <2>5, Claimed DEF Renew, Alive, Finalize, FailUpload, FailClip, At
    <3>2. a # b
      BY <1>3, <3>1
    <3> QED BY <1>1, <2>1, <2>5, <3>2 DEF Renew, Finalize, FailUpload, FailClip, FinishFailed
  <2> QED BY <2>1, <2>2, <2>3, <2>4, <2>5, JobWriters
<1> QED BY <1>2, <1>3

LEMMA StartedStep ==
  ASSUME IInv, [Next]_vars
  PROVE  Started'
<1> SUFFICES ASSUME NEW a \in Asset, NEW n \in Claim, run'[a][n].at # "none"
             PROVE  job'[a] \in Job /\ n <= job'[a].attempts
  BY DEF Started
<1>1. JobsKept /\ job \in [Asset -> Job \cup {None}]
  BY JobsTyped DEF IInv, TypeOK
<1>2. CASE run[a][n].at # "none"
  <2>1. job[a] \in Job /\ n <= job[a].attempts
    BY <1>2 DEF IInv, Started
  <2>2. job'[a] \in Job /\ job[a].attempts <= job'[a].attempts
    BY <1>1, <2>1 DEF JobsKept
  <2>3. n \in Int /\ job[a].attempts \in Int /\ job'[a].attempts \in Int
    BY <2>1, <2>2, ClaimIsNotZero DEF Job
  <2> QED BY <2>1, <2>2, <2>3
<1>3. CASE run[a][n].at = "none"
  <2>1. Moves(a, n)
    BY <1>3, RunMoves DEF OneMoves
  <2>2. ClaimJob(a) /\ n = job[a].attempts + 1
    BY <1>3, <2>1 DEF Moves, At, Alive
  <2>3. job[a] \in Job
    BY <1>1, <2>2 DEF ClaimJob, Claimable
  <2>4. job'[a] \in Job
    BY <1>1, <2>3 DEF JobsKept
  <2>5. job'[a] = [status |-> "RUNNING", attempts |-> n, token |-> n, due |-> FALSE]
    BY <1>1, <2>2 DEF ClaimJob
  <2>6. n <= n
    BY ClaimIsNotZero
  <2> QED BY <2>4, <2>5, <2>6
<1> QED BY <1>2, <1>3

LEMMA PassKnownStep ==
  ASSUME IInv, [Next]_vars
  PROVE  PassKnown'
<1>1. /\ pass \in Pass /\ gc \in [Prefix -> Task \cup {None}] /\ overdue \in SUBSET Upload
      /\ PassKnown
  BY DEF IInv, TypeOK
<1>2. /\ \A u \in Upload : GivenUp(u) => GivenUp(u)'
      /\ \A x \in Prefix : gc[x] # None => gc'[x] # None
  BY SessionStays, TaskStays
<1>3. CASE UNCHANGED pass
  BY <1>1, <1>2, <1>3, PassProperty DEF PassKnown
<1>4. CASE BeginPass
  <2>1. pass'.at = "archive" /\ \A u \in pass'.todo : u \in Upload /\ session'[u] = "EXPIRED"
    BY <1>1, <1>4 DEF BeginPass
  <2> QED BY <2>1 DEF PassKnown, GivenUp
<1>5. ASSUME NEW u \in Upload, ArchiveExpired(u)
      PROVE  PassKnown'
  <2>1. /\ pass' = [at |-> "schedule", todo |-> pass.todo \ {u}, upload |-> u]
        /\ pass.at = "archive" /\ u \in pass.todo /\ pass.todo \in SUBSET Upload
    BY <1>1, <1>5, PassProperty DEF ArchiveExpired
  <2> QED BY <1>1, <1>2, <2>1 DEF PassKnown
<1>6. CASE ScheduleExpired
  <2>1. /\ pass' = [at |-> "archive", todo |-> pass.todo]
        /\ pass.at = "schedule" /\ pass.todo \in SUBSET Upload
    BY <1>1, <1>6, PassProperty DEF ScheduleExpired
  <2> QED BY <1>1, <1>2, <2>1 DEF PassKnown
<1>7. CASE SelectTasks
  BY <1>2, <1>7 DEF SelectTasks, PassKnown
<1>8. ASSUME NEW x \in Prefix, Collect(x)
      PROVE  PassKnown'
  <2>1. pass.todo \in SUBSET Prefix /\ x \in pass.todo /\ gc[x] \in Task /\ gc[x] # None
        /\ \A y \in pass.todo : gc[y] # None
    BY <1>1, <1>8, PassProperty DEF Collect, PassKnown
  <2>2. \/ pass' = [at |-> "settle", todo |-> pass.todo \ {x}, prefix |-> x]
        \/ Recorded(x, "FAILED", [at |-> "collect", todo |-> pass.todo \ {x}])
    BY <1>8 DEF Collect
  <2>3. \/ pass' = [at |-> "settle", todo |-> pass.todo \ {x}, prefix |-> x]
        \/ pass' = [at |-> "collect", todo |-> pass.todo \ {x}] \/ pass' = Idle
    BY <1>1, <2>1, <2>2, RecordedProperty
  <2> QED BY <1>2, <2>1, <2>3 DEF PassKnown, Idle
<1>9. CASE Settle
  <2>1. /\ pass.prefix \in Prefix /\ pass.todo \in SUBSET Prefix
        /\ pass = [at |-> pass.at, todo |-> pass.todo, prefix |-> pass.prefix]
        /\ gc[pass.prefix] \in Task /\ gc[pass.prefix] # None
        /\ \A y \in pass.todo : gc[y] # None
    BY <1>1, <1>9, PassProperty DEF Settle, PassKnown
  <2>2. Recorded(pass.prefix, "SUCCEEDED", [pass EXCEPT !.at = "release"])
    BY <1>9 DEF Settle
  <2>3. pass' = [pass EXCEPT !.at = "release"] \/ pass' = Idle
    BY <1>1, <2>1, <2>2, RecordedProperty
  <2>4. [pass EXCEPT !.at = "release"]
          = [at |-> "release", todo |-> pass.todo, prefix |-> pass.prefix]
    BY <2>1
  <2> QED BY <1>2, <2>1, <2>3, <2>4 DEF PassKnown, Idle
<1>10. CASE Release
  <2>1. /\ pass.todo \in SUBSET Prefix /\ \A y \in pass.todo : gc[y] # None
        /\ pass' = [at |-> "collect", todo |-> pass.todo]
    BY <1>1, <1>10, PassProperty DEF Release, PassKnown
  <2> QED BY <1>2, <2>1 DEF PassKnown
<1>11. CASE EndPass \/ PassDies
  BY <1>11 DEF EndPass, PassDies, PassKnown, Idle
<1> QED BY <1>3, <1>4, <1>5, <1>6, <1>7, <1>8, <1>9, <1>10, <1>11, PassWriters

LEMMA PartsFreedStep ==
  ASSUME IInv, [Next]_vars
  PROVE  PartsFreed'
<1> SUFFICES ASSUME NEW u \in Upload, gc'[PartsOf(u)] # None
             PROVE  GivenUp(u)' \/ published'[u] # 0
  BY DEF PartsFreed
<1>1. u \in Asset /\ PartsOf(u) \in Prefix /\ pass \in Pass
      /\ session \in [Upload -> {"none", "INITIATED", "UPLOADING", "COMPLETE",
                                 "ABORTED", "EXPIRED"}]
  BY PrefixesDiffer DEF Asset, IInv, TypeOK
<1>2. CASE gc[PartsOf(u)] # None
  BY <1>1, <1>2, SessionStays, PublishedMoves DEF IInv, PartsFreed
<1>3. CASE gc[PartsOf(u)] = None
  <2>1. ASSUME Abort(u)
        PROVE  GivenUp(u)'
    BY <1>1, <2>1 DEF Abort, GivenUp
  <2>2. ASSUME PartsOf(u) = PartsOf(pass.upload), ScheduleExpired
        PROVE  GivenUp(u)'
    <3>1. pass.upload \in Upload /\ GivenUp(pass.upload)
      BY <1>1, <2>2, PassProperty DEF ScheduleExpired, IInv, PassKnown
    <3>2. u = pass.upload
      BY <2>2, <3>1, PrefixesDiffer
    <3> QED BY <3>1, <3>2, SessionStays
  <2>3. ASSUME NEW n \in Claim, published'[u] = n
        PROVE  published'[u] # 0
    BY <2>3, ClaimIsNotZero
  <2> QED BY <1>1, <1>3, <2>1, <2>2, <2>3, NewTask, PrefixesDiffer
<1> QED BY <1>2, <1>3
LEMMA UndecidedStep ==
  ASSUME IInv, [Next]_vars
  PROVE  Undecided'
<1> SUFFICES ASSUME NEW a \in Asset, asset'[a] = "PROCESSING"
             PROVE  published'[a] = 0 /\ (a \in Upload => session'[a] = "COMPLETE")
  BY DEF Undecided
<1>1. /\ kept \in [Asset -> {"READY", "FAILED", None}]
      /\ published \in [Asset -> 0 .. MaxAttempts]
      /\ session \in [Upload -> {"none", "INITIATED", "UPLOADING", "COMPLETE",
                                 "ABORTED", "EXPIRED"}]
      /\ Upload \cap Clip = {}
  BY MediaAssumption DEF IInv, TypeOK
<1>2. CASE asset[a] = "PROCESSING"
  <2>1. published[a] = 0 /\ (a \in Upload => session[a] = "COMPLETE")
    BY <1>2 DEF IInv, Undecided
  <2>2. published'[a] = published[a]
    BY PublishedMoves
  <2> QED BY <2>1, <2>2, SessionStays
<1>3. CASE asset[a] # "PROCESSING"
  <2>1. /\ asset[a] \in {"none", "UPLOADING"}
        /\ (a \in Upload /\ CompleteUpload(a)) \/ (a \in Clip /\ RequestClip(a))
    BY <1>1, <1>3, AssetMoves
  <2>2. published[a] = 0
    <3>1. SUFFICES ASSUME published[a] # 0
                   PROVE  FALSE
      OBVIOUS
    <3>2. published[a] \in Claim
      BY <1>1, <3>1, MediaAssumption DEF Claim
    <3>3. run[a][published[a]].at # "none"
      BY <3>2 DEF IInv, Winner
    <3> QED BY <2>1, <3>2, <3>3 DEF IInv, Started, Entered
  <2>3. published'[a] = published[a]
    BY PublishedMoves
  <2>4. a \in Upload => session'[a] = "COMPLETE"
    BY <1>1, <2>1 DEF CompleteUpload, Complete
  <2> QED BY <2>2, <2>3, <2>4
<1> QED BY <1>2, <1>3

LEMMA PlayableWonStep ==
  ASSUME IInv, [Next]_vars
  PROVE  PlayableWon'
<1> SUFFICES ASSUME NEW a \in Asset, asset'[a] = "READY" \/ kept'[a] = "READY"
             PROVE  published'[a] # 0
  BY DEF PlayableWon, Playable
<1>1. /\ kept \in [Asset -> {"READY", "FAILED", None}] /\ None # "READY"
      /\ published \in [Asset -> 0 .. MaxAttempts]
  BY NullAssumption DEF IInv, TypeOK
<1>2. CASE Playable(a)
  BY <1>2, PublishedMoves DEF IInv, PlayableWon
<1>3. CASE ~Playable(a)
  <2>1. kept'[a] # "READY"
    <3>1. ASSUME NEW b \in Asset, Archive(b) \/ Restore(b)
          PROVE  kept'[a] \in {kept[a], asset[a], None}
      BY <1>1, <3>1 DEF Archive, Restore
    <3> QED BY <1>1, <1>3, <3>1, KeptWriters DEF Playable
  <2>2. PICK n \in Claim : published'[a] = n
    BY <1>1, <1>3, <2>1, AssetMoves DEF Playable
  <2> QED BY <2>2, ClaimIsNotZero
<1> QED BY <1>2, <1>3

LEMMA WinnerStep ==
  ASSUME IInv, [Next]_vars
  PROVE  Winner'
<1> SUFFICES ASSUME NEW a \in Asset, NEW n \in Claim
             PROVE  /\ published'[a] = n =>
                         run'[a][n].at \in {"won", "collected", "failing", "cleaned",
                                            "finished", "over", "failed", "dead"}
                    /\ run'[a][n].at \in {"won", "collected"} =>
                         /\ published'[a] = n
                         /\ a \in Upload => gc'[PartsOf(a)] # None
  BY DEF Winner
<1>1. n # 0 /\ (a \in Upload => PartsOf(a) \in Prefix) /\ published \in [Asset -> 0 .. MaxAttempts]
  BY ClaimIsNotZero, PrefixesDiffer DEF IInv, TypeOK
<1>2. ASSUME published'[a] = n
      PROVE  run'[a][n].at \in {"won", "collected", "failing", "cleaned", "finished", "over",
                                "failed", "dead"}
  <2>1. CASE published[a] = n
    <3>1. run[a][n].at \in {"won", "collected", "failing", "cleaned", "finished", "over",
                            "failed", "dead"}
      BY <2>1 DEF IInv, Winner
    <3> QED BY <3>1, RunMoves DEF OneMoves, Moves, To, At
  <2>2. CASE published[a] # n
    <3>1. PICK m \in Claim : Finalize(a, m) /\ Holds(a, m) /\ published'[a] = m
      BY <1>2, <2>2, PublishedMoves
    <3>2. Moves(a, n) /\ Finalize(a, n) /\ Holds(a, n) /\ m = n
      BY <1>2, <3>1, WorkMoves
    <3>3. Go(a, n, "won")
      BY <3>2 DEF Finalize
    <3>4. run'[a][n].at = "won"
      BY <3>3, GoProperty DEF IInv, TypeOK, Places, WentOn
    <3> QED BY <3>4
  <2> QED BY <2>1, <2>2
<1>3. ASSUME run'[a][n].at \in {"won", "collected"}
      PROVE  published'[a] = n /\ (a \in Upload => gc'[PartsOf(a)] # None)
  <2>1. CASE run[a][n].at \in {"won", "collected"}
    <3>1. published[a] = n /\ (a \in Upload => gc[PartsOf(a)] # None)
      BY <2>1 DEF IInv, Winner
    <3> QED BY <1>1, <3>1, PublishedMoves, TaskStays
  <2>2. CASE run[a][n].at \notin {"won", "collected"}
    <3>1. Moves(a, n)
      BY <1>3, <2>2, RunMoves DEF OneMoves
    <3>2. Finalize(a, n) /\ Holds(a, n)
      BY <1>3, <2>2, <3>1 DEF Moves, To, At
    <3>3. /\ published' = [published EXCEPT ![a] = n]
          /\ gc' = IF a \in Upload THEN Scheduled(gc, PartsOf(a), "processed") ELSE gc
      BY <3>2 DEF Finalize
    <3>4. a \in Upload => gc'[PartsOf(a)] \in Task
      BY <1>1, <3>3, ScheduledProperty DEF IInv, TypeOK
    <3> QED BY <1>1, <3>3, <3>4, NullAssumption
  <2> QED BY <2>1, <2>2
<1> QED BY <1>2, <1>3

LEMMA StoredStep ==
  ASSUME IInv, [Next]_vars
  PROVE  Stored'
<1> SUFFICES ASSUME NEW u \in Upload, NEW n \in Claim,
                    run'[u][n].at \in {"assembled", "produced"} \/ published'[u] = n
             PROVE  run'[u][n].bytes = receipts'[u]
  BY DEF Stored
<1>1. u \in Asset /\ n # 0 /\ receipts \in [Upload -> [Part -> Content \cup {None}]]
  BY ClaimIsNotZero DEF Asset, IInv, TypeOK
<1>2. run'[u][n].at # "none"
  BY <1>1, WinnerStep DEF Winner
<1>3. receipts'[u] = receipts[u]
  <2>1. CASE UNCHANGED receipts
    BY <2>1
  <2>2. ASSUME NEW v \in Upload, NEW p \in Part, NEW content \in Content,
               WritePart(v, p, content)
        PROVE  receipts'[u] = receipts[u]
    <3>1. Entered' /\ Started'
      BY EnteredStep, StartedStep
    <3>2. session'[u] = "COMPLETE"
      BY <1>1, <1>2, <3>1 DEF Entered, Started
    <3>3. session[u] = "COMPLETE" \/ CompleteUpload(u)
      BY <3>2, SessionStays
    <3>4. u # v
      <4>1. session[v] \in {"INITIATED", "UPLOADING"}
            /\ (UNCHANGED session \/ session' = [session EXCEPT ![v] = "UPLOADING"])
        BY <2>2 DEF WritePart, Active
      <4> QED BY <3>2, <4>1 DEF IInv, TypeOK
    <3>5. UNCHANGED receipts \/ receipts' = [receipts EXCEPT ![v][p] = content]
      BY <2>2 DEF WritePart
    <3> QED BY <1>1, <3>4, <3>5
  <2> QED BY <2>1, <2>2, ReceiptsWriters
<1>4. CASE run'[u][n].at \in {"assembled", "produced"}
  <2>1. CASE run[u][n].at \in {"assembled", "produced"}
    <3>1. run[u][n].bytes = receipts[u]
      BY <2>1 DEF IInv, Stored
    <3>2. run'[u][n].bytes = run[u][n].bytes
      BY <1>1, <1>4, <2>1, RunMoves DEF OneMoves, Moves, To, At
    <3> QED BY <1>3, <3>1, <3>2
  <2>2. CASE run[u][n].at \notin {"assembled", "produced"}
    <3>1. Moves(u, n)
      BY <1>1, <1>4, <2>2, RunMoves DEF OneMoves
    <3>2. run'[u][n].bytes = receipts[u]
      BY <1>4, <2>2, <3>1 DEF Moves, To, At
    <3> QED BY <1>3, <3>2
  <2> QED BY <2>1, <2>2
<1>5. CASE published'[u] = n
  <2>1. published[u] = n \/ run[u][n].at = "produced"
    <3>1. ASSUME published[u] # n
          PROVE  run[u][n].at = "produced"
      BY <1>1, <1>5, <3>1, PublishedMoves DEF Finalize, At
    <3> QED BY <3>1
  <2>2. run[u][n].bytes = receipts[u]
    BY <2>1 DEF IInv, Stored
  <2>3. run[u][n].at # "claimed"
    BY <1>1, <2>1 DEF IInv, Winner
  <2>4. run'[u][n].bytes = run[u][n].bytes
    BY <1>1, <2>3, RunMoves DEF OneMoves, Moves, To, At
  <2> QED BY <1>3, <2>2, <2>4
<1> QED BY <1>4, <1>5
LEMMA UntouchedStep ==
  ASSUME IInv, [Next]_vars
  PROVE  Untouched'
<1> SUFFICES ASSUME NEW a \in Asset, NEW n \in Claim, gc'[OutputOf(a, n)] # None
             PROVE  \/ run'[a][n].at \in {"cleaned", "failed", "dead"}
                    \/ run'[a][n].at = "over" /\ published'[a] # n
  BY DEF Untouched
<1>1. OutputOf(a, n) \in Prefix /\ pass \in Pass
  BY PrefixesDiffer DEF IInv, TypeOK
<1>2. CASE gc[OutputOf(a, n)] # None
  <2>1. \/ run[a][n].at \in {"cleaned", "failed", "dead"}
        \/ run[a][n].at = "over" /\ published[a] # n
    BY <1>2 DEF IInv, Untouched
  <2>2. CASE run[a][n].at \in {"cleaned", "failed", "dead"}
    BY <2>2, RunMoves DEF OneMoves, Moves, To, At, Alive
  <2>3. CASE run[a][n].at = "over" /\ published[a] # n
    <3>1. run'[a][n] = run[a][n]
      BY <2>3, RunMoves DEF OneMoves, Moves, At, Alive
    <3>2. published'[a] # n
      BY <2>3, PublishedMoves DEF Finalize, At
    <3> QED BY <2>3, <3>1, <3>2
  <2> QED BY <2>1, <2>2, <2>3
<1>3. CASE gc[OutputOf(a, n)] = None
  <2>1. /\ \A u \in Upload : OutputOf(a, n) # PartsOf(u)
        /\ ~(OutputOf(a, n) = PartsOf(pass.upload) /\ ScheduleExpired)
    <3>1. ScheduleExpired => pass.upload \in Upload
      BY <1>1, PassProperty DEF ScheduleExpired
    <3> QED BY <3>1, PrefixesDiffer
  <2>2. \E b \in Asset, m \in Claim :
          /\ OutputOf(a, n) = OutputOf(b, m)
          /\ DropLost(b, m) \/ (FailUpload(b, m) /\ At(b, m, "failing"))
    BY <1>1, <1>3, <2>1, NewTask
  <2>3. DropLost(a, n) \/ (FailUpload(a, n) /\ At(a, n, "failing"))
    BY <2>2, PrefixesDiffer
  <2>4. CASE DropLost(a, n)
    <3>1. Go(a, n, "over") /\ At(a, n, "lost") /\ UNCHANGED published
      BY <2>4 DEF DropLost
    <3>2. run'[a][n].at = "over"
      BY <3>1, GoProperty DEF IInv, TypeOK, Places, WentOn
    <3>3. published[a] # n
      BY <3>1 DEF IInv, Winner, At
    <3> QED BY <3>1, <3>2, <3>3
  <2>5. CASE FailUpload(a, n) /\ At(a, n, "failing")
    <3>1. Go(a, n, "cleaned")
      BY <2>5 DEF FailUpload, At
    <3> QED BY <3>1, GoProperty DEF IInv, TypeOK, Places, WentOn
  <2> QED BY <2>3, <2>4, <2>5
<1> QED BY <1>2, <1>3

\* What is taken out of the store: the output of a claim that lost, of one that failed,
\* and what the pass finds scheduled.
LEMMA OutputMoves ==
  ASSUME IInv, [Next]_vars, NEW a \in Asset, NEW n \in Claim, n \in output[a],
         n \notin output'[a]
  PROVE  \/ DropLost(a, n) \/ FailUpload(a, n) \/ (FailClip(a, n) /\ At(a, n, "finished"))
         \/ gc[OutputOf(a, n)] # None
<1>1. output \in [Asset -> SUBSET Claim] /\ pass \in Pass /\ 0 \notin Claim
  BY ClaimIsNotZero DEF IInv, TypeOK
<1>2. ASSUME NEW b \in Asset, NEW m \in Claim, RemoveOutput(b, m)
      PROVE  b = a /\ m = n
  BY <1>1, <1>2 DEF RemoveOutput
<1>3. ASSUME NEW b \in Asset, NEW m \in Claim, Produce(b, m)
      PROVE  FALSE
  BY <1>1, <1>3 DEF Produce
<1>4. ASSUME NEW b \in Asset, NEW m \in Claim, DropLost(b, m) \/ FailUpload(b, m)
      PROVE  b = a /\ m = n
  <2>1. RemoveOutput(b, m)
    BY <1>4 DEF DropLost, FailUpload, Cleaned
  <2> QED BY <1>2, <2>1
<1>5. ASSUME NEW b \in Asset, NEW m \in Claim, FailClip(b, m)
      PROVE  b = a /\ m = n /\ At(b, m, "finished")
  <2>1. RemoveOutput(b, m) /\ At(b, m, "finished")
    BY <1>5 DEF FailClip
  <2> QED BY <1>2, <2>1
<1>6. ASSUME NEW x \in Prefix, Collect(x)
      PROVE  gc[OutputOf(a, n)] # None
  <2>1. gc[x] # None
    BY <1>1, <1>6, PassProperty DEF Collect, IInv, PassKnown
  <2>2. x[2] # 0 /\ RemoveOutput(x[1], x[2])
    BY <1>6 DEF Collect, RemovePrefix, RemoveParts
  <2>3. PICK b \in Asset, m \in Claim : x = OutputOf(b, m) /\ x[1] = b /\ x[2] = m
    BY <2>2, PrefixProperty
  <2> QED BY <1>2, <2>1, <2>2, <2>3
<1> QED BY <1>3, <1>4, <1>5, <1>6, OutputWriters

LEMMA OutputKeptStep ==
  ASSUME IInv, [Next]_vars
  PROVE  OutputKept'
<1> SUFFICES ASSUME NEW a \in Asset, NEW n \in Claim,
                    \/ run'[a][n].at = "produced"
                    \/ /\ published'[a] = n
                       /\ run'[a][n].at \in {"won", "collected", "failing", "over"}
             PROVE  n \in output'[a]
  BY DEF OutputKept
<1>1. output \in [Asset -> SUBSET Claim] /\ n # 0
  BY ClaimIsNotZero DEF IInv, TypeOK
<1>2. \/ run[a][n].at = "produced"
      \/ published[a] = n /\ run[a][n].at \in {"won", "collected", "failing", "over"}
      \/ Produce(a, n)
  <2>1. CASE run'[a][n].at = "produced"
    BY <2>1, RunMoves DEF OneMoves, Moves, To, At
  <2>2. CASE published'[a] = n /\ run'[a][n].at \in {"won", "collected", "failing", "over"}
    <3>1. CASE published[a] # n
      BY <2>2, <3>1, PublishedMoves DEF Finalize, At
    <3>2. CASE published[a] = n
      <4>1. run[a][n].at \in {"won", "collected", "failing", "cleaned", "finished", "over",
                              "failed", "dead"}
        BY <3>2 DEF IInv, Winner
      <4> QED BY <2>2, <3>2, <4>1, RunMoves DEF OneMoves, Moves, To, At, Alive
    <3> QED BY <3>1, <3>2
  <2> QED BY <2>1, <2>2
<1>3. CASE Produce(a, n)
  <2>1. output' = [output EXCEPT ![a] = @ \cup {n}]
    BY <1>3 DEF Produce, ClaimPrefix, OutputOf
  <2> QED BY <1>1, <2>1
<1>4. CASE \/ run[a][n].at = "produced"
           \/ published[a] = n /\ run[a][n].at \in {"won", "collected", "failing", "over"}
  <2>1. n \in output[a]
    BY <1>4 DEF IInv, OutputKept
  <2>2. SUFFICES ASSUME n \notin output'[a]
                 PROVE  FALSE
    OBVIOUS
  <2>3. gc[OutputOf(a, n)] = None
    BY <1>4 DEF IInv, Untouched
  <2>4. ~DropLost(a, n)
    BY <1>4 DEF DropLost, At, IInv, Winner
  <2>5. ~FailUpload(a, n)
    <3>1. SUFFICES ASSUME FailUpload(a, n)
                   PROVE  FALSE
      OBVIOUS
    <3>2. run[a][n].at = "failing" /\ Go(a, n, "cleaned")
      BY <1>4, <3>1 DEF FailUpload, At
    <3>3. run'[a][n].at = "cleaned"
      BY <3>2, GoProperty DEF IInv, TypeOK, Places, WentOn
    <3> QED BY <3>3
  <2>6. ~At(a, n, "finished")
    BY <1>4 DEF At
  <2> QED BY <2>1, <2>2, <2>3, <2>4, <2>5, <2>6, OutputMoves
<1> QED BY <1>2, <1>3, <1>4

LEMMA PartsKeptStep ==
  ASSUME IInv, [Next]_vars
  PROVE  PartsKept'
<1> SUFFICES ASSUME NEW u \in Upload, asset'[u] = "PROCESSING", NEW p \in Part
             PROVE  parts'[u][p] # None
  BY DEF PartsKept
<1>1. /\ parts \in [Upload -> [Part -> Content \cup {None}]] /\ None \notin Content
      /\ flying \in [Upload -> (Part \X Content) \cup {None}]
      /\ kept \in [Asset -> {"READY", "FAILED", None}] /\ pass \in Pass /\ u \in Asset
      /\ Upload \cap Clip = {}
  BY NullAssumption, MediaAssumption DEF Asset, IInv, TypeOK
<1>2. CASE asset[u] # "PROCESSING"
  <2>1. CompleteUpload(u)
    BY <1>1, <1>2, AssetMoves
  <2> QED BY <2>1 DEF CompleteUpload, Complete, Verified, storage
<1>3. CASE asset[u] = "PROCESSING"
  <2>1. parts[u][p] # None /\ published[u] = 0 /\ session[u] = "COMPLETE"
    BY <1>1, <1>3 DEF IInv, PartsKept, Undecided
  <2>2. gc[PartsOf(u)] = None
    BY <2>1 DEF IInv, PartsFreed, GivenUp
  <2>3. CASE UNCHANGED parts
    BY <2>1, <2>3
  <2>4. ASSUME NEW v, v # u, RemoveParts(v)
        PROVE  parts'[u][p] # None
    BY <1>1, <2>1, <2>4 DEF RemoveParts
  <2>5. ASSUME NEW v \in Upload, NEW q, NEW content \in Content,
               parts' = [parts EXCEPT ![v][q] = content]
        PROVE  parts'[u][p] # None
    <3>1. CASE v = u /\ q = p
      BY <1>1, <2>5, <3>1
    <3>2. CASE v = u /\ q # p
      BY <1>1, <2>1, <2>5, <3>2
    <3>3. CASE v # u
      BY <1>1, <2>1, <2>5, <3>3
    <3> QED BY <3>1, <3>2, <3>3
  <2>6. ASSUME NEW v \in Upload, LandPut(v)
        PROVE  parts'[u][p] # None
    <3>1. flying[v] \in Part \X Content
      BY <1>1, <2>6 DEF LandPut
    <3>2. flying[v][2] \in Content /\ parts' = [parts EXCEPT ![v][flying[v][1]] = flying[v][2]]
      BY <2>6, <3>1 DEF LandPut
    <3> QED BY <2>5, <3>2
  <2>7. ASSUME NEW v \in Upload, NEW q \in Part, NEW content \in Content,
               WritePart(v, q, content)
        PROVE  parts'[u][p] # None
    <3>1. UNCHANGED parts \/ parts' = [parts EXCEPT ![v][q] = content]
      BY <2>7 DEF WritePart, Put
    <3> QED BY <2>3, <2>5, <3>1
  <2>8. ASSUME NEW a \in Asset, NEW n \in Claim, CollectParts(a, n)
        PROVE  parts'[u][p] # None
    <3>1. run[a][n].at = "won" /\ (RemoveParts(a) \/ UNCHANGED parts)
      BY <2>8 DEF CollectParts, At
    <3>2. a # u
      BY <2>1, <3>1, ClaimIsNotZero DEF IInv, Winner
    <3> QED BY <2>3, <2>4, <3>1, <3>2
  <2>9. ASSUME NEW x \in Prefix, Collect(x)
        PROVE  parts'[u][p] # None
    <3>1. gc[x] # None
      BY <1>1, <2>9, PassProperty DEF Collect, IInv, PassKnown
    <3>2. \/ UNCHANGED parts
          \/ x[2] = 0 /\ RemoveParts(x[1])
      BY <2>9 DEF Collect, RemovePrefix, RemoveOutput
    <3>3. x[2] = 0 => x[1] # u
      BY <2>2, <3>1, PrefixProperty
    <3> QED BY <2>3, <2>4, <3>2, <3>3
  <2> QED BY <2>3, <2>6, <2>7, <2>8, <2>9, PartsWriters
<1> QED BY <1>2, <1>3
LEMMA InitIInv ==
  ASSUME Init
  PROVE  IInv
<1> USE DEF Init, UploadInit
<1>1. /\ MaxAttempts \in Nat \ {0} /\ MaxOutages \in Nat /\ MaxCrashes \in Nat
      /\ Upload \subseteq Asset /\ 0 \notin Claim
  BY MediaAssumption, ClaimIsNotZero DEF Asset
<1>2. NoParts \in [Part -> Content \cup {None}] /\ Fresh \in Run
  BY DEF NoParts, Fresh, Run
<1>3. /\ session \in [Upload -> {"none", "INITIATED", "UPLOADING", "COMPLETE", "ABORTED",
                                 "EXPIRED"}]
      /\ overdue \in SUBSET Upload /\ kept \in [Asset -> {"READY", "FAILED", None}]
      /\ asset \in [Asset -> {"none", "UPLOADING", "PROCESSING", "READY", "FAILED",
                              "ARCHIVED", "DELETED"}]
  OBVIOUS
<1>4. /\ receipts \in [Upload -> [Part -> Content \cup {None}]]
      /\ parts \in [Upload -> [Part -> Content \cup {None}]]
      /\ flying \in [Upload -> (Part \X Content) \cup {None}]
      /\ output \in [Asset -> SUBSET Claim]
  BY <1>2
<1>5. gc \in [Prefix -> Task \cup {None}] /\ pass \in Pass
  BY DEF Pass
<1>6. job \in [Asset -> Job \cup {None}] /\ run \in [Asset -> [Claim -> Run]]
  BY <1>2
<1>7. /\ published \in [Asset -> 0 .. MaxAttempts]
      /\ outages \in 0 .. MaxOutages /\ crashes \in 0 .. MaxCrashes
  BY <1>1
<1>8. TypeOK
  BY <1>3, <1>4, <1>5, <1>6, <1>7 DEF TypeOK
<1>9. \A a \in Asset : job[a] \notin Job
  BY JobAssumption
<1>10. \A a \in Asset, n \in Claim : run[a][n].at = "none" /\ published[a] # n
  BY <1>1 DEF Fresh
<1>11. \A a \in Asset : asset[a] = "none" /\ ~Playable(a)
  BY NullAssumption DEF Playable
<1>12. \A x \in Prefix : gc[x] = None
  OBVIOUS
<1>13. PassKnown /\ PartsFreed /\ Untouched
  BY <1>12, PrefixesDiffer DEF PassKnown, PartsFreed, Untouched, Idle
<1> QED BY <1>1, <1>8, <1>9, <1>10, <1>11, <1>13
        DEF IInv, Entered, Started, TokensDrawn, Undecided, PlayableWon, Winner, Stored,
            OutputKept, PartsKept

THEOREM Invariant == Spec => []IInv
<1>1. Init => IInv
  BY InitIInv
<1>2. IInv /\ [Next]_vars => IInv'
  <2> SUFFICES ASSUME IInv, [Next]_vars
               PROVE  IInv'
    OBVIOUS
  <2> QED BY TypeStep, EnteredStep, StartedStep, JobsTyped, PassKnownStep, PartsFreedStep,
             UndecidedStep, PlayableWonStep, WinnerStep, StoredStep, UntouchedStep,
             OutputKeptStep, PartsKeptStep DEF IInv, JobsKept
<1> QED BY <1>1, <1>2, PTL DEF Spec

(***************************************************************************)
(* The theorems.                                                           *)
(***************************************************************************)

\* Every variable keeps its type: attempts and claim tokens stay within max_attempts,
\* and no task is settled that is not in the table.
THEOREM MediaTypeCorrect == Spec => []TypeOK
<1>1. IInv => TypeOK
  BY DEF IInv
<1> QED BY <1>1, Invariant, PTL

\* The winner of finalizeWinningClaim published its own output, and neither DropLost of
\* a loser, nor a retry, nor the pass removes that: a task for it is scheduled only
\* when its own worker failed after it published.
THEOREM PlayableAlwaysHasObjects == Spec => []PlayableHasObjects
<1>1. ASSUME IInv
      PROVE  PlayableHasObjects
  <2> SUFFICES ASSUME NEW a \in Asset, Playable(a)
               PROVE  /\ published[a] # 0
                      /\ \/ published[a] \in output[a]
                         \/ run[a][published[a]].at \in {"cleaned", "finished", "failed", "dead"}
    BY DEF PlayableHasObjects
  <2>1. published[a] \in 0 .. MaxAttempts /\ published[a] # 0
    BY <1>1 DEF IInv, TypeOK, PlayableWon
  <2>2. published[a] \in Claim
    BY <2>1, MediaAssumption DEF Claim
  <2>3. run[a][published[a]].at \in {"won", "collected", "failing", "cleaned", "finished",
                                     "over", "failed", "dead"}
    BY <1>1, <2>2 DEF IInv, Winner
  <2> QED BY <1>1, <2>1, <2>2, <2>3 DEF IInv, OutputKept
<1> QED BY <1>1, Invariant, PTL

\* What assembleUpload compared with the receipts is what they record for ever: a
\* session that is complete takes no part any more.
THEOREM PlayableAlwaysFromReceipts == Spec => []PlayableFromReceipts
<1>1. ASSUME IInv
      PROVE  PlayableFromReceipts
  <2> SUFFICES ASSUME NEW u \in Upload, Playable(u)
               PROVE  run[u][published[u]].bytes = receipts[u]
    BY DEF PlayableFromReceipts
  <2>1. u \in Asset /\ published[u] \in 0 .. MaxAttempts /\ published[u] # 0
    BY <1>1 DEF Asset, IInv, TypeOK, PlayableWon
  <2>2. published[u] \in Claim
    BY <2>1, MediaAssumption DEF Claim
  <2> QED BY <1>1, <2>2 DEF IInv, Stored
<1> QED BY <1>1, Invariant, PTL

\* Until an upload is published, none of its parts is collected, by a worker or by the
\* pass: only an upload that was given up or published has a task for its parts.
THEOREM PartsAlwaysKept == Spec => []PartsKept
<1>1. IInv => PartsKept
  BY DEF IInv
<1> QED BY <1>1, Invariant, PTL

\* The claim token decides: a worker that does not hold the row changes no job.
THEOREM ClaimAlwaysEndedByHolder == Spec => ClaimEndedByHolder
<1>1. ASSUME IInv, [Next]_vars, NEW a \in Asset, NEW n \in Claim,
             job[a] # None, job[a].token = n, job'[a].token # n
      PROVE  run'[a][n] # run[a][n] \/ (job[a].due /\ job'[a].token > n)
  <2>1. /\ job[a] \in Job /\ n # 0 /\ job \in [Asset -> Job \cup {None}]
        /\ asset[a] \notin {"none", "UPLOADING"}
    BY <1>1, ClaimIsNotZero DEF IInv, TypeOK, Entered
  <2>2. ASSUME NEW b \in Asset, NEW m \in Claim,
               Finalize(b, m) \/ FailUpload(b, m) \/ FailClip(b, m)
        PROVE  run'[a][n] # run[a][n]
    <3>1. job[b] \in Job
      BY <1>1, <2>2, Claimed DEF Finalize, FailUpload, FailClip, At
    <3>2. b = a /\ Holds(b, m)
      BY <1>1, <2>1, <2>2 DEF Finalize, FailUpload, FailClip, FinishFailed
    <3>3. m = n
      BY <1>1, <3>2 DEF Holds
    <3>4. Moves(a, n)
      BY <1>1, <2>2, <3>2, <3>3, WorkMoves
    <3> QED BY <3>4 DEF Moves, At, To, Alive
  <2>3. ASSUME NEW b \in Asset, BecomesDue(b) \/ \E m \in Claim : Renew(b, m)
        PROVE  FALSE
    <3>1. \E due \in BOOLEAN : job' = [job EXCEPT ![b].due = due]
      BY <2>3 DEF BecomesDue, Renew
    <3>2. job'[a].token = job[a].token
      BY <2>1, <3>1 DEF Job
    <3> QED BY <1>1, <3>2
  <2>4. ASSUME NEW b \in Asset, ClaimJob(b)
        PROVE  job[a].due /\ job'[a].token > n
    <3>1. b = a
      BY <1>1, <2>1, <2>4 DEF ClaimJob
    <3>2. job[a].due /\ job'[a].token = job[a].attempts + 1
      BY <2>1, <2>4, <3>1 DEF ClaimJob, Claimable
    <3>3. n <= job[a].attempts /\ n \in Int /\ job[a].attempts \in Int
      BY <1>1, <2>1, ClaimIsNotZero DEF IInv, TokensDrawn, Job
    <3> QED BY <3>2, <3>3
  <2>5. ASSUME NEW u \in Upload, CompleteUpload(u)
        PROVE  FALSE
    BY <1>1, <2>1, <2>5 DEF CompleteUpload, Complete
  <2>6. ASSUME NEW c \in Clip, RequestClip(c)
        PROVE  FALSE
    BY <1>1, <2>1, <2>6 DEF RequestClip, CreateClip
  <2>7. ~UNCHANGED job
    BY <1>1
  <2> QED BY <1>1, <2>2, <2>3, <2>4, <2>5, <2>6, <2>7, JobWriters
<1>2. IInv /\ [Next]_vars =>
        [\A a \in Asset, n \in Claim :
           job[a] # None /\ job[a].token = n /\ job'[a].token # n =>
             run'[a][n] # run[a][n] \/ (job[a].due /\ job'[a].token > n)]_vars
  BY <1>1
<1> QED BY <1>2, Invariant, PTL DEF Spec, ClaimEndedByHolder

\* media_gc_tasks_attempts_check refuses the next UPDATE of the task, ON CONFLICT DO
\* NOTHING leaves it as it is for whoever schedules it again, and CollectParts settles
\* only tasks that are PENDING: a cleanup that used up its attempts is never recorded
\* as done, whatever the store does afterwards.
THEOREM ExhaustedCleanupStays == Spec => ExhaustedForGood
<1>1. ASSUME IInv, [Next]_vars, NEW x \in Prefix, Exhausted(x)
      PROVE  gc'[x] = gc[x]
  <2>1. /\ gc \in [Prefix -> Task \cup {None}] /\ pass \in Pass /\ gc[x] # None
        /\ gc[x].status = "FAILED" /\ gc[x] = [gc[x] EXCEPT !.status = "FAILED"]
        /\ ~(gc[x].attempts < GcAttempts)
    <3>1. gc \in [Prefix -> Task \cup {None}] /\ pass \in Pass /\ gc[x] \in Task
      BY <1>1 DEF IInv, TypeOK, Exhausted
    <3>2. GcAttempts \in Nat
      BY MediaAssumption
    <3> QED BY <1>1, <3>1, <3>2 DEF Exhausted, Task
  <2>2. CASE UNCHANGED gc
    BY <2>2
  <2>3. ASSUME NEW y \in Prefix,
               NEW reason \in {"aborted", "expired", "processed", "failed"},
               gc' = Scheduled(gc, y, reason)
        PROVE  gc'[x] = gc[x]
    BY <2>1, <2>3 DEF Scheduled
  <2>4. ASSUME NEW u \in Upload, Abort(u)
        PROVE  gc'[x] = gc[x]
    BY <2>3, <2>4, PrefixesDiffer DEF Abort
  <2>5. CASE ScheduleExpired
    <3>1. pass.upload \in Upload
      BY <2>1, <2>5, PassProperty DEF ScheduleExpired
    <3> QED BY <2>3, <2>5, <3>1, PrefixesDiffer DEF ScheduleExpired
  <2>6. ASSUME NEW y \in Prefix, NEW status, NEW next, Recorded(y, status, next)
        PROVE  gc'[x] = gc[x]
    <3>1. CASE y = x
      BY <2>1, <2>6, <3>1 DEF Recorded
    <3>2. CASE y # x
      BY <2>1, <2>6, <3>2 DEF Recorded
    <3> QED BY <3>1, <3>2
  <2>7. ASSUME NEW y \in Prefix, Collect(y)
        PROVE  gc'[x] = gc[x]
    BY <2>2, <2>6, <2>7 DEF Collect
  <2>8. CASE Settle
    <3>1. pass.prefix \in Prefix
      BY <2>1, <2>8, PassProperty DEF Settle
    <3> QED BY <2>6, <2>8, <3>1 DEF Settle
  <2>9. ASSUME NEW a \in Asset, NEW n \in Claim, Finalize(a, n)
        PROVE  gc'[x] = gc[x]
    <3>1. UNCHANGED gc \/ (a \in Upload /\ gc' = Scheduled(gc, PartsOf(a), "processed"))
      BY <2>9 DEF Finalize
    <3> QED BY <2>2, <2>3, <3>1, PrefixesDiffer
  <2>10. ASSUME NEW a \in Asset, NEW n \in Claim, CollectParts(a, n)
         PROVE  gc'[x] = gc[x]
    <3>1. \/ UNCHANGED gc
          \/ gc' = [gc EXCEPT ![PartsOf(a)].status = IF @ = "PENDING" THEN "SUCCEEDED" ELSE @]
      BY <2>10 DEF CollectParts
    <3>2. CASE PartsOf(a) = x
      BY <2>1, <3>1, <3>2
    <3>3. CASE PartsOf(a) # x
      BY <2>1, <3>1, <3>3
    <3> QED BY <3>2, <3>3
  <2>11. ASSUME NEW a \in Asset, NEW n \in Claim, DropLost(a, n) \/ FailUpload(a, n)
         PROVE  gc'[x] = gc[x]
    <3>1. UNCHANGED gc \/ gc' = Scheduled(gc, OutputOf(a, n), "failed")
      BY <2>11 DEF DropLost, FailUpload, Cleaned
    <3> QED BY <2>2, <2>3, <3>1, PrefixesDiffer
  <2> QED BY <1>1, <2>2, <2>4, <2>5, <2>7, <2>8, <2>9, <2>10, <2>11, GcWriters
<1>2. IInv /\ [Next]_vars => [\A x \in Prefix : Exhausted(x) => gc'[x] = gc[x]]_vars
  BY <1>1
<1> QED BY <1>2, Invariant, PTL DEF Spec, ExhaustedForGood

(***************************************************************************)
(* The library.                                                            *)
(***************************************************************************)

Status == {"none", "UPLOADING", "PROCESSING", "READY", "FAILED", "ARCHIVED", "DELETED"}

\* Only what is archived remembers what it was, which the table checks too
\* (media_assets_archived_from_status_check): it never refuses a step.
KeptArchived == \A a \in Asset : kept[a] # None => asset[a] = "ARCHIVED"

\* What was submitted has a job, put away or not.
Submitted ==
  \A a \in Asset :
    asset[a] \in {"PROCESSING", "READY", "FAILED"} \/ kept[a] # None => job[a] \in Job

\* An upload has an asset from its first request on.
Opened == \A u \in Upload : session[u] = "none" <=> asset[u] = "none"

\* Only the parts of an upload that nobody will complete are cleaned up as such.
Abandoned(x) == gc[x] # None /\ gc[x].reason \in {"aborted", "expired"}
AbandonedParts ==
  \A x \in Prefix : Abandoned(x) => \E u \in Upload : x = PartsOf(u) /\ GivenUp(u)

\* A clip has no receipts to be made of.
ClipBytes == \A c \in Clip, n \in Claim : run[c][n].bytes = None

LibInv == IInv /\ KeptArchived /\ Submitted /\ Opened /\ AbandonedParts /\ ClipBytes

\* The steps that change an asset's row, and what they leave of the others.
Changes(a) ==
  \/ a \in Upload /\ Initiate(a) /\ asset[a] = "none" /\ asset'[a] = "UPLOADING"
  \/ /\ a \in Upload /\ CompleteUpload(a)
     /\ asset[a] = "UPLOADING" /\ asset'[a] = "PROCESSING"
  \/ a \in Clip /\ RequestClip(a) /\ asset[a] = "none" /\ asset'[a] = "PROCESSING"
  \/ /\ a \in Upload /\ (Abort(a) \/ ArchiveExpired(a))
     /\ asset[a] = "UPLOADING" /\ asset'[a] = "ARCHIVED"
  \/ Release /\ asset[a] = "ARCHIVED" /\ kept[a] = None /\ asset'[a] = "DELETED"
  \/ /\ Archive(a) /\ asset[a] \in {"READY", "FAILED"}
     /\ asset'[a] = "ARCHIVED" /\ kept'[a] = asset[a]
  \/ Restore(a) /\ asset[a] = "ARCHIVED" /\ kept[a] # None
     /\ asset'[a] = kept[a] /\ kept'[a] = None
  \/ /\ asset[a] = "PROCESSING" /\ asset'[a] = "READY"
     /\ \E n \in Claim : Finalize(a, n) /\ Holds(a, n) /\ published' = [published EXCEPT ![a] = n]
  \/ /\ asset[a] = "PROCESSING" /\ asset'[a] = "FAILED"
     /\ \E n \in Claim : FailUpload(a, n) \/ FailClip(a, n)

Alone(a) ==
  /\ \A b \in Asset : b # a => asset'[b] = asset[b] /\ kept'[b] = kept[b]
  /\ UNCHANGED kept \/ Archive(a) \/ Restore(a)

LEMMA KeptMoves ==
  ASSUME LibInv, [Next]_vars, NEW a \in Asset, asset'[a] = asset[a]
  PROVE  kept'[a] = kept[a]
<1>1. /\ asset \in [Asset -> Status] /\ kept \in [Asset -> {"READY", "FAILED", None}]
      /\ None \notin {"READY", "FAILED"}
  BY NullAssumption DEF LibInv, IInv, TypeOK, Status
<1>2. ASSUME NEW b \in Asset, Archive(b) \/ Restore(b)
      PROVE  b # a /\ kept'[a] = kept[a]
  <2>1. b # a
    BY <1>1, <1>2 DEF Archive, Restore
  <2>2. \E k : kept' = [kept EXCEPT ![b] = k]
    BY <1>2 DEF Archive, Restore
  <2> QED BY <1>1, <2>1, <2>2
<1> QED BY <1>2, KeptWriters

LEMMA AssetChanges ==
  ASSUME LibInv, [Next]_vars, ~UNCHANGED asset
  PROVE  \E a \in Asset : Changes(a) /\ Alone(a)
<1>1. /\ asset \in [Asset -> Status] /\ kept \in [Asset -> {"READY", "FAILED", None}]
      /\ None \notin {"READY", "FAILED"} /\ Upload \subseteq Asset /\ Clip \subseteq Asset
      /\ Upload \cap Clip = {} /\ pass \in Pass
      /\ session \in [Upload -> {"none", "INITIATED", "UPLOADING", "COMPLETE",
                                 "ABORTED", "EXPIRED"}]
  BY NullAssumption, MediaAssumption DEF LibInv, IInv, TypeOK, Asset, Status
<1>2. ASSUME NEW a \in Asset, NEW s, asset' = [asset EXCEPT ![a] = s],
             UNCHANGED kept \/ Archive(a) \/ Restore(a)
      PROVE  asset'[a] = s /\ asset'[a] # asset[a] /\ Alone(a)
  <2>1. \A b \in Asset : b # a => asset'[b] = asset[b]
    BY <1>1, <1>2
  <2>2. asset'[a] = s /\ asset'[a] # asset[a]
    BY <1>1, <1>2
  <2>3. \A b \in Asset : b # a => kept'[b] = kept[b]
    BY <2>1, KeptMoves
  <2> QED BY <1>2, <2>1, <2>2, <2>3 DEF Alone
<1>3. CASE Release
  <2>1. pass.prefix \in Prefix /\ gc[pass.prefix] # None
    BY <1>1, <1>3, PassProperty DEF Release, LibInv, IInv, PassKnown
  <2>2. asset' = [asset EXCEPT ![pass.prefix[1]] = "DELETED"] /\ asset[pass.prefix[1]] = "ARCHIVED"
        /\ gc[pass.prefix].reason \in {"aborted", "expired"} /\ UNCHANGED kept
    <3>1. asset' = [asset EXCEPT ![pass.prefix[1]] = @] => UNCHANGED asset
      BY <1>1
    <3> QED BY <1>3, <3>1 DEF Release
  <2>3. PICK u \in Upload : pass.prefix = PartsOf(u) /\ GivenUp(u)
    BY <2>1, <2>2 DEF LibInv, AbandonedParts, Abandoned
  <2>4. pass.prefix[1] = u
    BY <2>3 DEF PartsOf
  <2>5. kept[u] = None
    BY <1>1, <2>3 DEF LibInv, IInv, Submitted, Entered, GivenUp
  <2>6. asset'[u] = "DELETED" /\ Alone(u)
    BY <1>1, <1>2, <2>2, <2>4
  <2> QED BY <1>1, <1>3, <2>2, <2>4, <2>5, <2>6 DEF Changes
<1>4. ASSUME NEW u \in Upload, Initiate(u)
      PROVE  Changes(u) /\ Alone(u)
  <2>1. asset' = [asset EXCEPT ![u] = "UPLOADING"] /\ session[u] = "none" /\ UNCHANGED kept
    BY <1>4 DEF Initiate
  <2>2. asset'[u] = "UPLOADING" /\ Alone(u)
    BY <1>1, <1>2, <2>1
  <2> QED BY <1>4, <2>1, <2>2 DEF Changes, LibInv, Opened
<1>5. ASSUME NEW u \in Upload, CompleteUpload(u)
      PROVE  Changes(u) /\ Alone(u)
  <2>1. asset' = [asset EXCEPT ![u] = "PROCESSING"] /\ asset[u] = "UPLOADING" /\ UNCHANGED kept
    BY <1>5 DEF CompleteUpload, Complete
  <2>2. asset'[u] = "PROCESSING" /\ Alone(u)
    BY <1>1, <1>2, <2>1
  <2> QED BY <1>5, <2>1, <2>2 DEF Changes
<1>6. ASSUME NEW c \in Clip, RequestClip(c)
      PROVE  Changes(c) /\ Alone(c)
  <2>1. asset' = [asset EXCEPT ![c] = "PROCESSING"] /\ asset[c] = "none" /\ UNCHANGED kept
    BY <1>6 DEF RequestClip, CreateClip
  <2>2. asset'[c] = "PROCESSING" /\ Alone(c)
    BY <1>1, <1>2, <2>1
  <2> QED BY <1>6, <2>1, <2>2 DEF Changes
<1>7. ASSUME NEW u \in Upload, Abort(u) \/ ArchiveExpired(u)
      PROVE  Changes(u) /\ Alone(u)
  <2>1. asset[u] # "FAILED" \/ ~Abort(u)
    BY <1>1, <1>7 DEF Abort, Abortable, LibInv, IInv, Submitted, Entered
  <2>2. asset' = [asset EXCEPT ![u] = @] => UNCHANGED asset
    BY <1>1
  <2>3. asset' = [asset EXCEPT ![u] = "ARCHIVED"] /\ asset[u] = "UPLOADING" /\ UNCHANGED kept
    BY <1>7, <2>1, <2>2 DEF Abort, ArchiveExpired
  <2>4. asset'[u] = "ARCHIVED" /\ Alone(u)
    BY <1>1, <1>2, <2>3
  <2> QED BY <1>7, <2>3, <2>4 DEF Changes
<1>8. ASSUME NEW a \in Asset, Archive(a) \/ Restore(a)
      PROVE  Changes(a) /\ Alone(a)
  <2>1. CASE Archive(a)
    <3>1. /\ asset' = [asset EXCEPT ![a] = "ARCHIVED"] /\ asset[a] \in {"READY", "FAILED"}
          /\ kept'[a] = asset[a]
      BY <1>1, <2>1 DEF Archive
    <3>2. asset'[a] = "ARCHIVED" /\ Alone(a)
      BY <1>2, <2>1, <3>1
    <3> QED BY <2>1, <3>1, <3>2 DEF Changes
  <2>2. CASE Restore(a)
    <3>1. /\ asset' = [asset EXCEPT ![a] = kept[a]] /\ asset[a] = "ARCHIVED"
          /\ kept[a] # None /\ kept'[a] = None
      BY <1>1, <2>2 DEF Restore
    <3>2. asset'[a] = kept[a] /\ Alone(a)
      BY <1>2, <2>2, <3>1
    <3> QED BY <2>2, <3>1, <3>2 DEF Changes
  <2> QED BY <1>8, <2>1, <2>2
<1>9. ASSUME NEW a \in Asset, NEW n \in Claim, Finalize(a, n)
      PROVE  Changes(a) /\ Alone(a)
  <2>1. /\ asset' = [asset EXCEPT ![a] = "READY"] /\ asset[a] = "PROCESSING" /\ Holds(a, n)
        /\ published' = [published EXCEPT ![a] = n] /\ UNCHANGED kept
    BY <1>9 DEF Finalize
  <2>2. asset'[a] = "READY" /\ Alone(a)
    BY <1>2, <2>1
  <2> QED BY <1>9, <2>1, <2>2 DEF Changes
<1>10. ASSUME NEW a \in Asset, NEW n \in Claim, FailUpload(a, n) \/ FailClip(a, n)
       PROVE  Changes(a) /\ Alone(a)
  <2>1. asset' = [asset EXCEPT ![a] = @] => UNCHANGED asset
    BY <1>1
  <2>2. asset' = [asset EXCEPT ![a] = "FAILED"] /\ asset[a] = "PROCESSING" /\ UNCHANGED kept
    BY <1>10, <2>1 DEF FailUpload, FailClip, FinishFailed
  <2>3. asset'[a] = "FAILED" /\ Alone(a)
    BY <1>2, <2>2
  <2> QED BY <1>10, <2>2, <2>3 DEF Changes
<1> QED BY <1>1, <1>3, <1>4, <1>5, <1>6, <1>7, <1>8, <1>9, <1>10, AssetWriters

\* A task keeps the reason it was scheduled for.
LEMMA ReasonStays ==
  ASSUME IInv, [Next]_vars, NEW x \in Prefix
  PROVE  \/ gc[x] # None /\ gc'[x].reason = gc[x].reason
         \/ gc[x] = None /\ gc'[x] = None
         \/ gc[x] = None /\ gc'[x].reason \in {"processed", "failed"}
         \/ \E u \in Upload : x = PartsOf(u) /\ Abort(u)
         \/ x = PartsOf(pass.upload) /\ ScheduleExpired
<1> DEFINE Goal == \/ gc[x] # None /\ gc'[x].reason = gc[x].reason
                   \/ gc[x] = None /\ gc'[x] = None
                   \/ gc[x] = None /\ gc'[x].reason \in {"processed", "failed"}
                   \/ \E u \in Upload : x = PartsOf(u) /\ Abort(u)
                   \/ x = PartsOf(pass.upload) /\ ScheduleExpired
<1>1. gc \in [Prefix -> Task \cup {None}] /\ pass \in Pass /\ (gc[x] # None => gc[x] \in Task)
  BY DEF IInv, TypeOK
<1>2. CASE gc'[x] = gc[x]
  BY <1>1, <1>2
<1>3. ASSUME NEW y \in Prefix, NEW reason, gc' = Scheduled(gc, y, reason)
      PROVE  gc'[x] = gc[x] \/ (x = y /\ gc[x] = None /\ gc'[x].reason = reason)
  BY <1>1, <1>3 DEF Scheduled
<1>4. ASSUME NEW u \in Upload, Abort(u)
      PROVE  Goal
  <2>1. gc' = Scheduled(gc, PartsOf(u), "aborted") /\ PartsOf(u) \in Prefix
    BY <1>4, PrefixesDiffer DEF Abort
  <2> QED BY <1>2, <1>3, <1>4, <2>1
<1>5. CASE ScheduleExpired
  <2>1. pass.upload \in Upload
    BY <1>1, <1>5, PassProperty DEF ScheduleExpired
  <2>2. gc' = Scheduled(gc, PartsOf(pass.upload), "expired") /\ PartsOf(pass.upload) \in Prefix
    BY <1>5, <2>1, PrefixesDiffer DEF ScheduleExpired
  <2> QED BY <1>2, <1>3, <1>5, <2>2
<1>6. ASSUME NEW y \in Prefix, NEW status, NEW next, Recorded(y, status, next), gc[y] # None
      PROVE  Goal
  <2>1. CASE y = x
    <3>1. gc[x] \in Task
      BY <1>1, <1>6, <2>1
    <3>2. UNCHANGED gc \/ gc' = [gc EXCEPT ![x].status = status, ![x].attempts = @ + 1]
      BY <1>6, <2>1 DEF Recorded
    <3>3. gc'[x].reason = gc[x].reason
      BY <1>1, <3>1, <3>2 DEF Task
    <3> QED BY <1>6, <2>1, <3>3
  <2>2. CASE y # x
    <3>1. gc'[x] = gc[x]
      BY <1>1, <1>6, <2>2 DEF Recorded
    <3> QED BY <1>2, <3>1
  <2> QED BY <2>1, <2>2
<1>7. ASSUME NEW y \in Prefix, Collect(y)
      PROVE  Goal
  <2>1. gc[y] # None
    BY <1>1, <1>7, PassProperty DEF Collect, IInv, PassKnown
  <2>2. UNCHANGED gc \/ \E next : Recorded(y, "FAILED", next)
    BY <1>7 DEF Collect
  <2> QED BY <1>2, <1>6, <2>1, <2>2
<1>8. CASE Settle
  <2>1. pass.prefix \in Prefix /\ gc[pass.prefix] # None
    BY <1>1, <1>8, PassProperty DEF Settle, IInv, PassKnown
  <2>2. \E next : Recorded(pass.prefix, "SUCCEEDED", next)
    BY <1>8 DEF Settle
  <2> QED BY <1>6, <2>1, <2>2
<1>9. ASSUME NEW a \in Asset, NEW n \in Claim, Finalize(a, n)
      PROVE  Goal
  <2>1. UNCHANGED gc \/ (a \in Upload /\ gc' = Scheduled(gc, PartsOf(a), "processed"))
    BY <1>9 DEF Finalize
  <2>2. CASE UNCHANGED gc
    BY <1>2, <2>2
  <2>3. CASE a \in Upload /\ gc' = Scheduled(gc, PartsOf(a), "processed")
    BY <1>2, <1>3, <2>3, PrefixesDiffer
  <2> QED BY <2>1, <2>2, <2>3
<1>10. ASSUME NEW a \in Asset, NEW n \in Claim, CollectParts(a, n)
       PROVE  Goal
  <2>1. /\ a \in Upload /\ run[a][n].at = "won"
        /\ \/ UNCHANGED gc
           \/ gc' = [gc EXCEPT ![PartsOf(a)].status = IF @ = "PENDING" THEN "SUCCEEDED" ELSE @]
    BY <1>10 DEF CollectParts, At
  <2>2. gc[PartsOf(a)] # None
    BY <1>1, <2>1 DEF IInv, Winner
  <2>3. CASE PartsOf(a) = x
    <3>1. gc[x] \in Task
      BY <1>1, <2>2, <2>3
    <3>2. gc'[x].reason = gc[x].reason
      BY <1>1, <2>1, <2>3, <3>1 DEF Task
    <3> QED BY <2>2, <2>3, <3>2
  <2>4. CASE PartsOf(a) # x
    <3>1. gc'[x] = gc[x]
      BY <1>1, <2>1, <2>4
    <3> QED BY <1>2, <3>1
  <2> QED BY <2>3, <2>4
<1>11. ASSUME NEW a \in Asset, NEW n \in Claim, DropLost(a, n) \/ FailUpload(a, n)
       PROVE  Goal
  <2>1. UNCHANGED gc \/ gc' = Scheduled(gc, OutputOf(a, n), "failed")
    BY <1>11 DEF DropLost, FailUpload, Cleaned
  <2>2. CASE UNCHANGED gc
    BY <1>2, <2>2
  <2>3. CASE gc' = Scheduled(gc, OutputOf(a, n), "failed")
    BY <1>2, <1>3, <2>3, PrefixesDiffer
  <2> QED BY <2>1, <2>2, <2>3
<1>12. UNCHANGED gc => Goal
  BY <1>2
<1> QED BY <1>4, <1>5, <1>7, <1>8, <1>9, <1>10, <1>11, <1>12, GcWriters

LEMMA KeptArchivedStep ==
  ASSUME LibInv, [Next]_vars
  PROVE  KeptArchived'
<1> SUFFICES ASSUME NEW a \in Asset, kept'[a] # None
             PROVE  asset'[a] = "ARCHIVED"
  BY DEF KeptArchived
<1>1. CASE asset'[a] = asset[a]
  BY <1>1, KeptMoves DEF LibInv, KeptArchived
<1>2. CASE asset'[a] # asset[a]
  <2>1. Changes(a) /\ Alone(a)
    BY <1>2, AssetChanges DEF Alone
  <2>2. asset[a] # "ARCHIVED" => kept[a] = None
    BY DEF LibInv, KeptArchived
  <2>3. CASE UNCHANGED kept
    BY <2>1, <2>2, <2>3 DEF Changes, Archive, Restore
  <2>4. CASE Archive(a) \/ Restore(a)
    <3>1. asset[a] \in {"READY", "FAILED", "ARCHIVED"} /\ (Restore(a) => kept[a] # None)
          /\ (Archive(a) => asset[a] # "ARCHIVED")
      BY <2>4 DEF Archive, Restore
    <3> QED BY <2>1, <2>4, <3>1 DEF Changes
  <2> QED BY <2>1, <2>3, <2>4 DEF Alone
<1> QED BY <1>1, <1>2

LEMMA SubmittedStep ==
  ASSUME LibInv, [Next]_vars
  PROVE  Submitted'
<1> SUFFICES ASSUME NEW a \in Asset,
                    asset'[a] \in {"PROCESSING", "READY", "FAILED"} \/ kept'[a] # None
             PROVE  job'[a] \in Job
  BY DEF Submitted
<1>1. JobsKept
  BY JobsTyped DEF LibInv
<1>2. CASE asset[a] \in {"PROCESSING", "READY", "FAILED"} \/ kept[a] # None
  BY <1>1, <1>2 DEF LibInv, Submitted, JobsKept
<1>3. CASE ~(asset[a] \in {"PROCESSING", "READY", "FAILED"} \/ kept[a] # None)
  <2>1. asset'[a] # asset[a]
    BY <1>3, KeptMoves
  <2>2. Changes(a) /\ Alone(a)
    BY <2>1, AssetChanges DEF Alone
  <2>3. UNCHANGED kept
    BY <1>3, <2>2 DEF Alone, Archive, Restore
  <2>4. (a \in Upload /\ CompleteUpload(a)) \/ (a \in Clip /\ RequestClip(a))
    BY <1>3, <2>2, <2>3 DEF Changes
  <2>5. job'[a] = Queued
    BY <2>4 DEF CompleteUpload, RequestClip, LibInv, IInv, TypeOK
  <2>6. Queued \in Job
    <3>1. 0 \in 0 .. MaxAttempts
      BY MediaAssumption
    <3> QED BY <3>1 DEF Queued, Job
  <2> QED BY <2>5, <2>6
<1> QED BY <1>2, <1>3

LEMMA OpenedStep ==
  ASSUME LibInv, [Next]_vars
  PROVE  Opened'
<1> SUFFICES ASSUME NEW u \in Upload
             PROVE  session'[u] = "none" <=> asset'[u] = "none"
  BY DEF Opened
<1>1. /\ session \in [Upload -> {"none", "INITIATED", "UPLOADING", "COMPLETE",
                                 "ABORTED", "EXPIRED"}]
      /\ asset \in [Asset -> Status] /\ u \in Asset /\ u \notin Clip
      /\ kept \in [Asset -> {"READY", "FAILED", None}]
      /\ session[u] = "none" <=> asset[u] = "none"
  BY MediaAssumption DEF LibInv, IInv, TypeOK, Asset, Status, Opened
<1>2. CASE Initiate(u)
  BY <1>1, <1>2 DEF Initiate
<1>3. CASE ~Initiate(u)
  <2>1. session'[u] = "none" <=> session[u] = "none"
    <3>1. CASE UNCHANGED session
      BY <3>1
    <3>2. CASE BeginPass
      BY <1>1, <3>2 DEF BeginPass
    <3>3. ASSUME NEW v \in Upload, Initiate(v) \/ CompleteUpload(v) \/ Abort(v)
          PROVE  session'[u] = "none" <=> session[u] = "none"
      BY <1>1, <1>3, <3>3 DEF Initiate, CompleteUpload, Complete, Active, Abort, Abortable
    <3>4. ASSUME NEW v \in Upload, NEW p \in Part, NEW content \in Content,
                 WritePart(v, p, content)
          PROVE  session'[u] = "none" <=> session[u] = "none"
      <4>1. session[v] # "none" /\ (UNCHANGED session \/ session' = [session EXCEPT ![v] = "UPLOADING"])
        BY <3>4 DEF WritePart, Active
      <4> QED BY <1>1, <4>1
    <3> QED BY <3>1, <3>2, <3>3, <3>4, SessionWriters
  <2>2. asset'[u] = "none" <=> asset[u] = "none"
    <3>1. CASE asset'[u] = asset[u]
      BY <3>1
    <3>2. CASE asset'[u] # asset[u]
      <4>1. Changes(u)
        BY <1>1, <3>2, AssetChanges DEF Alone
      <4> QED BY <1>1, <1>3, <4>1 DEF Changes
    <3> QED BY <3>1, <3>2
  <2> QED BY <1>1, <2>1, <2>2
<1> QED BY <1>2, <1>3

LEMMA AbandonedPartsStep ==
  ASSUME LibInv, [Next]_vars
  PROVE  AbandonedParts'
<1> SUFFICES ASSUME NEW x \in Prefix, Abandoned(x)'
             PROVE  \E u \in Upload : x = PartsOf(u) /\ GivenUp(u)'
  BY DEF AbandonedParts
<1>1. IInv /\ pass \in Pass
      /\ session \in [Upload -> {"none", "INITIATED", "UPLOADING", "COMPLETE",
                                 "ABORTED", "EXPIRED"}]
  BY DEF LibInv, IInv, TypeOK
<1>2. CASE Abandoned(x)
  BY <1>1, <1>2, SessionStays DEF LibInv, AbandonedParts
<1>3. ASSUME NEW u \in Upload, x = PartsOf(u), Abort(u)
      PROVE  GivenUp(u)'
  BY <1>1, <1>3 DEF Abort, GivenUp
<1>4. CASE x = PartsOf(pass.upload) /\ ScheduleExpired
  <2>1. pass.upload \in Upload /\ GivenUp(pass.upload)
    BY <1>1, <1>4, PassProperty DEF ScheduleExpired, IInv, PassKnown
  <2> QED BY <1>1, <1>4, <2>1, SessionStays
<1> QED BY <1>1, <1>2, <1>3, <1>4, ReasonStays DEF Abandoned

LEMMA ClipBytesStep ==
  ASSUME LibInv, [Next]_vars
  PROVE  ClipBytes'
<1> SUFFICES ASSUME NEW c \in Clip, NEW n \in Claim
             PROVE  run'[c][n].bytes = None
  BY DEF ClipBytes
<1>1. IInv /\ c \in Asset /\ c \notin Upload /\ run[c][n].bytes = None
      /\ run \in [Asset -> [Claim -> Run]]
  BY MediaAssumption DEF LibInv, ClipBytes, Asset, IInv, TypeOK
<1>2. CASE run'[c][n] = run[c][n]
  BY <1>1, <1>2
<1>3. CASE Moves(c, n)
  <2>1. To(c, n, "assembled") \/ \E at \in Places : To(c, n, at)
    <3>1. CASE Assemble(c, n)
      <4>1. Go(c, n, "assembled") \/ Go(c, n, "failing")
        BY <1>1, <3>1 DEF Assemble
      <4> QED BY <1>1, <4>1, GoProperty DEF Places, WentOn, To
    <3>2. CASE ~Assemble(c, n)
      BY <1>3, <3>2 DEF Moves, Places
    <3> QED BY <3>1, <3>2
  <2> QED BY <1>1, <2>1 DEF To
<1> QED BY <1>1, <1>2, <1>3, RunMoves DEF OneMoves

LEMMA LibInvariant == Spec => []LibInv
<1>1. Init => LibInv
  <2> SUFFICES ASSUME Init
               PROVE  LibInv
    OBVIOUS
  <2>1. IInv
    BY InitIInv
  <2>2. KeptArchived /\ Submitted /\ Opened /\ AbandonedParts /\ ClipBytes
    BY DEF Init, UploadInit, KeptArchived, Submitted, Opened, AbandonedParts, Abandoned,
           ClipBytes, Fresh, Asset
  <2> QED BY <2>1, <2>2 DEF LibInv
<1>2. IInv /\ IInv' /\ LibInv /\ [Next]_vars => LibInv'
  BY KeptArchivedStep, SubmittedStep, OpenedStep, AbandonedPartsStep, ClipBytesStep
     DEF LibInv
<1> QED BY <1>1, <1>2, Invariant, PTL DEF Spec

\* What the receipts of a complete session record never changes.
LEMMA SourcesKept ==
  ASSUME LibInv, [Next]_vars, NEW a \in Asset, ~(a \in Upload /\ CompleteUpload(a))
  PROVE  Sources'[a] = Sources[a]
<1>1. /\ receipts \in [Upload -> [Part -> Content \cup {None}]]
      /\ session \in [Upload -> {"none", "INITIATED", "UPLOADING", "COMPLETE",
                                 "ABORTED", "EXPIRED"}]
  BY DEF LibInv, IInv, TypeOK
<1>2. CASE a \notin Upload
  BY <1>2 DEF Sources
<1>3. CASE a \in Upload
  <2>1. session'[a] = "COMPLETE" <=> session[a] = "COMPLETE"
    BY <1>3, SessionStays DEF LibInv
  <2>2. session[a] = "COMPLETE" => receipts'[a] = receipts[a]
    <3>1. ASSUME NEW v \in Upload, NEW p \in Part, NEW content \in Content,
                 WritePart(v, p, content), session[a] = "COMPLETE"
          PROVE  receipts'[a] = receipts[a]
      <4>1. v # a /\ (UNCHANGED receipts \/ receipts' = [receipts EXCEPT ![v][p] = content])
        BY <3>1 DEF WritePart, Active
      <4> QED BY <1>1, <1>3, <4>1
    <3> QED BY <3>1, ReceiptsWriters
  <2> QED BY <1>3, <2>1, <2>2 DEF Sources
<1> QED BY <1>2, <1>3

\* What a published claim was made of never changes.
LEMMA ContentsKept ==
  ASSUME LibInv, [Next]_vars, NEW a \in Asset, published'[a] = published[a]
  PROVE  Contents'[a] = Contents[a]
<1>1. IInv /\ published[a] \in 0 .. MaxAttempts
  BY DEF LibInv, IInv, TypeOK
<1>2. CASE published[a] = 0
  BY <1>2 DEF Contents
<1>3. CASE published[a] # 0
  <2> DEFINE n == published[a]
  <2>1. n \in Claim
    BY <1>1, <1>3, MediaAssumption DEF Claim
  <2>2. run[a][n].at \notin {"none", "claimed"}
    BY <1>1, <2>1 DEF IInv, Winner
  <2> HIDE DEF n
  <2>3. run'[a][n].bytes = run[a][n].bytes
    BY <1>1, <2>1, <2>2, RunMoves DEF OneMoves, Moves, To, At
  <2> QED BY <1>3, <2>3 DEF Contents, n
<1> QED BY <1>2, <1>3

\* Publishing changes the row of the asset that is published.
LEMMA PublishedAlone ==
  ASSUME LibInv, [Next]_vars, NEW a \in Asset, published'[a] # published[a]
  PROVE  asset'[a] # asset[a] /\ \E n \in Claim : Finalize(a, n) /\ Holds(a, n)
<1>1. IInv
  BY DEF LibInv
<1>2. PICK n \in Claim : Finalize(a, n) /\ Holds(a, n) /\ asset'[a] = "READY"
  BY <1>1, PublishedMoves
<1>3. asset[a] = "PROCESSING"
  BY <1>2 DEF Finalize
<1> QED BY <1>2, <1>3

\* The stage of an asset by its row.
LEMMA StageProperty ==
  ASSUME LibInv, NEW a \in Asset
  PROVE  /\ asset[a] = "none" => StageOf(a) = "none"
         /\ asset[a] = "UPLOADING" => StageOf(a) = "reserved"
         /\ asset[a] = "PROCESSING" => StageOf(a) = "pending"
         /\ asset[a] = "READY" => StageOf(a) = "playable"
         /\ asset[a] = "FAILED" => StageOf(a) = "failed"
         /\ asset[a] = "ARCHIVED" /\ kept[a] = None => StageOf(a) = "dropped"
         /\ asset[a] = "ARCHIVED" /\ kept[a] = "READY" => StageOf(a) = "playable"
         /\ asset[a] = "ARCHIVED" /\ kept[a] = "FAILED" => StageOf(a) = "failed"
         /\ asset[a] = "DELETED" => StageOf(a) = "gone"
         /\ StageOf(a) \in {"none", "gone"} <=> ~HoldsQuota(a)
<1>1. /\ asset[a] \in Status /\ kept[a] \in {"READY", "FAILED", None}
      /\ None \notin {"READY", "FAILED"}
  BY NullAssumption DEF LibInv, IInv, TypeOK, Status
<1> QED BY <1>1 DEF StageOf, Shelved, HoldsQuota, Status

\* The stages, when the row of one asset changes.
LEMMA StagesMove ==
  ASSUME NEW a \in Asset, Alone(a)
  PROVE  /\ Stages' = [Stages EXCEPT ![a] = StageOf(a)']
         /\ (Shelved(a)' <=> Shelved(a)) => UNCHANGED ShelvedAssets
         /\ ~Shelved(a) /\ Shelved(a)' => ShelvedAssets' = ShelvedAssets \cup {a}
         /\ Shelved(a) /\ ~Shelved(a)' => ShelvedAssets' = ShelvedAssets \ {a}
<1>1. \A b \in Asset : b # a => StageOf(b)' = StageOf(b) /\ (Shelved(b)' <=> Shelved(b))
  BY DEF Alone, StageOf, Shelved
<1>2. Stages' = [Stages EXCEPT ![a] = StageOf(a)']
  BY <1>1 DEF Stages
<1> QED BY <1>1, <1>2 DEF ShelvedAssets

LEMMA LibraryStutter ==
  ASSUME LibInv, [Next]_vars, UNCHANGED asset
  PROVE  UNCHANGED Catalogue!library
<1>1. \A a \in Asset : kept'[a] = kept[a]
  BY KeptMoves
<1>2. \A a \in Asset : StageOf(a)' = StageOf(a) /\ (Shelved(a)' <=> Shelved(a))
  BY <1>1 DEF StageOf, Shelved
<1>3. UNCHANGED Stages /\ UNCHANGED ShelvedAssets
  BY <1>2 DEF Stages, ShelvedAssets
<1>4. \A a \in Asset : Sources'[a] = Sources[a]
  <2>1. ASSUME NEW a \in Upload, CompleteUpload(a)
        PROVE  FALSE
    BY <2>1 DEF CompleteUpload, Complete, LibInv, IInv, TypeOK, Asset
  <2> QED BY <2>1, SourcesKept
<1>5. UNCHANGED Sources
  BY <1>4 DEF Sources
<1>6. \A a \in Asset : published'[a] = published[a]
  BY PublishedAlone
<1>7. UNCHANGED published
  <2>1. published \in [Asset -> 0 .. MaxAttempts] /\ published' \in [Asset -> 0 .. MaxAttempts]
    BY PublishedMoves DEF LibInv, IInv, TypeOK
  <2> QED BY <1>6, <2>1
<1>8. \A a \in Asset : Contents'[a] = Contents[a]
  BY <1>6, ContentsKept
<1>9. UNCHANGED Contents
  BY <1>8 DEF Contents
<1> QED BY <1>3, <1>5, <1>7, <1>9 DEF Catalogue!library

\* What a step that neither completes nor publishes a leaves alone.
LEMMA SourcesAlone ==
  ASSUME LibInv, [Next]_vars, NEW a \in Asset, Alone(a), ~(a \in Upload /\ CompleteUpload(a))
  PROVE  UNCHANGED Sources
<1>1. ASSUME NEW u \in Upload, CompleteUpload(u)
      PROVE  u = a
  <2>1. u \in Asset /\ asset'[u] # asset[u]
    BY <1>1 DEF CompleteUpload, Complete, LibInv, IInv, TypeOK, Asset
  <2> QED BY <2>1 DEF Alone
<1>2. \A b \in Asset : Sources'[b] = Sources[b]
  BY <1>1, SourcesKept
<1> QED BY <1>2 DEF Sources

LEMMA ContentsAlone ==
  ASSUME LibInv, [Next]_vars, NEW a \in Asset, Alone(a),
         ~(asset[a] = "PROCESSING" /\ asset'[a] = "READY")
  PROVE  UNCHANGED <<published, Contents>>
<1>1. \A b \in Asset : published'[b] = published[b]
  <2>1. ASSUME NEW n \in Claim, Finalize(a, n), Holds(a, n)
        PROVE  FALSE
    BY <2>1 DEF Finalize, LibInv, IInv, TypeOK
  <2> QED BY <2>1, PublishedAlone DEF Alone
<1>2. UNCHANGED published
  <2>1. published \in [Asset -> 0 .. MaxAttempts] /\ published' \in [Asset -> 0 .. MaxAttempts]
    BY PublishedMoves DEF LibInv, IInv, TypeOK
  <2> QED BY <1>1, <2>1
<1>3. \A b \in Asset : Contents'[b] = Contents[b]
  BY <1>1, ContentsKept
<1> QED BY <1>2, <1>3 DEF Contents

LEMMA SameRoom ==
  ASSUME LibInv
  PROVE  StorageAvailable <=> Catalogue!HasRoom
<1>1. \A a \in Asset : Stages[a] \in {"none", "gone"} <=> ~HoldsQuota(a)
  BY StageProperty DEF Stages
<1>2. {a \in Asset : HoldsQuota(a)} = Catalogue!Held
  BY <1>1 DEF Catalogue!Held
<1>3. Cardinality(Catalogue!Held) = Catalogue!Cardinality(Catalogue!Held)
  BY DEF Cardinality, Catalogue!Cardinality
<1> QED BY <1>2, <1>3 DEF StorageAvailable, Catalogue!HasRoom

\* Every change of an asset's row is a step of the library.
LEMMA LibraryAction ==
  ASSUME LibInv, LibInv', [Next]_vars, NEW a \in Asset, Changes(a), Alone(a)
  PROVE  Catalogue!Next
<1>1. /\ asset[a] \in Status /\ kept[a] \in {"READY", "FAILED", None}
      /\ None \notin {"READY", "FAILED"} /\ (kept[a] # None => asset[a] = "ARCHIVED")
      /\ IInv
  BY NullAssumption DEF LibInv, IInv, TypeOK, Status, KeptArchived
<1>2. /\ kept'[a] \in {"READY", "FAILED", None}
      /\ (kept'[a] # None => asset'[a] = "ARCHIVED")
  BY DEF LibInv, IInv, TypeOK, KeptArchived
<1>3. Stages[a] = StageOf(a) /\ Stages' = [Stages EXCEPT ![a] = StageOf(a)']
  BY StagesMove DEF Stages
<1>4. SUFFICES \/ Catalogue!Reserve(a) \/ Catalogue!Submit(a) \/ Catalogue!Cut(a)
               \/ Catalogue!Publish(a) \/ Catalogue!Fail(a) \/ Catalogue!PutAway(a)
               \/ Catalogue!TakeBack(a) \/ Catalogue!Drop(a) \/ Catalogue!Forget(a)
  BY DEF Catalogue!Next
<1>5. ASSUME ~Shelved(a), ~Shelved(a)'
      PROVE  /\ UNCHANGED ShelvedAssets
             /\ StageOf(a) = "none" <=> asset[a] = "none"
  BY <1>1, <1>5, StagesMove, StageProperty DEF Status, Shelved
<1>6. \A from, to : StageOf(a) = from /\ StageOf(a)' = to => Catalogue!Becomes(a, from, to)
  BY <1>3 DEF Catalogue!Becomes
<1>7. CASE a \in Upload /\ Initiate(a) /\ asset[a] = "none" /\ asset'[a] = "UPLOADING"
  <2>1. Catalogue!Becomes(a, "none", "reserved") /\ UNCHANGED ShelvedAssets
    BY <1>5, <1>6, <1>7, StageProperty DEF StageOf, Shelved
  <2>2. ~CompleteUpload(a)
    BY <1>7 DEF CompleteUpload, Complete
  <2>3. UNCHANGED <<Sources, published, Contents>>
    BY <1>7, <2>2, SourcesAlone, ContentsAlone
  <2>4. Catalogue!HasRoom
    BY <1>7, SameRoom DEF Initiate
  <2> QED BY <2>1, <2>3, <2>4 DEF Catalogue!Reserve
<1>8. CASE /\ a \in Upload /\ CompleteUpload(a)
           /\ asset[a] = "UPLOADING" /\ asset'[a] = "PROCESSING"
  <2>1. Catalogue!Becomes(a, "reserved", "pending") /\ UNCHANGED ShelvedAssets
    BY <1>5, <1>6, <1>8, StageProperty DEF StageOf, Shelved
  <2>2. UNCHANGED <<published, Contents>>
    BY <1>8, ContentsAlone
  <2>3. receipts[a] \in [Part -> Content] /\ UNCHANGED receipts
    BY <1>1, <1>8 DEF CompleteUpload, Complete, Verified, IInv, TypeOK
  <2>4. session'[a] = "COMPLETE"
    BY <1>1, <1>8 DEF CompleteUpload, Complete, IInv, TypeOK
  <2>5. \A b \in Asset : b # a => Sources'[b] = Sources[b]
    <3>1. ASSUME NEW b \in Upload, b # a, CompleteUpload(b)
          PROVE  FALSE
      BY <3>1 DEF CompleteUpload, Complete, Alone, LibInv, IInv, TypeOK, Asset
    <3> QED BY <3>1, SourcesKept
  <2>6. Sources'[a] = receipts[a]
    BY <1>8, <2>3, <2>4 DEF Sources
  <2>7. Sources' = [Sources EXCEPT ![a] = receipts[a]]
    BY <2>5, <2>6 DEF Sources
  <2> QED BY <2>1, <2>2, <2>3, <2>7 DEF Catalogue!Submit
<1>9. CASE a \in Clip /\ RequestClip(a) /\ asset[a] = "none" /\ asset'[a] = "PROCESSING"
  <2>1. Catalogue!Becomes(a, "none", "pending") /\ UNCHANGED ShelvedAssets
    BY <1>5, <1>6, <1>9, StageProperty DEF StageOf, Shelved
  <2>2. a \notin Upload
    BY <1>9, MediaAssumption
  <2>3. UNCHANGED <<Sources, published, Contents>>
    BY <1>9, <2>2, SourcesAlone, ContentsAlone
  <2>4. Catalogue!HasRoom
    BY <1>9, SameRoom DEF RequestClip, CreateClip
  <2> QED BY <2>1, <2>3, <2>4 DEF Catalogue!Cut
<1>10. CASE /\ a \in Upload /\ (Abort(a) \/ ArchiveExpired(a))
            /\ asset[a] = "UPLOADING" /\ asset'[a] = "ARCHIVED"
  <2>1. UNCHANGED kept /\ kept[a] = None /\ ~CompleteUpload(a)
    BY <1>1, <1>10 DEF Alone, Archive, Restore, Changes, Abort, ArchiveExpired,
       CompleteUpload, Complete, IInv, TypeOK
  <2>2. Catalogue!Becomes(a, "reserved", "dropped") /\ UNCHANGED ShelvedAssets
    BY <1>5, <1>6, <1>10, <2>1, StageProperty DEF StageOf, Shelved
  <2>3. UNCHANGED <<Sources, published, Contents>>
    BY <1>10, <2>1, SourcesAlone, ContentsAlone
  <2> QED BY <2>2, <2>3 DEF Catalogue!Drop
<1>11. CASE Release /\ asset[a] = "ARCHIVED" /\ kept[a] = None /\ asset'[a] = "DELETED"
  <2>1. ~CompleteUpload(a)
    BY <1>11 DEF CompleteUpload, Complete
  <2>2. Catalogue!Becomes(a, "dropped", "gone") /\ UNCHANGED ShelvedAssets
    BY <1>5, <1>6, <1>11, StageProperty DEF StageOf, Shelved
  <2>3. UNCHANGED <<Sources, published, Contents>>
    BY <1>11, <2>1, SourcesAlone, ContentsAlone
  <2> QED BY <2>2, <2>3 DEF Catalogue!Forget
<1>12. CASE /\ Archive(a) /\ asset[a] \in {"READY", "FAILED"}
            /\ asset'[a] = "ARCHIVED" /\ kept'[a] = asset[a]
  <2>1. ~CompleteUpload(a) /\ ~Shelved(a) /\ Shelved(a)'
    BY <1>1, <1>12 DEF CompleteUpload, Complete, Shelved
  <2>2. StageOf(a)' = StageOf(a) /\ StageOf(a) \in {"playable", "failed"}
    BY <1>1, <1>12, <2>1, StageProperty DEF StageOf
  <2>3. UNCHANGED Stages /\ ShelvedAssets' = ShelvedAssets \cup {a} /\ a \notin ShelvedAssets
    BY <1>3, <2>1, <2>2, StagesMove DEF ShelvedAssets, Stages
  <2>4. UNCHANGED <<Sources, published, Contents>>
    BY <1>12, <2>1, SourcesAlone, ContentsAlone
  <2> QED BY <1>3, <2>2, <2>3, <2>4 DEF Catalogue!PutAway
<1>13. CASE Restore(a) /\ asset[a] = "ARCHIVED" /\ kept[a] # None
            /\ asset'[a] = kept[a] /\ kept'[a] = None
  <2>1. ~CompleteUpload(a) /\ Shelved(a) /\ ~Shelved(a)'
    BY <1>1, <1>13 DEF CompleteUpload, Complete, Shelved
  <2>2. StageOf(a)' = StageOf(a)
    BY <1>1, <1>13, <2>1, StageProperty DEF StageOf
  <2>3. UNCHANGED Stages /\ ShelvedAssets' = ShelvedAssets \ {a} /\ a \in ShelvedAssets
    BY <1>3, <2>1, <2>2, StagesMove DEF ShelvedAssets, Stages
  <2>4. UNCHANGED <<Sources, published, Contents>>
    BY <1>13, <2>1, SourcesAlone, ContentsAlone
  <2> QED BY <2>3, <2>4 DEF Catalogue!TakeBack
<1>14. CASE /\ asset[a] = "PROCESSING" /\ asset'[a] = "READY"
            /\ \E n \in Claim : Finalize(a, n) /\ Holds(a, n)
                                /\ published' = [published EXCEPT ![a] = n]
  <2>1. PICK n \in Claim : Finalize(a, n) /\ Holds(a, n)
                           /\ published' = [published EXCEPT ![a] = n]
    BY <1>14
  <2>2. kept'[a] = None
    BY <1>2, <1>14
  <2>3. Catalogue!Becomes(a, "pending", "playable") /\ UNCHANGED ShelvedAssets
    BY <1>5, <1>6, <1>14, <2>2, StageProperty DEF StageOf, Shelved
  <2>4. UNCHANGED Sources
    BY <1>14, SourcesAlone DEF CompleteUpload, Complete
  <2>5. published'[a] = n /\ n # 0 /\ \A b \in Asset : b # a => published'[b] = published[b]
    BY <1>1, <2>1, ClaimIsNotZero DEF IInv, TypeOK
  <2>6. run'[a][n].bytes = run[a][n].bytes
    <3>1. Go(a, n, "won") \/ \E at \in Places : Go(a, n, at)
      BY <2>1 DEF Finalize, Places
    <3> QED BY <1>1, <3>1, GoProperty DEF IInv, TypeOK, Places, WentOn
  <2>7. run[a][n].bytes = Sources[a]
    <3>1. CASE a \in Upload
      BY <1>1, <1>14, <2>1, <3>1 DEF Finalize, At, IInv, Stored, Undecided, Sources
    <3>2. CASE a \notin Upload
      BY <3>2 DEF Asset, LibInv, ClipBytes, Sources
    <3> QED BY <3>1, <3>2
  <2>8. Contents'[a] = Sources[a] /\ \A b \in Asset : b # a => Contents'[b] = Contents[b]
    BY <2>5, <2>6, <2>7, ContentsKept DEF Contents
  <2>9. Contents' = [Contents EXCEPT ![a] = Sources[a]]
    BY <2>8 DEF Contents
  <2> QED BY <2>1, <2>3, <2>4, <2>9 DEF Catalogue!Publish
<1>15. CASE /\ asset[a] = "PROCESSING" /\ asset'[a] = "FAILED"
            /\ \E n \in Claim : FailUpload(a, n) \/ FailClip(a, n)
  <2>1. kept'[a] = None /\ ~CompleteUpload(a)
    BY <1>2, <1>15 DEF CompleteUpload, Complete
  <2>2. Catalogue!Becomes(a, "pending", "failed") /\ UNCHANGED ShelvedAssets
    BY <1>5, <1>6, <1>15, <2>1, StageProperty DEF StageOf, Shelved
  <2>3. UNCHANGED <<Sources, published, Contents>>
    BY <1>15, <2>1, SourcesAlone, ContentsAlone
  <2> QED BY <2>2, <2>3 DEF Catalogue!Fail
<1> QED BY <1>7, <1>8, <1>9, <1>10, <1>11, <1>12, <1>13, <1>14, <1>15 DEF Changes

\* What the routes, the workers and the maintenance pass do to the rows is what
\* MediaLibrary lets happen to an asset: each of their steps is one of its own, or
\* changes nothing that the owner of the station sees.
THEOREM LibraryImplemented == Spec => ImplementsLibrary
<1>1. Init => Catalogue!Init
  <2> SUFFICES ASSUME Init
               PROVE  Catalogue!Init
    OBVIOUS
  <2>1. \A a \in Asset : asset[a] = "none" /\ kept[a] = None /\ published[a] = 0
                         /\ (a \in Upload => session[a] = "none")
    BY DEF Init, UploadInit
  <2>2. published = [a \in Asset |-> 0]
    BY DEF Init
  <2> QED BY <2>1, <2>2
          DEF Catalogue!Init, Stages, StageOf, Shelved, ShelvedAssets, Sources, Contents
<1>2. LibInv /\ LibInv' /\ [Next]_vars => [Catalogue!Next]_(Catalogue!library)
  <2> SUFFICES ASSUME LibInv, LibInv', [Next]_vars
               PROVE  Catalogue!Next \/ UNCHANGED Catalogue!library
    OBVIOUS
  <2> QED BY LibraryStutter, AssetChanges, LibraryAction
<1> QED BY <1>1, <1>2, LibInvariant, PTL DEF Spec, ImplementsLibrary, Catalogue!Spec

\* What MediaLibraryProofs shows of the library is so of the one implemented here.
Promise == INSTANCE MediaLibraryProofs WITH
  Source <- [Part -> Content], Attempt <- Claim, Nothing <- None,
  stage <- Stages, shelved <- ShelvedAssets, source <- Sources,
  version <- published, content <- Contents

LEMMA PromiseImplemented == Spec => Promise!Spec
<1>1. Catalogue!Init <=> Promise!Init
  BY DEF Catalogue!Init, Promise!Init
<1>2. Catalogue!Next <=> Promise!Next
  <2>1. Catalogue!HasRoom <=> Promise!HasRoom
    BY DEF Catalogue!HasRoom, Promise!HasRoom, Catalogue!Held, Promise!Held,
           Catalogue!Cardinality, Promise!Cardinality
  <2>2. ASSUME NEW a \in Asset
        PROVE  /\ Catalogue!Reserve(a) <=> Promise!Reserve(a)
               /\ Catalogue!Cut(a) <=> Promise!Cut(a)
    BY <2>1 DEF Catalogue!Reserve, Promise!Reserve, Catalogue!Cut, Promise!Cut,
                Catalogue!Becomes, Promise!Becomes
  <2>3. ASSUME NEW a \in Asset
        PROVE  /\ Catalogue!Submit(a) <=> Promise!Submit(a)
               /\ Catalogue!Publish(a) <=> Promise!Publish(a)
    BY DEF Catalogue!Submit, Promise!Submit, Catalogue!Publish, Promise!Publish,
           Catalogue!Becomes, Promise!Becomes
  <2>4. ASSUME NEW a \in Asset
        PROVE  /\ Catalogue!Fail(a) <=> Promise!Fail(a)
               /\ Catalogue!Drop(a) <=> Promise!Drop(a)
               /\ Catalogue!Forget(a) <=> Promise!Forget(a)
    BY DEF Catalogue!Fail, Promise!Fail, Catalogue!Drop, Promise!Drop, Catalogue!Forget,
           Promise!Forget, Catalogue!Becomes, Promise!Becomes
  <2>5. ASSUME NEW a \in Asset
        PROVE  /\ Catalogue!PutAway(a) <=> Promise!PutAway(a)
               /\ Catalogue!TakeBack(a) <=> Promise!TakeBack(a)
    BY DEF Catalogue!PutAway, Promise!PutAway, Catalogue!TakeBack, Promise!TakeBack
  <2> QED BY <2>2, <2>3, <2>4, <2>5 DEF Catalogue!Next, Promise!Next
<1>3. [Catalogue!Next]_(Catalogue!library) <=> [Promise!Next]_(Promise!library)
  BY <1>2 DEF Catalogue!library, Promise!library
<1> QED BY <1>1, <1>3, LibraryImplemented, PTL
        DEF ImplementsLibrary, Catalogue!Spec, Promise!Spec

\* station_media_storage_usage_v never exceeds the quota, whatever is uploaded, cut,
\* given up, put away and restored: assertStationStorageAvailable decides under the
\* lock, and nothing that freed its room takes it again.
THEOREM QuotaAlwaysKept ==
  Spec => [](Cardinality({a \in Asset : HoldsQuota(a)}) <= Limit)
<1>1. Limit \in Nat /\ 0 \notin Claim
  BY MediaAssumption, ClaimIsNotZero
<1>2. Promise!Spec => [](Promise!PlaysItsSource /\ Promise!InQuota)
  BY <1>1, Promise!LibraryKept
<1>3. LibInv /\ Promise!InQuota => Cardinality({a \in Asset : HoldsQuota(a)}) <= Limit
  <2> SUFFICES ASSUME LibInv, Promise!InQuota
               PROVE  Cardinality({a \in Asset : HoldsQuota(a)}) <= Limit
    OBVIOUS
  <2>1. \A a \in Asset : Stages[a] \in {"none", "gone"} <=> ~HoldsQuota(a)
    BY StageProperty DEF Stages
  <2>2. {a \in Asset : HoldsQuota(a)} = Promise!Held
    BY <2>1 DEF Promise!Held
  <2>3. Cardinality(Promise!Held) = Promise!Cardinality(Promise!Held)
    BY DEF Cardinality, Promise!Cardinality
  <2> QED BY <2>2, <2>3 DEF Promise!InQuota
<1> QED BY <1>2, <1>3, LibInvariant, PromiseImplemented, PTL

\* An asset is decided once: what was published stays published, as it was, and what
\* failed or was given up stays so, however late a worker that lost its claim, a retry
\* or the maintenance pass comes.
THEOREM DecidedForGood == Spec => Promise!DecidedOnce
<1>1. Limit \in Nat /\ 0 \notin Claim
  BY MediaAssumption, ClaimIsNotZero
<1>2. Promise!Spec => Promise!DecidedOnce
  BY <1>1, Promise!LibraryDecidedOnce
<1> QED BY <1>2, PromiseImplemented, PTL
=============================================================================
