------------------------------ MODULE MediaJobs ------------------------------
(***************************************************************************)
(* The durable jobs that turn an upload or a clip into a playable asset    *)
(* (src-media-worker.ts), beside the routes and the garbage collection of  *)
(* MediaUploads.                                                           *)
(*                                                                         *)
(* A job is claimed with a lease and a fresh token; the row, locked, is    *)
(* what decides which of several workers publishes.  A worker that lost    *)
(* its claim is not stopped: it goes on, stores its output and cleans up   *)
(* after itself while its successor runs.  Its state is kept by claim.     *)
(***************************************************************************)
EXTENDS MediaUploads

VARIABLES
  job,       \* media_processing_jobs of each asset, or None
  run,       \* run[a][n]: the worker that holds, or held, the n-th claim
  published  \* media_asset_variants: the generation of a's READY variants, or 0

jobVars == <<job, run, published>>
vars == <<uploadVars, jobVars>>

\* due: available_at of a QUEUED job, lease_expires_at of a RUNNING one has passed.
Job == [status : {"QUEUED", "RUNNING", "SUCCEEDED", "FAILED"},
        attempts : 0 .. MaxAttempts, token : 0 .. MaxAttempts, due : BOOLEAN]
ASSUME JobAssumption == None \notin Job

Queued == [status |-> "QUEUED", attempts |-> 0, token |-> 0, due |-> TRUE]

\* "won" and later: published; "over" and "failed" are ends.
Run == [at : {"none", "claimed", "assembled", "produced", "won", "collected", "lost",
              "failing", "cleaned", "finished", "over", "failed", "dead"},
        bytes : [Part -> Content] \cup {None}]
Fresh == [at |-> "none", bytes |-> None]
Alive(a, n) == run[a][n].at \notin {"none", "over", "failed", "dead"}

At(a, n, at) == run[a][n].at = at
Go(a, n, at) == run' = [run EXCEPT ![a][n].at = at]

\* status = 'RUNNING' AND claim_token = $n, the row locked.
\* Mutant: any worker of a running job.
HoldsAny(a, n) == job[a].status = "RUNNING"
Holds(a, n) == job[a].status = "RUNNING" /\ job[a].token = n

-----------------------------------------------------------------------------
(* Jobs come into being and become due *)

CompleteUpload(u) ==
  /\ Complete(u)
  /\ job' = [job EXCEPT ![u] = Queued]
  /\ UNCHANGED <<run, published>>

RequestClip(c) ==
  /\ CreateClip(c)
  /\ job' = [job EXCEPT ![c] = Queued]
  /\ UNCHANGED <<run, published>>

\* A lease lapses while its worker is alive when it could not renew for 120 s.
BecomesDue(a) ==
  /\ job[a] # None /\ job[a].status \in {"QUEUED", "RUNNING"} /\ ~job[a].due
  /\ job' = [job EXCEPT ![a].due = TRUE]
  /\ UNCHANGED <<run, published, uploadVars>>

\* Mutants: only queued jobs; attempts without end.
ClaimableForever(a) ==
  job[a] # None /\ job[a].due /\ job[a].status \in {"QUEUED", "RUNNING"}
ClaimableQueued(a) ==
  /\ job[a] # None /\ job[a].due /\ job[a].attempts < MaxAttempts
  /\ job[a].status = "QUEUED"
Claimable(a) ==
  /\ job[a] # None /\ job[a].due /\ job[a].attempts < MaxAttempts
  /\ job[a].status \in {"QUEUED", "RUNNING"}

\* dispatchDurableJobs, the queue and the claim: the asset must be PROCESSING, and an
\* upload COMPLETE, or the transaction rolls back.
ClaimJob(a) ==
  /\ Claimable(a)
  /\ asset[a] = "PROCESSING"
  /\ a \in Upload => session[a] = "COMPLETE"
  /\ LET n == job[a].attempts + 1
     IN  /\ job' = [job EXCEPT ![a] = [status |-> "RUNNING", attempts |-> n,
                                       token |-> n, due |-> FALSE]]
         /\ Go(a, n, "claimed")
  /\ UNCHANGED <<published, uploadVars>>

Renew(a, n) ==
  /\ Alive(a, n) /\ job[a].due /\ Holds(a, n)
  /\ job' = [job EXCEPT ![a].due = FALSE]
  /\ UNCHANGED <<run, published, uploadVars>>

-----------------------------------------------------------------------------
(* One claim, from its source to its variants *)

\* Every part is compared with its receipt.  Mutant: whatever is stored.
AssembledFrom(u) == \A p \in Part : parts[u][p] # None
Assembled(u) == \A p \in Part : parts[u][p] # None /\ parts[u][p] = receipts[u][p]

\* assembleUpload; a clip reads its parent.
Assemble(a, n) ==
  /\ At(a, n, "claimed")
  /\ \/ /\ a \in Upload /\ Assembled(a)
        /\ run' = [run EXCEPT ![a][n] = [at |-> "assembled", bytes |-> parts[a]]]
     \/ a \in Upload /\ ~Assembled(a) /\ Go(a, n, "failing")
     \/ a \in Clip /\ Go(a, n, "assembled")
  /\ UNCHANGED <<job, published, uploadVars>>

\* ownerMediaClaimPrefix.  Mutant: one prefix for all claims of an asset.
ClaimPrefixShared(a, n) == OutputOf(a, 1)
ClaimPrefix(a, n) == OutputOf(a, n)

Produce(a, n) ==
  /\ At(a, n, "assembled")
  /\ output' = [output EXCEPT ![a] = @ \cup {ClaimPrefix(a, n)[2]}]
  /\ Go(a, n, "produced")
  /\ UNCHANGED <<job, published, session, overdue, asset, kept, receipts, parts, flying,
                 gc, pass, outages, crashes>>

\* A probe, a conversion or an object fails.
Breaks(a, n) ==
  /\ run[a][n].at \in {"claimed", "assembled", "produced"}
  /\ Go(a, n, "failing")
  /\ UNCHANGED <<job, published, uploadVars>>

\* finalizeWinningClaim, and the transaction at the end of materializeMediaClip,
\* which throws where the other returns false.
Finalize(a, n) ==
  /\ At(a, n, "produced")
  /\ \/ /\ Holds(a, n) /\ asset[a] = "PROCESSING"
        /\ asset' = [asset EXCEPT ![a] = "READY"]
        /\ published' = [published EXCEPT ![a] = n]
        /\ job' = [job EXCEPT ![a].status = "SUCCEEDED", ![a].token = 0]
        /\ gc' = IF a \in Upload THEN Scheduled(gc, PartsOf(a), "processed") ELSE gc
        /\ Go(a, n, "won")
     \/ /\ ~Holds(a, n)
        /\ Go(a, n, IF a \in Upload THEN "lost" ELSE "failing")
        /\ UNCHANGED <<asset, published, job, gc>>
  /\ UNCHANGED <<session, overdue, kept, receipts, storage, pass, outages, crashes>>

\* The parts of an upload that was published; an error leaves them to the pass.
CollectParts(a, n) ==
  /\ At(a, n, "won") /\ a \in Upload
  /\ Go(a, n, "collected")
  /\ \/ /\ StorageWorks /\ RemoveParts(a)
        /\ gc' = [gc EXCEPT ![PartsOf(a)].status = IF @ = "PENDING" THEN "SUCCEEDED" ELSE @]
     \/ StorageFails /\ UNCHANGED <<parts, output, gc>>
  /\ UNCHANGED <<job, published, session, overdue, asset, kept, receipts, flying, pass, crashes>>

\* job.updateProgress(100): when the queue does not answer, the catch block runs for
\* a claim that has been published.
Report(a, n) ==
  /\ At(a, n, IF a \in Upload THEN "collected" ELSE "won")
  /\ \/ Go(a, n, "over") /\ UNCHANGED crashes
     \/ Dies /\ Go(a, n, "failing")
  /\ UNCHANGED <<job, published, session, overdue, asset, kept, receipts, storage, gc,
                 pass, outages>>

\* cleanClaimOutput
Cleaned(a, n) ==
  \/ StorageWorks /\ RemoveOutput(a, n) /\ UNCHANGED gc
  \/ /\ StorageFails /\ UNCHANGED <<parts, output>>
     /\ gc' = Scheduled(gc, OutputOf(a, n), "failed")

DropLost(a, n) ==
  /\ At(a, n, "lost")
  /\ Cleaned(a, n)
  /\ Go(a, n, "over")
  /\ UNCHANGED <<job, published, session, overdue, asset, kept, receipts, flying, pass, crashes>>

\* finishFailedClaim
FinishFailed(a, n) ==
  IF Holds(a, n)
  THEN IF job[a].attempts >= MaxAttempts
       THEN /\ job' = [job EXCEPT ![a].status = "FAILED", ![a].token = 0]
            /\ asset' = [asset EXCEPT ![a] = IF @ = "PROCESSING" THEN "FAILED" ELSE @]
       ELSE /\ job' = [job EXCEPT ![a].status = "QUEUED", ![a].token = 0, ![a].due = FALSE]
            /\ UNCHANGED asset
  ELSE UNCHANGED <<job, asset>>

\* The catch blocks: an upload's output goes before the claim is given up, a clip's
\* after, and without a task when the store fails.
FailUpload(a, n) ==
  /\ a \in Upload
  /\ \/ /\ At(a, n, "failing") /\ Cleaned(a, n) /\ Go(a, n, "cleaned")
        /\ UNCHANGED <<job, asset>>
     \/ /\ At(a, n, "cleaned") /\ FinishFailed(a, n) /\ Go(a, n, "failed")
        /\ UNCHANGED <<gc, parts, output, outages>>
  /\ UNCHANGED <<published, session, overdue, kept, receipts, flying, pass, crashes>>

FailClip(a, n) ==
  /\ a \in Clip
  /\ \/ /\ At(a, n, "failing") /\ FinishFailed(a, n) /\ Go(a, n, "finished")
        /\ UNCHANGED <<parts, output, outages>>
     \/ /\ At(a, n, "finished") /\ Go(a, n, "failed")
        /\ \/ StorageWorks /\ RemoveOutput(a, n)
           \/ StorageFails /\ UNCHANGED <<parts, output>>
        /\ UNCHANGED <<job, asset>>
  /\ UNCHANGED <<published, session, overdue, kept, receipts, flying, gc, pass, crashes>>

WorkerDies(a, n) ==
  /\ Alive(a, n) /\ Dies
  /\ Go(a, n, "dead")
  /\ UNCHANGED <<job, published, session, overdue, asset, kept, receipts, storage, gc,
                 pass, outages>>

-----------------------------------------------------------------------------

Init ==
  /\ UploadInit
  /\ job = [a \in Asset |-> None]
  /\ run = [a \in Asset |-> [n \in Claim |-> Fresh]]
  /\ published = [a \in Asset |-> 0]

Work(a, n) ==
  \/ Assemble(a, n) \/ Produce(a, n) \/ Finalize(a, n) \/ CollectParts(a, n)
  \/ Report(a, n) \/ DropLost(a, n) \/ FailUpload(a, n) \/ FailClip(a, n)

Next ==
  \/ \E u \in Upload : OwnerStep(u) /\ UNCHANGED jobVars
  \/ \E a \in Asset : (Archive(a) \/ Restore(a)) /\ UNCHANGED jobVars
  \/ (PassStep \/ PassDies) /\ UNCHANGED jobVars
  \/ \E u \in Upload : CompleteUpload(u)
  \/ \E c \in Clip : RequestClip(c)
  \/ \E a \in Asset : BecomesDue(a) \/ ClaimJob(a)
  \/ \E a \in Asset, n \in Claim :
       Renew(a, n) \/ Work(a, n) \/ Breaks(a, n) \/ WorkerDies(a, n)

Spec == Init /\ [][Next]_vars

\* Workers run, the dispatcher's timer brings every due job to one, and time passes.
LiveSpec ==
  /\ Spec
  /\ WF_vars(\E a \in Asset : BecomesDue(a))
  /\ WF_vars(\E a \in Asset : ClaimJob(a))
  /\ WF_vars(\E a \in Asset, n \in Claim : Work(a, n))

\* The hourly pass is taken from its beginning to its end, again and again.
PassSpec == Spec /\ WF_vars(PassStep /\ UNCHANGED jobVars)

-----------------------------------------------------------------------------
(* What the asset promises *)

TypeOK ==
  /\ session \in [Upload -> {"none", "INITIATED", "UPLOADING", "COMPLETE", "ABORTED", "EXPIRED"}]
  /\ overdue \in SUBSET Upload
  /\ asset \in [Asset -> {"none", "UPLOADING", "PROCESSING", "READY", "FAILED",
                          "ARCHIVED", "DELETED"}]
  /\ kept \in [Asset -> {"READY", "FAILED", None}]
  /\ receipts \in [Upload -> [Part -> Content \cup {None}]]
  /\ parts \in [Upload -> [Part -> Content \cup {None}]]
  /\ flying \in [Upload -> (Part \X Content) \cup {None}]
  /\ output \in [Asset -> SUBSET Claim]
  /\ gc \in [Prefix -> Task \cup {None}]
  /\ pass \in Pass
  /\ outages \in 0 .. MaxOutages /\ crashes \in 0 .. MaxCrashes
  /\ job \in [Asset -> Job \cup {None}]
  /\ run \in [Asset -> [Claim -> Run]]
  /\ published \in [Asset -> 0 .. MaxAttempts]

\* What is, or was before it was archived, playable.
Playable(a) == asset[a] = "READY" \/ kept[a] = "READY"

\* A playable asset's objects are in the store: no worker that lost its claim, no
\* retry and no garbage collection takes them away.  The one that published them can:
\* its catch block does not know that it has (processMediaJob, materializeMediaClip).
PlayableHasObjects ==
  \A a \in Asset : Playable(a) =>
    LET winner == published[a]
    IN  /\ winner # 0
        /\ winner \in output[a] \/ run[a][winner].at \in {"cleaned", "finished", "failed", "dead"}

\* What an upload's variants are made of is what its receipts record, whatever was
\* sent twice, rolled back or stored late.
PlayableFromReceipts ==
  \A u \in Upload : Playable(u) => run[u][published[u]].bytes = receipts[u]

\* The parts of an upload stay until its job has succeeded: a worker that claims it
\* again finds all of them.
PartsKept ==
  \A u \in Upload : asset[u] = "PROCESSING" => \A p \in Part : parts[u][p] # None

\* A claim is ended by the worker that holds it, or taken over once its lease has
\* lapsed: a worker that lost it neither publishes nor fails the job in its successor's
\* place, however late it finishes.
ClaimEndedByHolder ==
  [][ \A a \in Asset, n \in Claim :
        job[a] # None /\ job[a].token = n /\ job'[a].token # n =>
          run'[a][n] # run[a][n] \/ (job[a].due /\ job'[a].token > n) ]_vars

\* A job is decided: its asset leaves PROCESSING, unless the worker of the last
\* attempt died, after which nothing claims it.
JobDecided ==
  \A a \in Asset :
    asset[a] = "PROCESSING" ~>
      asset[a] # "PROCESSING" \/ run[a][MaxAttempts].at = "dead"

\* The cleanup that an abort schedules is carried out, once the store works again.
AbortedCollected ==
  \A u \in Upload :
    session[u] = "ABORTED" ~> gc[PartsOf(u)] # None /\ gc[PartsOf(u)].status = "SUCCEEDED"

\* What becomes of a cleanup that failed max_attempts times: nothing, ever.  No later
\* pass, abort or worker records it again, so what it was to remove stays scheduled.
Exhausted(x) == gc[x] # None /\ gc[x].status = "FAILED" /\ gc[x].attempts = GcAttempts
ExhaustedForGood == [][\A x \in Prefix : Exhausted(x) => gc'[x] = gc[x]]_vars

-----------------------------------------------------------------------------
(* The library that the rows, the claims and the objects implement *)

\* Put away by its owner, not given up as an upload.
Shelved(a) == asset[a] = "ARCHIVED" /\ kept[a] # None

\* Where an asset is for its owner.
StageOf(a) ==
  LET status == IF Shelved(a) THEN kept[a] ELSE asset[a]
  IN  CASE status = "none" -> "none"
        [] status = "UPLOADING" -> "reserved"
        [] status = "PROCESSING" -> "pending"
        [] status = "READY" -> "playable"
        [] status = "FAILED" -> "failed"
        [] status = "ARCHIVED" -> "dropped"
        [] status = "DELETED" -> "gone"

Stages == [a \in Asset |-> StageOf(a)]
ShelvedAssets == {a \in Asset : Shelved(a)}
Sources == [a \in Asset |->
              IF a \in Upload /\ session[a] = "COMPLETE" THEN receipts[a] ELSE None]
Contents == [a \in Asset |->
              IF published[a] = 0 THEN None ELSE run[a][published[a]].bytes]

Catalogue == INSTANCE MediaLibrary WITH
  Source <- [Part -> Content], Attempt <- Claim, Nothing <- None,
  stage <- Stages, shelved <- ShelvedAssets, source <- Sources,
  version <- published, content <- Contents

\* Uploads, claims that are lost and taken over, retries, expiry and the collection of
\* garbage are, for the owner, steps of MediaLibrary or nothing at all: no asset is
\* decided twice, none plays anything but what was received, and the quota holds.
ImplementsLibrary == Catalogue!Spec
=============================================================================
