---------------------------- MODULE MediaUploads ----------------------------
(***************************************************************************)
(* Canonical media of one station: the owner's resumable uploads           *)
(* (lib/media-uploads.ts), archiving and clips (lib/media-assets.ts,       *)
(* lib/media-clips.ts), and the hourly pass that expires reservations and  *)
(* collects garbage (lib/maintenance.ts).                                  *)
(*                                                                         *)
(* Every route locks the rows it changes, so a transaction is one step.    *)
(* The pass is not a transaction: each of its statements commits alone.    *)
(* The object store takes part in no transaction at all: a part can be     *)
(* stored and its receipt rolled back, and a PUT whose database session    *)
(* died can land long after its row lock is gone.                          *)
(***************************************************************************)
EXTENDS Integers, FiniteSets

CONSTANTS
  Upload,      \* assets that come from an upload, each with its one session
  Clip,        \* assets cut out of another asset
  Library,     \* TRUE: other audio of the station can be cut too
  Part,        \* the parts of every upload
  Content,     \* what the bytes of a part can be
  Limit,       \* assets the station's quota has room for
  MaxAttempts, \* media_processing_jobs.max_attempts
  GcAttempts,  \* media_gc_tasks.max_attempts (a CHECK of the table)
  None,        \* SQL NULL, an object that does not exist
  MaxOutages,  \* bound: requests the object store fails
  MaxCrashes   \* bound: processes that die

Asset == Upload \cup Clip
Claim == 1 .. MaxAttempts  \* the n-th claim of a job draws the n-th token

ASSUME MediaAssumption ==
  /\ Upload \cap Clip = {} /\ Library \in BOOLEAN /\ Part # {}
  /\ Limit \in Nat /\ MaxAttempts \in Nat \ {0} /\ GcAttempts \in Nat \ {0}
  /\ MaxOutages \in Nat /\ MaxCrashes \in Nat

VARIABLES
  session,  \* media_upload_sessions.status of each upload
  overdue,  \* the uploads whose expires_at has passed
  asset,    \* media_assets.status
  kept,     \* media_assets.archived_from_status
  receipts, \* media_upload_parts: the checksum recorded for each part
  parts,    \* the objects under each upload's prefix
  flying,   \* flying[u]: a PUT that outlived its transaction, or None
  output,   \* output[a]: the claims of a whose prefix holds objects
  gc,       \* media_gc_tasks, by prefix
  pass,     \* the maintenance pass under way
  outages, crashes

storage == <<parts, flying, output>>
uploadVars == <<session, overdue, asset, kept, receipts, parts, flying, output,
                gc, pass, outages, crashes>>

\* A prefix of the object store: the parts of an upload, or what one claim produced.
PartsOf(u) == <<u, 0>>
OutputOf(a, claim) == <<a, claim>>
Prefix == {PartsOf(u) : u \in Upload} \cup (Asset \X Claim)

Task == [status : {"PENDING", "FAILED", "SUCCEEDED"}, attempts : 0 .. GcAttempts,
         reason : {"aborted", "expired", "processed", "failed"}]
ASSUME NullAssumption == None \notin Content \cup Task \cup {"READY", "FAILED"}

Idle == [at |-> "idle"]
Pass ==      {Idle}
        \cup [at : {"archive"}, todo : SUBSET Upload]
        \cup [at : {"schedule"}, todo : SUBSET Upload, upload : Upload]
        \cup [at : {"collect"}, todo : SUBSET Prefix]
        \cup [at : {"settle", "release"}, todo : SUBSET Prefix, prefix : Prefix]

-----------------------------------------------------------------------------
(* The quota, garbage tasks and prefixes *)

HoldsQuota(a) == asset[a] \notin {"none", "DELETED"}
StorageAvailable == Cardinality({a \in Asset : HoldsQuota(a)}) < Limit

\* INSERT ... ON CONFLICT DO NOTHING
Scheduled(tasks, prefix, reason) ==
  IF tasks[prefix] # None THEN tasks
  ELSE [tasks EXCEPT ![prefix] = [status |-> "PENDING", attempts |-> 0, reason |-> reason]]

NoParts == [p \in Part |-> None]

\* removePrefix
RemoveParts(u) == parts' = [parts EXCEPT ![u] = NoParts] /\ UNCHANGED output
RemoveOutput(a, claim) == output' = [output EXCEPT ![a] = @ \ {claim}] /\ UNCHANGED parts
RemovePrefix(prefix) ==
  IF prefix[2] = 0 THEN RemoveParts(prefix[1]) ELSE RemoveOutput(prefix[1], prefix[2])

StorageFails == outages < MaxOutages /\ outages' = outages + 1
StorageWorks == UNCHANGED outages
Dies == crashes < MaxCrashes /\ crashes' = crashes + 1

-----------------------------------------------------------------------------
(* The owner's routes *)

\* Mutant: a session that is complete too.
ActiveUnlessOverdue(u) == session[u] \notin {"none", "ABORTED", "EXPIRED"} /\ u \notin overdue
Active(u) == session[u] \in {"INITIATED", "UPLOADING"} /\ u \notin overdue

Initiate(u) ==
  /\ session[u] = "none"
  /\ StorageAvailable
  /\ session' = [session EXCEPT ![u] = "INITIATED"]
  /\ asset' = [asset EXCEPT ![u] = "UPLOADING"]
  /\ UNCHANGED <<overdue, kept, receipts, storage, gc, pass, outages, crashes>>

Put(u, p, content) ==
  parts' = [parts EXCEPT ![u][p] = content] /\ UNCHANGED <<flying, output>>

\* Stored and receipted; stored and rolled back; or the database session dies while
\* the PUT is under way, which goes on without its lock.
WritePart(u, p, content) ==
  /\ Active(u)
  /\ UNCHANGED <<overdue, asset, kept, gc, pass, outages>>
  /\ \/ /\ Put(u, p, content)
        /\ receipts' = [receipts EXCEPT ![u][p] = content]
        /\ session' = [session EXCEPT ![u] = "UPLOADING"]
        /\ UNCHANGED crashes
     \/ Dies /\ Put(u, p, content) /\ UNCHANGED <<receipts, session>>
     \/ /\ Dies
        /\ flying[u] = None /\ flying' = [flying EXCEPT ![u] = <<p, content>>]
        /\ UNCHANGED <<receipts, session, parts, output>>

LandPut(u) ==
  /\ flying[u] # None
  /\ parts' = [parts EXCEPT ![u][flying[u][1]] = flying[u][2]]
  /\ flying' = [flying EXCEPT ![u] = None]
  /\ UNCHANGED <<session, overdue, asset, kept, receipts, output, gc, pass, outages, crashes>>

\* verifyReceipts and verifyStoredParts
Verified(u) == \A p \in Part : receipts[u][p] # None /\ parts[u][p] = receipts[u][p]

\* completeOwnerMediaUpload, without the job it inserts.
Complete(u) ==
  /\ Active(u) /\ Verified(u)
  /\ asset[u] = "UPLOADING"
  /\ session' = [session EXCEPT ![u] = "COMPLETE"]
  /\ asset' = [asset EXCEPT ![u] = "PROCESSING"]
  /\ UNCHANGED <<overdue, kept, receipts, storage, gc, pass, outages, crashes>>

\* Mutant: a completed session too.
AbortableIfStarted(u) == session[u] \notin {"none", "ABORTED"}
Abortable(u) == session[u] \in {"INITIATED", "UPLOADING", "EXPIRED", "FAILED"}
Abort(u) ==
  /\ Abortable(u)
  /\ session' = [session EXCEPT ![u] = "ABORTED"]
  /\ asset' = [asset EXCEPT ![u] = IF @ \in {"UPLOADING", "FAILED"} THEN "ARCHIVED" ELSE @]
  /\ gc' = Scheduled(gc, PartsOf(u), "aborted")
  /\ UNCHANGED <<overdue, kept, receipts, storage, pass, outages, crashes>>

\* createMediaClip, without the job it inserts: the parent must be playable.
CreateClip(c) ==
  /\ asset[c] = "none"
  /\ Library \/ \E a \in Asset : asset[a] = "READY"
  /\ StorageAvailable
  /\ asset' = [asset EXCEPT ![c] = "PROCESSING"]
  /\ UNCHANGED <<session, overdue, kept, receipts, storage, gc, pass, outages, crashes>>

\* updateOwnerMediaAsset
Archive(a) ==
  /\ asset[a] \in {"READY", "FAILED"}
  /\ asset' = [asset EXCEPT ![a] = "ARCHIVED"]
  /\ kept' = [kept EXCEPT ![a] = asset[a]]
  /\ UNCHANGED <<session, overdue, receipts, storage, gc, pass, outages, crashes>>

Restore(a) ==
  /\ asset[a] = "ARCHIVED" /\ kept[a] # None
  /\ asset' = [asset EXCEPT ![a] = kept[a]]
  /\ kept' = [kept EXCEPT ![a] = None]
  /\ UNCHANGED <<session, overdue, receipts, storage, gc, pass, outages, crashes>>

\* Twenty-four hours pass.
Overdue(u) ==
  /\ session[u] \in {"INITIATED", "UPLOADING"} /\ u \notin overdue
  /\ overdue' = overdue \cup {u}
  /\ UNCHANGED <<session, asset, kept, receipts, storage, gc, pass, outages, crashes>>

-----------------------------------------------------------------------------
(* The maintenance pass, under its advisory lock *)

BeginPass ==
  /\ pass = Idle
  /\ LET expired == {u \in overdue : session[u] \in {"INITIATED", "UPLOADING"}}
     IN  /\ session' = [u \in Upload |-> IF u \in expired THEN "EXPIRED" ELSE session[u]]
         /\ pass' = [at |-> "archive", todo |-> expired]
  /\ UNCHANGED <<overdue, asset, kept, receipts, storage, gc, outages, crashes>>

ArchiveExpired(u) ==
  /\ pass.at = "archive" /\ u \in pass.todo
  /\ asset' = [asset EXCEPT ![u] = IF @ = "UPLOADING" THEN "ARCHIVED" ELSE @]
  /\ pass' = [at |-> "schedule", todo |-> pass.todo \ {u}, upload |-> u]
  /\ UNCHANGED <<session, overdue, kept, receipts, storage, gc, outages, crashes>>

ScheduleExpired ==
  /\ pass.at = "schedule"
  /\ gc' = Scheduled(gc, PartsOf(pass.upload), "expired")
  /\ pass' = [at |-> "archive", todo |-> pass.todo]
  /\ UNCHANGED <<session, overdue, asset, kept, receipts, storage, outages, crashes>>

SelectTasks ==
  /\ pass.at = "archive" /\ pass.todo = {}
  /\ pass' = [at |-> "collect",
              todo |-> {x \in Prefix : gc[x] # None /\ gc[x].status \in {"PENDING", "FAILED"}}]
  /\ UNCHANGED <<session, overdue, asset, kept, receipts, storage, gc, outages, crashes>>

\* attempt_count + 1 beyond max_attempts violates the table's CHECK, in the UPDATE
\* that records a failure and in the one that records a success: the error leaves
\* runMaintenance, and with it everything the pass had still to do.
Recorded(prefix, status, next) ==
  IF gc[prefix].attempts < GcAttempts
  THEN /\ gc' = [gc EXCEPT ![prefix].status = status, ![prefix].attempts = @ + 1]
       /\ pass' = next
  ELSE UNCHANGED gc /\ pass' = Idle

Collect(prefix) ==
  /\ pass.at = "collect" /\ prefix \in pass.todo
  /\ LET rest == pass.todo \ {prefix}
     IN  \/ /\ StorageWorks /\ RemovePrefix(prefix)
            /\ pass' = [at |-> "settle", todo |-> rest, prefix |-> prefix]
            /\ UNCHANGED gc
         \/ /\ StorageFails /\ UNCHANGED <<parts, output>>
            /\ Recorded(prefix, "FAILED", [at |-> "collect", todo |-> rest])
  /\ UNCHANGED <<session, overdue, asset, kept, receipts, flying, crashes>>

Settle ==
  /\ pass.at = "settle"
  /\ Recorded(pass.prefix, "SUCCEEDED", [pass EXCEPT !.at = "release"])
  /\ UNCHANGED <<session, overdue, asset, kept, receipts, storage, outages, crashes>>

\* The quota of a reservation nobody completed.
Release ==
  /\ pass.at = "release"
  /\ asset' = [asset EXCEPT ![pass.prefix[1]] =
                 IF gc[pass.prefix].reason \in {"aborted", "expired"} /\ @ = "ARCHIVED"
                 THEN "DELETED" ELSE @]
  /\ pass' = [at |-> "collect", todo |-> pass.todo]
  /\ UNCHANGED <<session, overdue, kept, receipts, storage, gc, outages, crashes>>

EndPass ==
  /\ pass.at = "collect" /\ pass.todo = {}
  /\ pass' = Idle
  /\ UNCHANGED <<session, overdue, asset, kept, receipts, storage, gc, outages, crashes>>

PassDies ==
  /\ pass # Idle /\ Dies
  /\ pass' = Idle
  /\ UNCHANGED <<session, overdue, asset, kept, receipts, storage, gc, outages>>

-----------------------------------------------------------------------------

UploadInit ==
  /\ session = [u \in Upload |-> "none"]
  /\ overdue = {}
  /\ asset = [a \in Asset |-> "none"]
  /\ kept = [a \in Asset |-> None]
  /\ receipts = [u \in Upload |-> NoParts]
  /\ parts = [u \in Upload |-> NoParts]
  /\ flying = [u \in Upload |-> None]
  /\ output = [a \in Asset |-> {}]
  /\ gc = [x \in Prefix |-> None]
  /\ pass = Idle
  /\ outages = 0 /\ crashes = 0

OwnerStep(u) ==
  \/ Initiate(u) \/ Abort(u) \/ LandPut(u) \/ Overdue(u)
  \/ \E p \in Part, content \in Content : WritePart(u, p, content)

PassStep ==
  \/ BeginPass \/ ScheduleExpired \/ SelectTasks \/ Settle \/ Release \/ EndPass
  \/ \E u \in Upload : ArchiveExpired(u)
  \/ \E prefix \in Prefix : Collect(prefix)
=============================================================================
