----------------------------- MODULE ImageStore -----------------------------
(***************************************************************************)
(* Entity photos in S3 and their garbage (app/services/image_service.py,   *)
(* app/jobs/image_cleanup.py and the photo keys of                         *)
(* app/services/sync/changes.py): uploads put an object before the         *)
(* database transaction that refers to it, replaced keys are queued in     *)
(* orphaned_images, a daily job deletes the objects queued for longer than *)
(* the grace period, and a weekly job queues the objects nobody refers to. *)
(***************************************************************************)
EXTENDS Integers, FiniteSets

CONSTANTS
    Requests,     \* concurrent upload and sync requests
    Photos,       \* rows with a photo_key or an avatar_key
    Avatars,      \* those that are users
    Keys,         \* S3 keys that build_object_key will generate
    AvatarKeys,   \* those under avatars/
    NoKey,
    Grace,        \* ORPHAN_GRACE_PERIOD_DAYS, in ticks
    BatchSize,    \* CLEANUP_BATCH_SIZE
    MaxTrouble    \* bound: failed requests, S3 errors and killed jobs

ASSUME ImageStoreAssumption ==
    /\ Avatars \subseteq Photos
    /\ AvatarKeys \subseteq Keys
    /\ NoKey \notin Keys
    /\ Grace \in Nat \ {0} /\ BatchSize \in Nat \ {0} /\ MaxTrouble \in Nat

VARIABLES
    photo,      \* photo[x]: committed photo_key or avatar_key of the row
    status,     \* status[x]: "live", "deleted" (soft), "gone" (GDPR)
    bucket,     \* objects in S3
    used,       \* keys generated so far
    known,      \* keys the API has shown to clients
    queued,     \* queued[k]: age of k's oldest orphaned_images row, -1 without one
    req,        \* req[r]: the request's transaction
    clean,      \* image_cleanup_job
    recon,      \* s3_reconciliation_job
    ran,        \* jobs that have run today
    doubtful,   \* history: superseded keys that a client put back, and keys of
                \* uploads that were under way when the weekly job queued them
    trouble

rows == <<photo, status, known>>
vars == <<rows, bucket, used, queued, req, clean, recon, ran, doubtful, trouble>>

Ages == -1..Grace
IdleReq == [stage |-> "idle", x |-> NoKey, key |-> NoKey, old |-> NoKey]
IdleClean == [stage |-> "idle", batch |-> {}, done |-> {}]
IdleRecon == [stage |-> "idle", shown |-> {}, known |-> {}, pending |-> {}]

Fits(x, k) == k = NoKey \/ (k \in AvatarKeys <=> x \in Avatars)
Referenced(k) == \E x \in Photos : photo[x] = k
InFlight(k) == \E r \in Requests : req[r].stage # "idle" /\ req[r].key = k

\* Row locks: taken by FOR UPDATE or by the flushed UPDATE.
RowFree(x) == \A r \in Requests : ~(req[r].stage = "commit" /\ req[r].x = x)
Exists(x) == status[x] # "gone"

\* register_orphaned: a second row of a key is never the older one.
Enqueued(S) == [k \in Keys |-> IF k \in S /\ queued[k] = -1 THEN 0 ELSE queued[k]]

-----------------------------------------------------------------------------
Init ==
    /\ photo = [x \in Photos |-> NoKey]
    /\ status \in [Photos -> {"live", "gone"}]
    /\ bucket = {} /\ used = {} /\ known = {}
    /\ queued = [k \in Keys |-> -1]
    /\ req = [r \in Requests |-> IdleReq]
    /\ clean = IdleClean /\ recon = IdleRecon
    /\ ran = {} /\ doubtful = {} /\ trouble = 0

-----------------------------------------------------------------------------
(* Uploads (upload_image). *)

\* Authentication and access check.  The session keeps the user it has loaded,
\* and FOR UPDATE without populate_existing does not refresh it.
BeginUpload(r, x) ==
    /\ req[r].stage = "idle"
    /\ status[x] = "live"
    /\ req' = [req EXCEPT ![r] = [stage |-> "put", x |-> x, key |-> NoKey,
                                 old |-> IF x \in Avatars THEN photo[x] ELSE NoKey]]
    /\ UNCHANGED <<rows, bucket, used, queued, clean, recon, ran, doubtful, trouble>>

\* build_object_key: a key never used before.
FreshKeys(x) == {k \in Keys \ used : Fits(x, k)}
NewKey(x)    == CHOOSE k \in FreshKeys(x) : TRUE

\* put_object, before the row is locked.
Put(r) ==
    /\ req[r].stage = "put"
    /\ FreshKeys(req[r].x) # {}
    /\ LET k == NewKey(req[r].x) IN
          /\ used' = used \cup {k}
          /\ bucket' = bucket \cup {k}
          /\ req' = [req EXCEPT ![r].key = k, ![r].stage = "lock"]
    /\ UNCHANGED <<rows, queued, clean, recon, ran, doubtful, trouble>>

\* _update_entity_photo_key: the old key it will queue.
LockRow(r) ==
    LET x == req[r].x IN
    /\ req[r].stage = "lock"
    /\ Exists(x) /\ RowFree(x)
    /\ req' = [req EXCEPT ![r].old = IF x \in Avatars THEN @ ELSE photo[x],
                          ![r].stage = "commit"]
    /\ UNCHANGED <<rows, bucket, used, queued, clean, recon, ran, doubtful, trouble>>

-----------------------------------------------------------------------------
(* Photo keys in sync payloads and in PUT /users/me. *)

\* Keys a device may still hold.  Sync checks the entity type of a key, the profile
\* update nothing; the apps send a key of the right type.
Sendable(x) == {k \in known \cup {NoKey} : Fits(x, k)}

\* The row is read without a lock.
BeginSync(r, x) ==
    /\ req[r].stage = "idle"
    /\ x \notin Avatars /\ Exists(x)
    /\ \E k \in Sendable(x) :
          req' = [req EXCEPT ![r] = [stage |-> "write", x |-> x, key |-> k, old |-> photo[x]]]
    /\ UNCHANGED <<rows, bucket, used, queued, clean, recon, ran, doubtful, trouble>>

\* The flush takes the row lock; a row deleted meanwhile fails it.
SyncWrite(r) ==
    /\ req[r].stage = "write"
    /\ Exists(req[r].x) /\ RowFree(req[r].x)
    /\ req' = [req EXCEPT ![r].stage = "commit"]
    /\ UNCHANGED <<rows, bucket, used, queued, clean, recon, ran, doubtful, trouble>>

\* _apply_user_profile_change reads the user under the lock.
SyncAvatar(r, x) ==
    /\ req[r].stage = "idle"
    /\ x \in Avatars /\ status[x] = "live" /\ RowFree(x)
    /\ \E k \in Sendable(x) :
          req' = [req EXCEPT ![r] = [stage |-> "commit", x |-> x, key |-> k, old |-> photo[x]]]
    /\ UNCHANGED <<rows, bucket, used, queued, clean, recon, ran, doubtful, trouble>>

\* Wrong: the new key is queued.
DropsNew(old, k) == {k} \ {NoKey}

\* What a transaction that finds key old queues when it writes key k.
Dropped(old, k) == IF old \in {NoKey, k} THEN {} ELSE {old}
Returned(old, k) == IF k \in {NoKey, old} THEN {} ELSE {k}

\* The UPDATE is not sent when the session sees no change.
Commit(r) ==
    LET x == req[r].x  k == req[r].key  old == req[r].old IN
    /\ req[r].stage = "commit"
    /\ photo' = [photo EXCEPT ![x] = IF k = old THEN @ ELSE k]
    /\ queued' = Enqueued(Dropped(old, k))
    /\ known' = known \cup ({k} \ {NoKey})
    /\ doubtful' = doubtful \cup (Returned(old, k) \cap known)
    /\ req' = [req EXCEPT ![r] = IdleReq]
    /\ UNCHANGED <<status, bucket, used, clean, recon, ran, trouble>>

\* update_current_user_profile queues nothing.
PutProfile(x) ==
    /\ x \in Avatars /\ status[x] = "live" /\ RowFree(x)
    /\ \E k \in Sendable(x) :
          /\ photo' = [photo EXCEPT ![x] = k]
          /\ doubtful' = doubtful \cup Returned(photo[x], k)
    /\ UNCHANGED <<status, known, bucket, used, queued, req, clean, recon, ran, trouble>>

-----------------------------------------------------------------------------
(* Deletion of entities. *)

SoftDelete(x) ==
    /\ status[x] = "live" /\ RowFree(x)
    /\ status' = [status EXCEPT ![x] = "deleted"]
    /\ UNCHANGED <<photo, known, bucket, used, queued, req, clean, recon, ran, doubtful, trouble>>

\* delete_user_data removes rows and queues nothing.
Erase(x) ==
    /\ Exists(x) /\ RowFree(x)
    /\ status' = [status EXCEPT ![x] = "gone"]
    /\ photo' = [photo EXCEPT ![x] = NoKey]
    /\ UNCHANGED <<known, bucket, used, queued, req, clean, recon, ran, doubtful, trouble>>

-----------------------------------------------------------------------------
(* image_cleanup_job. *)

CleanupStart ==
    /\ clean.stage = "idle" /\ "clean" \notin ran
    /\ clean' = [clean EXCEPT !.stage = "fetch"]
    /\ ran' = ran \cup {"clean"}
    /\ UNCHANGED <<rows, bucket, used, queued, req, recon, doubtful, trouble>>

\* Rows past the cutoff; no row reaches it while the job runs.
Expired == {k \in Keys : queued[k] = Grace}

FetchBatch ==
    /\ clean.stage = "fetch"
    /\ \/ /\ Expired = {}
          /\ clean' = IdleClean
       \/ \E B \in SUBSET Expired :
             /\ B # {} /\ Cardinality(B) <= BatchSize
             /\ Cardinality(B) < BatchSize => B = Expired
             /\ clean' = [clean EXCEPT !.stage = "delete", !.batch = B, !.done = {}]
    /\ UNCHANGED <<rows, bucket, used, queued, req, recon, ran, doubtful, trouble>>

DeleteObject(k) ==
    /\ clean.stage = "delete" /\ k \in clean.batch \ clean.done
    /\ bucket' = bucket \ {k}
    /\ clean' = [clean EXCEPT !.done = @ \cup {k}]
    /\ UNCHANGED <<rows, used, queued, req, recon, ran, doubtful, trouble>>

\* Wrong: every row past the cutoff goes.
RemovesExpired == Expired

\* The rows of succeeded_ids go; a batch without any ends the job.
Removed == clean.done

EndBatch ==
    /\ clean.stage = "delete" /\ clean.done = clean.batch
    /\ queued' = [k \in Keys |-> IF k \in Removed THEN -1 ELSE queued[k]]
    /\ clean' = IF clean.done = {} THEN IdleClean
                ELSE [IdleClean EXCEPT !.stage = "fetch"]
    /\ UNCHANGED <<rows, bucket, used, req, recon, ran, doubtful, trouble>>

-----------------------------------------------------------------------------
(* s3_reconciliation_job. *)

\* Wrong: soft-deleted rows are forgotten.
LivePhotoKeys == {photo[x] : x \in {x \in Photos : status[x] = "live"}} \ {NoKey}

\* Keys of all rows, soft-deleted ones included.
PhotoKeys == {photo[x] : x \in {x \in Photos : Exists(x)}} \ {NoKey}

ReadPhotos ==
    /\ recon.stage = "idle" /\ "recon" \notin ran
    /\ recon' = [stage |-> "orphans", known |-> PhotoKeys, pending |-> {},
                 shown |-> {k \in Keys : Referenced(k)}]
    /\ ran' = ran \cup {"recon"}
    /\ UNCHANGED <<rows, bucket, used, queued, req, clean, doubtful, trouble>>

ReadOrphans ==
    /\ recon.stage = "orphans"
    /\ recon' = [recon EXCEPT !.stage = "list", !.known = @ \cup {k \in Keys : queued[k] # -1}]
    /\ UNCHANGED <<rows, bucket, used, queued, req, clean, ran, doubtful, trouble>>

\* Wrong: avatars/ is not scanned.
ListsEntities == bucket \ AvatarKeys

\* The listing covers every prefix.
Listed == bucket

ListObjects ==
    /\ recon.stage = "list"
    /\ recon' = [recon EXCEPT !.stage = "flush", !.known = {}, !.pending = Listed \ recon.known]
    /\ UNCHANGED <<rows, bucket, used, queued, req, clean, ran, doubtful, trouble>>

Flush ==
    /\ recon.stage = "flush"
    /\ queued' = Enqueued(recon.pending)
    /\ doubtful' = doubtful \cup
          {k \in recon.pending \ recon.shown : Referenced(k) \/ InFlight(k)}
    /\ recon' = IdleRecon
    /\ UNCHANGED <<rows, bucket, used, req, clean, ran, trouble>>

-----------------------------------------------------------------------------
(* Time and failures. *)

\* A day passes; the jobs end on the day they began.
Tick ==
    /\ clean = IdleClean /\ recon = IdleRecon
    /\ ran' = {}
    /\ queued' = [k \in Keys |-> IF queued[k] \in 0..Grace - 1 THEN queued[k] + 1 ELSE queued[k]]
    /\ UNCHANGED <<rows, bucket, used, req, clean, recon, doubtful, trouble>>

Troubled == trouble < MaxTrouble /\ trouble' = trouble + 1

\* Rollback; an object already put stays in S3.
Fail(r) ==
    /\ req[r].stage # "idle"
    /\ \/ Troubled
       \/ UNCHANGED trouble /\ req[r].stage \in {"lock", "write"} /\ ~Exists(req[r].x)
    /\ req' = [req EXCEPT ![r] = IdleReq]
    /\ UNCHANGED <<rows, bucket, used, queued, clean, recon, ran, doubtful>>

\* One delete_object fails; the others of the batch go on.
DeleteFails(k) ==
    /\ Troubled
    /\ clean.stage = "delete" /\ k \in clean.batch \ clean.done
    /\ clean' = [clean EXCEPT !.batch = @ \ {k}]
    /\ UNCHANGED <<rows, bucket, used, queued, req, recon, ran, doubtful>>

\* The worker is killed or the database is away.
JobDies ==
    /\ Troubled
    /\ \/ clean # IdleClean /\ clean' = IdleClean /\ UNCHANGED recon
       \/ recon # IdleRecon /\ recon' = IdleRecon /\ UNCHANGED clean
    /\ UNCHANGED <<rows, bucket, used, queued, req, ran, doubtful>>

-----------------------------------------------------------------------------
Serves(r) == Put(r) \/ LockRow(r) \/ SyncWrite(r) \/ Commit(r)

CleanupStep == CleanupStart \/ FetchBatch \/ EndBatch \/ \E k \in Keys : DeleteObject(k)
ReconStep   == ReadPhotos \/ ReadOrphans \/ ListObjects \/ Flush

Next ==
    \/ \E r \in Requests :
          \/ \E x \in Photos : BeginUpload(r, x) \/ BeginSync(r, x) \/ SyncAvatar(r, x)
          \/ Serves(r) \/ Fail(r)
    \/ \E x \in Photos : PutProfile(x) \/ SoftDelete(x) \/ Erase(x)
    \/ CleanupStep \/ ReconStep \/ Tick
    \/ \E k \in Keys : DeleteFails(k)
    \/ JobDies

Spec == Init /\ [][Next]_vars

\* Requests end, time passes, and the scheduler runs both jobs again and again.
Fairness ==
    /\ \A r \in Requests : WF_vars(Serves(r) \/ Fail(r))
    /\ WF_vars(CleanupStep) /\ WF_vars(ReconStep) /\ WF_vars(Tick)

-----------------------------------------------------------------------------
(* Properties. *)

\* Rows, queue, requests and jobs keep their types.
TypeOK ==
    /\ photo \in [Photos -> Keys \cup {NoKey}]
    /\ status \in [Photos -> {"live", "deleted", "gone"}]
    /\ bucket \subseteq used /\ used \subseteq Keys /\ known \subseteq used
    /\ queued \in [Keys -> Ages]
    /\ req \in [Requests -> [stage : {"idle", "put", "lock", "write", "commit"},
                             x : Photos \cup {NoKey}, key : Keys \cup {NoKey},
                             old : Keys \cup {NoKey}]]
    /\ clean \in [stage : {"idle", "fetch", "delete"},
                  batch : SUBSET Keys, done : SUBSET Keys]
    /\ recon \in [stage : {"idle", "orphans", "list", "flush"}, shown : SUBSET Keys,
                  known : SUBSET Keys, pending : SUBSET Keys]
    /\ ran \subseteq {"clean", "recon"} /\ doubtful \subseteq used
    /\ trouble \in 0..MaxTrouble

\* A photo that a row shows is in the bucket, unless the weekly job queued it
\* while its upload was under way or a client put a superseded key back:
\* these are the only ways to lose a picture (image_cleanup.py, upload_image).
PhotosKept ==
    \A x \in Photos : photo[x] \in bucket \cup doubtful \cup {NoKey}

\* Images are safe: keys and queue are sound, and what a row shows is there.
ImageInv == TypeOK /\ PhotosKept

\* A row of orphaned_images goes only when its object is gone: a failed
\* delete, a dead job and a second batch never forget an object.
RowsOutliveObjects ==
    [][\A k \in Keys : queued[k] # -1 /\ queued'[k] = -1 => k \notin bucket']_vars

\* Whatever is uploaded, replaced, rolled back or erased, an object that no row
\* refers to is deleted in the end, or referred to again.
GarbageCollected ==
    \A k \in Keys : (k \in bucket /\ ~Referenced(k)) ~> (k \notin bucket \/ Referenced(k))
=============================================================================
