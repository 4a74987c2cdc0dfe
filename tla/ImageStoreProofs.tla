--------------------------- MODULE ImageStoreProofs ---------------------------
(* Proofs about ImageStore: a photo that a row shows is in the bucket but for *)
(* the two known races, and the queue never forgets an object, for any number *)
(* of requests, rows and keys.                                                *)
EXTENDS ImageStore, TLAPS

LEMMA Constants == NoKey \notin Keys /\ Grace \in Nat \ {0} /\ MaxTrouble \in Nat
BY ImageStoreAssumption

Request == [stage : {"idle", "put", "lock", "write", "commit"}, x : Photos \cup {NoKey},
            key : Keys \cup {NoKey}, old : Keys \cup {NoKey}]

\* Keys are generated before anything knows them; what rows and requests find in
\* rows was shown to clients; a batch is queued until its objects are gone.
KeysUsed ==
    /\ \A k \in Keys : queued[k] # -1 => k \in used
    /\ clean.batch \subseteq used /\ clean.done \subseteq used
    /\ clean.done \cap bucket = {}
    /\ \A k \in clean.batch \ clean.done : queued[k] # -1
    /\ recon.pending \subseteq used /\ recon.shown \subseteq known
    /\ \A x \in Photos : photo[x] \in known \cup {NoKey}
    /\ \A r \in Requests : req[r].key \in used \cup {NoKey} /\ req[r].old \in known \cup {NoKey}

\* A request works for a row, which stays until its transaction ends.
Requested ==
    \A r \in Requests :
       /\ req[r].stage # "idle" => req[r].x \in Photos
       /\ req[r].stage = "idle" => req[r].key = NoKey
       /\ req[r].stage = "commit" => Exists(req[r].x)

\* An erased row shows nothing.
GoneBare == \A x \in Photos : ~Exists(x) => photo[x] = NoKey

\* The weekly job never queues what a row showed when the job began.
ReconSound ==
    /\ recon.stage \in {"orphans", "list"} => recon.shown \subseteq recon.known
    /\ recon.stage = "flush" => recon.shown \cap recon.pending = {}

\* The next three hold of keys that are not doubtful.  What a row shows is not queued.
QueuedUnused == \A x \in Photos : photo[x] \in Keys \ doubtful => queued[photo[x]] = -1

\* One row shows a key, and only requests for this row replace it.
Owned ==
    \A x \in Photos : photo[x] \in Keys \ doubtful =>
       /\ \A y \in Photos : photo[y] = photo[x] => y = x
       /\ \A r \in Requests : req[r].old = photo[x] => req[r].x = x

\* An object that is uploaded and not shown yet is in the bucket and not queued.
Shipped ==
    \A r \in Requests : req[r].key \in Keys \ (known \cup doubtful) =>
       req[r].key \in bucket /\ queued[req[r].key] = -1

StoreInv ==
    /\ TypeOK /\ KeysUsed /\ Requested /\ GoneBare /\ ReconSound
    /\ QueuedUnused /\ Owned /\ Shipped /\ PhotosKept

-----------------------------------------------------------------------------
LEMMA StoreInit == Init => StoreInv
<1> SUFFICES ASSUME Init PROVE StoreInv
    OBVIOUS
<1> USE Constants
<1>1. TypeOK
    BY DEF Init, TypeOK, Ages, IdleReq, IdleClean, IdleRecon
<1>2. KeysUsed
    BY DEF Init, KeysUsed, IdleReq, IdleClean, IdleRecon
<1>3. Requested /\ GoneBare /\ ReconSound
    BY DEF Init, Requested, GoneBare, ReconSound, IdleReq, IdleRecon
<1>4. QueuedUnused /\ Owned /\ Shipped /\ PhotosKept
    BY DEF Init, QueuedUnused, Owned, Shipped, PhotosKept, IdleReq
<1> QED BY <1>1, <1>2, <1>3, <1>4 DEF StoreInv

-----------------------------------------------------------------------------
(* Requests. *)

\* A step of one request that writes nothing: it keeps its key or takes one that
\* clients know, and it remembers the key of the row it works for, if any.
LEMMA RequestStep ==
    ASSUME StoreInv, NEW r \in Requests, NEW q \in Request,
           req' = [req EXCEPT ![r] = q],
           UNCHANGED <<rows, bucket, used, queued, clean, recon, ran, doubtful>>,
           trouble' \in 0..MaxTrouble,
           q.key \in known \cup {NoKey, req[r].key},
           \/ q.old = NoKey
           \/ q.x \in Photos /\ q.old = photo[q.x]
           \/ q.x = req[r].x /\ q.old = req[r].old,
           q.stage # "idle" => q.x \in Photos,
           q.stage = "idle" => q.key = NoKey,
           q.stage = "commit" => Exists(q.x)
    PROVE  StoreInv'
<1> USE DEF StoreInv
<1>1. \A p \in Requests : req'[p] = IF p = r THEN q ELSE req[p]
    BY DEF TypeOK
<1>2. TypeOK'
    BY DEF TypeOK, Request, rows
<1>3. KeysUsed'
  <2>1. q.key \in used \cup {NoKey} /\ q.old \in known \cup {NoKey}
      BY DEF KeysUsed, TypeOK
  <2> QED BY <1>1, <2>1 DEF KeysUsed, rows
<1>4. Requested'
    BY <1>1 DEF Requested, Exists, rows
<1>5. GoneBare' /\ ReconSound' /\ QueuedUnused' /\ PhotosKept'
    BY DEF GoneBare, ReconSound, QueuedUnused, PhotosKept, Exists, rows
<1>6. Owned'
  <2>1. \A x \in Photos : photo[x] \in Keys \ doubtful /\ q.old = photo[x] => q.x = x
      BY Constants DEF Owned
  <2> QED BY <1>1, <2>1 DEF Owned, rows
<1>7. Shipped'
    BY <1>1, Constants DEF Shipped, rows
<1> QED BY <1>2, <1>3, <1>4, <1>5, <1>6, <1>7

\* A request that ends without a commit.
LEMMA RequestEnds ==
    ASSUME StoreInv, NEW r \in Requests, req' = [req EXCEPT ![r] = IdleReq],
           UNCHANGED <<rows, bucket, used, queued, clean, recon, ran, doubtful>>,
           trouble' \in 0..MaxTrouble
    PROVE  StoreInv'
<1>1. /\ IdleReq \in Request /\ IdleReq.key = NoKey /\ IdleReq.old = NoKey
      /\ IdleReq.stage = "idle"
    BY DEF IdleReq, Request
<1> QED BY <1>1, RequestStep

\* Requests up to their transaction, but for the upload of the object.
LEMMA ReadingSteps ==
    ASSUME StoreInv, NEW r \in Requests,
           \/ \E x \in Photos : BeginUpload(r, x) \/ BeginSync(r, x) \/ SyncAvatar(r, x)
           \/ LockRow(r) \/ SyncWrite(r) \/ Fail(r)
    PROVE  StoreInv'
<1> USE DEF StoreInv
<1>1. req[r] \in Request /\ trouble \in 0..MaxTrouble /\ known \subseteq Keys
    BY DEF TypeOK, Request
<1>2. \A x \in Photos : photo[x] \in Keys \cup {NoKey}
    BY DEF TypeOK
<1>3. ASSUME NEW x \in Photos, BeginUpload(r, x)
      PROVE  StoreInv'
  <2> DEFINE q == [stage |-> "put", x |-> x, key |-> NoKey,
                   old |-> IF x \in Avatars THEN photo[x] ELSE NoKey]
  <2>1. q \in Request
      BY <1>2 DEF Request
  <2>2. /\ req' = [req EXCEPT ![r] = q]
        /\ UNCHANGED <<rows, bucket, used, queued, clean, recon, ran, doubtful, trouble>>
      BY <1>3 DEF BeginUpload
  <2>3. /\ q.stage = "put" /\ q.x = x /\ q.key = NoKey
        /\ q.old = NoKey \/ q.old = photo[x]
      OBVIOUS
  <2> HIDE DEF q
  <2> QED BY <1>1, <2>1, <2>2, <2>3, RequestStep
<1>4. ASSUME NEW x \in Photos, BeginSync(r, x) \/ SyncAvatar(r, x)
      PROVE  StoreInv'
  <2>1. PICK k \in Sendable(x), t \in {"write", "commit"} :
            /\ req' = [req EXCEPT ![r] = [stage |-> t, x |-> x, key |-> k, old |-> photo[x]]]
            /\ Exists(x)
      BY <1>4 DEF BeginSync, SyncAvatar, Exists
  <2> DEFINE q == [stage |-> t, x |-> x, key |-> k, old |-> photo[x]]
  <2>2. k \in known \cup {NoKey}
      BY DEF Sendable
  <2>3. q \in Request
      BY <1>1, <1>2, <2>2 DEF Request
  <2>4. UNCHANGED <<rows, bucket, used, queued, clean, recon, ran, doubtful, trouble>>
      BY <1>4 DEF BeginSync, SyncAvatar
  <2>5. q.stage = t /\ q.x = x /\ q.key = k /\ q.old = photo[x]
      OBVIOUS
  <2>6. req' = [req EXCEPT ![r] = q]
      BY <2>1
  <2> HIDE DEF q
  <2> QED BY <1>1, <2>1, <2>2, <2>3, <2>4, <2>5, <2>6, RequestStep
<1>5. ASSUME LockRow(r)
      PROVE  StoreInv'
  <2> DEFINE x == req[r].x
             q == [req[r] EXCEPT !.old = IF x \in Avatars THEN @ ELSE photo[x], !.stage = "commit"]
  <2>1. x \in Photos /\ Exists(x)
      BY <1>5 DEF LockRow, Requested
  <2>2. q \in Request
      BY <1>1, <1>2, <2>1 DEF Request
  <2>3. /\ req' = [req EXCEPT ![r] = q]
        /\ UNCHANGED <<rows, bucket, used, queued, clean, recon, ran, doubtful, trouble>>
      BY <1>5 DEF LockRow
  <2>4. /\ q.stage = "commit" /\ q.x = x /\ q.key = req[r].key
        /\ q.old = req[r].old \/ q.old = photo[x]
      BY <1>1 DEF Request
  <2> HIDE DEF q
  <2> QED BY <1>1, <2>1, <2>2, <2>3, <2>4, RequestStep
<1>6. ASSUME SyncWrite(r)
      PROVE  StoreInv'
  <2> DEFINE q == [req[r] EXCEPT !.stage = "commit"]
  <2>1. req[r].x \in Photos /\ Exists(req[r].x)
      BY <1>6 DEF SyncWrite, Requested
  <2>2. q \in Request
      BY <1>1 DEF Request
  <2>3. /\ req' = [req EXCEPT ![r] = q]
        /\ UNCHANGED <<rows, bucket, used, queued, clean, recon, ran, doubtful, trouble>>
      BY <1>6 DEF SyncWrite
  <2>4. q.stage = "commit" /\ q.x = req[r].x /\ q.key = req[r].key /\ q.old = req[r].old
      BY <1>1 DEF Request
  <2> HIDE DEF q
  <2> QED BY <1>1, <2>1, <2>2, <2>3, <2>4, RequestStep
<1>7. ASSUME Fail(r)
      PROVE  StoreInv'
  <2>1. trouble' \in 0..MaxTrouble
      BY <1>1, <1>7, Constants DEF Fail, Troubled
  <2> QED BY <1>7, <2>1, RequestEnds DEF Fail
<1> QED BY <1>3, <1>4, <1>5, <1>6, <1>7
\* An object is put under a key that nothing has used.
LEMMA PutStep ==
    ASSUME StoreInv, NEW r \in Requests, Put(r)
    PROVE  StoreInv'
<1> USE DEF StoreInv
<1> DEFINE k == NewKey(req[r].x)
           q == [req[r] EXCEPT !.key = k, !.stage = "lock"]
<1>1. k \in Keys \ used
    BY DEF Put, NewKey, FreshKeys
<1>2. /\ req' = [req EXCEPT ![r] = q] /\ used' = used \cup {k} /\ bucket' = bucket \cup {k}
      /\ UNCHANGED <<rows, queued, clean, recon, ran, doubtful, trouble>>
      /\ req[r].stage = "put"
    BY DEF Put
<1>3. req[r] \in Request
    BY DEF TypeOK, Request
<1>4. /\ q \in Request /\ q.key = k /\ q.stage = "lock"
      /\ q.x = req[r].x /\ q.old = req[r].old
    BY <1>1, <1>3 DEF Request
<1>5. q.x \in Photos
    BY <1>2, <1>4 DEF Requested
<1> HIDE DEF q, k
<1>6. \A p \in Requests : req'[p] = IF p = r THEN q ELSE req[p]
    BY <1>2 DEF TypeOK
<1>7. TypeOK'
    BY <1>1, <1>2, <1>4 DEF TypeOK, Request, rows
<1>8. KeysUsed'
    BY <1>1, <1>2, <1>4, <1>6 DEF KeysUsed, rows, TypeOK
<1>9. Requested'
    BY <1>2, <1>4, <1>5, <1>6 DEF Requested, Exists, rows
<1>10. GoneBare' /\ ReconSound' /\ QueuedUnused' /\ PhotosKept'
    BY <1>2 DEF GoneBare, ReconSound, QueuedUnused, PhotosKept, Exists, rows
<1>11. Owned'
    BY <1>2, <1>4, <1>6 DEF Owned, rows
<1>12. queued[k] = -1
    BY <1>1 DEF KeysUsed
<1>13. Shipped'
    BY <1>2, <1>4, <1>6, <1>12 DEF Shipped, rows
<1> QED BY <1>7, <1>8, <1>9, <1>10, <1>11, <1>13

\* The transaction queues the key that it has found and replaces.
LEMMA CommitStep ==
    ASSUME StoreInv, NEW r \in Requests, Commit(r)
    PROVE  StoreInv'
<1> USE DEF StoreInv
<1> DEFINE x == req[r].x
           k == req[r].key
           old == req[r].old
<1>1. /\ photo' = [photo EXCEPT ![x] = IF k = old THEN @ ELSE k]
      /\ queued' = Enqueued(Dropped(old, k))
      /\ known' = known \cup ({k} \ {NoKey})
      /\ doubtful' = doubtful \cup (Returned(old, k) \cap known)
      /\ req' = [req EXCEPT ![r] = IdleReq] /\ req[r].stage = "commit"
      /\ UNCHANGED <<status, bucket, used, clean, recon, ran, trouble>>
    BY DEF Commit
<1>2. /\ x \in Photos /\ Exists(x)
      /\ k \in used \cup {NoKey} /\ old \in known \cup {NoKey}
      /\ used \subseteq Keys /\ known \subseteq used
    BY <1>1 DEF Requested, KeysUsed, TypeOK
<1>3. k \in Keys \cup {NoKey} /\ old \in Keys \cup {NoKey}
    BY <1>2
<1> HIDE DEF x, k, old
<1>4. /\ IdleReq \in Request /\ IdleReq.key = NoKey /\ IdleReq.old = NoKey
      /\ IdleReq.stage = "idle"
    BY DEF IdleReq, Request
<1>5. \A p \in Requests : req'[p] = IF p = r THEN IdleReq ELSE req[p]
    BY <1>1 DEF TypeOK
<1>6. \A y \in Photos : photo'[y] = IF y = x /\ k # old THEN k ELSE photo[y]
    BY <1>1 DEF TypeOK
<1>7. \A j \in Keys : /\ queued'[j] = IF j = old /\ k # old /\ queued[j] = -1 THEN 0 ELSE queued[j]
                      /\ queued'[j] \in Ages
    BY <1>1, <1>3, Constants DEF Enqueued, Dropped, Ages, TypeOK
<1>8. /\ doubtful \subseteq doubtful'
      /\ doubtful' \subseteq used
      /\ k \in known /\ k # old => k \in doubtful'
    BY <1>1, <1>2, Constants DEF Returned, TypeOK
<1>9. known' \subseteq used /\ known \subseteq known' /\ k \in known' \cup {NoKey}
    BY <1>1, <1>2
<1>10. TypeOK'
  <2>1. photo' \in [Photos -> Keys \cup {NoKey}]
      BY <1>1, <1>3 DEF TypeOK
  <2>2. queued' \in [Keys -> Ages]
      BY <1>1, <1>7 DEF Enqueued
  <2>3. req' \in [Requests -> Request]
      BY <1>1, <1>4 DEF TypeOK, Request
  <2> QED BY <1>1, <1>8, <1>9, <2>1, <2>2, <2>3 DEF TypeOK, Request
<1>11. KeysUsed'
  <2>1. \A j \in Keys : queued'[j] # -1 => j \in used
      BY <1>2, <1>3, <1>7, Constants DEF KeysUsed
  <2>2. \A j \in Keys : queued[j] # -1 => queued'[j] # -1
      BY <1>7
  <2>3. \A j \in clean.batch \ clean.done : queued'[j] # -1
      BY <1>2, <2>2 DEF KeysUsed
  <2>4. \A y \in Photos : photo'[y] \in known' \cup {NoKey}
      BY <1>6, <1>9 DEF KeysUsed
  <2>5. \A p \in Requests : /\ req'[p].key \in used \cup {NoKey}
                            /\ req'[p].old \in known' \cup {NoKey}
      BY <1>4, <1>5, <1>9 DEF KeysUsed
  <2> QED BY <1>1, <1>9, <2>1, <2>3, <2>4, <2>5 DEF KeysUsed
<1>12. Requested'
    BY <1>1, <1>4, <1>5 DEF Requested, Exists
<1>13. GoneBare'
    BY <1>1, <1>2, <1>6 DEF GoneBare, Exists
<1>14. ReconSound'
    BY <1>1 DEF ReconSound
\* Unless k comes back, it is new: no row and no request has seen it.
<1>15. k \in Keys \ doubtful' /\ k # old =>
          /\ k \notin known
          /\ \A y \in Photos : photo[y] # k
          /\ \A p \in Requests : req[p].old # k
          /\ k \in bucket /\ queued[k] = -1
  <2> SUFFICES ASSUME k \in Keys \ doubtful', k # old
               PROVE  /\ k \notin known
                      /\ \A y \in Photos : photo[y] # k
                      /\ \A p \in Requests : req[p].old # k
                      /\ k \in bucket /\ queued[k] = -1
      OBVIOUS
  <2>1. k \notin known /\ k # NoKey /\ k \notin doubtful
      BY <1>8, Constants
  <2>2. k \in bucket /\ queued[k] = -1
      BY <2>1 DEF Shipped, k
  <2> QED BY <2>1, <2>2 DEF KeysUsed
<1>16. QueuedUnused'
  <2> SUFFICES ASSUME NEW y \in Photos, photo'[y] \in Keys \ doubtful'
               PROVE  queued'[photo'[y]] = -1
      BY DEF QueuedUnused
  <2>1. CASE y = x /\ k # old
      BY <1>6, <1>7, <1>15, <2>1
  <2>2. CASE ~(y = x /\ k # old)
    <3>1. photo'[y] = photo[y] /\ photo[y] \in Keys \ doubtful
        BY <1>6, <1>8, <2>2
    <3>2. queued[photo[y]] = -1
        BY <3>1 DEF QueuedUnused
    <3>3. photo[y] = old => y = x
        BY <3>1 DEF Owned, x, old
    <3> QED BY <1>7, <2>2, <3>1, <3>2, <3>3
  <2> QED BY <2>1, <2>2
<1>17. Owned'
  <2> SUFFICES ASSUME NEW y \in Photos, photo'[y] \in Keys \ doubtful'
               PROVE  /\ \A z \in Photos : photo'[z] = photo'[y] => z = y
                      /\ \A p \in Requests : req'[p].old = photo'[y] => req'[p].x = y
      BY DEF Owned
  <2>1. CASE y = x /\ k # old
      BY <1>4, <1>5, <1>6, <1>15, <2>1, Constants
  <2>2. CASE ~(y = x /\ k # old)
    <3>1. photo'[y] = photo[y] /\ photo[y] \in Keys \ doubtful
        BY <1>6, <1>8, <2>2
    <3>2. \A z \in Photos : photo[z] = photo[y] => z = y
        BY <3>1 DEF Owned
    <3>3. \A p \in Requests : req[p].old = photo[y] => req[p].x = y
        BY <3>1 DEF Owned
    <3>4. ASSUME NEW z \in Photos, photo'[z] = photo'[y] PROVE z = y
      <4>1. CASE z = x /\ k # old
        <5>1. k \in Keys \ doubtful' /\ photo[y] = k
            BY <1>6, <3>1, <3>4, <4>1
        <5> QED BY <1>15, <4>1, <5>1
      <4>2. CASE ~(z = x /\ k # old)
          BY <1>6, <3>1, <3>2, <3>4, <4>2
      <4> QED BY <4>1, <4>2
    <3>5. \A p \in Requests : req'[p].old = photo[y] => req'[p].x = y
        BY <1>4, <1>5, <3>1, <3>3, Constants
    <3> QED BY <3>1, <3>4, <3>5
  <2> QED BY <2>1, <2>2
<1>18. Shipped'
  <2> SUFFICES ASSUME NEW p \in Requests, req'[p].key \in Keys \ (known' \cup doubtful')
               PROVE  req'[p].key \in bucket /\ queued'[req'[p].key] = -1
      BY <1>1 DEF Shipped
  <2>1. p # r /\ req'[p] = req[p]
      BY <1>4, <1>5, Constants
  <2>2. req[p].key \in Keys \ (known \cup doubtful)
      BY <1>8, <1>9, <2>1
  <2>3. req[p].key \in bucket /\ queued[req[p].key] = -1
      BY <2>2 DEF Shipped
  <2>4. req[p].key # old
      BY <1>2, <2>2, Constants
  <2> QED BY <1>7, <2>1, <2>2, <2>3, <2>4
<1>19. PhotosKept'
  <2> SUFFICES ASSUME NEW y \in Photos PROVE photo'[y] \in bucket \cup doubtful' \cup {NoKey}
      BY <1>1 DEF PhotosKept
  <2>1. CASE y = x /\ k # old
      BY <1>3, <1>6, <1>15, <2>1
  <2>2. CASE ~(y = x /\ k # old)
      BY <1>6, <1>8, <2>2 DEF PhotosKept
  <2> QED BY <2>1, <2>2
<1> QED BY <1>10, <1>11, <1>12, <1>13, <1>14, <1>16, <1>17, <1>18, <1>19

\* The profile update puts back a key, or shows nothing, and queues nothing.
LEMMA ProfileStep ==
    ASSUME StoreInv, NEW x \in Photos, PutProfile(x)
    PROVE  StoreInv'
<1> USE DEF StoreInv
<1>1. PICK k \in Sendable(x) : /\ photo' = [photo EXCEPT ![x] = k]
                               /\ doubtful' = doubtful \cup Returned(photo[x], k)
    BY DEF PutProfile
<1>2. /\ Exists(x) /\ k \in known \cup {NoKey} /\ known \subseteq used /\ used \subseteq Keys
      /\ UNCHANGED <<status, known, bucket, used, queued, req, clean, recon, ran, trouble>>
    BY DEF PutProfile, Exists, Sendable, TypeOK
<1>3. \A y \in Photos : photo'[y] = IF y = x THEN k ELSE photo[y]
    BY <1>1 DEF TypeOK
<1>4. doubtful \subseteq doubtful' /\ doubtful' \subseteq used
      /\ (k \in Keys /\ k # photo[x] => k \in doubtful')
    BY <1>1, <1>2, Constants DEF Returned, TypeOK
<1>5. \A y \in Photos : photo'[y] = photo[y] \/ photo'[y] \in doubtful' \cup {NoKey}
    BY <1>2, <1>3, <1>4
<1>6. TypeOK'
  <2>1. photo' \in [Photos -> Keys \cup {NoKey}]
      BY <1>1, <1>2 DEF TypeOK
  <2> QED BY <1>2, <1>4, <2>1 DEF TypeOK
<1>7. KeysUsed' /\ Requested' /\ ReconSound'
    BY <1>2, <1>3 DEF KeysUsed, Requested, ReconSound, Exists
<1>8. GoneBare'
    BY <1>2, <1>3 DEF GoneBare, Exists
<1>9. QueuedUnused' /\ Shipped' /\ PhotosKept'
    BY <1>2, <1>4, <1>5, Constants DEF QueuedUnused, Shipped, PhotosKept
<1>10. Owned'
    BY <1>2, <1>4, <1>5, Constants DEF Owned
<1> QED BY <1>6, <1>7, <1>8, <1>9, <1>10

\* A row that goes shows nothing any more; no transaction holds it.
LEMMA DeletionStep ==
    ASSUME StoreInv, NEW x \in Photos, SoftDelete(x) \/ Erase(x)
    PROVE  StoreInv'
<1> USE DEF StoreInv
<1>1. UNCHANGED <<known, bucket, used, queued, req, clean, recon, ran, doubtful, trouble>>
    BY DEF SoftDelete, Erase
<1>2. \A y \in Photos : photo'[y] \in {photo[y], NoKey}
    BY DEF SoftDelete, Erase, TypeOK
<1>3. TypeOK'
    BY <1>1 DEF TypeOK, SoftDelete, Erase
<1>4. KeysUsed' /\ ReconSound'
    BY <1>1, <1>2 DEF KeysUsed, ReconSound
<1>5. Requested'
  <2>1. \A y \in Photos : Exists(y) /\ ~Exists(y)' => y = x /\ RowFree(x)
      BY DEF SoftDelete, Erase, Exists, TypeOK
  <2> QED BY <1>1, <2>1 DEF Requested, RowFree
<1>6. GoneBare'
  <2>1. CASE SoftDelete(x)
      BY <2>1 DEF GoneBare, SoftDelete, Exists, TypeOK
  <2>2. CASE Erase(x)
      BY <2>2 DEF GoneBare, Erase, Exists, TypeOK
  <2> QED BY <2>1, <2>2
<1>7. QueuedUnused' /\ Owned' /\ PhotosKept'
    BY <1>1, <1>2, Constants DEF QueuedUnused, Owned, PhotosKept
<1>8. Shipped'
    BY <1>1 DEF Shipped
<1> QED BY <1>3, <1>4, <1>5, <1>6, <1>7, <1>8

-----------------------------------------------------------------------------
(* Jobs. *)

\* A step of the jobs leaves rows and requests alone.  It deletes queued objects
\* only, queues none that a row shows or a request uploads without saying so, and
\* keeps the jobs' own promises.
LEMMA JobStep ==
    ASSUME StoreInv, TypeOK', KeysUsed', ReconSound',
           UNCHANGED <<rows, req>>, doubtful \subseteq doubtful',
           \A k \in bucket \ bucket' : queued[k] # -1,
           \A k \in Keys : queued[k] = -1 /\ queued'[k] # -1 =>
              k \in doubtful' \/ ~(Referenced(k) \/ InFlight(k))
    PROVE  StoreInv'
<1> USE DEF StoreInv
<1>1. Requested' /\ GoneBare'
    BY DEF Requested, GoneBare, Exists, rows
<1>2. QueuedUnused'
    BY DEF QueuedUnused, Referenced, rows
<1>3. Owned'
    BY DEF Owned, rows
<1>4. \A k \in Keys : k \in bucket /\ k \notin bucket' => queued[k] # -1
    OBVIOUS
<1>5. Shipped'
  <2> SUFFICES ASSUME NEW r \in Requests, req[r].key \in Keys \ (known \cup doubtful')
               PROVE  req[r].key \in bucket' /\ queued'[req[r].key] = -1
      BY DEF Shipped, rows
  <2>1. req[r].key \in bucket /\ queued[req[r].key] = -1
      BY DEF Shipped
  <2>2. InFlight(req[r].key)
      BY Constants DEF InFlight, Requested
  <2> QED BY <1>4, <2>1, <2>2
<1>6. PhotosKept'
  <2> SUFFICES ASSUME NEW x \in Photos, photo[x] \notin doubtful', photo[x] # NoKey
               PROVE  photo[x] \in bucket'
      BY DEF PhotosKept, rows
  <2>1. photo[x] \in Keys \ doubtful /\ photo[x] \in bucket
      BY DEF PhotosKept, TypeOK
  <2>2. queued[photo[x]] = -1
      BY <2>1 DEF QueuedUnused
  <2> QED BY <1>4, <2>1, <2>2
<1> QED BY <1>1, <1>2, <1>3, <1>5, <1>6

\* The daily job.
LEMMA CleanupSteps ==
    ASSUME StoreInv,
           \/ CleanupStart \/ FetchBatch \/ EndBatch
           \/ \E k \in Keys : DeleteObject(k) \/ DeleteFails(k)
    PROVE  StoreInv'
<1> USE DEF StoreInv
<1>1. /\ clean \in [stage : {"idle", "fetch", "delete"}, batch : SUBSET Keys, done : SUBSET Keys]
      /\ bucket \subseteq used /\ used \subseteq Keys /\ queued \in [Keys -> Ages]
      /\ trouble \in 0..MaxTrouble
    BY DEF TypeOK
<1>2. CASE CleanupStart
  <2>1. /\ clean' = [clean EXCEPT !.stage = "fetch"] /\ ran' = ran \cup {"clean"}
        /\ UNCHANGED <<rows, bucket, used, queued, req, recon, doubtful, trouble>>
      BY <1>2 DEF CleanupStart
  <2>2. TypeOK' /\ KeysUsed' /\ ReconSound'
      BY <1>1, <2>1 DEF TypeOK, KeysUsed, ReconSound, rows
  <2> QED BY <2>1, <2>2, JobStep
<1>3. CASE FetchBatch
  <2>1. UNCHANGED <<rows, bucket, used, queued, req, recon, ran, doubtful, trouble>>
      BY <1>3, Zenon DEF FetchBatch
  <2>2. /\ clean' \in [stage : {"idle", "fetch", "delete"}, batch : SUBSET Keys, done : SUBSET Keys]
        /\ clean'.done = {} /\ \A k \in clean'.batch : k \in Keys /\ queued[k] # -1
    <3>1. CASE clean' = IdleClean
        BY <3>1 DEF IdleClean
    <3>2. ASSUME NEW B \in SUBSET Expired,
                 clean' = [clean EXCEPT !.stage = "delete", !.batch = B, !.done = {}]
          PROVE  /\ clean' \in [stage : {"idle", "fetch", "delete"}, batch : SUBSET Keys, done : SUBSET Keys]
                 /\ clean'.done = {} /\ \A k \in clean'.batch : k \in Keys /\ queued[k] # -1
      <4>1. clean'.batch = B /\ clean'.done = {} /\ clean'.stage = "delete"
          BY <1>1, <3>2
      <4>2. \A k \in B : k \in Keys /\ queued[k] = Grace
          BY DEF Expired
      <4>3. clean' \in [stage : {"idle", "fetch", "delete"}, batch : SUBSET Keys, done : SUBSET Keys]
          BY <1>1, <3>2, <4>2
      <4> QED BY <4>1, <4>2, <4>3, Constants
    <3>3. clean' = IdleClean \/ \E B \in SUBSET Expired :
             clean' = [clean EXCEPT !.stage = "delete", !.batch = B, !.done = {}]
        BY <1>3, Zenon DEF FetchBatch
    <3> QED BY <3>1, <3>2, <3>3, Zenon
  <2>3. TypeOK' /\ KeysUsed' /\ ReconSound'
      BY <1>1, <2>1, <2>2 DEF TypeOK, KeysUsed, ReconSound, rows
  <2> QED BY <2>1, <2>3, JobStep
<1>4. ASSUME NEW k \in Keys, DeleteObject(k)
      PROVE  StoreInv'
  <2>1. /\ k \in clean.batch \ clean.done
        /\ bucket' = bucket \ {k} /\ clean' = [clean EXCEPT !.done = @ \cup {k}]
        /\ UNCHANGED <<rows, used, queued, req, recon, ran, doubtful, trouble>>
      BY <1>4 DEF DeleteObject
  <2>2. /\ clean' \in [stage : {"idle", "fetch", "delete"}, batch : SUBSET Keys, done : SUBSET Keys]
        /\ clean'.done = clean.done \cup {k} /\ clean'.batch = clean.batch
      BY <1>1, <2>1
  <2>3. TypeOK' /\ ReconSound'
      BY <1>1, <2>1, <2>2 DEF TypeOK, ReconSound, rows
  <2>4. KeysUsed'
      BY <2>1, <2>2 DEF KeysUsed, rows
  <2>5. queued[k] # -1
      BY <2>1 DEF KeysUsed
  <2> QED BY <2>1, <2>3, <2>4, <2>5, JobStep
<1>5. CASE EndBatch
  <2>1. /\ clean.done = clean.batch
        /\ queued' = [k \in Keys |-> IF k \in clean.done THEN -1 ELSE queued[k]]
        /\ clean' \in {IdleClean, [IdleClean EXCEPT !.stage = "fetch"]}
        /\ UNCHANGED <<rows, bucket, used, req, recon, ran, doubtful, trouble>>
      BY <1>5 DEF EndBatch, Removed
  <2>2. /\ clean' \in [stage : {"idle", "fetch", "delete"}, batch : SUBSET Keys, done : SUBSET Keys]
        /\ clean'.done = {} /\ clean'.batch = {}
      BY <2>1 DEF IdleClean
  <2>3. queued' \in [Keys -> Ages]
      BY <1>1, <2>1, Constants DEF Ages
  <2>4. TypeOK' /\ ReconSound'
      BY <2>1, <2>2, <2>3 DEF TypeOK, ReconSound, rows
  <2>5. KeysUsed'
      BY <2>1, <2>2 DEF KeysUsed, rows
  <2>6. \A k \in Keys : queued'[k] # -1 => queued[k] # -1
      BY <2>1
  <2> QED BY <2>1, <2>4, <2>5, <2>6, JobStep
<1>6. ASSUME NEW k \in Keys, DeleteFails(k)
      PROVE  StoreInv'
  <2>1. /\ clean' = [clean EXCEPT !.batch = @ \ {k}] /\ trouble' \in 0..MaxTrouble
        /\ UNCHANGED <<rows, bucket, used, queued, req, recon, ran, doubtful>>
      BY <1>1, <1>6, Constants DEF DeleteFails, Troubled
  <2>2. /\ clean' \in [stage : {"idle", "fetch", "delete"}, batch : SUBSET Keys, done : SUBSET Keys]
        /\ clean'.done = clean.done /\ clean'.batch \subseteq clean.batch
      BY <1>1, <2>1
  <2>3. TypeOK' /\ KeysUsed' /\ ReconSound'
      BY <1>1, <2>1, <2>2 DEF TypeOK, KeysUsed, ReconSound, rows
  <2> QED BY <2>1, <2>3, JobStep
<1> QED BY <1>2, <1>3, <1>4, <1>5, <1>6

\* The weekly job, time, and jobs that die.
LEMMA ReconSteps ==
    ASSUME StoreInv, ReconStep \/ Tick \/ JobDies
    PROVE  StoreInv'
<1> USE DEF StoreInv
<1> DEFINE ReconType == [stage : {"idle", "orphans", "list", "flush"}, shown : SUBSET Keys,
                         known : SUBSET Keys, pending : SUBSET Keys]
<1>1. /\ recon \in ReconType /\ known \subseteq used
      /\ bucket \subseteq used /\ used \subseteq Keys /\ queued \in [Keys -> Ages]
      /\ trouble \in 0..MaxTrouble /\ doubtful \subseteq used
    BY DEF TypeOK
<1>2. CASE ReadPhotos
  <2>1. /\ recon' = [stage |-> "orphans", known |-> PhotoKeys, pending |-> {},
                     shown |-> {k \in Keys : Referenced(k)}]
        /\ ran' = ran \cup {"recon"}
        /\ UNCHANGED <<rows, bucket, used, queued, req, clean, doubtful, trouble>>
      BY <1>2 DEF ReadPhotos
  <2>2. PhotoKeys \subseteq Keys
      BY DEF PhotoKeys, TypeOK
  <2>3. {k \in Keys : Referenced(k)} \subseteq known
      BY Constants DEF Referenced, KeysUsed
  <2>4. {k \in Keys : Referenced(k)} \subseteq PhotoKeys
      BY Constants DEF Referenced, PhotoKeys, GoneBare
  <2>5. recon' \in ReconType
      BY <2>1, <2>2
  <2>6. TypeOK'
      BY <2>1, <2>5 DEF TypeOK, rows
  <2>7. KeysUsed' /\ ReconSound'
      BY <2>1, <2>3, <2>4 DEF KeysUsed, ReconSound, rows
  <2> QED BY <2>1, <2>6, <2>7, JobStep
<1>3. CASE ReadOrphans
  <2>1. /\ recon.stage = "orphans"
        /\ recon' = [recon EXCEPT !.stage = "list", !.known = @ \cup {k \in Keys : queued[k] # -1}]
        /\ UNCHANGED <<rows, bucket, used, queued, req, clean, ran, doubtful, trouble>>
      BY <1>3 DEF ReadOrphans
  <2> DEFINE Q == {k \in Keys : queued[k] # -1}
  <2>2. Q \subseteq Keys /\ recon' = [recon EXCEPT !.stage = "list", !.known = @ \cup Q]
      BY <2>1
  <2> HIDE DEF Q
  <2>3. /\ recon' \in ReconType /\ recon'.stage = "list"
        /\ recon'.shown = recon.shown /\ recon'.pending = recon.pending
        /\ recon.known \subseteq recon'.known
      BY <1>1, <2>2
  <2>4. UNCHANGED <<rows, bucket, used, queued, req, clean, ran, doubtful, trouble>>
      BY <2>1
  <2>5. TypeOK'
      BY <2>3, <2>4 DEF TypeOK, rows
  <2>6. KeysUsed'
      BY <2>3, <2>4 DEF KeysUsed, rows
  <2>7. recon.shown \subseteq recon.known
      BY <2>1 DEF ReconSound
  <2>8. ReconSound'
      BY <2>3, <2>7 DEF ReconSound
  <2> QED BY <2>4, <2>5, <2>6, <2>8, JobStep
<1>4. CASE ListObjects
  <2>1. /\ recon.stage = "list"
        /\ recon' = [recon EXCEPT !.stage = "flush", !.known = {}, !.pending = bucket \ recon.known]
        /\ UNCHANGED <<rows, bucket, used, queued, req, clean, ran, doubtful, trouble>>
      BY <1>4 DEF ListObjects, Listed
  <2>2. /\ recon' \in ReconType /\ recon'.stage = "flush"
        /\ recon'.shown = recon.shown /\ recon'.pending = bucket \ recon.known
      BY <1>1, <2>1
  <2>3. TypeOK'
      BY <2>1, <2>2 DEF TypeOK, rows
  <2>4. KeysUsed'
      BY <1>1, <2>1, <2>2 DEF KeysUsed, rows
  <2>5. ReconSound'
      BY <2>1, <2>2 DEF ReconSound
  <2> QED BY <2>1, <2>3, <2>4, <2>5, JobStep
<1>5. CASE Flush
  <2>1. /\ recon.stage = "flush"
        /\ queued' = Enqueued(recon.pending) /\ recon' = IdleRecon
        /\ doubtful' = doubtful \cup
              {k \in recon.pending \ recon.shown : Referenced(k) \/ InFlight(k)}
        /\ UNCHANGED <<rows, bucket, used, req, clean, ran, trouble>>
      BY <1>5 DEF Flush
  <2>2. recon.pending \subseteq used /\ recon.shown \cap recon.pending = {}
      BY <2>1 DEF KeysUsed, ReconSound
  <2>3. recon' \in ReconType /\ recon'.stage = "idle" /\ recon'.pending = {} /\ recon'.shown = {}
      BY <2>1 DEF IdleRecon
  <2>4. \A k \in Keys : /\ queued'[k] = IF k \in recon.pending /\ queued[k] = -1 THEN 0 ELSE queued[k]
                        /\ queued'[k] \in Ages
      BY <1>1, <2>1, Constants DEF Enqueued, Ages
  <2>5. queued' \in [Keys -> Ages]
      BY <2>1, <2>4 DEF Enqueued
  <2>6. TypeOK'
      BY <1>1, <2>1, <2>2, <2>3, <2>5 DEF TypeOK, rows
  <2>7. KeysUsed'
    <3>1. \A k \in Keys : queued'[k] # -1 => k \in used
        BY <2>2, <2>4 DEF KeysUsed
    <3>2. \A k \in Keys : queued[k] # -1 => queued'[k] # -1
        BY <2>4
    <3>3. \A k \in clean.batch \ clean.done : queued'[k] # -1
        BY <1>1, <3>2 DEF KeysUsed
    <3> QED BY <2>1, <2>3, <3>1, <3>3 DEF KeysUsed, rows
  <2>8. ReconSound'
      BY <2>3 DEF ReconSound
  <2>9. \A k \in Keys : queued[k] = -1 /\ queued'[k] # -1 =>
           k \in doubtful' \/ ~(Referenced(k) \/ InFlight(k))
      BY <2>1, <2>2, <2>4
  <2>10. \A k \in bucket \ bucket' : queued[k] # -1
      BY <2>1
  <2>11. doubtful \subseteq doubtful' /\ UNCHANGED <<rows, req>>
      BY <2>1
  <2> QED BY <2>6, <2>7, <2>8, <2>9, <2>10, <2>11, JobStep
<1>6. CASE Tick
  <2>1. /\ ran' = {}
        /\ queued' = [k \in Keys |-> IF queued[k] \in 0..Grace - 1 THEN queued[k] + 1 ELSE queued[k]]
        /\ UNCHANGED <<rows, bucket, used, req, clean, recon, doubtful, trouble>>
      BY <1>6 DEF Tick
  <2>2. \A k \in Keys : queued'[k] \in Ages /\ (queued'[k] = -1 <=> queued[k] = -1)
      BY <1>1, <2>1, Constants DEF Ages
  <2>3. queued' \in [Keys -> Ages]
      BY <2>1, <2>2
  <2>4. TypeOK'
      BY <2>1, <2>3 DEF TypeOK, rows
  <2>5. \A k \in clean.batch \ clean.done : queued'[k] # -1
      BY <2>2 DEF KeysUsed, TypeOK
  <2>6. KeysUsed' /\ ReconSound'
      BY <2>1, <2>2, <2>5 DEF KeysUsed, ReconSound, rows
  <2> QED BY <2>1, <2>2, <2>4, <2>6, JobStep
<1>7. CASE JobDies
  <2>1. /\ clean' \in {clean, IdleClean} /\ recon' \in {recon, IdleRecon}
        /\ trouble' \in 0..MaxTrouble
        /\ UNCHANGED <<rows, bucket, used, queued, req, ran, doubtful>>
      BY <1>1, <1>7, Constants DEF JobDies, Troubled
  <2>2. TypeOK'
      BY <2>1 DEF TypeOK, IdleClean, IdleRecon, rows
  <2>3. KeysUsed' /\ ReconSound'
      BY <2>1 DEF KeysUsed, ReconSound, IdleClean, IdleRecon, rows
  <2> QED BY <2>1, <2>2, <2>3, JobStep
<1> QED BY <1>2, <1>3, <1>4, <1>5, <1>6, <1>7 DEF ReconStep

-----------------------------------------------------------------------------
(* The theorems. *)

LEMMA StoreStep == StoreInv /\ [Next]_vars => StoreInv'
<1> SUFFICES ASSUME StoreInv, [Next]_vars PROVE StoreInv'
    OBVIOUS
<1>1. ASSUME NEW r \in Requests,
             \/ \E x \in Photos : BeginUpload(r, x) \/ BeginSync(r, x) \/ SyncAvatar(r, x)
             \/ LockRow(r) \/ SyncWrite(r) \/ Fail(r)
      PROVE  StoreInv'
    BY <1>1, ReadingSteps
<1>2. ASSUME NEW r \in Requests, Put(r) PROVE StoreInv'
    BY <1>2, PutStep
<1>3. ASSUME NEW r \in Requests, Commit(r) PROVE StoreInv'
    BY <1>3, CommitStep
<1>4. ASSUME NEW x \in Photos, PutProfile(x) PROVE StoreInv'
    BY <1>4, ProfileStep
<1>5. ASSUME NEW x \in Photos, SoftDelete(x) \/ Erase(x) PROVE StoreInv'
    BY <1>5, DeletionStep
<1>6. CASE \/ CleanupStart \/ FetchBatch \/ EndBatch
           \/ \E k \in Keys : DeleteObject(k) \/ DeleteFails(k)
    BY <1>6, CleanupSteps
<1>7. CASE ReconStep \/ Tick \/ JobDies
    BY <1>7, ReconSteps
<1>8. CASE UNCHANGED vars
  <2> USE <1>8 DEF vars, rows, StoreInv
  <2>1. TypeOK' /\ KeysUsed' /\ Requested'
      BY DEF TypeOK, KeysUsed, Requested, Exists
  <2>2. GoneBare' /\ ReconSound' /\ QueuedUnused' /\ Owned' /\ Shipped' /\ PhotosKept'
      BY DEF GoneBare, ReconSound, QueuedUnused, Owned, Shipped, PhotosKept, Exists
  <2> QED BY <2>1, <2>2
<1> QED BY <1>1, <1>2, <1>3, <1>4, <1>5, <1>6, <1>7, <1>8 DEF Next, Serves, CleanupStep

\* Whatever uploads, syncs, deletions and both jobs do at the same time, keys and
\* queue are sound, and a photo that a row shows is in the bucket, unless the
\* weekly job queued it while its upload was under way or a client put a
\* superseded key back (upload_image, image_cleanup.py, changes.py).
THEOREM PhotosAlwaysKept == Spec => []ImageInv
<1>1. StoreInv => ImageInv
    BY DEF StoreInv, ImageInv
<1>2. Spec => []StoreInv
    BY StoreInit, StoreStep, PTL DEF Spec
<1> QED BY <1>1, <1>2, PTL

\* Only the end of a batch removes rows of the queue, and only of objects that
\* the batch has deleted.
LEMMA RowsGoLast ==
    ASSUME StoreInv, [Next]_vars, NEW k \in Keys, queued[k] # -1, queued'[k] = -1
    PROVE  k \notin bucket'
<1>1. CASE EndBatch
  <2>1. k \in clean.done /\ bucket' = bucket
      BY <1>1 DEF EndBatch, Removed, StoreInv, TypeOK
  <2> QED BY <2>1 DEF StoreInv, KeysUsed
<1>2. CASE UNCHANGED queued
    BY <1>2
<1>3. ASSUME NEW S, queued' = Enqueued(S)
      PROVE  FALSE
    BY <1>3 DEF Enqueued
<1>4. CASE Tick
    BY <1>4, Constants DEF Tick, StoreInv, TypeOK, Ages
<1>5. ASSUME NEW r \in Requests, Commit(r) PROVE FALSE
    BY <1>3, <1>5 DEF Commit
<1>6. CASE Flush
    BY <1>3, <1>6 DEF Flush
<1>7. ASSUME NEW r \in Requests,
             \/ \E x \in Photos : BeginUpload(r, x) \/ BeginSync(r, x) \/ SyncAvatar(r, x)
             \/ Put(r) \/ LockRow(r) \/ SyncWrite(r) \/ Fail(r)
      PROVE  UNCHANGED queued
    BY <1>7 DEF BeginUpload, BeginSync, SyncAvatar, Put, LockRow, SyncWrite, Fail
<1>8. ASSUME NEW x \in Photos, PutProfile(x) \/ SoftDelete(x) \/ Erase(x)
      PROVE  UNCHANGED queued
    BY <1>8 DEF PutProfile, SoftDelete, Erase
<1>9. CASE \/ CleanupStart \/ FetchBatch \/ ReadPhotos \/ ReadOrphans \/ ListObjects \/ JobDies
           \/ UNCHANGED vars \/ \E j \in Keys : DeleteObject(j) \/ DeleteFails(j)
  <2>1. FetchBatch => UNCHANGED queued
      BY Zenon DEF FetchBatch
  <2>2. UNCHANGED queued
      BY <1>9, <2>1 DEF CleanupStart, ReadPhotos, ReadOrphans, ListObjects, JobDies, vars,
                        DeleteObject, DeleteFails
  <2> QED BY <1>2, <2>2
<1> QED
    BY <1>1, <1>2, <1>4, <1>5, <1>6, <1>7, <1>8, <1>9 DEF Next, Serves, CleanupStep, ReconStep

\* A row of orphaned_images goes only when its object is gone, whatever deletes
\* fail and whenever a job dies (image_cleanup_job).
THEOREM ObjectsGoFirst == Spec => RowsOutliveObjects
<1>1. StoreInv /\ [Next]_vars =>
         [\A k \in Keys : queued[k] # -1 /\ queued'[k] = -1 => k \notin bucket']_vars
    BY RowsGoLast
<1>2. Spec => []StoreInv
    BY StoreInit, StoreStep, PTL DEF Spec
<1> QED BY <1>1, <1>2, PTL DEF Spec, RowsOutliveObjects

=============================================================================
