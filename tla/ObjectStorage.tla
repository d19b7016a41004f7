---------------------------- MODULE ObjectStorage ----------------------------
(***************************************************************************)
(* The storage service (internal/service/storage.go) over its two stores:  *)
(* the PostgreSQL tables buckets and objects, and the S3 bucket that holds *)
(* the bytes.  Every request runs in a goroutine of its own and makes      *)
(* several calls, each one atomic by itself: one SQL statement             *)
(* (autocommit, no transaction spans two of them) or one S3 request.  A    *)
(* worker stands for such a goroutine and an action for one call together  *)
(* with the computation up to the next call.  Clients write to S3 directly *)
(* with the URLs PresignUpload signs.                                      *)
(*                                                                         *)
(* A read that answers "not found" to an idle worker's request ends the    *)
(* request with no effect, so it is no step of the model.  Names and keys  *)
(* are those the validators accept.                                        *)
(***************************************************************************)
EXTENDS Integers, FiniteSets, FiniteSetsExt

CONSTANTS
    Users,
    Names,            \* bucket names
    Keys,             \* object keys
    Sizes,            \* sizes a client may claim, and sizes it may PUT
    Workers,          \* request goroutines
    StorageLimit,     \* bytes the plan of a user allows, 0 for no limit
    BucketLimit,      \* buckets the plan of a user allows, 0 for no limit
    FallbackStorage,  \* limits in force when the plan cannot be read
    FallbackBuckets,
    ListPage,         \* objects in one page of ListObjectsV2
    MaxBucketIds,     \* bound on the buckets ever created
    MaxUrls,          \* bound on the URLs outstanding at a time
    Faults,           \* whether calls to the stores may fail
    None

ASSUME LimitsAssumption ==
    /\ StorageLimit \in [Users -> Nat]
    /\ BucketLimit \in [Users -> Nat]
    /\ FallbackStorage \in Nat \ {0}
    /\ FallbackBuckets \in Nat \ {0}

\* The fallback is the free plan's row, and no plan with a limit allows less.
ASSUME FallbackAssumption ==
    \A u \in Users :
        /\ StorageLimit[u] = 0 \/ FallbackStorage <= StorageLimit[u]
        /\ BucketLimit[u] = 0 \/ FallbackBuckets <= BucketLimit[u]

\* S3 bounds the size of one PUT.
ASSUME WorldAssumption ==
    /\ IsFiniteSet(Workers) /\ Workers # {}
    /\ IsFiniteSet(Sizes) /\ Sizes # {} /\ Sizes \subseteq Nat
    /\ MaxBucketIds \in Nat
    /\ MaxUrls \in Nat
    /\ ListPage \in Nat
    /\ Faults \in BOOLEAN

VARIABLES
    buckets,   \* table buckets: live bucket id -> [user, name]
    nextId,    \* the id the next bucket gets; ids are never used again
    objects,   \* table objects: <<bucket id, key>> -> recorded size
    blobs,     \* the S3 bucket: S3 key -> bytes stored
    urls,      \* S3 keys with a presigned PUT URL that has not expired
    worker     \* per request goroutine: where it is and what it has read

vars == <<buckets, nextId, objects, blobs, urls, worker>>

BucketId == Nat \ {0}
Row      == BucketId \X Keys
S3Key    == Users \X Names \X Keys

\* The parts of an S3 key are joined with "/".  A user id and a bucket name
\* hold no "/", so different triples give different keys.
BuildKey(u, n, k) == <<u, n, k>>

\* Whether an S3 key has the prefix of a bucket, BuildKey with an empty key.
UnderPrefixOfUser(k, u, n) == k[1] = u
UnderPrefix(k, u, n) == k[1] = u /\ k[2] = n

Idle == [pc |-> "idle", user |-> None, bucket |-> 0, name |-> None,
         key |-> None, size |-> 0, limit |-> 0, total |-> 0, todo |-> {}]

PC == {"idle",
       "createResolve", "createCount", "createInsert",
       "bucketList", "bucketBlobs", "bucketRow",
       "presignResolve", "presignTotal",
       "confirmHead", "confirmResolve", "confirmTotal", "confirmOld",
       "confirmReject", "confirmUpsert",
       "objectFind", "objectBlob", "objectRow"}

Creating   == {"createResolve", "createCount", "createInsert"}
Presigning == {"presignResolve", "presignTotal"}

-----------------------------------------------------------------------------
(* Helpers: partial functions as tables, and the aggregate queries.        *)

Put(f, x, v) == [y \in DOMAIN f \cup {x} |-> IF y = x THEN v ELSE f[y]]
Without(f, S) == [y \in DOMAIN f \ S |-> f[y]]

BucketsOf(u) == {b \in DOMAIN buckets : buckets[b].user = u}
CountByUser(u) == Cardinality(BucketsOf(u))

RowsOf(u) == {r \in DOMAIN objects : r[1] \in BucketsOf(u)}
TotalSizeByUser(u) == SumFunctionOnSet(objects, RowsOf(u))

\* The S3 key of the object a row describes.
BlobOf(r) == BuildKey(buckets[r[1]].user, buckets[r[1]].name, r[2])

\* The S3 key of the object a request is about.
Target(w) == BuildKey(worker[w].user, worker[w].name, worker[w].key)

Goto(w, pc) == worker' = [worker EXCEPT ![w].pc = pc]
Return(w)   == worker' = [worker EXCEPT ![w] = Idle]

OwnsAnyUser(u, b) == b \in DOMAIN buckets

\* FindByID: the row of a bucket, scoped to the user of the request.
Owns(u, b) == b \in DOMAIN buckets /\ buckets[b].user = u

FindWithoutName(w, pc, k, size) ==
    /\ worker[w].pc = "idle"
    /\ \E u \in Users, b \in DOMAIN buckets :
        /\ Owns(u, b)
        /\ worker' = [worker EXCEPT ![w] =
                        [Idle EXCEPT !.pc = pc, !.user = u, !.bucket = b,
                                     !.key = k, !.size = size]]
    /\ UNCHANGED <<buckets, nextId, objects, blobs, urls>>

\* A request on an existing bucket passes FindByID and goes on at pc.
Find(w, pc, k, size) ==
    /\ worker[w].pc = "idle"
    /\ \E u \in Users, b \in DOMAIN buckets :
        /\ Owns(u, b)
        /\ worker' = [worker EXCEPT ![w] =
                        [Idle EXCEPT !.pc = pc, !.user = u, !.bucket = b,
                                     !.name = buckets[b].name,
                                     !.key = k, !.size = size]]
    /\ UNCHANGED <<buckets, nextId, objects, blobs, urls>>

\* The plan resolver: the user's plan, or the fallback when a query fails.
Resolved(limit, fallback) == {limit} \cup (IF Faults THEN {fallback} ELSE {})

-----------------------------------------------------------------------------
(* CreateBucket.                                                           *)

\* MaxBucketIds bounds the buckets created and those being created.
CreateStart(w) ==
    /\ worker[w].pc = "idle"
    /\ nextId + Cardinality({v \in Workers : worker[v].pc \in Creating}) <= MaxBucketIds
    /\ \E u \in Users, n \in Names :
        worker' = [worker EXCEPT ![w] = [Idle EXCEPT !.pc = "createResolve",
                                                     !.user = u, !.name = n]]
    /\ UNCHANGED <<buckets, nextId, objects, blobs, urls>>

CreateResolve(w) ==
    /\ worker[w].pc = "createResolve"
    /\ \E l \in Resolved(BucketLimit[worker[w].user], FallbackBuckets) :
        worker' = [worker EXCEPT ![w].limit = l,
                                 ![w].pc = IF l > 0 THEN "createCount"
                                           ELSE "createInsert"]
    /\ UNCHANGED <<buckets, nextId, objects, blobs, urls>>

CreateCountOffByOne(w) ==
    /\ worker[w].pc = "createCount"
    /\ IF CountByUser(worker[w].user) > worker[w].limit
       THEN Return(w)
       ELSE Goto(w, "createInsert")
    /\ UNCHANGED <<buckets, nextId, objects, blobs, urls>>

CreateCount(w) ==
    /\ worker[w].pc = "createCount"
    /\ IF CountByUser(worker[w].user) >= worker[w].limit
       THEN Return(w)
       ELSE Goto(w, "createInsert")
    /\ UNCHANGED <<buckets, nextId, objects, blobs, urls>>

CreateInsertNotUnique(w) ==
    /\ worker[w].pc = "createInsert"
    /\ buckets' = Put(buckets, nextId,
                      [user |-> worker[w].user, name |-> worker[w].name])
    /\ nextId' = nextId + 1
    /\ Return(w)
    /\ UNCHANGED <<objects, blobs, urls>>

\* UNIQUE (user_id, name) turns the second insert into ErrConflict.
CreateInsert(w) ==
    /\ worker[w].pc = "createInsert"
    /\ \/ /\ \E b \in BucketsOf(worker[w].user) : buckets[b].name = worker[w].name
          /\ UNCHANGED <<buckets, nextId>>
       \/ /\ \A b \in BucketsOf(worker[w].user) : buckets[b].name # worker[w].name
          /\ buckets' = Put(buckets, nextId,
                            [user |-> worker[w].user, name |-> worker[w].name])
          /\ nextId' = nextId + 1
    /\ Return(w)
    /\ UNCHANGED <<objects, blobs, urls>>

-----------------------------------------------------------------------------
(* DeleteBucket.                                                           *)

DeleteBucketFind(w) == Find(w, "bucketList", None, 0)

\* The objects under the bucket's prefix, one page of them; an error of the
\* listing is ignored and counts as an empty page.
DeleteBucketList(w) ==
    LET found == {k \in DOMAIN blobs : UnderPrefix(k, worker[w].user, worker[w].name)}
        page  == IF Cardinality(found) <= ListPage THEN {found}
                 ELSE kSubset(ListPage, found)
    IN  /\ worker[w].pc = "bucketList"
        /\ \E items \in page \cup (IF Faults THEN {{}} ELSE {}) :
            worker' = [worker EXCEPT ![w].todo = items, ![w].pc = "bucketBlobs"]
        /\ UNCHANGED <<buckets, nextId, objects, blobs, urls>>

\* One iteration of the loop; an error of S3.Delete is ignored.
DeleteBucketBlob(w) ==
    /\ worker[w].pc = "bucketBlobs"
    /\ \E k \in worker[w].todo :
        /\ worker' = [worker EXCEPT ![w].todo = @ \ {k}]
        /\ \/ blobs' = Without(blobs, {k})
           \/ Faults /\ UNCHANGED blobs
    /\ UNCHANGED <<buckets, nextId, objects, urls>>

DeleteBucketLoopRelists(w) ==
    /\ worker[w].pc = "bucketBlobs" /\ worker[w].todo = {}
    /\ Goto(w, IF \E k \in DOMAIN blobs : UnderPrefix(k, worker[w].user, worker[w].name)
               THEN "bucketList" ELSE "bucketRow")
    /\ UNCHANGED <<buckets, nextId, objects, blobs, urls>>

DeleteBucketLoopDone(w) ==
    /\ worker[w].pc = "bucketBlobs" /\ worker[w].todo = {}
    /\ Goto(w, "bucketRow")
    /\ UNCHANGED <<buckets, nextId, objects, blobs, urls>>

\* The delete cascades to the rows of table objects.  A bucket that is gone
\* by now is ErrNotFound.
DeleteBucketRow(w) ==
    /\ worker[w].pc = "bucketRow"
    /\ buckets' = Without(buckets, {worker[w].bucket})
    /\ objects' = Without(objects, {worker[w].bucket} \X Keys)
    /\ Return(w)
    /\ UNCHANGED <<nextId, blobs, urls>>

-----------------------------------------------------------------------------
(* PresignUpload, and the client that uses the URL.                        *)

\* MaxUrls bounds the URLs outstanding and those being signed.
PresignUploadFind(w) ==
    /\ Cardinality(urls) + Cardinality({v \in Workers : worker[v].pc \in Presigning}) < MaxUrls
    /\ \E k \in Keys, s \in Sizes : Find(w, "presignResolve", k, s)

PresignUploadResolve(w) ==
    /\ worker[w].pc = "presignResolve"
    /\ \E l \in Resolved(StorageLimit[worker[w].user], FallbackStorage) :
        IF l > 0
        THEN /\ worker' = [worker EXCEPT ![w].limit = l, ![w].pc = "presignTotal"]
             /\ UNCHANGED urls
        ELSE /\ urls' = urls \cup {Target(w)}
             /\ Return(w)
    /\ UNCHANGED <<buckets, nextId, objects, blobs>>

\* The quota gate on the claimed size; signing the URL is local.
PresignUploadTotal(w) ==
    /\ worker[w].pc = "presignTotal"
    /\ IF TotalSizeByUser(worker[w].user) + worker[w].size > worker[w].limit
       THEN UNCHANGED urls
       ELSE urls' = urls \cup {Target(w)}
    /\ Return(w)
    /\ UNCHANGED <<buckets, nextId, objects, blobs>>

\* The signature binds neither the size nor the number of uses.
ClientPut ==
    /\ \E k \in urls, s \in Sizes : blobs' = Put(blobs, k, s)
    /\ UNCHANGED <<buckets, nextId, objects, urls, worker>>

UrlExpires ==
    /\ \E k \in urls : urls' = urls \ {k}
    /\ UNCHANGED <<buckets, nextId, objects, blobs, worker>>

-----------------------------------------------------------------------------
(* ConfirmUpload.                                                          *)

ConfirmUploadFind(w) == \E k \in Keys : Find(w, "confirmHead", k, 0)

\* Head: an object that is not on S3 is ErrValidation.
ConfirmUploadHead(w) ==
    /\ worker[w].pc = "confirmHead"
    /\ IF Target(w) \in DOMAIN blobs
       THEN worker' = [worker EXCEPT ![w].size = blobs[Target(w)],
                                     ![w].pc = "confirmResolve"]
       ELSE Return(w)
    /\ UNCHANGED <<buckets, nextId, objects, blobs, urls>>

ConfirmUploadResolveNoGate(w) ==
    /\ worker[w].pc = "confirmResolve"
    /\ Goto(w, "confirmUpsert")
    /\ UNCHANGED <<buckets, nextId, objects, blobs, urls>>

ConfirmUploadResolve(w) ==
    /\ worker[w].pc = "confirmResolve"
    /\ \E l \in Resolved(StorageLimit[worker[w].user], FallbackStorage) :
        worker' = [worker EXCEPT ![w].limit = l,
                                 ![w].pc = IF l > 0 THEN "confirmTotal"
                                           ELSE "confirmUpsert"]
    /\ UNCHANGED <<buckets, nextId, objects, blobs, urls>>

ConfirmUploadTotal(w) ==
    /\ worker[w].pc = "confirmTotal"
    /\ worker' = [worker EXCEPT ![w].total = TotalSizeByUser(worker[w].user),
                                ![w].pc = "confirmOld"]
    /\ UNCHANGED <<buckets, nextId, objects, blobs, urls>>

\* The size FindByKey gives, 0 without a row; an error counts as no row.
OldSizes(r) == {IF r \in DOMAIN objects THEN objects[r] ELSE 0}
               \cup (IF Faults THEN {0} ELSE {})

ConfirmUploadOldOnlyNew(w) ==
    /\ worker[w].pc = "confirmOld"
    /\ \E old \in OldSizes(<<worker[w].bucket, worker[w].key>>) :
        Goto(w, IF old = 0 /\ worker[w].total + worker[w].size > worker[w].limit
                THEN "confirmReject" ELSE "confirmUpsert")
    /\ UNCHANGED <<buckets, nextId, objects, blobs, urls>>

\* The quota gate: the bytes recorded, less those of the row the upload
\* replaces, plus the bytes S3 reported.
ConfirmUploadOld(w) ==
    /\ worker[w].pc = "confirmOld"
    /\ \E old \in OldSizes(<<worker[w].bucket, worker[w].key>>) :
        Goto(w, IF worker[w].total - old + worker[w].size > worker[w].limit
                THEN "confirmReject" ELSE "confirmUpsert")
    /\ UNCHANGED <<buckets, nextId, objects, blobs, urls>>

\* Over quota: the uploaded bytes are deleted, and an error doing so is ignored.
ConfirmUploadReject(w) ==
    /\ worker[w].pc = "confirmReject"
    /\ \/ blobs' = Without(blobs, {Target(w)})
       \/ Faults /\ UNCHANGED blobs
    /\ Return(w)
    /\ UNCHANGED <<buckets, nextId, objects, urls>>

\* Upsert: the foreign key refuses the row of a bucket that is gone.
ConfirmUploadUpsert(w) ==
    /\ worker[w].pc = "confirmUpsert"
    /\ IF worker[w].bucket \in DOMAIN buckets
       THEN objects' = Put(objects, <<worker[w].bucket, worker[w].key>>, worker[w].size)
       ELSE UNCHANGED objects
    /\ Return(w)
    /\ UNCHANGED <<buckets, nextId, blobs, urls>>

-----------------------------------------------------------------------------
(* DeleteObject.                                                           *)

DeleteObjectFind(w) == \E k \in Keys : Find(w, "objectFind", k, 0)

DeleteObjectFindRow(w) ==
    /\ worker[w].pc = "objectFind"
    /\ IF <<worker[w].bucket, worker[w].key>> \in DOMAIN objects
       THEN Goto(w, "objectBlob")
       ELSE Return(w)
    /\ UNCHANGED <<buckets, nextId, objects, blobs, urls>>

DeleteObjectBlob(w) ==
    /\ worker[w].pc = "objectBlob"
    /\ blobs' = Without(blobs, {Target(w)})
    /\ Goto(w, "objectRow")
    /\ UNCHANGED <<buckets, nextId, objects, urls>>

\* A row that is gone by now is ErrNotFound.
DeleteObjectRow(w) ==
    /\ worker[w].pc = "objectRow"
    /\ objects' = Without(objects, {<<worker[w].bucket, worker[w].key>>})
    /\ Return(w)
    /\ UNCHANGED <<buckets, nextId, blobs, urls>>

-----------------------------------------------------------------------------

\* The next call of a request fails (store error, client gone, process
\* killed): the handler returns, and what it has done so far stays.
Abort(w) ==
    /\ Faults
    /\ worker[w].pc # "idle"
    /\ Return(w)
    /\ UNCHANGED <<buckets, nextId, objects, blobs, urls>>

Init ==
    /\ buckets = [b \in {} |-> Idle]
    /\ nextId = 1
    /\ objects = [r \in {} |-> 0]
    /\ blobs = [k \in {} |-> 0]
    /\ urls = {}
    /\ worker = [w \in Workers |-> Idle]

\* What a client's request starts.
Request(w) ==
    \/ CreateStart(w)
    \/ DeleteBucketFind(w)
    \/ PresignUploadFind(w)
    \/ ConfirmUploadFind(w)
    \/ DeleteObjectFind(w)

\* What the goroutine of a request in progress does next.
Continue(w) ==
    \/ CreateResolve(w)
    \/ CreateCount(w)
    \/ CreateInsert(w)
    \/ DeleteBucketList(w)
    \/ DeleteBucketBlob(w)
    \/ DeleteBucketLoopDone(w)
    \/ DeleteBucketRow(w)
    \/ PresignUploadResolve(w)
    \/ PresignUploadTotal(w)
    \/ ConfirmUploadHead(w)
    \/ ConfirmUploadResolve(w)
    \/ ConfirmUploadTotal(w)
    \/ ConfirmUploadOld(w)
    \/ ConfirmUploadReject(w)
    \/ ConfirmUploadUpsert(w)
    \/ DeleteObjectFindRow(w)
    \/ DeleteObjectBlob(w)
    \/ DeleteObjectRow(w)

Next ==
    \/ \E w \in Workers : Request(w) \/ Continue(w) \/ Abort(w)
    \/ ClientPut
    \/ UrlExpires

Spec == Init /\ [][Next]_vars

\* Every call to a store returns or fails, and its goroutine goes on; nothing
\* makes a client send a request, use a URL or let it expire.
FairSpec == Spec /\ \A w \in Workers : WF_vars(Continue(w))

-----------------------------------------------------------------------------

\* A request: where it is and what it has read.
RequestType ==
    [pc : PC, user : Users \cup {None}, bucket : Nat, name : Names \cup {None},
     key : Keys \cup {None}, size : Nat, limit : Nat, total : Nat, todo : SUBSET S3Key]

TablesOK ==
    /\ nextId \in BucketId
    /\ DOMAIN buckets \subseteq 1 .. nextId - 1
    /\ buckets \in [DOMAIN buckets -> [user : Users, name : Names]]
    /\ DOMAIN objects \subseteq Row
    /\ objects \in [DOMAIN objects -> Nat]
    /\ DOMAIN blobs \subseteq S3Key
    /\ blobs \in [DOMAIN blobs -> Sizes]
    /\ urls \subseteq S3Key

\* The tables, the store and the requests hold what their columns allow.
TypeOK == TablesOK /\ worker \in [Workers -> RequestType]

\* Every row of table objects belongs to a live bucket, and no two rows, of
\* any two buckets, describe the same S3 object, however requests interleave
\* with the deletion and re-creation of a bucket of the same name.
NoSharedBlob ==
    /\ \A r \in DOMAIN objects : r[1] \in DOMAIN buckets
    /\ \A r1, r2 \in DOMAIN objects : BlobOf(r1) = BlobOf(r2) => r1 = r2

\* CreateBucket counts and inserts in two statements, so concurrent requests
\* can pass the count together: a user ends with at most one bucket more than
\* the plan allows for every other request goroutine, and with one goroutine
\* never with more.
BucketOvershootBounded ==
    \A u \in Users : BucketLimit[u] > 0 =>
        CountByUser(u) <= BucketLimit[u] + Cardinality(Workers) - 1

\* ConfirmUpload sums, reads the old row and upserts in three statements: the
\* bytes recorded for a user exceed the plan by what the other request
\* goroutines can add in between, and with one goroutine never.
StorageOvershootBounded ==
    \A u \in Users : StorageLimit[u] > 0 =>
        TotalSizeByUser(u) <= StorageLimit[u]
                              + (Cardinality(Workers) - 1) * Max(Sizes)

\* The code's own claim on the quota, whatever the number of goroutines
\* (internal/service/storage.go:150).
StorageWithinPlan ==
    \A u \in Users : StorageLimit[u] > 0 => TotalSizeByUser(u) <= StorageLimit[u]

\* What a user has: buckets, rows and bytes.
DataOf(u) == <<Restrict(buckets, BucketsOf(u)), Restrict(objects, RowsOf(u)),
               Restrict(blobs, {k \in DOMAIN blobs : k[1] = u})>>

\* A user's data changes only by a step of a request of that user or by a PUT
\* to a URL signed for that user: the ids and names a request keeps from its
\* first query never come to mean another user's data.
TenantIsolation ==
    [][\A u \in Users :
          /\ ~\E w \in Workers : worker[w].user = u /\ worker'[w] # worker[w]
          /\ DataOf(u)' # DataOf(u)
          => \E k \in urls, s \in Sizes : /\ k[1] = u
                                         /\ blobs' = Put(blobs, k, s)
                                         /\ UNCHANGED <<buckets, objects>>]_vars

\* A recorded object loses its bytes only to a request on that object, or on
\* its bucket.  One goroutine at a time only: a deletion that has outlived its
\* bucket takes the bytes of a bucket re-created under the same name.
BytesLostToOwnRequest ==
    [][\A r \in DOMAIN objects :
          BlobOf(r) \in DOMAIN blobs \ DOMAIN blobs' =>
              \E w \in Workers : /\ worker[w].bucket = r[1]
                                 /\ worker[w].key \in {r[2], None}]_vars

\* Every request ends.  The loop of DeleteBucket does too, though clients go
\* on putting objects under the prefix while it runs.
RequestsFinish == \A w \in Workers : worker[w].pc # "idle" ~> worker[w].pc = "idle"

\* DeleteBucket's comment (internal/service/storage.go:90): when the delete
\* has succeeded, no object of the bucket is left on S3.
DeleteBucketRemovesObjects ==
    [][\A w \in Workers :
          worker[w].pc = "bucketRow" /\ worker[w].bucket \in DOMAIN buckets \ DOMAIN buckets'
          => \A k \in DOMAIN blobs' : ~UnderPrefix(k, worker[w].user, worker[w].name)]_vars
=============================================================================
