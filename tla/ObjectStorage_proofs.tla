------------------------ MODULE ObjectStorage_proofs ------------------------
(* Theorems about ObjectStorage, for every number of users, buckets,       *)
(* objects and request goroutines.                                         *)
EXTENDS ObjectStorage, SumTheorems

-----------------------------------------------------------------------------
(* Typing.                                                                 *)

RequestsOK == worker \in [Workers -> RequestType]

\* A table never holds infinitely many rows, so that sums of it are numbers.
FiniteRows == IsFiniteSet(DOMAIN objects)

ObjectPC == {"presignResolve", "presignTotal", "confirmHead", "confirmResolve",
             "confirmTotal", "confirmOld", "confirmReject", "confirmUpsert",
             "objectFind", "objectBlob", "objectRow"}
BucketPC == {"bucketList", "bucketBlobs", "bucketRow"} \cup ObjectPC

\* What a request in progress is about is set, and its bucket has existed.
Addressed ==
    \A w \in Workers :
        /\ worker[w].pc # "idle" => worker[w].user \in Users /\ worker[w].name \in Names
        /\ worker[w].pc \in ObjectPC => worker[w].key \in Keys
        /\ worker[w].pc \in BucketPC => worker[w].bucket \in 1 .. nextId - 1

Typed == TablesOK /\ FiniteRows /\ RequestsOK /\ Addressed

LEMMA IdleType == Idle \in RequestType
BY DEF Idle, RequestType, PC

LEMMA InitTyped == Init => Typed
<1> SUFFICES ASSUME Init PROVE Typed
  OBVIOUS
<1>1. TablesOK
  BY DEF Init, TablesOK, BucketId
<1>2. FiniteRows
  BY FS_EmptySet DEF Init, FiniteRows
<1>3. RequestsOK
  BY IdleType DEF Init, RequestsOK
<1>4. Addressed
  BY DEF Init, Addressed, Idle, ObjectPC, BucketPC
<1> QED BY <1>1, <1>2, <1>3, <1>4 DEF Typed

\* The rows of a user are finitely many, and their sizes sum to a number.
LEMMA TotalType ==
    ASSUME Typed, NEW u
    PROVE  /\ IsFiniteSet(RowsOf(u)) /\ \A r \in RowsOf(u) : objects[r] \in Nat
           /\ TotalSizeByUser(u) \in Nat
<1>1. IsFiniteSet(RowsOf(u))
  BY FS_Subset DEF Typed, FiniteRows, RowsOf
<1>2. \A r \in RowsOf(u) : objects[r] \in Nat
  BY DEF Typed, TablesOK, RowsOf
<1> QED BY <1>1, <1>2, SumType DEF TotalSizeByUser

\* What a step leaves in the record of its request.
LEMMA RequestsStep ==
    ASSUME Typed, NEW w \in Workers, Request(w) \/ Continue(w) \/ Abort(w)
    PROVE  RequestsOK'
<1> DEFINE R == RequestType
<1>1. TotalSizeByUser(worker[w].user) \in Nat
  BY TotalType
<1>2. worker \in [Workers -> R]
  BY DEF Typed, RequestsOK
<1>3. Idle \in R
  BY IdleType
<1>4. worker[w] \in R
  BY <1>2
<1>5. SUFFICES \E r \in R : worker' = [worker EXCEPT ![w] = r]
  <2>1. worker' \in [Workers -> R]
    BY <1>2, <1>5
  <2> QED BY <2>1 DEF RequestsOK
<1>6. ASSUME NEW pc \in PC, Goto(w, pc) PROVE \E r \in R : worker' = [worker EXCEPT ![w] = r]
  <2>1. [worker[w] EXCEPT !.pc = pc] \in R
    BY <1>4 DEF RequestType
  <2> QED BY <2>1, <1>2, <1>6 DEF Goto
<1>7. ASSUME Return(w) PROVE \E r \in R : worker' = [worker EXCEPT ![w] = r]
  BY <1>3, <1>7 DEF Return
<1>8. ASSUME NEW pc \in PC, NEW k \in Keys \cup {None}, NEW s \in Nat, Find(w, pc, k, s)
      PROVE  \E r \in R : worker' = [worker EXCEPT ![w] = r]
  <2>1. PICK u \in Users, b \in DOMAIN buckets :
            worker' = [worker EXCEPT ![w] =
                        [Idle EXCEPT !.pc = pc, !.user = u, !.bucket = b,
                                     !.name = buckets[b].name,
                                     !.key = k, !.size = s]]
    BY <1>8 DEF Find
  <2>2. b \in Nat /\ buckets[b].name \in Names
    BY DEF Typed, TablesOK, BucketId
  <2>3. [Idle EXCEPT !.pc = pc, !.user = u, !.bucket = b,
                     !.name = buckets[b].name, !.key = k, !.size = s] \in R
    BY <1>3, <2>2 DEF RequestType
  <2> QED BY <2>1, <2>3
<1>9. \A u \in Users : /\ Resolved(BucketLimit[u], FallbackBuckets) \subseteq Nat
                       /\ Resolved(StorageLimit[u], FallbackStorage) \subseteq Nat
  BY LimitsAssumption DEF Resolved
<1>10. worker[w].pc # "idle" => worker[w].user \in Users
  BY DEF Typed, Addressed
<1>11. CASE CreateStart(w)
  <2>1. PICK u \in Users, n \in Names :
            worker' = [worker EXCEPT ![w] = [Idle EXCEPT !.pc = "createResolve",
                                                         !.user = u, !.name = n]]
    BY <1>11 DEF CreateStart
  <2>2. [Idle EXCEPT !.pc = "createResolve", !.user = u, !.name = n] \in R
    BY <1>3 DEF RequestType, PC
  <2> QED BY <2>1, <2>2
<1>12. CASE CreateResolve(w)
  <2>1. PICK l \in Nat, pc \in PC : worker' = [worker EXCEPT ![w].limit = l, ![w].pc = pc]
    BY <1>9, <1>10, <1>12 DEF CreateResolve, PC
  <2>2. [worker[w] EXCEPT !.limit = l, !.pc = pc] \in R
    BY <1>4 DEF RequestType
  <2> QED BY <2>1, <2>2, <1>2
<1>13. CASE CreateCount(w)
  BY <1>6, <1>7, <1>13 DEF CreateCount, PC
<1>14. CASE CreateInsert(w)
  BY <1>7, <1>14 DEF CreateInsert
<1>15. CASE DeleteBucketFind(w)
  BY <1>8, <1>15, WorldAssumption DEF DeleteBucketFind, PC
<1>16. CASE DeleteBucketList(w)
  <2>1. PICK items \in SUBSET S3Key :
            worker' = [worker EXCEPT ![w].todo = items, ![w].pc = "bucketBlobs"]
    BY <1>16 DEF DeleteBucketList, kSubset, Typed, TablesOK
  <2>2. [worker[w] EXCEPT !.todo = items, !.pc = "bucketBlobs"] \in R
    BY <1>4 DEF RequestType, PC
  <2> QED BY <2>1, <2>2, <1>2
<1>17. CASE DeleteBucketBlob(w)
  <2>1. PICK k \in worker[w].todo : worker' = [worker EXCEPT ![w].todo = @ \ {k}]
    BY <1>17 DEF DeleteBucketBlob
  <2>2. [worker[w] EXCEPT !.todo = @ \ {k}] \in R
    BY <1>4 DEF RequestType
  <2> QED BY <2>1, <2>2, <1>2
<1>18. CASE DeleteBucketLoopDone(w)
  BY <1>6, <1>7, <1>18 DEF DeleteBucketLoopDone, PC
<1>19. CASE DeleteBucketRow(w)
  BY <1>7, <1>19 DEF DeleteBucketRow
<1>20. CASE PresignUploadFind(w)
  BY <1>8, <1>20, WorldAssumption DEF PresignUploadFind, PC
<1>21. CASE PresignUploadResolve(w)
  <2>1. CASE Return(w)
    BY <1>7, <2>1
  <2>2. CASE ~Return(w)
    <3>1. PICK l \in Nat : worker' = [worker EXCEPT ![w].limit = l, ![w].pc = "presignTotal"]
      BY <1>9, <1>10, <1>21, <2>2 DEF PresignUploadResolve
    <3>2. [worker[w] EXCEPT !.limit = l, !.pc = "presignTotal"] \in R
      BY <1>4 DEF RequestType, PC
    <3> QED BY <3>1, <3>2, <1>2
  <2> QED BY <2>1, <2>2
<1>22. CASE PresignUploadTotal(w)
  BY <1>7, <1>22 DEF PresignUploadTotal
<1>23. CASE ConfirmUploadFind(w)
  BY <1>8, <1>23, WorldAssumption DEF ConfirmUploadFind, PC
<1>24. CASE ConfirmUploadHead(w)
  <2>1. CASE Return(w)
    BY <1>7, <2>1
  <2>2. CASE ~Return(w)
    <3>1. worker' = [worker EXCEPT ![w].size = blobs[Target(w)], ![w].pc = "confirmResolve"]
      BY <1>24, <2>2 DEF ConfirmUploadHead
    <3>2. blobs[Target(w)] \in Nat
      BY <1>24, <2>2, WorldAssumption DEF ConfirmUploadHead, Typed, TablesOK
    <3>3. [worker[w] EXCEPT !.size = blobs[Target(w)], !.pc = "confirmResolve"] \in R
      BY <1>4, <3>2 DEF RequestType, PC
    <3> QED BY <3>1, <3>3, <1>2
  <2> QED BY <2>1, <2>2
<1>25. CASE ConfirmUploadResolve(w)
  <2>1. PICK l \in Nat, pc \in PC : worker' = [worker EXCEPT ![w].limit = l, ![w].pc = pc]
    BY <1>9, <1>10, <1>25 DEF ConfirmUploadResolve, PC
  <2>2. [worker[w] EXCEPT !.limit = l, !.pc = pc] \in R
    BY <1>4 DEF RequestType
  <2> QED BY <2>1, <2>2, <1>2
<1>26. CASE ConfirmUploadTotal(w)
  <2>1. [worker[w] EXCEPT !.total = TotalSizeByUser(worker[w].user), !.pc = "confirmOld"] \in R
    BY <1>1, <1>4 DEF RequestType, PC
  <2> QED BY <2>1, <1>2, <1>26 DEF ConfirmUploadTotal
<1>27. CASE ConfirmUploadOld(w)
  BY <1>6, <1>7, <1>27 DEF ConfirmUploadOld, PC
<1>28. CASE ConfirmUploadReject(w)
  BY <1>7, <1>28 DEF ConfirmUploadReject
<1>29. CASE ConfirmUploadUpsert(w)
  BY <1>7, <1>29 DEF ConfirmUploadUpsert
<1>30. CASE DeleteObjectFind(w)
  BY <1>8, <1>30, WorldAssumption DEF DeleteObjectFind, PC
<1>31. CASE DeleteObjectFindRow(w)
  BY <1>6, <1>7, <1>31 DEF DeleteObjectFindRow, PC
<1>32. CASE DeleteObjectBlob(w)
  BY <1>6, <1>7, <1>32 DEF DeleteObjectBlob, PC
<1>33. CASE DeleteObjectRow(w)
  BY <1>7, <1>33 DEF DeleteObjectRow
<1>34. CASE Abort(w)
  BY <1>7, <1>34 DEF Abort
<1> QED
  BY <1>11, <1>12, <1>13, <1>14, <1>15, <1>16, <1>17, <1>18,
     <1>19, <1>20, <1>21, <1>22, <1>23, <1>24, <1>25, <1>26,
     <1>27, <1>28, <1>29, <1>30, <1>31, <1>32, <1>33, <1>34
  DEF Request, Continue

-----------------------------------------------------------------------------
(* The shape of a step: a request ends, starts or goes on with the same    *)
(* subject, and only some steps touch a table.                             *)

\* The record of a request that has just started.
Starts(r) ==
    /\ r.pc = "createResolve" \/ r.pc \in BucketPC
    /\ r.user \in Users /\ r.name \in Names /\ r.todo = {}
    /\ r.pc \in BucketPC => Owns(r.user, r.bucket) /\ r.name = buckets[r.bucket].name
    /\ r.pc \in ObjectPC => r.key \in Keys
    /\ r.pc \in BucketPC \ ObjectPC => r.key = None

\* The record of the same request, further on.
GoesOn(w, r) ==
    /\ worker[w].pc # "idle" /\ r.pc # "idle"
    /\ r.user = worker[w].user /\ r.bucket = worker[w].bucket
    /\ r.name = worker[w].name /\ r.key = worker[w].key
    /\ r.pc \in BucketPC <=> worker[w].pc \in BucketPC
    /\ r.pc \in ObjectPC <=> worker[w].pc \in ObjectPC
    /\ \A k \in r.todo : k \in worker[w].todo \/ UnderPrefix(k, worker[w].user, worker[w].name)

LEMMA Shape ==
    ASSUME Typed, NEW w \in Workers, Request(w) \/ Continue(w) \/ Abort(w)
    PROVE  \E r : /\ worker' = [worker EXCEPT ![w] = r]
                  /\ r = Idle \/ Starts(r) \/ GoesOn(w, r)
                  /\ r.pc \in {"createCount", "createInsert"}
                        => CreateResolve(w) \/ CreateCount(w)
<1> DEFINE Goal == \E r : /\ worker' = [worker EXCEPT ![w] = r]
                          /\ r = Idle \/ Starts(r) \/ GoesOn(w, r)
                          /\ r.pc \in {"createCount", "createInsert"}
                                => CreateResolve(w) \/ CreateCount(w)
<1> SUFFICES Goal
  OBVIOUS
<1>1. worker \in [Workers -> RequestType]
  BY DEF Typed, RequestsOK
<1>2. worker[w] \in RequestType
  BY <1>1
<1>3. ASSUME Return(w) PROVE Goal
  <2>1. Idle.pc = "idle"
    BY DEF Idle
  <2> QED BY <2>1, <1>3 DEF Return
<1>4. ASSUME NEW pc, Goto(w, pc), pc # "idle", worker[w].pc # "idle",
             pc \in BucketPC <=> worker[w].pc \in BucketPC,
             pc \in ObjectPC <=> worker[w].pc \in ObjectPC,
             pc \in {"createCount", "createInsert"} => CreateCount(w)
      PROVE  Goal
  <2> DEFINE r == [worker[w] EXCEPT !.pc = pc]
  <2>1. worker' = [worker EXCEPT ![w] = r]
    BY <1>4, <1>1 DEF Goto
  <2>2. GoesOn(w, r) /\ r.pc = pc
    BY <1>4, <1>2 DEF GoesOn, RequestType
  <2> HIDE DEF r
  <2> QED BY <2>1, <2>2, <1>4
<1>5. ASSUME NEW pc \in BucketPC, NEW k, NEW s, Find(w, pc, k, s), pc \in ObjectPC => k \in Keys,
             pc \notin ObjectPC => k = None
      PROVE  Goal
  <2>1. PICK u \in Users, b \in DOMAIN buckets :
            /\ Owns(u, b)
            /\ worker' = [worker EXCEPT ![w] =
                            [Idle EXCEPT !.pc = pc, !.user = u, !.bucket = b,
                                         !.name = buckets[b].name,
                                         !.key = k, !.size = s]]
    BY <1>5 DEF Find
  <2> DEFINE r == [Idle EXCEPT !.pc = pc, !.user = u, !.bucket = b,
                               !.name = buckets[b].name, !.key = k, !.size = s]
  <2>2. buckets[b].name \in Names
    BY DEF Typed, TablesOK
  <2>3. /\ r.pc = pc /\ r.user = u /\ r.bucket = b
        /\ r.name = buckets[b].name /\ r.key = k /\ r.todo = {}
    BY DEF Idle
  <2>4. worker' = [worker EXCEPT ![w] = r]
    BY <2>1
  <2> HIDE DEF r
  <2>5. Starts(r)
    BY <2>1, <2>2, <2>3, <1>5 DEF Starts
  <2>6. r.pc \notin {"createCount", "createInsert"}
    BY <2>3 DEF BucketPC, ObjectPC
  <2> QED BY <2>4, <2>5, <2>6
<1>6. CASE CreateStart(w)
  <2>1. PICK u \in Users, n \in Names :
            worker' = [worker EXCEPT ![w] = [Idle EXCEPT !.pc = "createResolve",
                                                         !.user = u, !.name = n]]
    BY <1>6 DEF CreateStart
  <2> DEFINE r == [Idle EXCEPT !.pc = "createResolve", !.user = u, !.name = n]
  <2>2. Starts(r) /\ r.pc = "createResolve"
    BY DEF Starts, Idle, BucketPC, ObjectPC
  <2>3. worker' = [worker EXCEPT ![w] = r]
    BY <2>1
  <2> HIDE DEF r
  <2> QED BY <2>2, <2>3
<1>7. CASE CreateResolve(w)
  <2>1. PICK l \in Nat, pc \in {"createCount", "createInsert"} :
            worker' = [worker EXCEPT ![w].limit = l, ![w].pc = pc]
    BY <1>7, LimitsAssumption DEF CreateResolve, Resolved, Typed, Addressed
  <2> DEFINE r == [worker[w] EXCEPT !.limit = l, !.pc = pc]
  <2>2. worker' = [worker EXCEPT ![w] = r]
    BY <2>1, <1>1
  <2>3. GoesOn(w, r)
    BY <1>2, <1>7 DEF GoesOn, RequestType, BucketPC, ObjectPC, CreateResolve
  <2> HIDE DEF r
  <2> QED BY <2>2, <2>3, <1>7 DEF GoesOn
<1>8. CASE CreateCount(w)
  BY <1>3, <1>4, <1>8 DEF CreateCount, BucketPC, ObjectPC
<1>9. CASE CreateInsert(w)
  BY <1>3, <1>9 DEF CreateInsert
<1>10. CASE DeleteBucketFind(w)
  BY <1>5, <1>10 DEF DeleteBucketFind, BucketPC, ObjectPC
<1>11. CASE DeleteBucketList(w)
  <2>1. PICK items \in SUBSET {k \in DOMAIN blobs : UnderPrefix(k, worker[w].user, worker[w].name)} :
            worker' = [worker EXCEPT ![w].todo = items, ![w].pc = "bucketBlobs"]
    BY <1>11 DEF DeleteBucketList, kSubset
  <2> DEFINE r == [worker[w] EXCEPT !.todo = items, !.pc = "bucketBlobs"]
  <2>2. worker' = [worker EXCEPT ![w] = r]
    BY <2>1, <1>1
  <2>3. GoesOn(w, r) /\ r.pc \notin {"createCount", "createInsert"}
    BY <1>2, <1>11 DEF GoesOn, RequestType, BucketPC, ObjectPC, DeleteBucketList
  <2> HIDE DEF r
  <2> QED BY <2>2, <2>3, <1>11 DEF GoesOn
<1>12. CASE DeleteBucketBlob(w)
  <2>1. PICK k \in worker[w].todo :
            worker' = [worker EXCEPT ![w].todo = @ \ {k}]
    BY <1>12 DEF DeleteBucketBlob
  <2> DEFINE r == [worker[w] EXCEPT !.todo = @ \ {k}]
  <2>2. worker' = [worker EXCEPT ![w] = r]
    BY <2>1, <1>1
  <2>3. GoesOn(w, r) /\ r.pc \notin {"createCount", "createInsert"}
    BY <1>2, <1>12 DEF GoesOn, RequestType, BucketPC, ObjectPC, DeleteBucketBlob
  <2> HIDE DEF r
  <2> QED BY <2>2, <2>3, <1>12 DEF GoesOn
<1>13. CASE DeleteBucketLoopDone(w)
  BY <1>3, <1>4, <1>13 DEF DeleteBucketLoopDone, BucketPC, ObjectPC
<1>14. CASE DeleteBucketRow(w)
  BY <1>3, <1>14 DEF DeleteBucketRow
<1>15. CASE PresignUploadFind(w)
  BY <1>5, <1>15 DEF PresignUploadFind, BucketPC, ObjectPC
<1>16. CASE PresignUploadResolve(w)
  <2> SUFFICES ASSUME ~Return(w) PROVE Goal
    BY <1>3
  <2>1. PICK l :
            worker' = [worker EXCEPT ![w].limit = l, ![w].pc = "presignTotal"]
    BY <1>16, LimitsAssumption DEF PresignUploadResolve, Resolved, Typed, Addressed
  <2> DEFINE r == [worker[w] EXCEPT !.limit = l, !.pc = "presignTotal"]
  <2>2. worker' = [worker EXCEPT ![w] = r]
    BY <2>1, <1>1
  <2>3. GoesOn(w, r) /\ r.pc \notin {"createCount", "createInsert"}
    BY <1>2, <1>16 DEF GoesOn, RequestType, BucketPC, ObjectPC, PresignUploadResolve
  <2> HIDE DEF r
  <2> QED BY <2>2, <2>3, <1>16 DEF GoesOn
<1>17. CASE PresignUploadTotal(w)
  BY <1>3, <1>17 DEF PresignUploadTotal
<1>18. CASE ConfirmUploadFind(w)
  BY <1>5, <1>18 DEF ConfirmUploadFind, BucketPC, ObjectPC
<1>19. CASE ConfirmUploadHead(w)
  <2> SUFFICES ASSUME ~Return(w) PROVE Goal
    BY <1>3
  <2>1. worker' = [worker EXCEPT ![w].size = blobs[Target(w)], ![w].pc = "confirmResolve"]
    BY <1>19 DEF ConfirmUploadHead
  <2> DEFINE r == [worker[w] EXCEPT !.size = blobs[Target(w)], !.pc = "confirmResolve"]
  <2>2. worker' = [worker EXCEPT ![w] = r]
    BY <2>1, <1>1
  <2>3. GoesOn(w, r) /\ r.pc \notin {"createCount", "createInsert"}
    BY <1>2, <1>19 DEF GoesOn, RequestType, BucketPC, ObjectPC, ConfirmUploadHead
  <2> HIDE DEF r
  <2> QED BY <2>2, <2>3, <1>19 DEF GoesOn
<1>20. CASE ConfirmUploadResolve(w)
  <2>1. PICK l \in Nat, pc \in {"confirmTotal", "confirmUpsert"} :
            worker' = [worker EXCEPT ![w].limit = l, ![w].pc = pc]
    BY <1>20, LimitsAssumption DEF ConfirmUploadResolve, Resolved, Typed, Addressed
  <2> DEFINE r == [worker[w] EXCEPT !.limit = l, !.pc = pc]
  <2>2. worker' = [worker EXCEPT ![w] = r]
    BY <2>1, <1>1
  <2>3. GoesOn(w, r) /\ r.pc \notin {"createCount", "createInsert"}
    BY <1>2, <1>20 DEF GoesOn, RequestType, BucketPC, ObjectPC, ConfirmUploadResolve
  <2> HIDE DEF r
  <2> QED BY <2>2, <2>3, <1>20 DEF GoesOn
<1>21. CASE ConfirmUploadTotal(w)
  <2>1. worker' = [worker EXCEPT ![w].total = TotalSizeByUser(worker[w].user),
                               ![w].pc = "confirmOld"]
    BY <1>21 DEF ConfirmUploadTotal
  <2> DEFINE r == [worker[w] EXCEPT !.total = TotalSizeByUser(worker[w].user),
                               !.pc = "confirmOld"]
  <2>2. worker' = [worker EXCEPT ![w] = r]
    BY <2>1, <1>1
  <2>3. GoesOn(w, r) /\ r.pc \notin {"createCount", "createInsert"}
    BY <1>2, <1>21 DEF GoesOn, RequestType, BucketPC, ObjectPC, ConfirmUploadTotal
  <2> HIDE DEF r
  <2> QED BY <2>2, <2>3, <1>21 DEF GoesOn
<1>22. CASE ConfirmUploadOld(w)
  BY <1>3, <1>4, <1>22 DEF ConfirmUploadOld, BucketPC, ObjectPC
<1>23. CASE ConfirmUploadReject(w)
  BY <1>3, <1>23 DEF ConfirmUploadReject
<1>24. CASE ConfirmUploadUpsert(w)
  BY <1>3, <1>24 DEF ConfirmUploadUpsert
<1>25. CASE DeleteObjectFind(w)
  BY <1>5, <1>25 DEF DeleteObjectFind, BucketPC, ObjectPC
<1>26. CASE DeleteObjectFindRow(w)
  BY <1>3, <1>4, <1>26 DEF DeleteObjectFindRow, BucketPC, ObjectPC
<1>27. CASE DeleteObjectBlob(w)
  BY <1>3, <1>4, <1>27 DEF DeleteObjectBlob, BucketPC, ObjectPC
<1>28. CASE DeleteObjectRow(w)
  BY <1>3, <1>28 DEF DeleteObjectRow
<1>29. CASE Abort(w)
  BY <1>3, <1>29 DEF Abort
<1> QED
  BY <1>6, <1>7, <1>8, <1>9, <1>10, <1>11, <1>12, <1>13,
     <1>14, <1>15, <1>16, <1>17, <1>18, <1>19, <1>20, <1>21,
     <1>22, <1>23, <1>24, <1>25, <1>26, <1>27, <1>28, <1>29
  DEF Request, Continue

-----------------------------------------------------------------------------
(* The tables and the store.                                               *)

\* The steps of a request that write to a store or sign a URL.
LEMMA Writers ==
    ASSUME NEW w \in Workers, Request(w) \/ Continue(w) \/ Abort(w)
    PROVE  \/ UNCHANGED <<buckets, nextId, objects, blobs, urls>>
           \/ CreateInsert(w)
           \/ DeleteBucketBlob(w) \/ DeleteBucketRow(w)
           \/ PresignUploadResolve(w) \/ PresignUploadTotal(w)
           \/ ConfirmUploadReject(w) \/ ConfirmUploadUpsert(w)
           \/ DeleteObjectBlob(w) \/ DeleteObjectRow(w)
<1>1. ASSUME NEW pc, NEW k, NEW s, Find(w, pc, k, s)
      PROVE  UNCHANGED <<buckets, nextId, objects, blobs, urls>>
  BY <1>1 DEF Find
<1>2. Request(w) => UNCHANGED <<buckets, nextId, objects, blobs, urls>>
  BY <1>1 DEF Request, CreateStart, DeleteBucketFind, PresignUploadFind,
              ConfirmUploadFind, DeleteObjectFind
<1>3. CreateResolve(w) \/ CreateCount(w) \/ DeleteBucketList(w) \/ DeleteBucketLoopDone(w)
      \/ ConfirmUploadHead(w) \/ ConfirmUploadResolve(w) \/ ConfirmUploadTotal(w)
      \/ ConfirmUploadOld(w) \/ DeleteObjectFindRow(w) \/ Abort(w)
      => UNCHANGED <<buckets, nextId, objects, blobs, urls>>
  BY DEF CreateResolve, CreateCount, DeleteBucketList, DeleteBucketLoopDone,
         ConfirmUploadHead, ConfirmUploadResolve, ConfirmUploadTotal,
         ConfirmUploadOld, DeleteObjectFindRow, Abort
<1> QED
  BY <1>2, <1>3 DEF Continue

\* The S3 key a request on an object of a bucket computes.
LEMMA TargetKey ==
    ASSUME Typed, NEW w \in Workers, worker[w].pc \in ObjectPC
    PROVE  /\ Target(w) \in S3Key /\ Target(w)[1] = worker[w].user
           /\ <<worker[w].bucket, worker[w].key>> \in Row
           /\ worker[w].size \in Nat
<1>1. worker[w].user \in Users /\ worker[w].name \in Names /\ worker[w].key \in Keys
  BY DEF Typed, Addressed, ObjectPC
<1>2. worker[w].bucket \in BucketId
  BY DEF Typed, Addressed, BucketPC, BucketId, TablesOK
<1>3. worker[w].size \in Nat
  BY DEF Typed, RequestsOK, RequestType
<1> QED BY <1>1, <1>2, <1>3 DEF Target, BuildKey, S3Key, Row

LEMMA TablesStep ==
    ASSUME Typed, Next
    PROVE  TablesOK'
<1> USE DEF Typed, TablesOK
<1>1. CASE UNCHANGED <<buckets, nextId, objects, blobs, urls>>
  BY <1>1
<1>2. ASSUME NEW w \in Workers, CreateInsert(w) PROVE TablesOK'
  <2>1. worker[w].user \in Users /\ worker[w].name \in Names
    BY <1>2 DEF Addressed, CreateInsert
  <2>2. CASE UNCHANGED <<buckets, nextId>>
    BY <2>2, <1>2 DEF CreateInsert
  <2>3. CASE ~UNCHANGED <<buckets, nextId>>
    <3>1. /\ buckets' = Put(buckets, nextId, [user |-> worker[w].user, name |-> worker[w].name])
          /\ nextId' = nextId + 1
          /\ UNCHANGED <<objects, blobs, urls>>
      BY <1>2, <2>3 DEF CreateInsert
    <3>2. nextId' \in BucketId
      BY <3>1 DEF BucketId
    <3>3. DOMAIN buckets' \subseteq 1 .. nextId' - 1
      BY <3>1 DEF Put, BucketId
    <3>4. buckets' \in [DOMAIN buckets' -> [user : Users, name : Names]]
      BY <3>1, <2>1 DEF Put
    <3> QED BY <3>1, <3>2, <3>3, <3>4
  <2> QED BY <2>2, <2>3
<1>3. ASSUME NEW S, blobs' = Without(blobs, S), UNCHANGED <<buckets, nextId, objects, urls>>
      PROVE  TablesOK'
  BY <1>3 DEF Without
<1>4. ASSUME NEW S, objects' = Without(objects, S), UNCHANGED <<buckets, nextId, blobs, urls>>
      PROVE  TablesOK'
  BY <1>4 DEF Without
<1>5. ASSUME NEW w \in Workers, DeleteBucketRow(w) PROVE TablesOK'
  <2>1. DOMAIN buckets' \subseteq 1 .. nextId' - 1
    BY <1>5 DEF DeleteBucketRow, Without
  <2>2. buckets' \in [DOMAIN buckets' -> [user : Users, name : Names]]
    BY <1>5 DEF DeleteBucketRow, Without
  <2>3. DOMAIN objects' \subseteq Row /\ objects' \in [DOMAIN objects' -> Nat]
    BY <1>5 DEF DeleteBucketRow, Without
  <2> QED BY <2>1, <2>2, <2>3, <1>5 DEF DeleteBucketRow
<1>6. ASSUME NEW w \in Workers, PresignUploadResolve(w) \/ PresignUploadTotal(w)
      PROVE  TablesOK'
  <2>1. worker[w].pc \in ObjectPC
    BY <1>6 DEF PresignUploadResolve, PresignUploadTotal, ObjectPC
  <2>2. Target(w) \in S3Key
    BY <2>1, TargetKey
  <2> QED BY <1>6, <2>2 DEF PresignUploadResolve, PresignUploadTotal
<1>7. ASSUME NEW w \in Workers, ConfirmUploadUpsert(w) PROVE TablesOK'
  <2>1. worker[w].pc \in ObjectPC
    BY <1>7 DEF ConfirmUploadUpsert, ObjectPC
  <2>2. <<worker[w].bucket, worker[w].key>> \in Row /\ worker[w].size \in Nat
    BY <2>1, TargetKey
  <2>3. DOMAIN objects' \subseteq Row /\ objects' \in [DOMAIN objects' -> Nat]
    BY <1>7, <2>2 DEF ConfirmUploadUpsert, Put
  <2> QED BY <2>3, <1>7 DEF ConfirmUploadUpsert
<1>8. CASE ClientPut
  <2>1. PICK k \in urls, z \in Sizes : blobs' = Put(blobs, k, z)
    BY <1>8 DEF ClientPut
  <2>2. DOMAIN blobs' \subseteq S3Key /\ blobs' \in [DOMAIN blobs' -> Sizes]
    BY <2>1 DEF Put
  <2> QED BY <2>2, <1>8 DEF ClientPut
<1>9. CASE UrlExpires
  BY <1>9 DEF UrlExpires
<1>10. ASSUME NEW w \in Workers, DeleteBucketBlob(w) \/ ConfirmUploadReject(w) \/ DeleteObjectBlob(w)
       PROVE  TablesOK'
  BY <1>10, <1>1, <1>3 DEF DeleteBucketBlob, ConfirmUploadReject, DeleteObjectBlob
<1>11. ASSUME NEW w \in Workers, DeleteObjectRow(w) PROVE TablesOK'
  BY <1>11, <1>4 DEF DeleteObjectRow
<1> QED
  BY <1>1, <1>2, <1>5, <1>6, <1>7, <1>8, <1>9, <1>10, <1>11, Writers DEF Next

\* A step adds one row to table objects at most.
LEMMA FiniteRowsStep ==
    ASSUME Typed, Next
    PROVE  FiniteRows'
<1>1. IsFiniteSet(DOMAIN objects)
  BY DEF Typed, FiniteRows
<1>2. ASSUME NEW x, DOMAIN objects' \subseteq DOMAIN objects \cup {x} PROVE FiniteRows'
  <2>1. IsFiniteSet(DOMAIN objects \cup {x})
    BY <1>1, FS_AddElement
  <2> QED BY <1>2, <2>1, FS_Subset DEF FiniteRows
<1>3. CASE UNCHANGED objects
  BY <1>1, <1>3 DEF FiniteRows
<1>4. ASSUME NEW w \in Workers, DeleteBucketRow(w) \/ DeleteObjectRow(w) PROVE FiniteRows'
  BY <1>2, <1>4 DEF DeleteBucketRow, DeleteObjectRow, Without
<1>5. ASSUME NEW w \in Workers, ConfirmUploadUpsert(w) PROVE FiniteRows'
  BY <1>2, <1>3, <1>5 DEF ConfirmUploadUpsert, Put
<1> QED
  BY <1>3, <1>4, <1>5, Writers
  DEF Next, CreateInsert, DeleteBucketBlob, PresignUploadResolve, PresignUploadTotal,
      ConfirmUploadReject, DeleteObjectBlob, ClientPut, UrlExpires

-----------------------------------------------------------------------------
(* The inductive invariant.                                                *)

\* UNIQUE (user_id, name).
UniqueNames == \A a, b \in DOMAIN buckets : buckets[a] = buckets[b] => a = b

\* The foreign key of table objects.
RowsLive == \A r \in DOMAIN objects : r[1] \in DOMAIN buckets

\* What a request has read of its bucket stays true while the bucket lives,
\* though it names S3 objects by the names it has read.
Owned ==
    \A w \in Workers :
        /\ worker[w].pc \in BucketPC /\ worker[w].bucket \in DOMAIN buckets
              => buckets[worker[w].bucket] = [user |-> worker[w].user, name |-> worker[w].name]
        /\ \A k \in worker[w].todo : UnderPrefix(k, worker[w].user, worker[w].name)
        /\ worker[w].pc \in BucketPC \ ObjectPC => worker[w].key = None

IInv == Typed /\ UniqueNames /\ RowsLive /\ Owned

\* Ids only grow, and a bucket that is in the table keeps its row.
LEMMA BucketsStep ==
    ASSUME Typed, Next
    PROVE  /\ nextId' >= nextId
           /\ \A b \in DOMAIN buckets' : b # nextId => b \in DOMAIN buckets /\ buckets'[b] = buckets[b]
<1> USE DEF Typed, TablesOK, BucketId
<1>1. CASE UNCHANGED <<buckets, nextId>>
  BY <1>1
<1>2. ASSUME NEW w \in Workers, CreateInsert(w), ~UNCHANGED <<buckets, nextId>>
      PROVE  /\ nextId' = nextId + 1
             /\ buckets' = Put(buckets, nextId, [user |-> worker[w].user, name |-> worker[w].name])
  BY <1>2 DEF CreateInsert
<1>3. CASE \E w \in Workers : CreateInsert(w)
  BY <1>1, <1>2, <1>3 DEF Put
<1>4. CASE \E w \in Workers : DeleteBucketRow(w)
  BY <1>4 DEF DeleteBucketRow, Without
<1> QED
  BY <1>1, <1>3, <1>4, Writers
  DEF Next, DeleteBucketBlob, PresignUploadResolve, PresignUploadTotal, ConfirmUploadReject,
      ConfirmUploadUpsert, DeleteObjectBlob, DeleteObjectRow, ClientPut, UrlExpires

LEMMA AddressedStep ==
    ASSUME Typed, Next
    PROVE  Addressed'
<1> SUFFICES ASSUME NEW v \in Workers
             PROVE  /\ worker'[v].pc # "idle" => worker'[v].user \in Users /\ worker'[v].name \in Names
                    /\ worker'[v].pc \in ObjectPC => worker'[v].key \in Keys
                    /\ worker'[v].pc \in BucketPC => worker'[v].bucket \in 1 .. nextId' - 1
  BY DEF Addressed
<1>1. 1 .. nextId - 1 \subseteq 1 .. nextId' - 1
  BY BucketsStep, TablesStep DEF Typed, TablesOK, BucketId
<1>2. CASE worker'[v] = worker[v]
  BY <1>1, <1>2 DEF Typed, Addressed
<1>3. CASE worker'[v] # worker[v]
  <2>1. PICK w \in Workers : Request(w) \/ Continue(w) \/ Abort(w)
    BY <1>3 DEF Next, ClientPut, UrlExpires
  <2>2. PICK r : /\ worker' = [worker EXCEPT ![w] = r]
                 /\ r = Idle \/ Starts(r) \/ GoesOn(w, r)
    BY <2>1, Shape
  <2>3. v = w /\ worker'[v] = r
    BY <2>2, <1>3 DEF Typed, RequestsOK
  <2>4. CASE r = Idle
    BY <2>3, <2>4 DEF Idle, BucketPC, ObjectPC
  <2>5. CASE Starts(r)
    BY <2>3, <2>5, <1>1 DEF Starts, Owns, Typed, TablesOK
  <2>6. CASE GoesOn(w, r)
    BY <2>3, <2>6, <1>1 DEF GoesOn, Typed, Addressed
  <2> QED BY <2>2, <2>4, <2>5, <2>6
<1> QED BY <1>2, <1>3

LEMMA TypedStep ==
    ASSUME Typed, [Next]_vars
    PROVE  Typed'
<1>1. CASE Next
  <2>1. RequestsOK'
    BY <1>1, RequestsStep DEF Next, ClientPut, UrlExpires, Typed, RequestsOK
  <2> QED BY <2>1, <1>1, TablesStep, FiniteRowsStep, AddressedStep DEF Typed
<1>2. CASE UNCHANGED vars
  BY <1>2 DEF vars, Typed, TablesOK, FiniteRows, RequestsOK, Addressed
<1> QED BY <1>1, <1>2

LEMMA OwnedStep ==
    ASSUME IInv, Next
    PROVE  Owned'
<1> USE DEF IInv, Typed, TablesOK, BucketId
<1> DEFINE OK(q) ==
        /\ q.pc \in BucketPC /\ q.bucket \in DOMAIN buckets'
              => buckets'[q.bucket] = [user |-> q.user, name |-> q.name]
        /\ \A k \in q.todo : UnderPrefix(k, q.user, q.name)
        /\ q.pc \in BucketPC \ ObjectPC => q.key = None
<1> SUFFICES ASSUME NEW v \in Workers PROVE OK(worker'[v])
  BY DEF Owned
<1>1. ASSUME NEW b \in 1 .. nextId - 1, b \in DOMAIN buckets'
      PROVE  b \in DOMAIN buckets /\ buckets'[b] = buckets[b]
  BY BucketsStep, <1>1
<1>2. OK(worker[v])
  BY <1>1 DEF Owned, Addressed
<1>3. CASE worker'[v] = worker[v]
  BY <1>2, <1>3
<1>4. CASE worker'[v] # worker[v]
  <2>1. PICK w \in Workers : Request(w) \/ Continue(w) \/ Abort(w)
    BY <1>4 DEF Next, ClientPut, UrlExpires
  <2>2. PICK r : /\ worker' = [worker EXCEPT ![w] = r]
                 /\ r = Idle \/ Starts(r) \/ GoesOn(w, r)
    BY <2>1, Shape
  <2>3. v = w /\ worker'[v] = r
    BY <2>2, <1>4 DEF RequestsOK
  <2>4. CASE r = Idle
    BY <2>4, <2>3 DEF Idle, BucketPC, ObjectPC
  <2>5. CASE Starts(r)
    <3>1. r.pc \in BucketPC => r.bucket \in DOMAIN buckets
                               /\ buckets[r.bucket] = [user |-> r.user, name |-> r.name]
      BY <2>5 DEF Starts, Owns
    <3> QED BY <3>1, <2>5, <2>3, <1>1 DEF Starts
  <2>6. CASE GoesOn(w, r)
    <3>1. \A k \in r.todo : UnderPrefix(k, r.user, r.name)
      BY <2>6, <2>3, <1>2 DEF GoesOn
    <3> QED BY <3>1, <2>6, <2>3, <1>2 DEF GoesOn
  <2> QED BY <2>2, <2>4, <2>5, <2>6
<1> HIDE DEF OK
<1> QED BY <1>3, <1>4

LEMMA UniqueNamesStep ==
    ASSUME IInv, Next
    PROVE  UniqueNames'
<1> USE DEF IInv, Typed, TablesOK, BucketId
<1>1. CASE nextId \notin DOMAIN buckets'
  BY <1>1, BucketsStep DEF UniqueNames
<1>2. CASE nextId \in DOMAIN buckets'
  <2>1. nextId \notin DOMAIN buckets
    OBVIOUS
  <2>2. ~ \E w \in Workers : DeleteBucketRow(w)
    BY <2>1, <1>2 DEF DeleteBucketRow, Without
  <2>3. PICK w \in Workers : CreateInsert(w) /\ ~UNCHANGED buckets
    BY <2>1, <2>2, <1>2, Writers
    DEF Next, DeleteBucketBlob, PresignUploadResolve, PresignUploadTotal, ConfirmUploadReject,
        ConfirmUploadUpsert, DeleteObjectBlob, DeleteObjectRow, ClientPut, UrlExpires
  <2>4. /\ \A b \in BucketsOf(worker[w].user) : buckets[b].name # worker[w].name
        /\ buckets' = Put(buckets, nextId, [user |-> worker[w].user, name |-> worker[w].name])
    BY <2>3 DEF CreateInsert
  <2>5. buckets'[nextId] = [user |-> worker[w].user, name |-> worker[w].name]
    BY <2>4 DEF Put
  <2>6. \A b \in DOMAIN buckets' : b # nextId => buckets'[b] # buckets'[nextId]
    BY <2>4, <2>5, BucketsStep DEF BucketsOf
  <2> QED BY <2>6, BucketsStep DEF UniqueNames
<1> QED BY <1>1, <1>2

LEMMA RowsLiveStep ==
    ASSUME IInv, Next
    PROVE  RowsLive'
<1> USE DEF IInv, Typed, TablesOK, RowsLive
<1>1. CASE UNCHANGED <<buckets, objects>>
  BY <1>1
<1>2. ASSUME NEW w \in Workers, CreateInsert(w) PROVE RowsLive'
  BY <1>2 DEF CreateInsert, Put
<1>3. ASSUME NEW w \in Workers, DeleteBucketRow(w) PROVE RowsLive'
  <2>1. \A r \in DOMAIN objects' : /\ r \in DOMAIN objects
                                   /\ r \notin {worker[w].bucket} \X Keys
    BY <1>3 DEF DeleteBucketRow, Without
  <2>2. \A r \in DOMAIN objects' : r[1] # worker[w].bucket
    BY <2>1 DEF Row
  <2> QED BY <2>1, <2>2, <1>3 DEF DeleteBucketRow, Without
<1>4. ASSUME NEW w \in Workers, ConfirmUploadUpsert(w) PROVE RowsLive'
  BY <1>4 DEF ConfirmUploadUpsert, Put
<1>5. ASSUME NEW w \in Workers, DeleteObjectRow(w) PROVE RowsLive'
  BY <1>5 DEF DeleteObjectRow, Without
<1> QED
  BY <1>1, <1>2, <1>3, <1>4, <1>5, Writers
  DEF Next, DeleteBucketBlob, PresignUploadResolve, PresignUploadTotal, ConfirmUploadReject,
      DeleteObjectBlob, ClientPut, UrlExpires

LEMMA InitInv == Init => IInv
BY InitTyped DEF Init, IInv, UniqueNames, RowsLive, Owned, Idle, BucketPC, ObjectPC

LEMMA InvStep ==
    ASSUME IInv, [Next]_vars
    PROVE  IInv'
<1>1. CASE Next
  BY <1>1, TypedStep, OwnedStep, UniqueNamesStep, RowsLiveStep DEF IInv
<1>2. CASE UNCHANGED vars
  BY <1>2, TypedStep DEF vars, IInv, UniqueNames, RowsLive, Owned
<1> QED BY <1>1, <1>2

LEMMA Invariance == Spec => []IInv
BY InitInv, InvStep, PTL DEF Spec

\* The tables, the store and the requests always hold what their columns
\* allow, down to the sum of a user's rows that a request has read, whatever
\* the requests, the failures and the number of users.
THEOREM Typing == Spec => []TypeOK
<1>1. IInv => TypeOK
  BY DEF IInv, Typed, RequestsOK, TypeOK
<1> QED BY <1>1, Invariance, PTL

\* No two rows ever share the bytes of one S3 object, in any number of
\* buckets: the UNIQUE and foreign keys are enough for it, although
\* ConfirmUpload works from a bucket name it read several calls earlier.
THEOREM NoSharedBlobHolds == Spec => []NoSharedBlob
<1>1. ASSUME IInv PROVE NoSharedBlob
  <2> SUFFICES ASSUME NEW r1 \in DOMAIN objects, NEW r2 \in DOMAIN objects, BlobOf(r1) = BlobOf(r2)
               PROVE  r1 = r2
    BY <1>1 DEF NoSharedBlob, IInv, RowsLive
  <2>1. r1[1] \in DOMAIN buckets /\ r2[1] \in DOMAIN buckets
    BY <1>1 DEF IInv, RowsLive
  <2>2. buckets[r1[1]] = buckets[r2[1]] /\ r1[2] = r2[2]
    BY <1>1, <2>1 DEF BlobOf, BuildKey, IInv, Typed, TablesOK
  <2>3. r1[1] = r2[1]
    BY <1>1, <2>1, <2>2 DEF IInv, UniqueNames
  <2> QED BY <1>1, <2>2, <2>3 DEF IInv, Typed, TablesOK, Row
<1> QED BY <1>1, Invariance, PTL

-----------------------------------------------------------------------------
(* The bucket quota.  The invariant counts the goroutines that have passed *)
(* the count and not yet inserted.                                         *)

Inserting(u) == {w \in Workers : worker[w].pc = "createInsert" /\ worker[w].user = u}

\* A request counts against its user's limit, or a smaller one.
LimitRead ==
    \A w \in Workers :
        worker[w].pc = "createCount" /\ BucketLimit[worker[w].user] > 0
            => worker[w].limit <= BucketLimit[worker[w].user]

Counted ==
    \A u \in Users : BucketLimit[u] > 0 =>
        CountByUser(u) + Cardinality(Inserting(u)) <= BucketLimit[u] + Cardinality(Workers) - 1

LEMMA FiniteIds ==
    ASSUME NEW n \in Nat, NEW S \in SUBSET (1 .. n - 1)
    PROVE  IsFiniteSet(S) /\ Cardinality(S) \in Nat
<1>1. IsFiniteSet(1 .. n - 1)
  BY FS_Interval
<1> QED BY <1>1, FS_Subset, FS_CardinalityType

LEMMA FiniteInserting ==
    ASSUME NEW S \in SUBSET Workers
    PROVE  IsFiniteSet(S) /\ Cardinality(S) \in Nat /\ Cardinality(S) <= Cardinality(Workers)
           /\ Cardinality(Workers) \in Nat
BY WorldAssumption, FS_Subset, FS_CardinalityType

LEMMA LimitReadStep ==
    ASSUME IInv, LimitRead, Next
    PROVE  LimitRead'
<1> USE DEF IInv, Typed
<1> SUFFICES ASSUME NEW v \in Workers, worker'[v].pc = "createCount",
                    BucketLimit[worker'[v].user] > 0
             PROVE  worker'[v].limit <= BucketLimit[worker'[v].user]
  BY DEF LimitRead
<1>1. CASE worker'[v] = worker[v]
  BY <1>1 DEF LimitRead
<1>2. CASE worker'[v] # worker[v]
  <2>1. PICK w \in Workers : Request(w) \/ Continue(w) \/ Abort(w)
    BY <1>2 DEF Next, ClientPut, UrlExpires
  <2>2. PICK r : /\ worker' = [worker EXCEPT ![w] = r]
                 /\ r.pc \in {"createCount", "createInsert"} => CreateResolve(w) \/ CreateCount(w)
    BY <2>1, Shape
  <2>3. v = w /\ worker'[v] = r
    BY <2>2, <1>2 DEF RequestsOK
  <2>4. ~CreateCount(w)
    BY <2>3 DEF CreateCount, Return, Goto, Idle, RequestsOK, RequestType
  <2>5. CreateResolve(w)
    BY <2>2, <2>3, <2>4
  <2>6. PICK l \in Resolved(BucketLimit[worker[w].user], FallbackBuckets) :
           worker' = [worker EXCEPT ![w].limit = l,
                                    ![w].pc = IF l > 0 THEN "createCount" ELSE "createInsert"]
    BY <2>5 DEF CreateResolve
  <2>7. worker'[v].limit = l /\ worker'[v].user = worker[w].user
    BY <2>6, <2>3 DEF RequestsOK, RequestType
  <2>8. worker[w].user \in Users
    BY <2>5 DEF CreateResolve, Addressed
  <2>9. l <= BucketLimit[worker[w].user]
    BY <2>6, <2>7, <2>8, LimitsAssumption, FallbackAssumption DEF Resolved
  <2> QED BY <2>7, <2>9
<1> QED BY <1>1, <1>2

LEMMA CountedStep ==
    ASSUME IInv, LimitRead, Counted, Next
    PROVE  Counted'
<1> USE DEF IInv, Typed
<1> SUFFICES ASSUME NEW u \in Users, BucketLimit[u] > 0
             PROVE  CountByUser(u)' + Cardinality(Inserting(u)')
                        <= BucketLimit[u] + Cardinality(Workers) - 1
  BY DEF Counted
<1>1. /\ CountByUser(u) + Cardinality(Inserting(u)) <= BucketLimit[u] + Cardinality(Workers) - 1
      /\ BucketLimit[u] \in Nat
  BY LimitsAssumption DEF Counted
<1>2. /\ IsFiniteSet(BucketsOf(u)) /\ CountByUser(u) \in Nat
      /\ IsFiniteSet(BucketsOf(u)') /\ CountByUser(u)' \in Nat
  <2>1. nextId \in Nat /\ BucketsOf(u) \in SUBSET (1 .. nextId - 1)
    BY DEF TablesOK, BucketId, BucketsOf
  <2>2. nextId' \in Nat /\ BucketsOf(u)' \in SUBSET (1 .. nextId' - 1)
    BY TablesStep DEF TablesOK, BucketId, BucketsOf
  <2>3. IsFiniteSet(BucketsOf(u)) /\ Cardinality(BucketsOf(u)) \in Nat
    BY <2>1, FiniteIds
  <2>4. IsFiniteSet(BucketsOf(u)') /\ Cardinality(BucketsOf(u)') \in Nat
    BY <2>2, FiniteIds
  <2> QED BY <2>3, <2>4 DEF CountByUser
<1>3. /\ IsFiniteSet(Inserting(u)) /\ Cardinality(Inserting(u)) \in Nat
      /\ IsFiniteSet(Inserting(u)') /\ Cardinality(Inserting(u)') \in Nat
      /\ Cardinality(Inserting(u)') <= Cardinality(Workers) /\ Cardinality(Workers) \in Nat
  BY FiniteInserting DEF Inserting
<1>4. ASSUME BucketsOf(u)' \subseteq BucketsOf(u), Inserting(u)' \subseteq Inserting(u)
      PROVE  CountByUser(u)' + Cardinality(Inserting(u)') <= BucketLimit[u] + Cardinality(Workers) - 1
  <2>1. CountByUser(u)' <= CountByUser(u)
    BY <1>4, <1>2, FS_Subset DEF CountByUser
  <2>2. Cardinality(Inserting(u)') <= Cardinality(Inserting(u))
    BY <1>4, <1>3, FS_Subset
  <2> QED BY <2>1, <2>2, <1>1, <1>2, <1>3
<1>5. nextId \notin DOMAIN buckets' => BucketsOf(u)' \subseteq BucketsOf(u)
  BY BucketsStep DEF BucketsOf
<1>6. CASE ClientPut \/ UrlExpires
  BY <1>6, <1>4 DEF ClientPut, UrlExpires, BucketsOf, Inserting
<1>7. ASSUME NEW w \in Workers, CreateInsert(w)
      PROVE  CountByUser(u)' + Cardinality(Inserting(u)') <= BucketLimit[u] + Cardinality(Workers) - 1
  <2>1. Inserting(u)' = Inserting(u) \ {w}
    BY <1>7 DEF CreateInsert, Return, Inserting, Idle, RequestsOK
  <2>2. CASE BucketsOf(u)' \subseteq BucketsOf(u)
    BY <2>1, <2>2, <1>4
  <2>3. CASE ~(BucketsOf(u)' \subseteq BucketsOf(u))
    <3>1. nextId \in DOMAIN buckets' /\ buckets'[nextId].user = u
      BY <2>3, BucketsStep DEF BucketsOf
    <3>2. buckets' = Put(buckets, nextId, [user |-> worker[w].user, name |-> worker[w].name])
      BY <1>7, <2>3 DEF CreateInsert, BucketsOf
    <3>3. worker[w].user = u /\ w \in Inserting(u)
      BY <3>1, <3>2, <1>7 DEF Put, Inserting, CreateInsert
    <3>4. BucketsOf(u)' \subseteq BucketsOf(u) \cup {nextId}
      BY <3>2, BucketsStep DEF BucketsOf
    <3>5. IsFiniteSet(BucketsOf(u) \cup {nextId})
          /\ Cardinality(BucketsOf(u) \cup {nextId}) <= CountByUser(u) + 1
          /\ Cardinality(BucketsOf(u) \cup {nextId}) \in Nat
      <4> DEFINE B == BucketsOf(u)
      <4> HIDE DEF B
      <4>1. IsFiniteSet(B) /\ CountByUser(u) = Cardinality(B)
        BY <1>2 DEF B, CountByUser
      <4>2. /\ IsFiniteSet(B \cup {nextId})
            /\ Cardinality(B \cup {nextId}) =
                  IF nextId \in B THEN Cardinality(B) ELSE Cardinality(B) + 1
        BY <4>1, FS_AddElement
      <4>3. Cardinality(B \cup {nextId}) <= CountByUser(u) + 1
            /\ Cardinality(B \cup {nextId}) \in Nat
        BY <4>1, <4>2, <1>2
      <4> QED BY <4>2, <4>3 DEF B
    <3>6. CountByUser(u)' <= CountByUser(u) + 1
      <4>1. CountByUser(u)' <= Cardinality(BucketsOf(u) \cup {nextId})
        BY <3>4, <3>5, FS_Subset DEF CountByUser
      <4> QED BY <4>1, <3>5, <1>2
    <3>7. Cardinality(Inserting(u)') = Cardinality(Inserting(u)) - 1
      BY <2>1, <3>3, <1>3, FS_RemoveElement
    <3> QED BY <3>6, <3>7, <1>1, <1>2, <1>3
  <2> QED BY <2>2, <2>3
<1>8. ASSUME NEW w \in Workers, Request(w) \/ Continue(w) \/ Abort(w), ~CreateInsert(w)
      PROVE  BucketsOf(u)' \subseteq BucketsOf(u)
  <2>1. nextId \notin DOMAIN buckets
    BY DEF TablesOK, BucketId
  <2>2. UNCHANGED buckets \/ DeleteBucketRow(w)
    BY <1>8, Writers
    DEF DeleteBucketBlob, PresignUploadResolve, PresignUploadTotal, ConfirmUploadReject,
        ConfirmUploadUpsert, DeleteObjectBlob, DeleteObjectRow
  <2>3. nextId \notin DOMAIN buckets'
    BY <2>1, <2>2 DEF DeleteBucketRow, Without
  <2> QED BY <2>3, <1>5
<1>9. ASSUME NEW w \in Workers, CreateCount(w)
      PROVE  CountByUser(u)' + Cardinality(Inserting(u)') <= BucketLimit[u] + Cardinality(Workers) - 1
  <2>1. BucketsOf(u)' = BucketsOf(u) /\ CountByUser(u)' = CountByUser(u)
    BY <1>9 DEF CreateCount, BucketsOf, CountByUser
  <2>2. CASE Inserting(u)' \subseteq Inserting(u)
    BY <2>1, <2>2, <1>4
  <2>3. CASE ~(Inserting(u)' \subseteq Inserting(u))
    <3>1. Goto(w, "createInsert") /\ worker[w].user = u
          /\ ~(CountByUser(worker[w].user) >= worker[w].limit)
      BY <2>3, <1>9 DEF CreateCount, Return, Goto, Inserting, Idle, RequestsOK, RequestType
    <3>2. worker[w].limit \in Nat /\ worker[w].limit <= BucketLimit[u]
      BY <3>1, <1>9 DEF LimitRead, CreateCount, RequestsOK, RequestType
    <3>3. CountByUser(u) <= BucketLimit[u] - 1
      BY <3>1, <3>2, <1>1, <1>2
    <3> QED BY <3>3, <2>1, <1>1, <1>2, <1>3
  <2> QED BY <2>2, <2>3
<1>10. ASSUME NEW w \in Workers, CreateResolve(w)
       PROVE  Inserting(u)' \subseteq Inserting(u)
  <2>1. PICK l \in Resolved(BucketLimit[worker[w].user], FallbackBuckets) :
           worker' = [worker EXCEPT ![w].limit = l,
                                    ![w].pc = IF l > 0 THEN "createCount" ELSE "createInsert"]
    BY <1>10 DEF CreateResolve
  <2>2. worker[w].user = u => l > 0
    BY <1>1, <2>1, LimitsAssumption DEF Resolved
  <2>3. /\ \A v \in Workers : v # w => worker'[v] = worker[v]
        /\ worker'[w].user = worker[w].user
        /\ worker[w].user = u => worker'[w].pc = "createCount"
    BY <2>1, <2>2 DEF RequestsOK, RequestType
  <2> QED BY <2>3 DEF Inserting
<1>11. ASSUME NEW w \in Workers, Request(w) \/ Continue(w) \/ Abort(w),
              ~CreateInsert(w), ~CreateCount(w), ~CreateResolve(w)
       PROVE  Inserting(u)' \subseteq Inserting(u)
  <2>1. PICK r : /\ worker' = [worker EXCEPT ![w] = r]
                 /\ r.pc # "createInsert"
    BY <1>11, Shape
  <2> QED BY <2>1 DEF Inserting, RequestsOK
<1> QED
  BY <1>4, <1>6, <1>7, <1>8, <1>9, <1>10, <1>11 DEF Next

\* A user never has more buckets than the plan allows plus one for each other
\* request goroutine, for every number of goroutines, users and limits: the
\* count and the insert of CreateBucket are not one transaction, and this is
\* all they let through.
THEOREM BucketOvershootHolds == Spec => []BucketOvershootBounded
<1> DEFINE QInv == IInv /\ LimitRead /\ Counted
<1>1. Init => QInv
  <2> SUFFICES ASSUME Init PROVE QInv
    OBVIOUS
  <2>1. LimitRead
    BY DEF Init, LimitRead, Idle
  <2>2. ASSUME NEW u \in Users PROVE CountByUser(u) = 0 /\ Cardinality(Inserting(u)) = 0
    <3>1. BucketsOf(u) = {} /\ Inserting(u) = {}
      BY DEF Init, BucketsOf, Inserting, Idle
    <3> QED BY <3>1, FS_EmptySet DEF CountByUser
  <2>3. Cardinality(Workers) \in Nat /\ Cardinality(Workers) # 0
    BY WorldAssumption, FS_CardinalityType, FS_EmptySet
  <2>4. Counted
    BY <2>2, <2>3, LimitsAssumption DEF Counted
  <2> QED BY <2>1, <2>4, InitInv
<1>2. QInv /\ [Next]_vars => QInv'
  <2>1. ASSUME QInv, Next PROVE QInv'
    BY <2>1, InvStep, LimitReadStep, CountedStep
  <2>2. ASSUME QInv, UNCHANGED vars PROVE QInv'
    BY <2>2, InvStep DEF vars, LimitRead, Counted, CountByUser, BucketsOf, Inserting
  <2> QED BY <2>1, <2>2
<1>3. QInv => BucketOvershootBounded
  <2> SUFFICES ASSUME QInv, NEW u \in Users, BucketLimit[u] > 0
               PROVE  CountByUser(u) <= BucketLimit[u] + Cardinality(Workers) - 1
    BY DEF BucketOvershootBounded
  <2>1. CountByUser(u) \in Nat
    <3>1. nextId \in Nat /\ BucketsOf(u) \in SUBSET (1 .. nextId - 1)
      BY DEF IInv, Typed, TablesOK, BucketId, BucketsOf
    <3> QED BY <3>1, FiniteIds DEF CountByUser
  <2>2. Cardinality(Inserting(u)) \in Nat /\ Cardinality(Workers) \in Nat
    BY FiniteInserting DEF Inserting
  <2> QED BY <2>1, <2>2, LimitsAssumption DEF Counted
<1> QED BY <1>1, <1>2, <1>3, PTL DEF Spec

-----------------------------------------------------------------------------
(* Tenant isolation.                                                       *)

\* What must stay for the data of a user to stay.
LEMMA DataKept ==
    ASSUME NEW u, BucketsOf(u)' = BucketsOf(u),
           \A b \in BucketsOf(u) : buckets'[b] = buckets[b],
           \A r : r[1] \in BucketsOf(u) =>
                    /\ r \in DOMAIN objects' <=> r \in DOMAIN objects
                    /\ r \in DOMAIN objects => objects'[r] = objects[r],
           \A k : k[1] = u => /\ k \in DOMAIN blobs' <=> k \in DOMAIN blobs
                              /\ k \in DOMAIN blobs => blobs'[k] = blobs[k]
    PROVE  DataOf(u)' = DataOf(u)
<1>1. RowsOf(u)' = RowsOf(u) /\ \A r \in RowsOf(u) : objects'[r] = objects[r]
  BY DEF RowsOf
<1> DEFINE K == {k \in DOMAIN blobs : k[1] = u}
<1>2. K' = K /\ \A k \in K : blobs'[k] = blobs[k]
  OBVIOUS
<1>3. Restrict(buckets, BucketsOf(u))' = Restrict(buckets, BucketsOf(u))
  BY DEF Restrict
<1>4. Restrict(objects, RowsOf(u))' = Restrict(objects, RowsOf(u))
  BY <1>1 DEF Restrict
<1>5. Restrict(blobs, K)' = Restrict(blobs, K)
  BY <1>2 DEF Restrict
<1> QED BY <1>3, <1>4, <1>5 DEF DataOf

\* A step of a request leaves the data of every other user as it is.
LEMMA OthersKept ==
    ASSUME IInv, NEW w \in Workers, Request(w) \/ Continue(w) \/ Abort(w),
           NEW u \in Users, worker[w].user # u
    PROVE  DataOf(u)' = DataOf(u)
<1> USE DEF IInv, Typed, TablesOK, BucketId
<1>1. CASE UNCHANGED <<buckets, objects, blobs>>
  BY <1>1 DEF DataOf, BucketsOf, RowsOf
<1>2. CASE CreateInsert(w) /\ ~UNCHANGED buckets
  <2>1. /\ buckets' = Put(buckets, nextId, [user |-> worker[w].user, name |-> worker[w].name])
        /\ UNCHANGED <<objects, blobs>>
    BY <1>2 DEF CreateInsert
  <2>2. nextId \notin DOMAIN buckets
    OBVIOUS
  <2>3. /\ BucketsOf(u)' = BucketsOf(u)
        /\ \A b \in BucketsOf(u) : buckets'[b] = buckets[b]
    BY <2>1, <2>2 DEF BucketsOf, Put
  <2> QED BY <2>1, <2>3, DataKept
<1>3. ASSUME NEW S, \A k \in S : k[1] = worker[w].user,
             blobs' = Without(blobs, S), UNCHANGED <<buckets, objects>>
      PROVE  DataOf(u)' = DataOf(u)
  <2>1. BucketsOf(u)' = BucketsOf(u)
    BY <1>3 DEF BucketsOf
  <2>2. \A k : k[1] = u => /\ k \in DOMAIN blobs' <=> k \in DOMAIN blobs
                           /\ k \in DOMAIN blobs => blobs'[k] = blobs[k]
    BY <1>3 DEF Without
  <2> QED BY <2>1, <2>2, <1>3, DataKept
<1>4. worker[w].pc \in BucketPC => worker[w].bucket \notin BucketsOf(u)
  <2> SUFFICES ASSUME worker[w].pc \in BucketPC, worker[w].bucket \in BucketsOf(u)
               PROVE  FALSE
    OBVIOUS
  <2>1. worker[w].bucket \in DOMAIN buckets /\ buckets[worker[w].bucket].user = u
    BY DEF BucketsOf
  <2>2. buckets[worker[w].bucket] = [user |-> worker[w].user, name |-> worker[w].name]
    BY <2>1 DEF Owned
  <2> QED BY <2>1, <2>2
<1>5. CASE DeleteBucketBlob(w)
  <2>1. PICK k \in worker[w].todo : blobs' = Without(blobs, {k}) \/ UNCHANGED blobs
    BY <1>5 DEF DeleteBucketBlob
  <2>2. k[1] = worker[w].user
    BY <2>1 DEF Owned, UnderPrefix
  <2> QED BY <2>1, <2>2, <1>1, <1>3, <1>5 DEF DeleteBucketBlob
<1>6. CASE DeleteBucketRow(w)
  <2>1. worker[w].bucket \notin BucketsOf(u)
    BY <1>4, <1>6 DEF DeleteBucketRow, BucketPC
  <2>2. /\ BucketsOf(u)' = BucketsOf(u)
        /\ \A b \in BucketsOf(u) : buckets'[b] = buckets[b]
    BY <2>1, <1>6 DEF DeleteBucketRow, Without, BucketsOf
  <2>3. \A r : r[1] \in BucketsOf(u) =>
                 /\ r \in DOMAIN objects' <=> r \in DOMAIN objects
                 /\ r \in DOMAIN objects => objects'[r] = objects[r]
    BY <2>1, <1>6 DEF DeleteBucketRow, Without
  <2> QED BY <2>2, <2>3, <1>6, DataKept DEF DeleteBucketRow
<1>7. CASE ConfirmUploadReject(w) \/ DeleteObjectBlob(w)
  <2>1. \A k \in {Target(w)} : k[1] = worker[w].user
    BY <1>7, TargetKey DEF ConfirmUploadReject, DeleteObjectBlob, ObjectPC
  <2>2. blobs' = Without(blobs, {Target(w)}) \/ UNCHANGED blobs
    BY <1>7 DEF ConfirmUploadReject, DeleteObjectBlob
  <2> QED BY <2>1, <2>2, <1>1, <1>3, <1>7 DEF ConfirmUploadReject, DeleteObjectBlob
<1>8. CASE ConfirmUploadUpsert(w) \/ DeleteObjectRow(w)
  <2> DEFINE x == <<worker[w].bucket, worker[w].key>>
  <2>1. x[1] \notin BucketsOf(u)
    BY <1>4, <1>8 DEF ConfirmUploadUpsert, DeleteObjectRow, BucketPC, ObjectPC
  <2>2. \/ objects' = Put(objects, x, worker[w].size)
        \/ objects' = Without(objects, {x})
        \/ UNCHANGED objects
    BY <1>8 DEF ConfirmUploadUpsert, DeleteObjectRow
  <2> HIDE DEF x
  <2>3. \A r : r[1] \in BucketsOf(u) =>
                 /\ r \in DOMAIN objects' <=> r \in DOMAIN objects
                 /\ r \in DOMAIN objects => objects'[r] = objects[r]
    BY <2>1, <2>2 DEF Put, Without
  <2>4. BucketsOf(u)' = BucketsOf(u) /\ UNCHANGED <<buckets, blobs>>
    BY <1>8 DEF ConfirmUploadUpsert, DeleteObjectRow, BucketsOf
  <2> QED BY <2>3, <2>4, DataKept
<1>9. CASE CreateInsert(w)
  BY <1>1, <1>2, <1>9 DEF CreateInsert
<1>10. CASE PresignUploadResolve(w) \/ PresignUploadTotal(w)
  BY <1>1, <1>10 DEF PresignUploadResolve, PresignUploadTotal
<1> QED
  BY <1>1, <1>5, <1>6, <1>7, <1>8, <1>9, <1>10, Writers

\* A step that writes to a store is a step of its request's record.
LEMMA WriterMoves ==
    ASSUME IInv, NEW w \in Workers, Request(w) \/ Continue(w) \/ Abort(w),
           ~UNCHANGED <<buckets, objects, blobs>>
    PROVE  worker'[w] # worker[w]
<1> USE DEF IInv, Typed, RequestsOK, RequestType
<1>1. CASE DeleteBucketBlob(w)
  <2>1. PICK k \in worker[w].todo : worker' = [worker EXCEPT ![w].todo = @ \ {k}]
    BY <1>1 DEF DeleteBucketBlob
  <2>2. worker'[w].todo = worker[w].todo \ {k}
    BY <2>1
  <2> QED BY <2>1, <2>2
<1>2. CASE DeleteObjectBlob(w)
  <2>1. worker'[w].pc = "objectRow" /\ worker[w].pc = "objectBlob"
    BY <1>2 DEF DeleteObjectBlob, Goto
  <2> QED BY <2>1
<1>3. CASE Return(w) /\ worker[w].pc # "idle"
  <2>1. worker'[w].pc = "idle"
    BY <1>3 DEF Return, Idle
  <2> QED BY <2>1, <1>3
<1> QED
  BY <1>1, <1>2, <1>3, Writers
  DEF CreateInsert, DeleteBucketRow, PresignUploadResolve, PresignUploadTotal,
      ConfirmUploadReject, ConfirmUploadUpsert, DeleteObjectRow

\* The buckets, rows and bytes of a user change only by that user's requests
\* and URLs, however many users share the tables and the S3 bucket.
THEOREM TenantIsolationHolds == Spec => TenantIsolation
<1> DEFINE A == \A u \in Users :
                  /\ ~\E w \in Workers : worker[w].user = u /\ worker'[w] # worker[w]
                  /\ DataOf(u)' # DataOf(u)
                  => \E k \in urls, s \in Sizes : /\ k[1] = u
                                                 /\ blobs' = Put(blobs, k, s)
                                                 /\ UNCHANGED <<buckets, objects>>
<1>1. ASSUME IInv, [Next]_vars PROVE [A]_vars
  <2> SUFFICES ASSUME NEW u \in Users, DataOf(u)' # DataOf(u)
               PROVE  \/ \E w \in Workers : worker[w].user = u /\ worker'[w] # worker[w]
                      \/ \E k \in urls, s \in Sizes : /\ k[1] = u
                                                      /\ blobs' = Put(blobs, k, s)
                                                      /\ UNCHANGED <<buckets, objects>>
    OBVIOUS
  <2>1. ~UNCHANGED <<buckets, objects, blobs>>
    BY DEF DataOf, BucketsOf, RowsOf
  <2>2. ASSUME NEW w \in Workers, Request(w) \/ Continue(w) \/ Abort(w)
        PROVE  worker[w].user = u /\ worker'[w] # worker[w]
    BY <1>1, <2>1, <2>2, OthersKept, WriterMoves
  <2>3. CASE ClientPut
    <3>1. PICK k \in urls, s \in Sizes : blobs' = Put(blobs, k, s) /\ UNCHANGED <<buckets, objects>>
      BY <2>3 DEF ClientPut
    <3>2. CASE k[1] # u
      <4>1. BucketsOf(u)' = BucketsOf(u)
        BY <3>1 DEF BucketsOf
      <4>2. \A q : q[1] = u => /\ q \in DOMAIN blobs' <=> q \in DOMAIN blobs
                               /\ q \in DOMAIN blobs => blobs'[q] = blobs[q]
        BY <3>1, <3>2 DEF Put
      <4> QED BY <3>1, <4>1, <4>2, DataKept
    <3> QED BY <3>1, <3>2
  <2> QED BY <1>1, <2>1, <2>2, <2>3 DEF Next, UrlExpires, vars
<1> QED BY <1>1, Invariance, PTL DEF Spec, TenantIsolation

-----------------------------------------------------------------------------
(* Who takes the bytes of a recorded object.                               *)

\* The S3 keys a request deletes are those of its own user and bucket name.
LEMMA LostBlob ==
    ASSUME IInv, [Next]_vars, NEW k \in DOMAIN blobs, k \notin DOMAIN blobs'
    PROVE  \E w \in Workers : /\ worker[w].pc \in BucketPC
                              /\ worker[w].user = k[1] /\ worker[w].name = k[2]
                              /\ worker[w].key \in {k[3], None}
<1> USE DEF IInv, Typed
<1>1. ~UNCHANGED blobs
  OBVIOUS
<1>2. ~ClientPut
  BY DEF ClientPut, Put
<1>3. PICK w \in Workers : Request(w) \/ Continue(w) \/ Abort(w)
  BY <1>1, <1>2 DEF Next, UrlExpires, vars
<1>4. DeleteBucketBlob(w) \/ ConfirmUploadReject(w) \/ DeleteObjectBlob(w)
  BY <1>1, <1>3, Writers
  DEF CreateInsert, DeleteBucketRow, PresignUploadResolve, PresignUploadTotal,
      ConfirmUploadUpsert, DeleteObjectRow
<1>5. CASE DeleteBucketBlob(w)
  <2>1. PICK item \in worker[w].todo : blobs' = Without(blobs, {item})
    BY <1>1, <1>5 DEF DeleteBucketBlob
  <2>2. k = item
    BY <2>1 DEF Without
  <2>3. k[1] = worker[w].user /\ k[2] = worker[w].name
    BY <2>2 DEF Owned, UnderPrefix
  <2>4. worker[w].pc \in BucketPC \ ObjectPC
    BY <1>5 DEF DeleteBucketBlob, BucketPC, ObjectPC
  <2>5. worker[w].key = None
    BY <2>4 DEF Owned
  <2> QED BY <2>3, <2>4, <2>5
<1>6. CASE ConfirmUploadReject(w) \/ DeleteObjectBlob(w)
  <2>1. k = Target(w)
    BY <1>1, <1>6 DEF ConfirmUploadReject, DeleteObjectBlob, Without
  <2>2. worker[w].pc \in BucketPC
    BY <1>6 DEF ConfirmUploadReject, DeleteObjectBlob, BucketPC, ObjectPC
  <2>3. worker[w].user = k[1] /\ worker[w].name = k[2] /\ worker[w].key = k[3]
    BY <2>1 DEF Target, BuildKey
  <2> QED BY <2>2, <2>3
<1> QED BY <1>4, <1>5, <1>6

\* However many requests run at once, a recorded object loses its bytes only to
\* a request of its own user, about a bucket of the same name and about that
\* key or the whole bucket.  The bucket need not be the same one: a request may
\* outlive its bucket and find another of its name.
THEOREM BytesLostToNamesake ==
    Spec => [][\A r \in DOMAIN objects :
                  BlobOf(r) \in DOMAIN blobs \ DOMAIN blobs' =>
                      \E w \in Workers : /\ worker[w].user = buckets[r[1]].user
                                         /\ worker[w].name = buckets[r[1]].name
                                         /\ worker[w].key \in {r[2], None}]_vars
<1> DEFINE A == \A r \in DOMAIN objects :
                  BlobOf(r) \in DOMAIN blobs \ DOMAIN blobs' =>
                      \E w \in Workers : /\ worker[w].user = buckets[r[1]].user
                                         /\ worker[w].name = buckets[r[1]].name
                                         /\ worker[w].key \in {r[2], None}
<1>1. ASSUME IInv, [Next]_vars PROVE [A]_vars
  <2> SUFFICES ASSUME NEW r \in DOMAIN objects, BlobOf(r) \in DOMAIN blobs \ DOMAIN blobs'
               PROVE  \E w \in Workers : /\ worker[w].user = buckets[r[1]].user
                                         /\ worker[w].name = buckets[r[1]].name
                                         /\ worker[w].key \in {r[2], None}
    OBVIOUS
  <2>1. \E w \in Workers : /\ worker[w].user = BlobOf(r)[1] /\ worker[w].name = BlobOf(r)[2]
                           /\ worker[w].key \in {BlobOf(r)[3], None}
    BY <1>1, LostBlob
  <2>2. /\ BlobOf(r)[1] = buckets[r[1]].user /\ BlobOf(r)[2] = buckets[r[1]].name
        /\ BlobOf(r)[3] = r[2]
    BY DEF BlobOf, BuildKey
  <2> QED BY <2>1, <2>2
<1> QED BY <1>1, Invariance, PTL DEF Spec

-----------------------------------------------------------------------------
(* One goroutine: a request's bucket lives as long as the request.         *)

\* The bucket of a request in progress is in the table.
BucketsLive == \A w \in Workers : worker[w].pc \in BucketPC => worker[w].bucket \in DOMAIN buckets

\* Requests that run one at a time take no bucket from under each other.
LEMMA BucketsLiveStep ==
    ASSUME Cardinality(Workers) = 1, IInv, BucketsLive, Next
    PROVE  BucketsLive'
<1> USE DEF IInv, Typed, RequestsOK
<1>1. PICK x : Workers = {x}
  BY WorldAssumption, FS_Singleton
<1>2. CASE \E w \in Workers : DeleteBucketRow(w)
  <2>1. worker'[x].pc = "idle"
    BY <1>1, <1>2 DEF DeleteBucketRow, Return, Idle
  <2> QED BY <1>1, <2>1 DEF BucketsLive, BucketPC, ObjectPC
<1>3. CASE \A w \in Workers : ~DeleteBucketRow(w)
  <2>1. DOMAIN buckets \subseteq DOMAIN buckets'
    BY <1>3, Writers
    DEF Next, CreateInsert, Put, DeleteBucketBlob, PresignUploadResolve, PresignUploadTotal,
        ConfirmUploadReject, ConfirmUploadUpsert, DeleteObjectBlob, DeleteObjectRow,
        ClientPut, UrlExpires
  <2>2. CASE worker'[x] = worker[x]
    BY <1>1, <2>1, <2>2 DEF BucketsLive
  <2>3. CASE worker'[x] # worker[x]
    <3>1. Request(x) \/ Continue(x) \/ Abort(x)
      BY <1>1, <2>3 DEF Next, ClientPut, UrlExpires
    <3>2. PICK r : /\ worker' = [worker EXCEPT ![x] = r]
                   /\ r = Idle \/ Starts(r) \/ GoesOn(x, r)
      BY <1>1, <3>1, Shape
    <3>3. worker'[x] = r
      BY <1>1, <3>2
    <3>4. r.pc \in BucketPC => r.bucket \in DOMAIN buckets
      BY <1>1, <3>2 DEF Starts, GoesOn, Owns, BucketsLive, Idle, BucketPC, ObjectPC
    <3> QED BY <1>1, <2>1, <3>3, <3>4 DEF BucketsLive
  <2> QED BY <2>2, <2>3
<1> QED BY <1>2, <1>3

\* Where requests run one at a time, a recorded object loses its bytes only to
\* a request on that object or on its bucket, whatever fails on the way: the
\* name a request holds is that of its own bucket.
THEOREM BytesLostToOwnRequestHolds ==
    ASSUME Cardinality(Workers) = 1
    PROVE  Spec => BytesLostToOwnRequest
<1> DEFINE A == \A r \in DOMAIN objects :
                  BlobOf(r) \in DOMAIN blobs \ DOMAIN blobs' =>
                      \E w \in Workers : /\ worker[w].bucket = r[1]
                                         /\ worker[w].key \in {r[2], None}
<1>1. Init => IInv /\ BucketsLive
  BY InitInv DEF Init, BucketsLive, Idle, BucketPC, ObjectPC
<1>2. IInv /\ BucketsLive /\ [Next]_vars => (IInv /\ BucketsLive)'
  <2>1. ASSUME IInv, BucketsLive, Next PROVE BucketsLive'
    BY <2>1, BucketsLiveStep
  <2>2. ASSUME IInv, BucketsLive, UNCHANGED vars PROVE BucketsLive'
    BY <2>2 DEF vars, BucketsLive
  <2> QED BY <2>1, <2>2, InvStep
<1>3. ASSUME IInv, BucketsLive, [Next]_vars PROVE [A]_vars
  <2> SUFFICES ASSUME NEW r \in DOMAIN objects, BlobOf(r) \in DOMAIN blobs \ DOMAIN blobs'
               PROVE  \E w \in Workers : /\ worker[w].bucket = r[1]
                                         /\ worker[w].key \in {r[2], None}
    OBVIOUS
  <2>1. PICK w \in Workers : /\ worker[w].pc \in BucketPC
                             /\ worker[w].user = BlobOf(r)[1] /\ worker[w].name = BlobOf(r)[2]
                             /\ worker[w].key \in {BlobOf(r)[3], None}
    BY <1>3, LostBlob
  <2>2. worker[w].bucket \in DOMAIN buckets /\ r[1] \in DOMAIN buckets
    BY <1>3, <2>1 DEF BucketsLive, IInv, RowsLive
  <2>3. buckets[worker[w].bucket] = [user |-> worker[w].user, name |-> worker[w].name]
    BY <1>3, <2>1, <2>2 DEF IInv, Owned
  <2>4. buckets[r[1]] = [user |-> BlobOf(r)[1], name |-> BlobOf(r)[2]] /\ BlobOf(r)[3] = r[2]
    BY <1>3, <2>2 DEF IInv, Typed, TablesOK, BlobOf, BuildKey
  <2>5. worker[w].bucket = r[1]
    BY <1>3, <2>1, <2>2, <2>3, <2>4 DEF IInv, UniqueNames
  <2> QED BY <2>1, <2>4, <2>5
<1> QED BY <1>1, <1>2, <1>3, PTL DEF Spec, BytesLostToOwnRequest
=============================================================================
