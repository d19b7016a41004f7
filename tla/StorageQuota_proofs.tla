------------------------- MODULE StorageQuota_proofs -------------------------
(* The storage quota of ObjectStorage: what concurrent uploads can exceed  *)
(* it by, for every number of goroutines, users, sizes and limits.         *)
(*                                                                         *)
(* A ConfirmUpload sums the user's rows, then reads the row it replaces    *)
(* and decides, then upserts.  Uploads that are past the sum (Summed) or   *)
(* past the decision (Accepted) rely on rows that others may change.  The  *)
(* inductive invariant looks at any choice of them: W of the first kind, Q *)
(* of the second, on different rows.  With the rows of Q as Q will write   *)
(* them, the user holds at most                                            *)
(*   the limit and one largest upload for each goroutine not in W but one, *)
(* or, for some w in W,                                                    *)
(*   the sum w read and one largest upload for each goroutine not in W.    *)
(* An upload that joins W is covered by its own sum; one that moves from W *)
(* to Q has compared that sum with the limit; one in Q upserts what was    *)
(* counted already.                                                        *)
EXTENDS ObjectStorage_proofs

-----------------------------------------------------------------------------
(* The invariant.                                                          *)

RowOf(w) == <<worker[w].bucket, worker[w].key>>
RowsOfUploads(Q) == {RowOf(w) : w \in Q}

Summed(u)   == {w \in Workers : worker[w].pc = "confirmOld" /\ worker[w].user = u}
Accepted(u) == {w \in Workers : worker[w].pc = "confirmUpsert" /\ worker[w].user = u}

\* Uploads that will write different rows.
Apart(Q) == \A v, w \in Q : RowOf(v) = RowOf(w) => v = w

SizesRead == [w \in Workers |-> worker[w].size]

\* The bytes recorded for a user once the uploads of Q have written their rows.
Pledged(u, Q) == SumFunctionOnSet(objects, RowsOf(u) \ RowsOfUploads(Q))
                 + SumFunctionOnSet(SizesRead, Q)

\* One largest upload for each goroutine but k of them.
Room(k) == (Cardinality(Workers) - k) * Max(Sizes)

Covered(u, W, x) ==
    \/ x <= StorageLimit[u] + Room(Cardinality(W) + 1)
    \/ \E w \in W : x <= worker[w].total + Room(Cardinality(W))

Bounded(u) ==
    \A W \in SUBSET Summed(u), Q \in SUBSET Accepted(u) :
        Apart(Q) => Covered(u, W, Pledged(u, Q))

\* The requests whose size is the one S3 reported.
Sized == {"confirmResolve", "confirmTotal", "confirmOld", "confirmReject", "confirmUpsert"}

\* An upload has the size of an object, and compares with the user's limit or
\* a smaller one.
UploadsRead ==
    \A w \in Workers :
        /\ worker[w].pc \in Sized => worker[w].size \in Sizes
        /\ worker[w].pc \in {"confirmTotal", "confirmOld"} /\ StorageLimit[worker[w].user] > 0
              => worker[w].limit <= StorageLimit[worker[w].user]

QuotaInv == IInv /\ UploadsRead /\ \A u \in Users : StorageLimit[u] > 0 => Bounded(u)

-----------------------------------------------------------------------------
(* Arithmetic.                                                             *)

\* The largest upload is a number no upload exceeds, and the goroutines are
\* finitely many.
LEMMA Bounds ==
    /\ Max(Sizes) \in Nat /\ \A s \in Sizes : s \in Nat /\ s <= Max(Sizes)
    /\ IsFiniteSet(Workers) /\ Cardinality(Workers) \in Nat /\ Cardinality(Workers) >= 1
<1>1. Max(Sizes) \in Sizes /\ \A s \in Sizes : s <= Max(Sizes)
  BY WorldAssumption, MaxIsLargest
<1>2. Cardinality(Workers) \in Nat /\ Cardinality(Workers) # 0
  BY WorldAssumption, FS_CardinalityType, FS_EmptySet
<1>3. Sizes \subseteq Nat /\ IsFiniteSet(Workers)
  BY WorldAssumption
<1>4. Max(Sizes) \in Nat /\ \A s \in Sizes : s \in Nat /\ s <= Max(Sizes)
  BY <1>1, <1>3
<1>5. Cardinality(Workers) \in Nat /\ Cardinality(Workers) >= 1
  BY <1>2
<1> QED BY <1>3, <1>4, <1>5

\* Room for one goroutine more is room for one largest upload less.
LEMMA RoomNext ==
    ASSUME NEW k \in Int
    PROVE  Room(k) \in Int /\ Room(k) = Room(k + 1) + Max(Sizes)
<1>1. \A n, m \in Int : (n - k) * m \in Int /\ (n - k) * m = (n - (k + 1)) * m + m
  OBVIOUS
<1> QED BY <1>1, Bounds DEF Room

\* The uploads of the goroutines outside of W have room.
LEMMA RoomEnough ==
    ASSUME NEW W \in SUBSET Workers, NEW Q \in SUBSET Workers, W \cap Q = {}
    PROVE  Cardinality(Q) * Max(Sizes) <= Room(Cardinality(W))
<1>1. IsFiniteSet(W) /\ IsFiniteSet(Q) /\ Cardinality(W) \in Nat /\ Cardinality(Q) \in Nat
  BY Bounds, FS_Subset, FS_CardinalityType
<1>2. Cardinality(W \cup Q) = Cardinality(W) + Cardinality(Q)
  BY <1>1, DisjointCardinality
<1>3. Cardinality(W \cup Q) <= Cardinality(Workers)
  BY Bounds, FS_Subset
<1>4. \A n, m, w, q \in Nat : w + q <= n => q * m <= (n - w) * m
  <2> TAKE n, m, w, q \in Nat
  <2> HAVE w + q <= n
  <2> DEFINE d == n - w - q
  <2>1. d \in Nat /\ n - w = q + d
    OBVIOUS
  <2>2. (q + d) * m = q * m + d * m /\ d * m \in Nat
    BY <2>1
  <2> HIDE DEF d
  <2> QED BY <2>1, <2>2
<1> QED BY <1>1, <1>2, <1>3, <1>4, Bounds DEF Room

\* What covers a number covers a smaller one.
LEMMA CoveredLess ==
    ASSUME IInv, NEW u \in Users, NEW W \in SUBSET Workers, NEW x \in Int, NEW y \in Int,
           y <= x, Covered(u, W, x)
    PROVE  Covered(u, W, y)
<1>1. Cardinality(W) \in Nat
  BY Bounds, FS_Subset, FS_CardinalityType
<1>2. Room(Cardinality(W)) \in Int /\ Room(Cardinality(W) + 1) \in Int /\ StorageLimit[u] \in Nat
  BY <1>1, RoomNext, LimitsAssumption
<1>3. \A w \in W : worker[w].total \in Nat
  BY DEF IInv, Typed, RequestsOK, RequestType
<1> QED BY <1>2, <1>3 DEF Covered

\* A goroutine v leaves W and lets a number grow by one upload at most: covered
\* by what is left, if it is where the sum v read was what covered it.
LEMMA CoveredLeave ==
    ASSUME IInv, NEW u \in Users, NEW W \in SUBSET Workers, NEW v \in Workers, v \notin W,
           NEW x \in Int, NEW y \in Int, Covered(u, W \cup {v}, x),
           y <= x + Max(Sizes),
           x <= worker[v].total + Room(Cardinality(W) + 1)
              => y <= StorageLimit[u] + Room(Cardinality(W) + 1)
    PROVE  Covered(u, W, y)
<1> DEFINE k == Cardinality(W)
<1>1. k \in Nat /\ Cardinality(W \cup {v}) = k + 1
  BY Bounds, FS_Subset, FS_CardinalityType, FS_AddElement
<1>2. /\ Room(k) \in Int /\ Room(k) = Room(k + 1) + Max(Sizes)
      /\ Room(k + 1) \in Int /\ Room(k + 1) = Room((k + 1) + 1) + Max(Sizes)
      /\ Room((k + 1) + 1) \in Int
  <2>1. k \in Int /\ k + 1 \in Int /\ (k + 1) + 1 \in Int
    BY <1>1
  <2> HIDE DEF k
  <2> QED BY <2>1, RoomNext
<1>3. \A w \in W : worker[w].total \in Nat
  BY DEF IInv, Typed, RequestsOK, RequestType
<1>4. StorageLimit[u] \in Nat /\ Max(Sizes) \in Nat
  BY LimitsAssumption, Bounds
<1>5. CASE x <= StorageLimit[u] + Room((k + 1) + 1)
  BY <1>2, <1>4, <1>5 DEF Covered
<1>6. CASE \E w \in W : x <= worker[w].total + Room(k + 1)
  BY <1>2, <1>3, <1>4, <1>6 DEF Covered
<1>7. CASE x <= worker[v].total + Room(k + 1)
  BY <1>7 DEF Covered
<1> QED BY <1>1, <1>5, <1>6, <1>7 DEF Covered

-----------------------------------------------------------------------------
(* The pledged bytes.                                                      *)

\* What a request holds is typed, and a user's rows are finitely many numbers,
\* with or without those the uploads will write.
LEMMA PledgedType ==
    ASSUME IInv, NEW u, NEW Q \in SUBSET Workers
    PROVE  /\ IsFiniteSet(Q) /\ \A w \in Q : SizesRead[w] \in Nat
           /\ IsFiniteSet(RowsOf(u)) /\ \A r \in RowsOf(u) : objects[r] \in Nat
           /\ IsFiniteSet(RowsOf(u) \ RowsOfUploads(Q))
           /\ SumFunctionOnSet(objects, RowsOf(u) \ RowsOfUploads(Q)) \in Nat
           /\ SumFunctionOnSet(SizesRead, Q) \in Nat
           /\ Pledged(u, Q) \in Nat
<1>1. IsFiniteSet(RowsOf(u)) /\ \A r \in RowsOf(u) : objects[r] \in Nat
  BY TotalType DEF IInv
<1>2. IsFiniteSet(RowsOf(u) \ RowsOfUploads(Q))
  BY <1>1, FS_Subset
<1>3. SumFunctionOnSet(objects, RowsOf(u) \ RowsOfUploads(Q)) \in Nat
  BY <1>1, <1>2, SumType
<1>4. IsFiniteSet(Q) /\ \A w \in Q : SizesRead[w] \in Nat
  BY Bounds, FS_Subset DEF IInv, Typed, RequestsOK, RequestType, SizesRead
<1>5. SumFunctionOnSet(SizesRead, Q) \in Nat
  BY <1>4, SumType
<1> QED BY <1>1, <1>2, <1>3, <1>4, <1>5 DEF Pledged

\* One more upload: its size comes in, and the row it replaces goes.
LEMMA PledgedOne ==
    ASSUME IInv, NEW u, NEW Q \in SUBSET Workers, NEW v \in Workers,
           RowOf(v) \notin RowsOfUploads(Q)
    PROVE  Pledged(u, Q \cup {v}) =
              Pledged(u, Q) + worker[v].size
              - (IF RowOf(v) \in RowsOf(u) THEN objects[RowOf(v)] ELSE 0)
<1> DEFINE R == RowsOf(u) \ RowsOfUploads(Q)
           P == Q \cup {v}
<1>1. RowsOf(u) \ RowsOfUploads(P) = R \ {RowOf(v)}
  BY DEF RowsOfUploads
<1>2. v \notin Q
  BY DEF RowsOfUploads
<1>3. /\ IsFiniteSet(R) /\ \A r \in R : objects[r] \in Nat
      /\ SumFunctionOnSet(objects, R) \in Nat
      /\ SumFunctionOnSet(objects, R \ {RowOf(v)}) \in Nat
  BY <1>1, PledgedType
<1>4. /\ IsFiniteSet(P) /\ \A w \in P : SizesRead[w] \in Nat
      /\ SumFunctionOnSet(SizesRead, P) \in Nat /\ SumFunctionOnSet(SizesRead, Q) \in Nat
  BY PledgedType
<1>5. SumFunctionOnSet(SizesRead, P) = worker[v].size + SumFunctionOnSet(SizesRead, Q)
  <2>1. SumFunctionOnSet(SizesRead, P) = SizesRead[v] + SumFunctionOnSet(SizesRead, P \ {v})
    BY <1>4, SumRemove
  <2>2. P \ {v} = Q /\ SizesRead[v] = worker[v].size
    BY <1>2 DEF SizesRead
  <2> QED BY <2>1, <2>2
<1>6. worker[v].size \in Nat
  BY DEF IInv, Typed, RequestsOK, RequestType
<1>7. Pledged(u, P) = SumFunctionOnSet(objects, R \ {RowOf(v)}) + SumFunctionOnSet(SizesRead, P)
  BY <1>1 DEF Pledged
<1>8. Pledged(u, Q) = SumFunctionOnSet(objects, R) + SumFunctionOnSet(SizesRead, Q)
  BY DEF Pledged
<1>9. RowOf(v) \in R <=> RowOf(v) \in RowsOf(u)
  OBVIOUS
<1>10. CASE RowOf(v) \in R
  <2>1. objects[RowOf(v)] \in Nat
    BY <1>3, <1>10
  <2>2. SumFunctionOnSet(objects, R)
           = objects[RowOf(v)] + SumFunctionOnSet(objects, R \ {RowOf(v)})
    BY <1>3, <1>10, SumRemove
  <2>3. Pledged(u, P) = Pledged(u, Q) + worker[v].size - objects[RowOf(v)]
    BY <1>3, <1>4, <1>5, <1>6, <1>7, <1>8, <2>1, <2>2
  <2> QED BY <1>9, <1>10, <2>3
<1>11. CASE RowOf(v) \notin R
  <2>1. R \ {RowOf(v)} = R
    BY <1>11
  <2>2. SumFunctionOnSet(objects, R \ {RowOf(v)}) = SumFunctionOnSet(objects, R)
    BY <2>1
  <2>3. Pledged(u, P) = Pledged(u, Q) + worker[v].size - 0
    BY <1>3, <1>4, <1>5, <1>6, <1>7, <1>8, <2>2
  <2> QED BY <1>9, <1>11, <2>3
<1> QED BY <1>10, <1>11

\* Without any upload, what is pledged is what is recorded.
LEMMA PledgedNone ==
    ASSUME NEW u
    PROVE  Pledged(u, {}) = SumFunctionOnSet(objects, RowsOf(u)) + 0
<1>1. RowsOf(u) \ RowsOfUploads({}) = RowsOf(u)
  BY DEF RowsOfUploads
<1> QED BY <1>1, SumEmpty DEF Pledged

\* Uploads on different rows pledge at most a largest upload each.
LEMMA PledgedAtMost ==
    ASSUME IInv, UploadsRead, NEW u, NEW Q \in SUBSET Accepted(u)
    PROVE  Pledged(u, Q) <= TotalSizeByUser(u) + Cardinality(Q) * Max(Sizes)
<1>1. /\ IsFiniteSet(Q) /\ \A w \in Q : SizesRead[w] \in Nat
      /\ IsFiniteSet(RowsOf(u)) /\ \A r \in RowsOf(u) : objects[r] \in Nat
      /\ SumFunctionOnSet(objects, RowsOf(u) \ RowsOfUploads(Q)) \in Nat
      /\ SumFunctionOnSet(SizesRead, Q) \in Nat
  BY PledgedType DEF Accepted
<1>2. \A w \in Q : SizesRead[w] <= Max(Sizes)
  BY Bounds DEF UploadsRead, Accepted, Sized, SizesRead
<1>3. SumFunctionOnSet(SizesRead, Q) <= Cardinality(Q) * Max(Sizes)
  BY <1>1, <1>2, Bounds, SumBounded
<1>4. SumFunctionOnSet(objects, RowsOf(u) \ RowsOfUploads(Q)) <= SumFunctionOnSet(objects, RowsOf(u))
  <2> DEFINE R == RowsOf(u) \ RowsOfUploads(Q)
  <2>1. \A r \in R : objects[r] \in Nat /\ objects[r] <= objects[r]
    BY <1>1
  <2>2. R \in SUBSET RowsOf(u)
    OBVIOUS
  <2> HIDE DEF R
  <2>3. SumFunctionOnSet(objects, R) <= SumFunctionOnSet(objects, RowsOf(u))
    BY <1>1, <2>1, <2>2, SumMonotonic
  <2> QED BY <2>3 DEF R
<1>5. SumFunctionOnSet(objects, RowsOf(u)) \in Nat
  BY <1>1, SumType
<1>6. Cardinality(Q) * Max(Sizes) \in Nat
  BY <1>1, Bounds, FS_CardinalityType
<1> QED BY <1>1, <1>3, <1>4, <1>5, <1>6 DEF Pledged, TotalSizeByUser

-----------------------------------------------------------------------------
(* The steps of an upload.                                                 *)

\* The steps that leave their request past Head.
LEMMA SizedFrom ==
    ASSUME Typed, NEW w \in Workers, Request(w) \/ Continue(w) \/ Abort(w),
           worker'[w].pc \in Sized
    PROVE  \/ ConfirmUploadHead(w) \/ ConfirmUploadResolve(w)
           \/ ConfirmUploadTotal(w) \/ ConfirmUploadOld(w)
<1>1. worker \in [Workers -> RequestType] /\ worker[w] \in RequestType
  BY DEF Typed, RequestsOK
<1>2. ~Return(w)
  BY <1>1 DEF Return, Idle, Sized
<1>3. \A pc : Goto(w, pc) => worker'[w].pc = pc
  BY <1>1 DEF Goto, RequestType
<1>4. \A pc, k, s : Find(w, pc, k, s) => worker'[w].pc = pc
  BY <1>1 DEF Find, Idle
<1>5. ~Request(w)
  <2>1. CreateStart(w) => worker'[w].pc = "createResolve"
    BY <1>1 DEF CreateStart, Idle
  <2> QED
    BY <1>4, <2>1
    DEF Request, DeleteBucketFind, PresignUploadFind, ConfirmUploadFind, DeleteObjectFind, Sized
<1>6. ~Abort(w)
  BY <1>2 DEF Abort
<1>7. ~CreateResolve(w) /\ ~CreateCount(w) /\ ~CreateInsert(w)
  <2>1. CreateResolve(w) => worker'[w].pc \in {"createCount", "createInsert"}
    BY <1>1 DEF CreateResolve, RequestType
  <2> QED BY <1>2, <1>3, <2>1 DEF CreateCount, CreateInsert, Sized
<1>8. ~DeleteBucketList(w) /\ ~DeleteBucketBlob(w)
  <2>1. DeleteBucketList(w) => worker'[w].pc = "bucketBlobs"
    BY <1>1 DEF DeleteBucketList, RequestType
  <2>2. DeleteBucketBlob(w) => worker'[w].pc = "bucketBlobs"
    BY <1>1 DEF DeleteBucketBlob, RequestType
  <2> QED BY <2>1, <2>2 DEF Sized
<1>9. ~PresignUploadResolve(w)
  <2>1. PresignUploadResolve(w) => worker'[w].pc = "presignTotal"
    BY <1>1, <1>2 DEF PresignUploadResolve, RequestType
  <2> QED BY <2>1 DEF Sized
<1>10. ~DeleteBucketLoopDone(w) /\ ~DeleteBucketRow(w) /\ ~PresignUploadTotal(w)
       /\ ~ConfirmUploadReject(w) /\ ~ConfirmUploadUpsert(w) /\ ~DeleteObjectFindRow(w)
       /\ ~DeleteObjectBlob(w) /\ ~DeleteObjectRow(w)
  BY <1>2, <1>3
  DEF DeleteBucketLoopDone, DeleteBucketRow, PresignUploadTotal, ConfirmUploadReject,
      ConfirmUploadUpsert, DeleteObjectFindRow, DeleteObjectBlob, DeleteObjectRow, Sized
<1> QED
  BY <1>5, <1>6, <1>7, <1>8, <1>9, <1>10 DEF Continue

\* A step changes the record of its own request only.
LEMMA OneMoves ==
    ASSUME Typed, Next, NEW v \in Workers, worker'[v] # worker[v]
    PROVE  /\ Request(v) \/ Continue(v) \/ Abort(v)
           /\ \A w \in Workers : w # v => worker'[w] = worker[w]
<1>1. PICK w \in Workers : Request(w) \/ Continue(w) \/ Abort(w)
  BY DEF Next, ClientPut, UrlExpires
<1>2. PICK r : worker' = [worker EXCEPT ![w] = r]
  BY <1>1, Shape
<1>3. \A x \in Workers : x # w => worker'[x] = worker[x]
  BY <1>2 DEF Typed, RequestsOK
<1> QED BY <1>1, <1>3

\* What the four steps before the upsert do.
LEMMA UploadSteps ==
    ASSUME Typed, NEW w \in Workers
    PROVE  /\ ConfirmUploadHead(w) /\ worker'[w].pc \in Sized
                => /\ worker'[w].pc = "confirmResolve" /\ worker'[w].size \in Sizes
                   /\ worker'[w].user = worker[w].user
           /\ ConfirmUploadResolve(w)
                => /\ worker[w].pc = "confirmResolve"
                   /\ worker'[w].size = worker[w].size /\ worker'[w].user = worker[w].user
                   /\ StorageLimit[worker[w].user] > 0 =>
                         /\ worker'[w].pc = "confirmTotal"
                         /\ worker'[w].limit <= StorageLimit[worker[w].user]
           /\ ConfirmUploadTotal(w)
                => worker' = [worker EXCEPT ![w] =
                      [worker[w] EXCEPT !.pc = "confirmOld",
                                        !.total = TotalSizeByUser(worker[w].user)]]
           /\ ConfirmUploadOld(w)
                => /\ worker[w].pc = "confirmOld"
                   /\ \E pc \in {"confirmReject", "confirmUpsert"} :
                        worker' = [worker EXCEPT ![w] = [worker[w] EXCEPT !.pc = pc]]
<1>1. worker \in [Workers -> RequestType] /\ worker[w] \in RequestType
  BY DEF Typed, RequestsOK
<1>2. ASSUME ConfirmUploadHead(w), worker'[w].pc \in Sized
      PROVE  /\ worker'[w].pc = "confirmResolve" /\ worker'[w].size \in Sizes
             /\ worker'[w].user = worker[w].user
  <2>1. ~Return(w)
    BY <1>1, <1>2 DEF Return, Idle, Sized
  <2>2. /\ Target(w) \in DOMAIN blobs
        /\ worker' = [worker EXCEPT ![w].size = blobs[Target(w)], ![w].pc = "confirmResolve"]
    BY <1>2, <2>1 DEF ConfirmUploadHead
  <2>3. blobs[Target(w)] \in Sizes
    BY <2>2 DEF Typed, TablesOK
  <2> QED BY <1>1, <2>2, <2>3 DEF RequestType
<1>3. ASSUME ConfirmUploadResolve(w)
      PROVE  /\ worker[w].pc = "confirmResolve"
             /\ worker'[w].size = worker[w].size /\ worker'[w].user = worker[w].user
             /\ StorageLimit[worker[w].user] > 0 =>
                   /\ worker'[w].pc = "confirmTotal"
                   /\ worker'[w].limit <= StorageLimit[worker[w].user]
  <2>1. PICK l \in Resolved(StorageLimit[worker[w].user], FallbackStorage) :
            worker' = [worker EXCEPT ![w].limit = l,
                                     ![w].pc = IF l > 0 THEN "confirmTotal" ELSE "confirmUpsert"]
    BY <1>3 DEF ConfirmUploadResolve
  <2>2. worker[w].user \in Users
    BY <1>3 DEF ConfirmUploadResolve, Typed, Addressed
  <2>3. StorageLimit[worker[w].user] > 0 => l > 0 /\ l <= StorageLimit[worker[w].user]
    BY <2>1, <2>2, LimitsAssumption, FallbackAssumption DEF Resolved
  <2> QED BY <1>1, <1>3, <2>1, <2>3 DEF ConfirmUploadResolve, RequestType
<1>4. ASSUME ConfirmUploadTotal(w)
      PROVE  worker' = [worker EXCEPT ![w] =
                [worker[w] EXCEPT !.pc = "confirmOld",
                                  !.total = TotalSizeByUser(worker[w].user)]]
  BY <1>1, <1>4 DEF ConfirmUploadTotal, RequestType
<1>5. ASSUME ConfirmUploadOld(w)
      PROVE  /\ worker[w].pc = "confirmOld"
             /\ \E pc \in {"confirmReject", "confirmUpsert"} :
                  worker' = [worker EXCEPT ![w] = [worker[w] EXCEPT !.pc = pc]]
  BY <1>1, <1>5 DEF ConfirmUploadOld, Goto
<1> QED BY <1>2, <1>3, <1>4, <1>5

\* Every upload goes on knowing its size and the limit it compares with.
LEMMA UploadsReadStep ==
    ASSUME IInv, UploadsRead, Next
    PROVE  UploadsRead'
<1> DEFINE OK(r) ==
        /\ r.pc \in Sized => r.size \in Sizes
        /\ r.pc \in {"confirmTotal", "confirmOld"} /\ StorageLimit[r.user] > 0
              => r.limit <= StorageLimit[r.user]
<1> SUFFICES ASSUME NEW v \in Workers, worker'[v] # worker[v], worker'[v].pc \in Sized
             PROVE  OK(worker'[v])
  BY DEF UploadsRead, Sized
<1>1. worker[v] \in RequestType /\ worker \in [Workers -> RequestType]
  BY DEF IInv, Typed, RequestsOK
<1>2. OK(worker[v])
  BY DEF UploadsRead
<1>3. \/ ConfirmUploadHead(v) \/ ConfirmUploadResolve(v)
      \/ ConfirmUploadTotal(v) \/ ConfirmUploadOld(v)
  BY OneMoves, SizedFrom DEF IInv
<1>4. CASE ConfirmUploadHead(v)
  BY <1>4, UploadSteps DEF IInv
<1>5. CASE ConfirmUploadResolve(v)
  <2>1. /\ worker[v].pc = "confirmResolve"
        /\ worker'[v].size = worker[v].size /\ worker'[v].user = worker[v].user
        /\ StorageLimit[worker[v].user] > 0 => worker'[v].limit <= StorageLimit[worker[v].user]
    BY <1>5, UploadSteps DEF IInv
  <2> QED BY <2>1, <1>2 DEF Sized
<1>6. CASE ConfirmUploadTotal(v)
  <2>1. /\ worker'[v].size = worker[v].size /\ worker'[v].user = worker[v].user
        /\ worker'[v].limit = worker[v].limit /\ worker[v].pc = "confirmTotal"
    BY <1>1, <1>6, UploadSteps DEF IInv, RequestType, ConfirmUploadTotal
  <2> QED BY <2>1, <1>2 DEF Sized
<1>7. CASE ConfirmUploadOld(v)
  <2>1. /\ worker[v].pc = "confirmOld"
        /\ \E pc \in {"confirmReject", "confirmUpsert"} :
             worker' = [worker EXCEPT ![v] = [worker[v] EXCEPT !.pc = pc]]
    BY <1>7, UploadSteps DEF IInv
  <2>2. /\ worker'[v].size = worker[v].size /\ worker'[v].user = worker[v].user
        /\ worker'[v].limit = worker[v].limit /\ worker[v].pc = "confirmOld"
        /\ worker'[v].pc # "confirmTotal" /\ worker'[v].pc # "confirmOld"
    BY <1>1, <2>1 DEF RequestType
  <2> QED BY <2>2, <1>2 DEF Sized
<1> QED BY <1>3, <1>4, <1>5, <1>6, <1>7

-----------------------------------------------------------------------------
(* The steps of the invariant.                                             *)

\* Only an upsert adds to a user's rows or changes their sizes.
LEMMA RowsKept ==
    ASSUME IInv, Next, \A w \in Workers : ~ConfirmUploadUpsert(w), NEW u
    PROVE  \A r \in RowsOf(u)' : r \in RowsOf(u) /\ objects'[r] = objects[r]
<1>1. \A r \in DOMAIN objects' : r \in DOMAIN objects /\ objects'[r] = objects[r]
  <2>1. CASE UNCHANGED objects
    BY <2>1
  <2>2. CASE \E w \in Workers : DeleteBucketRow(w) \/ DeleteObjectRow(w)
    BY <2>2 DEF DeleteBucketRow, DeleteObjectRow, Without
  <2> QED
    BY <2>1, <2>2, Writers
    DEF Next, CreateInsert, DeleteBucketBlob, PresignUploadResolve, PresignUploadTotal,
        ConfirmUploadReject, DeleteObjectBlob, ClientPut, UrlExpires
<1>2. \A r \in DOMAIN objects : r[1] \in DOMAIN buckets /\ r[1] # nextId
  BY DEF IInv, Typed, TablesOK, RowsLive, BucketId
<1>3. \A b \in DOMAIN buckets' : b # nextId => b \in DOMAIN buckets /\ buckets'[b] = buckets[b]
  BY BucketsStep DEF IInv
<1> QED BY <1>1, <1>2, <1>3 DEF RowsOf, BucketsOf

\* A request is past its sum, or its decision, by one step only.
LEMMA UploadsKept ==
    ASSUME IInv, Next, NEW u \in Users, StorageLimit[u] > 0,
           NEW w \in Workers, worker'[w].pc \in {"confirmOld", "confirmUpsert"},
           worker'[w].user = u, ~ConfirmUploadTotal(w), ~ConfirmUploadOld(w)
    PROVE  worker'[w] = worker[w]
<1> SUFFICES ASSUME worker'[w] # worker[w] PROVE FALSE
  OBVIOUS
<1>1. ConfirmUploadHead(w) \/ ConfirmUploadResolve(w)
  BY OneMoves, SizedFrom DEF IInv, Sized
<1>2. ~ConfirmUploadHead(w)
  BY UploadSteps DEF IInv, Sized
<1>3. ~ConfirmUploadResolve(w)
  BY UploadSteps DEF IInv
<1> QED BY <1>1, <1>2, <1>3

\* The bound stays while the rows, the sums read and the uploads accepted do,
\* or become fewer.
LEMMA BoundedKept ==
    ASSUME IInv, NEW u \in Users, Bounded(u),
           \A r \in RowsOf(u)' : r \in RowsOf(u) /\ objects'[r] = objects[r],
           \A w \in Summed(u)' : w \in Summed(u) /\ worker'[w] = worker[w],
           \A w \in Accepted(u)' : w \in Accepted(u) /\ worker'[w] = worker[w]
    PROVE  Bounded(u)'
<1> SUFFICES ASSUME NEW W \in SUBSET Summed(u)', NEW Q \in SUBSET Accepted(u)', Apart(Q)'
             PROVE  Covered(u, W, Pledged(u, Q))'
  BY DEF Bounded
<1>1. W \in SUBSET Summed(u) /\ Q \in SUBSET Accepted(u)
  OBVIOUS
<1>2. \A w \in Q : RowOf(w)' = RowOf(w) /\ SizesRead'[w] = SizesRead[w] /\ w \in Workers
  BY DEF RowOf, SizesRead, Accepted
<1>3. Apart(Q) /\ RowsOfUploads(Q)' = RowsOfUploads(Q)
  BY <1>2 DEF Apart, RowsOfUploads
<1>4. Covered(u, W, Pledged(u, Q))
  BY <1>1, <1>3 DEF Bounded
<1> DEFINE R == RowsOf(u) \ RowsOfUploads(Q)
           P == RowsOf(u)' \ RowsOfUploads(Q)
<1>5. /\ IsFiniteSet(Q) /\ \A w \in Q : SizesRead[w] \in Nat
      /\ IsFiniteSet(R) /\ \A r \in R : objects[r] \in Nat
      /\ SumFunctionOnSet(objects, R) \in Nat
      /\ SumFunctionOnSet(SizesRead, Q) \in Nat
      /\ Pledged(u, Q) = SumFunctionOnSet(objects, R) + SumFunctionOnSet(SizesRead, Q)
  BY <1>1, PledgedType DEF Accepted, Pledged
<1>6. P \in SUBSET R /\ \A r \in P : objects'[r] \in Nat /\ objects'[r] <= objects[r]
  BY <1>5
<1>7. IsFiniteSet(P)
  BY <1>5, <1>6, FS_Subset
<1>8. SumFunctionOnSet(SizesRead', Q) = SumFunctionOnSet(SizesRead, Q)
  BY <1>2, <1>5, SumEqual
<1>9. Pledged(u, Q)' = SumFunctionOnSet(objects', P) + SumFunctionOnSet(SizesRead', Q)
  BY <1>3 DEF Pledged
<1> HIDE DEF R, P
<1>10. SumFunctionOnSet(objects', P) <= SumFunctionOnSet(objects, R)
  BY <1>5, <1>6, SumMonotonic
<1>11. SumFunctionOnSet(objects', P) \in Nat
  BY <1>6, <1>7, SumType
<1>12. Pledged(u, Q)' \in Int /\ Pledged(u, Q) \in Int /\ Pledged(u, Q)' <= Pledged(u, Q)
  BY <1>5, <1>8, <1>9, <1>10, <1>11
<1>13. Covered(u, W, Pledged(u, Q)')
  BY <1>1, <1>4, <1>12, CoveredLess DEF Summed
<1>14. \A w \in W : worker'[w] = worker[w]
  OBVIOUS
<1> QED BY <1>13, <1>14 DEF Covered, Room

\* A step that leaves rows alone and what the requests are about pledges the
\* same bytes.
LEMMA PledgedSame ==
    ASSUME UNCHANGED <<buckets, objects>>,
           \A w \in Workers : /\ worker'[w].bucket = worker[w].bucket
                              /\ worker'[w].key = worker[w].key
                              /\ worker'[w].size = worker[w].size,
           NEW u, NEW Q \in SUBSET Workers
    PROVE  Pledged(u, Q)' = Pledged(u, Q) /\ (Apart(Q)' <=> Apart(Q))
<1>1. RowsOf(u)' = RowsOf(u)
  BY DEF RowsOf, BucketsOf
<1>2. \A w \in Q : RowOf(w)' = RowOf(w)
  BY DEF RowOf
<1>3. RowsOfUploads(Q)' = RowsOfUploads(Q) /\ (Apart(Q)' <=> Apart(Q))
  BY <1>2 DEF RowsOfUploads, Apart
<1>4. SizesRead' = SizesRead
  BY DEF SizesRead
<1> QED BY <1>1, <1>3, <1>4 DEF Pledged

\* An upload that has just read the sum of its user's rows: the uploads the
\* others have pledged fit in the room of those that are not past their sum.
LEMMA BoundedTotal ==
    ASSUME IInv, UploadsRead, NEW u \in Users, Bounded(u),
           NEW v \in Workers, ConfirmUploadTotal(v), worker[v].user = u
    PROVE  Bounded(u)'
<1>1. /\ worker' = [worker EXCEPT ![v] = [worker[v] EXCEPT !.pc = "confirmOld",
                                                           !.total = TotalSizeByUser(u)]]
      /\ UNCHANGED <<buckets, objects>>
  BY UploadSteps DEF IInv, ConfirmUploadTotal
<1>2. worker \in [Workers -> RequestType]
  BY DEF IInv, Typed, RequestsOK
<1>3. \A w \in Workers : /\ worker'[w].bucket = worker[w].bucket /\ worker'[w].key = worker[w].key
                         /\ worker'[w].size = worker[w].size /\ worker'[w].user = worker[w].user
                         /\ w # v => worker'[w] = worker[w]
  BY <1>1, <1>2 DEF RequestType
<1>4. worker'[v].pc = "confirmOld" /\ worker'[v].total = TotalSizeByUser(u)
  BY <1>1, <1>2 DEF RequestType
<1> SUFFICES ASSUME NEW W \in SUBSET Summed(u)', NEW Q \in SUBSET Accepted(u)', Apart(Q)'
             PROVE  Covered(u, W, Pledged(u, Q))'
  BY DEF Bounded
<1>5. Q \in SUBSET Accepted(u) /\ W \in SUBSET Workers /\ W \ {v} \in SUBSET Summed(u)
      /\ W \cap Q = {} /\ Q \in SUBSET Workers
  BY <1>3, <1>4 DEF Accepted, Summed
<1>6. Pledged(u, Q)' = Pledged(u, Q) /\ Apart(Q)
  BY <1>1, <1>3, <1>5, PledgedSame
<1>7. CASE v \notin W
  <2>1. Covered(u, W, Pledged(u, Q))
    BY <1>5, <1>6, <1>7 DEF Bounded
  <2>2. \A w \in W : worker'[w] = worker[w]
    BY <1>3, <1>5, <1>7
  <2> QED BY <1>6, <2>1, <2>2 DEF Covered, Room
<1>8. CASE v \in W
  <2>1. Pledged(u, Q) <= TotalSizeByUser(u) + Cardinality(Q) * Max(Sizes)
    BY <1>5, PledgedAtMost
  <2>2. Cardinality(Q) * Max(Sizes) <= Room(Cardinality(W))
    BY <1>5, RoomEnough
  <2>3. Pledged(u, Q) \in Nat /\ TotalSizeByUser(u) \in Nat
    BY <1>5, PledgedType, TotalType DEF IInv
  <2>4. Cardinality(Q) * Max(Sizes) \in Int /\ Room(Cardinality(W)) \in Int
    <3>1. Cardinality(Q) \in Nat /\ Cardinality(W) \in Nat
      BY <1>5, Bounds, FS_Subset, FS_CardinalityType
    <3> QED BY <3>1, Bounds, RoomNext
  <2>5. Pledged(u, Q) <= worker'[v].total + Room(Cardinality(W))
    BY <1>4, <2>1, <2>2, <2>3, <2>4
  <2> QED BY <1>6, <1>8, <2>5 DEF Covered, Room
<1> QED BY <1>7, <1>8

\* An upload that has just decided: the sum it read was its own.
LEMMA BoundedOld ==
    ASSUME IInv, UploadsRead, NEW u \in Users, StorageLimit[u] > 0, Bounded(u),
           NEW v \in Workers, ConfirmUploadOld(v), worker[v].user = u
    PROVE  Bounded(u)'
<1>1. worker \in [Workers -> RequestType] /\ worker[v] \in RequestType
  BY DEF IInv, Typed, RequestsOK
<1>2. worker[v].pc = "confirmOld" /\ v \in Summed(u)
  BY DEF ConfirmUploadOld, Summed
<1>3. PICK pc \in {"confirmReject", "confirmUpsert"} :
          worker' = [worker EXCEPT ![v] = [worker[v] EXCEPT !.pc = pc]]
  BY UploadSteps DEF IInv
<1>4. \A w \in Workers : /\ worker'[w].bucket = worker[w].bucket /\ worker'[w].key = worker[w].key
                         /\ worker'[w].size = worker[w].size /\ worker'[w].user = worker[w].user
                         /\ worker'[w].total = worker[w].total
                         /\ w # v => worker'[w] = worker[w]
  BY <1>1, <1>3 DEF RequestType
<1>5. worker'[v].pc = pc /\ UNCHANGED <<buckets, objects>>
  BY <1>1, <1>3 DEF RequestType, ConfirmUploadOld
<1> SUFFICES ASSUME NEW W \in SUBSET Summed(u)', NEW P \in SUBSET Accepted(u)', Apart(P)'
             PROVE  Covered(u, W, Pledged(u, P))'
  BY DEF Bounded
<1>6. W \in SUBSET Summed(u) /\ v \notin W /\ P \ {v} \in SUBSET Accepted(u)
      /\ P \in SUBSET Workers /\ W \in SUBSET Workers
  BY <1>4, <1>5 DEF Summed, Accepted
<1>7. Pledged(u, P)' = Pledged(u, P) /\ Apart(P)
  BY <1>4, <1>5, <1>6, PledgedSame
<1>8. \A w \in W : worker'[w].total = worker[w].total
  BY <1>4, <1>6
<1>9. SUFFICES Covered(u, W, Pledged(u, P))
  BY <1>7, <1>8, <1>9 DEF Covered, Room
<1>10. CASE v \notin P
  BY <1>6, <1>7, <1>10 DEF Bounded
<1>11. CASE v \in P
  <2> DEFINE Q == P \ {v}
             old == IF RowOf(v) \in RowsOf(u) THEN objects[RowOf(v)] ELSE 0
             x == Pledged(u, Q)
             y == Pledged(u, P)
  <2>1. Q \in SUBSET Workers /\ Q \cup {v} = P /\ Apart(Q)
    BY <1>6, <1>7, <1>11 DEF Apart
  <2>2. RowOf(v) \notin RowsOfUploads(Q)
    BY <1>7, <1>11 DEF Apart, RowsOfUploads
  <2>3. y = x + worker[v].size - old
    BY <2>1, <2>2, PledgedOne
  <2>4. Covered(u, W \cup {v}, x)
    <3>1. W \cup {v} \in SUBSET Summed(u) /\ Q \in SUBSET Accepted(u)
      BY <1>2, <1>6
    <3> QED BY <2>1, <3>1 DEF Bounded
  <2>5. x \in Nat /\ y \in Nat
    BY <1>6, <2>1, PledgedType
  <2>6. old \in Nat
    BY TotalType DEF IInv
  <2>7. worker[v].size \in Nat /\ worker[v].size <= Max(Sizes) /\ Max(Sizes) \in Nat
        /\ worker[v].total \in Nat /\ worker[v].limit \in Nat
        /\ worker[v].limit <= StorageLimit[u] /\ StorageLimit[u] \in Nat
    BY <1>1, <1>2, Bounds, LimitsAssumption DEF UploadsRead, Sized, RequestType
  <2>8. worker[v].total - old + worker[v].size <= StorageLimit[u]
    <3>1. pc = "confirmUpsert"
      BY <1>5, <1>11 DEF Accepted
    <3>2. PICK o \in OldSizes(RowOf(v)) :
              Goto(v, IF worker[v].total - o + worker[v].size > worker[v].limit
                      THEN "confirmReject" ELSE "confirmUpsert")
      BY DEF ConfirmUploadOld, RowOf
    <3>3. ~(worker[v].total - o + worker[v].size > worker[v].limit)
      BY <1>1, <1>5, <3>1, <3>2 DEF Goto, RequestType
    <3>4. RowOf(v) \in RowsOf(u) <=> RowOf(v) \in DOMAIN objects
      <4> SUFFICES ASSUME RowOf(v) \in DOMAIN objects PROVE worker[v].bucket \in BucketsOf(u)
        BY DEF RowsOf, RowOf
      <4>1. worker[v].bucket \in DOMAIN buckets
        BY DEF IInv, RowsLive, RowOf
      <4>2. worker[v].pc \in BucketPC
        BY <1>2 DEF BucketPC, ObjectPC
      <4>3. buckets[worker[v].bucket] = [user |-> worker[v].user, name |-> worker[v].name]
        BY <4>1, <4>2 DEF IInv, Owned
      <4>4. buckets[worker[v].bucket].user = u
        BY <4>3
      <4> QED BY <4>1, <4>4 DEF BucketsOf
    <3>5. o \in Nat /\ o <= old
      BY <2>6, <3>2, <3>4 DEF OldSizes
    <3> HIDE DEF old
    <3> QED BY <2>6, <2>7, <3>3, <3>5
  <2>9. Room(Cardinality(W) + 1) \in Int
    <3>1. Cardinality(W) \in Nat
      BY <1>6, Bounds, FS_Subset, FS_CardinalityType
    <3> QED BY <3>1, RoomNext
  <2> HIDE DEF x, y, old, Q
  <2>10. y <= x + Max(Sizes)
    BY <2>3, <2>5, <2>6, <2>7
  <2>11. x <= worker[v].total + Room(Cardinality(W) + 1)
            => y <= StorageLimit[u] + Room(Cardinality(W) + 1)
    BY <2>3, <2>5, <2>6, <2>7, <2>8, <2>9
  <2>12. Covered(u, W, y)
    BY <1>6, <2>4, <2>5, <2>10, <2>11, CoveredLeave
  <2> QED BY <2>12 DEF y
<1> QED BY <1>10, <1>11

\* An upsert writes what its upload had pledged.
LEMMA BoundedUpsert ==
    ASSUME IInv, NEW u \in Users, Bounded(u), NEW v \in Workers, ConfirmUploadUpsert(v)
    PROVE  Bounded(u)'
<1>1. worker \in [Workers -> RequestType]
  BY DEF IInv, Typed, RequestsOK
<1>2. worker[v].pc = "confirmUpsert" /\ worker'[v].pc = "idle" /\ UNCHANGED buckets
      /\ \A w \in Workers : w # v => worker'[w] = worker[w]
  BY <1>1 DEF ConfirmUploadUpsert, Return, Idle
<1>3. /\ \A w \in Summed(u)' : w \in Summed(u) /\ worker'[w] = worker[w]
      /\ \A w \in Accepted(u)' : w \in Accepted(u) /\ worker'[w] = worker[w] /\ w # v
  BY <1>2 DEF Summed, Accepted
<1>4. BucketsOf(u)' = BucketsOf(u)
  BY <1>2 DEF BucketsOf
<1>5. CASE worker[v].bucket \notin DOMAIN buckets
  <2>1. UNCHANGED objects
    BY <1>5 DEF ConfirmUploadUpsert
  <2>2. \A r \in RowsOf(u)' : r \in RowsOf(u) /\ objects'[r] = objects[r]
    BY <1>4, <2>1 DEF RowsOf
  <2> QED BY <1>3, <2>2, BoundedKept
<1>6. CASE worker[v].bucket \in DOMAIN buckets
  <2>1. objects' = Put(objects, RowOf(v), worker[v].size)
    BY <1>6 DEF ConfirmUploadUpsert, RowOf
  <2>2. buckets[worker[v].bucket] = [user |-> worker[v].user, name |-> worker[v].name]
    BY <1>2, <1>6 DEF IInv, Owned, BucketPC, ObjectPC
  <2>3. worker[v].bucket \in BucketsOf(u) <=> worker[v].user = u
    BY <1>6, <2>2 DEF BucketsOf
  <2>4. CASE worker[v].user # u
    <3>1. \A r \in RowsOf(u)' : r # RowOf(v)
      BY <1>4, <2>3, <2>4 DEF RowsOf, RowOf
    <3>2. \A r \in RowsOf(u)' : r \in RowsOf(u) /\ objects'[r] = objects[r]
      BY <1>4, <2>1, <3>1 DEF RowsOf, Put
    <3> QED BY <1>3, <3>2, BoundedKept
  <2>5. CASE worker[v].user = u
    <3>1. RowsOf(u)' = RowsOf(u) \cup {RowOf(v)}
      BY <1>4, <2>1, <2>3, <2>5 DEF RowsOf, Put, RowOf
    <3>2. objects'[RowOf(v)] = worker[v].size
          /\ \A r \in RowsOf(u) : r # RowOf(v) => objects'[r] = objects[r]
      BY <2>1 DEF Put, RowsOf
    <3> SUFFICES ASSUME NEW W \in SUBSET Summed(u)', NEW Q \in SUBSET Accepted(u)', Apart(Q)'
                 PROVE  Covered(u, W, Pledged(u, Q))'
      BY DEF Bounded
    <3>3. /\ W \in SUBSET Summed(u) /\ Q \in SUBSET Accepted(u) /\ v \notin Q
          /\ Q \in SUBSET Workers /\ Q \cup {v} \in SUBSET Accepted(u)
          /\ \A w \in Q \cup W : worker'[w] = worker[w]
      BY <1>2, <1>3, <2>5 DEF Accepted
    <3>4. \A w \in Q : RowOf(w)' = RowOf(w) /\ SizesRead'[w] = SizesRead[w]
      BY <3>3 DEF RowOf, SizesRead
    <3>5. Apart(Q) /\ RowsOfUploads(Q)' = RowsOfUploads(Q)
      BY <3>4 DEF Apart, RowsOfUploads
    <3>6. /\ IsFiniteSet(Q) /\ \A w \in Q : SizesRead[w] \in Nat
          /\ IsFiniteSet(RowsOf(u)) /\ \A r \in RowsOf(u) : objects[r] \in Nat
          /\ IsFiniteSet(RowsOf(u) \ RowsOfUploads(Q))
      BY <3>3, PledgedType
    <3>7. SumFunctionOnSet(SizesRead', Q) = SumFunctionOnSet(SizesRead, Q)
      BY <3>4, <3>6, SumEqual
    <3>8. Pledged(u, Q)' = SumFunctionOnSet(objects', RowsOf(u)' \ RowsOfUploads(Q))
                           + SumFunctionOnSet(SizesRead, Q)
      BY <3>5, <3>7 DEF Pledged
    <3>9. CASE RowOf(v) \in RowsOfUploads(Q)
      <4> DEFINE R == RowsOf(u) \ RowsOfUploads(Q)
      <4>1. RowsOf(u)' \ RowsOfUploads(Q) = R
        BY <3>1, <3>9
      <4>2. \A r \in R : objects[r] \in Nat /\ objects'[r] = objects[r]
        BY <3>2, <3>6, <3>9
      <4>3. SumFunctionOnSet(objects', R) = SumFunctionOnSet(objects, R)
        BY <3>6, <4>2, SumEqual
      <4>4. Pledged(u, Q)' = Pledged(u, Q)
        BY <3>8, <4>1, <4>3 DEF Pledged
      <4>5. Covered(u, W, Pledged(u, Q))
        BY <3>3, <3>5 DEF Bounded
      <4> QED BY <3>3, <4>4, <4>5 DEF Covered, Room
    <3>10. CASE RowOf(v) \notin RowsOfUploads(Q)
      <4> DEFINE P == Q \cup {v}
                 R == RowsOf(u) \ RowsOfUploads(P)
                 T == RowsOf(u)' \ RowsOfUploads(Q)
      <4>1. Apart(P) /\ P \in SUBSET Accepted(u) /\ P \in SUBSET Workers
        BY <3>3, <3>5, <3>10 DEF Apart, RowsOfUploads
      <4>2. RowsOfUploads(P) = RowsOfUploads(Q) \cup {RowOf(v)}
        BY DEF RowsOfUploads
      <4>3. RowOf(v) \in T /\ T \ {RowOf(v)} = R
        BY <3>1, <3>10, <4>2
      <4>4. /\ IsFiniteSet(P) /\ \A w \in P : SizesRead[w] \in Nat
            /\ IsFiniteSet(R) /\ \A r \in R : objects[r] \in Nat
            /\ SumFunctionOnSet(objects, R) \in Nat
            /\ SumFunctionOnSet(SizesRead, P) \in Nat
        BY <4>1, PledgedType
      <4>5. \A r \in R : objects'[r] = objects[r]
        BY <3>2, <4>3
      <4>6. worker[v].size \in Nat
        BY <1>1 DEF RequestType
      <4>7. IsFiniteSet(T) /\ \A r \in T : objects'[r] \in Nat
        <5>1. T = R \cup {RowOf(v)}
          BY <4>3
        <5>2. IsFiniteSet(R \cup {RowOf(v)})
          BY <4>4, FS_AddElement
        <5> HIDE DEF T, R
        <5> QED BY <3>2, <4>4, <4>5, <4>6, <5>1, <5>2
      <4>8. SumFunctionOnSet(objects', T)
               = objects'[RowOf(v)] + SumFunctionOnSet(objects', T \ {RowOf(v)})
        BY <4>3, <4>7, SumRemove
      <4>9. SumFunctionOnSet(objects', R) = SumFunctionOnSet(objects, R)
        BY <4>4, <4>5, SumEqual
      <4>10. SumFunctionOnSet(objects', T) = worker[v].size + SumFunctionOnSet(objects, R)
        <5>1. SumFunctionOnSet(objects', T \ {RowOf(v)}) = SumFunctionOnSet(objects', R)
          BY <4>3
        <5> QED BY <3>2, <4>8, <4>9, <5>1
      <4>11. SumFunctionOnSet(SizesRead, P) = worker[v].size + SumFunctionOnSet(SizesRead, Q)
        <5>1. v \in P /\ P \ {v} = Q /\ SizesRead[v] = worker[v].size
          BY <3>3 DEF SizesRead
        <5>2. SumFunctionOnSet(SizesRead, P) = SizesRead[v] + SumFunctionOnSet(SizesRead, P \ {v})
          BY <4>4, <5>1, SumRemove
        <5>3. SumFunctionOnSet(SizesRead, P \ {v}) = SumFunctionOnSet(SizesRead, Q)
          BY <5>1
        <5> QED BY <5>1, <5>2, <5>3
      <4>12. SumFunctionOnSet(SizesRead, Q) \in Nat
        BY <3>6, SumType
      <4>13. Pledged(u, P) = SumFunctionOnSet(objects, R) + SumFunctionOnSet(SizesRead, P)
        BY DEF Pledged
      <4>14. Pledged(u, Q)' = SumFunctionOnSet(objects', T) + SumFunctionOnSet(SizesRead, Q)
        BY <3>8
      <4>15. Covered(u, W, Pledged(u, P))
        BY <3>3, <4>1 DEF Bounded
      <4> HIDE DEF P, R, T
      <4>16. Pledged(u, Q)' = Pledged(u, P)
        BY <4>4, <4>6, <4>10, <4>11, <4>12, <4>13, <4>14
      <4> QED BY <3>3, <4>15, <4>16 DEF Covered, Room
    <3> QED BY <3>9, <3>10
  <2> QED BY <2>4, <2>5
<1> QED BY <1>5, <1>6

\* Nobody holds anything at the start.
LEMMA QuotaInit == Init => QuotaInv
<1> SUFFICES ASSUME Init PROVE QuotaInv
  OBVIOUS
<1>1. IInv
  BY InitInv
<1>2. \A w \in Workers : worker[w].pc = "idle"
  BY DEF Init, Idle
<1>3. UploadsRead
  BY <1>2 DEF UploadsRead, Sized
<1>4. ASSUME NEW u \in Users PROVE Bounded(u)
  <2> SUFFICES ASSUME NEW W \in SUBSET Summed(u), NEW Q \in SUBSET Accepted(u)
               PROVE  Covered(u, W, Pledged(u, Q))
    BY DEF Bounded
  <2>1. W = {} /\ Q = {} /\ RowsOf(u) = {}
    BY <1>2 DEF Summed, Accepted, RowsOf, Init
  <2>2. SumFunctionOnSet(objects, RowsOf(u)) = 0 /\ Cardinality(W) = 0
    BY <2>1, SumEmpty, FS_EmptySet
  <2>3. Pledged(u, Q) = 0
    BY <2>1, <2>2, PledgedNone
  <2>4. 0 <= Room(1)
    <3>1. Cardinality({}) = 0 /\ {} \in SUBSET Workers /\ IsFiniteSet({})
      BY FS_EmptySet
    <3>2. \A n, m \in Nat : n >= 1 => 0 <= (n - 1) * m
      <4> TAKE n, m \in Nat
      <4> HAVE n >= 1
      <4>1. n - 1 \in Nat
        OBVIOUS
      <4> QED BY <4>1
    <3> QED BY <3>2, Bounds DEF Room
  <2>5. Room(1) \in Int /\ StorageLimit[u] \in Nat
    BY RoomNext, LimitsAssumption
  <2> QED BY <2>2, <2>3, <2>4, <2>5 DEF Covered
<1> QED BY <1>1, <1>3, <1>4 DEF QuotaInv

\* One case per action that touches rows or uploads.
LEMMA QuotaStep ==
    ASSUME QuotaInv, [Next]_vars
    PROVE  QuotaInv'
<1>1. CASE UNCHANGED vars
  <2>1. IInv'
    BY InvStep DEF QuotaInv
  <2>2. UploadsRead'
    BY <1>1 DEF vars, QuotaInv, UploadsRead
  <2>3. ASSUME NEW u \in Users, StorageLimit[u] > 0 PROVE Bounded(u)'
    <3>1. \A r \in RowsOf(u)' : r \in RowsOf(u) /\ objects'[r] = objects[r]
      BY <1>1 DEF vars, RowsOf, BucketsOf
    <3>2. \A w \in Workers : worker'[w] = worker[w]
      BY <1>1 DEF vars
    <3> QED BY <2>3, <3>1, <3>2, BoundedKept DEF QuotaInv, Summed, Accepted
  <2> QED BY <2>1, <2>2, <2>3 DEF QuotaInv
<1>2. CASE Next
  <2>1. IInv' /\ UploadsRead'
    BY <1>2, InvStep, UploadsReadStep DEF QuotaInv
  <2>2. ASSUME NEW u \in Users, StorageLimit[u] > 0 PROVE Bounded(u)'
    <3>1. IInv /\ UploadsRead /\ Bounded(u)
      BY <2>2 DEF QuotaInv
    <3>2. CASE \E v \in Workers : ConfirmUploadUpsert(v)
      BY <3>1, <3>2, BoundedUpsert
    <3>3. CASE \E v \in Workers : ConfirmUploadTotal(v) /\ worker[v].user = u
      BY <3>1, <3>3, BoundedTotal
    <3>4. CASE \E v \in Workers : ConfirmUploadOld(v) /\ worker[v].user = u
      BY <2>2, <3>1, <3>4, BoundedOld
    <3>5. CASE /\ \A v \in Workers : ~ConfirmUploadUpsert(v)
               /\ \A v \in Workers : ~(ConfirmUploadTotal(v) /\ worker[v].user = u)
               /\ \A v \in Workers : ~(ConfirmUploadOld(v) /\ worker[v].user = u)
      <4>1. \A r \in RowsOf(u)' : r \in RowsOf(u) /\ objects'[r] = objects[r]
        BY <1>2, <3>1, <3>5, RowsKept
      <4>2. ASSUME NEW w \in Workers, worker'[w].pc \in {"confirmOld", "confirmUpsert"},
                   worker'[w].user = u
            PROVE  worker'[w] = worker[w]
        <5>1. worker \in [Workers -> RequestType] /\ worker[w] \in RequestType
          BY <3>1 DEF IInv, Typed, RequestsOK
        <5>2. ConfirmUploadTotal(w) \/ ConfirmUploadOld(w) => worker'[w].user = worker[w].user
          <6>1. ConfirmUploadTotal(w) => worker' = [worker EXCEPT ![w] =
                   [worker[w] EXCEPT !.pc = "confirmOld",
                                     !.total = TotalSizeByUser(worker[w].user)]]
            BY <3>1, UploadSteps DEF IInv
          <6>2. ConfirmUploadOld(w) => \E pc : worker' = [worker EXCEPT ![w] =
                                                            [worker[w] EXCEPT !.pc = pc]]
            BY <3>1, UploadSteps DEF IInv
          <6> QED BY <5>1, <6>1, <6>2 DEF RequestType
        <5> QED BY <1>2, <2>2, <3>1, <3>5, <4>2, <5>2, UploadsKept
      <4> QED BY <3>1, <4>1, <4>2, BoundedKept DEF Summed, Accepted
    <3> QED BY <3>2, <3>3, <3>4, <3>5
  <2> QED BY <2>1, <2>2 DEF QuotaInv
<1> QED BY <1>1, <1>2

LEMMA QuotaInvariance == Spec => []QuotaInv
BY QuotaInit, QuotaStep, PTL DEF Spec

\* What the invariant says when no upload is looked at.
LEMMA RecordedBounded ==
    ASSUME QuotaInv, NEW u \in Users, StorageLimit[u] > 0
    PROVE  TotalSizeByUser(u) <= StorageLimit[u] + (Cardinality(Workers) - 1) * Max(Sizes)
<1>1. {} \in SUBSET Summed(u) /\ {} \in SUBSET Accepted(u) /\ Apart({})
  BY DEF Apart
<1>2. Covered(u, {}, Pledged(u, {}))
  BY <1>1 DEF QuotaInv, Bounded
<1>3. Cardinality({}) = 0
  BY FS_EmptySet
<1>4. Pledged(u, {}) <= StorageLimit[u] + Room(0 + 1)
  BY <1>2, <1>3 DEF Covered
<1>5. TotalSizeByUser(u) \in Nat /\ Pledged(u, {}) = TotalSizeByUser(u) + 0
  BY TotalType, PledgedNone DEF QuotaInv, IInv, TotalSizeByUser
<1>6. Room(0 + 1) = (Cardinality(Workers) - 1) * Max(Sizes)
  BY DEF Room
<1> QED BY <1>4, <1>5, <1>6

\* A user never has more bytes recorded than the plan allows plus one largest
\* upload for each other request goroutine, for every number of goroutines,
\* users, sizes and limits: the sum, the decision and the upsert of
\* ConfirmUpload are not one transaction, and this is all they let through,
\* though rows are replaced and deleted in between.
THEOREM StorageOvershootHolds == Spec => []StorageOvershootBounded
<1>1. QuotaInv => StorageOvershootBounded
  BY RecordedBounded DEF StorageOvershootBounded
<1> QED BY <1>1, QuotaInvariance, PTL

\* Where requests run one at a time the quota is exact: failures between the
\* statements, replaced rows and a fallback plan never let a user past it.
THEOREM StorageWithinPlanHolds ==
    ASSUME Cardinality(Workers) = 1
    PROVE  Spec => []StorageWithinPlan
<1>1. QuotaInv => StorageWithinPlan
  <2> SUFFICES ASSUME QuotaInv, NEW u \in Users, StorageLimit[u] > 0
               PROVE  TotalSizeByUser(u) <= StorageLimit[u]
    BY DEF StorageWithinPlan
  <2>1. TotalSizeByUser(u) <= StorageLimit[u] + (Cardinality(Workers) - 1) * Max(Sizes)
    BY RecordedBounded
  <2>2. (Cardinality(Workers) - 1) * Max(Sizes) = 0
    BY Bounds
  <2> QED BY <2>1, <2>2, LimitsAssumption
<1> QED BY <1>1, QuotaInvariance, PTL
=============================================================================
