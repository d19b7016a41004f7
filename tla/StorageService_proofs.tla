------------------------ MODULE StorageService_proofs ------------------------
(* Theorems about StorageService, for every number of users, buckets,      *)
(* objects and request goroutines.                                         *)
EXTENDS StorageService, StorageQuota_proofs

\* What is added to ObjectStorage takes no step of its own there: columns and
\* records beside, the service is the one ObjectStorage specifies.
THEOREM ServiceUsesStorage == ServiceSpec => Spec
<1>1. ServiceInit => Init
  BY DEF ServiceInit
<1>2. [ServiceNext]_serviceVars => [Next]_vars
  BY DEF ServiceNext, serviceVars, Call, Record, UpdateBucket, Download, Next
<1> QED BY <1>1, <1>2, PTL DEF ServiceSpec, Spec

\* With audit records and changes of settings too, a user's data changes only
\* by that user's requests and URLs.
THEOREM ServiceIsolatesTenants == ServiceSpec => TenantIsolation
BY ServiceUsesStorage, TenantIsolationHolds, PTL

\* With them too, no two rows describe the same S3 object.
THEOREM ServiceSharesNoBlob == ServiceSpec => []NoSharedBlob
BY ServiceUsesStorage, NoSharedBlobHolds, PTL

\* With them too, the tables and the requests hold what their columns allow.
THEOREM ServiceStorageTyped == ServiceSpec => []TypeOK
BY ServiceUsesStorage, Typing, PTL

\* With them too, racing requests pass the plan's limits by a bucket and by the
\* bytes of an object per goroutine at most.
THEOREM ServiceOvershootBounded ==
    ServiceSpec => [](BucketOvershootBounded /\ StorageOvershootBounded)
BY ServiceUsesStorage, BucketOvershootHolds, StorageOvershootHolds, PTL

-----------------------------------------------------------------------------

SInv == IInv /\ ServiceTypeOK /\ LogAgrees

\* A call leaves the table of buckets alone, inserts the next id or deletes a
\* row, and what it is to record says which.
LEMMA CallStep ==
    ASSUME IInv, NEW w \in Workers, Request(w) \/ Continue(w) \/ Abort(w)
    PROVE  \/ UNCHANGED <<buckets, nextId>> /\ Outcome(w) = NoRecord
           \/ /\ nextId' = nextId + 1 /\ DOMAIN buckets' = DOMAIN buckets \cup {nextId}
              /\ Outcome(w) = "bucket.created"
           \/ /\ nextId' = nextId /\ Outcome(w) = "bucket.deleted"
              /\ \E b \in DOMAIN buckets : DOMAIN buckets' = DOMAIN buckets \ {b}
<1>1. nextId \in Nat
  BY DEF IInv, Typed, TablesOK, BucketId
<1>2. CASE UNCHANGED <<buckets, nextId>>
  BY <1>2 DEF Outcome
<1>3. CASE CreateInsert(w) /\ ~UNCHANGED <<buckets, nextId>>
  <2>1. nextId' = nextId + 1 /\ worker[w].pc = "createInsert" /\ nextId' # nextId
    BY <1>1, <1>3 DEF CreateInsert
  <2>2. DOMAIN buckets' = DOMAIN buckets \cup {nextId}
    BY <1>3 DEF CreateInsert, Put
  <2> QED BY <2>1, <2>2 DEF Outcome
<1>4. CASE DeleteBucketRow(w) /\ ~UNCHANGED <<buckets, nextId>>
  <2>1. nextId' = nextId /\ worker[w].pc = "bucketRow" /\ buckets' # buckets
        /\ buckets' = Without(buckets, {worker[w].bucket})
    BY <1>4 DEF DeleteBucketRow
  <2>2. worker[w].bucket \in DOMAIN buckets
    <3> SUFFICES ASSUME worker[w].bucket \notin DOMAIN buckets PROVE buckets' = buckets
      BY <2>1
    <3>1. buckets = [b \in DOMAIN buckets |-> buckets[b]]
      BY DEF IInv, Typed, TablesOK
    <3>2. DOMAIN buckets \ {worker[w].bucket} = DOMAIN buckets
      OBVIOUS
    <3> QED BY <2>1, <3>1, <3>2 DEF Without
  <2>3. DOMAIN buckets' = DOMAIN buckets \ {worker[w].bucket}
    BY <2>1 DEF Without
  <2> QED BY <2>1, <2>2, <2>3 DEF Outcome
<1> QED
  BY <1>2, <1>3, <1>4, Writers
  DEF DeleteBucketBlob, PresignUploadResolve, PresignUploadTotal, ConfirmUploadReject,
      ConfirmUploadUpsert, DeleteObjectBlob, DeleteObjectRow

Owing(a) == {w \in Workers : pending[w] = a}

LEMMA FiniteOwing == \A a : IsFiniteSet(Owing(a)) /\ Cardinality(Owing(a)) \in Nat
BY FiniteInserting DEF Owing

\* A call owes the record of its outcome, and no other.
LEMMA CallRecorded ==
    ASSUME ServiceTypeOK, NEW w \in Workers, Call(w), NEW a \in Actions
    PROVE  Recorded(a)' = Recorded(a) + (IF Outcome(w) = a THEN 1 ELSE 0)
<1>1. Owing(a)' = IF Outcome(w) = a THEN Owing(a) \cup {w} ELSE Owing(a)
  BY DEF Call, Owing, ServiceTypeOK, Actions, NoRecord
<1>2. w \notin Owing(a)
  BY DEF Call, Owing, Actions, NoRecord
<1>3. Cardinality(Owing(a) \cup {w}) = Cardinality(Owing(a)) + 1
  BY <1>2, FiniteOwing, FS_AddElement
<1>4. Cardinality(Owing(a)') = Cardinality(Owing(a)) + (IF Outcome(w) = a THEN 1 ELSE 0)
  BY <1>1, <1>3, FiniteOwing
<1>5. log[a] \in Nat /\ log' = log
  BY DEF ServiceTypeOK, Call
<1> QED BY <1>4, <1>5, FiniteOwing DEF Recorded, Owing

\* A record written, or lost, is owed no more.
LEMMA RecordRecorded ==
    ASSUME ServiceTypeOK, NEW w \in Workers, Record(w), NEW a \in Actions
    PROVE  Recorded(a)' \in Nat /\ Recorded(a)' <= Recorded(a)
<1>1. pending[w] \in Actions /\ pending' = [pending EXCEPT ![w] = NoRecord]
  BY DEF Record, ServiceTypeOK
<1>2. log[a] \in Nat /\ log[pending[w]] \in Nat
  BY <1>1 DEF ServiceTypeOK
<1>3. Cardinality(Owing(a)) \in Nat /\ IsFiniteSet(Owing(a))
  BY FiniteOwing
<1>4. CASE pending[w] = a
  <2>1. w \in Owing(a) /\ Owing(a)' = Owing(a) \ {w}
    BY <1>1, <1>4 DEF Owing, ServiceTypeOK, Actions, NoRecord
  <2>2. Cardinality(Owing(a)') = Cardinality(Owing(a)) - 1
    BY <2>1, <1>3, FS_RemoveElement
  <2>3. Cardinality(Owing(a)') \in Nat
    BY <2>1, <1>3, FS_RemoveElement, FS_CardinalityType
  <2>4. log'[a] \in Nat /\ log'[a] <= log[a] + 1
    BY <1>2, <1>4 DEF Record, ServiceTypeOK
  <2> QED BY <1>2, <1>3, <2>2, <2>3, <2>4 DEF Recorded, Owing
<1>5. CASE pending[w] # a
  <2>1. Owing(a)' = Owing(a)
    BY <1>1, <1>5 DEF Owing, ServiceTypeOK, Actions, NoRecord
  <2>2. log'[a] = log[a]
    BY <1>2, <1>5 DEF Record, ServiceTypeOK
  <2> QED BY <1>2, <1>3, <2>1, <2>2 DEF Recorded, Owing
<1> QED BY <1>4, <1>5

\* The recorded numbers, and the live buckets, are what the arithmetic takes
\* them for.
LEMMA Numbers ==
    ASSUME SInv
    PROVE  /\ nextId \in Nat
           /\ IsFiniteSet(DOMAIN buckets) /\ Cardinality(DOMAIN buckets) \in Nat
           /\ nextId \notin DOMAIN buckets
           /\ \A a \in Actions : Recorded(a) \in Nat
<1>1. nextId \in Nat /\ DOMAIN buckets \in SUBSET (1 .. nextId - 1)
  BY DEF SInv, IInv, Typed, TablesOK, BucketId
<1>2. ASSUME NEW a \in Actions PROVE Recorded(a) \in Nat
  <2>1. log[a] \in Nat
    BY DEF SInv, ServiceTypeOK
  <2>2. Recorded(a) = log[a] + Cardinality(Owing(a))
    BY DEF Recorded, Owing
  <2>3. Cardinality(Owing(a)) \in Nat
    BY FiniteOwing
  <2> QED BY <2>1, <2>2, <2>3
<1>3. nextId \notin DOMAIN buckets
  BY <1>1
<1>4. IsFiniteSet(DOMAIN buckets) /\ Cardinality(DOMAIN buckets) \in Nat
  BY <1>1, FiniteIds
<1> QED BY <1>1, <1>2, <1>3, <1>4

LEMMA ServiceTypeStep ==
    ASSUME SInv, ServiceNext
    PROVE  ServiceTypeOK'
<1> USE DEF SInv
<1>1. ASSUME NEW w \in Workers, Call(w) PROVE ServiceTypeOK'
  <2>1. Outcome(w) \in Actions \cup {NoRecord}
    BY <1>1, CallStep DEF Call, Actions
  <2>2. log' \in [Actions -> Nat] /\ pending' \in [Workers -> Actions \cup {NoRecord}]
    BY <1>1, <2>1 DEF Call, ServiceTypeOK
  <2>3. bandwidth' \in [Users -> Nat]
    BY <1>1 DEF Call, ServiceTypeOK
  <2>4. CASE DOMAIN buckets' \subseteq DOMAIN buckets
    BY <1>1, <2>2, <2>3, <2>4 DEF Call, Columns, ServiceTypeOK, Restrict
  <2>5. CASE ~(DOMAIN buckets' \subseteq DOMAIN buckets)
    <3>1. DOMAIN buckets' = DOMAIN buckets \cup {nextId}
      BY <1>1, <2>5, CallStep DEF Call
    <3>2. PICK s \in Settings : settings' = Put(settings, nextId, s)
      BY <1>1, <2>5 DEF Call, Columns
    <3>3. settings' \in [DOMAIN buckets' -> Settings]
      BY <3>1, <3>2 DEF Put, ServiceTypeOK
    <3> QED BY <2>2, <2>3, <3>3 DEF ServiceTypeOK
  <2> QED BY <2>4, <2>5
<1>2. ASSUME NEW w \in Workers, Record(w) PROVE ServiceTypeOK'
  <2>1. pending[w] \in Actions
    BY <1>2 DEF Record, ServiceTypeOK
  <2>2. log' \in [Actions -> Nat]
    BY <1>2, <2>1 DEF Record, ServiceTypeOK
  <2> QED BY <1>2, <2>2 DEF Record, ServiceTypeOK, vars
<1>3. CASE UpdateBucket
  <2>1. PICK u \in Users, b \in 1 .. nextId - 1, s \in Settings : Update(u, b, s)
    BY <1>3 DEF UpdateBucket
  <2>2. settings' \in [DOMAIN buckets -> Settings]
    BY <2>1 DEF Update, Owns, ServiceTypeOK
  <2> QED BY <1>3, <2>2 DEF UpdateBucket, ServiceTypeOK, vars
<1>4. CASE (ClientPut \/ UrlExpires) /\ UNCHANGED <<settings, log, pending, bandwidth>>
  BY <1>4 DEF ClientPut, UrlExpires, ServiceTypeOK
<1>5. CASE Download
  <2>1. PICK u \in Users : RecordUsage(u, 0)
    BY <1>5 DEF Download, PresignDownload
  <2>2. bandwidth' \in [Users -> Nat]
    BY <2>1 DEF RecordUsage, ServiceTypeOK
  <2> QED BY <1>5, <2>2 DEF Download, ServiceTypeOK, vars
<1> QED BY <1>1, <1>2, <1>3, <1>4, <1>5 DEF ServiceNext

LEMMA LogAgreesStep ==
    ASSUME SInv, ServiceNext
    PROVE  LogAgrees'
<1> DEFINE created == Recorded("bucket.created")
           deleted == Recorded("bucket.deleted")
           live    == Cardinality(DOMAIN buckets)
           Agrees  == created <= nextId - 1 /\ deleted + live <= nextId - 1
<1>1. Agrees
  BY DEF SInv, LogAgrees
<1>2. nextId \in Nat /\ created \in Nat /\ deleted \in Nat /\ live \in Nat
  BY Numbers DEF Actions
<1>3. SUFFICES Agrees'
  BY DEF LogAgrees
<1>4. ASSUME NEW w \in Workers, Call(w) PROVE Agrees'
  <2>1. /\ created' = created + (IF Outcome(w) = "bucket.created" THEN 1 ELSE 0)
        /\ deleted' = deleted + (IF Outcome(w) = "bucket.deleted" THEN 1 ELSE 0)
    BY <1>4, CallRecorded DEF SInv, Actions
  <2>2. CASE UNCHANGED <<buckets, nextId>> /\ Outcome(w) = NoRecord
    BY <1>1, <1>2, <2>1, <2>2 DEF NoRecord
  <2>3. CASE /\ nextId' = nextId + 1 /\ DOMAIN buckets' = DOMAIN buckets \cup {nextId}
             /\ Outcome(w) = "bucket.created"
    <3>1. live' = live + 1
      BY <2>3, Numbers, FS_AddElement
    <3> QED BY <1>1, <1>2, <2>1, <2>3, <3>1
  <2>4. CASE /\ nextId' = nextId /\ Outcome(w) = "bucket.deleted"
             /\ \E b \in DOMAIN buckets : DOMAIN buckets' = DOMAIN buckets \ {b}
    <3>1. live' = live - 1
      BY <2>4, Numbers, FS_RemoveElement
    <3> QED BY <1>1, <1>2, <2>1, <2>4, <3>1
  <2> QED BY <1>4, <2>2, <2>3, <2>4, CallStep DEF Call, SInv
<1>5. ASSUME NEW w \in Workers, Record(w) PROVE Agrees'
  <2>1. created' \in Nat /\ created' <= created /\ deleted' \in Nat /\ deleted' <= deleted
    BY <1>5, RecordRecorded DEF SInv, Actions
  <2>2. UNCHANGED <<buckets, nextId>>
    BY <1>5 DEF Record, vars
  <2> QED BY <1>1, <1>2, <2>1, <2>2
<1>6. ASSUME UNCHANGED <<buckets, nextId, log, pending>>
      PROVE  Agrees'
  BY <1>1, <1>6 DEF Recorded
<1>7. CASE UpdateBucket
  BY <1>6, <1>7 DEF UpdateBucket, vars
<1>8. CASE (ClientPut \/ UrlExpires) /\ UNCHANGED <<settings, log, pending, bandwidth>>
  BY <1>6, <1>8 DEF ClientPut, UrlExpires
<1>9. CASE Download
  BY <1>6, <1>9 DEF Download, vars
<1> HIDE DEF Agrees
<1> QED BY <1>4, <1>5, <1>7, <1>8, <1>9 DEF ServiceNext

LEMMA ServiceInvariance == ServiceSpec => []SInv
<1>1. ServiceInit => SInv
  <2> SUFFICES ASSUME ServiceInit PROVE SInv
    OBVIOUS
  <2>1. IInv
    BY InitInv DEF ServiceInit
  <2>2. ServiceTypeOK
    BY DEF ServiceInit, Init, ServiceTypeOK
  <2>3. \A a \in Actions : Recorded(a) = 0
    <3> SUFFICES ASSUME NEW a \in Actions PROVE Recorded(a) = 0
      OBVIOUS
    <3>1. Owing(a) = {} /\ log[a] = 0
      BY DEF ServiceInit, Owing, Actions, NoRecord
    <3> QED BY <3>1, FS_EmptySet DEF Recorded, Owing
  <2>4. nextId = 1 /\ Cardinality(DOMAIN buckets) = 0
    <3>1. nextId = 1 /\ DOMAIN buckets = {}
      BY DEF ServiceInit, Init
    <3> QED BY <3>1, FS_EmptySet
  <2>5. LogAgrees
    BY <2>3, <2>4 DEF LogAgrees, Actions
  <2> QED BY <2>1, <2>2, <2>5 DEF SInv
<1>2. SInv /\ [ServiceNext]_serviceVars => SInv'
  <2>1. ASSUME SInv, ServiceNext PROVE SInv'
    <3>1. [Next]_vars
      BY <2>1 DEF ServiceNext, Call, Record, UpdateBucket, Download, Next
    <3> QED BY <2>1, <3>1, InvStep, ServiceTypeStep, LogAgreesStep DEF SInv
  <2>2. ASSUME SInv, UNCHANGED serviceVars PROVE SInv'
    BY <2>2, InvStep DEF serviceVars, vars, SInv, ServiceTypeOK, LogAgrees, Recorded
  <2> QED BY <2>1, <2>2
<1> QED BY <1>1, <1>2, PTL DEF ServiceSpec

\* Every live bucket has its settings, whoever creates, changes and deletes it
\* at the same time, and requests owe records of two kinds only.
THEOREM ServiceTyped == ServiceSpec => []ServiceTypeOK
BY ServiceInvariance, PTL DEF SInv

\* The audit log never tells of more creations or deletions than happened, for
\* any number of requests about the same buckets and however late they record.
THEOREM LogAgreesHolds == ServiceSpec => []LogAgrees
BY ServiceInvariance, PTL DEF SInv
=============================================================================
