---------------------------- MODULE StorageService ----------------------------
(***************************************************************************)
(* What the storage service keeps beside the rows and bytes of             *)
(* ObjectStorage: the columns of a bucket that its owner may change, the   *)
(* audit log, and the bandwidth its downloads are billed for.  A request   *)
(* that created or deleted something writes its record with a last         *)
(* statement of its own, whose error nobody sees.                          *)
(***************************************************************************)
EXTENDS ObjectStorage

CONSTANTS
    Settings   \* values of the columns visibility and cdn_enabled

VARIABLES
    settings, \* those columns of table buckets: live bucket id -> setting
    log,      \* table audit_log: action -> number of records; those of
              \* logins, domains and objects are left out
    pending,  \* per goroutine: the record its request has still to write
    bandwidth \* per user: the bytes table usage_events adds up to

serviceVars == <<vars, settings, log, pending, bandwidth>>

Actions == {"bucket.created", "bucket.deleted"}
NoRecord == "none"

\* The records of an action, those still to be written included.
Recorded(action) == log[action] + Cardinality({w \in Workers : pending[w] = action})

OutcomeAlways(w) ==
    CASE worker[w].pc = "createInsert" /\ nextId' # nextId -> "bucket.created"
      [] worker[w].pc = "bucketRow" -> "bucket.deleted"
      [] OTHER -> NoRecord

\* What a statement leaves to be recorded.  A conflict, and a delete that finds
\* its row gone (RowsAffected is 0), are errors and end the request instead.
Outcome(w) ==
    CASE worker[w].pc = "createInsert" /\ nextId' # nextId -> "bucket.created"
      [] worker[w].pc = "bucketRow" /\ buckets' # buckets -> "bucket.deleted"
      [] OTHER -> NoRecord

\* A row's settings come with its INSERT and go with it.
Columns ==
    IF DOMAIN buckets' \subseteq DOMAIN buckets
    THEN settings' = Restrict(settings, DOMAIN buckets')
    ELSE \E s \in Settings : settings' = Put(settings, nextId, s)

\* A call of a request, with the columns of the row it inserts or deletes.
Call(w) ==
    /\ pending[w] = NoRecord
    /\ Request(w) \/ Continue(w) \/ Abort(w)
    /\ Columns
    /\ pending' = [pending EXCEPT ![w] = Outcome(w)]
    /\ UNCHANGED <<log, bandwidth>>

\* Audit.Record, whose error the service ignores.
Record(w) ==
    /\ pending[w] # NoRecord
    /\ \/ log' = [log EXCEPT ![pending[w]] = @ + 1]
       \/ Faults /\ UNCHANGED log
    /\ pending' = [pending EXCEPT ![w] = NoRecord]
    /\ UNCHANGED <<vars, settings, bandwidth>>

UpdateInserts(u, b, s) == settings' = Put(settings, b, s)

\* UPDATE ... WHERE id AND user_id; without such a row ErrNotFound, and no
\* step.  A column the request does not name keeps its value.
Update(u, b, s) ==
    /\ Owns(u, b)
    /\ settings' = [settings EXCEPT ![b] = s]

\* The handler asks nothing before it updates.
UpdateBucket ==
    /\ \E u \in Users, b \in 1 .. nextId - 1, s \in Settings : Update(u, b, s)
    /\ UNCHANGED <<vars, log, pending, bandwidth>>

\* An event of table usage_events, whose error nobody sees.
RecordUsage(u, amount) == bandwidth' = [bandwidth EXCEPT ![u] = @ + amount]

\* Two reads, the event, and a URL to get the object with.  The bytes are those
\* a client will fetch from S3 and nobody knows yet: the event is of zero.
PresignDownload(u, b, k) ==
    /\ Owns(u, b)
    /\ <<b, k>> \in DOMAIN objects
    /\ RecordUsage(u, 0)

\* The calls of a download write nothing another call reads, so one step
\* stands for all of them.
Download ==
    /\ \E u \in Users, b \in DOMAIN buckets, k \in Keys : PresignDownload(u, b, k)
    /\ UNCHANGED <<vars, settings, log, pending>>

ServiceInit ==
    /\ Init
    /\ settings = [b \in {} |-> 0]
    /\ log = [a \in Actions |-> 0]
    /\ pending = [w \in Workers |-> NoRecord]
    /\ bandwidth = [u \in Users |-> 0]

ServiceNext ==
    \/ \E w \in Workers : Call(w) \/ Record(w)
    \/ UpdateBucket
    \/ Download
    \/ (ClientPut \/ UrlExpires) /\ UNCHANGED <<settings, log, pending, bandwidth>>

ServiceSpec == ServiceInit /\ [][ServiceNext]_serviceVars

-----------------------------------------------------------------------------

\* Every live bucket has its settings, and nothing else has; the log and the
\* requests that owe it a record know the two actions only; bandwidth is a sum.
ServiceTypeOK ==
    /\ settings \in [DOMAIN buckets -> Settings]
    /\ log \in [Actions -> Nat]
    /\ pending \in [Workers -> Actions \cup {NoRecord}]
    /\ bandwidth \in [Users -> Nat]

\* The log never tells of more than happened, though any number of requests may
\* delete the same bucket at once and their records come later: each bucket
\* ever created is live or was deleted once, and is recorded at most once as
\* either.
LogAgrees ==
    /\ Recorded("bucket.created") <= nextId - 1
    /\ Recorded("bucket.deleted") + Cardinality(DOMAIN buckets) <= nextId - 1
=============================================================================
