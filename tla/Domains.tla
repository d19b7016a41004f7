------------------------------- MODULE Domains --------------------------------
(***************************************************************************)
(* Custom domains (internal/domain/domain.go, repository/custom_domains.go)*)
(* over table custom_domains, the buckets its rows hang on and the DNS that*)
(* customers change as they like.  A worker is the goroutine of a request; *)
(* an action is one SQL statement or DNS lookup with the computation up to *)
(* the next one.                                                           *)
(*                                                                         *)
(* A domain is a model value, and so is what a user types for one; a TXT   *)
(* record with the prefix is known by the row whose id follows it.  A      *)
(* lookup that fails is one that finds nothing, so an unreachable resolver *)
(* is a change of the DNS.                                                 *)
(***************************************************************************)
EXTENDS Integers, FiniteSets, Sequences

CONSTANTS
    Users,
    Names,          \* valid domain names
    Inputs,         \* what is typed for one
    Typed,          \* by each user
    NormalForm,     \* of each input, None where no valid name is left
    SetUp,          \* those whose owners publish records and ask for a verification
    Buckets,        \* bucket ids
    BucketOwner,    \* the user of each bucket
    First,          \* the domains there are at first, with their buckets
    PlanLimit,      \* custom_domains_allowed of each user's plan; 0 for no limit
    Workers,
    MaxRows,        \* bound on the ids ever given
    MaxChanges,     \* bound on the changes of the DNS
    MaxSkips,       \* bound, per user, on the plans that cannot be read
    Faults,         \* whether calls may fail
    None

ASSUME DomainsAssumption ==
    /\ BucketOwner \in [Buckets -> Users]
    /\ PlanLimit \in [Users -> Nat]
    /\ IsFiniteSet(Workers) /\ Workers # {}
    /\ {MaxRows, MaxChanges} \subseteq Nat
    /\ MaxSkips \in [Users -> Nat]
    /\ Typed \in [Users -> SUBSET Inputs]
    /\ SetUp \subseteq Names
    /\ Faults \in BOOLEAN
    /\ First \in Seq([bucket : Buckets, name : Names])
    /\ \A i, j \in DOMAIN First : First[i].name = First[j].name => i = j
    /\ NormalForm \in [Inputs -> Names \cup {None}]
    /\ None \notin Names \cup Users \cup Buckets

\* No user is over the plan at first.
ASSUME WithinPlan ==
    \A u \in Users : PlanLimit[u] > 0 =>
        Cardinality({i \in DOMAIN First : BucketOwner[First[i].bucket] = u}) <= PlanLimit[u]

VARIABLES
    rows,       \* table custom_domains: id -> row
    nextId,     \* the next id; a UUID is never used again
    live,       \* buckets not yet deleted
    dns,        \* per name: whose id its TXT record names, and whether the CNAME
                \* is that of the CDN
    changes,    \* changes of the DNS so far
    worker,     \* per worker: its request
    checked,    \* history: ids one verification of which found both records
    proven,     \* history: those where the TXT record named the id
    skipped     \* history, per user: additions that went without a limit

tables == <<rows, nextId, live>>
outside == <<dns, changes>>
history == <<checked, proven, skipped>>
vars == <<tables, outside, worker, history>>

RowId == Nat \ {0}
Records == {"txt", "cname"}
NoRecords == [txt |-> {}, cname |-> FALSE]
Row == [user : Users, bucket : Buckets, name : Names,
        dns : {"pending", "verified", "failed"}, ssl : {"pending", "issued"}]

\* A domain whose verification has not been asked for.
NewRow(u, b, d) == [user |-> u, bucket |-> b, name |-> d, dns |-> "pending", ssl |-> "pending"]

\* The field own is history: the code keeps only whether a record was found.
Idle == [pc |-> "idle", user |-> None, bucket |-> None, name |-> None, id |-> 0,
         found |-> {}, own |-> FALSE]
PC == {"idle", "subscription", "plan", "count", "insert", "txt", "cname", "update"}

Goto(w, r) == worker' = [worker EXCEPT ![w] = r]
Advance(w, pc) == Goto(w, [worker[w] EXCEPT !.pc = pc])
Return(w) == Goto(w, Idle)

RowsOf(u) == {i \in DOMAIN rows : rows[i].user = u}
CountByUser(u) == Cardinality(RowsOf(u))
FindByDomain(d) == {i \in DOMAIN rows : rows[i].name = d}

-----------------------------------------------------------------------------
(* Add *)

\* Spaces, letters' case, the scheme, the path and a last dot do not matter.
normalizeDomain(d) == NormalForm[d]

validateDomain(d) == d \in Names

\* What a user's bucket names find.
FindByName(u) == {b \in live : BucketOwner[b] = u}

\* add finds the bucket by its name, and Add once more by its id.
Add(w) ==
    /\ worker[w].pc = "idle"
    /\ \E u \in Users : \E b \in FindByName(u), input \in Typed[u] :
        LET d == normalizeDomain(input)
        IN  /\ validateDomain(d)
            /\ Goto(w, [Idle EXCEPT !.pc = "subscription", !.user = u,
                                    !.bucket = b, !.name = d])
    /\ UNCHANGED <<tables, outside, history>>

\* planDomainLimit reads the subscription, then its plan.
FindByUser(w) ==
    /\ worker[w].pc = "subscription"
    /\ Advance(w, "plan")
    /\ UNCHANGED <<tables, outside, history>>

\* A limit of 0 is none.
ReadPlan(w) ==
    /\ worker[w].pc = "plan"
    /\ Advance(w, IF PlanLimit[worker[w].user] > 0 THEN "count" ELSE "insert")
    /\ UNCHANGED <<tables, outside, history>>

\* Neither is a plan that cannot be read, nor a subscription, for any reason.
SkipPlan(w) ==
    LET u == worker[w].user
    IN  /\ Faults
        /\ worker[w].pc \in {"subscription", "plan"}
        /\ skipped[u] < MaxSkips[u]
        /\ skipped' = [skipped EXCEPT ![u] = @ + 1]
        /\ Advance(w, "insert")
        /\ UNCHANGED <<tables, outside, checked, proven>>

FullOffByOne(u) == CountByUser(u) > PlanLimit[u]

Full(u) == CountByUser(u) >= PlanLimit[u]

CountDomains(w) ==
    /\ worker[w].pc = "count"
    /\ IF Full(worker[w].user) THEN Return(w) ELSE Advance(w, "insert")
    /\ UNCHANGED <<tables, outside, history>>

\* What PostgreSQL refuses: a name that has a row, and a bucket that has none.
IsUniqueViolation(d)     == FindByDomain(d) # {}
IsForeignKeyViolation(b) == b \notin live

CreatableUnreferenced(b, d) == ~IsUniqueViolation(d)

Creatable(b, d) == ~IsForeignKeyViolation(b) /\ ~IsUniqueViolation(d)

Create(w) ==
    LET r == worker[w]
        new == NewRow(r.user, r.bucket, r.name)
    IN  /\ r.pc = "insert"
        /\ nextId <= MaxRows
        /\ IF Creatable(r.bucket, r.name)
           THEN /\ rows' = [i \in DOMAIN rows \cup {nextId} |-> IF i = nextId THEN new ELSE rows[i]]
                /\ nextId' = nextId + 1
           ELSE UNCHANGED <<rows, nextId>>
        /\ Return(w)
        /\ UNCHANGED <<live, outside, history>>

-----------------------------------------------------------------------------
(* Verify, Delete and VerifyTLS *)

\* FindByID reads the row, in particular its name.
Verify(w) ==
    /\ worker[w].pc = "idle"
    /\ \E i \in DOMAIN rows :
        /\ rows[i].name \in SetUp
        /\ Goto(w, [Idle EXCEPT !.pc = "txt", !.user = rows[i].user, !.id = i, !.name = rows[i].name])
    /\ UNCHANGED <<tables, outside, history>>

\* What the two lookups find of a name: a TXT record with the prefix, whatever
\* follows it, and the CNAME.
Found(d) == {r \in Records : IF r = "txt" THEN dns[d].txt # {} ELSE dns[d].cname}

CheckTXT(w) ==
    LET r == worker[w]
    IN  /\ r.pc = "txt"
        /\ Goto(w, [r EXCEPT !.pc = "cname", !.found = Found(r.name) \cap {"txt"},
                             !.own = r.id \in dns[r.name].txt])
        /\ UNCHANGED <<tables, outside, history>>

CheckCNAME(w) ==
    LET r     == worker[w]
        found == r.found \cup (Found(r.name) \cap {"cname"})
        ids   == IF found = Records THEN {r.id} ELSE {}
    IN  /\ r.pc = "cname"
        /\ Goto(w, [r EXCEPT !.pc = "update", !.found = found])
        /\ checked' = checked \cup ids
        /\ proven' = IF r.own THEN proven \cup ids ELSE proven
        /\ UNCHANGED <<tables, outside, skipped>>

Status(found) == CASE found = Records -> "verified"
                   [] found = {}      -> "failed"
                   [] OTHER           -> "pending"

WrittenOnce(r, found) ==
    IF r.dns = "verified" THEN r
    ELSE [r EXCEPT !.dns = Status(found), !.ssl = IF found = Records THEN "issued" ELSE "pending"]

\* The row a verification leaves.
Written(r, found) ==
    [r EXCEPT !.dns = Status(found), !.ssl = IF found = Records THEN "issued" ELSE "pending"]

UpdateStatusByName(w) ==
    /\ worker[w].pc = "update"
    /\ rows' = [i \in DOMAIN rows |->
                    IF rows[i].name = worker[w].name THEN Written(rows[i], worker[w].found) ELSE rows[i]]
    /\ Return(w)
    /\ UNCHANGED <<nextId, live, outside, history>>

\* UPDATE ... WHERE id AND user_id; without such a row, ErrNotFound.
UpdateStatus(w) ==
    LET r == worker[w]
    IN  /\ r.pc = "update"
        /\ rows' = [i \in DOMAIN rows |->
                        IF i = r.id /\ rows[i].user = r.user THEN Written(rows[i], r.found) ELSE rows[i]]
        /\ Return(w)
        /\ UNCHANGED <<nextId, live, outside, history>>

Without(gone) == rows' = [i \in DOMAIN rows \ gone |-> rows[i]]

Delete ==
    /\ \E i \in DOMAIN rows : Without({i})
    /\ UNCHANGED <<nextId, live, outside, worker, history>>

\* The row of a name, if there is one and it is verified.
VerifyTLS(d) == {i \in FindByDomain(d) : rows[i].dns = "verified"}

\* What Caddy is answered when it asks, before it obtains a certificate for d.
verifyTLS(d) == IF VerifyTLS(d) = {} THEN 404 ELSE 200

-----------------------------------------------------------------------------
(* The surroundings *)

\* DELETE FROM buckets, and the cascade.
DropBucket(b) ==
    /\ b \in live
    /\ live' = live \ {b}
    /\ Without({i \in DOMAIN rows : rows[i].bucket = b})
    /\ UNCHANGED <<nextId, outside, worker, history>>

\* What the owner of a name may publish as its TXT record: what it has been told
\* of a row of that name, or nothing.
CNAMEInstructions(d) == {{}} \cup {{i} : i \in FindByDomain(d)}

\* A record stays until its owner removes it, whatever becomes of the row.
ChangeDNS(d) ==
    /\ changes < MaxChanges
    /\ \E txt \in CNAMEInstructions(d), cname \in BOOLEAN :
        /\ [txt |-> txt, cname |-> cname] # dns[d]
        /\ dns' = [dns EXCEPT ![d] = [txt |-> txt, cname |-> cname]]
    /\ changes' = changes + 1
    /\ UNCHANGED <<tables, worker, history>>

\* A call fails and the request is answered with the error.
Abort(w) ==
    /\ Faults
    /\ worker[w].pc # "idle"
    /\ Return(w)
    /\ UNCHANGED <<tables, outside, history>>

-----------------------------------------------------------------------------

Init ==
    /\ rows = [i \in DOMAIN First |-> NewRow(BucketOwner[First[i].bucket], First[i].bucket, First[i].name)]
    /\ nextId = Len(First) + 1 /\ live = Buckets
    /\ dns = [d \in Names |-> NoRecords] /\ changes = 0
    /\ worker = [w \in Workers |-> Idle]
    /\ checked = {} /\ proven = {} /\ skipped = [u \in Users |-> 0]

\* The steps of a request that has begun.
Continue(w) ==
    \/ FindByUser(w) \/ ReadPlan(w) \/ SkipPlan(w) \/ CountDomains(w) \/ Create(w)
    \/ CheckTXT(w) \/ CheckCNAME(w) \/ UpdateStatus(w)
    \/ Abort(w)

Next ==
    \/ \E w \in Workers : Add(w) \/ Verify(w) \/ Continue(w)
    \/ Delete
    \/ \E b \in Buckets : DropBucket(b)
    \/ \E d \in SetUp : ChangeDNS(d)

\* Goroutines run, and a lookup ends after its five seconds at the latest.
Spec == Init /\ [][Next]_vars /\ \A w \in Workers : WF_vars(Continue(w))

-----------------------------------------------------------------------------

\* The table has its columns and keeps its constraints: one row a name, on a
\* live bucket of the row's user; and a certificate is shown as issued for
\* verified domains only.
TypeOK ==
    /\ nextId \in RowId
    /\ DOMAIN rows \subseteq 1 .. nextId - 1
    /\ rows \in [DOMAIN rows -> Row]
    /\ \A i, j \in DOMAIN rows : rows[i].name = rows[j].name => i = j
    /\ \A i \in DOMAIN rows : /\ rows[i].bucket \in live
                              /\ BucketOwner[rows[i].bucket] = rows[i].user
                              /\ rows[i].ssl = "issued" <=> rows[i].dns = "verified"
    /\ live \subseteq Buckets
    /\ dns \in [Names -> [txt : SUBSET (1 .. nextId - 1), cname : BOOLEAN]] /\ changes \in Nat
    /\ worker \in [Workers -> [pc : PC, user : Users \cup {None}, bucket : Buckets \cup {None},
                               name : Names \cup {None}, id : Nat, found : SUBSET Records, own : BOOLEAN]]
    /\ proven \subseteq checked /\ checked \subseteq 1 .. nextId - 1
    /\ skipped \in [Users -> Nat]

\* Add counts and inserts in two statements (domain.go:95): the domains of a
\* user exceed the plan by the other goroutines at most, and by the additions
\* that could not read it.
OvershootBounded ==
    \A u \in Users : PlanLimit[u] > 0 =>
        CountByUser(u) <= PlanLimit[u] + Cardinality(Workers) - 1 + skipped[u]

\* Caddy is told to obtain a certificate only after one verification of the
\* very row it is told of found the prefix and the CNAME, although the name may be
\* deleted and registered again by someone else while a verification waits for
\* the DNS (domain.go:134-150).
VerifiedWasChecked ==
    \A d \in Names : verifyTLS(d) = 200 => FindByDomain(d) \subseteq checked

\* domain.go:127, "a TXT record proving ownership", and domain.go:188, "a TXT
\* record matching ExpectedPrefix+<id>": the record named the id of the row.
VerifiedWasProven ==
    \A d \in Names : verifyTLS(d) = 200 => FindByDomain(d) \subseteq proven

\* Of a row that is verified again and again after the DNS has settled, the
\* status is in the end what the DNS says (domain.go:150): an old answer
\* written late does not stay, and neither does an old success
\* (domain.go:170).
StatusConverges ==
    \A i \in 1 .. MaxRows :
        []<><<\E w \in Workers : worker[w].id = i /\ UpdateStatus(w)>>_vars
            => <>[](i \in DOMAIN rows => rows[i].dns = Status(Found(rows[i].name)))
=============================================================================
