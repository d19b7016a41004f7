---------------------------- MODULE Domains_proofs ----------------------------
(* Theorems about Domains, for every number of users, names, buckets and   *)
(* request goroutines.                                                     *)
EXTENDS Domains, FiniteSetTheorems, TLAPS

Adding    == {"subscription", "plan", "count", "insert"}
Verifying == {"txt", "cname", "update"}

\* What a request in progress is about is set, and the one that is about to
\* write "verified" found both records for the row it will write.
RequestsOK ==
    \A w \in Workers :
        /\ worker[w].pc \in Adding =>
              /\ worker[w].bucket \in Buckets
              /\ worker[w].user = BucketOwner[worker[w].bucket]
              /\ worker[w].name \in Names
        /\ worker[w].pc \in Verifying =>
              /\ worker[w].id \in 1 .. nextId - 1
              /\ worker[w].name \in Names
        /\ worker[w].pc = "update" /\ worker[w].found = Records => worker[w].id \in checked

RowsChecked == \A i \in DOMAIN rows : rows[i].dns = "verified" => i \in checked

IInv == TypeOK /\ RequestsOK /\ RowsChecked

Request == [pc : PC, user : Users \cup {None}, bucket : Buckets \cup {None},
            name : Names \cup {None}, id : Nat, found : SUBSET Records, own : BOOLEAN]

LEMMA Elements ==
    ASSUME NEW S, NEW s \in Seq(S)
    PROVE  /\ Len(s) \in Nat /\ DOMAIN s = 1 .. Len(s)
           /\ \A i \in DOMAIN s : s[i] \in S
OBVIOUS

LEMMA InitInv == Init => IInv
<1> SUFFICES ASSUME Init PROVE IInv
  OBVIOUS
<1>1. Idle \in Request
  BY DEF Idle, Request, PC
<1>2. worker \in [Workers -> Request]
  BY <1>1 DEF Init
<1>3. dns \in [Names -> [txt : SUBSET (1 .. nextId - 1), cname : BOOLEAN]]
  BY DEF Init, NoRecords
<1>4. /\ nextId \in RowId
      /\ DOMAIN rows = DOMAIN First /\ DOMAIN rows = 1 .. nextId - 1
  <2>1. Len(First) \in Nat /\ DOMAIN First = 1 .. Len(First)
    BY DomainsAssumption, Elements
  <2> QED BY <2>1 DEF Init, RowId
<1>5. ASSUME NEW i \in DOMAIN rows
      PROVE  /\ rows[i] \in Row
             /\ rows[i].name = First[i].name /\ rows[i].dns = "pending" /\ rows[i].ssl = "pending"
             /\ rows[i].bucket \in live /\ BucketOwner[rows[i].bucket] = rows[i].user
  <2>3. First \in Seq([bucket : Buckets, name : Names])
    BY DomainsAssumption
  <2>4. First[i] \in [bucket : Buckets, name : Names]
    BY <1>4, <2>3, Elements
  <2>1. First[i].bucket \in Buckets /\ First[i].name \in Names
    BY <2>4
  <2>2. rows[i] = NewRow(BucketOwner[First[i].bucket], First[i].bucket, First[i].name)
    BY <1>4 DEF Init
  <2> QED BY <2>1, <2>2, DomainsAssumption DEF Init, Row, NewRow
<1>6. rows \in [DOMAIN rows -> Row]
  BY <1>5 DEF Init
<1>7. \A i, j \in DOMAIN rows : rows[i].name = rows[j].name => i = j
  BY <1>4, <1>5, DomainsAssumption
<1>8. TypeOK
  BY <1>2, <1>3, <1>4, <1>5, <1>6, <1>7 DEF Init, TypeOK, Request
<1>9. RequestsOK /\ RowsChecked
  BY <1>5 DEF Init, RequestsOK, RowsChecked, Idle, Adding, Verifying
<1> QED BY <1>8, <1>9 DEF IInv

\* A step that leaves the table alone and moves one request keeps all of IInv
\* but what it says of that request.
LEMMA MoveKeeps ==
    ASSUME IInv, NEW w \in Workers, NEW r \in Request, Goto(w, r),
           UNCHANGED <<tables, dns>>, changes' \in Nat, skipped' \in [Users -> Nat],
           checked \subseteq checked', checked' \subseteq 1 .. nextId - 1, proven' \subseteq checked',
           r.pc \in Adding => /\ r.bucket \in Buckets
                              /\ r.user = BucketOwner[r.bucket]
                              /\ r.name \in Names,
           r.pc \in Verifying => r.id \in 1 .. nextId - 1 /\ r.name \in Names,
           r.pc = "update" /\ r.found = Records => r.id \in checked'
    PROVE  IInv'
<1>1. worker \in [Workers -> Request] /\ worker' = [worker EXCEPT ![w] = r]
  BY DEF IInv, TypeOK, Request, Goto
<1>2. worker' \in [Workers -> Request] /\ worker'[w] = r
      /\ \A v \in Workers : v # w => worker'[v] = worker[v]
  BY <1>1
<1>3. TypeOK'
  BY <1>2 DEF IInv, TypeOK, Request, tables
<1>4. RequestsOK'
  BY <1>2 DEF IInv, RequestsOK, tables
<1>5. RowsChecked'
  BY DEF IInv, RowsChecked, tables
<1> QED BY <1>3, <1>4, <1>5 DEF IInv

LEMMA AddingStep ==
    ASSUME IInv, NEW w \in Workers,
           Add(w) \/ FindByUser(w) \/ ReadPlan(w) \/ SkipPlan(w) \/ CountDomains(w)
    PROVE  IInv'
<1>1. Idle \in Request /\ Idle.pc \notin Adding \cup Verifying
  BY DEF Idle, Request, PC, Adding, Verifying
<1>2. worker[w] \in Request
  BY DEF IInv, TypeOK, Request
<1>3. changes \in Nat /\ skipped \in [Users -> Nat] /\ checked \subseteq 1 .. nextId - 1
      /\ proven \subseteq checked
  BY DEF IInv, TypeOK
<1>4. ASSUME NEW pc \in Adding, Advance(w, pc), UNCHANGED <<tables, outside, checked, proven>>,
             worker[w].pc \in Adding, skipped' \in [Users -> Nat]
      PROVE  IInv'
  <2> DEFINE r == [worker[w] EXCEPT !.pc = pc]
  <2>1. r \in Request /\ r.pc = pc
    BY <1>2 DEF Request, PC, Adding
  <2>2. r.bucket = worker[w].bucket /\ r.user = worker[w].user /\ r.name = worker[w].name
    BY <1>2 DEF Request
  <2>3. Goto(w, r)
    BY <1>4 DEF Advance
  <2>4. pc \notin Verifying
    BY DEF Adding, Verifying
  <2> HIDE DEF r
  <2> QED
    BY <2>1, <2>2, <2>3, <2>4, <1>3, <1>4, MoveKeeps DEF IInv, RequestsOK, outside, Verifying
<1>5. CASE Add(w)
  <2>1. PICK b \in live, d \in Names :
            Goto(w, [Idle EXCEPT !.pc = "subscription", !.user = BucketOwner[b],
                                 !.bucket = b, !.name = d])
    BY <1>5 DEF Add, FindByName, validateDomain
  <2> DEFINE r == [Idle EXCEPT !.pc = "subscription", !.user = BucketOwner[b],
                               !.bucket = b, !.name = d]
  <2>2. b \in Buckets /\ BucketOwner[b] \in Users
    BY DomainsAssumption DEF IInv, TypeOK
  <2>3. /\ r \in Request /\ r.pc = "subscription"
        /\ r.bucket = b /\ r.user = BucketOwner[b] /\ r.name = d
    BY <2>2 DEF Idle, Request, PC
  <2>4. Goto(w, r)
    BY <2>1
  <2> HIDE DEF r
  <2> QED BY <2>2, <2>3, <2>4, <1>3, <1>5, MoveKeeps DEF Add, FindByName, outside, history, Verifying
<1>6. CASE ReadPlan(w)
  <2>1. PICK pc \in {"count", "insert"} : Advance(w, pc)
    BY <1>6 DEF ReadPlan
  <2> QED BY <2>1, <1>3, <1>4, <1>6 DEF ReadPlan, history, Adding
<1>7. CASE SkipPlan(w)
  <2>1. worker[w].user \in Users
    BY <1>7, DomainsAssumption DEF SkipPlan, IInv, RequestsOK, Adding
  <2>2. skipped' \in [Users -> Nat]
    BY <2>1, <1>3, <1>7 DEF SkipPlan
  <2> QED BY <2>2, <1>4, <1>7 DEF SkipPlan, Adding
<1>8. CASE FindByUser(w)
  BY <1>3, <1>4, <1>8 DEF FindByUser, history, Adding
<1>9. CASE CountDomains(w)
  <2>1. CASE Return(w)
    BY <2>1, <1>1, <1>3, <1>9, MoveKeeps DEF CountDomains, Return, outside, history, Verifying
  <2>2. CASE Advance(w, "insert")
    BY <2>2, <1>3, <1>4, <1>9 DEF CountDomains, history, Adding
  <2> QED BY <2>1, <2>2, <1>9 DEF CountDomains
<1> QED BY <1>5, <1>6, <1>7, <1>8, <1>9

LEMMA VerifyingStep ==
    ASSUME IInv, NEW w \in Workers, Verify(w) \/ CheckTXT(w) \/ CheckCNAME(w) \/ Abort(w)
    PROVE  IInv'
<1>1. Idle \in Request /\ Idle.pc \notin Adding \cup Verifying
  BY DEF Idle, Request, PC, Adding, Verifying
<1>2. worker[w] \in Request
  BY DEF IInv, TypeOK, Request
<1>3. changes \in Nat /\ skipped \in [Users -> Nat] /\ checked \subseteq 1 .. nextId - 1
      /\ proven \subseteq checked
  BY DEF IInv, TypeOK
<1>4. CASE Verify(w)
  <2>1. PICK i \in DOMAIN rows :
            Goto(w, [Idle EXCEPT !.pc = "txt", !.user = rows[i].user, !.id = i, !.name = rows[i].name])
    BY <1>4 DEF Verify
  <2> DEFINE r == [Idle EXCEPT !.pc = "txt", !.user = rows[i].user, !.id = i, !.name = rows[i].name]
  <2>2. i \in 1 .. nextId - 1 /\ nextId \in Nat /\ rows[i].user \in Users /\ rows[i].name \in Names
    BY DEF IInv, TypeOK, Row, RowId
  <2>6. i \in Nat
    BY <2>2
  <2>3. r.pc = "txt" /\ r.id = i /\ r.name = rows[i].name
    BY DEF Idle
  <2>5. r \in Request
    BY <1>1, <2>2, <2>6 DEF Request, PC
  <2>4. Goto(w, r)
    BY <2>1
  <2> HIDE DEF r
  <2> QED BY <2>2, <2>3, <2>4, <2>5, <1>3, <1>4, MoveKeeps DEF Verify, outside, history, Adding
<1>5. CASE CheckTXT(w)
  <2> DEFINE f == Found(worker[w].name) \cap {"txt"}
             o == worker[w].id \in dns[worker[w].name].txt
             r == [worker[w] EXCEPT !.pc = "cname", !.found = f, !.own = o]
  <2>3. f \subseteq Records /\ o \in BOOLEAN
    BY DEF Records
  <2>2. Goto(w, r)
    BY <1>5 DEF CheckTXT
  <2> HIDE DEF f, o
  <2>1. r \in Request /\ r.pc = "cname" /\ r.id = worker[w].id /\ r.name = worker[w].name
    BY <1>2, <2>3 DEF Request, PC
  <2> HIDE DEF r
  <2> QED
    BY <2>1, <2>2, <1>3, <1>5, MoveKeeps
    DEF CheckTXT, outside, history, Adding, Verifying, IInv, RequestsOK
<1>6. CASE CheckCNAME(w)
  <2> DEFINE f == worker[w].found \cup (Found(worker[w].name) \cap {"cname"})
             r == [worker[w] EXCEPT !.pc = "update", !.found = f]
  <2>1. /\ r \in Request /\ r.pc = "update" /\ r.id = worker[w].id
        /\ r.name = worker[w].name /\ r.found = f
    BY <1>2 DEF Request, PC, Records
  <2>2. Goto(w, r)
    BY <1>6 DEF CheckCNAME
  <2>3. worker[w].id \in 1 .. nextId - 1 /\ worker[w].name \in Names
    BY <1>6 DEF CheckCNAME, IInv, RequestsOK, Verifying
  <2>4. /\ checked' = checked \cup (IF f = Records THEN {worker[w].id} ELSE {})
        /\ proven' \subseteq proven \cup (IF f = Records THEN {worker[w].id} ELSE {})
    BY <1>6 DEF CheckCNAME
  <2>5. UNCHANGED <<tables, dns, changes, skipped>>
    BY <1>6 DEF CheckCNAME, outside
  <2> HIDE DEF r, f
  <2> QED BY <2>1, <2>2, <2>3, <2>4, <2>5, <1>3, MoveKeeps DEF Adding
<1>7. CASE Abort(w)
  BY <1>1, <1>3, <1>7, MoveKeeps DEF Abort, Return, outside, history, Verifying
<1> QED BY <1>4, <1>5, <1>6, <1>7

\* The tables change, and at most one request ends.
LEMMA TableStep ==
    ASSUME IInv,
           worker' \in [Workers -> Request],
           \A v \in Workers : worker'[v] = worker[v] \/ worker'[v] = Idle,
           nextId' \in RowId, nextId <= nextId', live' \subseteq Buckets,
           UNCHANGED <<outside, history>>,
           DOMAIN rows' \subseteq 1 .. nextId' - 1, rows' \in [DOMAIN rows' -> Row],
           \A i, j \in DOMAIN rows' : rows'[i].name = rows'[j].name => i = j,
           \A i \in DOMAIN rows' : /\ rows'[i].bucket \in live'
                                   /\ BucketOwner[rows'[i].bucket] = rows'[i].user
                                   /\ rows'[i].ssl = "issued" <=> rows'[i].dns = "verified"
                                   /\ rows'[i].dns = "verified" => i \in checked
    PROVE  IInv'
<1>1. nextId \in Nat /\ nextId' \in Nat
  BY DEF IInv, TypeOK, RowId
<1>2. TypeOK'
  <2>1. 1 .. nextId - 1 \subseteq 1 .. nextId' - 1
    BY <1>1
  <2>2. /\ dns' \in [Names -> [txt : SUBSET (1 .. nextId' - 1), cname : BOOLEAN]]
        /\ proven' \subseteq checked' /\ checked' \subseteq 1 .. nextId' - 1
    BY <2>1 DEF IInv, TypeOK, outside, history
  <2> QED BY <2>2 DEF IInv, TypeOK, Request, outside, history
<1>3. RequestsOK'
  BY <1>1 DEF IInv, RequestsOK, history, Idle, Adding, Verifying
<1>4. RowsChecked'
  BY DEF RowsChecked, history
<1> QED BY <1>2, <1>3, <1>4 DEF IInv

LEMMA IdleRequest ==
    ASSUME IInv, NEW w \in Workers, Return(w)
    PROVE  /\ worker' \in [Workers -> Request]
           /\ \A v \in Workers : worker'[v] = worker[v] \/ worker'[v] = Idle
<1>1. Idle \in Request
  BY DEF Idle, Request, PC
<1> QED BY <1>1 DEF IInv, TypeOK, Request, Return, Goto

LEMMA CreateStep == ASSUME IInv, NEW w \in Workers, Create(w) PROVE IInv'
<1> USE DEF IInv, TypeOK, RowId
<1>1. /\ worker' \in [Workers -> Request]
      /\ \A v \in Workers : worker'[v] = worker[v] \/ worker'[v] = Idle
  BY IdleRequest DEF Create
<1>2. UNCHANGED <<live, outside, history>>
  BY DEF Create
<1>3. CASE UNCHANGED <<rows, nextId>>
  BY <1>1, <1>2, <1>3, TableStep DEF RowsChecked
<1>4. CASE Creatable(worker[w].bucket, worker[w].name)
  <2> DEFINE new == NewRow(worker[w].user, worker[w].bucket, worker[w].name)
  <2>1. /\ rows' = [i \in DOMAIN rows \cup {nextId} |-> IF i = nextId THEN new ELSE rows[i]]
        /\ nextId' = nextId + 1
    BY <1>4 DEF Create
  <2>2. /\ worker[w].bucket \in Buckets /\ worker[w].user = BucketOwner[worker[w].bucket]
        /\ worker[w].name \in Names
    BY DEF RequestsOK, Create, Adding
  <2>3. /\ new \in Row /\ new.bucket = worker[w].bucket /\ new.user = worker[w].user
        /\ new.name = worker[w].name /\ new.dns = "pending" /\ new.ssl = "pending"
    BY <2>2, DomainsAssumption DEF Row, NewRow
  <2>4. worker[w].bucket \in live /\ \A i \in DOMAIN rows : rows[i].name # worker[w].name
    BY <1>4 DEF Creatable, IsUniqueViolation, IsForeignKeyViolation, FindByDomain
  <2>5. nextId \notin DOMAIN rows
    OBVIOUS
  <2> HIDE DEF new
  <2>6. /\ DOMAIN rows' = DOMAIN rows \cup {nextId}
        /\ rows'[nextId] = new
        /\ \A i \in DOMAIN rows : rows'[i] = rows[i]
    BY <2>1, <2>5
  <2>7. DOMAIN rows' \subseteq 1 .. nextId' - 1
    BY <2>1, <2>6
  <2>8. rows' \in [DOMAIN rows' -> Row]
    BY <2>1, <2>3
  <2>9. \A i, j \in DOMAIN rows' : rows'[i].name = rows'[j].name => i = j
    BY <2>3, <2>4, <2>6
  <2>10. \A i \in DOMAIN rows' : /\ rows'[i].bucket \in live
                                 /\ BucketOwner[rows'[i].bucket] = rows'[i].user
                                 /\ rows'[i].ssl = "issued" <=> rows'[i].dns = "verified"
                                 /\ rows'[i].dns = "verified" => i \in checked
    BY <2>2, <2>3, <2>4, <2>6 DEF RowsChecked
  <2>11. nextId' \in Nat \ {0} /\ nextId <= nextId'
    BY <2>1
  <2> QED BY <2>7, <2>8, <2>9, <2>10, <2>11, <1>1, <1>2, TableStep
<1> QED BY <1>3, <1>4 DEF Create

LEMMA UpdateStatusStep == ASSUME IInv, NEW w \in Workers, UpdateStatus(w) PROVE IInv'
<1> USE DEF IInv, TypeOK, RowId
<1>1. /\ worker' \in [Workers -> Request]
      /\ \A v \in Workers : worker'[v] = worker[v] \/ worker'[v] = Idle
  BY IdleRequest DEF UpdateStatus
<1>2. UNCHANGED <<nextId, live, outside, history>>
  BY DEF UpdateStatus
<1>3. DOMAIN rows' = DOMAIN rows
  BY DEF UpdateStatus
<1>4. ASSUME NEW i \in DOMAIN rows
      PROVE  \/ rows'[i] = rows[i]
             \/ i = worker[w].id /\ rows'[i] = Written(rows[i], worker[w].found)
  BY DEF UpdateStatus
<1>5. ASSUME NEW i \in DOMAIN rows
      PROVE  /\ rows'[i] \in Row
             /\ rows'[i].name = rows[i].name /\ rows'[i].bucket = rows[i].bucket
             /\ rows'[i].user = rows[i].user
             /\ rows'[i].ssl = "issued" <=> rows'[i].dns = "verified"
             /\ rows'[i].dns = "verified" => i \in checked
  <2>1. CASE rows'[i] = rows[i]
    BY <2>1 DEF RowsChecked
  <2>2. CASE i = worker[w].id /\ rows'[i] = Written(rows[i], worker[w].found)
    <3>1. rows[i] \in Row
      OBVIOUS
    <3>2. Status(worker[w].found) \in {"pending", "verified", "failed"}
          /\ (Status(worker[w].found) = "verified" <=> worker[w].found = Records)
      BY DEF Status, Records
    <3>3. worker[w].found = Records => i \in checked
      BY <2>2 DEF RequestsOK, UpdateStatus
    <3> QED BY <2>2, <3>1, <3>2, <3>3 DEF Written, Row
  <2> QED BY <2>1, <2>2, <1>4
<1>6. rows' \in [DOMAIN rows' -> Row]
  BY <1>5 DEF UpdateStatus
<1>7. nextId' \in RowId /\ nextId <= nextId'
  BY <1>2
<1> QED BY <1>1, <1>2, <1>3, <1>5, <1>6, <1>7, TableStep

LEMMA WithoutStep ==
    ASSUME IInv, NEW gone, Without(gone), UNCHANGED <<nextId, outside, worker, history>>,
           live' \subseteq live,
           \A i \in DOMAIN rows : rows[i].bucket \in live' \/ i \in gone
    PROVE  IInv'
<1> USE DEF IInv, TypeOK, RowId
<1>1. DOMAIN rows' = DOMAIN rows \ gone /\ \A i \in DOMAIN rows' : rows'[i] = rows[i]
  BY DEF Without
<1>2. rows' \in [DOMAIN rows' -> Row]
  BY <1>1 DEF Without
<1>3. worker' \in [Workers -> Request]
  BY DEF Request
<1> QED BY <1>1, <1>2, <1>3, TableStep DEF RowsChecked

LEMMA InvStep == IInv /\ [Next]_vars => IInv'
<1> SUFFICES ASSUME IInv, [Next]_vars PROVE IInv'
  OBVIOUS
<1>1. CASE UNCHANGED vars
  BY <1>1
  DEF vars, tables, outside, history, IInv, TypeOK, RequestsOK, RowsChecked
<1>2. ASSUME NEW w \in Workers, Add(w) \/ Verify(w) \/ Continue(w) PROVE IInv'
  BY <1>2, AddingStep, VerifyingStep, CreateStep, UpdateStatusStep DEF Continue
<1>3. CASE Delete
  <2>1. PICK i \in DOMAIN rows : Without({i})
    BY <1>3 DEF Delete
  <2> QED BY <2>1, <1>3, WithoutStep DEF Delete, IInv, TypeOK
<1>4. ASSUME NEW b \in Buckets, DropBucket(b) PROVE IInv'
  <2> DEFINE gone == {i \in DOMAIN rows : rows[i].bucket = b}
  <2>1. Without(gone) /\ live' = live \ {b} /\ UNCHANGED <<nextId, outside, worker, history>>
    BY <1>4 DEF DropBucket
  <2>2. \A i \in DOMAIN rows : rows[i].bucket \in live' \/ i \in gone
    BY <2>1 DEF IInv, TypeOK
  <2> HIDE DEF gone
  <2> QED BY <2>1, <2>2, WithoutStep
<1>5. ASSUME NEW d \in SetUp, ChangeDNS(d) PROVE IInv'
  <2>1. PICK txt \in CNAMEInstructions(d), cname \in BOOLEAN :
            dns' = [dns EXCEPT ![d] = [txt |-> txt, cname |-> cname]]
    BY <1>5 DEF ChangeDNS
  <2>2. changes' \in Nat
    BY <1>5 DEF ChangeDNS, IInv, TypeOK
  <2>3. dns' \in [Names -> [txt : SUBSET (1 .. nextId' - 1), cname : BOOLEAN]]
    <3>1. txt \subseteq 1 .. nextId - 1
      BY DEF CNAMEInstructions, FindByDomain, IInv, TypeOK
    <3>2. nextId' = nextId
      BY <1>5 DEF ChangeDNS, tables
    <3> QED BY <2>1, <3>1, <3>2 DEF IInv, TypeOK
  <2>4. TypeOK'
    BY <2>2, <2>3, <1>5 DEF ChangeDNS, IInv, TypeOK, tables, history
  <2>5. RequestsOK' /\ RowsChecked'
    BY <1>5 DEF ChangeDNS, IInv, RequestsOK, RowsChecked, tables, history
  <2> QED BY <2>4, <2>5 DEF IInv
<1> QED BY <1>1, <1>2, <1>3, <1>4, <1>5 DEF Next

\* The inductive invariant: the typing, what a request in progress knows, and
\* that verified rows were checked.
THEOREM Invariance == Spec => []IInv
BY InitInv, InvStep, PTL DEF Spec

\* The table keeps its columns and constraints: one row a name, on a live
\* bucket of the row's user, and a certificate is shown for verified rows only.
THEOREM DomainsTyped == Spec => []TypeOK
<1>1. IInv => TypeOK
  BY DEF IInv
<1> QED BY <1>1, Invariance, PTL

\* Caddy is told to obtain a certificate only for a row one verification of
\* which found both records, however many verifications wait for the DNS while
\* names are deleted and registered again.
THEOREM VerifiedWasCheckedHolds == Spec => []VerifiedWasChecked
<1>1. IInv => VerifiedWasChecked
  <2> SUFFICES ASSUME IInv, NEW d \in Names, verifyTLS(d) = 200, NEW i \in FindByDomain(d)
               PROVE  i \in checked
    BY DEF VerifiedWasChecked
  <2>1. PICK j \in FindByDomain(d) : rows[j].dns = "verified"
    BY DEF verifyTLS, VerifyTLS
  <2>2. i = j
    BY <2>1 DEF IInv, TypeOK, FindByDomain
  <2> QED BY <2>1, <2>2 DEF IInv, RowsChecked, FindByDomain
<1> QED BY <1>1, Invariance, PTL

-----------------------------------------------------------------------------
(* How far a user's domains exceed the plan.                               *)

\* The requests past the check of the limit.
Inserting(u) == {w \in Workers : worker[w].pc = "insert" /\ worker[w].user = u}

Counted ==
    \A u \in Users : PlanLimit[u] > 0 =>
        CountByUser(u) + Cardinality(Inserting(u))
            <= PlanLimit[u] + Cardinality(Workers) - 1 + skipped[u]

LEMMA FiniteRows ==
    ASSUME NEW n \in Nat, NEW S \in SUBSET (1 .. n - 1)
    PROVE  IsFiniteSet(S) /\ Cardinality(S) \in Nat
<1>1. IsFiniteSet(1 .. n - 1)
  BY FS_Interval
<1> QED BY <1>1, FS_Subset, FS_CardinalityType

LEMMA FiniteWorkers ==
    ASSUME NEW S \in SUBSET Workers
    PROVE  /\ IsFiniteSet(S) /\ Cardinality(S) \in Nat /\ Cardinality(S) <= Cardinality(Workers)
           /\ Cardinality(Workers) \in Nat
BY DomainsAssumption, FS_Subset, FS_CardinalityType

\* What Counted speaks of are numbers.
LEMMA Sizes ==
    ASSUME IInv, NEW u \in Users
    PROVE  /\ IsFiniteSet(RowsOf(u)) /\ CountByUser(u) \in Nat
           /\ IsFiniteSet(Inserting(u)) /\ Cardinality(Inserting(u)) \in Nat
           /\ Cardinality(Workers) \in Nat /\ PlanLimit[u] \in Nat /\ skipped[u] \in Nat
<1>1. nextId \in Nat /\ RowsOf(u) \in SUBSET (1 .. nextId - 1)
  BY DEF IInv, TypeOK, RowId, RowsOf
<1>2. IsFiniteSet(RowsOf(u)) /\ Cardinality(RowsOf(u)) \in Nat
  BY <1>1, FiniteRows
<1>3. Inserting(u) \in SUBSET Workers
  BY DEF Inserting
<1>4. /\ IsFiniteSet(Inserting(u)) /\ Cardinality(Inserting(u)) \in Nat
      /\ Cardinality(Workers) \in Nat
  BY <1>3, FiniteWorkers
<1> QED BY <1>2, <1>4, DomainsAssumption DEF CountByUser, IInv, TypeOK

\* A step that adds neither a row of the user nor a request about to insert one.
LEMMA CountedFrame ==
    ASSUME IInv, IInv', NEW u \in Users, PlanLimit[u] > 0, Counted,
           RowsOf(u)' \subseteq RowsOf(u), Inserting(u)' \subseteq Inserting(u),
           skipped'[u] = skipped[u]
    PROVE  CountByUser(u)' + Cardinality(Inserting(u)')
               <= PlanLimit[u] + Cardinality(Workers) - 1 + skipped'[u]
<1>1. /\ IsFiniteSet(RowsOf(u)) /\ CountByUser(u) \in Nat
      /\ IsFiniteSet(Inserting(u)) /\ Cardinality(Inserting(u)) \in Nat
      /\ Cardinality(Workers) \in Nat /\ PlanLimit[u] \in Nat /\ skipped[u] \in Nat
  BY Sizes
<1>2. CountByUser(u)' \in Nat /\ Cardinality(Inserting(u)') \in Nat
  <2>1. CountByUser(u)' \in Nat
    <3>1. nextId' \in Nat /\ RowsOf(u)' \in SUBSET (1 .. nextId' - 1)
      BY DEF IInv, TypeOK, RowId, RowsOf
    <3> QED BY <3>1, FiniteRows DEF CountByUser
  <2>2. Inserting(u)' \in SUBSET Workers
    BY DEF Inserting
  <2> QED BY <2>1, <2>2, FiniteWorkers
<1>3. CountByUser(u)' <= CountByUser(u)
  BY <1>1, FS_Subset DEF CountByUser
<1>4. Cardinality(Inserting(u)') <= Cardinality(Inserting(u))
  BY <1>1, FS_Subset
<1>5. CountByUser(u) + Cardinality(Inserting(u))
          <= PlanLimit[u] + Cardinality(Workers) - 1 + skipped[u]
  BY DEF Counted
<1> QED BY <1>1, <1>2, <1>3, <1>4, <1>5

\* A request moves to where it is not about to insert.
LEMMA MovesAway ==
    ASSUME IInv, NEW w \in Workers, NEW r, Goto(w, r), r.pc # "insert", NEW u
    PROVE  Inserting(u)' \subseteq Inserting(u)
BY DEF IInv, TypeOK, Goto, Inserting

LEMMA SameRows == ASSUME UNCHANGED rows, NEW u PROVE RowsOf(u)' = RowsOf(u) /\ CountByUser(u)' = CountByUser(u)
BY DEF RowsOf, CountByUser

LEMMA CountedStep ==
    ASSUME IInv, Counted, [Next]_vars
    PROVE  Counted'
<1>0. IInv'
  BY InvStep
<1> SUFFICES ASSUME NEW u \in Users, PlanLimit[u] > 0
             PROVE  CountByUser(u)' + Cardinality(Inserting(u)')
                        <= PlanLimit[u] + Cardinality(Workers) - 1 + skipped'[u]
  BY DEF Counted
<1>1. /\ IsFiniteSet(RowsOf(u)) /\ CountByUser(u) \in Nat
      /\ IsFiniteSet(Inserting(u)) /\ Cardinality(Inserting(u)) \in Nat
      /\ Cardinality(Workers) \in Nat /\ PlanLimit[u] \in Nat /\ skipped[u] \in Nat
  BY Sizes
<1>2. CountByUser(u) + Cardinality(Inserting(u))
          <= PlanLimit[u] + Cardinality(Workers) - 1 + skipped[u]
  BY DEF Counted
<1>3. ASSUME NEW w \in Workers, Add(w) \/ Verify(w) PROVE
          CountByUser(u)' + Cardinality(Inserting(u)')
              <= PlanLimit[u] + Cardinality(Workers) - 1 + skipped'[u]
  <2>1. UNCHANGED <<rows, skipped>>
    BY <1>3 DEF Add, Verify, tables, history
  <2>2. PICK r : Goto(w, r) /\ r.pc \in {"subscription", "txt"}
    <3>1. CASE Add(w)
      <4>1. PICK b \in live, d \in Names :
                Goto(w, [Idle EXCEPT !.pc = "subscription", !.user = BucketOwner[b],
                                     !.bucket = b, !.name = d])
        BY <3>1 DEF Add, FindByName, validateDomain
      <4>2. [Idle EXCEPT !.pc = "subscription", !.user = BucketOwner[b],
                         !.bucket = b, !.name = d].pc = "subscription"
        BY DEF Idle
      <4> QED BY <4>1, <4>2
    <3>2. CASE Verify(w)
      <4>1. PICK i \in DOMAIN rows :
                Goto(w, [Idle EXCEPT !.pc = "txt", !.user = rows[i].user, !.id = i, !.name = rows[i].name])
        BY <3>2 DEF Verify
      <4>2. [Idle EXCEPT !.pc = "txt", !.user = rows[i].user, !.id = i, !.name = rows[i].name].pc = "txt"
        BY DEF Idle
      <4> QED BY <4>1, <4>2
    <3> QED BY <1>3, <3>1, <3>2
  <2>3. Inserting(u)' \subseteq Inserting(u)
    BY <2>2, MovesAway
  <2> QED BY <1>0, <2>1, <2>3, SameRows, CountedFrame
<1>4. ASSUME NEW w \in Workers, FindByUser(w) \/ ReadPlan(w) PROVE
          CountByUser(u)' + Cardinality(Inserting(u)')
              <= PlanLimit[u] + Cardinality(Workers) - 1 + skipped'[u]
  <2>1. UNCHANGED <<rows, skipped>>
    BY <1>4 DEF FindByUser, ReadPlan, tables, history
  <2>2. Inserting(u)' \subseteq Inserting(u)
    BY <1>4 DEF FindByUser, ReadPlan, Advance, Goto, Inserting, IInv, TypeOK
  <2> QED BY <1>0, <2>1, <2>2, SameRows, CountedFrame
<1>5. ASSUME NEW w \in Workers, SkipPlan(w) PROVE
          CountByUser(u)' + Cardinality(Inserting(u)')
              <= PlanLimit[u] + Cardinality(Workers) - 1 + skipped'[u]
  <2>1. UNCHANGED rows /\ skipped' = [skipped EXCEPT ![worker[w].user] = skipped[worker[w].user] + 1]
        /\ skipped \in [Users -> Nat]
    BY <1>5 DEF SkipPlan, tables, IInv, TypeOK
  <2>2. CASE worker[w].user # u
    <3>1. Inserting(u)' \subseteq Inserting(u) /\ skipped'[u] = skipped[u]
      BY <1>5, <2>1, <2>2 DEF SkipPlan, Advance, Goto, Inserting, IInv, TypeOK
    <3> QED BY <1>0, <2>1, <3>1, SameRows, CountedFrame
  <2>3. CASE worker[w].user = u
    <3>1. skipped'[u] = skipped[u] + 1
      BY <2>1, <2>3
    <3>2. Inserting(u)' = Inserting(u) \cup {w} /\ w \notin Inserting(u)
      BY <1>5, <2>3 DEF SkipPlan, Advance, Goto, Inserting, IInv, TypeOK
    <3>3. Cardinality(Inserting(u)') = Cardinality(Inserting(u)) + 1
      BY <1>1, <3>2, FS_AddElement
    <3>4. CountByUser(u)' = CountByUser(u)
      BY <2>1, SameRows
    <3> QED BY <1>1, <1>2, <3>1, <3>3, <3>4
  <2> QED BY <2>2, <2>3
<1>6. ASSUME NEW w \in Workers, CountDomains(w) PROVE
          CountByUser(u)' + Cardinality(Inserting(u)')
              <= PlanLimit[u] + Cardinality(Workers) - 1 + skipped'[u]
  <2>1. UNCHANGED <<rows, skipped>>
    BY <1>6 DEF CountDomains, tables, history
  <2>2. CASE worker[w].user = u /\ ~Full(u)
    <3>1. CountByUser(u) < PlanLimit[u]
      BY <1>1, <2>2 DEF Full
    <3>2. Inserting(u)' \in SUBSET Workers
      BY DEF Inserting
    <3>3. Cardinality(Inserting(u)') \in Nat /\ Cardinality(Inserting(u)') <= Cardinality(Workers)
      BY <3>2, FiniteWorkers
    <3>4. CountByUser(u)' = CountByUser(u) /\ skipped'[u] = skipped[u]
      BY <2>1, SameRows
    <3> QED BY <1>1, <3>1, <3>3, <3>4
  <2>3. CASE ~(worker[w].user = u /\ ~Full(u))
    <3>1. Inserting(u)' \subseteq Inserting(u)
      BY <1>6, <2>3 DEF CountDomains, Advance, Return, Goto, Idle, Inserting, IInv, TypeOK
    <3> QED BY <1>0, <2>1, <3>1, SameRows, CountedFrame
  <2> QED BY <2>2, <2>3
<1>7. ASSUME NEW w \in Workers, Create(w) PROVE
          CountByUser(u)' + Cardinality(Inserting(u)')
              <= PlanLimit[u] + Cardinality(Workers) - 1 + skipped'[u]
  <2>1. skipped'[u] = skipped[u] /\ Return(w) /\ worker[w].pc = "insert"
    BY <1>7 DEF Create, history
  <2>2. Idle.pc # "insert"
    BY DEF Idle
  <2>3. Inserting(u)' \subseteq Inserting(u)
    BY <2>1, <2>2, MovesAway DEF Return
  <2>4. CASE UNCHANGED rows
    BY <1>0, <2>1, <2>3, <2>4, SameRows, CountedFrame
  <2>5. CASE Creatable(worker[w].bucket, worker[w].name)
    <3> DEFINE new == NewRow(worker[w].user, worker[w].bucket, worker[w].name)
    <3>1. new.user = worker[w].user
      BY DEF NewRow
    <3>2. rows' = [i \in DOMAIN rows \cup {nextId} |-> IF i = nextId THEN new ELSE rows[i]]
      BY <1>7, <2>5 DEF Create
    <3> HIDE DEF new
    <3>3. nextId \notin DOMAIN rows
      BY DEF IInv, TypeOK, RowId
    <3>4. CASE worker[w].user # u
      <4>1. RowsOf(u)' \subseteq RowsOf(u)
        BY <3>1, <3>2, <3>3, <3>4 DEF RowsOf
      <4> QED BY <1>0, <2>1, <2>3, <4>1, CountedFrame
    <3>5. CASE worker[w].user = u
      <4>1. RowsOf(u)' = RowsOf(u) \cup {nextId} /\ nextId \notin RowsOf(u)
        BY <3>1, <3>2, <3>3, <3>5 DEF RowsOf
      <4>2. CountByUser(u)' = CountByUser(u) + 1
        BY <1>1, <4>1, FS_AddElement DEF CountByUser
      <4>3. Inserting(u)' = Inserting(u) \ {w} /\ w \in Inserting(u)
        BY <2>1, <2>2, <3>5 DEF Return, Goto, Inserting, IInv, TypeOK
      <4>4. Cardinality(Inserting(u)') = Cardinality(Inserting(u)) - 1
        BY <1>1, <4>3, FS_RemoveElement
      <4> QED BY <1>1, <1>2, <2>1, <4>2, <4>4
    <3> QED BY <3>4, <3>5
  <2> QED BY <1>7, <2>4, <2>5 DEF Create
<1>8. ASSUME NEW w \in Workers, CheckTXT(w) \/ CheckCNAME(w) \/ UpdateStatus(w) \/ Abort(w) PROVE
          CountByUser(u)' + Cardinality(Inserting(u)')
              <= PlanLimit[u] + Cardinality(Workers) - 1 + skipped'[u]
  <2>1. skipped'[u] = skipped[u]
    BY <1>8 DEF CheckTXT, CheckCNAME, UpdateStatus, Abort, history
  <2>2. PICK r : Goto(w, r) /\ r.pc # "insert"
    <3>1. CASE CheckTXT(w)
      <4> DEFINE r == [worker[w] EXCEPT !.pc = "cname", !.found = Found(worker[w].name) \cap {"txt"},
                                !.own = worker[w].id \in dns[worker[w].name].txt]
      <4>1. r.pc = "cname"
        BY DEF IInv, TypeOK
      <4>2. Goto(w, r)
        BY <3>1 DEF CheckTXT
      <4> QED BY <4>1, <4>2
    <3>2. CASE CheckCNAME(w)
      <4> DEFINE r == [worker[w] EXCEPT !.pc = "update",
                          !.found = worker[w].found \cup (Found(worker[w].name) \cap {"cname"})]
      <4>1. r.pc = "update"
        BY DEF IInv, TypeOK
      <4>2. Goto(w, r)
        BY <3>2 DEF CheckCNAME
      <4> QED BY <4>1, <4>2
    <3>3. CASE UpdateStatus(w) \/ Abort(w)
      BY <3>3 DEF UpdateStatus, Abort, Return, Idle
    <3> QED BY <1>8, <3>1, <3>2, <3>3
  <2>3. Inserting(u)' \subseteq Inserting(u)
    BY <2>2, MovesAway
  <2>4. RowsOf(u)' \subseteq RowsOf(u)
    <3>1. CASE UNCHANGED rows
      BY <3>1 DEF RowsOf
    <3>2. CASE UpdateStatus(w)
      <4>1. DOMAIN rows' = DOMAIN rows
        BY <3>2 DEF UpdateStatus
      <4>2. ASSUME NEW i \in DOMAIN rows PROVE rows'[i].user = rows[i].user
        <5>1. rows'[i] = rows[i] \/ rows'[i] = Written(rows[i], worker[w].found)
          BY <3>2 DEF UpdateStatus
        <5>2. rows[i] \in Row
          BY DEF IInv, TypeOK
        <5> QED BY <5>1, <5>2 DEF Written, Row
      <4> QED BY <4>1, <4>2 DEF RowsOf
    <3> QED BY <1>8, <3>1, <3>2 DEF CheckTXT, CheckCNAME, Abort, tables
  <2> QED BY <1>0, <2>1, <2>3, <2>4, CountedFrame
<1>9. ASSUME UNCHANGED <<worker, skipped>>, UNCHANGED rows \/ \E gone : Without(gone) PROVE
          CountByUser(u)' + Cardinality(Inserting(u)')
              <= PlanLimit[u] + Cardinality(Workers) - 1 + skipped'[u]
  <2>1. RowsOf(u)' \subseteq RowsOf(u)
    BY <1>9 DEF RowsOf, Without
  <2>2. Inserting(u)' \subseteq Inserting(u)
    BY <1>9 DEF Inserting
  <2> QED BY <1>0, <1>9, <2>1, <2>2, CountedFrame
<1>10. CASE Delete \/ (\E b \in Buckets : DropBucket(b)) \/ (\E d \in SetUp : ChangeDNS(d))
  BY <1>9, <1>10 DEF Delete, DropBucket, ChangeDNS, tables, history
<1>11. CASE UNCHANGED vars
  BY <1>9, <1>11 DEF vars, tables, history
<1> QED BY <1>3, <1>4, <1>5, <1>6, <1>7, <1>8, <1>10, <1>11 DEF Next, Continue

\* domain.go:95: the count and the insert of Add are two statements, and this
\* is all they let through, whatever is deleted or fails meanwhile.
THEOREM OvershootBoundedHolds == Spec => []OvershootBounded
<1>1. Init => Counted
  <2> SUFFICES ASSUME Init, NEW u \in Users, PlanLimit[u] > 0
               PROVE  CountByUser(u) + Cardinality(Inserting(u))
                          <= PlanLimit[u] + Cardinality(Workers) - 1 + skipped[u]
    BY DEF Counted
  <2>1. /\ RowsOf(u) = {i \in DOMAIN First : BucketOwner[First[i].bucket] = u}
        /\ Inserting(u) = {} /\ skipped[u] = 0
    BY DEF Init, RowsOf, NewRow, Inserting, Idle
  <2>2. CountByUser(u) <= PlanLimit[u] /\ Cardinality(Inserting(u)) = 0
    BY <2>1, WithinPlan, FS_EmptySet DEF CountByUser
  <2>5. CountByUser(u) \in Nat
    BY InitInv, Sizes
  <2>3. Cardinality(Workers) \in Nat /\ Cardinality(Workers) # 0
    BY DomainsAssumption, FS_CardinalityType, FS_EmptySet
  <2>4. PlanLimit[u] \in Nat
    BY DomainsAssumption
  <2> QED BY <2>1, <2>2, <2>3, <2>4, <2>5
<1>2. IInv /\ Counted /\ [Next]_vars => Counted'
  BY CountedStep
<1>3. IInv /\ Counted => OvershootBounded
  <2> SUFFICES ASSUME IInv, Counted, NEW u \in Users, PlanLimit[u] > 0
               PROVE  CountByUser(u) <= PlanLimit[u] + Cardinality(Workers) - 1 + skipped[u]
    BY DEF OvershootBounded
  <2>1. /\ CountByUser(u) \in Nat /\ Cardinality(Inserting(u)) \in Nat
        /\ Cardinality(Workers) \in Nat /\ PlanLimit[u] \in Nat /\ skipped[u] \in Nat
    BY Sizes
  <2>2. CountByUser(u) + Cardinality(Inserting(u))
            <= PlanLimit[u] + Cardinality(Workers) - 1 + skipped[u]
    BY DEF Counted
  <2> QED BY <2>1, <2>2
<1> QED BY <1>1, <1>2, <1>3, Invariance, PTL DEF Spec
=============================================================================
