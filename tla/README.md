# Pulsar object storage in TLA+

Specifications, model checks and proofs for the Go program in `src/`: an
S3-compatible storage service with accounts, quotas, API keys, custom domains
and paid plans. The source is the reference; every definition that models code
is listed in `PROJECT.json` under `map` with the lines it stands for.

## 1. Inventory

One process (`cmd/pulsar`) serves the web pages, the REST API and the webhooks.
It keeps no state of its own between requests: everything is in PostgreSQL, in
Redis and in S3, and every request runs in a goroutine of its own. No code path
opens a transaction that spans two statements, so whatever a handler does in two
calls another handler can do something in between.

| component | state | operations | interacts with | what is hard |
|---|---|---|---|---|
| Object storage (`service/storage.go`, `repository/buckets.go`, `objects.go`, `storage/s3`) | tables `buckets`, `objects`, `audit_log`; the S3 bucket; outstanding presigned URLs | CreateBucket, UpdateBucket, DeleteBucket, PresignUpload, ConfirmUpload, PresignDownload, DeleteObject, the client's PUT | plan limits from billing; S3; the browser's uploader | two stores with no common transaction; check-then-act quotas; names used after they were read; clients that write to S3 at any time |
| Accounts (`service/auth.go`, `repository/users.go`, `email_verifications.go`, `cache/session.go`, `middleware/auth.go`) | tables `users`, `email_verifications`; Redis session keys and one index per user, each with a TTL | register, resend, verify, forgot, reset, login, logout, password change, the session middleware | mail; Redis | tokens used by two requests at once; an index and its members that expire apart; errors that are ignored |
| Billing (`internal/billing`, `repository/billing.go`, `handler/api/webhooks.go`) | table `subscriptions`; payments at YooKassa and CryptoBot | create a payment, two webhooks, ExtendPeriod | its plan gives the quotas of storage and domains | notifications repeated, lost, reordered; crashes between a call and its answer |
| Rate limiter (`cache/ratelimit.go`, `middleware/helpers.go`, `ratelimit_provider.go`) | one Redis counter with a TTL per limiter key | Allow, by two middlewares | in front of the API and the auth pages | fixed windows; fails open, after the script ran or before |
| API keys (`service/api_keys.go`, `repository/api_keys.go`, `middleware/auth.go`) | table `api_keys` | Create, Resolve, Delete, scope check | in front of the API | revocation while a request runs; the order of the middlewares |
| Custom domains (`internal/domain`, `repository/custom_domains.go`) | table `custom_domains` | Add, Verify, Delete, VerifyTLS | DNS; Caddy; buckets by foreign key | check-then-act quota; a DNS answer used late |
| Process (`cmd/pulsar/main.go`, `internal/server`, `config`) | how far `run` is; the signal; the time left to drain | start, migrate, listen, signal, drain, restart | everything: requests live and die with it | a signal during the start; requests that outlast the timeout; services that are nil |
| Audit log, usage events | append-only tables | Record | errors ignored | records written later than what they tell of, or never |
| Probes, metrics, mailer, views, validators | none beyond a request | | | presentation, pure functions, plumbing |

What makes each correct:

- storage: a quota that holds (or overshoots by a known amount), rows that
  describe one object each, tenants that cannot touch each other, bytes that
  disappear only on request, loops that end, a log that tells of no more than
  happened;
- accounts: tokens that work once, sessions that end when they should and stay
  ended;
- billing: each payment granted once, for its plan and interval, and none lost;
- rate limiter: no more than the limit per window, and no key refused for ever;
- API keys: a deleted key stops working, a scope is never exceeded, whoever is
  served was charged;
- domains: a status that follows from the last verification and from no one
  else's, a quota;
- process: a shutdown that ends, and whose exit status is true.

`PROJECT.json` lists the hazards one by one, each at its line and with the
property that would catch it.

## 2. Plan

Done, in this order: ObjectStorage (the reason the program exists, and its most
interleaved part) and its proofs; Accounts; PaidPeriods with Billing; RateLimiter,
ApiKeys and Process, composed in Gateway, with proofs; Domains with proofs;
StorageService over ObjectStorage, with the refinement proved; the proofs of
Billing and of Accounts, the latter with failures counted; the theorems about
sums, and with them the proofs of the storage quota and of the limiter's two
windows; the records of other rows in Domains, and who may notify in Billing.

Left:

1. A composition of Billing's `sub` with the limits of ObjectStorage and Domains:
   a plan that changes between the two quota checks of an upload, or ends. The
   billing page says until when a plan is valid (`billing.templ:22`), and nothing
   that reads a limit asks for that date: `Tick` keeps the plan, as the code does.
2. The gauge of requests in flight (`metrics.go:50`) beside `request` in Gateway.

## 3. Modules

| module | what it is |
|---|---|
| `ObjectStorage` | buckets, objects, uploads and quotas over PostgreSQL and S3 |
| `StorageService` | extends it by the settings of a bucket, the audit log and downloads; implements it |
| `MCObjectStorage`, `MCStorageService` | their instances for TLC |
| `SumTheorems` | what the proofs need of sums of numbers over finite sets |
| `ObjectStorage_proofs`, `StorageQuota_proofs`, `StorageService_proofs` | the theorems of the first two; the second is the storage quota |
| `Accounts`, `MCAccounts`, `Accounts_proofs` | accounts, mailed tokens, sessions |
| `PaidPeriods` | the abstract specification of billing |
| `Billing`, `MCBilling`, `Billing_proofs` | payments, providers, webhooks, subscriptions; implements `PaidPeriods` |
| `RateLimiter`, `ApiKeys`, `Process` | the three parts of the gateway; the limiter is a specification of its own |
| `Gateway`, `MCGateway`, `Gateway_proofs` | their composition: the life of a request up to its handler; implements `RateLimiter` |
| `Domains`, `MCDomains`, `Domains_proofs` | custom domains, DNS, the cascade |

All components have the same form. A worker (or handler) is a goroutine; its
record holds where it is (`pc`) and what it has read. An action is one SQL
statement, one Redis command, one S3 request or one DNS lookup together with the
computation up to the next call, so the model interleaves exactly where the
program can. `Goto` moves to the next call, `Return` ends the request. A request
that finds nothing and ends without an effect is no step. `Abort` stands for a
call that fails, a client that goes away or a process that is killed, between
any two calls; errors the code ignores are alternatives of the action itself.
Operators that are not used by `Next` and stand before an action with a similar
name (`CreateCountOffByOne`, `TouchRevives`, ...) are faulty variants: each
property is shown to notice one of them (`mutants` in `PROJECT.json`).

**ObjectStorage.** `buckets` and `objects` are the tables, with the unique index
on (user, name) and the cascade; `blobs` is S3; `urls` the presigned PUTs not yet
expired. A name or key is a model value, a S3 key a triple, since a user id and
a bucket name hold no slash. `ClientPut` may use a URL at any time, with any
size and more than once. Plan limits come from `Resolved`: the plan's, or, when
a query fails, those of the free plan (`resolvePlanLimits`).

**StorageService.** What the service keeps beside rows and bytes. `Call` is a
call of ObjectStorage together with the columns of the row it inserts or deletes
and, in `pending`, the audit record it now owes; `Record` is that record, a
statement of its own after the effect, whose error the service drops (the
`Faults` alternative). `UpdateBucket` is the handler of the one statement
`Update`, which has no read before it. `log` counts the records of created and
deleted buckets. `Download` is a presigned GET: `bandwidth` adds up its usage
events, which are of zero bytes (`storage.go:184`), although the comment at 181
says that bandwidth is recorded: nobody knows yet what a client will fetch.

**Accounts.** `sessions` are the Redis keys with the ticks they have left,
`index` the set per user with its own TTL, so that `Touch`, which renews only
the first, and `Tick`, which ages both, tell them apart. `Inputs` is what is typed
for an address and `NormalForm` what `NormalizeEmail` makes of it, so that an
account is one however its address is written. A password is the number of its
hash. `SessionAdd` and `SessionExpire` may fail unnoticed, as in
the code. `faults` counts the calls that failed and the requests that were
killed, so that the properties can say what each may cost; calls whose error the
code ignores are alternatives of their actions, everything else is `Abort`. An
account's status `suspended` is left out: no code sets it.

**Billing.** `payments` is what the metadata of a payment says, `pending` the
notifications a provider will repeat. A provider without its `Credentials` is
disabled: its pages make no payments and its webhook answers 503. `yookassa_`
answers before working (the 200 and its goroutine), `cryptobot_` after. A YooKassa
notification is taken if its address, which `RealIP` reads from the headers of
`TrustedProxies` only, is one YooKassa publishes; through any other proxy it is
dropped after the 200 (`Untrusted`). A CryptoBot notification is taken if it is
signed with the process' token and answered 400 otherwise, and then comes again
(`Missigned`, a token replaced at one end). `DeliverAgain` is a
lost answer or a call given up while it runs. `Crash` ends all goroutines, also
on an orderly shutdown, which waits for requests only. `Extended` is the CASE of
`ExtendPeriod`. `PaidPeriods` says what this should amount to: payments due are
granted, one by one, and only after a failure may one be repeated, granted on
the free plan or (YooKassa only) lapse.

**RateLimiter.** `Script` is the Lua script: INCR, and PEXPIRE when the count was
zero, as one step. `FailOpen` lets a request pass when Redis does not answer,
whether the script ran or not: `Allow` itself never returns an error.
`LimiterTick` is Redis ageing its keys. `passed` and `recent` are history: what
the present counter let pass, and what passed in each of the last ticks. A
counter stops one above its limit; nothing tells it from one further above.

**ApiKeys, Process.** The statements on `api_keys`, and the steps of `run` from
the environment to the drained server. `validate` refuses a configuration in
production only: its checks of PUBLIC_BASE_URL and S3_BUCKET cannot fail, since
`env` puts the default in place of an empty variable. `Migrate` takes no context and its failure
is logged only; `OpenS3` goes on without a client; `Listen` and the signal race.
`run` caps the drain at 30 s whatever `HTTP_SHUTDOWN_TIMEOUT` says, which is
`Grace`. A process that ended may be started again.

**Gateway.** Composes the three by EXTENDS and adds `request`, per goroutine:
which middleware or handler it has reached, the user, the key and its scopes.
A request arrives by session on a page (`Browse`) or on the API
(`CallBySession`), by key (`CallByKey`), with neither (`CallAnonymously`), or on
one of the pages limited by e-mail (`SubmitEmail`); the API then runs
APIKeyAuth, RateLimit and RequireScope in the order of `api/router.go`. `Clients`
are the limiter keys of requests without a user: an address or an e-mail.
`dead` and `charged` are history: whether the key was deleted before the request
arrived, and the limiter key that let it pass. A process that ends takes its
requests with it. Without an S3 client the API has neither services nor limiter
(`main.go:218`): what asks for them panics and `Recover` answers 500, so nothing
happens (`Mounted`).

**Domains.** `Add` normalizes the name, refuses what is none, reads the bucket,
the subscription and its plan, counts and inserts; a subscription or a plan that
cannot be read, or a limit of 0, is no limit (`domain.go:94`), also for the free
plan, whose seed says 0. `Verify` reads the row, then asks for TXT and CNAME,
each a step during which the DNS, the row and the bucket may change, and writes
a status with one UPDATE. In `dns` a TXT record with the prefix is known by the
row whose id follows it; an owner publishes what `CNAMEInstructions` told of a row
of that name, and the record stays when the row goes. `CheckTXT` compares the
prefix only (`domain.go:196`), so `Found` takes the record of any row. `checked`
and `proven` are history: the rows one verification of which found both records,
and those of them where the record named the row itself. Where the record is put is
not modelled, and the program and its page disagree on it: `domains.templ:74`
tells customers to publish at `_pulsar.` and the name, `checkTXT` asks the name
itself. The pages of this component are not mounted (`web/router.go:116`): today
only `verifyTLS` can be reached, on rows written by other means; the module
checks the service as it would behave.

## 4. Runs

| run | question | shows |
|---|---|---|
| `storage_sequential` | one request at a time, stores failing, requests abandoned | quota exact; bytes lost only to a request about the object; every request ends |
| `storage_overshoot` | two requests, three buckets | recorded bytes exceed the plan by one largest upload at most, buckets by one |
| `storage_tenants` | the whole service: two users, two requests, buckets re-created under old names, updates and records in between | no two rows share an object; a tenant changes its own data only; settings exist for live buckets only; the log never tells of more than happened |
| `storage_quota_race` | `storage.go:150` "storage must not exceed plan" | violated by two confirmations at once |
| `storage_delete_bucket` | `storage.go:90` "and all underlying objects" | violated: only one page is listed, and a client can PUT meanwhile |
| `accounts` | two requests on one account, up to two failed calls or killed requests, keys expiring | at most two live tokens of a type and two effects of a token, and one more of each per failure; an indexed session of before some password changes has as many requests about to destroy it, less one per failure; an ended session stays ended |
| `accounts_single_use` | `models.go:60` "a single-use token", of a password reset | violated by two requests at once that present the same token and both set the password |
| `accounts_index_expiry` | `auth.go:191`, `settings.go:76`: a password change ends all sessions | violated, by one request at a time and without failures: a session kept alive outlives the index that lists it |
| `billing_webhooks` | two payments, two handlers, two failures, an unknown proxy and an old signature among them | Billing implements PaidPeriods; at most one grant more per failure; CryptoBot payments are granted in the end |
| `gateway` | two requests, two users, one anonymous client, a key created and deleted, Redis failing, the process signalled, killed, restarted | the limit holds per counter and twice the limit per window's length; no deleted key gets in; who is served was charged; keys change by their owner; a clean exit left no request behind; a refusal and a shutdown end |
| `domains` | two requests of two users who want the same name, one at a limit, DNS changing, a plan that cannot be read | the quota is exceeded by the other goroutine and the unread plans only; a row is verified only if one verification of that very row found prefix and CNAME, although names change hands meanwhile; a status asked for again and again becomes the DNS's |
| `domains_other_record` | `domain.go:127` "a TXT record proving ownership", 188 "matching ExpectedPrefix+<id>" | violated, by one request at a time and without failures: the record of a deleted row of another user verifies the row under which the name is registered again |

*Bounds, and why they suffice.* Two goroutines show every race between a read
and a write; the proofs cover more of them. A page of ListObjectsV2 holds one
object instead of 1000, so that two objects overflow it. Bucket ids
(`MaxBucketIds`) are two or three: a bucket can be deleted and re-created, and a
user at a limit of one can reach two. One URL at a time is outstanding
(`MaxUrls`), but may expire and be replaced. Sizes 1 and 2 under a limit of 2
tell "fits", "fits only as a replacement" and "too large" apart;
`storage_overshoot` uses the largest size only, as the bound speaks of it. Two
`Settings` are enough, for nothing in the service reads them; that is also why
they are symmetric.
A session lives two ticks, so that it can be half way when touched; there are up
to three tokens and passwords (`MaxTokens`, `MaxVersion`), what two changes at once
need, and one session (`MaxSessions`), since those of a user do not meet but in
the index; `MaxUses` stops a counter above the bound checked, which two failures
(`MaxFaults`) raise to four. A month is one tick and a year three:
renewals, changes of plan and expired periods all happen with two payments.
The two YooKassa `Connections` that are let through and the one that is not cover
the outcomes of `RealIP`, the two `SigningTokens` those of the signature.
In `gateway` a window of two ticks (`Window`) can be straddled and a limit of one
reached from both sides; one key (`MaxKeys`) is created, used, deleted and used
again; `Grace` of one tick lets a drain end in time or too late. In `domains` one user is at a limit of one from the start (`First`) and the
other, without a limit, types (`Typed`) the one name that is published and verified
(`SetUp`), so that its row can be deleted and inserted again by the other; with
three names and three rows (`MaxRows`) there is room for one addition more than the
bound allows; two changes of the DNS (`MaxChanges`), to any of the records, can
fall between any two steps of a verification; one unreadable plan (`MaxSkips`) is
told from the race it adds to. `domains_other_record` has one goroutine, one name
and no failure, to show that none of these is needed. `Users`, `Names` and
`Buckets` beyond these are covered by the proofs. One thing typed for an address or a domain is none (`MCInputs`, `MCNormalForm`), and
both providers have their credentials. Workers, keys and names are symmetric in runs without liveness; users,
who have different plans, are not.

*Deadlock.* `CHECK_DEADLOCK FALSE` in every run: once the bounded ids, tokens
or payments are used up and every client stops, nothing more need happen.

*Fairness.* `RequestsFinish` assumes weak fairness of `Continue(w)`, the steps of
a request that has begun: the Go scheduler runs every goroutine, and a call to a
store answers or fails (a store that hangs for ever is outside the property).
New requests and clients are not fair. Billing assumes it of `Work(w)`:
goroutines run and a provider repeats a notification until it is answered
(YooKassa for a day, `webhooks.go:44`), and failures end, being bounded by
`MaxFaults`. Gateway assumes it of `Tick`, time, and of the steps `run` takes by
itself, and says nothing of requests: `ShutdownEnds` and `RefusalsEnd` hold
however long they hang and however often they come back. Domains assumes it of
`Continue(w)`, a lookup being given up after five seconds; nobody has to verify,
so `StatusConverges` speaks only of rows whose `UpdateStatus` comes again and
again.

## 5. Proofs

Every theorem is proved for all values of the constants, under the assumptions
the modules name: limits are naturals (those of the limiter positive: the
callers pass literals), goroutines finitely many and at least one, the fallback
limit of storage positive and no larger than a plan's (`FallbackAssumption`, what
the seed of the plans says), the sizes of uploads finitely many naturals, at least
one.

`SumTheorems`: TotalSizeByUser, and what the limiter let pass in a window, are
folds of the community modules, defined by recursion over the set. The function
that counts, for every part of the set, its units (the pairs of an element and a
number below its value) satisfies that recursion, and, subsets of a finite set
being well-founded, nothing else does: hence `SumIsCardinality`, a sum of naturals
over a finite set is the cardinality of the set of its units. What the proofs need
of sums (disjoint parts, one element more, larger values, another index set)
follows from the library's facts on cardinalities.

`ObjectStorage_proofs`: `Typing`, `NoSharedBlobHolds`, `BucketOvershootHolds`,
`TenantIsolationHolds`, with and without failures. The invariant `IInv` is
`Typed /\ UniqueNames /\ RowsLive /\ Owned`. `NoSharedBlob` alone is not
inductive: an upsert keeps it only if the bucket id in the request's record never
belonged to a bucket of another name or user, and that needs ids never reused
(`TablesOK`), live names unique (the index), rows under live buckets (the foreign
key) and, in `Owned`, that the user and the name in a request's record are those
of its bucket as long as the bucket lives, and that the objects it is about to
delete lie under its user. The quota needs two more: `LimitRead`, the limit in a
request's record is at most the plan's, and `Counted`, buckets plus requests past
the count and about to insert are at most the limit plus the other goroutines.
`BytesLostToOwnRequestHolds` assumes one goroutine; `BytesLostToNamesake` is what
remains with many: the request that deletes a recorded object's bytes is the same
user's, about the same key or a whole bucket, but perhaps about an earlier bucket
of that name.

`StorageQuota_proofs`: `StorageOvershootHolds`, recorded bytes exceed the plan by
one largest upload per other goroutine at most, and `StorageWithinPlanHolds`, with
one goroutine they do not. The sum, the row about to be replaced and the upsert
are three statements, and what one upload has read another changes, so that no
count ahead like `Counted` is inductive. `QuotaInv` speaks of every choice of
uploads W that have read the sum and not decided, and Q that have decided,
different rows each (`Apart`): the rows, with those of Q as Q will write them, stay
within the limit and a largest upload for each goroutine but one and those in W;
or within the sum that some w in W has read and a largest upload for each
goroutine not in W (`Covered`). An upload that reads the sum joins W covered by
what it read; one that decides moves to Q, having compared with the limit; an
upsert writes what was counted; and two uploads of one row never count twice.

`StorageService_proofs`: `ServiceUsesStorage`, ServiceSpec implements
ObjectStorage's Spec, so that its theorems hold of the service
(`ServiceIsolatesTenants`, `ServiceSharesNoBlob`, `ServiceStorageTyped`,
`ServiceOvershootBounded`); then `ServiceTyped` and
`LogAgreesHolds`, by `SInv`, which is ObjectStorage's `IInv` with both. A
record owed counts as written, so that an insert raises both sides at once and a
delete moves one bucket from one side to the other; that two deletions of one
bucket are recorded once is the RowsAffected of the DELETE.

`Accounts_proofs`: `AccountsTyped`, `DeadSessionsStayDeadHolds`,
`TokenUsesBoundedHolds`, `LiveTokensBoundedHolds` and `IndexedSessionsDieHolds`, all
with every failure: a failed call or a killed request costs each of the last
three one and no more. `TokenUsedOnceHolds`: with one goroutine and no failure
(`MaxFaults = 0`) the claim that `accounts_single_use` refutes is true. `IInv`
says that what a request refers to exists and, for a login, that its session
belongs to its user; `Grows`, that accounts, tokens and session numbers are never
taken back, lets a step of one request leave the others' facts alone. The bounds
count ahead: `UsesOK`, uses plus requests about to have the effect are at most the
goroutines and the failures, and while a token is live its uses are at most the
requests that still have to mark it and the failures; `LiveOK`, live tokens plus
requests about to insert one; `DieOK` counts for every indexed old session the
requests that will destroy it, so that a change of the password brings one and only
a failure takes one away.

`Billing_proofs`: `BillingTyped`, `AppliedBoundedHolds` and
`ImplementsPaidPeriods`, the safety part of `KeepsPromise`. `AppliedBounded` is
not inductive, for a notification can come while a goroutine works on the last
one. `Weight(p)`, the grants made, the goroutines that will make one and one more
if a notification is outstanding, is: a failure raises it by one, everything else
moves grants along.

`Gateway_proofs`: of the limiter alone, `LimiterHolds` and `RetryAfterHonest` (the
header is off by a second at most) and `TwoWindowsHold`, whose invariant cuts
the last `Window` ticks of a key where its live counter began: what passed since is
at most what the counter let pass, what passed before at most the limit, for
a counter begins only where there is none, and a key with no live counter has let
at most the limit pass in the whole of a window;
`GatewayUsesLimiter`, the composition
implements RateLimiter's specification, its steps on counters being the
limiter's or none; then `GatewayTyped`, `LimitPerWindowHolds` and `TwiceTheLimitHolds` (from the
limiter, through the refinement), `DeletedKeysRefusedHolds`, `ChargedToActorHolds`,
`KeysChangeByOwnerHolds` and `CleanExitDrainedHolds`. The invariant says of every
request past APIKeyAuth that its key was live when it arrived and that user,
limiter key and charge agree as far as it has come; ids of keys are never used
again, so a dead key stays dead.

`Domains_proofs`: `DomainsTyped`, `VerifiedWasCheckedHolds`,
`OvershootBoundedHolds`. `IInv` is TypeOK with `RequestsOK` (a request about to
write "verified" is about a checked row) and `RowsChecked`; that the row may have
been deleted meanwhile and its name inserted anew is harmless because ids are not
reused. `Counted`, for the quota: rows plus requests about to insert are at most
the limit, the other goroutines and the additions without a limit, from rows that
are within the plans at first (`WithinPlan`). That the record named the row is not
a theorem: `domains_other_record` refutes it.

Only model-checked: liveness (`RequestsFinish`, `CryptoPaymentsGranted`,
`RefusalsEnd`, `ShutdownEnds`, `StatusConverges`, the fair part of
`KeepsPromise`), which is out of the prover's reach. Every other property of a
passing run is a theorem above.

## 6. Not modelled

PostgreSQL, Redis, S3, mail, DNS and the providers appear as the code uses them:
each call atomic, and able to fail. Beyond them:

- of storage: the lists, which read. Records of objects in the audit log are left out, being like those of
  buckets, and so are those of logins and domains: nothing reads the log but a
  page. An address of IPv6 is cut at its last colon and may not be an `inet`
  then; such a record is lost like one whose statement fails.
- of accounts: UpdateProfile (the display name), TouchLastLogin, bcrypt and
  hashing; which string is an address or a password is a constant;
- of billing: the amounts in the price tables, a restart with other credentials,
  how an address or a signature is computed (`RealIP`, `verifySignature` say what is
  let through), and the pages. Only genuine notifications are sent. The slug of a plan is not checked when a
  payment is created, but an unknown one costs 0, which both providers refuse;
- of API keys: last_used_at, which only a page shows;
- of domains: which string is which name (`NormalForm` is a constant); the list;
  CDNURL;
- of the process: readiness and health probes, metrics (among them the gauge of
  requests in flight, which `metrics.go:50` lowers without a defer and so leaves
  too high after a panic), CSRF, CORS, request ids, static files;
- views, the mailer and golang-migrate: presentation, I/O, a library.

`docs/ARCHITECTURE.md:98` calls the limiter's window sliding. The code
itself names it `fixedWindowScript`; `TwiceTheLimit` states what that costs.
