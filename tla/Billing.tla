------------------------------- MODULE Billing -------------------------------
(***************************************************************************)
(* Payments and subscriptions: the pages that create a payment             *)
(* (handler/web/billing.go), the two payment providers, the webhook        *)
(* handlers (handler/api/webhooks.go), their services (internal/billing)   *)
(* and the subscriptions table (repository/billing.go).                    *)
(*                                                                         *)
(* A provider notifies of a paid payment until the notification is         *)
(* answered with 200.  The YooKassa handler answers first and works in a   *)
(* goroutine of its own; the CryptoBot handler works and then answers.     *)
(* Each action is one SQL statement or one call of a provider, so          *)
(* notifications of several payments, and several of one, interleave.      *)
(*                                                                         *)
(* current_period_end is modelled as the ticks left until it; a month and  *)
(* a year are tick counts.  applied and faults are history: nothing in the *)
(* code reads them.                                                        *)
(***************************************************************************)
EXTENDS Integers, FiniteSets

CONSTANTS
    Users,
    Plans,          \* paid plans
    Free,           \* the plan the trigger assign_default_plan gives
    Month, Year,    \* "1 month" and "1 year", in ticks
    Credentials,    \* which of the providers' credentials the environment holds
    TrustedProxies, \* the proxies the environment names
    yookassaTrustedCIDRs, \* the addresses YooKassa publishes
    Connections,    \* over which its notifications come: a peer, and the
                    \* address its headers name
    Token,          \* the value of CRYPTOBOT_TOKEN
    SigningTokens,  \* with which CryptoBot's notifications are signed
    Handlers,       \* webhook goroutines
    MaxPayments,    \* bound on the payments created
    MaxFaults,      \* bound on the failures
    None

ASSUME BillingAssumption ==
    /\ IsFiniteSet(Handlers)
    /\ Free \notin Plans
    /\ {Month, Year} \subseteq Nat \ {0}
    /\ MaxPayments \in Nat /\ MaxFaults \in Nat

VARIABLES
    sub,        \* table subscriptions
    payments,   \* the providers' payments and invoices: id -> what its metadata says
    paid,       \* payments the user has completed
    pending,    \* paid payments whose notification has not been answered
    handler,    \* what each webhook goroutine is doing
    applied,    \* how often ExtendPeriod ran for a payment
    faults

vars == <<sub, payments, paid, pending, handler, applied, faults>>

\* Without its credentials a provider is disabled.
YooKassaEnabled  == {"YOOKASSA_SHOP_ID", "YOOKASSA_SECRET_KEY"} \subseteq Credentials
CryptoBotEnabled == "CRYPTOBOT_TOKEN" \in Credentials

Enabled == {via \in {"yookassa", "cryptobot"} :
                IF via = "yookassa" THEN YooKassaEnabled ELSE CryptoBotEnabled}

\* What a page asks for: anything but "yearly" is "monthly".
BillingIntervals == {"monthly", "yearly"}

IntervalToSQL(interval) == IF interval = "yearly" THEN Year ELSE Month

Intervals == {IntervalToSQL(i) : i \in BillingIntervals}

Ids == DOMAIN payments

SubRow == [plan : Plans \cup {Free}, left : Nat]

\* What a provider knows of a payment: the metadata it was made with.
Payment == [user : Users, plan : Plans, interval : BillingIntervals, via : Enabled]

Idle == [pc |-> "idle", payment |-> 0, plan |-> None]

Goto(w, pc) == handler' = [handler EXCEPT ![w].pc = pc]
Return(w)   == handler' = [handler EXCEPT ![w] = Idle]

\* Something fails, once more than it had.
Fault == faults < MaxFaults /\ faults' = faults + 1

PaymentOf(w) == payments[handler[w].payment]

InProgress(p) == \E w \in Handlers : handler[w].payment = p

-----------------------------------------------------------------------------

\* The price tables know the paid plans only; any other slug costs nothing.
planPriceRub(slug)     == IF slug \in Plans THEN 1 ELSE 0
planCryptoAmount(slug) == IF slug \in Plans THEN 1 ELSE 0

\* A call of a provider that makes a payment, which carries the user, the plan
\* and the interval in its metadata; no row records it.  A provider refuses
\* to make one of nothing, and a payment whose answer is lost is one that
\* nobody can pay.
Create(u, plan, interval, amount, via) ==
    LET p == Cardinality(Ids) + 1
    IN  /\ p <= MaxPayments
        /\ amount > 0
        /\ payments' = [x \in Ids \cup {p} |->
                           IF x = p THEN [user |-> u, plan |-> plan, interval |-> interval, via |-> via]
                           ELSE payments[x]]
        /\ applied' = [x \in Ids \cup {p} |-> IF x = p THEN 0 ELSE applied[x]]

post(u, plan, interval, amount) == Create(u, plan, interval, amount, "yookassa")
call(u, plan, interval, amount) == Create(u, plan, interval, amount, "cryptobot")

\* Each checks once more that its provider is enabled.
CreatePaymentURL(u, plan, interval, amountRub) ==
    YooKassaEnabled /\ post(u, plan, interval, amountRub)
CreateInvoice(u, plan, interval, amount) ==
    CryptoBotEnabled /\ call(u, plan, interval, amount)

\* The slug is whatever the query says.
SubscribeYooKassa ==
    /\ YooKassaEnabled
    /\ \E u \in Users, plan \in Plans \cup {Free}, i \in BillingIntervals :
          CreatePaymentURL(u, plan, i, planPriceRub(plan))
    /\ UNCHANGED <<sub, paid, pending, handler, faults>>

SubscribeCryptoBot ==
    /\ CryptoBotEnabled
    /\ \E u \in Users, plan \in Plans \cup {Free}, i \in BillingIntervals :
          CreateInvoice(u, plan, i, planCryptoAmount(plan))
    /\ UNCHANGED <<sub, paid, pending, handler, faults>>

\* At the provider, at any time later or never.
Pay ==
    /\ \E p \in Ids \ paid : paid' = paid \cup {p} /\ pending' = pending \cup {p}
    /\ UNCHANGED <<sub, payments, handler, applied, faults>>

Start(w, p) ==
    /\ handler[w].pc = "idle"
    /\ handler' = [handler EXCEPT ![w] = [Idle EXCEPT !.pc = "findPlan", !.payment = p]]

DeliverAnswersFirst(w) ==
    /\ \E p \in pending : Start(w, p) /\ pending' = pending \ {p}
    /\ UNCHANGED <<sub, payments, paid, applied, faults>>

DeliverUnanswered(w) ==
    /\ \E p \in pending : ~InProgress(p) /\ Start(w, p)
    /\ UNCHANGED <<sub, payments, paid, pending, applied, faults>>

\* The address of a request: what a trusted proxy names in X-Real-IP or, first,
\* in X-Forwarded-For; the headers of anyone else are not read.
RealIP(c) == IF c.peer \in TrustedProxies /\ c.named # None THEN c.named ELSE c.peer

yookassaIPAllowed(ip) == ip \in yookassaTrustedCIDRs

\* yookassa_ answers before it works, in a goroutine of its own.
yookassa_(w) ==
    /\ YooKassaEnabled
    /\ \E c \in Connections : yookassaIPAllowed(RealIP(c))
    /\ \E p \in pending :
        /\ payments[p].via = "yookassa"
        /\ Start(w, p)
        /\ pending' = pending \ {p}
    /\ UNCHANGED <<sub, payments, paid, applied, faults>>

\* The goroutine drops what comes, after the 200, from an address that is not
\* YooKassa's: a notification through a proxy nobody told the process of,
\* which counts as a failure.
Untrusted ==
    /\ YooKassaEnabled
    /\ \E c \in Connections : ~yookassaIPAllowed(RealIP(c))
    /\ \E p \in pending : payments[p].via = "yookassa" /\ pending' = pending \ {p}
    /\ Fault
    /\ UNCHANGED <<sub, payments, paid, handler, applied>>

\* A signature is known by the token it was made with, and by nothing else of
\* what it signs.
verifySignature(token) == token = Token

\* cryptobot_ works before it answers; a call that still runs is not repeated.
cryptobot_(w) ==
    /\ CryptoBotEnabled
    /\ \E token \in SigningTokens : verifySignature(token)
    /\ \E p \in pending :
        /\ payments[p].via = "cryptobot" /\ ~InProgress(p)
        /\ Start(w, p)
    /\ UNCHANGED <<sub, payments, paid, pending, applied, faults>>

\* What is signed with another token, one that was replaced, is answered 400
\* and comes again; it counts as a failure.
Missigned ==
    /\ CryptoBotEnabled
    /\ \E token \in SigningTokens : ~verifySignature(token)
    /\ \E p \in pending : payments[p].via = "cryptobot"
    /\ Fault
    /\ UNCHANGED <<sub, payments, paid, pending, handler, applied>>

\* A notification arrives at its route.
Deliver(w) == yookassa_(w) \/ cryptobot_(w)

\* The early answer of yookassa_ is lost, or the provider gives up a call
\* that cryptobot_ is still working on and repeats it.
DeliverAgain(w) ==
    /\ Fault
    /\ \E p \in pending :
        /\ payments[p].via = "yookassa" \/ InProgress(p)
        /\ Start(w, p)
    /\ UNCHANGED <<sub, payments, paid, pending, applied>>

\* FindBySlug finds the row of a plan.
FindBySlug(w, slug) ==
    handler' = [handler EXCEPT ![w].pc = "extend", ![w].plan = slug]

\* The plan in the metadata; any error leads to the free plan.
FindPlan(w) ==
    /\ handler[w].pc = "findPlan"
    /\ \/ FindBySlug(w, PaymentOf(w).plan) /\ UNCHANGED faults
       \/ Goto(w, "findFree") /\ Fault
    /\ UNCHANGED <<sub, payments, paid, pending, applied>>

FindFreeUnchecked(w) ==
    /\ handler[w].pc = "findFree"
    /\ Goto(w, "extend")
    /\ UNCHANGED <<sub, payments, paid, pending, applied, faults>>

FindFree(w) ==
    /\ handler[w].pc = "findFree"
    /\ FindBySlug(w, Free)
    /\ UNCHANGED <<sub, payments, paid, pending, applied, faults>>

ExtendedAcrossPlans(row, plan, interval) ==
    [plan |-> plan, left |-> IF row.left > 0 THEN row.left + interval ELSE interval]

\* The CASE of ExtendPeriod.
Extended(row, plan, interval) ==
    [plan |-> plan,
     left |-> IF row.plan = plan /\ row.left > 0 THEN row.left + interval ELSE interval]

\* ExtendPeriod, one statement: whatever it reads it reads of the row it
\* writes.  onPaymentSucceeded has nothing to do after it.
ExtendPeriod(w) ==
    LET p == PaymentOf(w)
    IN  /\ handler[w].pc = "extend"
        /\ sub' = [sub EXCEPT ![p.user] = Extended(@, handler[w].plan, IntervalToSQL(p.interval))]
        /\ applied' = [applied EXCEPT ![handler[w].payment] = @ + 1]
        /\ IF p.via = "cryptobot" THEN Goto(w, "answer") ELSE Return(w)
        /\ UNCHANGED <<payments, paid, pending, faults>>

\* cryptobot_ answers 200, which the provider may not hear.
Answer(w) ==
    /\ handler[w].pc = "answer"
    /\ \/ pending' = pending \ {handler[w].payment} /\ UNCHANGED faults
       \/ Fault /\ UNCHANGED pending
    /\ Return(w)
    /\ UNCHANGED <<sub, payments, paid, applied>>

\* A statement fails: yookassa_ logs it, cryptobot_ answers 400.
Fail(w) ==
    /\ handler[w].pc \in {"findFree", "extend"}
    /\ Fault
    /\ Return(w)
    /\ UNCHANGED <<sub, payments, paid, pending, applied>>

\* The process ends, and every goroutine in it.
Crash ==
    /\ \E w \in Handlers : handler[w].pc # "idle"
    /\ Fault
    /\ handler' = [w \in Handlers |-> Idle]
    /\ UNCHANGED <<sub, payments, paid, pending, applied>>

\* Time passes.  The plan of a row stays when its period is over.
Tick ==
    /\ sub' = [u \in Users |-> [sub[u] EXCEPT !.left = IF @ > 0 THEN @ - 1 ELSE 0]]
    /\ UNCHANGED <<payments, paid, pending, handler, applied, faults>>

-----------------------------------------------------------------------------

Init ==
    /\ sub = [u \in Users |-> [plan |-> Free, left |-> 0]]
    /\ payments = [p \in {} |-> Idle]
    /\ paid = {} /\ pending = {}
    /\ handler = [w \in Handlers |-> Idle]
    /\ applied = [p \in {} |-> 0]
    /\ faults = 0

\* What the program and the providers do by themselves.
Work(w) == Deliver(w) \/ FindPlan(w) \/ FindFree(w) \/ ExtendPeriod(w) \/ Answer(w)

Next ==
    \/ SubscribeYooKassa
    \/ SubscribeCryptoBot
    \/ Pay
    \/ \E w \in Handlers : Work(w) \/ DeliverAgain(w) \/ Fail(w)
    \/ Untrusted \/ Missigned
    \/ Crash
    \/ Tick

\* A provider keeps notifying, and the scheduler runs every goroutine.
Spec == Init /\ [][Next]_vars /\ \A w \in Handlers : WF_vars(Work(w))

-----------------------------------------------------------------------------

\* Rows, payments and goroutines have their shapes; a notification is pending
\* for paid payments only.
TypeOK ==
    /\ sub \in [Users -> SubRow]
    /\ Ids = 1 .. Cardinality(Ids)
    /\ payments \in [Ids -> Payment]
    /\ paid \subseteq Ids
    /\ pending \subseteq paid
    /\ handler \in [Handlers ->
                      [pc : {"idle", "findPlan", "findFree", "extend", "answer"},
                       payment : {0} \cup paid, plan : Plans \cup {Free, None}]]
    /\ applied \in [Ids -> Nat]
    /\ faults \in 0 .. MaxFaults

\* ExtendPeriod is not idempotent, and a notification can come again: a
\* payment extends its subscription once, and once more per failure at most.
AppliedBounded == \A p \in Ids : applied[p] <= 1 + faults

\* A user who paid by CryptoBot gets the time: its handler answers only what
\* it has done, so that the provider comes again after every failure
\* (cryptobot_, webhooks.go:98).
CryptoPaymentsGranted ==
    \A p \in 1 .. MaxPayments :
        p \in paid /\ payments[p].via = "cryptobot" ~> p \in paid /\ applied[p] > 0

\* A payment is due until ExtendPeriod has run for it, as long as someone
\* still works on it or will be notified of it.
Due == {p \in paid : applied[p] = 0 /\ (p \in pending \/ InProgress(p))}

Record(p) == [id |-> p, user |-> payments[p].user, plan |-> payments[p].plan,
              interval |-> IntervalToSQL(payments[p].interval), via |-> payments[p].via]

Promise == INSTANCE PaidPeriods WITH
    due       <- {Record(p) : p \in Due},
    granted   <- {Record(p) : p \in {q \in paid : applied[q] > 0}},
    disturbed <- faults > 0

\* The webhooks and the table keep what PaidPeriods promises: exactly one
\* grant per payment while nothing fails, and no lapse of a payment by
\* CryptoBot whatever fails.
KeepsPromise == Promise!Spec
=============================================================================
