---------------------------- MODULE Billing_proofs ----------------------------
(* Theorems about Billing, for every number of users, payments, webhook    *)
(* goroutines and failures.                                                *)
EXTENDS Billing, FiniteSetTheorems, TLAPS

Steps == {"findPlan", "findFree", "extend"}

Rec == [pc : {"idle", "answer"} \cup Steps, payment : {0} \cup paid, plan : Plans \cup {Free, None}]

\* The goroutines that will extend the period for a payment.
Working(p) == {w \in Handlers : handler[w].payment = p /\ handler[w].pc \in Steps}

\* A notification that will start another one without a failure.
Outstanding(p) == p \in pending /\ (payments[p].via = "cryptobot" => ~InProgress(p))

\* What a payment has been granted, and what it will be without a failure.
Weight(p) == applied[p] + Cardinality(Working(p)) + (IF Outstanding(p) THEN 1 ELSE 0)

WeightsOK == \A p \in Ids : Weight(p) <= 1 + faults

PaymentsOK ==
    /\ Cardinality(Ids) \in 0 .. MaxPayments
    /\ \A p \in Ids : p \notin paid => applied[p] = 0
    /\ \A p \in paid : payments[p].via = "cryptobot" /\ applied[p] = 0 => p \in pending

\* What a goroutine has read, and done, for its payment.
HandlersOK ==
    \A w \in Handlers :
        /\ handler[w].pc = "idle" => handler[w].payment = 0
        /\ handler[w].pc # "idle" => handler[w].payment \in paid
        /\ handler[w].pc = "findFree" => faults > 0
        /\ handler[w].pc = "extend" => \/ handler[w].plan = PaymentOf(w).plan
                                       \/ handler[w].plan = Free /\ faults > 0
        /\ handler[w].pc = "answer" => applied[handler[w].payment] > 0

IInv == TypeOK /\ PaymentsOK /\ HandlersOK /\ WeightsOK

-----------------------------------------------------------------------------
(* Goroutines that move.                                                   *)

LEMMA RecType == TypeOK => handler \in [Handlers -> Rec]
BY DEF TypeOK, Rec, Steps

LEMMA IdsType == IInv => Ids \subseteq Nat \ {0} /\ paid \subseteq Ids /\ 0 \notin paid
<1> SUFFICES ASSUME IInv PROVE Ids \subseteq Nat \ {0} /\ paid \subseteq Ids
  OBVIOUS
<1>1. Cardinality(Ids) \in Nat
  BY BillingAssumption DEF IInv, PaymentsOK
<1> QED BY <1>1 DEF IInv, TypeOK

LEMMA IntervalType == \A i : IntervalToSQL(i) \in Nat
BY BillingAssumption DEF IntervalToSQL

LEMMA FiniteWorking == \A p : IsFiniteSet(Working(p)) /\ Cardinality(Working(p)) \in Nat
<1> SUFFICES ASSUME NEW p PROVE IsFiniteSet(Working(p)) /\ Cardinality(Working(p)) \in Nat
  OBVIOUS
<1>1. Working(p) \in SUBSET Handlers
  BY DEF Working
<1> QED BY <1>1, BillingAssumption, FS_Subset, FS_CardinalityType

LEMMA Moves ==
    ASSUME IInv, NEW w \in Handlers, NEW r \in Rec, handler' = [handler EXCEPT ![w] = r]
    PROVE  /\ handler' \in [Handlers -> Rec] /\ handler'[w] = r
           /\ \A v \in Handlers : v # w => handler'[v] = handler[v]
BY RecType DEF IInv

\* One goroutine moves: who works for a payment, and whether anyone does.
LEMMA WorkingMoves ==
    ASSUME IInv, NEW w \in Handlers, NEW r \in Rec, handler' = [handler EXCEPT ![w] = r], NEW q
    PROVE  /\ Cardinality(Working(q)') =
                  Cardinality(Working(q))
                  + (IF r.payment = q /\ r.pc \in Steps THEN 1 ELSE 0)
                  - (IF w \in Working(q) THEN 1 ELSE 0)
           /\ Cardinality(Working(q)') \in Nat
<1> DEFINE R == Working(q) \ {w}
<1>1. IsFiniteSet(R) /\ Cardinality(R) = Cardinality(Working(q)) - (IF w \in Working(q) THEN 1 ELSE 0)
  BY FiniteWorking, FS_RemoveElement
<1>2. Working(q)' = IF r.payment = q /\ r.pc \in Steps THEN R \cup {w} ELSE R
  BY Moves DEF Working
<1>3. Cardinality(R \cup {w}) = Cardinality(R) + 1
  BY <1>1, FS_AddElement
<1>4. Cardinality(R) \in Nat /\ Cardinality(Working(q)) \in Nat
  BY <1>1, FS_CardinalityType, FiniteWorking
<1> HIDE DEF R
<1> QED BY <1>1, <1>2, <1>3, <1>4

LEMMA ProgressMoves ==
    ASSUME IInv, NEW w \in Handlers, NEW r \in Rec, handler' = [handler EXCEPT ![w] = r],
           NEW q, r.payment # q, handler[w].payment # q
    PROVE  InProgress(q)' <=> InProgress(q)
BY Moves DEF InProgress

\* A payment no goroutine has come to or left weighs what it did.
LEMMA OthersWeigh ==
    ASSUME IInv, NEW w \in Handlers, NEW r \in Rec, handler' = [handler EXCEPT ![w] = r],
           NEW q \in Ids, r.payment # q, handler[w].payment # q,
           payments' = payments, applied'[q] = applied[q], q \in pending' <=> q \in pending
    PROVE  Weight(q)' = Weight(q)
<1>1. w \notin Working(q)
  BY DEF Working
<1>2. Cardinality(Working(q)') = Cardinality(Working(q))
  <2>1. Cardinality(Working(q)') = Cardinality(Working(q))
                                   + (IF r.payment = q /\ r.pc \in Steps THEN 1 ELSE 0)
                                   - (IF w \in Working(q) THEN 1 ELSE 0)
    BY WorkingMoves
  <2>2. Cardinality(Working(q)) \in Nat
    BY FiniteWorking
  <2> QED BY <1>1, <2>1, <2>2
<1>3. InProgress(q)' <=> InProgress(q)
  BY ProgressMoves
<1>4. Outstanding(q)' <=> Outstanding(q)
  BY <1>3 DEF Outstanding
<1> QED BY <1>2, <1>4 DEF Weight

\* A goroutine moves for payment p, and no other payment is touched: what is
\* left to show is about its record and p alone.
LEMMA HandlerStep ==
    ASSUME IInv, NEW w \in Handlers, NEW r \in Rec, handler' = [handler EXCEPT ![w] = r],
           NEW p \in paid, handler[w].payment \in {0, p}, r.payment \in {0, p},
           UNCHANGED <<payments, paid>>, sub' \in [Users -> SubRow],
           applied' \in [Ids -> Nat], applied'[p] >= applied[p],
           faults' \in faults .. MaxFaults,
           \A q \in Ids \ {p} : applied'[q] = applied[q] /\ (q \in pending' <=> q \in pending),
           pending' \subseteq pending,
           payments[p].via = "cryptobot" /\ applied'[p] = 0 => p \in pending',
           r.pc = "idle" <=> r.payment = 0,
           r.pc = "findFree" => faults' > 0,
           r.pc = "extend" => r.plan = payments[p].plan \/ (r.plan = Free /\ faults' > 0),
           r.pc = "answer" => applied'[p] > 0,
           Weight(p)' <= Weight(p) + (faults' - faults)
    PROVE  IInv'
<1>1. /\ handler' \in [Handlers -> Rec] /\ handler'[w] = r
      /\ \A v \in Handlers : v # w => handler'[v] = handler[v]
  BY Moves
<1>2. Ids' = Ids /\ Ids \subseteq Nat \ {0} /\ paid \subseteq Ids /\ 0 \notin paid
  <2>1. Ids' = Ids
    BY DEF Ids
  <2> QED BY <2>1, IdsType
<1>3. faults \in Nat /\ faults' \in Nat /\ faults' >= faults /\ faults' \in 0 .. MaxFaults
  BY BillingAssumption DEF IInv, TypeOK
<1>4. applied \in [Ids -> Nat] /\ \A q \in Ids : applied'[q] >= applied[q]
  BY <1>2 DEF IInv, TypeOK
<1>5. TypeOK'
  <2>1. pending' \subseteq paid
    BY DEF IInv, TypeOK
  <2>2. payments' \in [Ids' -> Payment] /\ (Ids = 1 .. Cardinality(Ids))'
    BY <1>2 DEF IInv, TypeOK
  <2> QED BY <1>1, <1>2, <1>3, <2>1, <2>2 DEF TypeOK, Rec, Steps
<1>6. PaymentsOK'
  BY <1>2, <1>4 DEF IInv, PaymentsOK
<1>7. HandlersOK'
  <2> SUFFICES ASSUME NEW v \in Handlers
               PROVE  /\ handler'[v].pc = "idle" => handler'[v].payment = 0
                      /\ handler'[v].pc # "idle" => handler'[v].payment \in paid
                      /\ handler'[v].pc = "findFree" => faults' > 0
                      /\ handler'[v].pc = "extend" =>
                            \/ handler'[v].plan = payments[handler'[v].payment].plan
                            \/ handler'[v].plan = Free /\ faults' > 0
                      /\ handler'[v].pc = "answer" => applied'[handler'[v].payment] > 0
    BY DEF HandlersOK, PaymentOf
  <2>1. CASE v = w
    BY <1>1, <1>2, <2>1
  <2>2. CASE v # w
    <3>1. handler'[v] = handler[v]
      BY <1>1, <2>2
    <3>2. handler[v].pc = "answer" => applied[handler[v].payment] > 0 /\ handler[v].payment \in Ids
      BY <1>2 DEF IInv, HandlersOK
    <3> QED BY <1>3, <1>4, <3>1, <3>2 DEF IInv, HandlersOK, PaymentOf
  <2> QED BY <2>1, <2>2
<1>8. WeightsOK'
  <2> SUFFICES ASSUME NEW q \in Ids PROVE Weight(q)' <= 1 + faults'
    BY <1>2 DEF WeightsOK
  <2>1. Weight(q) <= 1 + faults /\ Weight(q) \in Nat
    BY <1>4, FiniteWorking DEF IInv, WeightsOK, Weight
  <2>2. Weight(q)' \in Nat
    <3>1. Cardinality(Working(q)') \in Nat
      BY WorkingMoves
    <3> QED BY <3>1 DEF Weight
  <2>3. CASE q = p
    BY <1>3, <2>1, <2>2, <2>3
  <2>4. CASE q # p
    <3>1. Weight(q)' = Weight(q)
      BY <1>2, <2>4, OthersWeigh
    <3> QED BY <1>3, <2>1, <3>1
  <2> QED BY <2>3, <2>4
<1> QED BY <1>5, <1>6, <1>7, <1>8 DEF IInv

\* What the steps below use of the invariant.
LEMMA Facts ==
    ASSUME IInv
    PROVE  /\ handler \in [Handlers -> Rec]
           /\ sub \in [Users -> SubRow] /\ applied \in [Ids -> Nat]
           /\ pending \subseteq paid /\ paid \subseteq Ids /\ Ids \subseteq Nat \ {0}
           /\ faults \in Nat /\ faults \in 0 .. MaxFaults
           /\ payments \in [Ids -> Payment]
BY RecType, IdsType, BillingAssumption DEF IInv, TypeOK

LEMMA DeliverStep ==
    ASSUME IInv, NEW w \in Handlers, Deliver(w) \/ DeliverAgain(w)
    PROVE  IInv'
<1>1. PICK p \in pending : Start(w, p) /\ \/ Deliver(w) /\ (payments[p].via = "cryptobot" => ~InProgress(p))
                                             /\ pending' = IF payments[p].via = "yookassa"
                                                           THEN pending \ {p} ELSE pending
                                          \/ DeliverAgain(w) /\ pending' = pending
  BY DEF Deliver, yookassa_, cryptobot_, DeliverAgain
<1> DEFINE r == [Idle EXCEPT !.pc = "findPlan", !.payment = p]
<1>2. p \in paid /\ p \in Ids /\ p # 0 /\ payments[p].via \in {"yookassa", "cryptobot"}
  BY Facts DEF Payment, Enabled
<1>3. r \in Rec /\ r.pc = "findPlan" /\ r.payment = p
  BY <1>2 DEF Idle, Rec, Steps
<1>4. handler' = [handler EXCEPT ![w] = r] /\ handler[w].pc = "idle" /\ handler[w].payment = 0
  BY <1>1 DEF Start, IInv, HandlersOK
<1> HIDE DEF r
<1>5. UNCHANGED <<sub, payments, paid, applied>>
      /\ (Deliver(w) => faults' = faults) /\ (DeliverAgain(w) => faults' = faults + 1 /\ faults < MaxFaults)
  BY DEF Deliver, yookassa_, cryptobot_, DeliverAgain, Fault
<1>6. faults' \in faults .. MaxFaults
  BY <1>5, Facts, BillingAssumption
<1>7. Weight(p)' <= Weight(p) + (faults' - faults)
  <2>1. Cardinality(Working(p)') = Cardinality(Working(p)) + 1 /\ Cardinality(Working(p)) \in Nat
    <3>1. w \notin Working(p) /\ r.pc \in Steps
      BY <1>2, <1>3, <1>4 DEF Working, Steps
    <3>2. Cardinality(Working(p)) \in Nat
      BY FiniteWorking
    <3>3. Cardinality(Working(p)') = Cardinality(Working(p))
                                     + (IF r.payment = p /\ r.pc \in Steps THEN 1 ELSE 0)
                                     - (IF w \in Working(p) THEN 1 ELSE 0)
      BY <1>3, <1>4, WorkingMoves
    <3> QED BY <1>3, <3>1, <3>2, <3>3
  <2>2. InProgress(p)'
    BY <1>3, <1>4, Moves DEF InProgress
  <2>3. p \notin pending' \/ payments[p].via = "cryptobot" => ~Outstanding(p)'
    BY <1>1, <1>2, <1>5, <2>2 DEF Outstanding
  <2>4. CASE Deliver(w) /\ (payments[p].via = "cryptobot" => ~InProgress(p))
             /\ pending' = IF payments[p].via = "yookassa" THEN pending \ {p} ELSE pending
    <3>1. Outstanding(p) /\ ~Outstanding(p)'
      BY <1>1, <1>2, <2>3, <2>4 DEF Outstanding
    <3> QED BY <3>1, <2>1, <2>4, <1>2, <1>5, Facts DEF Weight
  <2>5. CASE DeliverAgain(w) /\ pending' = pending
    <3>1. Outstanding(p)' => Outstanding(p)
      BY <1>1, <1>2, <1>5, <2>3, <2>5 DEF Outstanding
    <3> QED BY <3>1, <2>1, <2>5, <1>2, <1>5, Facts DEF Weight
  <2> QED BY <1>1, <2>4, <2>5
<1>8. sub' \in [Users -> SubRow] /\ applied' \in [Ids -> Nat] /\ applied'[p] >= applied[p]
      /\ pending' \subseteq pending
      /\ \A q \in Ids \ {p} : applied'[q] = applied[q] /\ (q \in pending' <=> q \in pending)
  BY <1>1, <1>2, <1>5, Facts
<1>9. payments[p].via = "cryptobot" => p \in pending'
  BY <1>1
<1> QED BY <1>2, <1>3, <1>4, <1>5, <1>6, <1>7, <1>8, <1>9, HandlerStep

\* A goroutine that looks for a plan keeps its payment's weight.
LEMMA FindStep ==
    ASSUME IInv, NEW w \in Handlers, FindPlan(w) \/ FindFree(w)
    PROVE  IInv'
<1>1. handler[w] \in Rec /\ handler[w].pc \in {"findPlan", "findFree"}
  BY Facts DEF FindPlan, FindFree
<1>9. PICK p \in paid : handler[w].payment = p
  BY <1>1 DEF IInv, HandlersOK
<1>2. p \in Ids /\ p # 0 /\ payments[p].plan \in Plans
  BY Facts DEF Payment
<1>3. PICK r \in Rec : /\ handler' = [handler EXCEPT ![w] = r] /\ r.payment = p
                       /\ \/ r.pc = "extend" /\ r.plan = payments[p].plan /\ faults' = faults
                          \/ r.pc = "extend" /\ r.plan = Free /\ faults' = faults /\ faults > 0
                          \/ r.pc = "findFree" /\ faults' = faults + 1 /\ faults < MaxFaults
  <2>1. ASSUME NEW slug \in Plans \cup {Free}
        PROVE  LET r == [handler[w] EXCEPT !.pc = "extend", !.plan = slug]
               IN  r \in Rec /\ r.pc = "extend" /\ r.plan = slug /\ r.payment = p
    BY <1>1, <1>9 DEF Rec, Steps
  <2>2. LET r == [handler[w] EXCEPT !.pc = "findFree"]
        IN  r \in Rec /\ r.pc = "findFree" /\ r.payment = p
    BY <1>1, <1>9 DEF Rec, Steps
  <2>3. CASE FindPlan(w) /\ FindBySlug(w, PaymentOf(w).plan) /\ UNCHANGED faults
    <3> DEFINE r == [handler[w] EXCEPT !.pc = "extend", !.plan = payments[p].plan]
    <3>1. r \in Rec /\ r.pc = "extend" /\ r.plan = payments[p].plan /\ r.payment = p
      BY <1>2, <2>1
    <3>2. handler' = [handler EXCEPT ![w] = r]
      BY <2>3, <1>9, Facts DEF FindBySlug, PaymentOf
    <3> HIDE DEF r
    <3> QED BY <2>3, <3>1, <3>2
  <2>4. CASE FindFree(w)
    <3> DEFINE r == [handler[w] EXCEPT !.pc = "extend", !.plan = Free]
    <3>1. r \in Rec /\ r.pc = "extend" /\ r.plan = Free /\ r.payment = p
      BY <2>1
    <3>2. handler' = [handler EXCEPT ![w] = r]
      BY <2>4, Facts DEF FindFree, FindBySlug
    <3>3. faults > 0 /\ faults' = faults
      BY <2>4 DEF FindFree, IInv, HandlersOK
    <3> HIDE DEF r
    <3> QED BY <3>1, <3>2, <3>3
  <2>5. CASE FindPlan(w) /\ Goto(w, "findFree") /\ Fault
    <3> DEFINE r == [handler[w] EXCEPT !.pc = "findFree"]
    <3>1. r \in Rec /\ r.pc = "findFree" /\ r.payment = p
      BY <2>2
    <3>2. handler' = [handler EXCEPT ![w] = r]
      BY <2>5, Facts DEF Goto
    <3> HIDE DEF r
    <3> QED BY <2>5, <3>1, <3>2 DEF Fault
  <2> QED BY <2>3, <2>4, <2>5 DEF FindPlan
<1>4. UNCHANGED <<sub, payments, paid, pending, applied>>
  BY DEF FindPlan, FindFree
<1>5. faults' \in faults .. MaxFaults
  BY <1>3, Facts, BillingAssumption
<1>6. Weight(p)' <= Weight(p) + (faults' - faults)
  <2>1. w \in Working(p) /\ r.pc \in Steps
    BY <1>1, <1>3, <1>9 DEF Working, Steps
  <2>2. Cardinality(Working(p)) \in Nat
    BY FiniteWorking
  <2>3. Cardinality(Working(p)') = Cardinality(Working(p))
                                   + (IF r.payment = p /\ r.pc \in Steps THEN 1 ELSE 0)
                                   - (IF w \in Working(p) THEN 1 ELSE 0)
    BY <1>3, WorkingMoves
  <2>4. Cardinality(Working(p)') = Cardinality(Working(p))
    BY <1>3, <2>1, <2>2, <2>3
  <2>5. InProgress(p)
    BY <1>9 DEF InProgress
  <2>6. InProgress(p)'
    BY <1>3, Moves DEF InProgress
  <2>7. Outstanding(p)' <=> Outstanding(p)
    BY <1>4, <2>5, <2>6 DEF Outstanding
  <2> QED BY <1>2, <1>3, <1>4, <2>2, <2>4, <2>7, Facts DEF Weight
<1>7. sub' \in [Users -> SubRow] /\ applied' \in [Ids -> Nat] /\ applied'[p] >= applied[p]
  BY <1>2, <1>4, Facts
<1>8. payments[p].via = "cryptobot" /\ applied'[p] = 0 => p \in pending'
  BY <1>2, <1>4 DEF IInv, PaymentsOK
<1>10. /\ r.pc # "idle" /\ r.payment # 0 /\ r.pc # "answer"
       /\ r.pc = "findFree" => faults' > 0
       /\ r.pc = "extend" => r.plan = payments[p].plan \/ (r.plan = Free /\ faults' > 0)
  BY <1>2, <1>3, Facts
<1>11. \A q \in Ids \ {p} : applied'[q] = applied[q] /\ (q \in pending' <=> q \in pending)
  BY <1>4
<1>12. handler' = [handler EXCEPT ![w] = r] /\ r.payment = p
  BY <1>3
<1> QED BY <1>4, <1>5, <1>6, <1>7, <1>8, <1>9, <1>10, <1>11, <1>12, HandlerStep

\* A goroutine that ends leaves its payment one worker less, and may leave a
\* notification that is outstanding again.
LEMMA ReturnWeighs ==
    ASSUME IInv, NEW w \in Handlers, NEW p \in Ids, handler[w].payment = p, Return(w),
           payments' = payments
    PROVE  /\ Cardinality(Working(p)') = Cardinality(Working(p))
                                         - (IF handler[w].pc \in Steps THEN 1 ELSE 0)
           /\ Cardinality(Working(p)) \in Nat /\ Cardinality(Working(p)') \in Nat
           /\ payments[p].via # "cryptobot" /\ pending' \subseteq pending
                 => (Outstanding(p)' => Outstanding(p))
<1>1. Idle \in Rec /\ handler' = [handler EXCEPT ![w] = Idle] /\ Idle.pc \notin Steps
  BY DEF Return, Idle, Rec, Steps
<1>2. Cardinality(Working(p)') = Cardinality(Working(p))
                                 + (IF Idle.payment = p /\ Idle.pc \in Steps THEN 1 ELSE 0)
                                 - (IF w \in Working(p) THEN 1 ELSE 0)
      /\ Cardinality(Working(p)') \in Nat
  BY <1>1, WorkingMoves
<1>3. Cardinality(Working(p)) \in Nat
  BY FiniteWorking
<1>4. w \in Working(p) <=> handler[w].pc \in Steps
  BY DEF Working
<1>5. payments[p].via # "cryptobot" /\ pending' \subseteq pending
      => (Outstanding(p)' => Outstanding(p))
  BY DEF Outstanding
<1> QED BY <1>1, <1>2, <1>3, <1>4, <1>5

LEMMA IdleRec == Idle \in Rec /\ Idle.pc = "idle" /\ Idle.payment = 0
BY DEF Idle, Rec

LEMMA ExtendStep ==
    ASSUME IInv, NEW w \in Handlers, ExtendPeriod(w)
    PROVE  IInv'
<1>1. handler[w] \in Rec /\ handler[w].pc = "extend"
  BY Facts DEF ExtendPeriod
<1>2. PICK p \in paid : handler[w].payment = p
  BY <1>1 DEF IInv, HandlersOK
<1>3. p \in Ids /\ p # 0 /\ payments[p] \in Payment /\ payments[p].via \in {"yookassa", "cryptobot"}
  BY Facts DEF Payment, Enabled
<1>4. /\ sub' = [sub EXCEPT ![payments[p].user] = Extended(@, handler[w].plan, IntervalToSQL(payments[p].interval))]
      /\ applied' = [applied EXCEPT ![p] = @ + 1]
      /\ IF payments[p].via = "cryptobot" THEN Goto(w, "answer") ELSE Return(w)
      /\ UNCHANGED <<payments, paid, pending, faults>>
  BY <1>2 DEF ExtendPeriod, PaymentOf
<1>5. sub' \in [Users -> SubRow]
  <2>1. handler[w].plan \in Plans \cup {Free}
    BY <1>1, <1>2, <1>3 DEF IInv, HandlersOK, PaymentOf, Payment
  <2>2. payments[p].user \in Users /\ IntervalToSQL(payments[p].interval) \in Nat
    BY <1>3, IntervalType DEF Payment
  <2>3. sub[payments[p].user] \in SubRow
    BY <2>2, Facts
  <2>4. Extended(sub[payments[p].user], handler[w].plan, IntervalToSQL(payments[p].interval)) \in SubRow
    BY <2>1, <2>2, <2>3 DEF Extended, SubRow
  <2> QED BY <1>4, <2>2, <2>4, Facts
<1>6. applied' \in [Ids -> Nat] /\ applied'[p] = applied[p] + 1 /\ applied[p] \in Nat
      /\ \A q \in Ids \ {p} : applied'[q] = applied[q]
  BY <1>3, <1>4, Facts
<1>7. faults' \in faults .. MaxFaults /\ faults' - faults = 0
  BY <1>4, Facts, BillingAssumption
<1>8. /\ applied'[p] # 0 /\ applied'[p] > 0 /\ applied'[p] >= applied[p]
       /\ pending' \subseteq pending
       /\ \A q \in Ids \ {p} : applied'[q] = applied[q] /\ (q \in pending' <=> q \in pending)
  BY <1>4, <1>6
<1>9. UNCHANGED <<payments, paid>>
  BY <1>4
<1>10. CASE payments[p].via = "cryptobot"
  <2> DEFINE r == [handler[w] EXCEPT !.pc = "answer"]
  <2>1. r \in Rec /\ r.pc = "answer" /\ r.payment = p
    BY <1>1, <1>2 DEF Rec
  <2>2. handler' = [handler EXCEPT ![w] = r]
    BY <1>4, <1>10, Facts DEF Goto
  <2> HIDE DEF r
  <2>3. Cardinality(Working(p)') = Cardinality(Working(p)) - 1
        /\ Cardinality(Working(p)') \in Nat
    <3>1. w \in Working(p) /\ r.pc \notin Steps
      BY <1>1, <1>2, <2>1 DEF Working, Steps
    <3>2. Cardinality(Working(p)) \in Nat
      BY FiniteWorking
    <3>3. Cardinality(Working(p)') = Cardinality(Working(p))
                                     + (IF r.payment = p /\ r.pc \in Steps THEN 1 ELSE 0)
                                     - (IF w \in Working(p) THEN 1 ELSE 0)
          /\ Cardinality(Working(p)') \in Nat
      BY <2>1, <2>2, WorkingMoves
    <3> QED BY <3>1, <3>2, <3>3
  <2>4. InProgress(p)'
    BY <2>1, <2>2, Moves DEF InProgress
  <2>5. ~Outstanding(p)'
    BY <1>4, <1>10, <2>4 DEF Outstanding
  <2>6. Cardinality(Working(p)) \in Nat
    BY FiniteWorking
  <2>7. Weight(p)' <= Weight(p) + (faults' - faults)
    BY <1>6, <1>7, <2>3, <2>5, <2>6 DEF Weight
  <2>8. /\ r.pc # "idle" /\ r.payment # 0 /\ r.pc # "findFree" /\ r.pc # "extend"
        /\ applied'[p] > 0
    BY <1>3, <1>6, <2>1
  <2> QED BY <1>2, <1>5, <1>6, <1>7, <1>8, <1>9, <2>1, <2>2, <2>7, <2>8, HandlerStep
<1>11. CASE payments[p].via # "cryptobot"
  <2>1. Return(w)
    BY <1>4, <1>11
  <2>2. Cardinality(Working(p)') = Cardinality(Working(p)) - 1
        /\ Cardinality(Working(p)) \in Nat /\ Cardinality(Working(p)') \in Nat
        /\ (Outstanding(p)' => Outstanding(p))
    BY <1>1, <1>2, <1>3, <1>4, <1>11, <2>1, ReturnWeighs DEF Steps
  <2>3. Weight(p)' <= Weight(p) + (faults' - faults)
    BY <1>6, <1>7, <2>2 DEF Weight
  <2>4. handler' = [handler EXCEPT ![w] = Idle]
    BY <2>1 DEF Return
  <2> QED BY <1>2, <1>5, <1>6, <1>7, <1>8, <1>9, <2>3, <2>4, IdleRec, HandlerStep
<1> QED BY <1>10, <1>11

LEMMA EndStep ==
    ASSUME IInv, NEW w \in Handlers, Answer(w) \/ Fail(w)
    PROVE  IInv'
<1>1. handler[w] \in Rec /\ handler[w].pc \in {"answer", "findFree", "extend"} /\ Return(w)
  BY Facts DEF Answer, Fail
<1>2. PICK p \in paid : handler[w].payment = p
  BY <1>1 DEF IInv, HandlersOK
<1>3. p \in Ids /\ p # 0 /\ UNCHANGED <<sub, payments, paid, applied>> /\ applied[p] \in Nat
  BY Facts DEF Answer, Fail
<1>4. \/ Answer(w) /\ pending' = pending \ {p} /\ faults' = faults
      \/ faults' = faults + 1 /\ faults < MaxFaults /\ pending' = pending
  BY <1>2 DEF Answer, Fail, Fault
<1>5. Cardinality(Working(p)') <= Cardinality(Working(p))
      /\ Cardinality(Working(p)) \in Nat /\ Cardinality(Working(p)') \in Nat
  <2>1. Cardinality(Working(p)') = Cardinality(Working(p))
                                   - (IF handler[w].pc \in Steps THEN 1 ELSE 0)
        /\ Cardinality(Working(p)) \in Nat /\ Cardinality(Working(p)') \in Nat
    BY <1>1, <1>2, <1>3, ReturnWeighs
  <2> QED BY <2>1
<1>6. Weight(p)' <= Weight(p) + (faults' - faults)
  <2>1. pending' = pending \ {p} => ~Outstanding(p)'
    BY DEF Outstanding
  <2>2. faults \in Nat
    BY Facts
  <2> QED BY <1>3, <1>4, <1>5, <2>1, <2>2 DEF Weight
<1>7. faults' \in faults .. MaxFaults
  BY <1>4, Facts, BillingAssumption
<1>8. payments[p].via = "cryptobot" /\ applied'[p] = 0 => p \in pending'
  <2>1. Answer(w) => applied[p] > 0
    BY <1>2 DEF Answer, IInv, HandlersOK
  <2> QED BY <1>3, <1>4, <2>1 DEF IInv, PaymentsOK
<1>9. /\ sub' \in [Users -> SubRow] /\ applied' \in [Ids -> Nat] /\ applied'[p] >= applied[p]
      /\ pending' \subseteq pending
      /\ \A q \in Ids \ {p} : applied'[q] = applied[q] /\ (q \in pending' <=> q \in pending)
  BY <1>3, <1>4, Facts
<1>10. handler' = [handler EXCEPT ![w] = Idle]
  BY <1>1 DEF Return
<1> QED BY <1>2, <1>3, <1>6, <1>7, <1>8, <1>9, <1>10, IdleRec, HandlerStep

LEMMA CrashStep ==
    ASSUME IInv, Crash
    PROVE  IInv'
<1>1. /\ handler' = [w \in Handlers |-> Idle] /\ faults' = faults + 1 /\ faults < MaxFaults
      /\ UNCHANGED <<sub, payments, paid, pending, applied>>
  BY DEF Crash, Fault
<1>2. Ids' = Ids
  BY <1>1 DEF Ids
<1>3. \A w \in Handlers : handler'[w] = Idle
  BY <1>1
<1>4. faults' \in 0 .. MaxFaults /\ faults \in Nat
  BY <1>1, Facts, BillingAssumption
<1>5. TypeOK'
  <2>1. handler' \in [Handlers -> Rec']
    BY <1>1 DEF Idle, Rec
  <2> QED BY <1>1, <1>2, <1>4, <2>1 DEF IInv, TypeOK, Rec, Steps
<1>6. PaymentsOK'
  BY <1>1, <1>2 DEF IInv, PaymentsOK
<1>7. HandlersOK'
  BY <1>3 DEF HandlersOK, Idle
<1>8. WeightsOK'
  <2> SUFFICES ASSUME NEW q \in Ids PROVE Weight(q)' <= 1 + faults'
    BY <1>2 DEF WeightsOK
  <2>1. Working(q)' = {}
    BY <1>3 DEF Working, Idle, Steps
  <2>2. Cardinality(Working(q)') = 0
    BY <2>1, FS_EmptySet
  <2>3. Weight(q) <= 1 + faults /\ Cardinality(Working(q)) \in Nat /\ applied[q] \in Nat
    BY FiniteWorking, Facts DEF IInv, WeightsOK
  <2> QED BY <1>1, <1>4, <2>2, <2>3 DEF Weight
<1> QED BY <1>5, <1>6, <1>7, <1>8 DEF IInv

LEMMA UntrustedStep ==
    ASSUME IInv, Untrusted
    PROVE  IInv'
<1>1. PICK p \in pending : payments[p].via = "yookassa" /\ pending' = pending \ {p}
  BY DEF Untrusted
<1>2. /\ faults' = faults + 1 /\ faults < MaxFaults
      /\ UNCHANGED <<sub, payments, paid, handler, applied>>
  BY DEF Untrusted, Fault
<1>3. Ids' = Ids
  BY <1>2 DEF Ids
<1>4. faults' \in 0 .. MaxFaults /\ faults \in Nat
  BY <1>2, Facts, BillingAssumption
<1>5. TypeOK'
  BY <1>1, <1>2, <1>3, <1>4 DEF IInv, TypeOK
<1>6. PaymentsOK'
  BY <1>1, <1>2, <1>3 DEF IInv, PaymentsOK
<1>7. HandlersOK'
  BY <1>2, <1>4 DEF IInv, HandlersOK, PaymentOf
<1>8. WeightsOK'
  <2> SUFFICES ASSUME NEW q \in Ids PROVE Weight(q)' <= 1 + faults'
    BY <1>3 DEF WeightsOK
  <2>1. Working(q)' = Working(q) /\ (Outstanding(q)' => Outstanding(q))
    BY <1>1, <1>2 DEF Working, Outstanding, InProgress
  <2>2. Weight(q) <= 1 + faults /\ Cardinality(Working(q)) \in Nat /\ applied[q] \in Nat
    BY FiniteWorking, Facts DEF IInv, WeightsOK
  <2> QED BY <1>2, <1>4, <2>1, <2>2 DEF Weight
<1> QED BY <1>5, <1>6, <1>7, <1>8 DEF IInv

LEMMA MissignedStep ==
    ASSUME IInv, Missigned
    PROVE  IInv'
<1>1. /\ faults' = faults + 1 /\ faults < MaxFaults
      /\ UNCHANGED <<sub, payments, paid, pending, handler, applied>>
  BY DEF Missigned, Fault
<1>2. Ids' = Ids
  BY <1>1 DEF Ids
<1>3. faults' \in 0 .. MaxFaults /\ faults \in Nat
  BY <1>1, Facts, BillingAssumption
<1>4. TypeOK'
  BY <1>1, <1>2, <1>3 DEF IInv, TypeOK
<1>5. PaymentsOK'
  BY <1>1, <1>2, <1>3 DEF IInv, PaymentsOK
<1>6. HandlersOK'
  BY <1>1, <1>3 DEF IInv, HandlersOK, PaymentOf
<1>7. WeightsOK'
  <2> SUFFICES ASSUME NEW q \in Ids PROVE Weight(q)' <= 1 + faults'
    BY <1>2 DEF WeightsOK
  <2>1. Working(q)' = Working(q) /\ (Outstanding(q)' => Outstanding(q))
    BY <1>1 DEF Working, Outstanding, InProgress
  <2>2. Weight(q) <= 1 + faults /\ Cardinality(Working(q)) \in Nat /\ applied[q] \in Nat
    BY FiniteWorking, Facts DEF IInv, WeightsOK
  <2> QED BY <1>1, <1>3, <2>1, <2>2 DEF Weight
<1> QED BY <1>4, <1>5, <1>6, <1>7 DEF IInv

LEMMA TickStep ==
    ASSUME IInv, Tick
    PROVE  IInv'
<1>1. UNCHANGED <<payments, paid, pending, handler, applied, faults>>
  BY DEF Tick
<1>2. sub' \in [Users -> SubRow]
  <2>1. sub' = [u \in Users |-> [sub[u] EXCEPT !.left = IF @ > 0 THEN @ - 1 ELSE 0]]
    BY DEF Tick
  <2>2. ASSUME NEW u \in Users PROVE [sub[u] EXCEPT !.left = IF @ > 0 THEN @ - 1 ELSE 0] \in SubRow
    <3>1. sub[u] \in SubRow /\ sub[u].left \in Nat
      BY Facts DEF SubRow
    <3>2. (IF sub[u].left > 0 THEN sub[u].left - 1 ELSE 0) \in Nat
      BY <3>1
    <3> QED BY <3>1, <3>2 DEF SubRow
  <2> QED BY <2>1, <2>2
<1>3. Ids' = Ids
  BY <1>1 DEF Ids
<1>4. TypeOK'
  BY <1>1, <1>2, <1>3 DEF IInv, TypeOK
<1>5. PaymentsOK' /\ HandlersOK'
  BY <1>1, <1>3 DEF IInv, PaymentsOK, HandlersOK, PaymentOf
<1>6. WeightsOK'
  BY <1>1, <1>3 DEF IInv, WeightsOK, Weight, Working, Outstanding, InProgress
<1> QED BY <1>4, <1>5, <1>6 DEF IInv

LEMMA PayStep ==
    ASSUME IInv, Pay
    PROVE  IInv'
<1>1. PICK p \in Ids \ paid : paid' = paid \cup {p} /\ pending' = pending \cup {p}
  BY DEF Pay
<1>2. UNCHANGED <<sub, payments, handler, applied, faults>>
  BY DEF Pay
<1>3. Ids' = Ids
  BY <1>2 DEF Ids
<1>4. TypeOK'
  <2>1. handler' \in [Handlers -> Rec']
    BY <1>1, <1>2, Facts DEF Rec
  <2> QED BY <1>1, <1>2, <1>3, <2>1 DEF IInv, TypeOK, Rec, Steps
<1>5. PaymentsOK'
  BY <1>1, <1>2, <1>3 DEF IInv, PaymentsOK
<1>6. HandlersOK'
  BY <1>1, <1>2 DEF IInv, HandlersOK, PaymentOf
<1>7. WeightsOK'
  <2> SUFFICES ASSUME NEW q \in Ids PROVE Weight(q)' <= 1 + faults'
    BY <1>3 DEF WeightsOK
  <2>1. Working(q)' = Working(q)
    BY <1>2 DEF Working
  <2>2. faults' = faults /\ applied'[q] = applied[q] /\ faults \in Nat
    BY <1>2, Facts
  <2>3. CASE q = p
    <3>1. Working(q) = {}
      BY <1>1, <2>3, Facts, IdsType DEF Working, Rec
    <3>2. Cardinality(Working(q)') = 0
      BY <3>1, <2>1, FS_EmptySet
    <3>3. applied[q] = 0
      BY <1>1, <2>3 DEF IInv, PaymentsOK
    <3> QED BY <3>2, <3>3, <2>2 DEF Weight
  <2>4. CASE q # p
    <3>1. Outstanding(q)' <=> Outstanding(q)
      BY <1>1, <1>2, <2>4 DEF Outstanding, InProgress
    <3>2. Weight(q) <= 1 + faults
      BY DEF IInv, WeightsOK
    <3> QED BY <3>1, <3>2, <2>1, <2>2 DEF Weight
  <2> QED BY <2>3, <2>4
<1> QED BY <1>4, <1>5, <1>6, <1>7 DEF IInv

LEMMA CreateStep ==
    ASSUME IInv, SubscribeYooKassa \/ SubscribeCryptoBot
    PROVE  IInv'
<1> DEFINE n == Cardinality(Ids)
<1>1. PICK u \in Users, plan \in Plans \cup {Free}, i \in BillingIntervals, via \in Enabled :
          Create(u, plan, i, planPriceRub(plan), via) \/ Create(u, plan, i, planCryptoAmount(plan), via)
  BY DEF SubscribeYooKassa, SubscribeCryptoBot, CreatePaymentURL, CreateInvoice, post, call, Enabled
<1>2. UNCHANGED <<sub, paid, pending, handler, faults>>
  BY DEF SubscribeYooKassa, SubscribeCryptoBot
<1>3. n \in Nat /\ Ids = 1 .. n /\ applied \in [Ids -> Nat] /\ payments \in [Ids -> Payment]
  BY BillingAssumption DEF IInv, PaymentsOK, TypeOK
<1> DEFINE row == [user |-> u, plan |-> plan, interval |-> i, via |-> via]
<1>4. /\ n + 1 <= MaxPayments /\ plan \in Plans
      /\ payments' = [x \in Ids \cup {n + 1} |-> IF x = n + 1 THEN row ELSE payments[x]]
      /\ applied' = [x \in Ids \cup {n + 1} |-> IF x = n + 1 THEN 0 ELSE applied[x]]
  BY <1>1, BillingAssumption DEF Create, planPriceRub, planCryptoAmount
<1>5. row \in Payment
  BY <1>4 DEF Payment
<1> HIDE DEF row, n
<1>6. Ids' = Ids \cup {n + 1} /\ Ids' = 1 .. n + 1
  <2>1. DOMAIN payments' = Ids \cup {n + 1}
    BY <1>4
  <2> QED BY <1>3, <2>1 DEF Ids
<1>7. Cardinality(Ids') = n + 1 /\ (Ids = 1 .. Cardinality(Ids))'
  <2>1. Cardinality(1 .. n + 1) = n + 1
    BY <1>3, FS_Interval
  <2> QED BY <1>6, <2>1
<1>8. \A q \in Ids : q # n + 1 /\ payments'[q] = payments[q] /\ applied'[q] = applied[q]
  BY <1>3, <1>4
<1>9. payments' \in [Ids' -> Payment] /\ applied' \in [Ids' -> Nat] /\ applied'[n + 1] = 0
  BY <1>3, <1>4, <1>5, <1>6
<1>10. paid \subseteq Ids /\ pending \subseteq paid /\ n + 1 \notin paid
  BY <1>8, Facts
<1>11. TypeOK'
  BY <1>2, <1>6, <1>7, <1>9, <1>10 DEF IInv, TypeOK
<1>12. PaymentsOK'
  BY <1>2, <1>3, <1>4, <1>6, <1>7, <1>8, <1>9, <1>10, BillingAssumption DEF IInv, PaymentsOK
<1>13. HandlersOK'
  BY <1>2, <1>8, <1>10 DEF IInv, HandlersOK, PaymentOf
<1>14. WeightsOK'
  <2> SUFFICES ASSUME NEW q \in Ids' PROVE Weight(q)' <= 1 + faults'
    BY DEF WeightsOK
  <2>1. faults' = faults /\ faults \in Nat /\ Working(q)' = Working(q)
    BY <1>2, Facts DEF Working
  <2>2. CASE q = n + 1
    <3>1. Working(q) = {}
      BY <1>3, <1>10, <2>2, Facts DEF Working, Rec
    <3>2. Cardinality(Working(q)') = 0
      BY <3>1, <2>1, FS_EmptySet
    <3>3. ~Outstanding(q)'
      BY <1>2, <1>10, <2>2 DEF Outstanding
    <3> QED BY <1>9, <2>1, <2>2, <3>2, <3>3 DEF Weight
  <2>3. CASE q \in Ids
    <3>1. Outstanding(q)' <=> Outstanding(q)
      BY <1>2, <1>8, <2>3 DEF Outstanding, InProgress
    <3>2. Weight(q) <= 1 + faults /\ applied'[q] = applied[q]
      BY <1>8, <2>3 DEF IInv, WeightsOK
    <3> QED BY <3>1, <3>2, <2>1 DEF Weight
  <2> QED BY <1>6, <2>2, <2>3
<1> QED BY <1>11, <1>12, <1>13, <1>14 DEF IInv

LEMMA InitInv == Init => IInv
<1> SUFFICES ASSUME Init PROVE IInv
  OBVIOUS
<1>1. Ids = {} /\ Cardinality(Ids) = 0 /\ Ids = 1 .. Cardinality(Ids)
  <2>1. Ids = {}
    BY DEF Init, Ids
  <2>2. Cardinality(Ids) = 0
    BY <2>1, FS_EmptySet
  <2> QED BY <2>1, <2>2
<1>2. payments \in [Ids -> Payment] /\ applied \in [Ids -> Nat]
  BY <1>1 DEF Init, Ids
<1>3. handler \in [Handlers -> Rec]
  BY DEF Init, Idle, Rec
<1>4. sub \in [Users -> SubRow]
  BY DEF Init, SubRow
<1>5. TypeOK
  BY <1>1, <1>2, <1>3, <1>4, BillingAssumption DEF Init, TypeOK, Rec, Steps
<1>6. PaymentsOK /\ HandlersOK /\ WeightsOK
  BY <1>1, BillingAssumption DEF Init, PaymentsOK, HandlersOK, WeightsOK, Idle
<1> QED BY <1>5, <1>6 DEF IInv

LEMMA InvStep ==
    ASSUME IInv, [Next]_vars
    PROVE  IInv'
<1>1. CASE Next
  BY <1>1, DeliverStep, FindStep, ExtendStep, EndStep, CrashStep, UntrustedStep, MissignedStep,
     TickStep, PayStep, CreateStep
  DEF Next, Work
<1>2. CASE UNCHANGED vars
  <2>1. UNCHANGED <<sub, payments, paid, pending, handler, applied, faults>>
    BY <1>2 DEF vars
  <2>2. Ids' = Ids
    BY <2>1 DEF Ids
  <2> QED
    BY <2>1, <2>2
    DEF IInv, TypeOK, PaymentsOK, HandlersOK, PaymentOf, WeightsOK, Weight, Working, Outstanding, InProgress
<1> QED BY <1>1, <1>2

LEMMA Invariance == Spec => []IInv
BY InitInv, InvStep, PTL DEF Spec

\* Rows, payments and goroutines keep their shapes; in particular a goroutine
\* only ever works for a payment that was paid.
THEOREM BillingTyped == Spec => []TypeOK
<1>1. IInv => TypeOK
  BY DEF IInv
<1> QED BY <1>1, Invariance, PTL

\* ExtendPeriod runs once for a payment, and at most once more for every
\* failure, for any number of payments, webhook goroutines and failures.
THEOREM AppliedBoundedHolds == Spec => []AppliedBounded
<1>1. ASSUME IInv PROVE AppliedBounded
  <2> SUFFICES ASSUME NEW p \in Ids PROVE applied[p] <= 1 + faults
    BY DEF AppliedBounded
  <2>1. Weight(p) <= 1 + faults /\ faults \in Nat
    BY <1>1, Facts DEF IInv, WeightsOK
  <2>2. Cardinality(Working(p)) \in Nat /\ applied[p] \in Nat
    BY <1>1, Facts, FiniteWorking
  <2> QED BY <2>1, <2>2 DEF Weight
<1> QED BY <1>1, Invariance, PTL

-----------------------------------------------------------------------------
(* Billing implements PaidPeriods.                                         *)

Granted == {q \in paid : applied[q] > 0}

\* A payment once due is due, granted, or one by YooKassa that lapsed in a
\* failure: what it takes for a step to be a step of PaidPeriods.
LEMMA Disturbs ==
    ASSUME IInv, UNCHANGED <<sub, payments, paid, applied>>, faults' > 0,
           Due' \subseteq Due, \A q \in Due \ Due' : payments[q].via = "yookassa"
    PROVE  Promise!Disturb
<1> DEFINE due == {Record(q) : q \in Due}
           lapsed == {Record(q) : q \in Due \ Due'}
<1>1. \A q : Record(q)' = Record(q)
  BY DEF Record
<1>2. Due \subseteq paid
  BY DEF Due
<1>3. \A q \in paid : Record(q).id = q /\ Record(q).via = payments[q].via
  BY DEF Record
<1>4. due' = {Record(q) : q \in Due'}
  BY <1>1
<1>5. due' = due \ lapsed
  BY <1>2, <1>3, <1>4
<1>6. lapsed \in SUBSET {r \in due : r.via = "yookassa"}
  BY <1>2, <1>3
<1>7. {Record(q) : q \in Granted}' = {Record(q) : q \in Granted}
  BY <1>1 DEF Granted
<1> QED BY <1>5, <1>6, <1>7 DEF Promise!Disturb, Granted

\* A step that grants nothing and fails nothing does nothing to PaidPeriods.
LEMMA Stutters ==
    ASSUME IInv, UNCHANGED <<sub, paid, faults>>, Due' = Due,
           \A q \in paid : payments'[q] = payments[q] /\ applied'[q] = applied[q]
    PROVE  UNCHANGED Promise!vars
<1>1. \A q \in paid : Record(q)' = Record(q)
  BY DEF Record
<1>2. Due \subseteq paid
  BY DEF Due
<1>3. {Record(q) : q \in Due}' = {Record(q) : q \in Due}
  BY <1>1, <1>2
<1>4. {Record(q) : q \in Granted}' = {Record(q) : q \in Granted}
  BY <1>1 DEF Granted
<1> QED BY <1>3, <1>4 DEF Promise!vars, Granted

LEMMA DeliverImplements ==
    ASSUME IInv, NEW w \in Handlers, Deliver(w) \/ DeliverAgain(w)
    PROVE  [Promise!Next]_Promise!vars
<1>1. PICK p \in pending : Start(w, p) /\ pending \ {p} \subseteq pending' /\ pending' \subseteq pending
  BY DEF Deliver, yookassa_, cryptobot_, DeliverAgain
<1> DEFINE r == [Idle EXCEPT !.pc = "findPlan", !.payment = p]
<1>2. p \in paid /\ p # 0
  BY Facts
<1>3. r \in Rec /\ r.payment = p
  BY <1>2 DEF Idle, Rec, Steps
<1>4. handler' = [handler EXCEPT ![w] = r] /\ handler[w].payment = 0
  BY <1>1 DEF Start, IInv, HandlersOK
<1> HIDE DEF r
<1>5. UNCHANGED <<sub, payments, paid, applied>>
  BY DEF Deliver, yookassa_, cryptobot_, DeliverAgain
<1>6. Due' = Due
  <2>1. InProgress(p)'
    BY <1>3, <1>4, Moves DEF InProgress
  <2>2. \A q \in paid \ {p} : InProgress(q)' <=> InProgress(q)
    BY <1>3, <1>4, Facts, ProgressMoves
  <2>3. \A q \in paid : q \in Due' <=> q \in Due
    BY <1>1, <1>5, <2>1, <2>2 DEF Due
  <2>4. Due' \subseteq paid /\ Due \subseteq paid
    BY <1>5 DEF Due
  <2> QED BY <2>3, <2>4
<1>7. CASE faults' = faults
  BY <1>5, <1>6, <1>7, Stutters
<1>8. CASE faults' = faults + 1
  <2>1. faults' > 0
    BY <1>8, Facts
  <2> QED BY <1>5, <1>6, <2>1, Disturbs DEF Promise!Next
<1> QED BY <1>7, <1>8 DEF Deliver, yookassa_, cryptobot_, DeliverAgain, Fault

LEMMA FindImplements ==
    ASSUME IInv, NEW w \in Handlers, FindPlan(w) \/ FindFree(w)
    PROVE  [Promise!Next]_Promise!vars
<1>1. UNCHANGED <<sub, payments, paid, pending, applied>>
  BY DEF FindPlan, FindFree
<1>2. \A v \in Handlers : handler'[v].payment = handler[v].payment
  BY Facts DEF FindPlan, FindFree, FindBySlug, Goto, Rec
<1>3. Due' = Due
  BY <1>1, <1>2 DEF Due, InProgress
<1>4. CASE faults' = faults
  BY <1>1, <1>3, <1>4, Stutters
<1>5. CASE faults' = faults + 1
  <2>1. faults' > 0
    BY <1>5, Facts
  <2> QED BY <1>1, <1>3, <2>1, Disturbs DEF Promise!Next
<1> QED BY <1>4, <1>5 DEF FindPlan, FindFree, Fault

LEMMA ExtendImplements ==
    ASSUME IInv, NEW w \in Handlers, ExtendPeriod(w)
    PROVE  Promise!Next
<1>1. handler[w] \in Rec /\ handler[w].pc = "extend"
  BY Facts DEF ExtendPeriod
<1>2. PICK p \in paid : handler[w].payment = p
  BY <1>1 DEF IInv, HandlersOK
<1>3. p \in Ids /\ p # 0 /\ payments[p] \in Payment /\ applied[p] \in Nat /\ faults \in Nat
  BY Facts
<1>4. /\ sub' = [sub EXCEPT ![payments[p].user] = Extended(@, handler[w].plan, IntervalToSQL(payments[p].interval))]
      /\ applied' = [applied EXCEPT ![p] = @ + 1]
      /\ Goto(w, "answer") \/ Return(w)
      /\ UNCHANGED <<payments, paid, pending, faults>>
  BY <1>2 DEF ExtendPeriod, PaymentOf
<1>5. Record(p) = [id |-> p, user |-> payments[p].user, plan |-> payments[p].plan,
                   interval |-> IntervalToSQL(payments[p].interval), via |-> payments[p].via]
  BY DEF Record
<1>6. Promise!Extend(Record(p))
  <2>1. handler[w].plan \in Promise!GrantedPlans(Record(p))
    BY <1>1, <1>2, <1>5 DEF Promise!GrantedPlans, IInv, HandlersOK, PaymentOf
  <2>2. /\ payments[p].user \in Users /\ IntervalToSQL(payments[p].interval) \in Nat
        /\ sub[payments[p].user] \in SubRow
    BY <1>3, Facts, IntervalType DEF Payment
  <2>3. Extended(sub[payments[p].user], handler[w].plan, IntervalToSQL(payments[p].interval))
        = [plan |-> handler[w].plan,
           left |-> IntervalToSQL(payments[p].interval)
                    + (IF sub[payments[p].user].plan = handler[w].plan
                       THEN sub[payments[p].user].left ELSE 0)]
    BY <2>2 DEF Extended, SubRow
  <2> DEFINE e == Extended(sub[payments[p].user], handler[w].plan, IntervalToSQL(payments[p].interval))
  <2>4. sub' = [sub EXCEPT ![payments[p].user] = e]
    BY <1>4
  <2>5. Record(p).user = payments[p].user /\ Record(p).interval = IntervalToSQL(payments[p].interval)
    BY <1>5
  <2>6. e = [plan |-> handler[w].plan,
             left |-> Record(p).interval
                      + (IF sub[Record(p).user].plan = handler[w].plan
                         THEN sub[Record(p).user].left ELSE 0)]
    BY <2>3, <2>5
  <2> HIDE DEF e
  <2>7. sub' = [sub EXCEPT ![Record(p).user] = e]
    BY <2>4, <2>5
  <2> QED BY <2>1, <2>6, <2>7 DEF Promise!Extend
<1>7. applied'[p] = applied[p] + 1 /\ \A q \in paid \ {p} : applied'[q] = applied[q]
  BY <1>3, <1>4, Facts
<1>8. \A q : Record(q)' = Record(q)
  BY <1>4 DEF Record
<1>9. \A q \in paid \ {p} : q \in Due' <=> q \in Due
  <2>1. \A v \in Handlers : v # w => handler'[v] = handler[v]
    BY <1>4, Facts DEF Goto, Return
  <2>2. handler'[w].payment \in {0, p}
    BY <1>1, <1>2, <1>4, Facts DEF Goto, Return, Idle, Rec
  <2>3. \A q \in paid \ {p} : InProgress(q)' <=> InProgress(q)
    BY <1>2, <2>1, <2>2, Facts DEF InProgress
  <2> QED BY <1>4, <1>7, <2>3 DEF Due
<1>10. Due \subseteq paid /\ Due' \subseteq paid /\ p \notin Due'
  BY <1>3, <1>4, <1>7 DEF Due
<1>11. Granted' = Granted \cup {p}
  BY <1>3, <1>4, <1>7 DEF Granted
<1>12. {Record(q) : q \in Granted}' = {Record(q) : q \in Granted} \cup {Record(p)}
  BY <1>8, <1>11
<1>13. CASE applied[p] = 0
  <2>1. p \in Due
    BY <1>2, <1>13 DEF Due, InProgress
  <2>2. Due' = Due \ {p}
    BY <1>9, <1>10
  <2>3. \A q \in paid : Record(q).id = q
    BY DEF Record
  <2>4. {Record(q) : q \in Due}' = {Record(q) : q \in Due} \ {Record(p)}
    BY <1>8, <1>10, <2>1, <2>2, <2>3
  <2>5. Record(p) \in {Record(q) : q \in Due}
    BY <2>1
  <2> QED BY <1>4, <1>6, <1>12, <2>4, <2>5 DEF Promise!Next, Promise!Grant, Granted
<1>14. CASE applied[p] > 0
  <2>1. faults > 0
    <3>1. Weight(p) <= 1 + faults /\ IsFiniteSet(Working(p)) /\ Cardinality(Working(p)) \in Nat
      BY <1>3, FiniteWorking DEF IInv, WeightsOK
    <3>2. w \in Working(p)
      BY <1>1, <1>2 DEF Working, Steps
    <3>3. Cardinality(Working(p)) # 0
      BY <3>1, <3>2, FS_EmptySet
    <3> QED BY <1>3, <1>14, <3>1, <3>3 DEF Weight
  <2>2. p \notin Due /\ p \in Granted
    BY <1>3, <1>14 DEF Due, Granted
  <2>3. Due' = Due
    BY <1>9, <1>10, <2>2
  <2>4. {Record(q) : q \in Due}' = {Record(q) : q \in Due}
    BY <1>8, <2>3
  <2>5. {Record(q) : q \in Granted}' = {Record(q) : q \in Granted}
        /\ Record(p) \in {Record(q) : q \in Granted}
    BY <1>12, <2>2
  <2> QED BY <1>4, <1>6, <2>1, <2>4, <2>5 DEF Promise!Next, Promise!Repeat, Granted
<1> QED BY <1>3, <1>13, <1>14

LEMMA EndImplements ==
    ASSUME IInv, NEW w \in Handlers, Answer(w) \/ Fail(w)
    PROVE  [Promise!Next]_Promise!vars
<1>1. handler[w].pc # "idle" /\ Return(w) /\ UNCHANGED <<sub, payments, paid, applied>>
  BY DEF Answer, Fail
<1>2. PICK p \in paid : handler[w].payment = p
  BY <1>1 DEF IInv, HandlersOK
<1>3. /\ \A v \in Handlers : v # w => handler'[v] = handler[v]
      /\ handler'[w].payment = 0
  BY <1>1, Facts DEF Return, Idle
<1>4. \A q \in paid : (InProgress(q)' => InProgress(q)) /\ (q # p => (InProgress(q)' <=> InProgress(q)))
  BY <1>2, <1>3, Facts DEF InProgress
<1>5. Due \subseteq paid /\ Due' \subseteq paid
  BY <1>1 DEF Due
<1>6. CASE Answer(w) /\ pending' = pending \ {p} /\ faults' = faults
  <2>1. applied[p] > 0 /\ applied[p] \in Nat
    BY <1>2, <1>6, Facts DEF Answer, IInv, HandlersOK
  <2>2. \A q \in paid : q \in Due' <=> q \in Due
    BY <1>1, <1>4, <1>6, <2>1 DEF Due
  <2>3. Due' = Due
    BY <1>5, <2>2
  <2> QED BY <1>1, <1>6, <2>3, Stutters
<1>7. CASE faults' = faults + 1 /\ pending' = pending
  <2>1. faults' > 0
    BY <1>7, Facts
  <2>2. Due' \subseteq Due
    BY <1>1, <1>4, <1>5, <1>7 DEF Due
  <2>3. \A q \in Due \ Due' : payments[q].via = "yookassa"
    <3>1. \A q \in paid : payments[q].via \in {"yookassa", "cryptobot"}
      BY Facts DEF Payment, Enabled
    <3> QED BY <1>1, <1>5, <1>7, <3>1 DEF Due, IInv, PaymentsOK
  <2> QED BY <1>1, <2>1, <2>2, <2>3, Disturbs DEF Promise!Next
<1> QED BY <1>2, <1>6, <1>7 DEF Answer, Fail, Fault

LEMMA CrashImplements ==
    ASSUME IInv, Crash
    PROVE  [Promise!Next]_Promise!vars
<1>1. /\ handler' = [w \in Handlers |-> Idle] /\ faults' = faults + 1
      /\ UNCHANGED <<sub, payments, paid, pending, applied>>
  BY DEF Crash, Fault
<1>2. faults' > 0
  BY <1>1, Facts
<1>3. \A q \in paid : ~InProgress(q)'
  BY <1>1, Facts DEF InProgress, Idle
<1>4. Due \subseteq paid /\ Due' \subseteq paid /\ Due' \subseteq Due
  BY <1>1, <1>3 DEF Due
<1>5. \A q \in Due \ Due' : payments[q].via = "yookassa"
  <2>1. \A q \in paid : payments[q].via \in {"yookassa", "cryptobot"}
    BY Facts DEF Payment, Enabled
  <2> QED BY <1>1, <1>4, <2>1 DEF Due, IInv, PaymentsOK
<1> QED BY <1>1, <1>2, <1>4, <1>5, Disturbs DEF Promise!Next

LEMMA UntrustedImplements ==
    ASSUME IInv, Untrusted
    PROVE  Promise!Next
<1>1. PICK p \in pending : payments[p].via = "yookassa" /\ pending' = pending \ {p}
  BY DEF Untrusted
<1>2. faults' = faults + 1 /\ UNCHANGED <<sub, payments, paid, handler, applied>>
  BY DEF Untrusted, Fault
<1>3. faults' > 0
  BY <1>2, Facts
<1>4. Due' \subseteq Due /\ \A q \in Due \ Due' : payments[q].via = "yookassa"
  BY <1>1, <1>2 DEF Due, InProgress
<1> QED BY <1>2, <1>3, <1>4, Disturbs DEF Promise!Next

LEMMA MissignedImplements ==
    ASSUME IInv, Missigned
    PROVE  Promise!Next
<1>1. faults' = faults + 1 /\ UNCHANGED <<sub, payments, paid, pending, handler, applied>>
  BY DEF Missigned, Fault
<1>2. faults' > 0
  BY <1>1, Facts
<1>3. Due' = Due
  BY <1>1 DEF Due, InProgress
<1> QED BY <1>1, <1>2, <1>3, Disturbs DEF Promise!Next

LEMMA TickImplements ==
    ASSUME IInv, Tick
    PROVE  Promise!Next
<1>1. UNCHANGED <<payments, paid, pending, handler, applied, faults>>
  BY DEF Tick
<1>2. \A q : Record(q)' = Record(q)
  BY <1>1 DEF Record
<1>3. Due' = Due
  BY <1>1 DEF Due, InProgress
<1>4. {Record(q) : q \in Due}' = {Record(q) : q \in Due}
      /\ {Record(q) : q \in Granted}' = {Record(q) : q \in Granted}
  BY <1>1, <1>2, <1>3 DEF Granted
<1> QED BY <1>1, <1>4 DEF Tick, Promise!Next, Promise!Tick, Granted

LEMMA PayImplements ==
    ASSUME IInv, Pay
    PROVE  Promise!Next
<1>1. PICK p \in Ids \ paid : paid' = paid \cup {p} /\ pending' = pending \cup {p}
  BY DEF Pay
<1>2. UNCHANGED <<sub, payments, handler, applied, faults>>
  BY DEF Pay
<1>3. \A q : Record(q)' = Record(q)
  BY <1>2 DEF Record
<1>4. applied[p] = 0 /\ Due \subseteq paid
  BY <1>1 DEF IInv, PaymentsOK, Due
<1>5. Due' = Due \cup {p}
  BY <1>1, <1>2, <1>4 DEF Due, InProgress
<1>6. Granted' = Granted
  BY <1>1, <1>2, <1>4 DEF Granted
<1>7. {Record(q) : q \in Due}' = {Record(q) : q \in Due} \cup {Record(p)}
      /\ {Record(q) : q \in Granted}' = {Record(q) : q \in Granted}
  BY <1>3, <1>5, <1>6
<1>8. Record(p) \in Promise!Payments /\ Record(p).id = p
  <2>1. p \in 1 .. MaxPayments
    <3>1. Ids = 1 .. Cardinality(Ids) /\ Cardinality(Ids) \in 0 .. MaxPayments
      BY DEF IInv, TypeOK, PaymentsOK
    <3> QED BY <1>1, <3>1, BillingAssumption
  <2>2. payments[p] \in Payment
    BY <1>1, Facts
  <2>3. /\ payments[p].user \in Users /\ payments[p].plan \in Plans
        /\ payments[p].interval \in BillingIntervals
        /\ payments[p].via \in {"yookassa", "cryptobot"}
    BY <2>2 DEF Payment, Enabled
  <2>4. IntervalToSQL(payments[p].interval) \in Intervals
    BY <2>3 DEF Intervals
  <2> QED BY <2>1, <2>3, <2>4 DEF Record, Promise!Payments
<1>9. \A q \in {Record(x) : x \in Due} \cup {Record(x) : x \in Granted} : q.id # Record(p).id
  BY <1>1, <1>4, <1>8 DEF Record, Granted
<1> QED BY <1>2, <1>7, <1>8, <1>9 DEF Promise!Next, Promise!Pay, Granted

LEMMA CreateImplements ==
    ASSUME IInv, SubscribeYooKassa \/ SubscribeCryptoBot
    PROVE  UNCHANGED Promise!vars
<1>1. UNCHANGED <<sub, paid, pending, handler, faults>>
  BY DEF SubscribeYooKassa, SubscribeCryptoBot
<1>2. Ids = 1 .. Cardinality(Ids) /\ Cardinality(Ids) \in Nat
  BY BillingAssumption DEF IInv, TypeOK, PaymentsOK
<1>3. \A q \in Ids : payments'[q] = payments[q] /\ applied'[q] = applied[q]
  BY <1>2 DEF SubscribeYooKassa, SubscribeCryptoBot, CreatePaymentURL, CreateInvoice, post, call, Create
<1>4. \A q \in paid : payments'[q] = payments[q] /\ applied'[q] = applied[q]
  BY <1>3, Facts
<1>5. Due' = Due
  BY <1>1, <1>4 DEF Due, InProgress
<1> QED BY <1>1, <1>4, <1>5, Stutters

\* The webhooks and the table keep the safety of what PaidPeriods promises, for
\* any number of payments and failures: every payment is granted once, on its
\* plan and for its interval; only after a failure is one granted again or on
\* the free plan, and only a payment by YooKassa may lapse.
THEOREM ImplementsPaidPeriods == Spec => Promise!Init /\ [][Promise!Next]_Promise!vars
<1>1. Init => Promise!Init
  <2> SUFFICES ASSUME Init PROVE Promise!Init
    OBVIOUS
  <2>1. Due = {} /\ {q \in paid : applied[q] > 0} = {}
    BY DEF Init, Due
  <2> QED BY <2>1 DEF Init, Promise!Init
<1>2. ASSUME IInv, [Next]_vars PROVE [Promise!Next]_Promise!vars
  <2>1. CASE Next
    BY <1>2, <2>1, DeliverImplements, FindImplements, ExtendImplements, EndImplements,
       CrashImplements, UntrustedImplements, MissignedImplements, TickImplements,
       PayImplements, CreateImplements
    DEF Next, Work
  <2>2. CASE UNCHANGED vars
    <3>1. UNCHANGED <<sub, payments, paid, pending, handler, applied, faults>>
      BY <2>2 DEF vars
    <3>2. Due' = Due
      BY <3>1 DEF Due, InProgress
    <3> QED BY <1>2, <3>1, <3>2, Stutters
  <2> QED BY <1>2, <2>1, <2>2
<1> QED BY <1>1, <1>2, Invariance, PTL DEF Spec
=============================================================================
