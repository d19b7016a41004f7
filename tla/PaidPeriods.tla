----------------------------- MODULE PaidPeriods -----------------------------
(***************************************************************************)
(* What billing promises a user: every payment is granted once, and a      *)
(* grant adds its interval to the time left on the same plan, or starts    *)
(* the plan anew.  Once something has failed, a grant may be repeated, may *)
(* come on the free plan, and a payment by YooKassa may lapse; one by      *)
(* CryptoBot may not.  Billing implements this specification.              *)
(***************************************************************************)
EXTENDS Integers

CONSTANTS
    Users,
    Plans,      \* paid plans
    Free,       \* the plan of an account that never paid
    Intervals,  \* billing intervals, in ticks
    MaxPayments

Payments == [id : 1 .. MaxPayments, user : Users, plan : Plans,
             interval : Intervals, via : {"yookassa", "cryptobot"}]

VARIABLES
    sub,        \* the plan of a user and the time left of it
    due,        \* payments made and not yet granted
    granted,    \* payments granted
    disturbed   \* whether something has failed

vars == <<sub, due, granted, disturbed>>

Init ==
    /\ sub = [u \in Users |-> [plan |-> Free, left |-> 0]]
    /\ due = {} /\ granted = {}
    /\ disturbed = FALSE

Pay ==
    /\ \E p \in Payments : /\ \A q \in due \cup granted : q.id # p.id
                           /\ due' = due \cup {p}
    /\ UNCHANGED <<sub, granted, disturbed>>

GrantedPlans(p) == IF disturbed THEN {p.plan, Free} ELSE {p.plan}

Extend(p) ==
    \E plan \in GrantedPlans(p) :
        sub' = [sub EXCEPT ![p.user] =
                    [plan |-> plan, left |-> p.interval + (IF @.plan = plan THEN @.left ELSE 0)]]

Grant ==
    /\ \E p \in due : Extend(p) /\ due' = due \ {p} /\ granted' = granted \cup {p}
    /\ UNCHANGED disturbed

Repeat ==
    /\ disturbed
    /\ \E p \in granted : Extend(p)
    /\ UNCHANGED <<due, granted, disturbed>>

Disturb ==
    /\ disturbed' = TRUE
    /\ \E lapsed \in SUBSET {p \in due : p.via = "yookassa"} : due' = due \ lapsed
    /\ UNCHANGED <<sub, granted>>

Tick ==
    /\ sub' = [u \in Users |-> [sub[u] EXCEPT !.left = IF @ > 0 THEN @ - 1 ELSE 0]]
    /\ UNCHANGED <<due, granted, disturbed>>

Next == Pay \/ Grant \/ Repeat \/ Disturb \/ Tick

\* A payment that stays due is granted.
Spec == Init /\ [][Next]_vars /\ WF_vars(Grant)
=============================================================================
