------------------------------ MODULE MCDomains ------------------------------
\* The instance of Domains that TLC checks.
EXTENDS Domains

CONSTANTS u1, u2, b1, b2, d1, d2, d3

MCBucketOwner == [b \in Buckets |-> IF b = b1 THEN u1 ELSE u2]

\* u2's plan has no limit.
MCPlanLimit == [u \in Users |-> IF u = u1 THEN 1 ELSE 0]

MCMaxSkips == [u \in Users |-> IF u = u1 THEN 1 ELSE 0]

NoSkips == [u \in Users |-> 0]

\* u2 wants one of the names only.
MCTyped == [u \in Users |-> IF u = u1 THEN Inputs ELSE Inputs \cap {"d1"}]

\* u1 is at the limit already.
MCFirst == <<[bucket |-> b1, name |-> d2]>>

NoDomains == <<>>

\* Two ways to type d1, and an input that is no name.
MCNormalForm == [i \in Inputs |-> CASE i \in {"d1", "D1."} -> d1
                                    [] i = "d3"            -> d3
                                    [] OTHER               -> None]
=============================================================================
