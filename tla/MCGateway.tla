------------------------------ MODULE MCGateway -------------------------------
\* The instance of Gateway that TLC checks.
EXTENDS Gateway

CONSTANTS u1, u2, e1

MCLimit == [i \in Ids |-> 1]
=============================================================================
