--------------------------- MODULE MCObjectStorage ---------------------------
(* Instances of ObjectStorage small enough for TLC.                        *)
EXTENDS ObjectStorage, TLC

CONSTANTS u1, u2

\* u1 is on a plan with limits on both, u2 on one without a bucket limit.
MCStorageLimit == [u \in Users |-> 2]
MCBucketLimit  == [u \in Users |-> IF u = u1 THEN 1 ELSE 0]
MCBucketLimit2 == [u \in Users |-> 2]

\* Goroutines, keys and names are interchangeable; users are not.
Symmetry == Permutations(Workers) \cup Permutations(Keys) \cup Permutations(Names)
=============================================================================
