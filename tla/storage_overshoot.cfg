SPECIFICATION Spec
CONSTANTS
    u1 = u1
    u2 = u2
    Users = {u1}
    Names = {n1, n2, n3}
    Keys = {k1, k2}
    Sizes = {2}
    Workers = {w1, w2}
    StorageLimit <- MCStorageLimit
    BucketLimit <- MCBucketLimit
    FallbackStorage = 1
    FallbackBuckets = 1
    ListPage = 1
    MaxBucketIds = 3
    MaxUrls = 1
    Faults = FALSE
    None = None
INVARIANTS
    StorageOvershootBounded
    BucketOvershootBounded
SYMMETRY Symmetry
CHECK_DEADLOCK FALSE
