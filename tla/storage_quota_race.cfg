SPECIFICATION Spec
CONSTANTS
    u1 = u1
    u2 = u2
    Users = {u1}
    Names = {n1}
    Keys = {k1, k2}
    Sizes = {1, 2}
    Workers = {w1, w2}
    StorageLimit <- MCStorageLimit
    BucketLimit <- MCBucketLimit
    FallbackStorage = 1
    FallbackBuckets = 1
    ListPage = 1
    MaxBucketIds = 1
    MaxUrls = 1
    Faults = FALSE
    None = None
INVARIANTS
    StorageWithinPlan
SYMMETRY Symmetry
CHECK_DEADLOCK FALSE
