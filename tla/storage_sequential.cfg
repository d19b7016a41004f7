SPECIFICATION FairSpec
CONSTANTS
    u1 = u1
    u2 = u2
    Users = {u1}
    Names = {n1, n2}
    Keys = {k1, k2}
    Sizes = {1, 2}
    Workers = {w1}
    StorageLimit <- MCStorageLimit
    BucketLimit <- MCBucketLimit2
    FallbackStorage = 1
    FallbackBuckets = 1
    ListPage = 1
    MaxBucketIds = 2
    MaxUrls = 1
    Faults = TRUE
    None = None
INVARIANTS
    TypeOK
    StorageWithinPlan
PROPERTIES
    BytesLostToOwnRequest
    RequestsFinish
CHECK_DEADLOCK FALSE
