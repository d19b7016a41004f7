SPECIFICATION ServiceSpec
CONSTANTS
    u1 = u1
    u2 = u2
    Users = {u1, u2}
    Names = {n1, n2}
    Keys = {k1}
    Sizes = {1}
    Workers = {w1, w2}
    StorageLimit <- MCStorageLimit
    BucketLimit <- MCBucketLimit
    FallbackStorage = 1
    FallbackBuckets = 1
    ListPage = 1
    MaxBucketIds = 2
    MaxUrls = 1
    Faults = TRUE
    Settings = {private, public}
    None = None
INVARIANTS
    NoSharedBlob
    ServiceTypeOK
    LogAgrees
PROPERTIES
    TenantIsolation
SYMMETRY ServiceSymmetry
CHECK_DEADLOCK FALSE
