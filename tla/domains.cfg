SPECIFICATION Spec
CONSTANTS
    u1 = u1
    u2 = u2
    b1 = b1
    b2 = b2
    Users = {u1, u2}
    d1 = d1
    d2 = d2
    d3 = d3
    Names = {d1, d2, d3}
    Inputs = {"d1", "D1.", "d3", "bad"}
    NormalForm <- MCNormalForm
    SetUp = {d1}
    Buckets = {b1, b2}
    BucketOwner <- MCBucketOwner
    First <- MCFirst
    PlanLimit <- MCPlanLimit
    Workers = {w1, w2}
    MaxRows = 3
    MaxChanges = 2
    MaxSkips <- MCMaxSkips
    Typed <- MCTyped
    Faults = TRUE
    None = None
INVARIANTS
    TypeOK
    OvershootBounded
    VerifiedWasChecked
PROPERTIES
    StatusConverges
CHECK_DEADLOCK FALSE
