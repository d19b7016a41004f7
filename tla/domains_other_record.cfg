SPECIFICATION Spec
CONSTANTS
    u1 = u1
    u2 = u2
    b1 = b1
    b2 = b2
    Users = {u1, u2}
    d1 = d1
    d2 = d2
    d3 = d3
    Names = {d1}
    Inputs = {"d1", "bad"}
    NormalForm <- MCNormalForm
    SetUp = {d1}
    Buckets = {b1, b2}
    BucketOwner <- MCBucketOwner
    First <- NoDomains
    PlanLimit <- MCPlanLimit
    Workers = {w1}
    MaxRows = 2
    MaxChanges = 2
    MaxSkips <- NoSkips
    Typed <- MCTyped
    Faults = FALSE
    None = None
INVARIANTS
    VerifiedWasProven
CHECK_DEADLOCK FALSE
