SPECIFICATION Spec
CONSTANTS
    Users = {u1}
    Inputs <- MCInputs
    NormalForm <- MCNormalForm
    Workers = {w1, w2}
    TTL = 2
    MaxTokens = 3
    MaxSessions = 1
    MaxVersion = 3
    MaxUses = 5
    MaxFaults = 2
    None = None
INVARIANTS
    TypeOK
    LiveTokensBounded
    TokenUsesBounded
    IndexedSessionsDie
PROPERTIES
    DeadSessionsStayDead
SYMMETRY Symmetry
CHECK_DEADLOCK FALSE
