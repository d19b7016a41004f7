SPECIFICATION Spec
CONSTANTS
    Users = {u1}
    Inputs <- MCInputs
    NormalForm <- MCNormalForm
    Workers = {w1, w2}
    TTL = 2
    MaxTokens = 2
    MaxSessions = 1
    MaxVersion = 3
    MaxUses = 3
    MaxFaults = 0
    None = None
INVARIANTS
    TokenUsedOnce
SYMMETRY Symmetry
CHECK_DEADLOCK FALSE
