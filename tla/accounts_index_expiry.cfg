SPECIFICATION Spec
CONSTANTS
    Users = {u1}
    Inputs <- MCInputs
    NormalForm <- MCNormalForm
    Workers = {w1}
    TTL = 2
    MaxTokens = 2
    MaxSessions = 1
    MaxVersion = 2
    MaxUses = 3
    MaxFaults = 0
    None = None
PROPERTIES
    PasswordChangeEndsSessions
SYMMETRY Symmetry
CHECK_DEADLOCK FALSE
