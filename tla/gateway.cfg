SPECIFICATION Spec
CONSTANTS
    u1 = u1
    u2 = u2
    e1 = e1
    Users = {u1, u2}
    Clients = {e1}
    Ids = {u1, e1}
    Workers = {w1, w2}
    Limit <- MCLimit
    Window = 2
    RedisFails = TRUE
    Scopes = {"write", "service"}
    MaxKeys = 1
    Grace = 1
    Faults = TRUE
    None = None
INVARIANTS
    TypeOK
    LimitPerWindow
    TwiceTheLimit
    DeletedKeysRefused
    ChargedToActor
PROPERTIES
    KeysChangeByOwner
    CleanExitDrained
    RefusalsEnd
    ShutdownEnds
CHECK_DEADLOCK FALSE
