SPECIFICATION Spec
CONSTANTS
    Users = {u1}
    Plans = {pro, business}
    Free = free
    Month = 1
    Year = 3
    Credentials <- MCCredentials
    TrustedProxies = {"nginx"}
    yookassaTrustedCIDRs = {"yookassa"}
    Connections <- MCConnections
    Token = "new"
    SigningTokens = {"old", "new"}
    Handlers = {h1, h2}
    MaxPayments = 2
    MaxFaults = 2
    None = None
INVARIANTS
    TypeOK
    AppliedBounded
PROPERTIES
    CryptoPaymentsGranted
    KeepsPromise
CHECK_DEADLOCK FALSE
