SPECIFICATION SessionsSpec
CONSTANTS
    Browsers = {b1}
    Requests = {r1, r2}
    Roles = {"student"}
    REFRESH_TOKEN_LIFETIME = 2
    ACCESS_TOKEN_LIFETIME = 1
    TicksPerSecond = 2
    MaxTokens = 2
    MaxPasswords = 2
    OneTab = FALSE
    CacheMayBeLost = TRUE
SYMMETRY Symmetry
INVARIANTS
    SessionsTypeOK
    OldSessionsDie
    RevokedToTheLastSecond
PROPERTIES
    SlidingSession
    PromiseKept
