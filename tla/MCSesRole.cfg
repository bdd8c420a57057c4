SPECIFICATION SessionsSpec
CONSTANTS
    Browsers = {b1}
    Requests = {r1, r2}
    Roles = {"student", "instructor"}
    REFRESH_TOKEN_LIFETIME = 2
    ACCESS_TOKEN_LIFETIME = 1
    TicksPerSecond = 1
    MaxTokens = 2
    MaxPasswords = 2
    OneTab = FALSE
    CacheMayBeLost = FALSE
SYMMETRY Symmetry
PROPERTIES
    RefreshRenewsRole
