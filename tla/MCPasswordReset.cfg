SPECIFICATION ResetSpec
CONSTANTS
    Workers = {w1, w2}
    Phones = {p1}
    Purposes = {"password_reset"}
    Codes = {c1}
    NoCode = NoCode
    OTP_TTL_SECONDS = 1
    MAX_VERIFY_ATTEMPTS = 1
    THROTTLE_WINDOW_SECONDS = 1
    THROTTLE_MAX_REQUESTS = 1
    MayAbort = TRUE
    PASSWORD_RESET_TOKEN_LIFETIME = 2
    MaxResetTokens = 1
    MaxPasswords = 4
SYMMETRY Symmetry
INVARIANT ResetTypeOK
INVARIANT TokenDiesWithPassword
INVARIANT ConcurrentSpends
PROPERTY SpentTokenIsRefused
