SPECIFICATION RegSpec
CONSTANTS
    Workers = {w1, w2}
    Phones = {p1}
    Purposes = {"register"}
    Codes = {c1, c2}
    NoCode = NoCode
    OTP_TTL_SECONDS = 2
    MAX_VERIFY_ATTEMPTS = 2
    THROTTLE_WINDOW_SECONDS = 3
    THROTTLE_MAX_REQUESTS = 2
    MayAbort = FALSE
    Forms <- SameEmail
    NoRow = NoRow
    NoPassword = NoPassword
    u1 = u1
    u2 = u2
    e1 = e1
    s1 = s1
SYMMETRY Symmetry
PROPERTIES
    VerifiedIsKept
