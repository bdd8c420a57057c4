SPECIFICATION RegSpec
CONSTANTS
    Workers = {w1, w2}
    Phones = {p1, p2}
    Purposes = {"register"}
    Codes = {c1, c2}
    NoCode = NoCode
    OTP_TTL_SECONDS = 1
    MAX_VERIFY_ATTEMPTS = 1
    THROTTLE_WINDOW_SECONDS = 2
    THROTTLE_MAX_REQUESTS = 2
    MayAbort = TRUE
    Forms <- SameEmail
    NoRow = NoRow
    NoPassword = NoPassword
    u1 = u1
    u2 = u2
    e1 = e1
    s1 = s1
SYMMETRY Symmetry
INVARIANTS
    RegTypeOK
    ActiveHasPassword
