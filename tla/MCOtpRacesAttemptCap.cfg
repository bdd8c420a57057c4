SPECIFICATION Spec
CONSTANTS
    Workers = {w1, w2}
    Phones = {p}
    Purposes = {"register"}
    Codes = {c1, c2}
    NoCode = NoCode
    OTP_TTL_SECONDS = 2
    MAX_VERIFY_ATTEMPTS = 2
    THROTTLE_WINDOW_SECONDS = 3
    THROTTLE_MAX_REQUESTS = 2
    MayAbort = FALSE
SYMMETRY Symmetry
INVARIANTS
    AttemptCap
