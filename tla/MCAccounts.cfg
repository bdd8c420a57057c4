SPECIFICATION AccountsSpec
CONSTANTS
    Workers = {w1}
    Phones = {p1, p2}
    Purposes = {"register", "password_reset"}
    Codes = {c1, c2}
    NoCode = NoCode
    OTP_TTL_SECONDS = 1
    MAX_VERIFY_ATTEMPTS = 1
    THROTTLE_WINDOW_SECONDS = 2
    THROTTLE_MAX_REQUESTS = 2
    MayAbort = TRUE
    Forms <- MCForms
    Submissions <- MCSubmissions
    p1 = p1
    p2 = p2
    NoRow = NoRow
    NoPassword = NoPassword
    u1 = u1
    u2 = u2
    e1 = e1
    e2 = e2
    s1 = s1
    s2 = s2
    PASSWORD_RESET_TOKEN_LIFETIME = 1
    MaxResetTokens = 1
    MaxPasswords = 2
    Known = {p1}
SYMMETRY Symmetry
INVARIANTS
    AccountsTypeOK
    SingleUse
    AttemptCap
    SendCap
    TextedCodeIsFresh
    NoCodeOnceVerified
    ResetIsForVerified
PROPERTIES
    SignUpsSpareVerified
    CreatedMeansGranted
    FailsOnDraftEmail
