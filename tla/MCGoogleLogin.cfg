SPECIFICATION GoogleFairSpec
CONSTANTS
    Workers = {w1, w2}
    Phones = {p1}
    NoPhone = NoPhone
    e1 = e1
    e2 = e2
    g1 = g1
    Emails = {e1, e2}
    normalize_email <- Normalize
    Usernames <- MCUsernames
    OthersNames <- MCOthersNames
    GoogleIds = {g1}
    NoGoogle = NoGoogle
    NoUser = NoUser
    MaxUsers = 3
    Known = {1}
    Profiles <- MCProfiles
    UsernameChars <- MCChars
    BaseLength = 4
    LocalParts <- MCLocalParts
    local_part <- MCLocalPart
    Suffixes <- MCSuffixes
INVARIANTS
    GoogleTypeOK
    AnswersForItsUser
    FailsOnlyInRace
PROPERTIES
    LinkGoesByEmail
    LinkWritesOneColumn
    LoginIsAnswered
