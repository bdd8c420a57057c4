----------------------------- MODULE Sessions -----------------------------
(***************************************************************************)
(* Signed-in sessions of one user: the token pairs of services/tokens.py,  *)
(* the login, verify-otp, refresh, logout and change-password views and    *)
(* serializers of api/v1, and AppJWTAuthentication.                        *)
(*                                                                         *)
(* A browser keeps the refresh token in a cookie and the access token in   *)
(* memory.  It may have several requests under way (tabs), each carries    *)
(* the cookie and the access token of the moment it was sent, and each     *)
(* answer changes the jar when it arrives, if it arrives.  On the server a *)
(* request advances by one query or cache operation at a time.             *)
(*                                                                         *)
(* Tokens are not stored anywhere by the server: the table `token` stands  *)
(* for the signed payloads themselves.  Every issue makes a refresh token  *)
(* and an access token with the same claims, so one entry stands for both. *)
(***************************************************************************)
EXTENDS Integers, FiniteSets

CONSTANTS
    Browsers,
    Requests,                 \* slots for requests under way
    Roles,                    \* values of user_type
    REFRESH_TOKEN_LIFETIME,   \* seconds
    ACCESS_TOKEN_LIFETIME,    \* seconds
    TicksPerSecond,           \* how finely a clock reads within a second
    MaxTokens,                \* bound: token pairs issued
    MaxPasswords,             \* bound: passwords saved
    OneTab,                   \* whether a browser waits before it asks again
    CacheMayBeLost            \* in-memory cache of development, or Redis restarted empty

ASSUME SessionsAssumption ==
    /\ REFRESH_TOKEN_LIFETIME \in Nat \ {0, 1}
    /\ ACCESS_TOKEN_LIFETIME \in Nat \ {0}
    /\ TicksPerSecond \in Nat \ {0}
    /\ MaxTokens \in Nat /\ MaxPasswords \in Nat
    /\ OneTab \in BOOLEAN /\ CacheMayBeLost \in BOOLEAN

VARIABLES
    password,   \* which set_password made the stored hash: 1, 2, 3 ...
    status,     \* "pending" until verify-otp, then "active" or "blocked"
    role,       \* user_type
    token,      \* token[j]: the pair with jti j
    issued,     \* pairs issued so far
    revoked,    \* revoked[j]: life left of the cache record of a logout, in ticks
    phase,      \* ticks since the last full second of the clock
    cookie,     \* cookie[b]: jti in the refresh cookie, or NoToken
    access,     \* access[b]: jti whose access token the page holds, or NoToken
    req,        \* req[r]: a request under way
    loggedOut,  \* loggedOut[j]: a logout revoked j in this cache (history)
    out         \* out[b]: jti b logged out and has not signed in since (history)

userVars == <<password, status, role>>
tokenVars == <<token, issued, revoked>>
browserVars == <<cookie, access, out>>
sessionVars == <<userVars, tokenVars, phase, browserVars, req, loggedOut>>

NoToken == 0
Jtis == 1 .. MaxTokens

\* sig: the password pwd_sig was computed from.  epoch: the password its owner
\* had proved, or set, when the session was opened (history).
Blank == [sig |-> 0, epoch |-> 0, role |-> "none", ttl |-> 0, access |-> 0]

RequestAt(step, b, typed, c, a) ==
    [at |-> step, browser |-> b, cookie |-> c, access |-> a, typed |-> typed,
     seen |-> 0, role |-> "none", given |-> NoToken, abandoned |-> FALSE]

NoRequest == RequestAt("idle", "none", 0, NoToken, NoToken)

LoginSteps == {"login", "mint"}
RefreshSteps == {"revocation", "owner", "reissue"}
LogoutSteps == {"logout", "revoke"}
ChangeSteps == {"change", "write"}
Answers == {"signed_in", "refreshed", "signed_out"}
Steps == LoginSteps \cup {"verify"} \cup RefreshSteps \cup LogoutSteps \cup ChangeSteps

SessionsInit ==
    /\ password = 1
    /\ status = "pending"
    /\ role \in Roles
    /\ token = [j \in Jtis |-> Blank]
    /\ issued = 0
    /\ revoked = [j \in Jtis |-> 0]
    /\ phase = 0
    /\ cookie = [b \in Browsers |-> NoToken]
    /\ access = [b \in Browsers |-> NoToken]
    /\ req = [r \in Requests |-> NoRequest]
    /\ loggedOut = [j \in Jtis |-> FALSE]
    /\ out = [b \in Browsers |-> NoToken]

----------------------------------------------------------------------------
(* What the server reads off a token.                                      *)

Unexpired(j) == token[j].ttl > 0

\* _password_signature(user) of the row just read, against the claim pwd_sig.
SignatureMatches(j) == token[j].sig = password

\* AppJWTAuthentication: one read of the user, its is_active and its password.
Authenticates(j) ==
    /\ j # NoToken
    /\ token[j].access > 0
    /\ status = "active"
    /\ SignatureMatches(j)

\* Mutant: the two lifetimes are taken for each other.
PairSwapped(sig, epoch, r) ==
    [sig |-> sig, epoch |-> epoch, role |-> r,
     ttl |-> ACCESS_TOKEN_LIFETIME * TicksPerSecond - phase,
     access |-> REFRESH_TOKEN_LIFETIME * TicksPerSecond - phase]

\* exp is a whole number of seconds: the fraction of the second is cut off.
Pair(sig, epoch, r) ==
    [sig |-> sig, epoch |-> epoch, role |-> r,
     ttl |-> REFRESH_TOKEN_LIFETIME * TicksPerSecond - phase,
     access |-> ACCESS_TOKEN_LIFETIME * TicksPerSecond - phase]

Issue(pair) ==
    /\ issued < MaxTokens
    /\ issued' = issued + 1
    /\ token' = [token EXCEPT ![issued + 1] = pair]

----------------------------------------------------------------------------
(* A browser sends a request.                                              *)

MaySend(b) ==
    OneTab => \A r \in Requests : req[r].browser = b => req[r].abandoned

Send(r, b, step, typed) ==
    /\ req[r] = NoRequest
    /\ MaySend(b)
    /\ req' = [req EXCEPT ![r] = RequestAt(step, b, typed, cookie[b], access[b])]
    /\ UNCHANGED <<userVars, tokenVars, phase, browserVars, loggedOut>>

\* A request without a cookie is answered 401 (refresh) or 400 (logout), one
\* without an access token 401, before anything is read.
SendVerifyOtp(r, b) == status = "pending" /\ Send(r, b, "verify", 0)
SendLogin(r, b, typed) == Send(r, b, "login", typed)
SendRefresh(r, b) == cookie[b] # NoToken /\ Send(r, b, "revocation", 0)
SendLogout(r, b) == cookie[b] # NoToken /\ access[b] # NoToken /\ Send(r, b, "logout", 0)
SendChangePassword(r, b, typed) == access[b] # NoToken /\ Send(r, b, "change", typed)

----------------------------------------------------------------------------
(* The handlers.                                                           *)

Goto(r, step) == req' = [req EXCEPT ![r].at = step]

\* A refusal changes nothing in the browser.
Refuse(r) ==
    /\ req' = [req EXCEPT ![r] = NoRequest]
    /\ UNCHANGED <<userVars, tokenVars, phase, browserVars, loggedOut>>

Check(r, step, next, passes) ==
    /\ req[r].at = step
    /\ passes
    /\ Goto(r, next)
    /\ UNCHANGED <<userVars, tokenVars, phase, browserVars, loggedOut>>

Fail(r, step, passes) == req[r].at = step /\ ~ passes /\ Refuse(r)

\* The row is read once: what is checked is what the token is made from.
ReadRow(r) ==
    req' = [req EXCEPT ![r].at = "mint", ![r].typed = password,
                       ![r].seen = password, ![r].role = role]

\* VerifyOTPView: the code was accepted (Registration models that part);
\* save() reads the row and writes is_active.  The row read is what the token
\* is made from.
ActivateUser(r) ==
    /\ req[r].at = "verify"
    /\ status' = "active"
    /\ ReadRow(r)
    /\ UNCHANGED <<password, role, tokenVars, phase, browserVars, loggedOut>>

\* LoginSerializer.validate reads the row once: password and is_active are
\* checked on it and the token is made from it.
LoginPasses(r) == req[r].typed = password /\ status = "active"

LookUpUser(r) ==
    /\ req[r].at = "login"
    /\ LoginPasses(r)
    /\ ReadRow(r)
    /\ UNCHANGED <<userVars, tokenVars, phase, browserVars, loggedOut>>

LoginFails(r) == Fail(r, "login", LoginPasses(r))

\* AppRefreshToken.for_user, of the row read before.
MintTokens(r) ==
    /\ req[r].at = "mint"
    /\ Issue(Pair(req[r].seen, req[r].typed, req[r].role))
    /\ req' = [req EXCEPT ![r].at = "signed_in", ![r].given = issued + 1]
    /\ UNCHANGED <<userVars, revoked, phase, browserVars, loggedOut>>

\* Mutant: the record of the logout is not looked for.
NotExpired(j) == Unexpired(j)

\* AppTokenRefreshSerializer.validate: decode and look for a logout ...
NotRevoked(j) == Unexpired(j) /\ revoked[j] = 0

CheckRevocation(r) == Check(r, "revocation", "owner", NotRevoked(req[r].cookie))
RevocationFails(r) == Fail(r, "revocation", NotRevoked(req[r].cookie))

\* ... compare pwd_sig with the owner's password ...
CheckOwner(r) == Check(r, "owner", "reissue", SignatureMatches(req[r].cookie))
OwnerFails(r) == Fail(r, "owner", SignatureMatches(req[r].cookie))

\* ... and leave the rest to simplejwt, which decodes again, asks for an active
\* user, and rotates: a new jti and a new exp on a copy of the old claims.  The
\* old token is not retired.
MayReissue(j) == Unexpired(j) /\ status = "active"

\* Mutant: the signature is made anew, like the jti.
RenewedSignature(old) == Pair(password, old.epoch, old.role)

Renewed(old) == Pair(old.sig, old.epoch, old.role)

\* Mutant: BLACKLIST_AFTER_ROTATION.
BlacklistAfterRotation(j) == [revoked EXCEPT ![j] = token[j].ttl]

AfterRotation(j) == revoked

Reissue(r) ==
    LET j == req[r].cookie IN
    /\ req[r].at = "reissue"
    /\ MayReissue(j)
    /\ Issue(Renewed(token[j]))
    /\ revoked' = AfterRotation(j)
    /\ req' = [req EXCEPT ![r].at = "refreshed", ![r].given = issued + 1]
    /\ UNCHANGED <<userVars, phase, browserVars, loggedOut>>

ReissueFails(r) == Fail(r, "reissue", MayReissue(req[r].cookie))

\* LogoutView: the access token says who may call, the cookie what is revoked.
AuthenticateLogout(r) == Check(r, "logout", "revoke", Authenticates(req[r].access))
LogoutRefused(r) == Fail(r, "logout", Authenticates(req[r].access))

\* Mutant: the record is a second short.
RevocationLifeShort(j) ==
    LET seconds == token[j].ttl \div TicksPerSecond
    IN (IF seconds > 2 THEN seconds - 1 ELSE 1) * TicksPerSecond

\* revoke_refresh_token: whole seconds, and never less than one.
RevocationLife(j) ==
    LET seconds == token[j].ttl \div TicksPerSecond
    IN (IF seconds > 1 THEN seconds ELSE 1) * TicksPerSecond

\* Mutant: the answer is 205 and the cookie goes, but nothing is revoked.
ForgetRefreshToken(r) ==
    /\ req[r].at = "revoke"
    /\ Unexpired(req[r].cookie)
    /\ loggedOut' = [loggedOut EXCEPT ![req[r].cookie] = TRUE]
    /\ Goto(r, "signed_out")
    /\ UNCHANGED <<userVars, tokenVars, phase, browserVars>>

RevokeRefreshToken(r) ==
    LET j == req[r].cookie IN
    /\ req[r].at = "revoke"
    /\ Unexpired(j)
    /\ revoked' = [revoked EXCEPT ![j] = RevocationLife(j)]
    /\ loggedOut' = [loggedOut EXCEPT ![j] = TRUE]
    /\ Goto(r, "signed_out")
    /\ UNCHANGED <<userVars, token, issued, phase, browserVars>>

RevokeFails(r) == Fail(r, "revoke", Unexpired(req[r].cookie))

\* ChangePasswordView: request.user is read once, at authentication; the old
\* password is checked against that copy.
ChangePasses(r) == Authenticates(req[r].access) /\ req[r].typed = password

AuthenticateChange(r) == Check(r, "change", "write", ChangePasses(r))
ChangeRefused(r) == Fail(r, "change", ChangePasses(r))

SetPassword ==
    /\ password < MaxPasswords
    /\ password' = password + 1

SavePassword(r) ==
    /\ req[r].at = "write"
    /\ SetPassword
    /\ req' = [req EXCEPT ![r] = NoRequest]
    /\ UNCHANGED <<status, role, tokenVars, phase, browserVars, loggedOut>>

----------------------------------------------------------------------------
(* The answer arrives, or does not.                                        *)

Deliver(r) ==
    LET b == req[r].browser
        j == req[r].given
    IN /\ req[r].at \in Answers
       /\ ~ req[r].abandoned
       /\ cookie' = [cookie EXCEPT ![b] = j]       \* NoToken clears it
       /\ access' = [access EXCEPT ![b] = IF j = NoToken THEN @ ELSE j]
       /\ out' = [out EXCEPT ![b] = CASE req[r].at = "signed_out" -> req[r].cookie
                                      [] req[r].at = "signed_in" -> NoToken
                                      [] req[r].at = "refreshed" -> @]
       /\ req' = [req EXCEPT ![r] = NoRequest]
       /\ UNCHANGED <<userVars, tokenVars, phase, loggedOut>>

Lose(r) == req[r].at \in Answers /\ Refuse(r)

\* The page stops waiting and may ask again; the handler does not know.  With
\* several tabs it need not stop waiting, and losing the answer says as much.
Abandon(r) ==
    /\ OneTab
    /\ req[r].at \in Steps
    /\ ~ req[r].abandoned
    /\ req' = [req EXCEPT ![r].abandoned = TRUE]
    /\ UNCHANGED <<userVars, tokenVars, phase, browserVars, loggedOut>>

----------------------------------------------------------------------------
(* Around the sessions: another way to a new password (the forgotten       *)
(* password flow), the admin, the clock.                                   *)

ResetPassword ==
    /\ SetPassword
    /\ UNCHANGED <<status, role, tokenVars, phase, browserVars, req, loggedOut>>

SetActive ==
    /\ status \in {"active", "blocked"}
    /\ status' = IF status = "active" THEN "blocked" ELSE "active"
    /\ UNCHANGED <<password, role, tokenVars, phase, browserVars, req, loggedOut>>

ChangeUserRole ==
    /\ role' \in Roles \ {role}
    /\ UNCHANGED <<password, status, tokenVars, phase, browserVars, req, loggedOut>>

Less(n) == IF n > 0 THEN n - 1 ELSE 0

Tick ==
    /\ token' = [j \in Jtis |->
                   [token[j] EXCEPT !.ttl = Less(@), !.access = Less(@)]]
    /\ revoked' = [j \in Jtis |-> Less(revoked[j])]
    /\ phase' = (phase + 1) % TicksPerSecond
    /\ UNCHANGED <<userVars, issued, browserVars, req, loggedOut>>

\* A logout is on record in the cache and nowhere else.
LoseCache ==
    /\ CacheMayBeLost
    /\ revoked' = [j \in Jtis |-> 0]
    /\ loggedOut' = [j \in Jtis |-> FALSE]
    /\ UNCHANGED <<userVars, token, issued, phase, browserVars, req>>

----------------------------------------------------------------------------

SendSome(r, b) ==
    \/ SendVerifyOtp(r, b) \/ SendRefresh(r, b) \/ SendLogout(r, b)
    \/ \E typed \in 1 .. password : SendLogin(r, b, typed) \/ SendChangePassword(r, b, typed)

LoginStep(r) == ActivateUser(r) \/ LookUpUser(r) \/ LoginFails(r) \/ MintTokens(r)

RefreshStep(r) ==
    \/ CheckRevocation(r) \/ RevocationFails(r) \/ CheckOwner(r) \/ OwnerFails(r)
    \/ Reissue(r) \/ ReissueFails(r)

LogoutStep(r) ==
    AuthenticateLogout(r) \/ LogoutRefused(r) \/ RevokeRefreshToken(r) \/ RevokeFails(r)

ChangeStep(r) == AuthenticateChange(r) \/ ChangeRefused(r) \/ SavePassword(r)

SessionsNext ==
    \/ \E r \in Requests :
        \/ \E b \in Browsers : SendSome(r, b)
        \/ LoginStep(r) \/ RefreshStep(r) \/ LogoutStep(r) \/ ChangeStep(r)
        \/ Deliver(r) \/ Lose(r) \/ Abandon(r)
    \/ ResetPassword \/ SetActive \/ ChangeUserRole \/ Tick \/ LoseCache

SessionsSpec == SessionsInit /\ [][SessionsNext]_sessionVars

----------------------------------------------------------------------------
(* Properties.                                                             *)

SessionsTypeOK ==
    /\ password \in Nat /\ status \in {"pending", "active", "blocked"} /\ role \in Roles
    /\ issued \in 0 .. MaxTokens
    /\ \A j \in Jtis :
        /\ token[j].sig \in 0 .. password /\ token[j].epoch \in 0 .. password
        /\ token[j].ttl \in 0 .. REFRESH_TOKEN_LIFETIME * TicksPerSecond
        /\ token[j].access \in 0 .. ACCESS_TOKEN_LIFETIME * TicksPerSecond
        /\ revoked[j] \in Nat /\ loggedOut[j] \in BOOLEAN
        /\ j > issued => token[j] = Blank
    /\ phase \in 0 .. TicksPerSecond - 1
    /\ \A b \in Browsers : {cookie[b], access[b], out[b]} \subseteq 0 .. issued
    /\ \A r \in Requests :
        /\ req[r].at \in {"idle"} \cup Steps \cup Answers
        /\ {req[r].cookie, req[r].access, req[r].given} \subseteq 0 .. issued

\* Once a password is saved, no token of an older session passes a check any
\* more, nor any token that was or will be issued on the strength of one: the
\* logins and refreshes under way when it was saved included.
OldSessionsDie ==
    \A j \in Jtis :
        j <= issued /\ SignatureMatches(j) => token[j].epoch = password

\* A refresh token that was logged out stays revoked as long as it could be
\* used, but for its last second.
RevokedToTheLastSecond ==
    \A j \in Jtis : loggedOut[j] /\ token[j].ttl >= TicksPerSecond => revoked[j] > 0

\* Sliding session: a refresh is refused only after 365 days without one, a
\* logout of that very token, a new password or a blocked account; a lost answer
\* or a second tab never ends a session.
SlidingSession ==
    [][\A r \in Requests :
        LET j == req[r].cookie IN
        req[r].at \in RefreshSteps /\ req'[r] = NoRequest =>
            \/ ~ Unexpired(j) \/ loggedOut[j]
            \/ token[j].epoch # password \/ status # "active"]_sessionVars

Usable(j) == j # NoToken /\ NotRevoked(j) /\ SignatureMatches(j)

\* A browser that was told it is signed out has no session until it signs in:
\* neither the token it logged out nor one that reaches it later is any use
\* (views.py, lines 174-180).
LogoutSticks ==
    \A b \in Browsers :
        out[b] # NoToken => ~ Usable(out[b]) /\ ~ Usable(cookie[b])

\* What a token is worth, and what entitles a request to a new one: the last
\* second is apart, the record of a logout may be gone by then.
Valid(j) == Unexpired(j) /\ SignatureMatches(j)

Life(j) ==
    IF j > issued THEN "none"
    ELSE IF ~ Valid(j) THEN "void"
    ELSE IF token[j].ttl < TicksPerSecond THEN "dim"
    ELSE IF revoked[j] > 0 THEN "out" ELSE "live"

Right(r) ==
    IF req[r].at = "mint" /\ req[r].seen = password THEN "password"
    ELSE IF req[r].at \in {"owner", "reissue"} /\ SignatureMatches(req[r].cookie)
         THEN "token" ELSE "nothing"

Promise == INSTANCE SessionPromise
    WITH Tokens <- Jtis, LogoutsMayBeForgotten <- CacheMayBeLost,
         life <- [j \in Jtis |-> Life(j)], right <- [r \in Requests |-> Right(r)]

\* Queries, races, lost answers and truncated seconds notwithstanding, sessions
\* behave as SessionPromise says: a live token comes from the password in force
\* or from a live token, and a logout and a new password hold.  (That nothing
\* else ends a token before its time is SlidingSession; SessionPromise lets a
\* token age at any step.)
PromiseKept == Promise!PromiseSpec

\* tokens.py, lines 64-65: the claims are made anew at every login and refresh.
RefreshRenewsRole ==
    [][\A r \in Requests :
        req[r].at = "reissue" /\ req'[r].at = "refreshed"
            => token'[req'[r].given].role = role]_sessionVars
=============================================================================
