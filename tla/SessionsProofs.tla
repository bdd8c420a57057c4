--------------------------- MODULE SessionsProofs ---------------------------
(***************************************************************************)
(* For any browsers, requests, roles and lifetimes: Sessions keeps its     *)
(* type invariant, a new password ends the sessions opened under an older  *)
(* one, the record of a logout outlives the token up to its last second,   *)
(* a session slides on until one of four reasons ends it, and a browser    *)
(* that asks one thing at a time stays signed out once it was told so.     *)
(* The last part shows that Sessions implements SessionPromise.            *)
(*                                                                         *)
(* A session carries the signature of the password it was opened under     *)
(* from the row the login read to every token rotated from it.  A record   *)
(* and its token lose ticks together, so the second that the truncation    *)
(* takes when the record is written is all that is ever missing.           *)
(***************************************************************************)
EXTENDS Sessions, TLAPS

\* Every token carries the password its session was opened under.
GoodToken(t) ==
    /\ t \in [sig : Nat, epoch : Nat, role : Roles \cup {"none"}, ttl : Nat, access : Nat]
    /\ t.sig = t.epoch /\ t.epoch <= password
    /\ t.ttl <= REFRESH_TOKEN_LIFETIME * TicksPerSecond
    /\ t.access <= ACCESS_TOKEN_LIFETIME * TicksPerSecond

TokenInv ==
    /\ issued \in 0 .. MaxTokens
    /\ token \in [Jtis -> [sig : Nat, epoch : Nat, role : Roles \cup {"none"},
                           ttl : Nat, access : Nat]]
    /\ \A j \in Jtis : GoodToken(token[j])
    /\ \A j \in Jtis : j > issued => token[j] = Blank

\* Less than a second is missing from the record of a logout.
RevokedInv ==
    /\ revoked \in [Jtis -> Nat]
    /\ loggedOut \in [Jtis -> BOOLEAN]
    /\ \A j \in Jtis : loggedOut[j] =>
          j <= issued /\ revoked[j] + TicksPerSecond > token[j].ttl
    /\ \A j \in Jtis : revoked[j] > 0 => loggedOut[j]

\* What a handler carries from one query to the next.
Request == [at : {"idle"} \cup Steps \cup Answers, browser : Browsers \cup {"none"},
            cookie : Nat, access : Nat, typed : Nat, seen : Nat, role : Roles \cup {"none"},
            given : Nat, abandoned : BOOLEAN]

GoodRequest(q) ==
    /\ q \in Request
    /\ q.at # "idle" => q.browser \in Browsers
    /\ q.cookie <= issued /\ q.access <= issued /\ q.given <= issued
    /\ q.at \in RefreshSteps \cup LogoutSteps => q.cookie # NoToken
    /\ q.at = "mint" => q.seen = q.typed /\ q.typed <= password

RequestInv ==
    /\ req \in [Requests -> Request]
    /\ \A r \in Requests : GoodRequest(req[r])

JarInv ==
    /\ cookie \in [Browsers -> 0 .. issued]
    /\ access \in [Browsers -> 0 .. issued]
    /\ out \in [Browsers -> 0 .. issued]

UserInv ==
    /\ password \in Nat
    /\ status \in {"pending", "active", "blocked"}
    /\ role \in Roles
    /\ phase \in 0 .. TicksPerSecond - 1

SessionsInv == UserInv /\ TokenInv /\ RevokedInv /\ RequestInv /\ JarInv

----------------------------------------------------------------------------
(* Arithmetic of seconds and ticks.                                        *)

LEMMA TruncationTakesLessThanASecond ==
  ASSUME NEW n \in Nat, NEW d \in Nat \ {0}
  PROVE  n \div d \in Nat /\ (n \div d) * d + d > n
  OBVIOUS

LEMMA RevocationLifeIsEnough ==
  ASSUME NEW j \in Jtis, token[j].ttl \in Nat
  PROVE  RevocationLife(j) \in Nat /\ RevocationLife(j) + TicksPerSecond > token[j].ttl
<1> DEFINE s == token[j].ttl \div TicksPerSecond
<1>1. s \in Nat /\ s * TicksPerSecond + TicksPerSecond > token[j].ttl
  BY SessionsAssumption, TruncationTakesLessThanASecond
<1>2. RevocationLife(j) = (IF s > 1 THEN s ELSE 1) * TicksPerSecond
  BY DEF RevocationLife
<1> HIDE DEF s
<1>3. CASE s > 1
  BY <1>1, <1>2, <1>3, SessionsAssumption
<1>4. CASE ~ (s > 1)
  <2>1. s = 0 \/ s = 1
    BY <1>1, <1>4
  <2>2. RevocationLife(j) = TicksPerSecond
    BY <1>2, <1>4, SessionsAssumption
  <2>3. s * TicksPerSecond = 0 \/ s * TicksPerSecond = TicksPerSecond
    BY <2>1, SessionsAssumption
  <2> QED
    BY <1>1, <2>2, <2>3, SessionsAssumption
<1> QED
  BY <1>3, <1>4

LEMMA LifetimesHoldASecond ==
  /\ REFRESH_TOKEN_LIFETIME * TicksPerSecond \in Nat
  /\ REFRESH_TOKEN_LIFETIME * TicksPerSecond >= TicksPerSecond
  /\ ACCESS_TOKEN_LIFETIME * TicksPerSecond \in Nat
  /\ ACCESS_TOKEN_LIFETIME * TicksPerSecond >= TicksPerSecond
<1>1. \A n \in Nat \ {0}, d \in Nat \ {0} : n * d \in Nat /\ n * d >= d
  OBVIOUS
<1> QED
  BY <1>1, SessionsAssumption

----------------------------------------------------------------------------
(* Steps that change a request and nothing else.                           *)

OthersStay == UNCHANGED <<userVars, tokenVars, phase, browserVars, loggedOut>>

LEMMA ReplaceRequest ==
  ASSUME SessionsInv, OthersStay, NEW r \in Requests, NEW q, GoodRequest(q),
         req' = [req EXCEPT ![r] = q]
  PROVE  SessionsInv'
<1> USE DEF SessionsInv, OthersStay, userVars, tokenVars, browserVars
<1>1. UserInv' /\ TokenInv' /\ RevokedInv' /\ JarInv'
  BY DEF UserInv, TokenInv, GoodToken, RevokedInv, JarInv
<1>2. RequestInv'
  BY DEF RequestInv, GoodRequest
<1> QED
  BY <1>1, <1>2

LEMMA NoRequestIsGood == ASSUME SessionsInv PROVE GoodRequest(NoRequest)
  BY SessionsAssumption DEF SessionsInv, TokenInv, GoodRequest, Request, NoRequest, RequestAt, NoToken,
     Steps, LoginSteps, RefreshSteps, LogoutSteps, ChangeSteps, Answers

LEMMA RequestOf ==
  ASSUME SessionsInv, NEW r \in Requests
  PROVE  /\ req[r] \in Request /\ GoodRequest(req[r])
         /\ issued \in Nat /\ password \in Nat /\ issued <= MaxTokens
  BY SessionsAssumption DEF SessionsInv, UserInv, TokenInv, RequestInv

\* A handler may go on to a step whose demands it meets.
LEMMA MoveInv ==
  ASSUME SessionsInv, OthersStay, NEW r \in Requests, NEW step,
         step \in Steps \cup Answers, step # "mint",
         step \in RefreshSteps \cup LogoutSteps => req[r].cookie # NoToken,
         req[r].at # "idle", Goto(r, step)
  PROVE  SessionsInv'
<1> DEFINE q == [req[r] EXCEPT !.at = step]
<1>1. GoodRequest(q)
  BY RequestOf DEF GoodRequest, Request
<1>2. req' = [req EXCEPT ![r] = q]
  BY DEF Goto, SessionsInv, RequestInv
<1> QED
  BY <1>1, <1>2, ReplaceRequest

LEMMA RefuseInv ==
  ASSUME SessionsInv, NEW r \in Requests, Refuse(r) PROVE SessionsInv'
  BY NoRequestIsGood, ReplaceRequest DEF Refuse, OthersStay

LEMMA SendInv ==
  ASSUME SessionsInv, NEW r \in Requests, NEW b \in Browsers, NEW step, NEW typed \in Nat,
         step \in Steps, step # "mint",
         step \in RefreshSteps \cup LogoutSteps => cookie[b] # NoToken,
         Send(r, b, step, typed)
  PROVE  SessionsInv'
<1> DEFINE q == RequestAt(step, b, typed, cookie[b], access[b])
<1>1. cookie[b] \in 0 .. issued /\ access[b] \in 0 .. issued /\ issued \in Nat
  BY SessionsAssumption DEF SessionsInv, JarInv, TokenInv
<1>2. GoodRequest(q)
  BY <1>1 DEF GoodRequest, Request, RequestAt, NoToken
<1> QED
  BY <1>2, ReplaceRequest DEF Send, OthersStay

LEMMA SendSomeInv ==
  ASSUME SessionsInv, NEW r \in Requests, NEW b \in Browsers, SendSome(r, b)
  PROVE  SessionsInv'
<1> USE DEF Steps, LoginSteps, RefreshSteps, LogoutSteps, ChangeSteps
<1>1. CASE SendVerifyOtp(r, b)
  BY <1>1, SendInv DEF SendVerifyOtp
<1>2. CASE SendRefresh(r, b)
  BY <1>2, SendInv DEF SendRefresh
<1>3. CASE SendLogout(r, b)
  BY <1>3, SendInv DEF SendLogout
<1>4. ASSUME NEW typed \in 1 .. password, SendLogin(r, b, typed) PROVE SessionsInv'
  <2>1. typed \in Nat
    BY DEF SessionsInv, UserInv
  <2> QED
    BY <1>4, <2>1, SendInv DEF SendLogin
<1>5. ASSUME NEW typed \in 1 .. password, SendChangePassword(r, b, typed) PROVE SessionsInv'
  <2>1. typed \in Nat
    BY DEF SessionsInv, UserInv
  <2> QED
    BY <1>5, <2>1, SendInv DEF SendChangePassword
<1> QED
  BY <1>1, <1>2, <1>3, <1>4, <1>5 DEF SendSome

----------------------------------------------------------------------------
(* The row read at sign-in is the one the password was compared with.      *)

LEMMA ReadRowReads ==
  ASSUME SessionsInv, NEW r \in Requests, ReadRow(r)
  PROVE  /\ req' \in [Requests -> Request]
         /\ req'[r].at = "mint" /\ req'[r].browser = req[r].browser
         /\ req'[r].cookie = req[r].cookie /\ req'[r].access = req[r].access
         /\ req'[r].given = req[r].given
         /\ req'[r].seen = password /\ req'[r].typed = password
         /\ \A s \in Requests \ {r} : req'[s] = req[s]
<1> DEFINE seen == [req EXCEPT ![r].at = "mint", ![r].typed = password, ![r].seen = password]
<1>1. req \in [Requests -> Request] /\ password \in Nat /\ role \in Roles
  BY DEF SessionsInv, RequestInv, UserInv
<1>2. "mint" \in Steps
  BY DEF Steps, LoginSteps
<1>3. /\ seen \in [Requests -> Request]
      /\ seen[r].at = "mint" /\ seen[r].seen = password /\ seen[r].typed = password
      /\ seen[r].browser = req[r].browser /\ seen[r].cookie = req[r].cookie
      /\ seen[r].access = req[r].access /\ seen[r].given = req[r].given
      /\ \A s \in Requests \ {r} : seen[s] = req[s]
  BY <1>1, <1>2 DEF Request
<1>4. req' = [seen EXCEPT ![r].role = role]
  BY DEF ReadRow
<1> HIDE DEF seen
<1>5. [seen[r] EXCEPT !.role = role] \in Request
  BY <1>1, <1>3 DEF Request
<1>6. req' \in [Requests -> Request]
  BY <1>3, <1>4, <1>5
<1> QED
  BY <1>3, <1>4, <1>6 DEF Request

LEMMA ReadRowInv ==
  ASSUME SessionsInv, NEW r \in Requests, req[r].at # "idle",
         ReadRow(r),
         UNCHANGED <<password, role, tokenVars, phase, browserVars, loggedOut>>,
         status' \in {"pending", "active", "blocked"}
  PROVE  SessionsInv'
<1> USE DEF SessionsInv
<1>1. UserInv' /\ TokenInv' /\ RevokedInv' /\ JarInv'
  BY DEF UserInv, TokenInv, GoodToken, RevokedInv, JarInv, tokenVars, browserVars
<1>2. RequestInv'
  BY ReadRowReads DEF RequestInv, GoodRequest, UserInv, tokenVars, RefreshSteps, LogoutSteps
<1> QED
  BY <1>1, <1>2

----------------------------------------------------------------------------
(* New pairs of tokens.                                                    *)

LEMMA PairIsGood ==
  ASSUME SessionsInv, NEW sig \in Nat, sig <= password, NEW r \in Roles \cup {"none"}
  PROVE  GoodToken(Pair(sig, sig, r))
  BY LifetimesHoldASecond, SessionsAssumption DEF SessionsInv, UserInv, GoodToken, Pair

LEMMA IssueInv ==
  ASSUME SessionsInv, NEW t, GoodToken(t), Issue(t),
         NEW r \in Requests, NEW step \in Answers, req[r].at # "idle",
         req' = [req EXCEPT ![r].at = step, ![r].given = issued + 1],
         UNCHANGED <<userVars, revoked, phase, browserVars, loggedOut>>
  PROVE  SessionsInv'
<1> USE DEF SessionsInv, userVars, browserVars
<1>1. issued \in Nat /\ issued + 1 \in Jtis /\ issued' = issued + 1
  BY SessionsAssumption DEF TokenInv, Issue, Jtis
<1>2. UserInv' /\ JarInv'
  BY <1>1 DEF UserInv, JarInv
<1>3. TokenInv'
  <2>1. token' \in [Jtis -> [sig : Nat, epoch : Nat, role : Roles \cup {"none"},
                            ttl : Nat, access : Nat]]
    BY DEF TokenInv, GoodToken, Issue
  <2>2. \A j \in Jtis : token'[j] = IF j = issued + 1 THEN t ELSE token[j]
    BY DEF TokenInv, Issue
  <2>3. issued' \in 0 .. MaxTokens
    BY <1>1, SessionsAssumption DEF Jtis
  <2>4. \A j \in Jtis : GoodToken(token[j])'
    BY <2>2 DEF TokenInv, GoodToken
  <2>5. \A j \in Jtis : j > issued' => token'[j] = Blank
    BY <1>1, <2>2 DEF TokenInv, Jtis
  <2> QED
    BY <2>1, <2>3, <2>4, <2>5 DEF TokenInv
<1>4. RevokedInv'
  BY <1>1 DEF RevokedInv, TokenInv, GoodToken, Issue, Jtis
<1>5. RequestInv'
  <2> DEFINE answered == [req EXCEPT ![r].at = step]
  <2>1. /\ answered \in [Requests -> Request]
        /\ answered[r].at = step /\ answered[r].browser = req[r].browser
        /\ answered[r].cookie = req[r].cookie /\ answered[r].access = req[r].access
        /\ \A s \in Requests \ {r} : answered[s] = req[s]
    BY DEF RequestInv, Request
  <2>2. req' = [answered EXCEPT ![r].given = issued + 1]
    OBVIOUS
  <2> HIDE DEF answered
  <2>3. req' \in [Requests -> Request]
    <3>1. [answered[r] EXCEPT !.given = issued + 1] \in Request
      BY <1>1, <2>1 DEF Request
    <3> QED
      BY <2>1, <2>2, <3>1
  <2>4. /\ req'[r].at = step /\ req'[r].browser = req[r].browser
        /\ req'[r].cookie = req[r].cookie /\ req'[r].access = req[r].access
        /\ req'[r].given = issued + 1
        /\ \A s \in Requests \ {r} : req'[s] = req[s]
    BY <2>1, <2>2 DEF Request
  <2>5. step \notin RefreshSteps \cup LogoutSteps /\ step # "mint"
    BY DEF Answers, RefreshSteps, LogoutSteps
  <2> QED
    BY <1>1, <2>3, <2>4, <2>5 DEF RequestInv, GoodRequest, Request
<1> QED
  BY <1>2, <1>3, <1>4, <1>5

LEMMA MintTokensInv ==
  ASSUME SessionsInv, NEW r \in Requests, MintTokens(r) PROVE SessionsInv'
<1>1. /\ req[r].seen \in Nat /\ req[r].seen = req[r].typed /\ req[r].seen <= password
      /\ req[r].role \in Roles \cup {"none"}
  BY RequestOf DEF MintTokens, GoodRequest, Request
<1>2. GoodToken(Pair(req[r].seen, req[r].typed, req[r].role))
  BY <1>1, PairIsGood
<1> HIDE DEF Pair
<1> QED
  BY <1>2, IssueInv DEF MintTokens, Answers

LEMMA ReissueInv ==
  ASSUME SessionsInv, NEW r \in Requests, Reissue(r) PROVE SessionsInv'
<1> DEFINE old == token[req[r].cookie]
<1>1. req[r].cookie \in Jtis
  BY RequestOf, SessionsAssumption DEF Reissue, GoodRequest, Request, RefreshSteps, NoToken, Jtis
<1>2. /\ old.sig \in Nat /\ old.sig = old.epoch /\ old.sig <= password
      /\ old.role \in Roles \cup {"none"}
  BY <1>1 DEF SessionsInv, TokenInv, GoodToken
<1>3. GoodToken(Renewed(old))
  BY <1>2, PairIsGood DEF Renewed
<1>4. revoked' = revoked
  BY DEF Reissue, AfterRotation
<1> QED
  BY <1>3, <1>4, IssueInv DEF Reissue, Answers

----------------------------------------------------------------------------
(* The other steps that change what is stored.                             *)

LEMMA RevokeInv ==
  ASSUME SessionsInv, NEW r \in Requests, RevokeRefreshToken(r) PROVE SessionsInv'
<1> DEFINE j == req[r].cookie
<1> USE DEF RevokeRefreshToken, userVars, browserVars
<1>1. j \in Jtis /\ j <= issued
  BY RequestOf, SessionsAssumption DEF GoodRequest, Request, LogoutSteps, NoToken, Jtis
<1>2. UserInv' /\ TokenInv' /\ JarInv'
  BY DEF SessionsInv, UserInv, TokenInv, GoodToken, JarInv
<1>3. RevokedInv'
  <2>1. RevocationLife(j) \in Nat /\ RevocationLife(j) + TicksPerSecond > token[j].ttl
    BY <1>1, RevocationLifeIsEnough DEF SessionsInv, TokenInv
  <2> HIDE DEF j
  <2>2. /\ revoked' = [revoked EXCEPT ![j] = RevocationLife(j)]
        /\ loggedOut' = [loggedOut EXCEPT ![j] = TRUE]
        /\ token' = token /\ issued' = issued
    BY DEF j
  <2> QED
    BY <1>1, <2>1, <2>2 DEF SessionsInv, RevokedInv
<1>4. RequestInv'
  <2>1. [req[r] EXCEPT !.at = "signed_out"] \in Request
    BY RequestOf DEF Request, Answers
  <2>2. GoodRequest([req[r] EXCEPT !.at = "signed_out"])
    BY <2>1, RequestOf DEF GoodRequest, Request, RefreshSteps, LogoutSteps
  <2>3. req' = [req EXCEPT ![r] = [req[r] EXCEPT !.at = "signed_out"]]
    BY DEF Goto, SessionsInv, RequestInv
  <2> QED
    BY <2>1, <2>2, <2>3 DEF SessionsInv, RequestInv, GoodRequest
<1> QED
  BY <1>2, <1>3, <1>4 DEF SessionsInv

LEMMA SetPasswordInv ==
  ASSUME SessionsInv, SetPassword,
         UNCHANGED <<status, role, tokenVars, phase, browserVars, loggedOut>>,
         \A r \in Requests : req'[r] = req[r] \/ req'[r] = NoRequest,
         req' \in [Requests -> Request]
  PROVE  SessionsInv'
<1> USE DEF SessionsInv, tokenVars, browserVars
<1>1. password \in Nat /\ password' = password + 1
  BY DEF UserInv, SetPassword
<1>2. UserInv' /\ RevokedInv' /\ JarInv'
  BY <1>1 DEF UserInv, RevokedInv, JarInv
<1>3. TokenInv'
  BY <1>1 DEF TokenInv, GoodToken
<1>4. RequestInv'
  <2> SUFFICES ASSUME NEW r \in Requests PROVE GoodRequest(req[r])'
    BY DEF RequestInv
  <2>1. GoodRequest(req[r]) \/ req'[r] = NoRequest
    BY RequestOf
  <2>2. GoodRequest(NoRequest)
    BY NoRequestIsGood
  <2>3. GoodRequest(req'[r])
    BY RequestOf, <2>2
  <2> QED
    BY <1>1, <2>3 DEF GoodRequest, Request
<1> QED
  BY <1>2, <1>3, <1>4

LEMMA SavePasswordInv ==
  ASSUME SessionsInv, NEW r \in Requests, SavePassword(r) PROVE SessionsInv'
<1>1. NoRequest \in Request
  BY NoRequestIsGood DEF GoodRequest
<1>2. /\ \A s \in Requests : req'[s] = req[s] \/ req'[s] = NoRequest
      /\ req' \in [Requests -> Request]
  BY <1>1 DEF SavePassword, SessionsInv, RequestInv
<1> QED
  BY <1>2, SetPasswordInv DEF SavePassword

LEMMA DeliverInv ==
  ASSUME SessionsInv, NEW r \in Requests, Deliver(r) PROVE SessionsInv'
<1> USE DEF SessionsInv, userVars, tokenVars
<1>1. GoodRequest(NoRequest) /\ GoodRequest(req[r]) /\ req[r].at \in Answers
  BY NoRequestIsGood, RequestOf DEF Deliver
<1>2. UserInv' /\ TokenInv' /\ RevokedInv'
  BY DEF Deliver, UserInv, TokenInv, GoodToken, RevokedInv
<1>3. RequestInv'
  <2>1. req' = [req EXCEPT ![r] = NoRequest] /\ issued' = issued /\ password' = password
    BY DEF Deliver
  <2> QED
    BY <1>1, <2>1 DEF RequestInv, GoodRequest
<1>4. JarInv'
  <2>1. /\ issued \in Nat /\ issued' = issued
        /\ req[r].given \in 0 .. issued /\ req[r].cookie \in 0 .. issued
    BY <1>1, RequestOf DEF Deliver, GoodRequest, Request
  <2>2. cookie' \in [Browsers -> 0 .. issued] /\ access' \in [Browsers -> 0 .. issued]
    BY <2>1 DEF Deliver, JarInv
  <2>3. \E j \in 0 .. issued : out' = [out EXCEPT ![req[r].browser] = j]
    <3> DEFINE b == req[r].browser
    <3>1. b \in Browsers
      BY <1>1 DEF GoodRequest, Answers
    <3>2. CASE req[r].at = "signed_out"
      BY <2>1, <3>2 DEF Deliver
    <3>3. CASE req[r].at = "signed_in"
      <4>1. out' = [out EXCEPT ![b] = NoToken]
        BY <3>3 DEF Deliver
      <4>2. NoToken \in 0 .. issued
        BY <2>1 DEF NoToken
      <4> QED
        BY <2>1, <4>1, <4>2, Zenon
    <3>4. CASE req[r].at = "refreshed"
      <4>1. out[b] \in 0 .. issued
        BY <3>1 DEF JarInv
      <4> QED
        BY <3>4, <4>1 DEF Deliver
    <3> QED
      BY <1>1, <3>2, <3>3, <3>4 DEF Answers
  <2> QED
    BY <2>1, <2>2, <2>3 DEF JarInv
<1> QED
  BY <1>2, <1>3, <1>4

LEMMA AbandonInv ==
  ASSUME SessionsInv, NEW r \in Requests, Abandon(r) PROVE SessionsInv'
<1> DEFINE q == [req[r] EXCEPT !.abandoned = TRUE]
<1>1. GoodRequest(q)
  BY RequestOf DEF GoodRequest, Request
<1>2. req' = [req EXCEPT ![r] = q]
  BY DEF Abandon, SessionsInv, RequestInv
<1> QED
  BY <1>1, <1>2, ReplaceRequest DEF Abandon, OthersStay

\* Record and token lose a tick together.
LEMMA TickInv == ASSUME SessionsInv, Tick PROVE SessionsInv'
<1> USE DEF SessionsInv, userVars, browserVars
<1>1. UserInv'
  <2>1. \A n \in Nat, d \in Nat \ {0} : n % d \in 0 .. d - 1
    OBVIOUS
  <2>2. phase' = (phase + 1) % TicksPerSecond /\ UNCHANGED userVars
    BY DEF Tick
  <2>3. phase + 1 \in Nat
    BY SessionsAssumption DEF UserInv
  <2> QED
    BY <2>1, <2>2, <2>3, SessionsAssumption DEF UserInv
<1>2. ASSUME NEW j \in Jtis
      PROVE  /\ GoodToken(token[j])' /\ revoked'[j] \in Nat
             /\ token'[j].ttl = Less(token[j].ttl)
             /\ revoked'[j] = Less(revoked[j])
             /\ j > issued => token'[j] = Blank
  <2> DEFINE t == token[j]
  <2>1. GoodToken(t) /\ revoked[j] \in Nat /\ password' = password
    BY DEF TokenInv, RevokedInv, Tick
  <2>2. token'[j] = [t EXCEPT !.ttl = Less(@), !.access = Less(@)]
    BY DEF Tick
  <2>3. revoked'[j] = Less(revoked[j])
    BY DEF Tick
  <2>4. j > issued => t = Blank
    BY DEF TokenInv
  <2> HIDE DEF t
  <2>5. /\ GoodToken(token'[j]) /\ token'[j].ttl = Less(t.ttl)
        /\ t = Blank => token'[j] = Blank
    <3>1. /\ t \in [sig : Nat, epoch : Nat, role : Roles \cup {"none"}, ttl : Nat, access : Nat]
          /\ Less(t.ttl) \in Nat /\ Less(t.ttl) <= t.ttl
          /\ Less(t.access) \in Nat /\ Less(t.access) <= t.access
      BY <2>1 DEF GoodToken, Less
    <3>2. token'[j] = [sig |-> t.sig, epoch |-> t.epoch, role |-> t.role,
                       ttl |-> Less(t.ttl), access |-> Less(t.access)]
      BY <2>2, <3>1
    <3>3. GoodToken(token'[j])
      BY <2>1, <3>1, <3>2, LifetimesHoldASecond DEF GoodToken
    <3> QED
      BY <3>2, <3>3 DEF Less, Blank
  <2> QED
    BY <2>1, <2>3, <2>4, <2>5 DEF GoodToken, Less, t
<1>3. TokenInv'
  BY <1>2 DEF Tick, TokenInv, GoodToken
<1>4. RevokedInv'
  <2>1. \A j \in Jtis : token[j].ttl \in Nat /\ revoked[j] \in Nat
    BY DEF TokenInv, RevokedInv
  <2>2. revoked' \in [Jtis -> Nat] /\ loggedOut' = loggedOut /\ issued' = issued
    BY <1>2 DEF Tick
  <2> QED
    BY <1>2, <2>1, <2>2, SessionsAssumption DEF RevokedInv, Less
<1>5. RequestInv' /\ JarInv'
  BY DEF Tick, RequestInv, GoodRequest, JarInv
<1> QED
  BY <1>1, <1>3, <1>4, <1>5

----------------------------------------------------------------------------
(* The handlers.                                                           *)

LEMMA CheckInv ==
  ASSUME SessionsInv, NEW r \in Requests, NEW step, NEW next, NEW passes,
         step # "idle", next \in Steps, next # "mint",
         next \in RefreshSteps \cup LogoutSteps =>
             step \in RefreshSteps \cup LogoutSteps,
         Check(r, step, next, passes)
  PROVE  SessionsInv'
<1>1. next \in RefreshSteps \cup LogoutSteps => req[r].cookie # NoToken
  BY RequestOf DEF Check, GoodRequest
<1> QED
  BY <1>1, MoveInv DEF Check, OthersStay

LEMMA FailInv ==
  ASSUME SessionsInv, NEW r \in Requests, NEW step, NEW passes, Fail(r, step, passes)
  PROVE  SessionsInv'
  BY RefuseInv DEF Fail

LEMMA LoginStepInv ==
  ASSUME SessionsInv, NEW r \in Requests, LoginStep(r) PROVE SessionsInv'
<1>1. CASE ActivateUser(r)
  BY <1>1, ReadRowInv DEF ActivateUser
<1>2. CASE LookUpUser(r)
  <2>1. status \in {"pending", "active", "blocked"}
    BY DEF SessionsInv, UserInv
  <2> QED
    BY <1>2, <2>1, ReadRowInv DEF LookUpUser, userVars
<1>3. CASE LoginFails(r)
  BY <1>3, FailInv DEF LoginFails
<1> QED
  BY <1>1, <1>2, <1>3, MintTokensInv DEF LoginStep

LEMMA RefreshStepInv ==
  ASSUME SessionsInv, NEW r \in Requests, RefreshStep(r) PROVE SessionsInv'
<1> USE DEF Steps, RefreshSteps
<1>1. CASE CheckRevocation(r)
  BY <1>1, CheckInv DEF CheckRevocation
<1>2. CASE CheckOwner(r)
  BY <1>2, CheckInv DEF CheckOwner
<1>3. CASE RevocationFails(r) \/ OwnerFails(r) \/ ReissueFails(r)
  BY <1>3, FailInv DEF RevocationFails, OwnerFails, ReissueFails
<1> QED
  BY <1>1, <1>2, <1>3, ReissueInv DEF RefreshStep

LEMMA LogoutStepInv ==
  ASSUME SessionsInv, NEW r \in Requests, LogoutStep(r) PROVE SessionsInv'
<1> USE DEF Steps, LogoutSteps
<1>1. CASE AuthenticateLogout(r)
  BY <1>1, CheckInv DEF AuthenticateLogout
<1>2. CASE LogoutRefused(r) \/ RevokeFails(r)
  BY <1>2, FailInv DEF LogoutRefused, RevokeFails
<1> QED
  BY <1>1, <1>2, RevokeInv DEF LogoutStep

LEMMA ChangeStepInv ==
  ASSUME SessionsInv, NEW r \in Requests, ChangeStep(r) PROVE SessionsInv'
<1> USE DEF Steps, ChangeSteps, RefreshSteps, LogoutSteps
<1>1. CASE AuthenticateChange(r)
  BY <1>1, CheckInv DEF AuthenticateChange
<1>2. CASE ChangeRefused(r)
  BY <1>2, FailInv DEF ChangeRefused
<1> QED
  BY <1>1, <1>2, SavePasswordInv DEF ChangeStep

LEMMA OutsideInv ==
  ASSUME SessionsInv, ResetPassword \/ SetActive \/ ChangeUserRole \/ LoseCache
  PROVE  SessionsInv'
<1>1. CASE ResetPassword
  <2>1. req \in [Requests -> Request] /\ req' = req
    BY <1>1 DEF ResetPassword, SessionsInv, RequestInv
  <2> QED
    BY <1>1, <2>1, SetPasswordInv DEF ResetPassword
<1>2. CASE SetActive \/ ChangeUserRole
  <2>1. /\ UNCHANGED <<password, tokenVars, phase, browserVars, req, loggedOut>>
        /\ status' \in {"pending", "active", "blocked"} /\ role' \in Roles
    BY <1>2 DEF SetActive, ChangeUserRole, SessionsInv, UserInv
  <2> QED
    BY <2>1 DEF SessionsInv, UserInv, TokenInv, GoodToken, RevokedInv, RequestInv,
        GoodRequest, JarInv, tokenVars, browserVars
<1>3. CASE LoseCache
  BY <1>3 DEF LoseCache, SessionsInv, UserInv, TokenInv, GoodToken, RevokedInv, RequestInv,
     GoodRequest, JarInv, userVars, browserVars
<1> QED
  BY <1>1, <1>2, <1>3

LEMMA SessionsInitInv == SessionsInit => SessionsInv
<1> SUFFICES ASSUME SessionsInit PROVE SessionsInv
  OBVIOUS
<1> USE DEF SessionsInit
<1>1. UserInv
  BY SessionsAssumption DEF UserInv
<1>2. TokenInv /\ RevokedInv
  BY LifetimesHoldASecond, SessionsAssumption DEF TokenInv, GoodToken, Blank, RevokedInv
<1>3. RequestInv
  BY DEF RequestInv, GoodRequest, Request, NoRequest, RequestAt, NoToken,
      RefreshSteps, LogoutSteps
<1>4. JarInv
  BY DEF JarInv, NoToken
<1> QED
  BY <1>1, <1>2, <1>3, <1>4 DEF SessionsInv

LEMMA SessionsNextInv == SessionsInv /\ [SessionsNext]_sessionVars => SessionsInv'
<1> SUFFICES ASSUME SessionsInv, [SessionsNext]_sessionVars PROVE SessionsInv'
  OBVIOUS
<1>1. CASE UNCHANGED sessionVars
  BY <1>1 DEF sessionVars, userVars, tokenVars, browserVars, SessionsInv, UserInv,
      TokenInv, GoodToken, RevokedInv, RequestInv, GoodRequest, JarInv
<1>2. CASE \E r \in Requests : Lose(r)
  BY <1>2, RefuseInv DEF Lose
<1> QED
  BY <1>1, <1>2, SendSomeInv, LoginStepInv, RefreshStepInv, LogoutStepInv, ChangeStepInv,
     DeliverInv, AbandonInv, OutsideInv, TickInv DEF SessionsNext

----------------------------------------------------------------------------

\* What is stored, signed or under way is well formed in every reachable state,
\* for all browsers, requests, roles and lifetimes: nobody holds a token that
\* was not issued.
THEOREM SessionsTypeCorrect == SessionsSpec => []SessionsTypeOK
<1>1. SessionsInv => SessionsTypeOK
  BY LifetimesHoldASecond DEF SessionsInv, UserInv, TokenInv, GoodToken, RevokedInv,
     RequestInv, GoodRequest, Request, JarInv, SessionsTypeOK
<1> QED
  BY SessionsInitInv, SessionsNextInv, <1>1, PTL DEF SessionsSpec

\* A token that matches the stored password belongs to a session opened under
\* it: a new password ends the older ones, with what is under way.
THEOREM OldSessionsEnd == SessionsSpec => []OldSessionsDie
<1>1. SessionsInv => OldSessionsDie
  BY DEF SessionsInv, TokenInv, GoodToken, OldSessionsDie, SignatureMatches
<1> QED
  BY SessionsInitInv, SessionsNextInv, <1>1, PTL DEF SessionsSpec

\* A refresh token that was logged out is refused up to its last second,
\* however the lifetimes and the truncation of exp fall.
THEOREM LogoutOutlivesToken == SessionsSpec => []RevokedToTheLastSecond
<1>1. SessionsInv => RevokedToTheLastSecond
  <2> SUFFICES ASSUME SessionsInv, NEW j \in Jtis, loggedOut[j],
                      token[j].ttl >= TicksPerSecond
               PROVE  revoked[j] > 0
    BY DEF RevokedToTheLastSecond
  <2>1. /\ revoked[j] \in Nat /\ token[j].ttl \in Nat
        /\ revoked[j] + TicksPerSecond > token[j].ttl
    BY DEF SessionsInv, RevokedInv, TokenInv
  <2> QED
    BY <2>1, SessionsAssumption
<1> QED
  BY SessionsInitInv, SessionsNextInv, <1>1, PTL DEF SessionsSpec

----------------------------------------------------------------------------
(* Refreshes that are refused.                                             *)

\* A refresh that is refused was refused by a check of its own.
LEMMA EndOfRefresh ==
  ASSUME SessionsInv, SessionsNext, NEW r \in Requests,
         req[r].at \in RefreshSteps, req'[r] = NoRequest
  PROVE  RevocationFails(r) \/ OwnerFails(r) \/ ReissueFails(r)
<1> USE DEF RefreshSteps
<1>1. req \in [Requests -> Request] /\ req[r] # NoRequest /\ NoRequest.at = "idle"
  BY DEF SessionsInv, RequestInv, NoRequest, RequestAt
<1>2. PICK s \in Requests :
        \/ \E b \in Browsers : SendSome(s, b)
        \/ LoginStep(s) \/ RefreshStep(s) \/ LogoutStep(s) \/ ChangeStep(s)
        \/ Deliver(s) \/ Lose(s) \/ Abandon(s)
  BY <1>1 DEF SessionsNext, ResetPassword, SetActive, ChangeUserRole, Tick, LoseCache
<1>3. \E q : req' = [req EXCEPT ![s] = q]
  BY <1>2 DEF SendSome, SendVerifyOtp, SendRefresh, SendLogout, SendLogin, SendChangePassword, Send,
     LoginStep, ActivateUser, LookUpUser, LoginFails, MintTokens, ReadRow,
     RefreshStep, CheckRevocation, RevocationFails, CheckOwner, OwnerFails, Reissue, ReissueFails,
     LogoutStep, AuthenticateLogout, LogoutRefused, RevokeRefreshToken, RevokeFails,
     ChangeStep, AuthenticateChange, ChangeRefused, SavePassword,
     Check, Fail, Refuse, Goto, Deliver, Lose, Abandon
<1>4. s = r
  BY <1>1, <1>3
<1>5. ~ (\E b \in Browsers : SendSome(r, b))
  BY <1>1 DEF SendSome, SendVerifyOtp, SendRefresh, SendLogout, SendLogin, SendChangePassword, Send
<1>6. ~ LoginStep(r) /\ ~ LogoutStep(r) /\ ~ ChangeStep(r) /\ ~ Deliver(r) /\ ~ Lose(r)
  BY DEF LoginStep, ActivateUser, LookUpUser, LoginFails, MintTokens,
     LogoutStep, AuthenticateLogout, LogoutRefused, RevokeRefreshToken, RevokeFails,
     ChangeStep, AuthenticateChange, ChangeRefused, SavePassword,
     Check, Fail, Deliver, Lose, Answers
<1>7. ~ Abandon(r)
  BY <1>1 DEF Abandon, NoRequest, RequestAt, Request
<1>8. ~ CheckRevocation(r) /\ ~ CheckOwner(r) /\ ~ Reissue(r)
  BY <1>1 DEF CheckRevocation, CheckOwner, Check, Goto, Reissue, Request
<1> QED
  BY <1>2, <1>4, <1>5, <1>6, <1>7, <1>8 DEF RefreshStep

\* A session slides on: only the end of its life, a logout, a new password or a
\* blocked account has a refresh refused, whatever else races it.
THEOREM SessionsSlide == SessionsSpec => SlidingSession
<1> DEFINE Refusal(r) ==
      LET j == req[r].cookie IN
      req[r].at \in RefreshSteps /\ req'[r] = NoRequest =>
          \/ ~ Unexpired(j) \/ loggedOut[j]
          \/ token[j].epoch # password \/ status # "active"
<1>1. SessionsInv /\ [SessionsNext]_sessionVars => [\A r \in Requests : Refusal(r)]_sessionVars
  <2> SUFFICES ASSUME SessionsInv, SessionsNext, NEW r \in Requests,
                      req[r].at \in RefreshSteps, req'[r] = NoRequest
               PROVE  \/ ~ Unexpired(req[r].cookie) \/ loggedOut[req[r].cookie]
                      \/ token[req[r].cookie].epoch # password \/ status # "active"
    OBVIOUS
  <2>1. req[r].cookie \in Jtis
    <3>1. GoodRequest(req[r]) /\ issued \in 0 .. MaxTokens
      BY DEF SessionsInv, RequestInv, TokenInv
    <3>2. req[r].cookie \in Nat /\ req[r].cookie <= issued /\ req[r].cookie # 0
      BY <3>1 DEF GoodRequest, Request, NoToken
    <3> QED
      BY <3>1, <3>2, SessionsAssumption DEF Jtis
  <2>2. CASE RevocationFails(r)
    BY <2>1, <2>2 DEF RevocationFails, Fail, NotRevoked, SessionsInv, RevokedInv
  <2>3. CASE OwnerFails(r)
    BY <2>1, <2>3 DEF OwnerFails, Fail, SignatureMatches, SessionsInv, TokenInv, GoodToken
  <2>4. CASE ReissueFails(r)
    BY <2>4 DEF ReissueFails, Fail, MayReissue
  <2> QED
    BY <2>2, <2>3, <2>4, EndOfRefresh
<1> QED
  BY SessionsInitInv, SessionsNextInv, <1>1, PTL DEF SessionsSpec, SlidingSession

----------------------------------------------------------------------------
(* A browser that asks one thing at a time: at most one of its requests is *)
(* still waited for, and one that was sent with a cookie is over when the  *)
(* answer to a logout takes the cookie away.                               *)

\* Requests that are sent with the cookie.
CookieSide == RefreshSteps \cup LogoutSteps \cup {"refreshed", "signed_out"}

Awaited(q) == q.at # "idle" /\ ~ q.abandoned

SlotInv == \A r \in Requests :
    /\ req[r].at = "signed_out" => req[r].cookie \in Jtis /\ loggedOut[req[r].cookie]
    /\ req[r].at \notin {"signed_in", "refreshed"} => req[r].given = NoToken

OneAwaited == \A r, s \in Requests :
    Awaited(req[r]) /\ Awaited(req[s]) /\ req[r].browser = req[s].browser => r = s

OutInv == \A b \in Browsers : out[b] # NoToken =>
    /\ cookie[b] = NoToken /\ out[b] \in Jtis /\ loggedOut[out[b]]
    /\ \A r \in Requests :
          Awaited(req[r]) /\ req[r].browser = b => req[r].at \notin CookieSide

TabInv == SlotInv /\ OneAwaited /\ OutInv

\* A request goes on, or is over, or is given up.
LEMMA SlotMoves ==
  ASSUME SessionsInv, TabInv, NEW r \in Requests, NEW q, req' = [req EXCEPT ![r] = q],
         UNCHANGED <<cookie, out>>, \A j \in Jtis : loggedOut[j] => loggedOut'[j],
         q.at = "signed_out" => q.cookie \in Jtis /\ loggedOut'[q.cookie],
         q.at \notin {"signed_in", "refreshed"} => q.given = NoToken,
         Awaited(q) =>
            /\ Awaited(req[r]) /\ q.browser = req[r].browser
            /\ q.at \in CookieSide => req[r].at \in CookieSide
  PROVE  TabInv'
<1>1. req'[r] = q /\ \A s \in Requests \ {r} : req'[s] = req[s]
  BY DEF SessionsInv, RequestInv
<1>2. SlotInv'
  BY <1>1 DEF TabInv, SlotInv
<1>3. \A s \in Requests : Awaited(req'[s]) =>
        /\ Awaited(req[s]) /\ req'[s].browser = req[s].browser
        /\ req'[s].at \in CookieSide => req[s].at \in CookieSide
  BY <1>1
<1>4. OneAwaited'
  BY <1>3 DEF TabInv, OneAwaited, Awaited
<1>5. OutInv'
  BY <1>3 DEF TabInv, OutInv, Awaited, CookieSide
<1> QED
  BY <1>2, <1>4, <1>5 DEF TabInv

LEMMA SlotEnds ==
  ASSUME SessionsInv, TabInv, NEW r \in Requests, req' = [req EXCEPT ![r] = NoRequest],
         UNCHANGED <<cookie, out, loggedOut>>
  PROVE  TabInv'
<1>1. NoRequest.at = "idle" /\ NoRequest.given = NoToken
  BY DEF NoRequest, RequestAt
<1> QED
  BY <1>1, SlotMoves DEF Awaited

\* A handler takes a step that answers nothing yet.
LEMMA SlotGoesOn ==
  ASSUME SessionsInv, TabInv, NEW r \in Requests, req[r].at \in Steps, NEW step \in Steps,
         step \in CookieSide => req[r].at \in CookieSide,
         Goto(r, step), UNCHANGED <<cookie, out, loggedOut>>
  PROVE  TabInv'
<1> DEFINE q == [req[r] EXCEPT !.at = step]
<1>1. req[r] \in Request
  BY RequestOf
<1>2. /\ q.at = step /\ q.browser = req[r].browser /\ q.given = req[r].given
      /\ q.abandoned = req[r].abandoned
  BY <1>1 DEF Request
<1>3. req[r].given = NoToken
  BY DEF TabInv, SlotInv, Steps, LoginSteps, RefreshSteps, LogoutSteps, ChangeSteps
<1>4. step # "signed_out" /\ req[r].at # "idle"
  BY DEF Steps, LoginSteps, RefreshSteps, LogoutSteps, ChangeSteps
<1>5. req' = [req EXCEPT ![r] = q]
  BY DEF Goto
<1> HIDE DEF q
<1> QED
  BY <1>2, <1>3, <1>4, <1>5, SlotMoves DEF Awaited

LEMMA SendKeepsTab ==
  ASSUME OneTab, SessionsInv, TabInv, NEW r \in Requests, NEW b \in Browsers, SendSome(r, b)
  PROVE  TabInv'
<1>1. PICK step \in Steps :
        /\ \E typed : Send(r, b, step, typed)
        /\ step \in CookieSide => cookie[b] # NoToken
  <2> USE DEF Steps, LoginSteps, RefreshSteps, LogoutSteps, ChangeSteps, CookieSide
  <2>1. CASE SendVerifyOtp(r, b)
    BY <2>1 DEF SendVerifyOtp
  <2>2. CASE SendRefresh(r, b)
    BY <2>2 DEF SendRefresh
  <2>3. CASE SendLogout(r, b)
    BY <2>3 DEF SendLogout
  <2>4. ASSUME NEW typed, SendLogin(r, b, typed) \/ SendChangePassword(r, b, typed)
        PROVE  \E step \in Steps :
                  Send(r, b, step, typed) /\ (step \in CookieSide => cookie[b] # NoToken)
    BY <2>4 DEF SendLogin, SendChangePassword
  <2> QED
    BY <2>1, <2>2, <2>3, <2>4 DEF SendSome
<1>2. PICK q : /\ req' = [req EXCEPT ![r] = q]
               /\ q.at = step /\ q.browser = b /\ q.given = NoToken
  <2> PICK typed : Send(r, b, step, typed)
    BY <1>1
  <2>1. RequestAt(step, b, typed, cookie[b], access[b]).at = step
        /\ RequestAt(step, b, typed, cookie[b], access[b]).browser = b
        /\ RequestAt(step, b, typed, cookie[b], access[b]).given = NoToken
    BY DEF RequestAt
  <2> QED
    BY <1>1, <2>1, Zenon DEF Send
<1>3. req'[r] = q /\ \A s \in Requests \ {r} : req'[s] = req[s]
  BY <1>2 DEF SessionsInv, RequestInv
<1>4. UNCHANGED <<cookie, out, loggedOut>>
  BY <1>1 DEF Send, browserVars
<1>5. \A s \in Requests : req[s].browser = b => ~ Awaited(req[s])
  BY <1>1 DEF Send, MaySend, Awaited
<1>6. SlotInv'
  <2>1. step \notin Answers
    BY DEF Steps, LoginSteps, RefreshSteps, LogoutSteps, ChangeSteps, Answers
  <2> QED
    BY <1>2, <1>3, <1>4, <2>1 DEF TabInv, SlotInv, Answers
<1>7. OneAwaited'
  BY <1>2, <1>3, <1>5 DEF TabInv, OneAwaited, Awaited
<1>8. OutInv'
  <2>1. \A s \in Requests, c \in Browsers :
          Awaited(req'[s]) /\ req'[s].browser = c /\ out[c] # NoToken
            => req'[s].at \notin CookieSide
    BY <1>1, <1>2, <1>3 DEF TabInv, OutInv, Awaited
  <2> QED
    BY <1>4, <2>1 DEF TabInv, OutInv, Awaited
<1> QED
  BY <1>6, <1>7, <1>8 DEF TabInv

LEMMA DeliverKeepsTab ==
  ASSUME SessionsInv, TabInv, NEW r \in Requests, Deliver(r)
  PROVE  TabInv'
<1>1. PICK b \in Browsers : b = req[r].browser
  BY RequestOf DEF Deliver, GoodRequest, Answers
<1>2. /\ req' = [req EXCEPT ![r] = NoRequest] /\ loggedOut' = loggedOut
      /\ req[r].at \in Answers /\ Awaited(req[r])
      /\ cookie' = [cookie EXCEPT ![b] = req[r].given]
      /\ out' = [out EXCEPT ![b] = CASE req[r].at = "signed_out" -> req[r].cookie
                                     [] req[r].at = "signed_in" -> NoToken
                                     [] req[r].at = "refreshed" -> @]
  BY <1>1 DEF Deliver, Answers, Awaited
<1>3. /\ req'[r] = NoRequest /\ \A s \in Requests \ {r} : req'[s] = req[s]
      /\ NoRequest.at = "idle" /\ NoRequest.given = NoToken
  BY <1>2 DEF SessionsInv, RequestInv, NoRequest, RequestAt
<1>4. SlotInv' /\ OneAwaited'
  BY <1>2, <1>3 DEF TabInv, SlotInv, OneAwaited, Awaited
<1>5. ASSUME NEW c \in Browsers, out'[c] # NoToken
      PROVE  /\ cookie'[c] = NoToken /\ out'[c] \in Jtis /\ loggedOut[out'[c]]
             /\ \A s \in Requests :
                   Awaited(req'[s]) /\ req'[s].browser = c => req'[s].at \notin CookieSide
  <2>1. cookie \in [Browsers -> 0 .. issued] /\ out \in [Browsers -> 0 .. issued]
    BY DEF SessionsInv, JarInv
  <2>2. CASE c # b
    <3>1. out'[c] = out[c] /\ cookie'[c] = cookie[c]
      BY <1>2, <2>1, <2>2
    <3> QED
      BY <1>3, <1>5, <3>1 DEF TabInv, OutInv, Awaited
  <2>3. CASE c = b
    <3>1. req[r].at = "signed_out"
      <4>1. CASE req[r].at = "signed_in"
        BY <1>2, <1>5, <2>1, <2>3, <4>1
      <4>2. CASE req[r].at = "refreshed"
        <5>1. out'[b] = out[b]
          BY <1>2, <2>1, <4>2
        <5>2. out[b] = NoToken
          BY <1>1, <1>2, <4>2 DEF TabInv, OutInv, CookieSide
        <5> QED
          BY <1>5, <2>3, <5>1, <5>2
      <4> QED
        BY <1>2, <4>1, <4>2 DEF Answers
    <3>2. out'[c] = req[r].cookie /\ cookie'[c] = req[r].given
      BY <1>2, <2>1, <2>3, <3>1
    <3>3. req[r].given = NoToken /\ req[r].cookie \in Jtis /\ loggedOut[req[r].cookie]
      BY <3>1 DEF TabInv, SlotInv
    <3>4. \A s \in Requests : ~ (Awaited(req'[s]) /\ req'[s].browser = c)
      BY <1>1, <1>2, <1>3, <2>3 DEF TabInv, OneAwaited, Awaited
    <3> QED
      BY <3>2, <3>3, <3>4
  <2> QED
    BY <2>2, <2>3
<1>6. OutInv'
  BY <1>2, <1>5 DEF OutInv, Awaited
<1> QED
  BY <1>4, <1>6 DEF TabInv

\* A pair is minted: the answer is on its way.
LEMMA MintKeepsTab ==
  ASSUME SessionsInv, TabInv, NEW r \in Requests, MintTokens(r) \/ Reissue(r)
  PROVE  TabInv'
<1>1. PICK step \in {"signed_in", "refreshed"} :
        /\ req' = [req EXCEPT ![r].at = step, ![r].given = issued + 1]
        /\ step = "refreshed" => req[r].at = "reissue"
        /\ req[r].at \in {"mint", "reissue"}
  BY DEF MintTokens, Reissue
<1> DEFINE q == [req[r] EXCEPT !.at = step, !.given = issued + 1]
<1>2. req[r] \in Request
  BY RequestOf
<1>3. q.at = step /\ q.browser = req[r].browser /\ q.abandoned = req[r].abandoned
  BY <1>2 DEF Request
<1>4. req' = [req EXCEPT ![r] = q]
  BY <1>1
<1>5. UNCHANGED <<cookie, out, loggedOut>>
  BY DEF MintTokens, Reissue, browserVars
<1> HIDE DEF q
<1> QED
  BY <1>1, <1>3, <1>4, <1>5, SlotMoves DEF Awaited, CookieSide, RefreshSteps, LogoutSteps

LEMMA RevokeKeepsTab ==
  ASSUME SessionsInv, TabInv, NEW r \in Requests, RevokeRefreshToken(r)
  PROVE  TabInv'
<1> DEFINE q == [req[r] EXCEPT !.at = "signed_out"]
<1>1. /\ req[r] \in Request /\ GoodRequest(req[r]) /\ req[r].at = "revoke"
      /\ req[r].cookie \in Jtis /\ req[r].given = NoToken
  <2>1. GoodRequest(req[r]) /\ req[r].at = "revoke" /\ issued \in 0 .. MaxTokens
    BY RequestOf DEF RevokeRefreshToken, SessionsInv, TokenInv
  <2>2. req[r].cookie \in Nat /\ req[r].cookie <= issued /\ req[r].cookie # 0
    BY <2>1 DEF GoodRequest, Request, NoToken, LogoutSteps
  <2> QED
    BY <2>1, <2>2, SessionsAssumption DEF Jtis, GoodRequest, TabInv, SlotInv
<1>2. /\ q.at = "signed_out" /\ q.browser = req[r].browser /\ q.given = NoToken
      /\ q.abandoned = req[r].abandoned /\ q.cookie = req[r].cookie
  BY <1>1 DEF Request
<1>3. req' = [req EXCEPT ![r] = q] /\ UNCHANGED <<cookie, out>>
  BY DEF RevokeRefreshToken, Goto, browserVars
<1>4. loggedOut'[req[r].cookie] /\ \A j \in Jtis : loggedOut[j] => loggedOut'[j]
  BY <1>1 DEF RevokeRefreshToken, SessionsInv, RevokedInv
<1> HIDE DEF q
<1> QED
  BY <1>1, <1>2, <1>3, <1>4, SlotMoves DEF Awaited, CookieSide, LogoutSteps

LEMMA CheckKeepsTab ==
  ASSUME SessionsInv, TabInv, NEW r \in Requests, NEW step \in Steps, NEW next \in Steps,
         next \in CookieSide => step \in CookieSide,
         NEW passes, Check(r, step, next, passes) \/ Fail(r, step, passes)
  PROVE  TabInv'
<1>1. CASE Check(r, step, next, passes)
  BY <1>1, SlotGoesOn DEF Check, browserVars
<1>2. CASE Fail(r, step, passes)
  BY <1>2, SlotEnds DEF Fail, Refuse, browserVars
<1> QED
  BY <1>1, <1>2

LEMMA ReadKeepsTab ==
  ASSUME SessionsInv, TabInv, NEW r \in Requests, ActivateUser(r) \/ LookUpUser(r)
  PROVE  TabInv'
<1> DEFINE q == [req[r] EXCEPT !.at = "mint", !.typed = password, !.seen = password,
                               !.role = role]
<1>1. req[r] \in Request /\ req[r].at \in {"verify", "login"}
  BY RequestOf DEF ActivateUser, LookUpUser
<1>2. /\ q.at = "mint" /\ q.browser = req[r].browser /\ q.given = req[r].given
      /\ q.abandoned = req[r].abandoned
  BY <1>1 DEF Request
<1>3. req' = [req EXCEPT ![r] = q] /\ UNCHANGED <<cookie, out, loggedOut>>
  BY DEF ActivateUser, LookUpUser, ReadRow, browserVars
<1>4. req[r].given = NoToken
  BY <1>1 DEF TabInv, SlotInv
<1> HIDE DEF q
<1> QED
  BY <1>1, <1>2, <1>3, <1>4, SlotMoves
  DEF Awaited, CookieSide, RefreshSteps, LogoutSteps

LEMMA AbandonKeepsTab ==
  ASSUME SessionsInv, TabInv, NEW r \in Requests, Abandon(r)
  PROVE  TabInv'
<1> DEFINE q == [req[r] EXCEPT !.abandoned = TRUE]
<1>1. req[r] \in Request /\ req[r].at \in Steps
  BY RequestOf DEF Abandon
<1>2. q.at = req[r].at /\ q.given = req[r].given /\ q.abandoned
  BY <1>1 DEF Request
<1>3. req' = [req EXCEPT ![r] = q] /\ UNCHANGED <<cookie, out, loggedOut>>
  BY DEF Abandon, browserVars
<1>4. req[r].given = NoToken /\ req[r].at # "signed_out"
  BY <1>1 DEF TabInv, SlotInv, Steps, LoginSteps, RefreshSteps, LogoutSteps, ChangeSteps
<1> HIDE DEF q
<1> QED
  BY <1>1, <1>2, <1>3, <1>4, SlotMoves DEF Awaited

LEMMA TabNextInv ==
  ASSUME OneTab, ~ CacheMayBeLost, SessionsInv, TabInv, [SessionsNext]_sessionVars
  PROVE  TabInv'
<1> USE DEF Steps, LoginSteps, RefreshSteps, LogoutSteps, ChangeSteps, CookieSide
<1>1. ASSUME NEW r \in Requests, LoginStep(r) PROVE TabInv'
  <2>1. CASE LoginFails(r)
    BY <2>1, SlotEnds DEF LoginFails, Fail, Refuse, browserVars
  <2> QED
    BY <1>1, <2>1, ReadKeepsTab, MintKeepsTab DEF LoginStep
<1>2. ASSUME NEW r \in Requests, RefreshStep(r) PROVE TabInv'
  <2>1. CASE CheckRevocation(r) \/ RevocationFails(r)
    BY <2>1, CheckKeepsTab DEF CheckRevocation, RevocationFails
  <2>2. CASE CheckOwner(r) \/ OwnerFails(r)
    BY <2>2, CheckKeepsTab DEF CheckOwner, OwnerFails
  <2>3. CASE ReissueFails(r)
    BY <2>3, SlotEnds DEF ReissueFails, Fail, Refuse, browserVars
  <2> QED
    BY <1>2, <2>1, <2>2, <2>3, MintKeepsTab DEF RefreshStep
<1>3. ASSUME NEW r \in Requests, LogoutStep(r) PROVE TabInv'
  <2>1. CASE AuthenticateLogout(r) \/ LogoutRefused(r)
    BY <2>1, CheckKeepsTab DEF AuthenticateLogout, LogoutRefused
  <2>2. CASE RevokeFails(r)
    BY <2>2, SlotEnds DEF RevokeFails, Fail, Refuse, browserVars
  <2> QED
    BY <1>3, <2>1, <2>2, RevokeKeepsTab DEF LogoutStep
<1>4. ASSUME NEW r \in Requests, ChangeStep(r) PROVE TabInv'
  <2>1. CASE AuthenticateChange(r) \/ ChangeRefused(r)
    BY <2>1, CheckKeepsTab DEF AuthenticateChange, ChangeRefused
  <2>2. CASE SavePassword(r)
    BY <2>2, SlotEnds DEF SavePassword, browserVars
  <2> QED
    BY <1>4, <2>1, <2>2 DEF ChangeStep
<1>5. ASSUME NEW r \in Requests, Lose(r) PROVE TabInv'
  BY <1>5, SlotEnds DEF Lose, Refuse, browserVars
<1>6. CASE UNCHANGED <<cookie, out, req, loggedOut>>
  BY <1>6 DEF TabInv, SlotInv, OneAwaited, OutInv, Awaited
<1>7. CASE ResetPassword \/ SetActive \/ ChangeUserRole \/ Tick \/ UNCHANGED sessionVars
  BY <1>6, <1>7 DEF ResetPassword, SetActive, ChangeUserRole, Tick, sessionVars, browserVars
<1> QED
  BY <1>1, <1>2, <1>3, <1>4, <1>5, <1>7, SendKeepsTab, DeliverKeepsTab, AbandonKeepsTab
  DEF SessionsNext, LoseCache

\* A browser that asks one thing at a time, or gives up before it asks again,
\* stays signed out once it was told so, as long as the cache keeps its records
\* and exp is exact.
THEOREM LogoutsStick ==
  ASSUME OneTab, ~ CacheMayBeLost, TicksPerSecond = 1
  PROVE  SessionsSpec => []LogoutSticks
<1>1. SessionsInit => TabInv
  BY DEF SessionsInit, TabInv, SlotInv, OneAwaited, OutInv, Awaited, NoRequest, RequestAt
<1>2. SessionsInv /\ TabInv /\ [SessionsNext]_sessionVars => TabInv'
  BY TabNextInv
<1>3. SessionsInv /\ TabInv => LogoutSticks
  <2> SUFFICES ASSUME SessionsInv, TabInv, NEW b \in Browsers, out[b] # NoToken
               PROVE  ~ Usable(out[b]) /\ ~ Usable(cookie[b])
    BY DEF LogoutSticks
  <2>1. out[b] \in Jtis /\ loggedOut[out[b]] /\ cookie[b] = NoToken
    BY DEF TabInv, OutInv
  <2>2. /\ revoked[out[b]] \in Nat /\ token[out[b]].ttl \in Nat
        /\ revoked[out[b]] + 1 > token[out[b]].ttl
    BY <2>1 DEF SessionsInv, RevokedInv, TokenInv
  <2> QED
    BY <2>1, <2>2 DEF Usable, NotRevoked, Unexpired
<1> QED
  BY SessionsInitInv, SessionsNextInv, <1>1, <1>2, <1>3, PTL DEF SessionsSpec

----------------------------------------------------------------------------
(***************************************************************************)
(* Sessions implements SessionPromise: for any browsers, requests, roles   *)
(* and lifetimes, every step of the handlers, the browsers, the staff and  *)
(* the clock is a step of the promise or leaves it as it is.               *)
(*                                                                         *)
(* A request is entitled from the query that checked a password or a token *)
(* to the one that issues, as long as the password stays the one checked.  *)
(* SessionsInv supplies that a pair is signed with the password its        *)
(* session was opened under, and that a record of a logout lasts until the *)
(* token's last second.                                                    *)
(***************************************************************************)

LifeNow == [j \in Jtis |-> Life(j)]
RightNow == [r \in Requests |-> Right(r)]

\* What the promise sees of a step that leaves tokens and password alone.
TokensStay == UNCHANGED <<password, token, issued, revoked>>

LEMMA LifeStays == ASSUME TokensStay PROVE LifeNow' = LifeNow
  BY DEF TokensStay, LifeNow, Life, Valid, Unexpired, SignatureMatches

\* The rights of the other requests stay.
LEMMA RightMoves ==
  ASSUME UNCHANGED <<password, token>>, NEW r \in Requests,
         \A s \in Requests \ {r} : req'[s] = req[s]
  PROVE  RightNow' = [RightNow EXCEPT ![r] = Right(r)']
<1>1. \A s \in Requests \ {r} : Right(s)' = Right(s)
  BY DEF Right, SignatureMatches
<1>2. RightNow' = [s \in Requests |-> Right(s)']
  BY DEF RightNow
<1>3. [RightNow EXCEPT ![r] = Right(r)'] = [s \in Requests |-> IF s = r THEN Right(r)' ELSE Right(s)]
  BY DEF RightNow
<1> QED
  BY <1>1, <1>2, <1>3

LEMMA RightIs == ASSUME NEW r \in Requests PROVE Right(r) \in {"nothing", "password", "token"}
  BY DEF Right

\* A request that loses its right, or never had one, is no step the promise
\* minds.
LEMMA LosesRight ==
  ASSUME TokensStay, NEW r \in Requests,
         \A s \in Requests \ {r} : req'[s] = req[s],
         Right(r)' \in {Right(r), "nothing"}
  PROVE  [Promise!PromiseNext]_(Promise!promiseVars)
<1>1. LifeNow' = LifeNow /\ RightNow' = [RightNow EXCEPT ![r] = Right(r)']
  BY LifeStays, RightMoves DEF TokensStay
<1>2. CASE Right(r)' = Right(r)
  <2>1. RightNow' = RightNow
    BY <1>1, <1>2 DEF RightNow
  <2> QED
    BY <1>1, <2>1 DEF Promise!promiseVars, LifeNow, RightNow
<1>3. CASE Right(r)' = "nothing" /\ Right(r) # "nothing"
  <2>1. Promise!Refused(r)
    BY <1>1, <1>3 DEF Promise!Refused, LifeNow, RightNow
  <2> QED
    BY <2>1 DEF Promise!PromiseNext
<1> QED
  BY <1>2, <1>3

LEMMA IdleHasNoRight ==
  ASSUME NEW r \in Requests, req[r].at \notin {"mint", "owner", "reissue"}
  PROVE  Right(r) = "nothing"
  BY DEF Right

LEMMA RefuseMaps ==
  ASSUME SessionsInv, NEW r \in Requests, Refuse(r)
  PROVE  [Promise!PromiseNext]_(Promise!promiseVars)
<1>1. req'[r] = NoRequest /\ \A s \in Requests \ {r} : req'[s] = req[s]
  BY DEF Refuse, SessionsInv, RequestInv
<1>2. Right(r)' = "nothing"
  BY <1>1 DEF Right, NoRequest, RequestAt
<1> QED
  BY <1>1, <1>2, LosesRight DEF Refuse, TokensStay, userVars, tokenVars

----------------------------------------------------------------------------
(* Steps of a request that leave the tokens alone.                         *)

Maps == [Promise!PromiseNext]_(Promise!promiseVars)

\* The step of one request from one query to the next.
Moves(r) ==
    /\ TokensStay
    /\ \A s \in Requests \ {r} : req'[s] = req[s]

LEMMA SendSomeMaps ==
  ASSUME SessionsInv, NEW r \in Requests, NEW b \in Browsers, SendSome(r, b)
  PROVE  Maps
<1>1. ASSUME NEW step, NEW typed, Send(r, b, step, typed),
             step \notin {"mint", "owner", "reissue"}
      PROVE  Maps
  <2>1. req'[r].at = step /\ Moves(r)
    BY <1>1 DEF Send, SessionsInv, RequestInv, RequestAt, Moves, TokensStay, userVars, tokenVars
  <2>2. Right(r)' = "nothing"
    BY <1>1, <2>1 DEF Right
  <2> QED
    BY <2>1, <2>2, LosesRight DEF Moves, Maps
<1> QED
  BY <1>1 DEF SendSome, SendVerifyOtp, SendRefresh, SendLogout, SendLogin, SendChangePassword

\* A check that passes leaves a request as entitled as it was, unless it is the
\* one that looks at the token shown.
LEMMA CheckMaps ==
  ASSUME SessionsInv, NEW r \in Requests, NEW step, NEW next, NEW passes,
         Check(r, step, next, passes),
         \/ step \notin {"mint", "owner", "reissue"} /\ next \notin {"mint", "owner", "reissue"}
         \/ step = "owner" /\ next = "reissue"
  PROVE  Maps
<1>1. /\ req[r].at = step /\ req' = [req EXCEPT ![r].at = next] /\ Moves(r)
      /\ UNCHANGED <<password, token>>
  BY DEF Check, Goto, SessionsInv, RequestInv, Moves, TokensStay, userVars, tokenVars
<1>2. req'[r].at = next /\ req'[r].cookie = req[r].cookie /\ req'[r].seen = req[r].seen
  BY <1>1 DEF SessionsInv, RequestInv, Request
<1>3. Right(r)' = Right(r)
  BY <1>1, <1>2 DEF Right, SignatureMatches
<1> QED
  BY <1>1, <1>3, LosesRight DEF Moves, Maps

LEMMA FailMaps ==
  ASSUME SessionsInv, NEW r \in Requests, NEW step, NEW passes, Fail(r, step, passes)
  PROVE  Maps
  BY RefuseMaps DEF Fail, Maps

\* The password, or the code, was right: the request is entitled by the row read.
LEMMA ReadRowMaps ==
  ASSUME SessionsInv, NEW r \in Requests, req[r].at \in {"verify", "login"}, ReadRow(r),
         TokensStay
  PROVE  Maps
<1>1. Right(r) = "nothing"
  BY DEF Right
<1>2. /\ req'[r].at = "mint" /\ req'[r].seen = password
      /\ \A s \in Requests \ {r} : req'[s] = req[s]
  BY ReadRowReads
<1>3. Right(r)' = "password"
  BY <1>2 DEF Right, TokensStay
<1>4. LifeNow' = LifeNow /\ RightNow' = [RightNow EXCEPT ![r] = "password"]
  BY <1>2, <1>3, LifeStays, RightMoves DEF TokensStay
<1>5. Promise!SignIn(r)
  BY <1>1, <1>4 DEF Promise!SignIn, LifeNow, RightNow
<1> QED
  BY <1>5 DEF Promise!PromiseNext, Maps

\* The token shown is neither expired nor revoked: live, or in its last second.
LEMMA CheckRevocationMaps ==
  ASSUME SessionsInv, NEW r \in Requests, CheckRevocation(r) PROVE Maps
<1> DEFINE j == req[r].cookie
<1>1. /\ req[r].at = "revocation" /\ NotRevoked(j) /\ Moves(r)
      /\ req'[r].at = "owner" /\ req'[r].cookie = j
      /\ UNCHANGED <<password, token>>
  BY DEF CheckRevocation, Check, Goto, SessionsInv, RequestInv, Request, Moves, TokensStay,
     userVars, tokenVars
<1>2. j \in Jtis /\ j <= issued
  BY <1>1, RequestOf, SessionsAssumption DEF GoodRequest, Request, RefreshSteps, NoToken, Jtis
<1>3. Right(r) = "nothing"
  BY <1>1 DEF Right
<1>4. CASE ~ SignatureMatches(j)
  <2>1. Right(r)' = "nothing"
    BY <1>1, <1>4 DEF Right, SignatureMatches
  <2> QED
    BY <1>1, <2>1, LosesRight DEF Moves, Maps
<1>5. CASE SignatureMatches(j)
  <2>1. Right(r)' = "token"
    BY <1>1, <1>5 DEF Right, SignatureMatches
  <2>2. Life(j) \in {"live", "dim"}
    <3>1. Unexpired(j) /\ revoked[j] = 0 /\ ~ (revoked[j] > 0) /\ ~ (j > issued)
      BY <1>1, <1>2, RequestOf DEF NotRevoked, Jtis
    <3> HIDE DEF j
    <3> QED
      BY <1>5, <3>1 DEF Life, Valid
  <2>3. LifeNow' = LifeNow /\ RightNow' = [RightNow EXCEPT ![r] = "token"]
    BY <1>1, <2>1, LifeStays, RightMoves DEF Moves
  <2>4. Promise!Show(r, j)
    BY <1>2, <1>3, <2>2, <2>3 DEF Promise!Show, LifeNow, RightNow
  <2> QED
    BY <1>2, <2>4 DEF Promise!PromiseNext, Maps
<1> QED
  BY <1>4, <1>5

LEMMA DeliverMaps ==
  ASSUME SessionsInv, NEW r \in Requests, Deliver(r) PROVE Maps
<1>1. Moves(r) /\ req'[r] = NoRequest
  BY DEF Deliver, SessionsInv, RequestInv, Moves, TokensStay, userVars, tokenVars
<1>2. Right(r)' = "nothing"
  BY <1>1 DEF Right, NoRequest, RequestAt
<1> QED
  BY <1>1, <1>2, LosesRight DEF Moves, Maps

LEMMA AbandonMaps ==
  ASSUME SessionsInv, NEW r \in Requests, Abandon(r) PROVE Maps
<1>1. /\ Moves(r) /\ UNCHANGED <<password, token>>
      /\ req'[r].at = req[r].at /\ req'[r].seen = req[r].seen /\ req'[r].cookie = req[r].cookie
  BY DEF Abandon, SessionsInv, RequestInv, Request, Moves, TokensStay, userVars, tokenVars
<1>2. Right(r)' = Right(r)
  BY <1>1 DEF Right, SignatureMatches
<1> QED
  BY <1>1, <1>2, LosesRight DEF Moves, Maps

----------------------------------------------------------------------------
(* Steps that issue.                                                       *)

\* A new pair lives for a second at least: the truncation of exp takes less.
LEMMA PairLives ==
  ASSUME SessionsInv, NEW sig, NEW epoch, NEW r
  PROVE  Pair(sig, epoch, r).ttl >= TicksPerSecond /\ Pair(sig, epoch, r).ttl > 0
<1>1. \A n \in Nat \ {0, 1}, d \in Nat \ {0} : n * d \in Nat /\ n * d >= d + d
  OBVIOUS
<1>2. /\ REFRESH_TOKEN_LIFETIME * TicksPerSecond \in Nat
      /\ REFRESH_TOKEN_LIFETIME * TicksPerSecond >= TicksPerSecond + TicksPerSecond
  BY <1>1, SessionsAssumption
<1> QED
  BY <1>2, SessionsAssumption DEF Pair, SessionsInv, UserInv

\* The request that issues is entitled exactly when the pair carries the
\* password in force; then the new token is live, and otherwise void from birth.
LEMMA IssueMaps ==
  ASSUME SessionsInv, NEW t, GoodToken(t), t.ttl >= TicksPerSecond, t.ttl > 0, Issue(t),
         NEW r \in Requests, Right(r) # "nothing" <=> t.sig = password,
         req'[r].at \in Answers, \A s \in Requests \ {r} : req'[s] = req[s],
         UNCHANGED <<password, revoked>>
  PROVE  Maps
<1> PICK new \in Jtis : new = issued + 1
  BY SessionsAssumption DEF SessionsInv, TokenInv, Issue, Jtis
<1>1. /\ issued \in Nat /\ new \in Jtis /\ issued' = new
      /\ token' = [token EXCEPT ![new] = t]
  BY SessionsAssumption DEF SessionsInv, TokenInv, Issue, Jtis
<1>2. token'[new] = t /\ \A j \in Jtis \ {new} : token'[j] = token[j]
  BY <1>1 DEF SessionsInv, TokenInv
<1>3. Life(new) = "none" /\ \A j \in Jtis \ {new} : Life(j)' = Life(j)
  BY <1>1, <1>2 DEF Life, Valid, Unexpired, SignatureMatches, Jtis
<1>4. Life(new)' = IF t.sig = password THEN "live" ELSE "void"
  <2>1. revoked[new] = 0
    BY <1>1 DEF SessionsInv, RevokedInv
  <2>2. t.ttl \in Nat /\ ~ (t.ttl < TicksPerSecond)
    BY SessionsAssumption DEF GoodToken
  <2>3. /\ ~ (new > issued') /\ revoked'[new] = 0 /\ ~ (revoked'[new] > 0)
        /\ ~ (token'[new].ttl < TicksPerSecond)
        /\ Valid(new)' <=> t.sig = password
    BY <1>1, <1>2, <2>1, <2>2 DEF Valid, Unexpired, SignatureMatches
  <2> QED
    BY <2>3 DEF Life
<1>5. ASSUME NEW s \in Requests \ {r} PROVE Right(s)' = Right(s)
  <2>1. CASE req[s].at \in RefreshSteps
    <3>1. req[s].cookie \in Jtis /\ req[s].cookie # new
      BY <1>1, <2>1, RequestOf, SessionsAssumption DEF GoodRequest, Request, NoToken, Jtis
    <3> QED
      BY <1>2, <3>1 DEF Right, SignatureMatches
  <2>2. CASE req[s].at \notin RefreshSteps
    BY <2>2 DEF Right, RefreshSteps
  <2> QED
    BY <2>1, <2>2
<1>6. Right(r)' = "nothing"
  BY DEF Right, Answers
<1>7. /\ RightNow' = [RightNow EXCEPT ![r] = "nothing"]
      /\ LifeNow' = [LifeNow EXCEPT ![new] = Life(new)']
  <2>1. RightNow' = [s \in Requests |-> Right(s)'] /\ LifeNow' = [j \in Jtis |-> Life(j)']
    BY DEF RightNow, LifeNow
  <2>2. [RightNow EXCEPT ![r] = "nothing"]
          = [s \in Requests |-> IF s = r THEN "nothing" ELSE Right(s)]
    BY DEF RightNow
  <2>3. [LifeNow EXCEPT ![new] = Life(new)']
          = [j \in Jtis |-> IF j = new THEN Life(new)' ELSE Life(j)]
    BY DEF LifeNow
  <2>4. \A s \in Requests : Right(s)' = IF s = r THEN "nothing" ELSE Right(s)
    BY <1>5, <1>6
  <2>5. \A j \in Jtis : Life(j)' = IF j = new THEN Life(new)' ELSE Life(j)
    BY <1>3
  <2>6. RightNow' = [RightNow EXCEPT ![r] = "nothing"]
    BY <2>1, <2>2, <2>4
  <2>7. LifeNow' = [LifeNow EXCEPT ![new] = Life(new)']
    BY <2>1, <2>3, <2>5
  <2> QED
    BY <2>6, <2>7
<1>8. CASE t.sig = password
  <2>1. Promise!IssueLive(r, new)
    BY <1>1, <1>3, <1>4, <1>7, <1>8 DEF Promise!IssueLive, LifeNow, RightNow
  <2> QED
    BY <1>1, <2>1 DEF Promise!PromiseNext, Maps
<1>9. CASE t.sig # password
  <2>1. Right(r) = "nothing"
    BY <1>9
  <2>2. RightNow' = RightNow
    BY <1>7, <2>1 DEF RightNow
  <2>3. Promise!IssueVoid(new)
    BY <1>1, <1>3, <1>4, <1>7, <1>9, <2>2 DEF Promise!IssueVoid, LifeNow, RightNow
  <2> QED
    BY <1>1, <2>3 DEF Promise!PromiseNext, Maps
<1> QED
  BY <1>8, <1>9

LEMMA AnswerWith ==
  ASSUME SessionsInv, NEW r \in Requests, NEW step, NEW given,
         req' = [req EXCEPT ![r].at = step, ![r].given = given]
  PROVE  req'[r].at = step /\ \A s \in Requests \ {r} : req'[s] = req[s]
<1> DEFINE answered == [req EXCEPT ![r].at = step]
<1>1. /\ DOMAIN answered = Requests /\ answered[r].at = step
      /\ DOMAIN answered[r] = DOMAIN req[r]
      /\ \A s \in Requests \ {r} : answered[s] = req[s]
  BY DEF SessionsInv, RequestInv, Request
<1>2. req' = [answered EXCEPT ![r].given = given]
  OBVIOUS
<1>3. "given" # "at"
  OBVIOUS
<1> HIDE DEF answered
<1> QED
  BY <1>1, <1>2, <1>3

LEMMA MintTokensMaps ==
  ASSUME SessionsInv, NEW r \in Requests, MintTokens(r) PROVE Maps
<1> DEFINE t == Pair(req[r].seen, req[r].typed, req[r].role)
<1>1. /\ req[r].seen \in Nat /\ req[r].seen = req[r].typed /\ req[r].seen <= password
      /\ req[r].role \in Roles \cup {"none"}
  BY RequestOf DEF MintTokens, GoodRequest, Request
<1>2. GoodToken(t) /\ t.ttl >= TicksPerSecond /\ t.ttl > 0
  BY <1>1, PairIsGood, PairLives
<1>3. Right(r) # "nothing" <=> t.sig = password
  BY DEF MintTokens, Right, Pair
<1>4. req'[r].at = "signed_in" /\ \A s \in Requests \ {r} : req'[s] = req[s]
  BY AnswerWith DEF MintTokens
<1>5. Issue(t) /\ UNCHANGED <<password, revoked>>
  BY DEF MintTokens, userVars
<1> HIDE DEF t
<1> QED
  BY <1>2, <1>3, <1>4, <1>5, IssueMaps DEF Answers

LEMMA ReissueMaps ==
  ASSUME SessionsInv, NEW r \in Requests, Reissue(r) PROVE Maps
<1> DEFINE old == token[req[r].cookie]
           t == Renewed(old)
<1>1. req[r].cookie \in Jtis
  BY RequestOf, SessionsAssumption DEF Reissue, GoodRequest, Request, RefreshSteps, NoToken, Jtis
<1>2. /\ old.sig \in Nat /\ old.sig = old.epoch /\ old.sig <= password
      /\ old.role \in Roles \cup {"none"}
  BY <1>1 DEF SessionsInv, TokenInv, GoodToken
<1>3. GoodToken(t) /\ t.ttl >= TicksPerSecond /\ t.ttl > 0
  BY <1>2, PairIsGood, PairLives DEF Renewed
<1>4. Right(r) # "nothing" <=> t.sig = password
  <2>1. req[r].at = "reissue" /\ t.sig = old.sig
    BY DEF Reissue, Renewed, Pair
  <2> QED
    BY <2>1 DEF Right, SignatureMatches
<1>5. req'[r].at = "refreshed" /\ \A s \in Requests \ {r} : req'[s] = req[s]
  BY AnswerWith DEF Reissue
<1>6. Issue(t) /\ UNCHANGED <<password, revoked>>
  BY DEF Reissue, AfterRotation, userVars
<1> HIDE DEF t
<1> QED
  BY <1>3, <1>4, <1>5, <1>6, IssueMaps DEF Answers

----------------------------------------------------------------------------
(* Steps that end tokens.                                                  *)

LEMMA RevokeMaps ==
  ASSUME SessionsInv, NEW r \in Requests, RevokeRefreshToken(r) PROVE Maps
<1> PICK j \in Jtis : j = req[r].cookie /\ j <= issued
  BY RequestOf, SessionsAssumption DEF RevokeRefreshToken, GoodRequest, Request, LogoutSteps,
     NoToken, Jtis
<1>1. /\ req[r].at = "revoke" /\ Unexpired(j)
      /\ revoked' = [revoked EXCEPT ![j] = RevocationLife(j)]
      /\ UNCHANGED <<password, token, issued>>
      /\ req'[r].at = "signed_out" /\ \A s \in Requests \ {r} : req'[s] = req[s]
  BY DEF RevokeRefreshToken, Goto, SessionsInv, RequestInv, Request, userVars
<1>2. RevocationLife(j) \in Nat /\ RevocationLife(j) > 0
  <2>1. \A n \in Nat : (IF n > 1 THEN n ELSE 1) \in Nat \ {0}
    OBVIOUS
  <2>2. \A n \in Nat \ {0}, d \in Nat \ {0} : n * d \in Nat /\ n * d > 0
    OBVIOUS
  <2>3. token[j].ttl \div TicksPerSecond \in Nat
    BY SessionsAssumption, TruncationTakesLessThanASecond DEF SessionsInv, TokenInv
  <2> QED
    BY <2>1, <2>2, <2>3, SessionsAssumption DEF RevocationLife
<1>3. RightNow' = RightNow
  <2>1. RightNow' = [RightNow EXCEPT ![r] = Right(r)']
    BY <1>1, RightMoves
  <2>2. Right(r) = "nothing" /\ Right(r)' = "nothing"
    BY <1>1 DEF Right
  <2> QED
    BY <2>1, <2>2 DEF RightNow
<1>4. /\ revoked'[j] = RevocationLife(j)
      /\ \A i \in Jtis \ {j} : revoked'[i] = revoked[i]
  BY <1>1 DEF SessionsInv, RevokedInv
<1>5. \A i \in Jtis \ {j} : Life(i)' = Life(i)
  BY <1>1, <1>4 DEF Life, Valid, Unexpired, SignatureMatches
<1>6. Life(j)' = IF Life(j) = "live" THEN "out" ELSE Life(j)
  <2>1. Valid(j)' <=> Valid(j)
    BY <1>1 DEF Valid, Unexpired, SignatureMatches
  <2> QED
    BY <1>1, <1>2, <1>4, <2>1 DEF Life
<1>7. LifeNow' = [LifeNow EXCEPT ![j] = Life(j)']
  <2>1. LifeNow' = [i \in Jtis |-> Life(i)']
    BY DEF LifeNow
  <2>2. [LifeNow EXCEPT ![j] = Life(j)'] = [i \in Jtis |-> IF i = j THEN Life(j)' ELSE Life(i)]
    BY DEF LifeNow
  <2> QED
    BY <1>5, <2>1, <2>2
<1>8. CASE Life(j) = "live"
  <2>1. Promise!LogOut(j)
    BY <1>3, <1>6, <1>7, <1>8 DEF Promise!LogOut, LifeNow, RightNow
  <2> QED
    BY <2>1 DEF Promise!PromiseNext, Maps
<1>9. CASE Life(j) # "live"
  <2>1. LifeNow' = LifeNow
    BY <1>6, <1>7, <1>9 DEF LifeNow
  <2> QED
    BY <1>3, <2>1 DEF Promise!promiseVars, LifeNow, RightNow, Maps
<1> QED
  BY <1>8, <1>9

\* No token and no row read before carries the new password.
LEMMA SetPasswordMaps ==
  ASSUME SessionsInv, SetPassword, UNCHANGED tokenVars,
         \A r \in Requests : req'[r] = req[r] \/ req'[r] = NoRequest
  PROVE  Maps
<1>1. password \in Nat /\ password' = password + 1 /\ token' = token /\ issued' = issued
  BY DEF SetPassword, SessionsInv, UserInv, tokenVars
<1>2. ASSUME NEW j \in Jtis
      PROVE  Life(j)' = IF Life(j) = "none" THEN "none" ELSE "void"
  <2>1. token[j].sig \in Nat /\ token[j].sig <= password
    BY DEF SessionsInv, TokenInv, GoodToken
  <2>2. ~ Valid(j)'
    BY <1>1, <2>1 DEF Valid, SignatureMatches
  <2> QED
    BY <1>1, <2>2 DEF Life
<1>3. ASSUME NEW r \in Requests PROVE Right(r)' = "nothing"
  <2>1. CASE req'[r] = NoRequest
    BY <2>1 DEF Right, NoRequest, RequestAt
  <2>2. CASE req'[r] = req[r] /\ req[r].at = "mint"
    <3>1. req[r].seen # password'
      BY <1>1, <2>2, RequestOf DEF GoodRequest, Request
    <3> QED
      BY <2>2, <3>1 DEF Right
  <2>3. CASE req'[r] = req[r] /\ req[r].at \in {"owner", "reissue"}
    <3>1. req[r].cookie \in Jtis
      BY <2>3, RequestOf, SessionsAssumption DEF GoodRequest, Request, RefreshSteps, NoToken, Jtis
    <3>2. token[req[r].cookie].sig \in Nat /\ token[req[r].cookie].sig <= password
      BY <3>1 DEF SessionsInv, TokenInv, GoodToken
    <3> QED
      BY <1>1, <2>3, <3>2 DEF Right, SignatureMatches
  <2>4. CASE req'[r] = req[r] /\ req[r].at \notin {"mint", "owner", "reissue"}
    BY <2>4 DEF Right
  <2> QED
    BY <2>1, <2>2, <2>3, <2>4
<1>4. /\ LifeNow' = [j \in Jtis |-> IF LifeNow[j] = "none" THEN "none" ELSE "void"]
      /\ RightNow' = [r \in Requests |-> "nothing"]
  BY <1>2, <1>3 DEF LifeNow, RightNow
<1>5. Promise!NewPassword
  BY <1>4 DEF Promise!NewPassword, LifeNow, RightNow
<1> QED
  BY <1>5 DEF Promise!PromiseNext, Maps

LEMMA SavePasswordMaps ==
  ASSUME SessionsInv, NEW r \in Requests, SavePassword(r) PROVE Maps
<1>1. \A s \in Requests : req'[s] = req[s] \/ req'[s] = NoRequest
  BY DEF SavePassword, SessionsInv, RequestInv
<1> QED
  BY <1>1, SetPasswordMaps DEF SavePassword

----------------------------------------------------------------------------
(* The clock and the cache.                                                *)

LEMMA TickMaps == ASSUME SessionsInv, Tick PROVE Maps
<1>1. UNCHANGED <<password, issued, req>>
  BY DEF Tick, userVars
<1>2. ASSUME NEW j \in Jtis
      PROVE  /\ token'[j].sig = token[j].sig /\ token'[j].ttl = Less(token[j].ttl)
             /\ revoked'[j] = Less(revoked[j])
  BY DEF Tick, SessionsInv, TokenInv
<1>3. ASSUME NEW r \in Requests PROVE Right(r)' = Right(r)
  <2>1. CASE req[r].at \in RefreshSteps
    <3>1. req[r].cookie \in Jtis
      BY <2>1, RequestOf, SessionsAssumption DEF GoodRequest, Request, NoToken, Jtis
    <3> QED
      BY <1>1, <1>2, <3>1 DEF Right, SignatureMatches
  <2>2. CASE req[r].at \notin RefreshSteps
    BY <1>1, <2>2 DEF Right, RefreshSteps
  <2> QED
    BY <2>1, <2>2
<1>4. ASSUME NEW j \in Jtis
      PROVE  /\ Life(j)' \in {"none", "live", "out", "dim", "void"}
             /\ Life(j)' \in Promise!Later(Life(j))
  <2>1. /\ token[j].ttl \in Nat /\ revoked[j] \in Nat /\ issued \in Nat
        /\ revoked[j] > 0 => revoked[j] + TicksPerSecond > token[j].ttl
    BY SessionsAssumption DEF SessionsInv, TokenInv, RevokedInv
  <2>2. SignatureMatches(j)' <=> SignatureMatches(j)
    BY <1>1, <1>2 DEF SignatureMatches
  <2>3. Unexpired(j)' => Unexpired(j)
    BY <1>2, <2>1 DEF Unexpired, Less
  <2>4. CASE j > issued
    BY <1>1, <2>4 DEF Life, Promise!Later
  <2>5. CASE ~ (j > issued) /\ ~ Valid(j)
    <3>1. ~ Valid(j)'
      BY <2>2, <2>3, <2>5 DEF Valid
    <3> QED
      BY <1>1, <2>5, <3>1 DEF Life, Promise!Later
  <2>6. CASE ~ (j > issued) /\ Valid(j) /\ token[j].ttl < TicksPerSecond
    <3>1. Life(j) = "dim"
      BY <2>6 DEF Life
    <3>2. token'[j].ttl < TicksPerSecond
      BY <1>2, <2>1, <2>6, SessionsAssumption DEF Less
    <3>3. Life(j)' \in {"dim", "void"}
      BY <1>1, <2>6, <3>2 DEF Life
    <3> QED
      BY <3>1, <3>3 DEF Promise!Later
  <2>7. CASE ~ (j > issued) /\ Valid(j) /\ ~ (token[j].ttl < TicksPerSecond)
    <3>1. CASE revoked[j] > 0
      <4>1. Life(j) = "out"
        BY <2>7, <3>1 DEF Life
      <4>2. ~ (token'[j].ttl < TicksPerSecond) => revoked'[j] > 0
        BY <1>2, <2>1, <3>1, SessionsAssumption DEF Less
      <4>3. Life(j)' \in {"out", "dim", "void"}
        BY <1>1, <2>7, <4>2 DEF Life
      <4> QED
        BY <4>1, <4>3 DEF Promise!Later
    <3>2. CASE ~ (revoked[j] > 0)
      <4>1. Life(j) = "live"
        BY <2>7, <3>2 DEF Life
      <4>2. ~ (revoked'[j] > 0)
        BY <1>2, <2>1, <3>2 DEF Less
      <4>3. Life(j)' \in {"live", "dim", "void"}
        BY <1>1, <2>7, <4>2 DEF Life
      <4> QED
        BY <4>1, <4>3 DEF Promise!Later
    <3> QED
      BY <3>1, <3>2
  <2> QED
    BY <2>4, <2>5, <2>6, <2>7
<1>5. /\ RightNow' = RightNow
      /\ LifeNow' \in [Jtis -> {"none", "live", "out", "dim", "void"}]
      /\ \A j \in Jtis : LifeNow'[j] \in Promise!Later(LifeNow[j])
  BY <1>3, <1>4 DEF RightNow, LifeNow
<1>6. Promise!Age
  BY <1>5 DEF Promise!Age, LifeNow, RightNow
<1> QED
  BY <1>6 DEF Promise!PromiseNext, Maps

LEMMA LoseCacheMaps == ASSUME SessionsInv, LoseCache PROVE Maps
<1>1. /\ CacheMayBeLost /\ UNCHANGED <<password, token, issued, req>>
      /\ \A j \in Jtis : revoked'[j] = 0
  BY DEF LoseCache, userVars
<1>2. RightNow' = RightNow
  BY <1>1 DEF RightNow, Right, SignatureMatches
<1>3. ASSUME NEW j \in Jtis
      PROVE  Life(j)' = IF Life(j) = "out" THEN "live" ELSE Life(j)
  <2>1. Valid(j)' <=> Valid(j)
    BY <1>1 DEF Valid, Unexpired, SignatureMatches
  <2> QED
    BY <1>1, <2>1 DEF Life
<1>4. LifeNow' = [j \in Jtis |-> IF LifeNow[j] = "out" THEN "live" ELSE LifeNow[j]]
  BY <1>3 DEF LifeNow
<1>5. Promise!ForgetLogouts
  BY <1>1, <1>2, <1>4 DEF Promise!ForgetLogouts, LifeNow, RightNow
<1> QED
  BY <1>5 DEF Promise!PromiseNext, Maps

LEMMA OutsideMaps ==
  ASSUME SessionsInv, ResetPassword \/ SetActive \/ ChangeUserRole PROVE Maps
<1>1. CASE ResetPassword
  BY <1>1, SetPasswordMaps DEF ResetPassword
<1>2. CASE SetActive \/ ChangeUserRole
  <2>1. UNCHANGED <<password, token, issued, revoked, req>>
    BY <1>2 DEF SetActive, ChangeUserRole, tokenVars
  <2>2. LifeNow' = LifeNow /\ RightNow' = RightNow
    BY <2>1 DEF LifeNow, Life, Valid, Unexpired, RightNow, Right, SignatureMatches
  <2> QED
    BY <2>2 DEF Promise!promiseVars, LifeNow, RightNow, Maps
<1> QED
  BY <1>1, <1>2

----------------------------------------------------------------------------
(* The refinement.                                                         *)

LEMMA InitMaps == SessionsInit => Promise!PromiseInit
<1> SUFFICES ASSUME SessionsInit PROVE Promise!PromiseInit
  OBVIOUS
<1>1. \A j \in Jtis : Life(j) = "none"
  BY SessionsAssumption DEF SessionsInit, Life, Jtis
<1>2. \A r \in Requests : Right(r) = "nothing"
  BY DEF SessionsInit, NoRequest, RequestAt, Right
<1> QED
  BY <1>1, <1>2 DEF Promise!PromiseInit

LEMMA HandlerMaps ==
  ASSUME SessionsInv, NEW r \in Requests,
         LoginStep(r) \/ RefreshStep(r) \/ LogoutStep(r) \/ ChangeStep(r)
  PROVE  Maps
<1>1. CASE ActivateUser(r) \/ LookUpUser(r)
  BY <1>1, ReadRowMaps DEF ActivateUser, LookUpUser, TokensStay, userVars, tokenVars
<1>2. CASE \/ LoginFails(r) \/ RevocationFails(r) \/ OwnerFails(r) \/ ReissueFails(r)
           \/ LogoutRefused(r) \/ RevokeFails(r) \/ ChangeRefused(r)
  BY <1>2, FailMaps DEF LoginFails, RevocationFails, OwnerFails, ReissueFails,
     LogoutRefused, RevokeFails, ChangeRefused
<1>3. CASE CheckOwner(r)
  BY <1>3, CheckMaps DEF CheckOwner
<1>4. CASE AuthenticateLogout(r)
  BY <1>4, CheckMaps DEF AuthenticateLogout
<1>5. CASE AuthenticateChange(r)
  BY <1>5, CheckMaps DEF AuthenticateChange
<1> QED
  BY <1>1, <1>2, <1>3, <1>4, <1>5, CheckRevocationMaps, MintTokensMaps, ReissueMaps,
     RevokeMaps, SavePasswordMaps DEF LoginStep, RefreshStep, LogoutStep, ChangeStep

LEMMA NextMaps == SessionsInv /\ [SessionsNext]_sessionVars => Maps
<1> SUFFICES ASSUME SessionsInv, [SessionsNext]_sessionVars PROVE Maps
  OBVIOUS
<1>1. CASE UNCHANGED sessionVars
  <2>1. UNCHANGED <<password, token, issued, revoked, req>>
    BY <1>1 DEF sessionVars, userVars, tokenVars
  <2>2. LifeNow' = LifeNow /\ RightNow' = RightNow
    BY <2>1 DEF LifeNow, Life, Valid, Unexpired, RightNow, Right, SignatureMatches
  <2> QED
    BY <2>2 DEF Promise!promiseVars, LifeNow, RightNow, Maps
<1>2. CASE \E r \in Requests : Lose(r)
  BY <1>2, RefuseMaps DEF Lose, Maps
<1> QED
  BY <1>1, <1>2, SendSomeMaps, HandlerMaps, DeliverMaps, AbandonMaps, OutsideMaps, TickMaps,
     LoseCacheMaps DEF SessionsNext

\* However requests, lost answers, the clock, the staff and a lost cache
\* interleave, and for all lifetimes, sessions behave as SessionPromise says.
THEOREM SessionsKeepPromise == SessionsSpec => PromiseKept
<1>1. [SessionsNext]_sessionVars /\ SessionsInv => [Promise!PromiseNext]_(Promise!promiseVars)
  BY NextMaps DEF Maps
<1> QED
  BY InitMaps, SessionsInitInv, SessionsNextInv, <1>1, PTL
     DEF SessionsSpec, PromiseKept, Promise!PromiseSpec
=============================================================================
