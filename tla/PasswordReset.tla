--------------------------- MODULE PasswordReset ---------------------------
(***************************************************************************)
(* The forgotten password in three requests: ForgotPasswordRequest-,       *)
(* ForgotPasswordVerify- and ForgotPasswordConfirmSerializer of            *)
(* api/v1/serializers.py with their views, over the one-time codes of Otp  *)
(* and PasswordResetToken of services/tokens.py.                           *)
(*                                                                         *)
(* task[w] is where the handler of worker w is, call[w] the otp.py call it *)
(* is in.  A handler reads the user once; what it does later it does to    *)
(* that copy.  Reset tokens are stored nowhere: the table `reset` stands   *)
(* for the signed payloads their owners keep.                              *)
(***************************************************************************)
EXTENDS Otp

CONSTANTS
    PASSWORD_RESET_TOKEN_LIFETIME,   \* seconds
    MaxResetTokens,                  \* bound: tokens minted
    MaxPasswords                     \* bound: passwords saved for a number

ASSUME ResetPurpose == "password_reset" \in Purposes

ASSUME ResetAssumption ==
    /\ PASSWORD_RESET_TOKEN_LIFETIME \in Nat \ {0}
    /\ MaxResetTokens \in Nat
    /\ MaxPasswords \in Nat \ {0}

VARIABLES
    account,    \* account[phone]: no user, not active and verified, or both
    password,   \* password[phone]: which set_password made the stored hash
    reset,      \* reset[j]: the j-th reset token
    minted,     \* tokens minted so far
    task,       \* task[w]: the handler worker w runs
    spent       \* spent[j]: passwords saved on the strength of j (history)

resetVars == <<vars, account, password, reset, minted, task, spent>>

\* Mutant: verify_otp and request_otp with the purpose left out.
KeyOfSignUp(p) == <<p, "register">>

Key(p) == <<p, "password_reset">>

Tokens == 1 .. MaxResetTokens
NoToken == 0

\* epoch: the password there was when the code behind the token was compared
\* (history).
Blank == [phone |-> NoKey, sig |-> 0, epoch |-> 0, ttl |-> 0]

Outcomes == {"ok", "rejected", "failed"}      \* 200, 400, 500

TaskAt(step, p) ==
    [at |-> step, phone |-> p, code |-> NoCode, seen |-> 0, epoch |-> 0, token |-> NoToken]

NoTask == TaskAt("idle", NoKey)

Move(w, step) == task' = [task EXCEPT ![w].at = step]

ResetInit ==
    /\ Init
    /\ account \in [Phones -> {"none", "blocked", "active"}]
    /\ password = [p \in Phones |-> 1]
    /\ reset = [j \in Tokens |-> Blank]
    /\ minted = 0
    /\ task = [w \in Workers |-> NoTask]
    /\ spent = [j \in Tokens |-> 0]

----------------------------------------------------------------------------
(* Step 1: ask for a code.                                                 *)

ForgotPasswordRequest(w, p) ==
    /\ task[w] = NoTask
    /\ task' = [task EXCEPT ![w] = TaskAt("request", p)]
    /\ UNCHANGED <<vars, account, password, reset, minted, spent>>

\* Nobody to text: the answer is the same 200.
IgnoreRequest(w) ==
    /\ task[w].at = "request"
    /\ account[task[w].phone] # "active"
    /\ Move(w, "ok")
    /\ UNCHANGED <<vars, account, password, reset, minted, spent>>

SendPasswordResetOtp(w) ==
    /\ task[w].at = "request"
    /\ account[task[w].phone] = "active"
    /\ CallRequest(w, Key(task[w].phone))
    /\ Move(w, "sending")
    /\ UNCHANGED <<account, password, reset, minted, spent>>

\* Granted or throttled is all one; only an exception shows.
RequestReturns(w) ==
    /\ task[w].at = "sending"
    /\ Return(w)
    /\ Move(w, IF call[w].result = "error" THEN "failed" ELSE "ok")
    /\ UNCHANGED <<account, password, reset, minted, spent>>

----------------------------------------------------------------------------
(* Step 2: trade the code for a token.                                     *)

ForgotPasswordVerify(w, p, c) ==
    /\ task[w] = NoTask
    /\ task' = [task EXCEPT ![w] = [TaskAt("verify", p) EXCEPT !.code = c]]
    /\ UNCHANGED <<vars, account, password, reset, minted, spent>>

VerifyFindsNobody(w) ==
    /\ task[w].at = "verify"
    /\ account[task[w].phone] = "none"
    /\ Move(w, "rejected")
    /\ UNCHANGED <<vars, account, password, reset, minted, spent>>

\* The row is read before the code is verified; is_active is not asked.
VerifyFindsUser(w) ==
    LET p == task[w].phone IN
    /\ task[w].at = "verify"
    /\ account[p] # "none"
    /\ CallVerify(w, Key(p), task[w].code)
    /\ task' = [task EXCEPT ![w].at = "verifying", ![w].seen = password[p]]
    /\ UNCHANGED <<account, password, reset, minted, spent>>

CodeRefused(w) ==
    /\ task[w].at = "verifying"
    /\ Return(w)
    /\ call[w].result # "accepted"
    /\ Move(w, "rejected")
    /\ UNCHANGED <<account, password, reset, minted, spent>>

\* Mutant: the row is read again for the token.
TokenOfRowReread(w) ==
    [phone |-> task[w].phone, sig |-> password[task[w].phone], epoch |-> task[w].epoch,
     ttl |-> PASSWORD_RESET_TOKEN_LIFETIME]

\* Mutant: the lifetime is counted from the end of the request.
TokenForTooLong(w) ==
    [phone |-> task[w].phone, sig |-> task[w].seen, epoch |-> task[w].epoch,
     ttl |-> PASSWORD_RESET_TOKEN_LIFETIME + 1]

\* PasswordResetToken.for_user, of the row read before.
TokenFor(w) ==
    [phone |-> task[w].phone, sig |-> task[w].seen, epoch |-> task[w].epoch,
     ttl |-> PASSWORD_RESET_TOKEN_LIFETIME]

MintResetToken(w) ==
    /\ task[w].at = "verifying"
    /\ minted < MaxResetTokens
    /\ Return(w)
    /\ call[w].result = "accepted"
    /\ minted' = minted + 1
    /\ reset' = [reset EXCEPT ![minted + 1] = TokenFor(w)]
    /\ Move(w, "ok")
    /\ UNCHANGED <<account, password, spent>>

----------------------------------------------------------------------------
(* Step 3: trade the token for a new password.                             *)

ForgotPasswordConfirm(w, j) ==
    /\ task[w] = NoTask
    /\ task' = [task EXCEPT ![w] = [TaskAt("confirm", reset[j].phone) EXCEPT !.token = j]]
    /\ UNCHANGED <<vars, account, password, reset, minted, spent>>

\* Mutant: the token is as good as its expiry.
MatchesAnyPassword(j) == reset[j].sig > 0

MatchesCurrentPassword(j) == reset[j].sig = password[reset[j].phone]

TokenPasses(j) == reset[j].ttl > 0 /\ MatchesCurrentPassword(j)

ValidateResetToken(w) ==
    /\ task[w].at = "confirm"
    /\ TokenPasses(task[w].token)
    /\ Move(w, "save")
    /\ UNCHANGED <<vars, account, password, reset, minted, spent>>

ResetTokenRefused(w) ==
    /\ task[w].at = "confirm"
    /\ ~ TokenPasses(task[w].token)
    /\ Move(w, "rejected")
    /\ UNCHANGED <<vars, account, password, reset, minted, spent>>

\* set_password salts afresh: every save makes a hash, and a signature, of its
\* own.  Only the password column is written, whatever it holds by now.
SavePassword(w) ==
    LET p == task[w].phone IN
    /\ task[w].at = "save"
    /\ password[p] < MaxPasswords
    /\ password' = [password EXCEPT ![p] = @ + 1]
    /\ spent' = [spent EXCEPT ![task[w].token] = @ + 1]
    /\ Move(w, "ok")
    /\ UNCHANGED <<vars, account, reset, minted>>

----------------------------------------------------------------------------
(* Around it: the signed-in user changes the password (Sessions models how), *)
(* the staff blocks and unblocks, workers die, time passes.                *)

ChangePassword(p) ==
    /\ account[p] = "active"
    /\ password[p] < MaxPasswords
    /\ password' = [password EXCEPT ![p] = @ + 1]
    /\ UNCHANGED <<vars, account, reset, minted, task, spent>>

SetActive(p) ==
    /\ account[p] # "none"
    /\ account' = [account EXCEPT ![p] = IF @ = "active" THEN "blocked" ELSE "active"]
    /\ UNCHANGED <<vars, password, reset, minted, task, spent>>

Respond(w) ==
    /\ task[w].at \in Outcomes
    /\ task' = [task EXCEPT ![w] = NoTask]
    /\ UNCHANGED <<vars, account, password, reset, minted, spent>>

Die(w) ==
    /\ MayAbort
    /\ task[w].at \notin {"idle"} \cup Outcomes
    /\ task' = [task EXCEPT ![w] = NoTask]
    /\ call' = [call EXCEPT ![w] = Idle]
    /\ UNCHANGED <<cacheVars, historyVars, account, password, reset, minted, spent>>

OtpStep(w) ==
    /\ RequestStep(w) \/ VerifyStep(w)
    /\ task' = [task EXCEPT ![w].epoch =
                   IF call[w].pc = "get_code" THEN password[task[w].phone] ELSE @]
    /\ UNCHANGED <<account, password, reset, minted, spent>>

TimePasses ==
    /\ Tick
    /\ reset' = [j \in Tokens |-> [reset[j] EXCEPT !.ttl = IF @ > 0 THEN @ - 1 ELSE 0]]
    /\ UNCHANGED <<account, password, minted, task, spent>>

RequestHandler(w) == IgnoreRequest(w) \/ SendPasswordResetOtp(w) \/ RequestReturns(w)

VerifyHandler(w) ==
    VerifyFindsNobody(w) \/ VerifyFindsUser(w) \/ CodeRefused(w) \/ MintResetToken(w)

ConfirmHandler(w) == ValidateResetToken(w) \/ ResetTokenRefused(w) \/ SavePassword(w)

ResetNext ==
    \/ \E w \in Workers :
        \/ \E p \in Phones : ForgotPasswordRequest(w, p)
        \/ \E p \in Phones, c \in Codes : ForgotPasswordVerify(w, p, c)
        \/ \E j \in 1 .. minted : ForgotPasswordConfirm(w, j)
        \/ RequestHandler(w)
        \/ VerifyHandler(w)
        \/ ConfirmHandler(w)
        \/ OtpStep(w)
        \/ Respond(w)
        \/ Die(w)
    \/ \E p \in Phones : ChangePassword(p) \/ SetActive(p)
    \/ TimePasses

ResetSpec == ResetInit /\ [][ResetNext]_resetVars

----------------------------------------------------------------------------
(* Properties.                                                             *)

ResetSteps == {"idle", "request", "sending", "verify", "verifying", "confirm", "save"} \cup Outcomes

Token == [phone : Phones \cup {NoKey}, sig : Nat, epoch : Nat,
          ttl : 0 .. PASSWORD_RESET_TOKEN_LIFETIME]

Task == [at : ResetSteps, phone : Phones \cup {NoKey}, code : Codes \cup {NoCode},
         seen : Nat, epoch : Nat, token : {NoToken} \cup Tokens]

\* Type invariant: tokens are minted in order, for a number, and only a request
\* with a minted token confirms.
ResetTypeOK ==
    /\ TypeOK
    /\ account \in [Phones -> {"none", "blocked", "active"}]
    /\ password \in [Phones -> Nat \ {0}]
    /\ minted \in 0 .. MaxResetTokens
    /\ reset \in [Tokens -> Token]
    /\ \A j \in Tokens : IF j <= minted THEN reset[j].phone \in Phones ELSE reset[j] = Blank
    /\ task \in [Workers -> Task]
    /\ \A w \in Workers :
        /\ task[w].at # "idle" => task[w].phone \in Phones
        /\ task[w].at \in {"confirm", "save"} =>
              /\ task[w].token \in 1 .. minted
              /\ reset[task[w].token].phone = task[w].phone
    /\ spent \in [Tokens -> Nat]

\* Every new password voids the tokens that go back to a code compared before
\* it, those still to be minted included: the row is read before the code is
\* verified (serializers.py lines 424-429), so a change in between leaves a
\* token that was never good.
TokenDiesWithPassword ==
    \A j \in 1 .. minted :
        MatchesCurrentPassword(j) => reset[j].epoch = password[reset[j].phone]

\* A confirmation that begins its check after a password was saved with the
\* token is refused (lines 447-451).
SpentTokenIsRefused ==
    [][\A w \in Workers :
        task[w].at = "confirm" /\ task'[w].at = "save" => spent[task[w].token] = 0]_resetVars

\* Confirmations that race on one token may all pass the check before the first
\* of them saves (lines 468-489), each of them once.
ConcurrentSpends == \A j \in Tokens : spent[j] <= Cardinality(Workers)
=============================================================================
