----------------------------- MODULE Accounts -----------------------------
(***************************************************************************)
(* Sign-up and the forgotten password of the same numbers: Registration    *)
(* and PasswordReset over one user table, one cache of one-time codes with *)
(* one throttle per number, and a staff that sets the two flags of a row   *)
(* in the admin panel.  (Users has the deletion of a row, which needs ids.) *)
(*                                                                         *)
(* A worker runs a handler of one of the two flows at a time.  What each   *)
(* flow reads of the other is derived from the table: PasswordReset's      *)
(* account from the flags of the row, its count of saved passwords from    *)
(* every save of one, the sign-up's included.                              *)
(***************************************************************************)
EXTENDS Otp

CONSTANTS
    Forms, NoRow, NoPassword,        \* as in Registration
    PASSWORD_RESET_TOKEN_LIFETIME,   \* seconds
    MaxResetTokens,                  \* bound: tokens minted
    MaxPasswords,                    \* bound: passwords saved for a number
    Submissions,                     \* bound: the sign-ups tried, <<number, form>>
    Known                            \* bound: numbers that forget, and that the staff knows

VARIABLES
    users,      \* users[phone]: the row with that number
    signup,     \* signup[w]: the sign-up handler worker w runs
    password,   \* password[phone]: which set_password made the stored hash
    reset, minted, spent,   \* reset tokens, as in PasswordReset
    recovery,   \* recovery[w]: the forgotten-password handler worker w runs
    edited      \* numbers whose is_phone_verified the staff has changed (history)

signupVars == <<users, signup>>
recoveryVars == <<reset, minted, spent, recovery>>
accountVars == <<vars, signupVars, password, recoveryVars, edited>>

SignUp == INSTANCE Registration WITH task <- signup

\* ForgotPasswordRequestSerializer.save asks for both flags of the row.
Account(p) ==
    CASE ~ SignUp!HasRow(p) -> "none"
      [] SignUp!Verified(p) /\ users[p].active -> "active"
      [] OTHER -> "blocked"

Recovery == INSTANCE PasswordReset
    WITH task <- recovery, account <- [p \in Phones |-> Account(p)]

\* What Registration and PasswordReset assume of their constants.
ASSUME AccountsAssumption ==
    /\ {"register", "password_reset"} \subseteq Purposes
    /\ \A f \in Forms : f.password # NoPassword
    /\ NoRow \notin SignUp!Row
    /\ PASSWORD_RESET_TOKEN_LIFETIME \in Nat \ {0}
    /\ MaxResetTokens \in Nat
    /\ MaxPasswords \in Nat \ {0}
    /\ Known \subseteq Phones

AccountsInit ==
    /\ SignUp!RegInit
    /\ password = [p \in Phones |-> 0]
    /\ reset = [j \in Recovery!Tokens |-> Recovery!Blank]
    /\ minted = 0
    /\ spent = [j \in Recovery!Tokens |-> 0]
    /\ recovery = [w \in Workers |-> Recovery!NoTask]
    /\ edited = {}

SavesPassword(w, p) == signup[w].at = "password" /\ signup[w].phone = p

\* A step of a sign-up handler; its save makes a new hash like any other.
SignUpStep(w) ==
    /\ recovery[w] = Recovery!NoTask
    /\ \/ \E p \in Phones, f \in Forms :
             <<p, f>> \in Submissions /\ SignUp!Register(w, p, f)
       \/ \E p \in Phones, c \in Codes : SignUp!VerifyOtpRequest(w, p, c)
       \/ /\ \A p \in Phones : SavesPassword(w, p) => password[p] < MaxPasswords
          /\ SignUp!RegisterStep(w)
       \/ SignUp!ActivateStep(w)
       \/ SignUp!OtpStep(w) \/ SignUp!Respond(w) \/ SignUp!Die(w)
    /\ password' = [p \in Phones |->
          IF SavesPassword(w, p) /\ signup'[w].at = "send" THEN password[p] + 1 ELSE password[p]]
    /\ UNCHANGED <<recoveryVars, edited>>

Passwords == {f.password : f \in Forms}

\* save(update_fields=["password"]): the hash of some password is in the row, and
\* no other column is written.
PasswordSaved(p) == \E s \in Passwords : users' = [users EXCEPT ![p].password = s]

RecoverySaves(w) ==
    /\ recovery[w].at = "save"
    /\ PasswordSaved(recovery[w].phone)
    /\ Recovery!SavePassword(w)

RecoveryStep(w) ==
    /\ signup[w] = SignUp!NoTask
    /\ UNCHANGED <<signup, edited>>
    /\ \/ RecoverySaves(w)
       \/ /\ UNCHANGED users
          /\ \/ \E p \in Known : Recovery!ForgotPasswordRequest(w, p)
             \/ \E p \in Known, c \in Codes : Recovery!ForgotPasswordVerify(w, p, c)
             \/ \E j \in 1 .. minted : Recovery!ForgotPasswordConfirm(w, j)
             \/ Recovery!RequestHandler(w) \/ Recovery!VerifyHandler(w)
             \/ Recovery!ValidateResetToken(w) \/ Recovery!ResetTokenRefused(w)
             \/ Recovery!OtpStep(w) \/ Recovery!Respond(w) \/ Recovery!Die(w)

\* The signed-in user, whom only a verified and active row lets in.
ChangePassword(p) ==
    /\ Account(p) = "active"
    /\ PasswordSaved(p)
    /\ Recovery!ChangePassword(p)
    /\ UNCHANGED <<signup, edited>>

\* The panel's form of a user: is_active and is_phone_verified of any row.
SaveUserForm(p, active, verified) ==
    /\ SignUp!HasRow(p)
    /\ users' = [users EXCEPT ![p].active = active, ![p].verified = verified]
    /\ edited' = IF verified = users[p].verified THEN edited ELSE edited \cup {p}
    /\ UNCHANGED <<vars, signup, password, recoveryVars>>

TimePasses == UNCHANGED <<signupVars, edited>> /\ Recovery!TimePasses

AccountsNext ==
    \/ \E w \in Workers : SignUpStep(w) \/ RecoveryStep(w)
    \/ \E p \in Known :
        \/ ChangePassword(p)
        \/ \E active, verified \in BOOLEAN : SaveUserForm(p, active, verified)
    \/ TimePasses

AccountsSpec == AccountsInit /\ [][AccountsNext]_accountVars

----------------------------------------------------------------------------
(* Properties.                                                             *)

AccountsTypeOK ==
    /\ SignUp!RegTypeOK
    /\ \A p \in Phones : password[p] \in 0 .. MaxPasswords
    /\ \A w \in Workers : signup[w] = SignUp!NoTask \/ recovery[w] = Recovery!NoTask
    /\ edited \subseteq Phones

\* With one worker, no step of a sign-up writes a verified row, with whatever
\* password or block it has by then: neither the two saves of a new form, which
\* validate_phone_number keeps away (lines 96-104), nor those of a code that is left
\* of an earlier one (lines 133-136).  The numbers the staff vouches for, or no
\* longer does, are excepted here and below.
SignUpsSpareVerified ==
    [][\A p \in Phones \ edited :
        SignUp!Verified(p) /\ signup' # signup => users'[p] = users[p]]_accountVars

\* The purposes do not mix: only a verified number is ever texted a reset code,
\* and only such a code is traded for a reset token, never a sign-up code.
ResetIsForVerified ==
    /\ \A p \in Phones \ edited : otp[Recovery!Key(p)].ttl > 0 => SignUp!Verified(p)
    /\ \A j \in 1 .. minted : reset[j].phone \notin edited => SignUp!Verified(reset[j].phone)

\* A number that is verified by its code has no sign-up code left that would verify
\* it, and lift a block, again.
NoCodeOnceVerified ==
    \A p \in Phones \ edited : SignUp!Verified(p) => otp[SignUp!Key(p)].ttl = 0

\* 201 means that a code was granted: is_throttled was asked first (line 80),
\* also when forgotten-password requests share the throttle of the number.
CreatedMeansGranted ==
    [][\A w \in Workers :
        signup[w].at = "sending" /\ signup'[w].at = "created"
            => call[w].result = "granted"]_accountVars

\* The table refuses a validated sign-up in one case only: the email stands on
\* the row of another number that is not verified (line 73 asks for verified
\* rows, the column is unique over all), or was not until the staff vouched for it.
FailsOnDraftEmail ==
    [][\A w \in Workers :
        signup[w].at = "upsert" /\ signup'[w].at = "failed"
            => \E q \in Phones \ {signup[w].phone} :
                  /\ SignUp!HasRow(q) /\ (q \in edited \/ ~ users[q].verified)
                  /\ users[q].email = signup[w].form.email]_accountVars
=============================================================================
