--------------------------- MODULE Registration ---------------------------
(***************************************************************************)
(* Sign-up: POST /register/ and POST /verify-otp/, that is                 *)
(* RegisterSerializer and VerifyOTPSerializer of api/v1/serializers.py over *)
(* the user table and the one-time codes of Otp.                           *)
(*                                                                         *)
(* A worker runs one handler at a time; task[w] is where its handler is,   *)
(* one step per database query or cache operation, and Otp's call[w] is    *)
(* the otp.py call it is in, if any.  The queries of one handler are not   *)
(* in a transaction (settings.DATABASES keeps autocommit), except that     *)
(* update_or_create is one of its own.                                     *)
(***************************************************************************)
EXTENDS Otp

CONSTANTS
    Forms,        \* sign-up forms: [username, email, password]
    NoRow,        \* the phone has no row in accounts_user
    NoPassword    \* the password column before set_password

ASSUME RegisterPurpose == "register" \in Purposes

ASSUME FormsAssumption ==
    /\ \A f \in Forms : DOMAIN f = {"username", "email", "password"}
    /\ \A f \in Forms : f.password # NoPassword

VARIABLES
    users,    \* users[phone]: the row with that phone number
    task      \* task[w]: the handler worker w runs

regVars == <<vars, users, task>>

Key(p) == <<p, "register">>

Row == [username : {f.username : f \in Forms},
        email    : {f.email : f \in Forms},
        password : {f.password : f \in Forms} \cup {NoPassword},
        verified : BOOLEAN,     \* is_phone_verified
        active   : BOOLEAN]     \* is_active

ASSUME NoRowAssumption == NoRow \notin Row

RegisterSteps == {"username", "phone", "throttle", "email", "upsert", "password", "send", "sending"}
ActivateSteps == {"exists", "verify", "verifying", "activate"}
Outcomes == {"created", "activated", "rejected", "failed"}   \* 201, 200, 400, 500

NoForm == [username |-> NoRow, email |-> NoRow, password |-> NoPassword]

TaskAt(step, p, f, c) == [at |-> step, phone |-> p, form |-> f, code |-> c]

NoTask == TaskAt("idle", NoKey, NoForm, NoCode)

Move(w, step) == task' = [task EXCEPT ![w].at = step]

HasRow(p) == users[p] # NoRow
Verified(p) == HasRow(p) /\ users[p].verified

RegInit ==
    /\ Init
    /\ users = [p \in Phones |-> NoRow]
    /\ task = [w \in Workers |-> NoTask]

----------------------------------------------------------------------------
(* RegisterSerializer.  The field validators run in the order of           *)
(* Meta.fields; a later one only adds to the messages of a rejected form.  *)

Register(w, p, f) ==
    /\ task[w] = NoTask
    /\ task' = [task EXCEPT ![w] = TaskAt("username", p, f, NoCode)]
    /\ UNCHANGED <<vars, users>>

\* A validator passes the form on to the next step or rejects it.
Validate(w, step, next, passes) ==
    /\ task[w].at = step
    /\ Move(w, IF passes THEN next ELSE "rejected")
    /\ UNCHANGED <<vars, users>>

UsernameFree(u) == \A q \in Phones : HasRow(q) => users[q].username # u

ValidateUsername(w) == Validate(w, "username", "phone", UsernameFree(task[w].form.username))

\* Mutant: only the throttle is asked about the number.
ValidateAnyPhoneNumber(w) == Validate(w, "phone", "throttle", TRUE)

ValidatePhoneNumber(w) == Validate(w, "phone", "throttle", ~ Verified(task[w].phone))

\* Mutant: the throttle is left to request_otp.
SkipThrottle(w) == Validate(w, "throttle", "email", TRUE)

CheckThrottle(w) ==
    Validate(w, "throttle", "email", throttle[task[w].phone].n < THROTTLE_MAX_REQUESTS)

\* Mutant: the table is left to find out.
ValidateAnyEmail(w) == Validate(w, "email", "upsert", TRUE)

ValidateEmail(w) ==
    Validate(w, "email", "upsert",
             \A q \in Phones : Verified(q) => users[q].email # task[w].form.email)

\* What the unique columns of the table refuse, verified or not.
Conflicts(p, f) ==
    \E q \in Phones \ {p} :
        HasRow(q) /\ (users[q].username = f.username \/ users[q].email = f.email)

\* Mutant: the row starts over, its password included.
UpsertedAnew(p, f) ==
    [username |-> f.username, email |-> f.email, password |-> NoPassword,
     verified |-> FALSE, active |-> FALSE]

Upserted(p, f) ==
    [username |-> f.username, email |-> f.email,
     password |-> IF HasRow(p) THEN users[p].password ELSE NoPassword,
     verified |-> FALSE, active |-> FALSE]

UpdateOrCreate(w) ==
    LET p == task[w].phone
        f == task[w].form
    IN /\ task[w].at = "upsert"
       /\ ~ Conflicts(p, f)
       /\ users' = [users EXCEPT ![p] = Upserted(p, f)]
       /\ Move(w, "password")
       /\ UNCHANGED vars

\* IntegrityError, which nothing catches.
UpsertFails(w) ==
    /\ task[w].at = "upsert"
    /\ Conflicts(task[w].phone, task[w].form)
    /\ Move(w, "failed")
    /\ UNCHANGED <<vars, users>>

SavePassword(w) ==
    /\ task[w].at = "password"
    /\ users' = [users EXCEPT ![task[w].phone].password = task[w].form.password]
    /\ Move(w, "send")
    /\ UNCHANGED vars

SendRegistrationOtp(w) ==
    /\ task[w].at = "send"
    /\ CallRequest(w, Key(task[w].phone))
    /\ Move(w, "sending")
    /\ UNCHANGED users

\* The result is not looked at: a throttled request answers 201 as well.  Only
\* an exception of the cache makes a difference.
RegisterReturns(w) ==
    /\ task[w].at = "sending"
    /\ Return(w)
    /\ Move(w, IF call[w].result = "error" THEN "failed" ELSE "created")
    /\ UNCHANGED users

----------------------------------------------------------------------------
(* VerifyOTPSerializer.                                                    *)

VerifyOtpRequest(w, p, c) ==
    /\ task[w] = NoTask
    /\ task' = [task EXCEPT ![w] = TaskAt("exists", p, NoForm, c)]
    /\ UNCHANGED <<vars, users>>

UserExists(w) == Validate(w, "exists", "verify", HasRow(task[w].phone))

VerifyCode(w) ==
    /\ task[w].at = "verify"
    /\ CallVerify(w, Key(task[w].phone), task[w].code)
    /\ Move(w, "verifying")
    /\ UNCHANGED users

VerifyReturns(w) ==
    /\ task[w].at = "verifying"
    /\ Return(w)
    /\ Move(w, IF call[w].result = "accepted" THEN "activate" ELSE "rejected")
    /\ UNCHANGED users

\* save() writes the two flags of whatever row the number has by now.
Activate(w) ==
    LET p == task[w].phone IN
    /\ task[w].at = "activate"
    /\ users' = [users EXCEPT ![p].verified = TRUE, ![p].active = TRUE]
    /\ Move(w, "activated")
    /\ UNCHANGED vars

----------------------------------------------------------------------------

Respond(w) ==
    /\ task[w].at \in Outcomes
    /\ task' = [task EXCEPT ![w] = NoTask]
    /\ UNCHANGED <<vars, users>>

\* The process is killed, or the database or the cache raises.
Die(w) ==
    /\ MayAbort
    /\ task[w].at \in RegisterSteps \cup ActivateSteps
    /\ task' = [task EXCEPT ![w] = NoTask]
    /\ call' = [call EXCEPT ![w] = Idle]
    /\ UNCHANGED <<cacheVars, historyVars, users>>

OtpStep(w) == (RequestStep(w) \/ VerifyStep(w)) /\ UNCHANGED <<users, task>>

TimePasses == Tick /\ UNCHANGED <<users, task>>

RegisterStep(w) ==
    \/ ValidateUsername(w) \/ ValidatePhoneNumber(w) \/ CheckThrottle(w) \/ ValidateEmail(w)
    \/ UpdateOrCreate(w) \/ UpsertFails(w) \/ SavePassword(w)
    \/ SendRegistrationOtp(w) \/ RegisterReturns(w)

ActivateStep(w) == UserExists(w) \/ VerifyCode(w) \/ VerifyReturns(w) \/ Activate(w)

RegNext ==
    \/ \E w \in Workers :
        \/ \E p \in Phones, f \in Forms : Register(w, p, f)
        \/ \E p \in Phones, c \in Codes : VerifyOtpRequest(w, p, c)
        \/ RegisterStep(w)
        \/ ActivateStep(w)
        \/ OtpStep(w)
        \/ Respond(w)
        \/ Die(w)
    \/ TimePasses

RegSpec == RegInit /\ [][RegNext]_regVars

----------------------------------------------------------------------------
(* Properties.                                                             *)

RegTypeOK ==
    /\ TypeOK
    /\ users \in [Phones -> Row \cup {NoRow}]
    /\ \A w \in Workers :
        /\ task[w].at \in {"idle"} \cup RegisterSteps \cup ActivateSteps \cup Outcomes
        /\ task[w].at # "idle" => task[w].phone \in Phones
        /\ task[w].at \in RegisterSteps => task[w].form \in Forms
        /\ task[w].at \in ActivateSteps => task[w].code \in Codes

\* However requests for one number race, and wherever they die, nobody gets an
\* account that can be used and has no password: update_or_create makes the row
\* without one (line 99), but every code for the number is asked for after a
\* password was saved (lines 103-106), and only a code activates the row.
ActiveHasPassword ==
    \A p \in Phones : HasRow(p) /\ users[p].active => users[p].password # NoPassword

\* validate_phone_number guarantees that update_or_create rewrites only a row
\* that is still to be verified (lines 96-98).
VerifiedIsKept ==
    [][\A p \in Phones : Verified(p) => users'[p] = users[p]]_regVars

\* A number that is verified has no registration code left that would verify
\* it again.
NoCodeOnceVerified == \A p \in Phones : Verified(p) => otp[Key(p)].ttl = 0
=============================================================================
