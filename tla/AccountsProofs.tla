-------------------------- MODULE AccountsProofs --------------------------
(***************************************************************************)
(* Sign-up and the forgotten password together, with one worker that may   *)
(* die anywhere, for any numbers, forms, codes and limits: sign-ups spare  *)
(* a verified row, the codes of the two purposes do not stand in for one   *)
(* another, 201 means that a code was granted, and the table refuses a     *)
(* form in one case only.                                                  *)
(*                                                                         *)
(* One worker runs one handler, so that what a handler read it may still   *)
(* rely on (FormOk, RowOk), but for what the staff, the signed-in user and *)
(* the clock do meanwhile: a number whose is_phone_verified the staff has  *)
(* changed (edited) is excepted throughout.  What otp.py promises of calls that do not      *)
(* overlap comes from OtpProofs: each step of a handler is, to the cache,  *)
(* a step of Otp or the death of a call.                                   *)
(***************************************************************************)
EXTENDS Accounts, OtpProofs

SignupTask ==
    [at : {"idle"} \cup SignUp!RegisterSteps \cup SignUp!ActivateSteps \cup SignUp!Outcomes,
     phone : Phones \cup {NoKey}, form : Forms \cup {SignUp!NoForm}, code : Codes \cup {NoCode}]

\* The shape of what a handler of sign-up carries, and of a recovery.
SignupShape(t) ==
    /\ t \in SignupTask
    /\ t.at # "idle" => t.phone \in Phones
    /\ t.at \in SignUp!RegisterSteps => t.form \in Forms
    /\ t.at \in SignUp!ActivateSteps => t.code \in Codes

RecoveryShape(r) ==
    /\ r \in Recovery!Task
    /\ r.at # "idle" => r.phone \in Phones
    /\ r.at = "verify" => r.code \in Codes

\* What the validators of a form found is still so when its row is written, ...
FormOk(t) ==
    /\ t.at \in {"phone", "throttle", "email", "upsert"} => SignUp!UsernameFree(t.form.username)
    /\ t.at = "upsert" =>
          \A q \in Phones \ edited : SignUp!Verified(q) => users[q].email # t.form.email
    /\ t.at \in {"email", "upsert", "password", "send"} =>
          throttle[t.phone].n < THROTTLE_MAX_REQUESTS

\* ... and so is what the handler knows of the row.
RowOk(t) ==
    /\ t.at \in {"throttle", "email", "upsert", "password", "send", "sending", "activate"} =>
          t.phone \in edited \/ ~ SignUp!Verified(t.phone)
    /\ t.at \in {"password", "verify", "verifying", "activate"} => SignUp!HasRow(t.phone)
    /\ t.at = "activate" => otp[SignUp!Key(t.phone)].ttl = 0

SignupOk(t) == SignupShape(t) /\ FormOk(t) /\ RowOk(t)

RecoveryOk(r) ==
    /\ RecoveryShape(r)
    /\ r.at \in {"verifying", "confirm", "save"} => SignUp!HasRow(r.phone)
    /\ r.at = "sending" => r.phone \in edited \/ SignUp!Verified(r.phone)

\* A call belongs to the one handler that waits for it.
CallerOk(t, r, c) ==
    /\ c.pc # "idle" =>
          \/ t.at \in {"sending", "verifying"} /\ c.key = SignUp!Key(t.phone)
          \/ r.at \in {"sending", "verifying"} /\ c.key = Recovery!Key(r.phone)
    /\ c.pc \in RequestSteps => "sending" \in {t.at, r.at}
    /\ c.pc \in VerifySteps => "verifying" \in {t.at, r.at}

\* What a call that is under way, or was answered, says to its handler.
AnswerOk(t, r, c) ==
    /\ t.at = "sending" /\ c.pc = "get_count" => throttle[t.phone].n < THROTTLE_MAX_REQUESTS
    /\ t.at = "sending" /\ c.pc = "returned" => c.result \in {"granted", "error"}
    /\ t.at = "verifying" /\ Compared(c) => t.phone \in edited \/ ~ SignUp!Verified(t.phone)
    /\ r.at = "verifying" /\ Compared(c) => r.phone \in edited \/ SignUp!Verified(r.phone)
    /\ c.pc = "returned" /\ c.result = "accepted" => otp[c.key].ttl = 0

OneFlow(t, r) == t = SignUp!NoTask \/ r = Recovery!NoTask

WorkerOk(w) ==
    /\ SignupOk(signup[w]) /\ RecoveryOk(recovery[w]) /\ OneFlow(signup[w], recovery[w])
    /\ CallerOk(signup[w], recovery[w], call[w])
    /\ AnswerOk(signup[w], recovery[w], call[w])

TableOk ==
    /\ users \in [Phones -> SignUp!Row \cup {NoRow}]
    /\ password \in [Phones -> 0 .. MaxPasswords]
    /\ minted \in 0 .. MaxResetTokens
    /\ reset \in [Recovery!Tokens -> Recovery!Token]
    /\ \A j \in 1 .. minted : reset[j].phone \in Phones /\ SignUp!HasRow(reset[j].phone)
    /\ edited \subseteq Phones

PurposesOk == NoCodeOnceVerified /\ ResetIsForVerified

FlowInv ==
    /\ signup \in [Workers -> SignupTask] /\ recovery \in [Workers -> Recovery!Task]
    /\ TableOk /\ PurposesOk
    /\ \A w \in Workers : WorkerOk(w)

AccountsInv == SerialInv /\ FlowInv

----------------------------------------------------------------------------
(* The calls of the two flows are those of Otp.                            *)

LEMMA SignUpRequests ==
  ASSUME NEW w \in Workers
  PROVE  SignUp!RequestStep(w) <=> RequestStep(w)
  BY Zenon DEF
      RequestStep, RefuseRequest, AdmitRequest, StoreCode, ClearAttempts,
      StartWindow, CountRequest, CountFails, SendSms, Throttled,
      ThrottleCount, NewEntry, Answer, Goto, PhoneOf, NoCount, cacheVars,
      historyVars, SignUp!RequestStep, SignUp!RefuseRequest,
      SignUp!AdmitRequest, SignUp!StoreCode, SignUp!ClearAttempts,
      SignUp!StartWindow, SignUp!CountRequest, SignUp!CountFails,
      SignUp!SendSms, SignUp!Throttled, SignUp!ThrottleCount,
      SignUp!NewEntry, SignUp!Answer, SignUp!Goto, SignUp!PhoneOf,
      SignUp!NoCount, SignUp!cacheVars, SignUp!historyVars

LEMMA SignUpVerifies ==
  ASSUME NEW w \in Workers
  PROVE  SignUp!VerifyStep(w) <=> VerifyStep(w)
  BY Zenon DEF
      VerifyStep, RefuseLocked, ReadAttempts, RefuseMissing, CompareCode,
      RecordMiss, DropCode, Accept, Locked, AttemptCount, MissEntry, Answer,
      Goto, NoOtp, NoCount, cacheVars, historyVars, SignUp!VerifyStep,
      SignUp!RefuseLocked, SignUp!ReadAttempts, SignUp!RefuseMissing,
      SignUp!CompareCode, SignUp!RecordMiss, SignUp!DropCode, SignUp!Accept,
      SignUp!Locked, SignUp!AttemptCount, SignUp!MissEntry, SignUp!Answer,
      SignUp!Goto, SignUp!NoOtp, SignUp!NoCount, SignUp!cacheVars,
      SignUp!historyVars

LEMMA SignUpCalls ==
  /\ \A w, k : SignUp!CallRequest(w, k) <=> CallRequest(w, k)
  /\ \A w, k, c : SignUp!CallVerify(w, k, c) <=> CallVerify(w, k, c)
  /\ \A w : SignUp!Return(w) <=> Return(w)
  /\ SignUp!Tick <=> Tick
  /\ SignUp!Init <=> Init
  /\ SignUp!Idle = Idle
  BY Zenon DEF
      CallRequest, CallVerify, Return, Tick, Init, Idle, CallAt, NoKey,
      Aged, NoOtp, NoCount, Keys, cacheVars, historyVars,
      SignUp!CallRequest, SignUp!CallVerify, SignUp!Return, SignUp!Tick,
      SignUp!Init, SignUp!Idle, SignUp!CallAt, SignUp!NoKey, SignUp!Aged,
      SignUp!NoOtp, SignUp!NoCount, SignUp!Keys, SignUp!cacheVars,
      SignUp!historyVars

LEMMA RecoveryRequests ==
  ASSUME NEW w \in Workers
  PROVE  Recovery!RequestStep(w) <=> RequestStep(w)
  BY Zenon DEF
      RequestStep, RefuseRequest, AdmitRequest, StoreCode, ClearAttempts,
      StartWindow, CountRequest, CountFails, SendSms, Throttled,
      ThrottleCount, NewEntry, Answer, Goto, PhoneOf, NoCount, cacheVars,
      historyVars, Recovery!RequestStep, Recovery!RefuseRequest,
      Recovery!AdmitRequest, Recovery!StoreCode, Recovery!ClearAttempts,
      Recovery!StartWindow, Recovery!CountRequest, Recovery!CountFails,
      Recovery!SendSms, Recovery!Throttled, Recovery!ThrottleCount,
      Recovery!NewEntry, Recovery!Answer, Recovery!Goto, Recovery!PhoneOf,
      Recovery!NoCount, Recovery!cacheVars, Recovery!historyVars

LEMMA RecoveryVerifies ==
  ASSUME NEW w \in Workers
  PROVE  Recovery!VerifyStep(w) <=> VerifyStep(w)
  BY Zenon DEF
      VerifyStep, RefuseLocked, ReadAttempts, RefuseMissing, CompareCode,
      RecordMiss, DropCode, Accept, Locked, AttemptCount, MissEntry, Answer,
      Goto, NoOtp, NoCount, cacheVars, historyVars, Recovery!VerifyStep,
      Recovery!RefuseLocked, Recovery!ReadAttempts, Recovery!RefuseMissing,
      Recovery!CompareCode, Recovery!RecordMiss, Recovery!DropCode,
      Recovery!Accept, Recovery!Locked, Recovery!AttemptCount,
      Recovery!MissEntry, Recovery!Answer, Recovery!Goto, Recovery!NoOtp,
      Recovery!NoCount, Recovery!cacheVars, Recovery!historyVars

LEMMA RecoveryCalls ==
  /\ \A w, k : Recovery!CallRequest(w, k) <=> CallRequest(w, k)
  /\ \A w, k, c : Recovery!CallVerify(w, k, c) <=> CallVerify(w, k, c)
  /\ \A w : Recovery!Return(w) <=> Return(w)
  /\ Recovery!Tick <=> Tick
  /\ Recovery!Init <=> Init
  /\ Recovery!Idle = Idle
  BY Zenon DEF
      CallRequest, CallVerify, Return, Tick, Init, Idle, CallAt, NoKey,
      Aged, NoOtp, NoCount, Keys, cacheVars, historyVars,
      Recovery!CallRequest, Recovery!CallVerify, Recovery!Return,
      Recovery!Tick, Recovery!Init, Recovery!Idle, Recovery!CallAt,
      Recovery!NoKey, Recovery!Aged, Recovery!NoOtp, Recovery!NoCount,
      Recovery!Keys, Recovery!cacheVars, Recovery!historyVars

LEMMA KeysOfPhones ==
  /\ \A p \in Phones : SignUp!Key(p) \in Keys /\ Recovery!Key(p) \in Keys
  /\ \A p \in Phones : PhoneOf(SignUp!Key(p)) = p
  /\ \A p, q : SignUp!Key(p) = SignUp!Key(q) => p = q
  /\ \A p, q : Recovery!Key(p) = Recovery!Key(q) => p = q
  /\ \A p, q : SignUp!Key(p) # Recovery!Key(q)
  BY AccountsAssumption DEF SignUp!Key, Recovery!Key, Keys, PhoneOf

\* A call that runs stays on its side, and does not begin again.
LEMMA OtpStepGoesOn ==
  ASSUME CallInv, NEW w \in Workers, RequestStep(w) \/ VerifyStep(w)
  PROVE  /\ call'[w].pc # "get_count" /\ call'[w].pc # "idle"
         /\ call'[w].pc \in VerifySteps => call[w].pc \in VerifySteps
<1> USE DEF CallInv, CallType, VerifySteps
<1>1. CASE StoreCode(w)
  BY <1>1 DEF StoreCode
<1>2. CASE RequestStep(w) /\ ~ StoreCode(w)
  BY <1>2 DEF RequestStep, RefuseRequest, AdmitRequest, ClearAttempts,
        StartWindow, CountRequest, CountFails, SendSms, Answer, Goto
<1>3. CASE VerifyStep(w)
  BY <1>3 DEF VerifyStep, RefuseLocked, ReadAttempts,
        RefuseMissing, CompareCode, RecordMiss, DropCode, Accept, Answer, Goto
<1> QED
  BY <1>1, <1>2, <1>3

\* What a request answers, and when a verification accepts.
LEMMA OtpStepAnswers ==
  ASSUME IInv, NEW w \in Workers, RequestStep(w) \/ VerifyStep(w), call'[w].pc = "returned"
  PROVE  /\ call[w].pc \in RequestSteps =>
               \/ call'[w].result \in {"granted", "error"}
               \/ call[w].pc = "get_count" /\ Throttled(w)
         /\ call'[w].result = "accepted" => call[w].pc = "drop_attempts" /\ otp' = otp
<1> USE DEF IInv, CallInv, CallType, RequestSteps
<1>1. CASE StoreCode(w)
  BY <1>1 DEF StoreCode
<1>2. CASE RequestStep(w) /\ ~ StoreCode(w)
  BY <1>2 DEF RequestStep, RefuseRequest, AdmitRequest, ClearAttempts,
        StartWindow, CountRequest, CountFails, SendSms, Answer, Goto
<1>3. CASE VerifyStep(w)
  BY <1>3 DEF VerifyStep, RefuseLocked, ReadAttempts,
        RefuseMissing, CompareCode, RecordMiss, DropCode, Accept, Answer, Goto
<1> QED
  BY <1>1, <1>2, <1>3

----------------------------------------------------------------------------
(* What the invariant gives to the step of a worker.                       *)

LEMMA Flow ==
  ASSUME AccountsInv
  PROVE  /\ SerialInv /\ IInv /\ CallInv /\ CacheInv
         /\ signup \in [Workers -> SignupTask] /\ recovery \in [Workers -> Recovery!Task]
         /\ TableOk /\ NoCodeOnceVerified /\ ResetIsForVerified
  BY DEF AccountsInv, FlowInv, PurposesOk, SerialInv, IInv

LEMMA Worker ==
  ASSUME AccountsInv, NEW w \in Workers
  PROVE  /\ signup[w] \in SignupTask /\ SignupShape(signup[w])
         /\ FormOk(signup[w]) /\ RowOk(signup[w])
         /\ recovery[w] \in Recovery!Task /\ RecoveryShape(recovery[w]) /\ RecoveryOk(recovery[w])
         /\ OneFlow(signup[w], recovery[w])
         /\ CallerOk(signup[w], recovery[w], call[w])
         /\ AnswerOk(signup[w], recovery[w], call[w])
  BY DEF AccountsInv, FlowInv, WorkerOk, SignupOk, SignupShape, RecoveryOk, RecoveryShape

LEMMA IdleHandlers ==
  /\ SignUp!NoTask.at = "idle" /\ SignUp!NoTask \in SignupTask
  /\ Recovery!NoTask.at = "idle" /\ Recovery!NoTask \in Recovery!Task
  BY DEF SignUp!NoTask, SignUp!TaskAt, SignupTask, SignUp!NoKey, NoKey, Recovery!NoTask,
      Recovery!TaskAt, Recovery!Task, Recovery!ResetSteps, Recovery!NoKey, Recovery!NoToken

LEMMA IdleSignupIsOk == SignupOk(SignUp!NoTask) /\ SignupOk(SignUp!NoTask)'
  BY IdleHandlers DEF SignupOk, SignupShape, FormOk, RowOk, SignUp!RegisterSteps,
      SignUp!ActivateSteps

LEMMA IdleRecoveryIsOk == RecoveryOk(Recovery!NoTask) /\ RecoveryOk(Recovery!NoTask)'
  BY IdleHandlers DEF RecoveryOk, RecoveryShape

\* A handler that waits for no call.
LEMMA NoCallWaitedFor ==
  ASSUME NEW t, t.at # "verifying", NEW r, r.at # "verifying", NEW c, c.pc = "idle"
  PROVE  CallerOk(t, r, c) /\ AnswerOk(t, r, c)
  BY DEF CallerOk, AnswerOk, RequestSteps, VerifySteps

LEMMA NoCallWaitedForNext ==
  ASSUME NEW t, t.at # "verifying", NEW r, r.at # "verifying", NEW c, c.pc = "idle"
  PROVE  CallerOk(t, r, c)' /\ AnswerOk(t, r, c)'
  BY DEF CallerOk, AnswerOk, RequestSteps, VerifySteps

\* One worker: its step is the whole of the step.
LEMMA StepOfWorker ==
  ASSUME OneWorker, NEW w \in Workers, AccountsInv,
         NEW t \in SignupTask, signup' = [signup EXCEPT ![w] = t],
         NEW r \in Recovery!Task, recovery' = [recovery EXCEPT ![w] = r],
         NEW c, call'[w] = c,
         SignupOk(t)', RecoveryOk(r)', OneFlow(t, r), CallerOk(t, r, c)', AnswerOk(t, r, c)',
         TableOk', PurposesOk'
  PROVE  FlowInv'
<1>1. signup \in [Workers -> SignupTask] /\ recovery \in [Workers -> Recovery!Task]
  BY Flow
<1>2. /\ signup'[w] = t /\ recovery'[w] = r
      /\ signup' \in [Workers -> SignupTask] /\ recovery' \in [Workers -> Recovery!Task]
  BY <1>1
<1>3. SignupOk(signup[w])' /\ RecoveryOk(recovery[w])' /\ OneFlow(signup[w], recovery[w])'
  BY <1>2 DEF SignupOk, SignupShape, FormOk, RowOk, RecoveryOk, RecoveryShape, OneFlow
<1>4. CallerOk(signup[w], recovery[w], call[w])' /\ AnswerOk(signup[w], recovery[w], call[w])'
  BY <1>2 DEF CallerOk, AnswerOk, Compared
<1>5. \A v \in Workers : WorkerOk(v)'
  BY <1>3, <1>4 DEF WorkerOk, OneWorker
<1> QED
  BY <1>2, <1>5 DEF FlowInv

\* Most steps leave the table of users and the cache as they are.
LEMMA TablesStay ==
  ASSUME AccountsInv, UNCHANGED <<users, edited, otp, throttle, password, reset, minted>>
  PROVE  /\ TableOk' /\ PurposesOk'
         /\ \A t : SignupOk(t) => SignupOk(t)'
         /\ \A r : RecoveryOk(r) => RecoveryOk(r)'
         /\ \A t, r, c : CallerOk(t, r, c) /\ AnswerOk(t, r, c)
                            => CallerOk(t, r, c)' /\ AnswerOk(t, r, c)'
<1>1. TableOk'
  BY Flow DEF TableOk, SignUp!HasRow
<1>2. PurposesOk'
  BY Flow DEF PurposesOk, NoCodeOnceVerified, ResetIsForVerified,
      SignUp!Verified, SignUp!HasRow, SignUp!Key, Recovery!Key
<1>3. ASSUME NEW t, SignupOk(t) PROVE SignupOk(t)'
  BY <1>3 DEF SignupOk, SignupShape, FormOk, RowOk, SignUp!UsernameFree, SignUp!Verified,
      SignUp!HasRow, SignUp!Key
<1>4. ASSUME NEW r, RecoveryOk(r) PROVE RecoveryOk(r)'
  BY <1>4 DEF RecoveryOk, RecoveryShape, SignUp!Verified, SignUp!HasRow
<1>5. ASSUME NEW t, NEW r, NEW c, CallerOk(t, r, c), AnswerOk(t, r, c)
      PROVE  CallerOk(t, r, c)' /\ AnswerOk(t, r, c)'
  BY <1>5 DEF CallerOk, AnswerOk, Compared, SignUp!Verified, SignUp!HasRow, SignUp!Key, Recovery!Key
<1> QED
  BY <1>1, <1>2, <1>3, <1>4, <1>5

LEMMA SignUpMoves ==
  ASSUME OneWorker, NEW w \in Workers, AccountsInv,
         UNCHANGED <<users, edited, otp, throttle, password, recoveryVars>>,
         recovery[w] = Recovery!NoTask,
         NEW t, signup' = [signup EXCEPT ![w] = t], SignupOk(t),
         NEW c, call'[w] = c, CallerOk(t, Recovery!NoTask, c), AnswerOk(t, Recovery!NoTask, c)
  PROVE  FlowInv'
<1> DEFINE r == Recovery!NoTask
<1>1. t \in SignupTask /\ r \in Recovery!Task
  BY IdleHandlers DEF SignupOk, SignupShape
<1>2. recovery' = [recovery EXCEPT ![w] = r] /\ UNCHANGED <<reset, minted>>
  BY Flow DEF recoveryVars
<1>3. RecoveryOk(r)' /\ OneFlow(t, r)
  BY IdleRecoveryIsOk DEF OneFlow
<1> HIDE DEF r
<1>4. /\ TableOk' /\ PurposesOk' /\ SignupOk(t)'
      /\ CallerOk(t, r, c)' /\ AnswerOk(t, r, c)'
  BY <1>2, TablesStay DEF r
<1> QED
  BY <1>1, <1>2, <1>3, <1>4, StepOfWorker

LEMMA RecoveryMoves ==
  ASSUME OneWorker, NEW w \in Workers, AccountsInv,
         UNCHANGED <<users, edited, signup, otp, throttle, password, reset, minted>>,
         signup[w] = SignUp!NoTask,
         NEW r, recovery' = [recovery EXCEPT ![w] = r], RecoveryOk(r),
         NEW c, call'[w] = c, CallerOk(SignUp!NoTask, r, c), AnswerOk(SignUp!NoTask, r, c)
  PROVE  FlowInv'
<1> DEFINE t == SignUp!NoTask
<1>1. r \in Recovery!Task /\ t \in SignupTask
  BY IdleHandlers DEF RecoveryOk, RecoveryShape
<1>2. signup' = [signup EXCEPT ![w] = t]
  BY Flow
<1>3. SignupOk(t)' /\ OneFlow(t, r)
  BY IdleSignupIsOk DEF OneFlow
<1> HIDE DEF t
<1>4. /\ TableOk' /\ PurposesOk' /\ RecoveryOk(r)'
      /\ CallerOk(t, r, c)' /\ AnswerOk(t, r, c)'
  BY <1>2, TablesStay DEF t
<1> QED
  BY <1>1, <1>2, <1>3, <1>4, StepOfWorker

----------------------------------------------------------------------------
(* Sign-up, the steps that only look.                                      *)

\* The handler with its next step.
LEMMA SignUpAt ==
  ASSUME AccountsInv, NEW w \in Workers, NEW step, SignUp!Move(w, step), signup[w].at # "idle",
         \/ step \in SignUp!Outcomes
         \/ step \in SignUp!RegisterSteps /\ signup[w].at \in SignUp!RegisterSteps
         \/ step \in SignUp!ActivateSteps /\ signup[w].at \in SignUp!ActivateSteps
  PROVE  \E t : /\ signup' = [signup EXCEPT ![w] = t] /\ SignupShape(t) /\ t.at = step
                /\ t.phone = signup[w].phone /\ t.form = signup[w].form /\ t.code = signup[w].code
                /\ t.phone \in Phones
<1> DEFINE t == [signup[w] EXCEPT !.at = step]
<1>1. signup[w] \in SignupTask /\ SignupShape(signup[w])
  BY Worker
<1>2. step # "idle" /\ step \in SignUp!Outcomes \cup SignUp!RegisterSteps \cup SignUp!ActivateSteps
  BY DEF SignUp!Outcomes, SignUp!RegisterSteps, SignUp!ActivateSteps
<1>3. /\ t \in SignupTask /\ t.at = step
      /\ t.phone = signup[w].phone /\ t.form = signup[w].form /\ t.code = signup[w].code
  BY <1>1, <1>2 DEF SignupTask
<1>4. signup' = [signup EXCEPT ![w] = t]
  BY DEF SignUp!Move
<1> HIDE DEF t
<1>5. SignupShape(t) /\ t.phone \in Phones
  BY <1>1, <1>2, <1>3 DEF SignupShape, SignUp!Outcomes, SignUp!RegisterSteps, SignUp!ActivateSteps
<1> QED
  BY <1>3, <1>4, <1>5

\* Between its calls of otp.py a handler is in none.
LEMMA NotInCall ==
  ASSUME AccountsInv, NEW w \in Workers,
         signup[w].at \notin {"sending", "verifying"},
         recovery[w].at \notin {"sending", "verifying"}
  PROVE  call[w].pc = "idle"
  BY Worker DEF CallerOk

LEMMA SignUpGoes ==
  ASSUME OneWorker, NEW w \in Workers, AccountsInv, recovery[w] = Recovery!NoTask,
         UNCHANGED <<users, edited, otp, throttle, call, password, recoveryVars>>,
         signup[w].at \notin {"sending", "verifying"},
         NEW t, signup' = [signup EXCEPT ![w] = t], SignupOk(t), t.at # "verifying"
  PROVE  FlowInv'
<1>1. call'[w].pc = "idle"
  BY NotInCall, IdleHandlers
<1> DEFINE c == call[w]
<1>2. c.pc = "idle" /\ call'[w] = c
  BY <1>1
<1> HIDE DEF c
<1>3. CallerOk(t, Recovery!NoTask, c) /\ AnswerOk(t, Recovery!NoTask, c)
  BY <1>2, NoCallWaitedFor, IdleHandlers
<1> QED
  BY <1>2, <1>3, SignUpMoves

\* A handler that is done carries nothing.
LEMMA SignUpEnds ==
  ASSUME OneWorker, NEW w \in Workers, AccountsInv, recovery[w] = Recovery!NoTask,
         UNCHANGED <<users, edited, otp, throttle, call, password, recoveryVars>>,
         signup[w].at \notin {"idle", "sending", "verifying"},
         NEW step \in SignUp!Outcomes, SignUp!Move(w, step)
  PROVE  FlowInv'
<1>1. PICK t : /\ signup' = [signup EXCEPT ![w] = t] /\ SignupShape(t) /\ t.at = step
  BY SignUpAt
<1>2. SignupOk(t) /\ t.at # "verifying"
  BY <1>1 DEF SignupOk, FormOk, RowOk, SignUp!Outcomes
<1> QED
  BY <1>1, <1>2, SignUpGoes

LEMMA RegisterFlow ==
  ASSUME OneWorker, NEW w \in Workers, AccountsInv, recovery[w] = Recovery!NoTask,
         UNCHANGED <<edited, password, recoveryVars>>,
         NEW p \in Phones,
         \/ \E f \in Forms : SignUp!Register(w, p, f)
         \/ \E c \in Codes : SignUp!VerifyOtpRequest(w, p, c)
  PROVE  FlowInv'
<1>1. UNCHANGED <<users, otp, throttle, call>> /\ signup[w].at \notin {"sending", "verifying"}
  BY IdleHandlers DEF SignUp!Register, SignUp!VerifyOtpRequest, SignUp!vars, SignUp!cacheVars
<1>2. ASSUME NEW f \in Forms
      PROVE  LET t == SignUp!TaskAt("username", p, f, NoCode) IN SignupOk(t) /\ t.at # "verifying"
  BY <1>2 DEF SignUp!TaskAt, SignupOk, SignupShape, SignupTask, FormOk, RowOk, SignUp!RegisterSteps,
      SignUp!ActivateSteps
<1>3. ASSUME NEW c \in Codes
      PROVE  LET t == SignUp!TaskAt("exists", p, SignUp!NoForm, c)
             IN  SignupOk(t) /\ t.at # "verifying"
  BY <1>3 DEF SignUp!TaskAt, SignupOk, SignupShape, SignupTask, FormOk, RowOk, SignUp!RegisterSteps,
      SignUp!ActivateSteps
<1>4. PICK t : signup' = [signup EXCEPT ![w] = t] /\ SignupOk(t) /\ t.at # "verifying"
  <2>1. CASE \E f \in Forms : SignUp!Register(w, p, f)
    BY <1>2, <2>1 DEF SignUp!Register
  <2>2. CASE \E c \in Codes : SignUp!VerifyOtpRequest(w, p, c)
    BY <1>3, <2>2 DEF SignUp!VerifyOtpRequest
  <2> QED
    BY <2>1, <2>2
<1> QED
  BY <1>1, <1>4, SignUpGoes

\* A validator passes on what it found, or the handler is done.
LEMMA ValidatorFlow ==
  ASSUME OneWorker, NEW w \in Workers, AccountsInv, recovery[w] = Recovery!NoTask,
         UNCHANGED <<edited, password, recoveryVars>>,
         \/ SignUp!ValidateUsername(w) \/ SignUp!ValidatePhoneNumber(w)
         \/ SignUp!CheckThrottle(w) \/ SignUp!ValidateEmail(w) \/ SignUp!UserExists(w)
  PROVE  FlowInv'
<1>1. /\ UNCHANGED <<users, otp, throttle, call>>
      /\ signup[w].at \in {"username", "phone", "throttle", "email", "exists"}
  BY DEF SignUp!ValidateUsername, SignUp!ValidatePhoneNumber, SignUp!CheckThrottle,
      SignUp!ValidateEmail, SignUp!UserExists, SignUp!Validate, SignUp!vars, SignUp!cacheVars
<1>2. CASE SignUp!Move(w, "rejected")
  <2>1. "rejected" \in SignUp!Outcomes
    BY DEF SignUp!Outcomes
  <2> QED
    BY <1>1, <1>2, <2>1, SignUpEnds
<1>3. CASE ~ SignUp!Move(w, "rejected")
  <2>1. /\ FormOk(signup[w]) /\ RowOk(signup[w])
    BY Worker
  <2>2. PICK step : /\ SignUp!Move(w, step)
                    /\ \/ /\ signup[w].at = "username" /\ step = "phone"
                          /\ SignUp!UsernameFree(signup[w].form.username)
                       \/ /\ signup[w].at = "phone" /\ step = "throttle"
                          /\ ~ SignUp!Verified(signup[w].phone)
                       \/ /\ signup[w].at = "throttle" /\ step = "email"
                          /\ throttle[signup[w].phone].n < THROTTLE_MAX_REQUESTS
                       \/ /\ signup[w].at = "email" /\ step = "upsert"
                          /\ \A q \in Phones :
                                SignUp!Verified(q) => users[q].email # signup[w].form.email
                       \/ /\ signup[w].at = "exists" /\ step = "verify"
                          /\ SignUp!HasRow(signup[w].phone)
    BY <1>3 DEF SignUp!ValidateUsername, SignUp!ValidatePhoneNumber, SignUp!CheckThrottle,
        SignUp!ValidateEmail, SignUp!UserExists, SignUp!Validate
  <2>3. PICK t : /\ signup' = [signup EXCEPT ![w] = t] /\ SignupShape(t) /\ t.at = step
                 /\ t.phone = signup[w].phone /\ t.form = signup[w].form
    BY <2>2, SignUpAt DEF SignUp!RegisterSteps, SignUp!ActivateSteps
  <2>4. FormOk(t) /\ RowOk(t) /\ t.at # "verifying"
    BY <2>1, <2>2, <2>3 DEF FormOk, RowOk
  <2> QED
    BY <1>1, <2>3, <2>4, SignUpGoes DEF SignupOk
<1> QED
  BY <1>2, <1>3

LEMMA UpsertFailsFlow ==
  ASSUME OneWorker, NEW w \in Workers, AccountsInv, recovery[w] = Recovery!NoTask,
         UNCHANGED <<edited, password, recoveryVars>>, SignUp!UpsertFails(w)
  PROVE  FlowInv'
<1>1. /\ UNCHANGED <<users, otp, throttle, call>>
      /\ signup[w].at = "upsert" /\ SignUp!Move(w, "failed") /\ "failed" \in SignUp!Outcomes
  BY DEF SignUp!UpsertFails, SignUp!vars, SignUp!cacheVars, SignUp!Outcomes
<1> QED
  BY <1>1, SignUpEnds

----------------------------------------------------------------------------
(* Sign-up, the steps that write the row.                                  *)

LEMMA RowWritten ==
  ASSUME AccountsInv, NEW p \in Phones, NEW row \in SignUp!Row, users' = [users EXCEPT ![p] = row]
  PROVE  /\ users' \in [Phones -> SignUp!Row \cup {NoRow}]
         /\ users'[p] = row /\ SignUp!HasRow(p)' /\ (SignUp!Verified(p)' <=> row.verified)
         /\ \A q \in Phones \ {p} :
               users'[q] = users[q] /\ (SignUp!Verified(q)' <=> SignUp!Verified(q))
<1>1. users \in [Phones -> SignUp!Row \cup {NoRow}]
  BY Flow DEF TableOk
<1>2. /\ users' \in [Phones -> SignUp!Row \cup {NoRow}]
      /\ users'[p] = row /\ \A q \in Phones \ {p} : users'[q] = users[q]
  BY <1>1
<1>3. row # NoRow /\ row.verified \in BOOLEAN
  BY AccountsAssumption DEF SignUp!Row
<1>4. SignUp!HasRow(p)' /\ (SignUp!Verified(p)' <=> row.verified)
  BY <1>2, <1>3 DEF SignUp!HasRow, SignUp!Verified
<1>5. \A q \in Phones \ {p} : SignUp!Verified(q)' <=> SignUp!Verified(q)
  BY <1>2 DEF SignUp!HasRow, SignUp!Verified
<1> QED
  BY <1>2, <1>4, <1>5

LEMMA WriteRowFlow ==
  ASSUME OneWorker, NEW w \in Workers, AccountsInv, recovery[w] = Recovery!NoTask,
         UNCHANGED <<vars, edited, recoveryVars>>, signup[w].at \notin {"sending", "verifying"},
         NEW p \in Phones, NEW row \in SignUp!Row, users' = [users EXCEPT ![p] = row],
         SignUp!Verified(p) => p \in edited \/ row.verified,
         row.verified => p \in edited \/ otp[SignUp!Key(p)].ttl = 0,
         password' \in [Phones -> 0 .. MaxPasswords],
         NEW t, signup' = [signup EXCEPT ![w] = t], SignupOk(t)', t.at # "verifying"
  PROVE  FlowInv'
<1>1. UNCHANGED <<otp, call, reset, minted, recovery, edited>>
  BY DEF vars, cacheVars, recoveryVars
<1>2. TableOk'
  <2>1. \A q \in Phones : SignUp!HasRow(q) => SignUp!HasRow(q)'
    BY RowWritten DEF SignUp!HasRow
  <2>2. ASSUME NEW j \in 1 .. minted
        PROVE  reset[j].phone \in Phones /\ SignUp!HasRow(reset[j].phone)'
    <3>1. PICK q \in Phones : q = reset[j].phone /\ SignUp!HasRow(q)
      BY Flow DEF TableOk
    <3> QED
      BY <1>1, <2>1, <3>1 DEF SignUp!HasRow
  <2> QED
    BY <1>1, <2>2, RowWritten, Flow DEF TableOk, SignUp!HasRow
<1>3. NoCodeOnceVerified'
  <2> SUFFICES ASSUME NEW q \in Phones, q \notin edited, SignUp!Verified(q)'
               PROVE  otp'[SignUp!Key(q)].ttl = 0
    BY <1>1 DEF NoCodeOnceVerified, SignUp!Key
  <2>1. CASE q = p
    BY <1>1, <2>1, RowWritten
  <2>2. CASE q # p
    BY <1>1, <2>2, RowWritten, Flow DEF NoCodeOnceVerified
  <2> QED
    BY <2>1, <2>2
<1>4. \A q \in Phones \ edited : SignUp!Verified(q) => SignUp!Verified(q)'
  BY RowWritten
<1>5. ResetIsForVerified'
  <2>1. ASSUME NEW q \in Phones \ edited, otp'[Recovery!Key(q)].ttl > 0 PROVE SignUp!Verified(q)'
    BY <1>1, <1>4, <2>1, Flow DEF ResetIsForVerified
  <2>2. ASSUME NEW j \in 1 .. minted, reset[j].phone \notin edited
        PROVE  SignUp!Verified(reset[j].phone)'
    <3>1. PICK q \in Phones : q = reset[j].phone
      BY Flow DEF TableOk
    <3>2. SignUp!Verified(q)'
      BY <1>4, <2>2, <3>1, Flow DEF ResetIsForVerified
    <3> QED
      BY <1>1, <3>1, <3>2 DEF SignUp!Verified, SignUp!HasRow
  <2> QED
    BY <1>1, <2>1, <2>2 DEF ResetIsForVerified, Recovery!Key
<1>6. PICK c : c.pc = "idle" /\ call'[w] = c
  BY <1>1, NotInCall, IdleHandlers
<1>7. PICK r : /\ r = Recovery!NoTask /\ r \in Recovery!Task /\ r.at # "verifying"
               /\ OneFlow(t, r)
  BY IdleHandlers DEF OneFlow
<1>8. recovery' = [recovery EXCEPT ![w] = r] /\ RecoveryOk(r)'
  BY <1>1, <1>7, IdleRecoveryIsOk, Flow DEF RecoveryOk, RecoveryShape
<1>9. t \in SignupTask
  BY DEF SignupOk, SignupShape
<1>10. CallerOk(t, r, c)' /\ AnswerOk(t, r, c)'
  BY <1>6, <1>7, NoCallWaitedForNext
<1>11. PurposesOk'
  BY <1>3, <1>5 DEF PurposesOk
<1> QED
  BY <1>2, <1>6, <1>7, <1>8, <1>9, <1>10, <1>11, StepOfWorker

LEMMA UpdateOrCreateFlow ==
  ASSUME OneWorker, NEW w \in Workers, AccountsInv, recovery[w] = Recovery!NoTask,
         UNCHANGED <<edited, password, recoveryVars>>, SignUp!UpdateOrCreate(w)
  PROVE  FlowInv'
<1>0. PICK p, f, row :
        p = signup[w].phone /\ f = signup[w].form /\ row = SignUp!Upserted(p, f)
  OBVIOUS
<1>1. /\ signup[w].at = "upsert" /\ p \in Phones /\ f \in Forms
      /\ p \in edited \/ ~ SignUp!Verified(p)
      /\ throttle[p].n < THROTTLE_MAX_REQUESTS
  BY <1>0, Worker DEF SignUp!UpdateOrCreate, SignupShape, FormOk, RowOk, SignUp!RegisterSteps
<1>2. users' = [users EXCEPT ![p] = row] /\ UNCHANGED vars /\ SignUp!Move(w, "password")
  BY <1>0 DEF SignUp!UpdateOrCreate, SignUp!vars, vars, SignUp!cacheVars, cacheVars,
      SignUp!historyVars, historyVars
<1>3. row \in SignUp!Row /\ ~ row.verified
  BY <1>0, <1>1, Flow DEF SignUp!Upserted, SignUp!Row, TableOk, SignUp!HasRow
<1>4. PICK t : /\ signup' = [signup EXCEPT ![w] = t] /\ SignupShape(t) /\ t.at = "password"
               /\ t.phone = p
  BY <1>0, <1>1, <1>2, SignUpAt DEF SignUp!RegisterSteps
<1>5. password' \in [Phones -> 0 .. MaxPasswords]
  BY Flow DEF TableOk
<1>6. SignUp!HasRow(p)' /\ ~ SignUp!Verified(p)' /\ throttle' = throttle
  BY <1>1, <1>2, <1>3, RowWritten DEF vars, cacheVars
<1>7. SignupOk(t)'
  BY <1>1, <1>4, <1>6 DEF SignupOk, SignupShape, FormOk, RowOk, SignUp!HasRow, SignUp!Verified
<1> QED
  BY <1>1, <1>2, <1>3, <1>4, <1>5, <1>7, WriteRowFlow

LEMMA SavePasswordFlow ==
  ASSUME OneWorker, NEW w \in Workers, AccountsInv, recovery[w] = Recovery!NoTask,
         UNCHANGED <<edited, recoveryVars>>, SignUp!SavePassword(w),
         password[signup[w].phone] < MaxPasswords,
         password' = [q \in Phones |-> IF q = signup[w].phone THEN password[q] + 1 ELSE password[q]]
  PROVE  FlowInv'
<1>0. PICK p, f, row :
        /\ p = signup[w].phone /\ f = signup[w].form
        /\ row = [users[p] EXCEPT !.password = f.password]
  OBVIOUS
<1>1. /\ signup[w].at = "password" /\ p \in Phones /\ f \in Forms
      /\ p \in edited \/ ~ SignUp!Verified(p)
      /\ SignUp!HasRow(p) /\ password[p] < MaxPasswords
      /\ throttle[p].n < THROTTLE_MAX_REQUESTS
  BY <1>0, Worker DEF SignUp!SavePassword, SignupShape, FormOk, RowOk, SignUp!RegisterSteps
<1>2. users' = [users EXCEPT ![p] = row] /\ UNCHANGED vars /\ SignUp!Move(w, "send")
  BY <1>0 DEF SignUp!SavePassword, SignUp!vars, vars, SignUp!cacheVars, cacheVars,
      SignUp!historyVars, historyVars
<1>3. row \in SignUp!Row /\ (p \in edited \/ ~ row.verified)
  BY <1>0, <1>1, Flow, AccountsAssumption DEF SignUp!Row, TableOk, SignUp!HasRow, SignUp!Verified
<1>4. PICK t : /\ signup' = [signup EXCEPT ![w] = t] /\ SignupShape(t) /\ t.at = "send"
               /\ t.phone = p
  BY <1>0, <1>1, <1>2, SignUpAt DEF SignUp!RegisterSteps
<1>5. password' \in [Phones -> 0 .. MaxPasswords]
  BY <1>0, <1>1, AccountsAssumption, Flow DEF TableOk
<1>6. (p \in edited \/ ~ SignUp!Verified(p)') /\ throttle' = throttle
  BY <1>1, <1>2, <1>3, RowWritten DEF vars, cacheVars
<1>7. SignupOk(t)'
  BY <1>1, <1>4, <1>6 DEF SignupOk, SignupShape, FormOk, RowOk, SignUp!HasRow, SignUp!Verified
<1> QED
  BY <1>1, <1>2, <1>3, <1>4, <1>5, <1>7, WriteRowFlow

LEMMA ActivateFlow ==
  ASSUME OneWorker, NEW w \in Workers, AccountsInv, recovery[w] = Recovery!NoTask,
         UNCHANGED <<edited, password, recoveryVars>>, SignUp!Activate(w)
  PROVE  FlowInv'
<1> DEFINE p == signup[w].phone
           row == [users[p] EXCEPT !.verified = TRUE, !.active = TRUE]
<1>1. /\ signup[w].at = "activate" /\ p \in Phones
      /\ SignUp!HasRow(p) /\ otp[SignUp!Key(p)].ttl = 0
  BY Worker DEF SignUp!Activate, SignupShape, RowOk
<1>2. users[p] \in SignUp!Row /\ users \in [Phones -> SignUp!Row \cup {NoRow}]
  BY <1>1, Flow DEF TableOk, SignUp!HasRow
<1>3. users' = [users EXCEPT ![p] = row] /\ UNCHANGED vars /\ SignUp!Move(w, "activated")
  BY <1>2 DEF SignUp!Activate, SignUp!vars, vars, SignUp!cacheVars, cacheVars,
      SignUp!historyVars, historyVars
<1>4. row \in SignUp!Row /\ row.verified
  BY <1>2 DEF SignUp!Row
<1>5. PICK t : /\ signup' = [signup EXCEPT ![w] = t] /\ SignupShape(t) /\ t.at = "activated"
  BY <1>1, <1>3, SignUpAt DEF SignUp!Outcomes
<1>6. password' \in [Phones -> 0 .. MaxPasswords]
  BY Flow DEF TableOk
<1> HIDE DEF p, row
<1>7. SignupOk(t)'
  BY <1>5 DEF SignupOk, SignupShape, FormOk, RowOk
<1> QED
  BY <1>1, <1>3, <1>4, <1>5, <1>6, <1>7, WriteRowFlow

----------------------------------------------------------------------------
(* Sign-up and otp.py.                                                     *)

LEMMA SignUpCallsFlow ==
  ASSUME OneWorker, NEW w \in Workers, AccountsInv, recovery[w] = Recovery!NoTask,
         UNCHANGED <<edited, password, recoveryVars>>,
         SignUp!SendRegistrationOtp(w) \/ SignUp!VerifyCode(w)
  PROVE  FlowInv'
<1> DEFINE r == Recovery!NoTask
<1>1. /\ signup[w] \in SignupTask /\ SignupShape(signup[w]) /\ RowOk(signup[w]) /\ FormOk(signup[w])
      /\ call \in [Workers -> CallType]
  BY Worker, Flow DEF CallInv
<1>2. CASE SignUp!SendRegistrationOtp(w)
  <2> DEFINE c == CallAt("get_count", SignUp!Key(signup[w].phone), NoCode)
  <2>1. /\ signup[w].at = "send" /\ SignUp!Move(w, "sending")
        /\ UNCHANGED <<users, otp, throttle>> /\ call' = [call EXCEPT ![w] = c]
    BY <1>2, SignUpCalls DEF SignUp!SendRegistrationOtp, CallRequest, cacheVars
  <2>2. PICK t : /\ signup' = [signup EXCEPT ![w] = t] /\ SignupShape(t) /\ t.at = "sending"
                 /\ t.phone = signup[w].phone
    BY <2>1, SignUpAt DEF SignUp!RegisterSteps
  <2>3. SignupOk(t) /\ throttle[t.phone].n < THROTTLE_MAX_REQUESTS
    BY <1>1, <2>1, <2>2 DEF SignupOk, FormOk, RowOk
  <2>4. /\ c.pc = "get_count" /\ c.key = SignUp!Key(t.phone) /\ c.result = "none"
    BY <2>2 DEF CallAt
  <2> HIDE DEF c
  <2>5. CallerOk(t, r, c) /\ AnswerOk(t, r, c)
    BY <2>2, <2>3, <2>4, IdleHandlers DEF CallerOk, AnswerOk, Compared, VerifySteps
  <2>6. call'[w] = c
    BY <1>1, <2>1
  <2> QED
    BY <2>1, <2>2, <2>3, <2>5, <2>6, SignUpMoves
<1>3. CASE SignUp!VerifyCode(w)
  <2> DEFINE c == CallAt("get_attempts", SignUp!Key(signup[w].phone), signup[w].code)
  <2>1. /\ signup[w].at = "verify" /\ SignUp!Move(w, "verifying")
        /\ UNCHANGED <<users, otp, throttle>> /\ call' = [call EXCEPT ![w] = c]
    BY <1>3, SignUpCalls DEF SignUp!VerifyCode, CallVerify, cacheVars
  <2>2. PICK t : /\ signup' = [signup EXCEPT ![w] = t] /\ SignupShape(t) /\ t.at = "verifying"
                 /\ t.phone = signup[w].phone
    BY <2>1, SignUpAt DEF SignUp!ActivateSteps
  <2>3. SignupOk(t)
    BY <1>1, <2>1, <2>2 DEF SignupOk, FormOk, RowOk
  <2>4. /\ c.pc = "get_attempts" /\ c.key = SignUp!Key(t.phone) /\ c.result = "none"
    BY <2>2 DEF CallAt
  <2> HIDE DEF c
  <2>5. CallerOk(t, r, c) /\ AnswerOk(t, r, c)
    BY <2>2, <2>4, IdleHandlers DEF CallerOk, AnswerOk, Compared, RequestSteps
  <2>6. call'[w] = c
    BY <1>1, <2>1
  <2> QED
    BY <2>1, <2>2, <2>3, <2>5, <2>6, SignUpMoves
<1> QED
  BY <1>2, <1>3

\* The handler and the call it may be in end together.
LEMMA SignUpDone ==
  ASSUME OneWorker, NEW w \in Workers, AccountsInv, recovery[w] = Recovery!NoTask,
         UNCHANGED <<users, edited, otp, throttle, password, recoveryVars>>, call'[w].pc = "idle",
         NEW t, signup' = [signup EXCEPT ![w] = t], SignupOk(t), t.at # "verifying"
  PROVE  FlowInv'
<1>1. PICK c : c = call'[w]
  OBVIOUS
<1>2. CallerOk(t, Recovery!NoTask, c) /\ AnswerOk(t, Recovery!NoTask, c)
  BY <1>1, NoCallWaitedFor, IdleHandlers
<1> QED
  BY <1>1, <1>2, SignUpMoves

LEMMA SignUpReturnsFlow ==
  ASSUME OneWorker, NEW w \in Workers, AccountsInv, recovery[w] = Recovery!NoTask,
         UNCHANGED <<edited, password, recoveryVars>>,
         SignUp!RegisterReturns(w) \/ SignUp!VerifyReturns(w)
  PROVE  FlowInv'
<1>1. /\ call[w].pc = "returned" /\ call' = [call EXCEPT ![w] = Idle]
      /\ UNCHANGED <<users, otp, throttle>>
  BY SignUpCalls DEF SignUp!RegisterReturns, SignUp!VerifyReturns, Return, cacheVars
<1>2. call'[w].pc = "idle"
  BY <1>1, EndCall, Flow
<1>3. CASE \E step \in SignUp!Outcomes : SignUp!Move(w, step) /\ signup[w].at # "idle"
  <2>1. PICK step \in SignUp!Outcomes : SignUp!Move(w, step)
    BY <1>3
  <2>2. PICK t : /\ signup' = [signup EXCEPT ![w] = t] /\ SignupShape(t) /\ t.at = step
    BY <1>3, <2>1, SignUpAt
  <2>3. SignupOk(t) /\ t.at # "verifying"
    BY <2>2 DEF SignupOk, FormOk, RowOk, SignUp!Outcomes
  <2> QED
    BY <1>1, <1>2, <2>2, <2>3, SignUpDone
<1>4. CASE /\ SignUp!VerifyReturns(w) /\ call[w].result = "accepted" /\ SignUp!Move(w, "activate")
  <2>1. /\ signup[w].at = "verifying" /\ RowOk(signup[w])
        /\ CallerOk(signup[w], recovery[w], call[w]) /\ AnswerOk(signup[w], recovery[w], call[w])
    BY <1>4, Worker DEF SignUp!VerifyReturns
  <2>2. PICK t : /\ signup' = [signup EXCEPT ![w] = t] /\ SignupShape(t) /\ t.at = "activate"
                 /\ t.phone = signup[w].phone
    BY <1>4, <2>1, SignUpAt DEF SignUp!ActivateSteps
  <2>3. /\ call[w].key = SignUp!Key(t.phone) /\ otp[call[w].key].ttl = 0
        /\ t.phone \in edited \/ ~ SignUp!Verified(t.phone)
        /\ SignUp!HasRow(t.phone)
    BY <1>1, <1>4, <2>1, <2>2, IdleHandlers DEF CallerOk, AnswerOk, RowOk, Compared
  <2>4. SignupOk(t)
    BY <2>2, <2>3 DEF SignupOk, FormOk, RowOk
  <2> QED
    BY <1>1, <1>2, <2>2, <2>4, SignUpDone
<1> QED
  BY <1>3, <1>4 DEF SignUp!RegisterReturns, SignUp!VerifyReturns, SignUp!Outcomes

LEMMA SignUpRespondOrDieFlow ==
  ASSUME OneWorker, NEW w \in Workers, AccountsInv, recovery[w] = Recovery!NoTask,
         UNCHANGED <<edited, password, recoveryVars>>, SignUp!Respond(w) \/ SignUp!Die(w)
  PROVE  FlowInv'
<1>1. /\ signup' = [signup EXCEPT ![w] = SignUp!NoTask] /\ UNCHANGED <<users, otp, throttle>>
  BY DEF SignUp!Respond, SignUp!Die, SignUp!vars, SignUp!cacheVars
<1>2. call'[w].pc = "idle"
  <2>1. CASE SignUp!Respond(w)
    <3>1. call' = call /\ signup[w].at \notin {"sending", "verifying"}
      BY <2>1 DEF SignUp!Respond, SignUp!vars, SignUp!Outcomes
    <3> QED
      BY <3>1, NotInCall, IdleHandlers
  <2>2. CASE SignUp!Die(w)
    BY <2>2, SignUpCalls, EndCall, Flow DEF SignUp!Die
  <2> QED
    BY <2>1, <2>2
<1> DEFINE t == SignUp!NoTask
<1>3. SignupOk(t) /\ t.at # "verifying"
  BY IdleSignupIsOk, IdleHandlers
<1> HIDE DEF t
<1>4. signup' = [signup EXCEPT ![w] = t]
  BY <1>1 DEF t
<1> QED
  BY <1>1, <1>2, <1>3, <1>4, SignUpDone

----------------------------------------------------------------------------
(* The steps of otp.py, for either flow.                                   *)

\* The handler that waits for the call of w, and on which side.
LEMMA CallOfHandler ==
  ASSUME AccountsInv, NEW w \in Workers, call[w].pc # "idle"
  PROVE  \/ /\ signup[w].at \in {"sending", "verifying"} /\ recovery[w] = Recovery!NoTask
            /\ signup[w].phone \in Phones /\ call[w].key = SignUp!Key(signup[w].phone)
            /\ call[w].pc \in RequestSteps => signup[w].at = "sending"
            /\ call[w].pc \in VerifySteps => signup[w].at = "verifying"
         \/ /\ recovery[w].at \in {"sending", "verifying"} /\ signup[w] = SignUp!NoTask
            /\ recovery[w].phone \in Phones /\ call[w].key = Recovery!Key(recovery[w].phone)
            /\ call[w].pc \in RequestSteps => recovery[w].at = "sending"
            /\ call[w].pc \in VerifySteps => recovery[w].at = "verifying"
<1>1. /\ CallerOk(signup[w], recovery[w], call[w]) /\ OneFlow(signup[w], recovery[w])
      /\ SignupShape(signup[w]) /\ RecoveryShape(recovery[w])
  BY Worker
<1>2. signup[w].at \in {"sending", "verifying"} => signup[w].phone \in Phones
  BY <1>1 DEF SignupShape
<1>3. recovery[w].at \in {"sending", "verifying"} => recovery[w].phone \in Phones
  BY <1>1 DEF RecoveryShape
<1> QED
  BY <1>1, <1>2, <1>3, IdleHandlers DEF CallerOk, OneFlow

\* Only the requests of numbers that may have one put a code into the cache.
LEMMA OtpStepPurposes ==
  ASSUME AccountsInv, NEW w \in Workers, RequestStep(w) \/ VerifyStep(w),
         UNCHANGED <<users, edited, reset, minted>>
  PROVE  PurposesOk'
<1>1. IInv /\ IInv' /\ CallInv /\ call[w].pc # "idle"
  BY Flow, RequestStepInv, VerifyStepInv, OtpStepRuns
<1>2. ASSUME NEW q \in Phones \ edited, SignUp!Verified(q)
      PROVE  ~ (otp'[SignUp!Key(q)].ttl > 0)
  <2>1. otp[SignUp!Key(q)].ttl = 0
    BY <1>2, Flow DEF NoCodeOnceVerified
  <2>2. CASE call[w].key = SignUp!Key(q) /\ call[w].pc \in RequestSteps
    <3>1. signup[w].at = "sending" /\ signup[w].phone = q
      BY <1>1, <2>2, CallOfHandler, KeysOfPhones
    <3> QED
      BY <1>2, <3>1, Worker DEF RowOk
  <2> QED
    BY <1>1, <2>1, <2>2, OnlyRequestsStore, KeysOfPhones
<1>3. ASSUME NEW q \in Phones \ edited, otp'[Recovery!Key(q)].ttl > 0
      PROVE  SignUp!Verified(q)
  <2>1. CASE otp[Recovery!Key(q)].ttl > 0
    BY <2>1, Flow DEF ResetIsForVerified
  <2>2. CASE call[w].key = Recovery!Key(q) /\ call[w].pc \in RequestSteps
    <3>1. recovery[w].at = "sending" /\ recovery[w].phone = q
      BY <1>1, <2>2, CallOfHandler, KeysOfPhones
    <3> QED
      BY <3>1, Worker DEF RecoveryOk
  <2> QED
    BY <1>1, <1>3, <2>1, <2>2, OnlyRequestsStore, KeysOfPhones
<1>4. NoCodeOnceVerified'
  <2> SUFFICES ASSUME NEW q \in Phones \ edited, SignUp!Verified(q)'
               PROVE  otp'[SignUp!Key(q)].ttl = 0
    BY DEF NoCodeOnceVerified, SignUp!Key
  <2>1. ~ (otp'[SignUp!Key(q)].ttl > 0)
    BY <1>2 DEF SignUp!Verified, SignUp!HasRow
  <2> QED
    BY <1>1, <2>1, KeysOfPhones DEF IInv, CacheInv
<1>5. ResetIsForVerified'
  <2>1. \A q \in Phones \ edited : otp'[Recovery!Key(q)].ttl > 0 => SignUp!Verified(q)'
    BY <1>3 DEF SignUp!Verified, SignUp!HasRow
  <2>2. \A j \in 1 .. minted : reset[j].phone \notin edited => SignUp!Verified(reset[j].phone)'
    BY Flow DEF ResetIsForVerified, SignUp!Verified, SignUp!HasRow
  <2> QED
    BY <2>1, <2>2 DEF ResetIsForVerified, Recovery!Key
<1> QED
  BY <1>4, <1>5 DEF PurposesOk

\* What a call says when a step of it is done.
LEMMA OtpStepSays ==
  ASSUME AccountsInv, NEW w \in Workers, RequestStep(w) \/ VerifyStep(w),
         UNCHANGED <<users, edited>>,
         NEW t, t = signup[w], NEW r, r.at = recovery[w].at, r.phone = recovery[w].phone
  PROVE  CallerOk(t, r, call[w])' /\ AnswerOk(t, r, call[w])'
<1>1. IInv /\ IInv' /\ CallInv /\ call[w].pc # "idle"
  BY Flow, RequestStepInv, VerifyStepInv, OtpStepRuns
<1>2. CallerOk(t, recovery[w], call[w]) /\ AnswerOk(t, recovery[w], call[w])
  BY Worker
<1>3. /\ call'[w].key = call[w].key
      /\ call'[w].pc \in RequestSteps => call[w].pc \in RequestSteps
      /\ call'[w].pc \in VerifySteps => call[w].pc \in VerifySteps
      /\ call'[w].pc # "get_count"
  BY <1>1, OtpStepKeepsSide, OtpStepGoesOn
<1>4. CallerOk(t, r, call[w])'
  BY <1>1, <1>2, <1>3 DEF CallerOk, SignUp!Key, Recovery!Key
<1>5. ASSUME t.at = "sending", call'[w].pc = "returned"
      PROVE  call'[w].result \in {"granted", "error"}
  <2>1. /\ call[w].pc \in RequestSteps /\ call[w].key = SignUp!Key(t.phone) /\ t.phone \in Phones
    <3>1. call[w].pc \in RequestSteps \cup VerifySteps
      BY Zenon DEF RequestSteps, VerifySteps, RequestStep, VerifyStep, RefuseRequest, AdmitRequest,
          StoreCode, ClearAttempts, StartWindow, CountRequest, CountFails, SendSms, RefuseLocked,
          ReadAttempts, RefuseMissing, CompareCode, RecordMiss, DropCode, Accept
    <3> QED
      BY <1>1, <1>5, <3>1, CallOfHandler, IdleHandlers
  <2>2. ~ (call[w].pc = "get_count" /\ Throttled(w))
    <3>1. throttle[t.phone].n \in Nat /\ PhoneOf(call[w].key) = t.phone
      BY <1>1, <2>1, KeysOfPhones DEF IInv, CacheInv
    <3> QED
      BY <1>2, <1>5, <3>1, LimitsAssumption DEF AnswerOk, Throttled, ThrottleCount
  <2> QED
    BY <1>1, <1>5, <2>1, <2>2, OtpStepAnswers
<1>6. ASSUME t.at = "verifying", Compared(call'[w])
      PROVE  t.phone \in edited \/ ~ SignUp!Verified(t.phone)
  <2>1. CASE Compared(call[w])
    BY <1>2, <1>6, <2>1 DEF AnswerOk
  <2>2. CASE ~ Compared(call[w])
    <3>1. otp[SignUp!Key(t.phone)].ttl > 0 /\ t.phone \in Phones
      BY <1>1, <1>6, <2>2, ComparesLiveCode, CallOfHandler, IdleHandlers
    <3> QED
      BY <3>1, Flow DEF NoCodeOnceVerified
  <2> QED
    BY <2>1, <2>2
<1>7. ASSUME r.at = "verifying", Compared(call'[w])
      PROVE  r.phone \in edited \/ SignUp!Verified(r.phone)
  <2>1. CASE Compared(call[w])
    BY <1>2, <1>7, <2>1 DEF AnswerOk
  <2>2. CASE ~ Compared(call[w])
    <3>1. otp[Recovery!Key(r.phone)].ttl > 0 /\ r.phone \in Phones
      BY <1>1, <1>7, <2>2, ComparesLiveCode, CallOfHandler, IdleHandlers
    <3> QED
      BY <3>1, Flow DEF ResetIsForVerified
  <2> QED
    BY <2>1, <2>2
<1>8. ASSUME call'[w].pc = "returned", call'[w].result = "accepted"
      PROVE  otp'[call'[w].key].ttl = 0
  <2>1. call[w].pc = "drop_attempts" /\ otp' = otp
    BY <1>1, <1>8, OtpStepAnswers
  <2>2. VerifyOk(call[w])
    BY <2>1, SerialFacts, Flow DEF Running, VerifySteps
  <2> QED
    BY <1>3, <2>1, <2>2 DEF VerifyOk
<1>9. AnswerOk(t, r, call[w])'
  BY <1>3, <1>5, <1>6, <1>7, <1>8 DEF AnswerOk, Compared, SignUp!Verified, SignUp!HasRow
<1> QED
  BY <1>4, <1>9

\* A step of a call, whichever handler waits for it.
LEMMA OtpStepFlow ==
  ASSUME OneWorker, NEW w \in Workers, AccountsInv, RequestStep(w) \/ VerifyStep(w),
         UNCHANGED <<users, edited, signup, password, reset, minted>>,
         NEW r \in Recovery!Task, recovery' = [recovery EXCEPT ![w] = r],
         r.at = recovery[w].at, r.phone = recovery[w].phone, r.code = recovery[w].code,
         OneFlow(signup[w], r)
  PROVE  FlowInv'
<1>1. PICK t : t = signup[w]
  OBVIOUS
<1>2. PICK c : c = call'[w]
  OBVIOUS
<1>3. CallerOk(t, r, c)' /\ AnswerOk(t, r, c)'
  <2>1. CallerOk(t, r, call[w])' /\ AnswerOk(t, r, call[w])'
    BY <1>1, OtpStepSays
  <2> QED
    BY <1>2, <2>1 DEF CallerOk, AnswerOk, Compared
<1>4. PurposesOk' /\ TableOk'
  BY OtpStepPurposes, Flow DEF TableOk, SignUp!HasRow
<1>5. signup' = [signup EXCEPT ![w] = t] /\ t \in SignupTask
  BY <1>1, Flow
<1>6. SignupOk(t)'
  <2>1. t.at \in {"idle", "sending", "verifying"}
    BY <1>1, CallOfHandler, OtpStepRuns, IdleHandlers
  <2> QED
    BY <1>1, <2>1, Worker DEF SignupOk, SignupShape, FormOk, RowOk, SignUp!HasRow, SignUp!Verified,
        SignUp!RegisterSteps, SignUp!ActivateSteps
<1>7. RecoveryOk(r)'
  BY Worker DEF RecoveryOk, RecoveryShape, SignUp!HasRow, SignUp!Verified
<1> QED
  BY <1>1, <1>2, <1>3, <1>4, <1>5, <1>6, <1>7, StepOfWorker

----------------------------------------------------------------------------
(* The forgotten password.                                                 *)

LEMMA RecoveryDone ==
  ASSUME OneWorker, NEW w \in Workers, AccountsInv, signup[w] = SignUp!NoTask,
         UNCHANGED <<users, edited, signup, otp, throttle, password, reset, minted>>,
         call'[w].pc = "idle",
         NEW r, recovery' = [recovery EXCEPT ![w] = r], RecoveryOk(r), r.at # "verifying"
  PROVE  FlowInv'
<1>1. PICK c : c = call'[w]
  OBVIOUS
<1>2. CallerOk(SignUp!NoTask, r, c) /\ AnswerOk(SignUp!NoTask, r, c)
  BY <1>1, NoCallWaitedFor, IdleHandlers
<1> QED
  BY <1>1, <1>2, RecoveryMoves

\* The handler with its next step.
LEMMA RecoveryAt ==
  ASSUME AccountsInv, NEW w \in Workers, NEW step \in Recovery!ResetSteps,
         Recovery!Move(w, step), recovery[w].at # "idle", step # "verify"
  PROVE  \E r : /\ recovery' = [recovery EXCEPT ![w] = r] /\ RecoveryShape(r)
                /\ r.at = step /\ r.phone = recovery[w].phone /\ r.phone \in Phones
<1> DEFINE r == [recovery[w] EXCEPT !.at = step]
<1>1. RecoveryShape(recovery[w]) /\ recovery[w] \in Recovery!Task
  BY Worker
<1>2. r \in Recovery!Task /\ r.at = step /\ r.phone = recovery[w].phone /\ r.phone \in Phones
  BY <1>1 DEF Recovery!Task, RecoveryShape
<1>3. recovery' = [recovery EXCEPT ![w] = r]
  BY DEF Recovery!Move
<1> HIDE DEF r
<1>4. RecoveryShape(r)
  BY <1>2 DEF RecoveryShape
<1> QED
  BY <1>2, <1>3, <1>4

LEMMA RecoveryArrivesFlow ==
  ASSUME OneWorker, NEW w \in Workers, AccountsInv, signup[w] = SignUp!NoTask,
         UNCHANGED <<signupVars, edited>>,
         \/ \E p \in Known : Recovery!ForgotPasswordRequest(w, p)
         \/ \E p \in Known, c \in Codes : Recovery!ForgotPasswordVerify(w, p, c)
         \/ \E j \in 1 .. minted : Recovery!ForgotPasswordConfirm(w, j)
  PROVE  FlowInv'
<1>1. /\ UNCHANGED <<users, edited, signup, otp, throttle, call, password, reset, minted>>
      /\ recovery[w] = Recovery!NoTask
  BY DEF Recovery!ForgotPasswordRequest, Recovery!ForgotPasswordVerify,
      Recovery!ForgotPasswordConfirm, signupVars, Recovery!vars, Recovery!cacheVars
<1>2. call'[w].pc = "idle"
  BY <1>1, NotInCall, IdleHandlers
<1>3. \E r : /\ recovery' = [recovery EXCEPT ![w] = r] /\ RecoveryShape(r)
             /\ r.at \in {"request", "verify", "confirm"}
             /\ r.at = "confirm" => SignUp!HasRow(r.phone)
  <2>1. ASSUME NEW p \in Known
        PROVE  LET r == Recovery!TaskAt("request", p) IN RecoveryShape(r) /\ r.at = "request"
    BY <2>1, AccountsAssumption DEF Recovery!TaskAt, RecoveryShape, Recovery!Task,
        Recovery!ResetSteps, Recovery!NoToken
  <2>2. ASSUME NEW p \in Known, NEW c \in Codes
        PROVE  LET r == [Recovery!TaskAt("verify", p) EXCEPT !.code = c]
               IN  RecoveryShape(r) /\ r.at = "verify"
    BY <2>2, AccountsAssumption DEF Recovery!TaskAt, RecoveryShape, Recovery!Task,
        Recovery!ResetSteps, Recovery!NoToken
  <2>3. ASSUME NEW j \in 1 .. minted
        PROVE  LET r == [Recovery!TaskAt("confirm", reset[j].phone) EXCEPT !.token = j]
               IN  RecoveryShape(r) /\ r.at = "confirm" /\ SignUp!HasRow(r.phone)
    <3>1. /\ reset[j].phone \in Phones /\ SignUp!HasRow(reset[j].phone)
          /\ j \in Recovery!Tokens
      BY AccountsAssumption, Flow DEF TableOk, Recovery!Tokens
    <3> QED
      BY <3>1 DEF Recovery!TaskAt, RecoveryShape, Recovery!Task, Recovery!ResetSteps,
          Recovery!NoToken
  <2>4. CASE \E p \in Known : Recovery!ForgotPasswordRequest(w, p)
    BY <2>1, <2>4 DEF Recovery!ForgotPasswordRequest
  <2>5. CASE \E p \in Known, c \in Codes : Recovery!ForgotPasswordVerify(w, p, c)
    BY <2>2, <2>5 DEF Recovery!ForgotPasswordVerify
  <2>6. CASE \E j \in 1 .. minted : Recovery!ForgotPasswordConfirm(w, j)
    BY <2>3, <2>6 DEF Recovery!ForgotPasswordConfirm
  <2> QED
    BY <2>4, <2>5, <2>6
<1>4. PICK r : /\ recovery' = [recovery EXCEPT ![w] = r] /\ RecoveryOk(r) /\ r.at # "verifying"
  BY <1>3 DEF RecoveryOk
<1> QED
  BY <1>1, <1>2, <1>4, RecoveryDone

\* Steps that end a handler, or leave it with a token that passed.
LEMMA RecoveryEndsFlow ==
  ASSUME OneWorker, NEW w \in Workers, AccountsInv, signup[w] = SignUp!NoTask,
         UNCHANGED <<signupVars, edited>>,
         \/ Recovery!IgnoreRequest(w) \/ Recovery!RequestReturns(w) \/ Recovery!VerifyFindsNobody(w)
         \/ Recovery!CodeRefused(w)
         \/ Recovery!ValidateResetToken(w) \/ Recovery!ResetTokenRefused(w)
  PROVE  FlowInv'
<1>1. UNCHANGED <<users, edited, signup, otp, throttle, password, reset, minted>>
  BY RecoveryCalls DEF Recovery!IgnoreRequest, Recovery!RequestReturns, Recovery!VerifyFindsNobody,
      Recovery!CodeRefused, Recovery!ValidateResetToken, Recovery!ResetTokenRefused, Return,
      signupVars, Recovery!vars, Recovery!cacheVars, cacheVars
<1>2. call'[w].pc = "idle"
  <2>1. CASE Return(w)
    BY <2>1, EndCall, Flow DEF Return
  <2>2. CASE call' = call /\ recovery[w].at \notin {"sending", "verifying"}
    BY <2>2, NotInCall, IdleHandlers
  <2> QED
    BY <2>1, <2>2, RecoveryCalls
    DEF Recovery!IgnoreRequest, Recovery!RequestReturns, Recovery!VerifyFindsNobody,
        Recovery!CodeRefused, Recovery!ValidateResetToken, Recovery!ResetTokenRefused, Recovery!vars
<1>3. PICK step \in {"ok", "rejected", "failed", "save"} :
        /\ Recovery!Move(w, step) /\ recovery[w].at # "idle"
        /\ step = "save" => recovery[w].at = "confirm"
  BY DEF Recovery!IgnoreRequest, Recovery!RequestReturns, Recovery!VerifyFindsNobody,
      Recovery!CodeRefused, Recovery!ValidateResetToken, Recovery!ResetTokenRefused
<1>4. PICK r : /\ recovery' = [recovery EXCEPT ![w] = r] /\ RecoveryShape(r) /\ r.at = step
               /\ r.phone = recovery[w].phone
  BY <1>3, RecoveryAt DEF Recovery!ResetSteps, Recovery!Outcomes
<1>5. RecoveryOk(r) /\ r.at # "verifying"
  BY <1>3, <1>4, Worker DEF RecoveryOk
<1> QED
  BY <1>1, <1>2, <1>4, <1>5, RecoveryDone

LEMMA RecoveryCallsFlow ==
  ASSUME OneWorker, NEW w \in Workers, AccountsInv, signup[w] = SignUp!NoTask,
         UNCHANGED <<signupVars, edited>>,
         Recovery!SendPasswordResetOtp(w) \/ Recovery!VerifyFindsUser(w)
  PROVE  FlowInv'
<1>1. /\ recovery[w] \in Recovery!Task /\ RecoveryShape(recovery[w])
      /\ call \in [Workers -> CallType]
  BY Worker, Flow DEF CallInv
<1>2. CASE Recovery!SendPasswordResetOtp(w)
  <2>1. PICK c : c = CallAt("get_count", Recovery!Key(recovery[w].phone), NoCode)
    OBVIOUS
  <2>2. /\ recovery[w].at = "request" /\ Recovery!Move(w, "sending")
        /\ UNCHANGED <<users, edited, signup, otp, throttle, password, reset, minted>>
        /\ call' = [call EXCEPT ![w] = c]
    BY <1>2, <2>1, RecoveryCalls DEF Recovery!SendPasswordResetOtp, CallRequest, cacheVars,
        signupVars
  <2>3. PICK r : /\ recovery' = [recovery EXCEPT ![w] = r] /\ RecoveryShape(r) /\ r.at = "sending"
                 /\ r.phone = recovery[w].phone
    BY <2>2, RecoveryAt DEF Recovery!ResetSteps
  <2>4. SignUp!Verified(recovery[w].phone)
    <3>1. recovery[w].phone \in Phones
      BY <1>1, <2>2 DEF RecoveryShape
    <3>2. Account(recovery[w].phone) = "active"
      BY <1>2, <3>1 DEF Recovery!SendPasswordResetOtp
    <3> QED
      BY <3>2 DEF Account
  <2>5. RecoveryOk(r)
    BY <2>3, <2>4 DEF RecoveryOk
  <2>6. c.pc = "get_count" /\ c.key = Recovery!Key(r.phone) /\ c.result = "none"
    BY <2>1, <2>3 DEF CallAt
  <2>7. CallerOk(SignUp!NoTask, r, c) /\ AnswerOk(SignUp!NoTask, r, c)
    BY <2>3, <2>6, IdleHandlers DEF CallerOk, AnswerOk, Compared, VerifySteps
  <2>8. call'[w] = c
    BY <1>1, <2>2
  <2> QED
    BY <2>2, <2>3, <2>5, <2>7, <2>8, RecoveryMoves
<1>3. CASE Recovery!VerifyFindsUser(w)
  <2>1. PICK c : c = CallAt("get_attempts", Recovery!Key(recovery[w].phone), recovery[w].code)
    OBVIOUS
  <2>2. PICK r : r = [recovery[w] EXCEPT !.at = "verifying", !.seen = password[recovery[w].phone]]
    OBVIOUS
  <2>3. /\ recovery[w].at = "verify"
        /\ UNCHANGED <<users, edited, signup, otp, throttle, password, reset, minted>>
        /\ call' = [call EXCEPT ![w] = c] /\ recovery' = [recovery EXCEPT ![w] = r]
    <3>1. recovery \in [Workers -> Recovery!Task]
      BY Flow
    <3>2. recovery' = [recovery EXCEPT ![w] = r]
      BY <1>3, <2>2, <3>1 DEF Recovery!VerifyFindsUser
    <3>3. CallVerify(w, Recovery!Key(recovery[w].phone), recovery[w].code)
      BY <1>3, RecoveryCalls DEF Recovery!VerifyFindsUser
    <3> QED
      BY <1>3, <2>1, <3>2, <3>3 DEF Recovery!VerifyFindsUser, CallVerify, cacheVars, signupVars
  <2>4. recovery[w].phone \in Phones /\ password[recovery[w].phone] \in Nat
    BY <1>1, <2>3, AccountsAssumption, Flow DEF RecoveryShape, TableOk
  <2>5. r \in Recovery!Task /\ r.at = "verifying" /\ r.phone = recovery[w].phone
    BY <1>1, <2>2, <2>4 DEF Recovery!Task, Recovery!ResetSteps
  <2>6. RecoveryOk(r)
    <3>1. Account(recovery[w].phone) # "none"
      BY <1>3, <2>4 DEF Recovery!VerifyFindsUser
    <3>2. SignUp!HasRow(r.phone)
      BY <2>5, <3>1 DEF Account, SignUp!Verified
    <3> QED
      BY <2>4, <2>5, <3>2 DEF RecoveryOk, RecoveryShape
  <2>7. c.pc = "get_attempts" /\ c.key = Recovery!Key(r.phone) /\ c.result = "none"
    BY <2>1, <2>5 DEF CallAt
  <2>8. CallerOk(SignUp!NoTask, r, c) /\ AnswerOk(SignUp!NoTask, r, c)
    BY <2>5, <2>7, IdleHandlers DEF CallerOk, AnswerOk, Compared, RequestSteps
  <2>9. call'[w] = c
    BY <1>1, <2>3
  <2> QED
    BY <2>3, <2>6, <2>8, <2>9, RecoveryMoves
<1> QED
  BY <1>2, <1>3

LEMMA RecoveryRespondOrDieFlow ==
  ASSUME OneWorker, NEW w \in Workers, AccountsInv, signup[w] = SignUp!NoTask,
         UNCHANGED <<signupVars, edited>>,
         Recovery!Respond(w) \/ Recovery!Die(w)
  PROVE  FlowInv'
<1>1. /\ recovery' = [recovery EXCEPT ![w] = Recovery!NoTask]
      /\ UNCHANGED <<users, edited, signup, otp, throttle, password, reset, minted>>
  BY DEF Recovery!Respond, Recovery!Die, Recovery!vars, Recovery!cacheVars, signupVars
<1>2. call'[w].pc = "idle"
  <2>1. CASE Recovery!Respond(w)
    <3>1. call' = call /\ recovery[w].at \notin {"sending", "verifying"}
      BY <2>1 DEF Recovery!Respond, Recovery!vars, Recovery!Outcomes
    <3> QED
      BY <3>1, NotInCall, IdleHandlers
  <2>2. CASE Recovery!Die(w)
    BY <2>2, RecoveryCalls, EndCall, Flow DEF Recovery!Die
  <2> QED
    BY <2>1, <2>2
<1>3. PICK r : r = Recovery!NoTask /\ RecoveryOk(r) /\ r.at # "verifying"
  BY IdleRecoveryIsOk, IdleHandlers
<1> QED
  BY <1>1, <1>2, <1>3, RecoveryDone

\* A recovery that is over may leave a token or a password behind.
LEMMA RecoveryWritesFlow ==
  ASSUME OneWorker, NEW w \in Workers, AccountsInv, signup[w] = SignUp!NoTask,
         UNCHANGED <<signup, edited, otp, throttle>>, call'[w].pc = "idle",
         \A q \in Phones : SignUp!Verified(q)' <=> SignUp!Verified(q),
         NEW r, recovery' = [recovery EXCEPT ![w] = r], RecoveryShape(r), r.at = "ok",
         TableOk',
         \A j \in 1 .. minted' : (reset[j].phone \in edited \/ SignUp!Verified(reset[j].phone))'
  PROVE  FlowInv'
<1>1. PICK c : c = call'[w]
  OBVIOUS
<1>2. PICK t : t = SignUp!NoTask /\ t \in SignupTask /\ t.at # "verifying" /\ SignupOk(t)'
  BY IdleHandlers, IdleSignupIsOk DEF SignupOk, SignupShape, FormOk, RowOk
<1>3. signup' = [signup EXCEPT ![w] = t] /\ OneFlow(t, r)
  BY <1>2, Flow DEF OneFlow
<1>4. CallerOk(t, r, c)' /\ AnswerOk(t, r, c)'
  BY <1>1, <1>2, NoCallWaitedForNext
<1>5. r \in Recovery!Task /\ RecoveryOk(r)'
  BY DEF RecoveryOk, RecoveryShape
<1>6. NoCodeOnceVerified'
  BY Flow DEF NoCodeOnceVerified, SignUp!Key
<1>7. ResetIsForVerified'
  <2>1. \A q \in Phones \ edited : otp'[Recovery!Key(q)].ttl > 0 => SignUp!Verified(q)'
    BY Flow DEF ResetIsForVerified
  <2>2. \A j \in 1 .. minted' : reset'[j].phone \notin edited => SignUp!Verified(reset[j].phone)'
    BY DEF SignUp!Verified, SignUp!HasRow
  <2> QED
    BY <2>1, <2>2 DEF ResetIsForVerified, Recovery!Key
<1> QED
  BY <1>1, <1>2, <1>3, <1>4, <1>5, <1>6, <1>7, StepOfWorker DEF PurposesOk

LEMMA MintResetTokenFlow ==
  ASSUME OneWorker, NEW w \in Workers, AccountsInv, signup[w] = SignUp!NoTask,
         UNCHANGED <<signupVars, edited>>,
         Recovery!MintResetToken(w)
  PROVE  FlowInv'
<1>1. PICK token, n : token = Recovery!TokenFor(w) /\ n = minted + 1
  OBVIOUS
<1>2. /\ recovery[w].at = "verifying" /\ minted < MaxResetTokens /\ Return(w)
      /\ call[w].result = "accepted" /\ Recovery!Move(w, "ok")
      /\ minted' = n /\ reset' = [reset EXCEPT ![n] = token]
      /\ UNCHANGED <<users, edited, signup, password>>
  BY <1>1, RecoveryCalls DEF Recovery!MintResetToken, signupVars
<1>3. UNCHANGED <<otp, throttle>> /\ call'[w].pc = "idle"
  BY <1>2, EndCall, Flow DEF Return, cacheVars
<1>4. /\ recovery[w] \in Recovery!Task /\ recovery[w].phone \in Phones
      /\ SignUp!HasRow(recovery[w].phone)
      /\ recovery[w].phone \in edited \/ SignUp!Verified(recovery[w].phone)
  BY <1>2, Worker DEF RecoveryShape, RecoveryOk, AnswerOk, Compared
<1>5. token \in Recovery!Token /\ token.phone = recovery[w].phone
  BY <1>1, <1>4, AccountsAssumption DEF Recovery!TokenFor, Recovery!Token, Recovery!Task
<1>6. /\ minted \in 0 .. MaxResetTokens /\ reset \in [Recovery!Tokens -> Recovery!Token]
      /\ \A j \in 1 .. minted : /\ reset[j].phone \in Phones /\ SignUp!HasRow(reset[j].phone)
                                /\ reset[j].phone \in edited \/ SignUp!Verified(reset[j].phone)
  BY Flow DEF TableOk, ResetIsForVerified
<1>7. /\ n \in Recovery!Tokens /\ n \in 0 .. MaxResetTokens
      /\ \A j \in 1 .. n : j = n \/ j \in 1 .. minted
      /\ \A j \in 1 .. minted : j # n /\ j \in Recovery!Tokens
  BY <1>1, <1>2, <1>6, AccountsAssumption DEF Recovery!Tokens
<1>8. /\ reset' \in [Recovery!Tokens -> Recovery!Token] /\ reset'[n] = token
      /\ \A j \in 1 .. minted : reset'[j] = reset[j]
  BY <1>2, <1>5, <1>6, <1>7
<1>9. \A j \in 1 .. minted' : /\ reset'[j].phone \in Phones /\ SignUp!HasRow(reset'[j].phone)
                              /\ reset'[j].phone \in edited \/ SignUp!Verified(reset'[j].phone)
  BY <1>2, <1>4, <1>5, <1>6, <1>7, <1>8
<1>10. \A q \in Phones : SignUp!Verified(q)' <=> SignUp!Verified(q)
  BY <1>2 DEF SignUp!Verified, SignUp!HasRow
<1>11. \A j \in 1 .. minted' : (reset[j].phone \in edited \/ SignUp!Verified(reset[j].phone))'
  BY <1>2, <1>9 DEF SignUp!Verified, SignUp!HasRow
<1>12. TableOk'
  BY <1>2, <1>7, <1>8, <1>9, Flow DEF TableOk, Recovery!Tokens, Recovery!Token, SignUp!HasRow
<1>13. PICK r : recovery' = [recovery EXCEPT ![w] = r] /\ RecoveryShape(r) /\ r.at = "ok"
  BY <1>2, RecoveryAt DEF Recovery!ResetSteps, Recovery!Outcomes
<1> QED
  BY <1>2, <1>3, <1>10, <1>11, <1>12, <1>13, RecoveryWritesFlow

\* The hash of a new password: the row keeps its flags, its name and its email.
LEMMA PasswordColumn ==
  ASSUME AccountsInv, NEW p \in Phones, SignUp!HasRow(p), PasswordSaved(p)
  PROVE  /\ users' \in [Phones -> SignUp!Row \cup {NoRow}]
         /\ \A q \in Phones : /\ SignUp!HasRow(q)' <=> SignUp!HasRow(q)
                              /\ SignUp!Verified(q)' <=> SignUp!Verified(q)
                              /\ users'[q].username = users[q].username
                              /\ users'[q].email = users[q].email
<1>1. users \in [Phones -> SignUp!Row \cup {NoRow}] /\ users[p] \in SignUp!Row
  BY Flow DEF TableOk, SignUp!HasRow
<1>2. PICK s \in Passwords : users' = [users EXCEPT ![p].password = s]
  BY DEF PasswordSaved
<1>3. PICK row : row = [users[p] EXCEPT !.password = s]
  OBVIOUS
<1>4. /\ row \in SignUp!Row /\ row.verified = users[p].verified
      /\ row.username = users[p].username /\ row.email = users[p].email
  BY <1>1, <1>3 DEF SignUp!Row, Passwords
<1>5. users' = [users EXCEPT ![p] = row]
  BY <1>1, <1>2, <1>3
<1>6. SignUp!Verified(p) <=> row.verified
  BY <1>4 DEF SignUp!Verified
<1>7. \A q \in Phones \ {p} : SignUp!HasRow(q)' <=> SignUp!HasRow(q)
  BY <1>1, <1>5 DEF SignUp!HasRow
<1> QED
  BY <1>4, <1>5, <1>6, <1>7, RowWritten

LEMMA RecoverySavesFlow ==
  ASSUME OneWorker, NEW w \in Workers, AccountsInv, signup[w] = SignUp!NoTask,
         UNCHANGED <<signup, edited>>, RecoverySaves(w)
  PROVE  FlowInv'
<1>1. /\ recovery[w].at = "save" /\ password[recovery[w].phone] < MaxPasswords
      /\ password' = [password EXCEPT ![recovery[w].phone] = @ + 1]
      /\ Recovery!Move(w, "ok") /\ UNCHANGED <<signup, edited, otp, throttle, call, reset, minted>>
      /\ PasswordSaved(recovery[w].phone)
  BY DEF RecoverySaves, Recovery!SavePassword, Recovery!vars, Recovery!cacheVars
<1>2. call'[w].pc = "idle"
  BY <1>1, NotInCall, IdleHandlers
<1>3. recovery[w].phone \in Phones /\ SignUp!HasRow(recovery[w].phone)
  BY <1>1, Worker DEF RecoveryShape, RecoveryOk
<1>4. password' \in [Phones -> 0 .. MaxPasswords]
  BY <1>1, <1>3, AccountsAssumption, Flow DEF TableOk
<1>5. /\ users' \in [Phones -> SignUp!Row \cup {NoRow}]
      /\ \A q \in Phones : /\ SignUp!HasRow(q)' <=> SignUp!HasRow(q)
                           /\ SignUp!Verified(q)' <=> SignUp!Verified(q)
  BY <1>1, <1>3, PasswordColumn
<1>6. ASSUME NEW j \in 1 .. minted
      PROVE  /\ reset[j].phone \in Phones /\ SignUp!HasRow(reset[j].phone)'
             /\ reset[j].phone \in edited \/ SignUp!Verified(reset[j].phone)'
  <2>1. PICK q \in Phones : /\ q = reset[j].phone /\ SignUp!HasRow(q)
                            /\ q \in edited \/ SignUp!Verified(q)
    BY Flow DEF TableOk, ResetIsForVerified
  <2>2. SignUp!HasRow(q)' /\ (q \in edited \/ SignUp!Verified(q)')
    BY <1>5, <2>1
  <2> QED
    BY <1>1, <2>1, <2>2 DEF SignUp!HasRow, SignUp!Verified
<1>7. TableOk'
  BY <1>1, <1>4, <1>5, <1>6, Flow DEF TableOk, SignUp!HasRow
<1>8. \A j \in 1 .. minted' : (reset[j].phone \in edited \/ SignUp!Verified(reset[j].phone))'
  BY <1>1, <1>6 DEF SignUp!Verified, SignUp!HasRow
<1>9. PICK r : recovery' = [recovery EXCEPT ![w] = r] /\ RecoveryShape(r) /\ r.at = "ok"
  BY <1>1, RecoveryAt DEF Recovery!ResetSteps, Recovery!Outcomes
<1> QED
  BY <1>1, <1>2, <1>5, <1>7, <1>8, <1>9, RecoveryWritesFlow

LEMMA RecoveryOtpFlow ==
  ASSUME OneWorker, NEW w \in Workers, AccountsInv, signup[w] = SignUp!NoTask,
         UNCHANGED <<signupVars, edited>>,
         Recovery!OtpStep(w)
  PROVE  FlowInv'
<1>1. RequestStep(w) \/ VerifyStep(w)
  BY RecoveryRequests, RecoveryVerifies DEF Recovery!OtpStep
<1>2. /\ call[w].pc # "idle" /\ recovery \in [Workers -> Recovery!Task]
      /\ recovery[w] \in Recovery!Task
  BY <1>1, OtpStepRuns, Flow
<1>3. password[recovery[w].phone] \in Nat
  BY <1>2, CallOfHandler, AccountsAssumption, IdleHandlers, Flow DEF TableOk
<1>4. PICK n \in Nat :
        recovery' = [recovery EXCEPT ![w].epoch = n]
  BY <1>2, <1>3 DEF Recovery!OtpStep, Recovery!Task
<1>5. PICK r : r = [recovery[w] EXCEPT !.epoch = n]
  OBVIOUS
<1>6. /\ r \in Recovery!Task /\ r.at = recovery[w].at /\ r.phone = recovery[w].phone
      /\ r.code = recovery[w].code /\ recovery' = [recovery EXCEPT ![w] = r]
  BY <1>2, <1>4, <1>5 DEF Recovery!Task
<1>7. UNCHANGED <<users, edited, signup, password, reset, minted>> /\ OneFlow(signup[w], r)
  BY DEF Recovery!OtpStep, signupVars, OneFlow
<1> QED
  BY <1>1, <1>6, <1>7, OtpStepFlow

LEMMA RecoveryStepFlow ==
  ASSUME OneWorker, NEW w \in Workers, AccountsInv, RecoveryStep(w) PROVE FlowInv'
<1>1. signup[w] = SignUp!NoTask /\ UNCHANGED <<signup, edited>>
  BY DEF RecoveryStep
<1>2. CASE RecoverySaves(w)
  BY <1>1, <1>2, RecoverySavesFlow
<1>3. CASE ~ RecoverySaves(w)
  <2>1. UNCHANGED <<signupVars, edited>>
    BY <1>1, <1>3 DEF RecoveryStep, signupVars
  <2> QED
    BY <1>1, <1>3, <2>1, RecoveryArrivesFlow, RecoveryEndsFlow, RecoveryCallsFlow,
       MintResetTokenFlow, RecoveryOtpFlow, RecoveryRespondOrDieFlow
    DEF RecoveryStep, Recovery!RequestHandler, Recovery!VerifyHandler
<1> QED
  BY <1>2, <1>3

----------------------------------------------------------------------------
(* All of sign-up.                                                         *)

\* The steps of a sign-up, without their bounds.
LEMMA SignUpDoes ==
  ASSUME NEW w \in Workers, SignUpStep(w)
  PROVE  \/ \E p \in Phones, f \in Forms : SignUp!Register(w, p, f)
         \/ \E p \in Phones, c \in Codes : SignUp!VerifyOtpRequest(w, p, c)
         \/ SignUp!RegisterStep(w) \/ SignUp!ActivateStep(w)
         \/ SignUp!OtpStep(w) \/ SignUp!Respond(w) \/ SignUp!Die(w)
  BY DEF SignUpStep

\* Only the step that saves a password counts one.
LEMMA SignUpPassword ==
  ASSUME AccountsInv, NEW w \in Workers, SignUpStep(w)
  PROVE  IF SignUp!SavePassword(w)
         THEN /\ password[signup[w].phone] < MaxPasswords
              /\ password' = [q \in Phones |->
                    IF q = signup[w].phone THEN password[q] + 1 ELSE password[q]]
         ELSE password' = password
<1>1. signup \in [Workers -> SignupTask] /\ password \in [Phones -> 0 .. MaxPasswords]
  BY Flow DEF TableOk
<1>2. password' = [q \in Phones |->
          IF SavesPassword(w, q) /\ signup'[w].at = "send" THEN password[q] + 1 ELSE password[q]]
  BY DEF SignUpStep
<1>3. CASE SignUp!SavePassword(w)
  <2>1. signup[w].at = "password" /\ signup'[w].at = "send"
    BY <1>1, <1>3 DEF SignUp!SavePassword, SignUp!Move, SignupTask
  <2>2. SavesPassword(w, signup[w].phone) /\ signup[w].phone \in Phones
    BY <2>1, Worker DEF SavesPassword, SignupShape
  <2>3. \A q \in Phones : SavesPassword(w, q) => password[q] < MaxPasswords
    <3>1. signup'[w].at # "idle" /\ signup[w].at # "idle"
      BY <2>1
    <3> QED
      BY <1>1, <2>1, <3>1, IdleHandlers
      DEF SignUpStep, SignUp!Register, SignUp!VerifyOtpRequest, SignUp!ActivateStep,
          SignUp!OtpStep, SignUp!Respond, SignUp!Die, SignUp!UserExists, SignUp!Validate,
          SignUp!VerifyCode, SignUp!VerifyReturns, SignUp!Activate
  <2> QED
    BY <1>2, <1>3, <2>1, <2>2, <2>3 DEF SavesPassword
<1>4. CASE ~ SignUp!SavePassword(w)
  <2>1. ~ (signup[w].at = "password" /\ signup'[w].at = "send")
    <3> SUFFICES ASSUME signup[w].at = "password", signup'[w].at = "send" PROVE FALSE
      OBVIOUS
    <3>1. SignUp!Die(w) \/ SignUp!OtpStep(w)
      <4>1. signup[w] # SignUp!NoTask
        BY IdleHandlers
      <4>2. ~ SignUp!RegisterStep(w)
        BY <1>4 DEF SignUp!RegisterStep, SignUp!ValidateUsername, SignUp!ValidatePhoneNumber,
            SignUp!CheckThrottle, SignUp!ValidateEmail, SignUp!Validate, SignUp!UpdateOrCreate,
            SignUp!UpsertFails, SignUp!SendRegistrationOtp, SignUp!RegisterReturns
      <4>3. ~ SignUp!ActivateStep(w) /\ ~ SignUp!Respond(w)
        BY DEF SignUp!ActivateStep, SignUp!UserExists, SignUp!Validate, SignUp!VerifyCode,
            SignUp!VerifyReturns, SignUp!Activate, SignUp!Respond, SignUp!Outcomes
      <4> QED
        BY <4>1, <4>2, <4>3, SignUpDoes DEF SignUp!Register, SignUp!VerifyOtpRequest
    <3> QED
      BY <1>1, <3>1, IdleHandlers DEF SignUp!Die, SignUp!OtpStep
  <2> QED
    BY <1>1, <1>2, <1>4, <2>1 DEF SavesPassword
<1> QED
  BY <1>3, <1>4

LEMMA SignUpStepFlow ==
  ASSUME OneWorker, NEW w \in Workers, AccountsInv, SignUpStep(w) PROVE FlowInv'
<1>1. recovery[w] = Recovery!NoTask /\ UNCHANGED <<edited, recoveryVars>>
  BY DEF SignUpStep
<1>2. CASE SignUp!SavePassword(w)
  <2>1. SavesPassword(w, signup[w].phone) /\ signup[w].phone \in Phones
    BY <1>2, Worker DEF SignUp!SavePassword, SavesPassword, SignupShape
  <2>2. password[signup[w].phone] < MaxPasswords
    BY <1>2, <2>1, SignUpPassword
  <2> QED
    BY <1>1, <1>2, <2>2, SignUpPassword, SavePasswordFlow
<1>3. CASE ~ SignUp!SavePassword(w)
  <2>1. UNCHANGED password
    BY <1>3, SignUpPassword
  <2>2. CASE SignUp!OtpStep(w)
    <3>1. (RequestStep(w) \/ VerifyStep(w)) /\ UNCHANGED <<users, signup>>
      BY <2>2, SignUpRequests, SignUpVerifies DEF SignUp!OtpStep
    <3>2. PICK r \in Recovery!Task : r = recovery[w]
      BY Flow
    <3>3. recovery' = [recovery EXCEPT ![w] = r] /\ OneFlow(signup[w], r)
      BY <1>1, <3>2, Flow DEF recoveryVars, OneFlow
    <3> QED
      BY <1>1, <2>1, <3>1, <3>2, <3>3, OtpStepFlow DEF recoveryVars
  <2>3. CASE SignUp!RegisterStep(w) \/ SignUp!ActivateStep(w)
    BY <1>1, <1>3, <2>1, <2>3, ValidatorFlow, UpsertFailsFlow, UpdateOrCreateFlow, ActivateFlow,
       SignUpCallsFlow, SignUpReturnsFlow
    DEF SignUp!RegisterStep, SignUp!ActivateStep
  <2> QED
    BY <1>1, <2>1, <2>2, <2>3, RegisterFlow, SignUpRespondOrDieFlow DEF SignUpStep
<1> QED
  BY <1>2, <1>3

----------------------------------------------------------------------------
(* The staff, the signed-in user, the clock.                               *)

\* They run no handler: what a handler relies on is left alone, or outlived.
LEMMA OutsideFlow ==
  ASSUME AccountsInv, UNCHANGED <<signup, recovery, call, minted>>,
         users' \in [Phones -> SignUp!Row \cup {NoRow}],
         password' \in [Phones -> 0 .. MaxPasswords],
         reset' \in [Recovery!Tokens -> Recovery!Token],
         \A j \in 1 .. minted : reset'[j].phone = reset[j].phone,
         edited \subseteq edited', edited' \subseteq Phones,
         \A q \in Phones : /\ SignUp!HasRow(q)' <=> SignUp!HasRow(q)
                           /\ q \in edited' \/ (SignUp!Verified(q)' <=> SignUp!Verified(q))
                           /\ users'[q].username = users[q].username
                           /\ users'[q].email = users[q].email
                           /\ throttle'[q].n <= throttle[q].n,
         \A k \in Keys : otp'[k].ttl = otp[k].ttl \/ otp[k].ttl > 0,
         IInv'
  PROVE  FlowInv'
<1>1. \A q \in Phones :
        throttle'[q].n < THROTTLE_MAX_REQUESTS \/ ~ (throttle[q].n < THROTTLE_MAX_REQUESTS)
  <2> SUFFICES ASSUME NEW q \in Phones, throttle[q].n < THROTTLE_MAX_REQUESTS
               PROVE  throttle'[q].n < THROTTLE_MAX_REQUESTS
    OBVIOUS
  <2>1. throttle[q].n \in Nat /\ throttle'[q].n \in Nat
    BY Flow DEF IInv, CacheInv
  <2> QED
    BY <2>1, LimitsAssumption
<1>2. TableOk'
  <2>1. ASSUME NEW j \in 1 .. minted
        PROVE  (reset[j].phone \in Phones /\ SignUp!HasRow(reset[j].phone))'
    <3>1. PICK q \in Phones : q = reset[j].phone /\ SignUp!HasRow(q)'
      BY Flow DEF TableOk
    <3> QED
      BY <3>1 DEF SignUp!HasRow
  <2> QED
    BY <2>1, Flow DEF TableOk, Recovery!Token, Recovery!Tokens, SignUp!HasRow
<1>3. NoCodeOnceVerified'
  <2> SUFFICES ASSUME NEW q \in Phones, q \notin edited', SignUp!Verified(q)'
               PROVE  otp'[SignUp!Key(q)].ttl = 0
    BY DEF NoCodeOnceVerified, SignUp!Key
  <2>1. otp[SignUp!Key(q)].ttl = 0
    BY Flow DEF NoCodeOnceVerified
  <2> QED
    BY <2>1, KeysOfPhones
<1>4. ResetIsForVerified'
  <2>1. ASSUME NEW q \in Phones, q \notin edited', otp'[Recovery!Key(q)].ttl > 0
        PROVE  SignUp!Verified(q)'
    <3>1. otp[Recovery!Key(q)].ttl > 0
      BY <2>1, KeysOfPhones
    <3> QED
      BY <2>1, <3>1, Flow DEF ResetIsForVerified
  <2>2. ASSUME NEW j \in 1 .. minted, reset[j].phone \notin edited'
        PROVE  SignUp!Verified(reset[j].phone)'
    <3>1. PICK q \in Phones : q = reset[j].phone
      BY Flow DEF TableOk
    <3>2. SignUp!Verified(q)'
      BY <2>2, <3>1, Flow DEF ResetIsForVerified
    <3> QED
      BY <3>1, <3>2 DEF SignUp!Verified, SignUp!HasRow
  <2> QED
    BY <2>1, <2>2 DEF ResetIsForVerified, Recovery!Key
<1>5. ASSUME NEW w \in Workers PROVE WorkerOk(w)'
  <2>1. PICK t, r, c : t = signup[w] /\ r = recovery[w] /\ c = call[w]
    OBVIOUS
  <2>2. /\ SignupShape(t) /\ FormOk(t) /\ RowOk(t) /\ RecoveryOk(r) /\ OneFlow(t, r)
        /\ CallerOk(t, r, c) /\ AnswerOk(t, r, c)
    BY <2>1, Worker
  <2>3. t.at # "idle" => t.phone \in Phones /\ SignUp!Key(t.phone) \in Keys
    BY <2>2, KeysOfPhones DEF SignupShape
  <2>4. r.at # "idle" => r.phone \in Phones
    BY <2>2 DEF RecoveryOk, RecoveryShape
  <2>5. c.pc = "returned" => c.key \in Keys
    BY <2>1, Flow DEF CallInv, GoodCall
  <2>6. SignupShape(t)'
    BY <2>2 DEF SignupShape
  <2>7. FormOk(t)'
    <3>1. t.at \in {"phone", "throttle", "email", "upsert"} => SignUp!UsernameFree(t.form.username)'
      BY <2>2 DEF FormOk, SignUp!UsernameFree, SignUp!HasRow
    <3>2. \A q \in Phones \ edited' :
             t.at = "upsert" /\ SignUp!Verified(q)' => users'[q].email # t.form.email
      BY <2>2 DEF FormOk
    <3>3. t.at \in {"email", "upsert", "password", "send"} =>
             throttle'[t.phone].n < THROTTLE_MAX_REQUESTS
      BY <1>1, <2>2, <2>3 DEF FormOk
    <3> QED
      BY <3>1, <3>2, <3>3 DEF FormOk, SignUp!Verified, SignUp!HasRow
  <2>8. RowOk(t)'
    <3>1. t.at = "activate" => otp'[SignUp!Key(t.phone)].ttl = 0
      BY <2>2, <2>3 DEF RowOk
    <3> QED
      BY <2>2, <2>3, <3>1 DEF RowOk, SignUp!Key
  <2>9. RecoveryOk(r)'
    BY <2>2, <2>4 DEF RecoveryOk, RecoveryShape
  <2>10. CallerOk(t, r, c)'
    BY <2>2 DEF CallerOk, SignUp!Key, Recovery!Key
  <2>11. AnswerOk(t, r, c)'
    BY <1>1, <2>2, <2>3, <2>4, <2>5 DEF AnswerOk, Compared
  <2> QED
    BY <2>1, <2>2, <2>6, <2>7, <2>8, <2>9, <2>10, <2>11
    DEF WorkerOk, SignupOk, SignupShape, FormOk, RowOk, RecoveryOk, RecoveryShape, OneFlow,
        CallerOk, AnswerOk, Compared
<1> QED
  BY <1>2, <1>3, <1>4, <1>5, Flow DEF FlowInv, PurposesOk

LEMMA SaveUserFormFlow ==
  ASSUME AccountsInv, NEW p \in Known, NEW active \in BOOLEAN, NEW verified \in BOOLEAN,
         SaveUserForm(p, active, verified)
  PROVE  FlowInv'
<1>1. p \in Phones /\ SignUp!HasRow(p) /\ UNCHANGED <<vars, signup, password, recoveryVars>>
  BY AccountsAssumption DEF SaveUserForm
<1>2. users \in [Phones -> SignUp!Row \cup {NoRow}] /\ users[p] \in SignUp!Row
  BY <1>1, Flow DEF TableOk, SignUp!HasRow
<1>3. PICK row : row = [users[p] EXCEPT !.active = active, !.verified = verified]
  OBVIOUS
<1>4. row \in SignUp!Row /\ row.verified = verified
      /\ row.username = users[p].username /\ row.email = users[p].email
  BY <1>2, <1>3 DEF SignUp!Row
<1>5. users' = [users EXCEPT ![p] = row]
  BY <1>2, <1>3 DEF SaveUserForm
<1>6. edited \subseteq edited' /\ edited' \subseteq Phones
  BY <1>1, Flow DEF SaveUserForm, TableOk
<1>7. p \in edited' \/ verified = users[p].verified
  BY DEF SaveUserForm
<1>8. /\ users' \in [Phones -> SignUp!Row \cup {NoRow}]
      /\ \A q \in Phones : /\ SignUp!HasRow(q)' <=> SignUp!HasRow(q)
                           /\ q \in edited' \/ (SignUp!Verified(q)' <=> SignUp!Verified(q))
                           /\ users'[q].username = users[q].username
                           /\ users'[q].email = users[q].email
  <2>1. p \in edited' \/ (SignUp!Verified(p) <=> row.verified)
    BY <1>1, <1>4, <1>7 DEF SignUp!Verified
  <2>2. \A q \in Phones \ {p} : SignUp!HasRow(q)' <=> SignUp!HasRow(q)
    BY <1>2, <1>5 DEF SignUp!HasRow
  <2> QED
    BY <1>1, <1>4, <1>5, <2>1, <2>2, RowWritten
<1>9. UNCHANGED <<signup, recovery, call, minted, otp, throttle, reset, password>>
  BY <1>1 DEF vars, cacheVars, recoveryVars
<1>10. IInv' /\ \A q \in Phones : throttle'[q].n <= throttle[q].n
  <2>1. \A q \in Phones : throttle[q].n \in Nat
    BY Flow DEF IInv, CacheInv
  <2>2. IInv'
    BY <1>1, NextIInv, Flow
  <2> QED
    BY <1>9, <2>1, <2>2
<1> QED
  BY <1>6, <1>8, <1>9, <1>10, OutsideFlow, Flow DEF TableOk

LEMMA ChangePasswordFlow ==
  ASSUME AccountsInv, NEW p \in Known, ChangePassword(p) PROVE FlowInv'
<1>1. /\ p \in Phones /\ password[p] < MaxPasswords /\ password' = [password EXCEPT ![p] = @ + 1]
      /\ UNCHANGED <<edited, signup, recovery, call, minted, otp, throttle, reset>>
      /\ UNCHANGED <<cacheVars, historyVars, vars>>
      /\ Account(p) = "active" /\ PasswordSaved(p)
  BY AccountsAssumption
  DEF Recovery!ChangePassword, ChangePassword, Recovery!vars, Recovery!cacheVars,
      Recovery!historyVars, vars, cacheVars, historyVars
<1>2. SignUp!HasRow(p)
  BY <1>1 DEF Account, SignUp!Verified
<1>3. password' \in [Phones -> 0 .. MaxPasswords]
  BY <1>1, AccountsAssumption, Flow DEF TableOk
<1>4. IInv' /\ \A q \in Phones : throttle'[q].n <= throttle[q].n
  <2>1. \A q \in Phones : throttle[q].n \in Nat
    BY Flow DEF IInv, CacheInv
  <2>2. IInv'
    BY <1>1, NextIInv, Flow
  <2> QED
    BY <1>1, <2>1, <2>2
<1>5. edited \subseteq edited' /\ edited' \subseteq Phones
  BY <1>1, Flow DEF TableOk
<1> QED
  BY <1>1, <1>2, <1>3, <1>4, <1>5, PasswordColumn, OutsideFlow, Flow DEF TableOk

LEMMA TimePassesFlow ==
  ASSUME AccountsInv, TimePasses PROVE FlowInv'
<1>1. /\ Tick /\ UNCHANGED <<users, edited, signup, recovery, minted, password>>
      /\ reset' = [j \in Recovery!Tokens |->
                     [reset[j] EXCEPT !.ttl = IF @ > 0 THEN @ - 1 ELSE 0]]
  BY RecoveryCalls DEF TimePasses, Recovery!TimePasses, signupVars
<1>2. IInv' /\ UNCHANGED call
  BY <1>1, TickInv, Flow DEF Tick
<1>3. /\ reset \in [Recovery!Tokens -> Recovery!Token] /\ minted \in 0 .. MaxResetTokens
  BY Flow DEF TableOk
<1>4. \A j \in Recovery!Tokens :
        LET d == IF reset[j].ttl > 0 THEN reset[j].ttl - 1 ELSE 0
        IN  [reset[j] EXCEPT !.ttl = d] \in Recovery!Token
  BY <1>3, AccountsAssumption DEF Recovery!Token
<1>5. /\ reset' \in [Recovery!Tokens -> Recovery!Token]
      /\ \A j \in 1 .. minted : reset'[j].phone = reset[j].phone
  BY <1>1, <1>3, <1>4, AccountsAssumption DEF Recovery!Tokens, Recovery!Token
<1>6. ASSUME NEW q \in Phones PROVE throttle'[q].n <= throttle[q].n
  <2>1. throttle[q].n \in Nat
    BY Flow DEF IInv, CacheInv
  <2> QED
    BY <1>1, <2>1, AgedEntries, Flow
<1>7. ASSUME NEW k \in Keys PROVE otp'[k].ttl = otp[k].ttl \/ otp[k].ttl > 0
  <2>1. otp[k].ttl \in Nat /\ otp'[k].ttl \in Nat
    BY <1>2, Flow DEF IInv, CacheInv
  <2>2. otp'[k].ttl > 0 => otp[k].ttl > 1
    BY <1>1, AgedEntries, Flow
  <2> QED
    BY <2>1, <2>2
<1>8. \A q \in Phones : /\ SignUp!HasRow(q)' <=> SignUp!HasRow(q)
                        /\ SignUp!Verified(q)' <=> SignUp!Verified(q)
  BY <1>1 DEF SignUp!HasRow, SignUp!Verified
<1>9. edited \subseteq edited' /\ edited' \subseteq Phones
  BY <1>1, Flow DEF TableOk
<1> QED
  BY <1>1, <1>2, <1>5, <1>6, <1>7, <1>8, <1>9, OutsideFlow, Flow DEF TableOk

----------------------------------------------------------------------------
(* To the cache, every step is one of Otp, or the death of a call.         *)

LEMMA DeathKeepsSerial ==
  ASSUME OneWorker, SerialInv, NEW w \in Workers, call' = [call EXCEPT ![w] = Idle],
         UNCHANGED <<cacheVars, historyVars>>
  PROVE  SerialInv'
<1>1. IInv /\ CallInv
  BY DEF SerialInv, IInv
<1>2. IInv'
  BY <1>1, IdleIsGood, ReplaceIsGood, CallOnlyInv
<1>3. call'[w].pc = "idle"
  BY <1>1, EndCall
<1>4. CallOk(call[w])'
  BY <1>3 DEF CallOk, VerifyOk, RequestOk
<1> QED
  BY <1>2, <1>4, ReadKeepsSerial

LEMMA SignUpKeepsSerial ==
  ASSUME OneWorker, AccountsInv, NEW w \in Workers, SignUpStep(w) PROVE SerialInv'
<1>1. SerialInv /\ SignupShape(signup[w])
  BY Flow, Worker
<1>2. CASE SignUp!Die(w)
  <2>1. call' = [call EXCEPT ![w] = Idle] /\ UNCHANGED <<cacheVars, historyVars>>
    BY <1>2, SignUpCalls
    DEF SignUp!Die, SignUp!cacheVars, SignUp!historyVars, cacheVars, historyVars
  <2> QED
    BY <1>1, <2>1, DeathKeepsSerial
<1>3. CASE ~ SignUp!Die(w)
  <2>1. CASE SignUp!SendRegistrationOtp(w)
    <3>1. SignUp!Key(signup[w].phone) \in Keys
      BY <1>1, <2>1, KeysOfPhones DEF SignupShape, SignUp!SendRegistrationOtp
    <3> QED
      BY <1>1, <2>1, <3>1, SignUpCalls, NextSerial DEF SignUp!SendRegistrationOtp, Next
  <2>2. CASE SignUp!VerifyCode(w)
    <3>1. SignUp!Key(signup[w].phone) \in Keys /\ signup[w].code \in Codes
      BY <1>1, <2>2, KeysOfPhones DEF SignupShape, SignUp!VerifyCode, SignUp!ActivateSteps
    <3> QED
      BY <1>1, <2>2, <3>1, SignUpCalls, NextSerial DEF SignUp!VerifyCode, Next
  <2>3. CASE SignUp!RegisterReturns(w) \/ SignUp!VerifyReturns(w)
    BY <1>1, <2>3, SignUpCalls, NextSerial DEF SignUp!RegisterReturns, SignUp!VerifyReturns, Next
  <2>4. CASE SignUp!OtpStep(w)
    BY <1>1, <2>4, SignUpRequests, SignUpVerifies, NextSerial DEF SignUp!OtpStep, Next
  <2>5. CASE UNCHANGED SignUp!vars
    BY <1>1, <2>5, NextSerial
    DEF SignUp!vars, SignUp!cacheVars, SignUp!historyVars, vars, cacheVars, historyVars
  <2> QED
    BY <1>3, <2>1, <2>2, <2>3, <2>4, <2>5
    DEF SignUpStep, SignUp!Register, SignUp!VerifyOtpRequest, SignUp!RegisterStep,
        SignUp!ActivateStep, SignUp!Respond, SignUp!ValidateUsername, SignUp!ValidatePhoneNumber,
        SignUp!CheckThrottle, SignUp!ValidateEmail, SignUp!UserExists, SignUp!Validate,
        SignUp!UpdateOrCreate, SignUp!UpsertFails, SignUp!SavePassword, SignUp!Activate
<1> QED
  BY <1>2, <1>3

LEMMA RecoveryKeepsSerial ==
  ASSUME OneWorker, AccountsInv, NEW w \in Workers, RecoveryStep(w) PROVE SerialInv'
<1>1. SerialInv /\ RecoveryShape(recovery[w])
  BY Flow, Worker
<1>2. CASE Recovery!Die(w)
  <2>1. call' = [call EXCEPT ![w] = Idle] /\ UNCHANGED <<cacheVars, historyVars>>
    BY <1>2, RecoveryCalls
    DEF Recovery!Die, Recovery!cacheVars, Recovery!historyVars, cacheVars, historyVars
  <2> QED
    BY <1>1, <2>1, DeathKeepsSerial
<1>3. CASE ~ Recovery!Die(w)
  <2>1. CASE Recovery!SendPasswordResetOtp(w)
    <3>1. Recovery!Key(recovery[w].phone) \in Keys
      BY <1>1, <2>1, KeysOfPhones DEF RecoveryShape, Recovery!SendPasswordResetOtp
    <3> QED
      BY <1>1, <2>1, <3>1, RecoveryCalls, NextSerial DEF Recovery!SendPasswordResetOtp, Next
  <2>2. CASE Recovery!VerifyFindsUser(w)
    <3>1. Recovery!Key(recovery[w].phone) \in Keys /\ recovery[w].code \in Codes
      BY <1>1, <2>2, KeysOfPhones DEF RecoveryShape, Recovery!VerifyFindsUser
    <3> QED
      BY <1>1, <2>2, <3>1, RecoveryCalls, NextSerial DEF Recovery!VerifyFindsUser, Next
  <2>3. CASE Recovery!RequestReturns(w) \/ Recovery!CodeRefused(w) \/ Recovery!MintResetToken(w)
    BY <1>1, <2>3, RecoveryCalls, NextSerial
    DEF Recovery!RequestReturns, Recovery!CodeRefused, Recovery!MintResetToken, Next
  <2>4. CASE Recovery!OtpStep(w)
    BY <1>1, <2>4, RecoveryRequests, RecoveryVerifies, NextSerial DEF Recovery!OtpStep, Next
  <2>5. CASE UNCHANGED Recovery!vars
    BY <1>1, <2>5, NextSerial
    DEF Recovery!vars, Recovery!cacheVars, Recovery!historyVars, vars, cacheVars, historyVars
  <2> QED
    BY <1>3, <2>1, <2>2, <2>3, <2>4, <2>5
    DEF RecoveryStep, RecoverySaves, Recovery!ForgotPasswordRequest, Recovery!ForgotPasswordVerify,
        Recovery!ForgotPasswordConfirm, Recovery!RequestHandler, Recovery!VerifyHandler,
        Recovery!IgnoreRequest, Recovery!VerifyFindsNobody,
        Recovery!ValidateResetToken, Recovery!ResetTokenRefused, Recovery!SavePassword,
        Recovery!Respond
<1> QED
  BY <1>2, <1>3

LEMMA InitAccountsInv == AccountsInit => AccountsInv
<1> SUFFICES ASSUME AccountsInit PROVE AccountsInv
  OBVIOUS
<1>1. SerialInv
  BY SignUpCalls, InitSerial DEF AccountsInit, SignUp!RegInit
<1>2. /\ Init /\ users = [p \in Phones |-> NoRow] /\ signup = [w \in Workers |-> SignUp!NoTask]
      /\ recovery = [w \in Workers |-> Recovery!NoTask] /\ password = [p \in Phones |-> 0]
      /\ reset = [j \in Recovery!Tokens |-> Recovery!Blank] /\ minted = 0 /\ edited = {}
  BY SignUpCalls DEF AccountsInit, SignUp!RegInit
<1>3. Recovery!Blank \in Recovery!Token
  BY AccountsAssumption DEF Recovery!Blank, Recovery!Token
<1>4. TableOk
  BY <1>2, <1>3, AccountsAssumption DEF TableOk
<1>5. PurposesOk
  <2>1. \A k \in Keys : ~ (otp[k].ttl > 0)
    BY <1>2 DEF Init, NoOtp
  <2> QED
    BY <1>2, <2>1, KeysOfPhones DEF PurposesOk, NoCodeOnceVerified,
        ResetIsForVerified, SignUp!Verified, SignUp!HasRow
<1>6. ASSUME NEW w \in Workers PROVE WorkerOk(w)
  <2>1. PICK t, r, c : t = signup[w] /\ r = recovery[w] /\ c = call[w]
    OBVIOUS
  <2>2. t = SignUp!NoTask /\ r = Recovery!NoTask /\ c.pc = "idle"
    BY <1>2, <2>1 DEF Init, Idle, CallAt
  <2>3. CallerOk(t, r, c) /\ AnswerOk(t, r, c)
    BY <2>2, NoCallWaitedFor, IdleHandlers
  <2> QED
    BY <2>1, <2>2, <2>3, IdleSignupIsOk, IdleRecoveryIsOk DEF WorkerOk, OneFlow
<1> QED
  BY <1>1, <1>2, <1>4, <1>5, <1>6, IdleHandlers DEF AccountsInv, FlowInv

LEMMA NextAccountsInv ==
  ASSUME OneWorker PROVE AccountsInv /\ [AccountsNext]_accountVars => AccountsInv'
<1> SUFFICES ASSUME AccountsInv, [AccountsNext]_accountVars PROVE SerialInv' /\ FlowInv'
  BY DEF AccountsInv
<1>1. ASSUME NEW w \in Workers, SignUpStep(w) PROVE SerialInv' /\ FlowInv'
  BY <1>1, SignUpKeepsSerial, SignUpStepFlow
<1>2. ASSUME NEW w \in Workers, RecoveryStep(w) PROVE SerialInv' /\ FlowInv'
  BY <1>2, RecoveryKeepsSerial, RecoveryStepFlow
<1>3. CASE \E p \in Known, active, verified \in BOOLEAN : SaveUserForm(p, active, verified)
  <2>1. UNCHANGED vars
    BY <1>3 DEF SaveUserForm
  <2> QED
    BY <1>3, <2>1, SaveUserFormFlow, NextSerial, Flow
<1>4. CASE \E p \in Known : ChangePassword(p)
  <2>1. UNCHANGED vars
    BY <1>4 DEF ChangePassword, Recovery!ChangePassword, Recovery!vars, Recovery!cacheVars,
        Recovery!historyVars, vars, cacheVars, historyVars
  <2> QED
    BY <1>4, <2>1, ChangePasswordFlow, NextSerial, Flow
<1>5. CASE TimePasses
  <2>1. Tick
    BY <1>5, RecoveryCalls DEF TimePasses, Recovery!TimePasses
  <2> QED
    BY <1>5, <2>1, TimePassesFlow, NextSerial, Flow DEF Next
<1>6. CASE UNCHANGED accountVars
  <2>1. /\ UNCHANGED <<vars, users, signup, recovery, call, minted, otp, throttle, reset, password>>
        /\ UNCHANGED edited
    BY <1>6 DEF accountVars, signupVars, recoveryVars, vars, cacheVars
  <2>2. SerialInv'
    BY <2>1, NextSerial, Flow
  <2>3. \A q \in Phones : /\ SignUp!HasRow(q)' <=> SignUp!HasRow(q)
                          /\ SignUp!Verified(q)' <=> SignUp!Verified(q)
    BY <2>1 DEF SignUp!HasRow, SignUp!Verified
  <2>4. \A q \in Phones : throttle[q].n \in Nat
    BY Flow DEF IInv, CacheInv
  <2>5. \A q \in Phones : throttle'[q].n <= throttle[q].n
    BY <2>1, <2>4
  <2>6. IInv'
    BY <2>2 DEF SerialInv
  <2>7. edited \subseteq edited' /\ edited' \subseteq Phones
    BY <2>1, Flow DEF TableOk
  <2> QED
    BY <2>1, <2>2, <2>3, <2>5, <2>6, <2>7, OutsideFlow, Flow DEF TableOk
<1> QED
  BY <1>1, <1>2, <1>3, <1>4, <1>5, <1>6 DEF AccountsNext

----------------------------------------------------------------------------
(* What follows.                                                           *)

\* The two flows keep the table, the cache and their own state well formed, and
\* a worker is in one of them at a time.
THEOREM AccountsTypeCorrect == ASSUME OneWorker PROVE AccountsSpec => []AccountsTypeOK
<1>1. AccountsInv => AccountsTypeOK
  <2> SUFFICES ASSUME AccountsInv PROVE AccountsTypeOK
    OBVIOUS
  <2>1. TypeOK
    BY Flow DEF IInv, CacheInv, CallInv, GoodCall, TypeOK
  <2>2. SignUp!TypeOK
    BY <2>1, Zenon DEF TypeOK, CallType, RequestSteps, VerifySteps, Results, Keys, NoKey,
        SignUp!TypeOK, SignUp!CallType, SignUp!RequestSteps, SignUp!VerifySteps, SignUp!Results,
        SignUp!Keys, SignUp!NoKey
  <2>3. \A w \in Workers :
          /\ signup[w].at \in {"idle"} \cup SignUp!RegisterSteps \cup SignUp!ActivateSteps
                               \cup SignUp!Outcomes
          /\ signup[w].at # "idle" => signup[w].phone \in Phones
          /\ signup[w].at \in SignUp!RegisterSteps => signup[w].form \in Forms
          /\ signup[w].at \in SignUp!ActivateSteps => signup[w].code \in Codes
    BY Worker DEF SignupShape, SignupTask
  <2>4. SignUp!RegTypeOK
    BY <2>2, <2>3, Flow DEF SignUp!RegTypeOK, TableOk
  <2> QED
    BY <2>4, Worker, Flow DEF AccountsTypeOK, TableOk, OneFlow
<1> QED
  BY InitAccountsInv, NextAccountsInv, <1>1, PTL DEF AccountsSpec

\* A verified number has no sign-up code left, whatever its forgotten password
\* requested meanwhile: no code lifts a block of the staff.
THEOREM VerifiedHasNoCode == ASSUME OneWorker PROVE AccountsSpec => []NoCodeOnceVerified
<1>1. AccountsInv => NoCodeOnceVerified
  BY Flow
<1> QED
  BY InitAccountsInv, NextAccountsInv, <1>1, PTL DEF AccountsSpec

\* Reset codes and reset tokens are of verified numbers only.
THEOREM OnlyVerifiedReset == ASSUME OneWorker PROVE AccountsSpec => []ResetIsForVerified
<1>1. AccountsInv => ResetIsForVerified
  BY Flow
<1> QED
  BY InitAccountsInv, NextAccountsInv, <1>1, PTL DEF AccountsSpec

\* What otp.py promises of calls that do not overlap it keeps for both of its
\* callers at once, with the throttle they share: codes are accepted once, ...
THEOREM AccountsCodesAreSingleUse == ASSUME OneWorker PROVE AccountsSpec => []SingleUse
<1>1. AccountsInv => SingleUse
  BY Flow DEF SerialInv, KeyOk, SingleUse
<1> QED
  BY InitAccountsInv, NextAccountsInv, <1>1, PTL DEF AccountsSpec

\* ... guessed at no more often than the limit, ...
THEOREM AccountsGuessesAreCapped == ASSUME OneWorker PROVE AccountsSpec => []AttemptCap
<1>1. AccountsInv => AttemptCap
  BY Flow DEF SerialInv, KeyOk, AttemptCap
<1> QED
  BY InitAccountsInv, NextAccountsInv, <1>1, PTL DEF AccountsSpec

\* ... granted to a number no more often than the limit, both purposes together, ...
THEOREM AccountsSendsAreCapped == ASSUME OneWorker PROVE AccountsSpec => []SendCap
<1>1. AccountsInv => SendCap
  <2> SUFFICES ASSUME AccountsInv, NEW p \in Phones PROVE grants[p] <= THROTTLE_MAX_REQUESTS
    BY DEF SendCap
  <2>1. PhoneOk(p) /\ grants[p] \in Nat /\ throttle[p].n \in Nat
    BY Flow DEF SerialInv, IInv, CacheInv
  <2> QED
    BY <2>1, LimitsAssumption DEF PhoneOk
<1> QED
  BY InitAccountsInv, NextAccountsInv, <1>1, PTL DEF AccountsSpec

\* ... and texted only when they are stored, with all their guesses.
THEOREM AccountsTextsAreFresh == ASSUME OneWorker PROVE AccountsSpec => []TextedCodeIsFresh
<1>1. AccountsInv => TextedCodeIsFresh
  BY Flow DEF SerialInv, CallOk, RequestOk, TextedCodeIsFresh
<1> QED
  BY InitAccountsInv, NextAccountsInv, <1>1, PTL DEF AccountsSpec

----------------------------------------------------------------------------
(* What a step may not do.                                                 *)

\* Which steps of sign-up answer 201, answer 500 to a form that was validated,
\* or touch the table.
LEMMA SignUpSteps ==
  ASSUME AccountsInv, NEW w \in Workers, SignUpStep(w)
  PROVE  /\ signup[w].at = "sending" /\ signup'[w].at = "created" => SignUp!RegisterReturns(w)
         /\ signup[w].at = "upsert" /\ signup'[w].at = "failed" => SignUp!UpsertFails(w)
         /\ users' # users =>
               SignUp!UpdateOrCreate(w) \/ SignUp!SavePassword(w) \/ SignUp!Activate(w)
<1>1. signup \in [Workers -> SignupTask]
  BY Flow
<1>2. CASE \/ SignUp!Die(w) \/ SignUp!OtpStep(w)
           \/ SignUp!UpdateOrCreate(w) \/ SignUp!SavePassword(w) \/ SignUp!Activate(w)
  BY <1>1, <1>2, IdleHandlers DEF SignUp!Die, SignUp!OtpStep, SignUp!UpdateOrCreate,
      SignUp!SavePassword, SignUp!Activate, SignUp!Move, SignupTask
<1>3. CASE ~ (\/ SignUp!Die(w) \/ SignUp!OtpStep(w)
              \/ SignUp!UpdateOrCreate(w) \/ SignUp!SavePassword(w) \/ SignUp!Activate(w))
  BY <1>3, SignUpDoes
  DEF SignUp!Register, SignUp!VerifyOtpRequest, SignUp!NoTask, SignUp!TaskAt,
      SignUp!RegisterStep, SignUp!ActivateStep, SignUp!Respond, SignUp!Outcomes,
      SignUp!ValidateUsername, SignUp!ValidatePhoneNumber, SignUp!CheckThrottle,
      SignUp!ValidateEmail, SignUp!UserExists, SignUp!Validate,
      SignUp!UpsertFails, SignUp!SendRegistrationOtp, SignUp!RegisterReturns, SignUp!VerifyCode,
      SignUp!VerifyReturns
<1> QED
  BY <1>2, <1>3

\* The steps outside the two flows, and those of the other one.
LEMMA OthersKeepSignup ==
  ASSUME [AccountsNext]_accountVars, \A w \in Workers : ~ SignUpStep(w)
  PROVE  signup' = signup
  BY DEF AccountsNext, RecoveryStep, SaveUserForm, ChangePassword, TimePasses, accountVars,
      signupVars, recoveryVars

LEMMA SignUpLeavesVerified ==
  ASSUME AccountsInv, NEW w \in Workers, SignUpStep(w),
         NEW p \in Phones \ edited, SignUp!Verified(p)
  PROVE  users'[p] = users[p]
<1>1. RowOk(signup[w]) /\ FormOk(signup[w]) /\ users \in [Phones -> SignUp!Row \cup {NoRow}]
  BY Worker, Flow DEF TableOk
<1>2. CASE UNCHANGED users
  BY <1>2
<1>3. CASE SignUp!UpdateOrCreate(w) \/ SignUp!SavePassword(w) \/ SignUp!Activate(w)
  <2>1. p # signup[w].phone
    BY <1>1, <1>3 DEF RowOk, SignUp!UpdateOrCreate, SignUp!SavePassword, SignUp!Activate
  <2> QED
    BY <1>1, <1>3, <2>1 DEF SignUp!UpdateOrCreate, SignUp!SavePassword, SignUp!Activate
<1> QED
  BY <1>2, <1>3, SignUpSteps

\* No step of a sign-up, of a new form or of a code that is left, writes the row of a
\* number that is verified: whatever password a recovery or its owner saved into it
\* meanwhile, and whatever block the staff set, stays.
THEOREM SignUpsSpareVerifiedRows == ASSUME OneWorker PROVE AccountsSpec => SignUpsSpareVerified
<1>1. AccountsInv /\ [AccountsNext]_accountVars =>
        [\A p \in Phones \ edited :
            SignUp!Verified(p) /\ signup' # signup => users'[p] = users[p]]_accountVars
  <2> SUFFICES ASSUME AccountsInv, [AccountsNext]_accountVars,
                      NEW p \in Phones \ edited, SignUp!Verified(p), signup' # signup
               PROVE  users'[p] = users[p]
    OBVIOUS
  <2> QED
    BY SignUpLeavesVerified, OthersKeepSignup
<1> QED
  BY InitAccountsInv, NextAccountsInv, <1>1, PTL DEF AccountsSpec, SignUpsSpareVerified

\* Every 201 stands for a code that was granted.
THEOREM CreatedIsGranted == ASSUME OneWorker PROVE AccountsSpec => CreatedMeansGranted
<1>1. AccountsInv /\ [AccountsNext]_accountVars =>
        [\A w \in Workers : signup[w].at = "sending" /\ signup'[w].at = "created"
            => call[w].result = "granted"]_accountVars
  <2> SUFFICES ASSUME AccountsInv, [AccountsNext]_accountVars,
                      NEW w \in Workers, signup[w].at = "sending", signup'[w].at = "created"
               PROVE  call[w].result = "granted"
    OBVIOUS
  <2>1. SignUpStep(w)
    BY OthersKeepSignup DEF OneWorker
  <2>2. SignUp!RegisterReturns(w)
    BY <2>1, SignUpSteps
  <2>3. call[w].pc = "returned" /\ call[w].result # "error"
    <3>1. signup \in [Workers -> SignupTask]
      BY Flow
    <3> QED
      BY <2>2, <3>1, SignUpCalls DEF SignUp!RegisterReturns, Return, SignUp!Move, SignupTask
  <2> QED
    BY <2>3, Worker DEF AnswerOk
<1> QED
  BY InitAccountsInv, NextAccountsInv, <1>1, PTL DEF AccountsSpec, CreatedMeansGranted

\* The one form that passes every validator and fails at the table is one whose
\* email stands on a row that is still to be verified, or was until the staff vouched
\* for it.
THEOREM OnlyDraftEmailFails == ASSUME OneWorker PROVE AccountsSpec => FailsOnDraftEmail
<1>1. AccountsInv /\ [AccountsNext]_accountVars =>
        [\A w \in Workers : signup[w].at = "upsert" /\ signup'[w].at = "failed"
            => \E q \in Phones \ {signup[w].phone} :
                  /\ SignUp!HasRow(q) /\ (q \in edited \/ ~ users[q].verified)
                  /\ users[q].email = signup[w].form.email]_accountVars
  <2> SUFFICES ASSUME AccountsInv, [AccountsNext]_accountVars,
                      NEW w \in Workers, signup[w].at = "upsert", signup'[w].at = "failed"
               PROVE  \E q \in Phones \ {signup[w].phone} :
                         /\ SignUp!HasRow(q) /\ (q \in edited \/ ~ users[q].verified)
                         /\ users[q].email = signup[w].form.email
    OBVIOUS
  <2>1. SignUpStep(w)
    BY OthersKeepSignup DEF OneWorker
  <2>2. SignUp!Conflicts(signup[w].phone, signup[w].form)
    BY <2>1, SignUpSteps DEF SignUp!UpsertFails
  <2>3. FormOk(signup[w])
    BY Worker
  <2> QED
    BY <2>2, <2>3 DEF FormOk, SignUp!Conflicts, SignUp!UsernameFree, SignUp!Verified
<1> QED
  BY InitAccountsInv, NextAccountsInv, <1>1, PTL DEF AccountsSpec, FailsOnDraftEmail
=============================================================================
