------------------------ MODULE PasswordResetProofs ------------------------
(***************************************************************************)
(* For any workers, numbers, codes, limits and bounds: PasswordReset keeps *)
(* its type invariant, every new password voids the reset tokens that go   *)
(* back to a code compared before it, and a spent token is refused.        *)
(*                                                                         *)
(* Passwords of a number are counted, so "before" is "less than": a token  *)
(* was signed with a password no newer than the one its code was compared  *)
(* under, and neither is newer than the stored one.  If the signature is   *)
(* that of the stored password, all three are the same.                    *)
(*                                                                         *)
(* With finitely many workers, no token is spent more often than there are *)
(* workers: the saves done and the saves to come are counted together.     *)
(***************************************************************************)
EXTENDS PasswordReset, OtpProofs, FiniteSetTheorems

\* What a handler carries from one step to the next.
GoodTask(t) ==
    /\ t \in Task
    /\ t.at # "idle" => t.phone \in Phones
    /\ t.at = "verify" => t.code \in Codes
    /\ t.at \in {"confirm", "save"} =>
          t.token \in 1 .. minted /\ reset[t.token].phone = t.phone

TaskInv == task \in [Workers -> Task] /\ \A w \in Workers : GoodTask(task[w])

\* A call of otp.py belongs to a handler that waits for it.  The row was read
\* before the code was compared, and both before now.
GoodCaller(t, c) ==
    /\ c.pc # "idle" => t.at \in {"sending", "verifying"}
    /\ t.at = "verifying" =>
          /\ t.seen <= password[t.phone]
          /\ Compared(c) => t.seen <= t.epoch /\ t.epoch <= password[t.phone]

CallerInv == \A w \in Workers : GoodCaller(task[w], call[w])

\* So it is with the tokens, and one that was spent was signed with a password
\* that is gone.
TokenInv ==
    /\ minted \in 0 .. MaxResetTokens
    /\ reset \in [Tokens -> Token]
    /\ spent \in [Tokens -> Nat]
    /\ \A j \in Tokens :
        IF j <= minted
          THEN /\ reset[j].phone \in Phones
               /\ reset[j].sig <= reset[j].epoch
               /\ reset[j].epoch <= password[reset[j].phone]
               /\ spent[j] > 0 => reset[j].sig < password[reset[j].phone]
          ELSE reset[j] = Blank /\ spent[j] = 0

RowInv ==
    /\ account \in [Phones -> {"none", "blocked", "active"}]
    /\ password \in [Phones -> Nat \ {0}]

\* All of it but what OtpProofs says of the cache.
HandlerInv == RowInv /\ TaskInv /\ CallerInv /\ TokenInv

ResetInv == IInv /\ HandlerInv

----------------------------------------------------------------------------
(* Handlers that change their own task and nothing that is stored.         *)

StoredStays == UNCHANGED <<account, password, reset, minted, spent>>

LEMMA ReplaceTask ==
  ASSUME HandlerInv, StoredStays, NEW w \in Workers, NEW t, GoodTask(t),
         GoodCaller(t, call'[w]), task' = [task EXCEPT ![w] = t],
         \A v \in Workers \ {w} : CallStays(v)
  PROVE  HandlerInv'
<1>1. RowInv' /\ TokenInv'
  BY DEF HandlerInv, StoredStays, RowInv, TokenInv
<1>2. TaskInv'
  BY DEF HandlerInv, StoredStays, TaskInv, GoodTask
<1>3. CallerInv'
  <2> SUFFICES ASSUME NEW v \in Workers PROVE GoodCaller(task[v], call[v])'
    BY DEF CallerInv
  <2>1. CASE v = w
    BY <2>1 DEF GoodCaller, HandlerInv, TaskInv, StoredStays, Compared
  <2>2. CASE v # w
    BY <2>2 DEF GoodCaller, HandlerInv, TaskInv, CallerInv, StoredStays, CallStays, Compared
  <2> QED
    BY <2>1, <2>2
<1> QED
  BY <1>1, <1>2, <1>3 DEF HandlerInv

\* Going on to a step that carries neither a token nor an epoch.
LEMMA MoveOn ==
  ASSUME HandlerInv, StoredStays, NEW w \in Workers, task[w].at # "idle",
         NEW step \in {"request", "sending", "ok", "rejected", "failed"}, Move(w, step),
         step = "sending" \/ call'[w].pc = "idle",
         \A v \in Workers \ {w} : CallStays(v)
  PROVE  HandlerInv'
<1> DEFINE t == [task[w] EXCEPT !.at = step]
<1>1. GoodTask(task[w])
  BY DEF HandlerInv, TaskInv
<1>2. GoodTask(t) /\ GoodCaller(t, call'[w])
  BY <1>1 DEF GoodTask, GoodCaller, Task, ResetSteps, Outcomes
<1>3. task' = [task EXCEPT ![w] = t]
  BY DEF Move
<1> HIDE DEF t
<1> QED
  BY <1>2, <1>3, ReplaceTask

LEMMA NoTaskIsGood == GoodTask(NoTask) /\ \A c : c.pc = "idle" => GoodCaller(NoTask, c)
  BY DEF GoodTask, GoodCaller, NoTask, TaskAt, Task, ResetSteps, NoToken

\* No handler but those two has a call under way.
LEMMA NoCallUnderWay ==
  ASSUME HandlerInv, NEW w \in Workers, task[w].at \notin {"sending", "verifying"},
         UNCHANGED call
  PROVE  call'[w].pc = "idle" /\ \A v \in Workers \ {w} : CallStays(v)
  BY DEF HandlerInv, CallerInv, GoodCaller, CallStays

LEMMA RequestHandlerInv ==
  ASSUME ResetInv, NEW w \in Workers, RequestHandler(w)
  PROVE  HandlerInv'
<1> USE DEF ResetInv, StoredStays
<1>1. CASE IgnoreRequest(w)
  <2>1. task[w].at = "request" /\ UNCHANGED call
    BY <1>1 DEF IgnoreRequest, vars
  <2> QED
    BY <1>1, <2>1, MoveOn, NoCallUnderWay DEF IgnoreRequest
<1>2. CASE SendPasswordResetOtp(w)
  <2>1. PICK c : call' = [call EXCEPT ![w] = c]
    BY <1>2 DEF SendPasswordResetOtp, CallRequest
  <2>2. task[w].at # "idle"
    BY <1>2 DEF SendPasswordResetOtp
  <2> QED
    BY <1>2, <2>1, <2>2, MoveOn, CallsOfOthersStay DEF SendPasswordResetOtp, IInv
<1>3. CASE RequestReturns(w)
  <2>1. call' = [call EXCEPT ![w] = Idle]
    BY <1>3 DEF RequestReturns, Return
  <2>2. task[w].at # "idle"
    BY <1>3 DEF RequestReturns
  <2> QED
    BY <1>3, <2>1, <2>2, MoveOn, EndCall DEF RequestReturns, IInv
<1> QED
  BY <1>1, <1>2, <1>3 DEF RequestHandler

LEMMA VerifyFindsUserInv ==
  ASSUME ResetInv, NEW w \in Workers, VerifyFindsUser(w)
  PROVE  HandlerInv'
<1> DEFINE p == task[w].phone
           t == [task[w] EXCEPT !.at = "verifying", !.seen = password[p]]
           c == CallAt("get_attempts", Key(p), task[w].code)
<1>1. GoodTask(task[w]) /\ task[w].at = "verify"
  BY DEF ResetInv, HandlerInv, TaskInv, VerifyFindsUser
<1>2. password[p] \in Nat
  BY <1>1 DEF ResetInv, HandlerInv, RowInv, GoodTask
<1>3. GoodTask(t)
  BY <1>1, <1>2 DEF GoodTask, Task, ResetSteps
<1>4. call' = [call EXCEPT ![w] = c] /\ task' = [task EXCEPT ![w] = t]
  BY DEF VerifyFindsUser, CallVerify
<1>5. call'[w] = c
  BY <1>4 DEF ResetInv, IInv, CallInv
<1>6. GoodCaller(t, call'[w])
  BY <1>1, <1>2, <1>5 DEF GoodCaller, Compared, CallAt, GoodTask, Task
<1> HIDE DEF t, c
<1> QED
  BY <1>3, <1>4, <1>6, ReplaceTask, CallsOfOthersStay
  DEF ResetInv, IInv, VerifyFindsUser, StoredStays

\* The token takes over what its handler knew.
LEMMA MintResetTokenInv ==
  ASSUME ResetInv, NEW w \in Workers, MintResetToken(w)
  PROVE  HandlerInv'
<1> DEFINE p == task[w].phone
           n == minted + 1
           t == [task[w] EXCEPT !.at = "ok"]
<1> USE DEF ResetInv, HandlerInv
<1>1. /\ GoodTask(task[w]) /\ task[w].at = "verifying" /\ p \in Phones
      /\ GoodCaller(task[w], call[w]) /\ call[w].result = "accepted"
  BY DEF TaskInv, CallerInv, MintResetToken, GoodTask
<1>2. /\ minted \in Nat /\ n \in Tokens /\ minted' = n
      /\ reset' = [reset EXCEPT ![n] = TokenFor(w)]
      /\ UNCHANGED <<account, password, spent>>
      /\ task' = [task EXCEPT ![w] = t]
      /\ call' = [call EXCEPT ![w] = Idle]
  BY ResetAssumption DEF MintResetToken, Return, Move, Tokens, TokenInv
<1>3. RowInv'
  BY <1>2 DEF RowInv
<1>4. /\ TokenFor(w) \in Token /\ TokenFor(w).phone = p
      /\ TokenFor(w).sig <= TokenFor(w).epoch /\ TokenFor(w).epoch <= password[p]
  BY <1>1, ResetAssumption DEF TokenFor, Token, GoodTask, Task, GoodCaller, Compared
<1>5. TokenInv'
  <2> HIDE DEF p, n, t
  <2>1. spent[n] = 0 /\ n \in 0 .. MaxResetTokens
    BY <1>2 DEF TokenInv, n, Tokens
  <2>2. reset' \in [Tokens -> Token]
    BY <1>2, <1>4 DEF TokenInv
  <2>3. ASSUME NEW j \in Tokens, j # n
        PROVE  reset'[j] = reset[j] /\ (j <= n <=> j <= minted)
    BY <1>2, <2>3 DEF TokenInv, n, Tokens
  <2>4. reset'[n] = TokenFor(w)
    BY <1>2 DEF TokenInv
  <2> QED
    BY <1>1, <1>2, <1>4, <2>1, <2>2, <2>3, <2>4 DEF TokenInv, p
<1>6. TaskInv'
  <2>1. ASSUME NEW v \in Workers PROVE GoodTask(task[v])'
    <3>1. GoodTask(task[v]) /\ (task'[v] = t \/ task'[v] = task[v])
      BY <1>2 DEF TaskInv
    <3>2. \A j \in 1 .. minted : j \in 1 .. n /\ reset'[j] = reset[j]
      BY <1>2 DEF TokenInv, Tokens
    <3>3. CASE task'[v] = t
      BY <1>1, <3>3 DEF GoodTask, Task, ResetSteps, Outcomes
    <3>4. CASE task'[v] = task[v]
      <4> HIDE DEF t, n, p
      <4> QED
        BY <1>2, <3>1, <3>2, <3>4 DEF GoodTask
    <3> QED
      BY <3>1, <3>3, <3>4
  <2> QED
    BY <1>2, <2>1 DEF TaskInv, GoodTask
<1>7. CallerInv'
  <2> SUFFICES ASSUME NEW v \in Workers PROVE GoodCaller(task[v], call[v])'
    BY DEF CallerInv
  <2>1. CASE v = w
    <3>1. task'[w].at = "ok"
      BY <1>2 DEF TaskInv, Task
    <3>2. call'[w].pc = "idle"
      BY <1>2, EndCall DEF IInv
    <3> HIDE DEF t, n, p
    <3> QED
      BY <2>1, <3>1, <3>2 DEF GoodCaller
  <2>2. CASE v # w
    BY <1>2, <2>2 DEF GoodCaller, TaskInv, CallerInv, IInv, CallInv
  <2> QED
    BY <2>1, <2>2
<1> QED
  BY <1>3, <1>5, <1>6, <1>7

LEMMA VerifyHandlerInv ==
  ASSUME ResetInv, NEW w \in Workers, VerifyHandler(w)
  PROVE  HandlerInv'
<1> USE DEF ResetInv, StoredStays
<1>1. CASE VerifyFindsNobody(w)
  <2>1. task[w].at = "verify" /\ UNCHANGED call
    BY <1>1 DEF VerifyFindsNobody, vars
  <2> QED
    BY <1>1, <2>1, MoveOn, NoCallUnderWay DEF VerifyFindsNobody
<1>2. CASE CodeRefused(w)
  <2>1. call' = [call EXCEPT ![w] = Idle] /\ task[w].at # "idle"
    BY <1>2 DEF CodeRefused, Return
  <2> QED
    BY <1>2, <2>1, MoveOn, EndCall DEF CodeRefused, IInv
<1> QED
  BY <1>1, <1>2, VerifyFindsUserInv, MintResetTokenInv DEF VerifyHandler

\* A number whose password is replaced keeps the order of CallerInv and TokenInv,
\* since the new password is later than all that was.
LEMMA NewPasswordInv ==
  ASSUME HandlerInv, NEW p \in Phones, password' = [password EXCEPT ![p] = @ + 1],
         UNCHANGED <<account, reset, minted, spent, task, call>>
  PROVE  HandlerInv'
<1>1. \A q \in Phones : /\ password[q] \in Nat \ {0} /\ password'[q] \in Nat \ {0}
                       /\ password[q] <= password'[q]
  BY DEF HandlerInv, RowInv
<1>2. RowInv'
  BY <1>1 DEF HandlerInv, RowInv
<1>3. TaskInv'
  BY DEF HandlerInv, TaskInv, GoodTask
<1>4. CallerInv'
  <2> SUFFICES ASSUME NEW w \in Workers
               PROVE  GoodCaller(task[w], call[w])'
    BY DEF CallerInv
  <2>1. GoodTask(task[w]) /\ GoodCaller(task[w], call[w])
    BY DEF HandlerInv, TaskInv, CallerInv
  <2>2. /\ task[w].at = "verifying" => task[w].phone \in Phones
        /\ task[w].seen \in Nat /\ task[w].epoch \in Nat
    BY <2>1 DEF GoodTask, Task
  <2> QED
    BY <1>1, <2>1, <2>2 DEF GoodCaller, Compared
<1>5. TokenInv'
  <2>1. \A j \in Tokens : reset[j].sig \in Nat /\ reset[j].epoch \in Nat
    BY DEF HandlerInv, TokenInv, Token
  <2> QED
    BY <1>1, <2>1 DEF HandlerInv, TokenInv
<1> QED
  BY <1>2, <1>3, <1>4, <1>5 DEF HandlerInv

\* A token is spent on a password later than the one it was signed with.
LEMMA SavePasswordInv ==
  ASSUME ResetInv, NEW w \in Workers, SavePassword(w)
  PROVE  HandlerInv'
<1> DEFINE p == task[w].phone
           j == task[w].token
           t == [task[w] EXCEPT !.at = "ok"]
<1> USE DEF ResetInv, HandlerInv
<1>1. /\ GoodTask(task[w]) /\ p \in Phones /\ j \in 1 .. minted /\ reset[j].phone = p
  BY DEF TaskInv, SavePassword, GoodTask
<1>2. /\ password' = [password EXCEPT ![p] = @ + 1]
      /\ spent' = [spent EXCEPT ![j] = @ + 1]
      /\ task' = [task EXCEPT ![w] = t]
      /\ UNCHANGED <<account, reset, minted, call>>
  BY DEF SavePassword, Move, vars
<1>3. \A q \in Phones : /\ password[q] \in Nat \ {0} /\ password'[q] \in Nat \ {0}
                       /\ password[q] <= password'[q]
  BY <1>2 DEF RowInv
<1>4. password'[p] = password[p] + 1
  BY <1>1, <1>2 DEF RowInv
<1>5. RowInv'
  BY <1>2, <1>3 DEF RowInv
<1>6. TaskInv'
  <2>1. ASSUME NEW v \in Workers PROVE GoodTask(task[v])'
    <3>1. GoodTask(task[v]) /\ (task'[v] = t \/ task'[v] = task[v])
      BY <1>2 DEF TaskInv
    <3>2. CASE task'[v] = t
      BY <1>1, <1>2, <3>2 DEF GoodTask, Task, ResetSteps, Outcomes
    <3>3. CASE task'[v] = task[v]
      <4> HIDE DEF t, j, p
      <4> QED
        BY <1>2, <3>1, <3>3 DEF GoodTask
    <3> QED
      BY <3>1, <3>2, <3>3
  <2> QED
    BY <1>2, <2>1 DEF TaskInv, GoodTask
<1>7. CallerInv'
  <2> SUFFICES ASSUME NEW v \in Workers PROVE GoodCaller(task[v], call[v])'
    BY DEF CallerInv
  <2>1. GoodTask(task[v]) /\ GoodCaller(task[v], call[v])
    BY DEF TaskInv, CallerInv
  <2>2. /\ task[v].at = "verifying" => task[v].phone \in Phones
        /\ task[v].seen \in Nat /\ task[v].epoch \in Nat
    BY <2>1 DEF GoodTask, Task
  <2>3. CASE v = w
    <3>1. task[w].at = "save" /\ task'[w].at = "ok"
      BY <1>2 DEF SavePassword, TaskInv, Task
    <3> QED
      BY <1>2, <2>1, <2>3, <3>1 DEF GoodCaller
  <2>4. CASE v # w
    <3>1. task'[v] = task[v]
      BY <1>2, <2>4 DEF TaskInv
    <3> HIDE DEF t, j, p
    <3> QED
      BY <1>2, <1>3, <2>1, <2>2, <3>1 DEF GoodCaller, Compared
  <2> QED
    BY <2>3, <2>4
<1>8. TokenInv'
  <2> HIDE DEF t, p
  <2>1. \A i \in Tokens : reset[i].sig \in Nat /\ reset[i].epoch \in Nat
    BY DEF TokenInv, Token
  <2>2. j \in Tokens
    BY <1>1, ResetAssumption DEF TokenInv, Tokens
  <2>3. reset[j].sig < password'[p]
    BY <1>1, <1>3, <1>4, <2>1, <2>2 DEF TokenInv
  <2>4. \A i \in Tokens \ {j} : spent'[i] = spent[i]
    BY <1>2 DEF TokenInv
  <2> HIDE DEF j
  <2>5. spent' \in [Tokens -> Nat]
    BY <1>2, <2>2 DEF TokenInv
  <2>6. ASSUME NEW i \in Tokens, i <= minted
        PROVE  /\ reset[i].epoch <= password'[reset[i].phone]
               /\ spent'[i] > 0 => reset[i].sig < password'[reset[i].phone]
    <3>1. CASE i = j
      BY <1>1, <1>3, <2>1, <2>3, <2>6, <3>1 DEF TokenInv
    <3>2. CASE i # j
      BY <1>3, <2>1, <2>4, <2>6, <3>2 DEF TokenInv
    <3> QED
      BY <3>1, <3>2
  <2>7. ASSUME NEW i \in Tokens, ~ i <= minted PROVE spent'[i] = 0
    <3>1. i # j
      BY <1>1, <2>7 DEF TokenInv, Tokens
    <3> QED
      BY <2>4, <2>7, <3>1 DEF TokenInv
  <2> QED
    BY <1>2, <2>5, <2>6, <2>7 DEF TokenInv
<1> QED
  BY <1>5, <1>6, <1>7, <1>8

LEMMA ConfirmHandlerInv ==
  ASSUME ResetInv, NEW w \in Workers, ConfirmHandler(w)
  PROVE  HandlerInv'
<1> USE DEF ResetInv, StoredStays
<1>1. CASE ValidateResetToken(w)
  <2> DEFINE t == [task[w] EXCEPT !.at = "save"]
  <2>1. GoodTask(task[w]) /\ task[w].at = "confirm"
    BY <1>1 DEF HandlerInv, TaskInv, ValidateResetToken
  <2>3. task' = [task EXCEPT ![w] = t] /\ UNCHANGED call
    BY <1>1 DEF ValidateResetToken, Move, vars
  <2>4. call'[w].pc = "idle" /\ \A v \in Workers \ {w} : CallStays(v)
    BY <2>1, <2>3, NoCallUnderWay
  <2>2. GoodTask(t) /\ GoodCaller(t, call'[w])
    BY <2>1, <2>4 DEF GoodTask, GoodCaller, Task, ResetSteps
  <2> HIDE DEF t
  <2> QED
    BY <1>1, <2>2, <2>3, <2>4, ReplaceTask DEF ValidateResetToken
<1>2. CASE ResetTokenRefused(w)
  <2>1. task[w].at = "confirm" /\ UNCHANGED call
    BY <1>2 DEF ResetTokenRefused, vars
  <2> QED
    BY <1>2, <2>1, MoveOn, NoCallUnderWay DEF ResetTokenRefused
<1> QED
  BY <1>1, <1>2, SavePasswordInv DEF ConfirmHandler

LEMMA NewRequestInv ==
  ASSUME ResetInv, NEW w \in Workers,
         \/ \E p \in Phones : ForgotPasswordRequest(w, p)
         \/ \E p \in Phones, c \in Codes : ForgotPasswordVerify(w, p, c)
         \/ \E j \in 1 .. minted : ForgotPasswordConfirm(w, j)
  PROVE  HandlerInv'
<1> USE DEF ResetInv, StoredStays
<1> DEFINE SomeGoodTask ==
        \E t : /\ GoodTask(t) /\ t.at # "verifying" /\ task' = [task EXCEPT ![w] = t]
<1>1. SomeGoodTask
  <2>1. ASSUME NEW p \in Phones, ForgotPasswordRequest(w, p) PROVE SomeGoodTask
    <3>1. GoodTask(TaskAt("request", p)) /\ TaskAt("request", p).at # "verifying"
      BY DEF GoodTask, TaskAt, Task, ResetSteps, NoToken
    <3> QED
      BY <2>1, <3>1 DEF ForgotPasswordRequest
  <2>2. ASSUME NEW p \in Phones, NEW c \in Codes, ForgotPasswordVerify(w, p, c) PROVE SomeGoodTask
    <3> DEFINE t == [TaskAt("verify", p) EXCEPT !.code = c]
    <3>1. GoodTask(t) /\ t.at # "verifying"
      BY DEF GoodTask, TaskAt, Task, ResetSteps, NoToken
    <3>2. task' = [task EXCEPT ![w] = t]
      BY <2>2 DEF ForgotPasswordVerify
    <3> HIDE DEF t
    <3> QED
      BY <3>1, <3>2
  <2>3. ASSUME NEW j \in 1 .. minted, ForgotPasswordConfirm(w, j) PROVE SomeGoodTask
    <3> DEFINE t == [TaskAt("confirm", reset[j].phone) EXCEPT !.token = j]
    <3>1. j \in Tokens /\ reset[j].phone \in Phones
      BY ResetAssumption DEF HandlerInv, TokenInv, Tokens
    <3>2. GoodTask(t) /\ t.at # "verifying"
      BY <3>1 DEF GoodTask, TaskAt, Task, ResetSteps
    <3>3. task' = [task EXCEPT ![w] = t]
      BY <2>3 DEF ForgotPasswordConfirm
    <3> HIDE DEF t
    <3> QED
      BY <3>2, <3>3
  <2> QED
    BY <2>1, <2>2, <2>3
<1>2. PICK t : GoodTask(t) /\ t.at # "verifying" /\ task' = [task EXCEPT ![w] = t]
  BY <1>1
<1>3. StoredStays /\ UNCHANGED call
  BY DEF ForgotPasswordRequest, ForgotPasswordVerify, ForgotPasswordConfirm, vars
<1> QED
  <2>1. task[w] = NoTask
    BY DEF ForgotPasswordRequest, ForgotPasswordVerify, ForgotPasswordConfirm
  <2>2. call'[w].pc = "idle" /\ \A v \in Workers \ {w} : CallStays(v)
    BY <1>3, <2>1, NoCallUnderWay DEF NoTask, TaskAt
  <2> QED
    BY <1>2, <1>3, <2>2, ReplaceTask DEF GoodCaller

LEMMA RespondOrDieInv ==
  ASSUME ResetInv, NEW w \in Workers, Respond(w) \/ Die(w)
  PROVE  HandlerInv'
<1>1. task' = [task EXCEPT ![w] = NoTask] /\ StoredStays
  BY DEF Respond, Die, StoredStays
<1>2. call'[w].pc = "idle" /\ \A v \in Workers \ {w} : CallStays(v)
  <2>1. CASE Respond(w)
    BY <2>1, NoCallUnderWay DEF Respond, vars, Outcomes, ResetInv
  <2>2. CASE Die(w)
    BY <2>2, EndCall DEF Die, ResetInv, IInv
  <2> QED
    BY <2>1, <2>2
<1> QED
  BY <1>1, <1>2, NoTaskIsGood, ReplaceTask DEF ResetInv

\* The comparison of the code is when the epoch is set.
LEMMA EpochOfOtpStep ==
  ASSUME ResetInv, NEW w \in Workers, OtpStep(w)
  PROVE  HandlerInv'
<1> DEFINE t == [task[w] EXCEPT !.epoch = IF call[w].pc = "get_code"
                                            THEN password[task[w].phone] ELSE @]
<1> USE DEF ResetInv, HandlerInv, StoredStays
<1>1. GoodTask(task[w]) /\ GoodCaller(task[w], call[w]) /\ CallInv
  BY DEF TaskInv, CallerInv, IInv
<1>2. /\ t.at = task[w].at /\ t.phone = task[w].phone /\ t.code = task[w].code
      /\ t.seen = task[w].seen /\ t.token = task[w].token
      /\ t.epoch = IF call[w].pc = "get_code" THEN password[task[w].phone]
                                              ELSE task[w].epoch
  BY <1>1 DEF GoodTask, Task
<1>3. GoodTask(t)
  <2>1. PICK e : t = [task[w] EXCEPT !.epoch = e] /\ t.epoch = e
    BY <1>1, <1>2
  <2>2. e \in Nat
    <3>1. CASE call[w].pc = "get_code"
      BY <1>1, <1>2, <2>1, <3>1 DEF GoodTask, GoodCaller, RowInv
    <3>2. CASE call[w].pc # "get_code"
      BY <1>1, <1>2, <2>1, <3>2 DEF GoodTask, Task
    <3> QED
      BY <3>1, <3>2
  <2> HIDE DEF t
  <2> QED
    BY <1>1, <2>1, <2>2 DEF GoodTask, Task
<1>4. StoredStays /\ task' = [task EXCEPT ![w] = t]
  BY DEF OtpStep
<1> HIDE DEF t
<1>5. call[w].pc # "idle"
  BY OtpStepRuns DEF OtpStep
<1>6. GoodCaller(t, call'[w])
  <2> SUFFICES ASSUME t.at = "verifying", Compared(call'[w])
               PROVE  t.seen <= t.epoch /\ t.epoch <= password[t.phone]
    BY <1>1, <1>2, <1>5 DEF GoodCaller
  <2>1. CASE call[w].pc = "get_code"
    BY <1>1, <1>2, <2>1 DEF GoodCaller, GoodTask, RowInv
  <2>2. CASE call[w].pc # "get_code"
    BY <1>1, <1>2, <2>2, OtpStepCompares DEF GoodCaller, OtpStep
  <2> QED
    BY <2>1, <2>2
<1>7. \A v \in Workers \ {w} : CallStays(v)
  BY <1>1, OtpStepKeepsCalls DEF OtpStep
<1> QED
  BY <1>3, <1>4, <1>6, <1>7, ReplaceTask

LEMMA TimePassesInv == ASSUME ResetInv, TimePasses PROVE HandlerInv'
<1> USE DEF ResetInv, HandlerInv
<1>1. UNCHANGED <<call, account, password, minted, task, spent>>
  BY DEF TimePasses, Tick
<1>2. ASSUME NEW j \in Tokens
      PROVE  /\ reset'[j].phone = reset[j].phone /\ reset'[j].sig = reset[j].sig
             /\ reset'[j].epoch = reset[j].epoch /\ reset'[j] \in Token
             /\ reset[j] = Blank => reset'[j] = Blank
  <2> DEFINE ttl == IF reset[j].ttl > 0 THEN reset[j].ttl - 1 ELSE 0
  <2>1. reset[j] \in Token
    BY DEF TokenInv
  <2>2. ttl \in 0 .. PASSWORD_RESET_TOKEN_LIFETIME
    BY <2>1, ResetAssumption DEF Token
  <2>3. reset'[j] = [reset[j] EXCEPT !.ttl = ttl]
    BY DEF TimePasses
  <2>4. reset[j] = Blank => ttl = 0
    BY DEF Blank
  <2> HIDE DEF ttl
  <2> QED
    BY <2>1, <2>2, <2>3, <2>4 DEF Token, Blank
<1>3. RowInv' /\ CallerInv'
  BY <1>1 DEF RowInv, CallerInv, GoodCaller, Compared
<1>4. TokenInv'
  <2>1. reset' \in [Tokens -> Token]
    BY <1>2 DEF TimePasses
  <2> QED
    BY <1>1, <1>2, <2>1 DEF TokenInv
<1>5. TaskInv'
  <2>1. 1 .. minted \subseteq Tokens
    BY ResetAssumption DEF TokenInv, Tokens
  <2> QED
    BY <1>1, <1>2, <2>1 DEF TaskInv, GoodTask
<1> QED
  BY <1>3, <1>4, <1>5

----------------------------------------------------------------------------
(* The invariant is inductive.                                             *)

LEMMA ResetInitInv == ResetInit => ResetInv
<1> SUFFICES ASSUME ResetInit PROVE ResetInv
  OBVIOUS
<1>1. IInv
  BY InitIInv DEF ResetInit
<1>2. RowInv
  BY DEF ResetInit, RowInv
<1>3. TaskInv
  BY NoTaskIsGood DEF ResetInit, TaskInv, GoodTask
<1>4. CallerInv
  <2>1. Idle.pc = "idle"
    BY DEF Idle, CallAt
  <2> QED
    BY <2>1, NoTaskIsGood DEF ResetInit, Init, CallerInv
<1>5. TokenInv
  <2>1. Blank \in Token
    BY ResetAssumption DEF Blank, Token
  <2> QED
    BY <2>1, ResetAssumption DEF ResetInit, TokenInv, Tokens
<1> QED
  BY <1>1, <1>2, <1>3, <1>4, <1>5 DEF ResetInv, HandlerInv

\* To the cache, a handler is somebody who calls otp.py as Next has it.
LEMMA HandlersAreCallers ==
  ASSUME ResetInv, [ResetNext]_resetVars PROVE IInv'
<1>1. ASSUME NEW w \in Workers, Die(w) PROVE IInv'
  BY <1>1, IdleIsGood, ReplaceIsGood, CallOnlyInv DEF Die, ResetInv, IInv
<1>2. CASE \A w \in Workers : ~ Die(w)
  <2>1. ASSUME NEW w \in Workers, SendPasswordResetOtp(w) PROVE Next
    <3>1. Key(task[w].phone) \in Keys
      BY <2>1, ResetPurpose DEF ResetInv, HandlerInv, TaskInv, GoodTask, Key, Keys, SendPasswordResetOtp
    <3> QED
      BY <2>1, <3>1 DEF SendPasswordResetOtp, Next
  <2>2. ASSUME NEW w \in Workers, VerifyFindsUser(w) PROVE Next
    <3>1. Key(task[w].phone) \in Keys /\ task[w].code \in Codes
      BY <2>2, ResetPurpose DEF ResetInv, HandlerInv, TaskInv, GoodTask, Key, Keys, VerifyFindsUser
    <3> QED
      BY <2>2, <3>1 DEF VerifyFindsUser, Next
  <2>3. [Next]_vars
    BY <1>2, <2>1, <2>2
    DEF ResetNext, RequestHandler, VerifyHandler, ConfirmHandler, OtpStep, TimePasses,
        ForgotPasswordRequest, ForgotPasswordVerify, ForgotPasswordConfirm, IgnoreRequest,
        RequestReturns, VerifyFindsNobody, CodeRefused, MintResetToken, ValidateResetToken,
        ResetTokenRefused, SavePassword, ChangePassword, SetActive, Respond, resetVars, Next
  <2> QED
    BY <2>3, NextIInv DEF ResetInv
<1> QED
  BY <1>1, <1>2

LEMMA ResetNextInv == ResetInv /\ [ResetNext]_resetVars => ResetInv'
<1> SUFFICES ASSUME ResetInv, [ResetNext]_resetVars PROVE HandlerInv'
  BY HandlersAreCallers DEF ResetInv
<1>1. ASSUME NEW p \in Phones, ChangePassword(p) PROVE HandlerInv'
  BY <1>1, NewPasswordInv DEF ChangePassword, ResetInv, vars
<1>2. ASSUME NEW p \in Phones, SetActive(p) PROVE HandlerInv'
  BY <1>2 DEF SetActive, ResetInv, HandlerInv, RowInv, TaskInv, GoodTask, CallerInv,
      GoodCaller, TokenInv, vars
<1>3. CASE UNCHANGED resetVars
  BY <1>3 DEF resetVars, ResetInv, HandlerInv, RowInv, TaskInv, GoodTask, CallerInv,
      GoodCaller, TokenInv, vars
<1> QED
  BY <1>1, <1>2, <1>3, NewRequestInv, RequestHandlerInv, VerifyHandlerInv, ConfirmHandlerInv,
     EpochOfOtpStep, RespondOrDieInv, TimePassesInv DEF ResetNext

----------------------------------------------------------------------------

\* Every handler, call, token and row is well formed in every reachable state,
\* for all sets of workers, numbers and codes and all limits.
THEOREM ResetTypeCorrect == ResetSpec => []ResetTypeOK
<1>1. IInv => TypeOK
  BY DEF IInv, CacheInv, CallInv, GoodCall, TypeOK
<1>2. ResetInv => ResetTypeOK
  BY <1>1 DEF ResetInv, HandlerInv, RowInv, TaskInv, GoodTask, TokenInv, ResetTypeOK
<1> QED
  BY ResetInitInv, ResetNextInv, <1>2, PTL DEF ResetSpec

\* Whatever races, a new password voids the reset tokens that go back to a code
\* compared before it, the ones minted later included.
THEOREM TokensDieWithPassword == ResetSpec => []TokenDiesWithPassword
<1>1. ResetInv => TokenDiesWithPassword
  <2> SUFFICES ASSUME ResetInv, NEW j \in 1 .. minted, MatchesCurrentPassword(j)
               PROVE  reset[j].epoch = password[reset[j].phone]
    BY DEF TokenDiesWithPassword
  <2>1. j \in Tokens
    BY ResetAssumption DEF ResetInv, HandlerInv, TokenInv, Tokens
  <2>2. /\ reset[j] \in Token /\ reset[j].phone \in Phones
        /\ reset[j].sig <= reset[j].epoch /\ reset[j].epoch <= password[reset[j].phone]
    BY <2>1 DEF ResetInv, HandlerInv, TokenInv
  <2> QED
    BY <2>2 DEF MatchesCurrentPassword, Token, ResetInv, HandlerInv, RowInv
<1> QED
  BY ResetInitInv, ResetNextInv, <1>1, PTL DEF ResetSpec

\* Only a check that passes brings a handler to the save, with the token it has.
LEMMA IntoSave ==
  ASSUME ResetInv, [ResetNext]_resetVars, NEW w \in Workers, task'[w].at = "save"
  PROVE  /\ task'[w].token = task[w].token
         /\ \/ task[w].at = "save"
            \/ task[w].at = "confirm" /\ TokenPasses(task[w].token) /\ UNCHANGED spent
<1>1. task \in [Workers -> Task]
  BY DEF ResetInv, HandlerInv, TaskInv
<1>2. CASE \E v \in Workers : ConfirmHandler(v)
  BY <1>1, <1>2 DEF ConfirmHandler, ValidateResetToken, ResetTokenRefused, SavePassword,
      Move, Task
<1>3. CASE \E v \in Workers : OtpStep(v)
  BY <1>1, <1>3 DEF OtpStep, Task
<1>4. CASE \E v \in Workers : RequestHandler(v) \/ VerifyHandler(v)
  BY <1>1, <1>4 DEF RequestHandler, VerifyHandler, IgnoreRequest, SendPasswordResetOtp,
      RequestReturns, VerifyFindsNobody, VerifyFindsUser, CodeRefused, MintResetToken,
      Move, Task
<1>5. CASE \E v \in Workers : Respond(v) \/ Die(v)
  BY <1>1, <1>5 DEF Respond, Die, NoTask, TaskAt
<1>6. CASE \E v \in Workers :
              \/ \E p \in Phones : ForgotPasswordRequest(v, p)
              \/ \E p \in Phones, c \in Codes : ForgotPasswordVerify(v, p, c)
              \/ \E j \in 1 .. minted : ForgotPasswordConfirm(v, j)
  <2>1. PICK v \in Workers : \E t :
          task' = [task EXCEPT ![v] = t] /\ t.at \in {"request", "verify", "confirm"}
    <3>1. ASSUME NEW v \in Workers, NEW p \in Phones, ForgotPasswordRequest(v, p)
          PROVE  \E t : task' = [task EXCEPT ![v] = t] /\ t.at = "request"
      <4>1. TaskAt("request", p).at = "request"
        BY DEF TaskAt
      <4> QED
        BY <3>1, <4>1, Zenon DEF ForgotPasswordRequest
    <3>2. ASSUME NEW v \in Workers, NEW p \in Phones, NEW c \in Codes,
                 ForgotPasswordVerify(v, p, c)
          PROVE  \E t : task' = [task EXCEPT ![v] = t] /\ t.at = "verify"
      <4>1. [TaskAt("verify", p) EXCEPT !.code = c].at = "verify"
        BY DEF TaskAt
      <4> QED
        BY <3>2, <4>1, Zenon DEF ForgotPasswordVerify
    <3>3. ASSUME NEW v \in Workers, NEW j \in 1 .. minted, ForgotPasswordConfirm(v, j)
          PROVE  \E t : task' = [task EXCEPT ![v] = t] /\ t.at = "confirm"
      <4>1. [TaskAt("confirm", reset[j].phone) EXCEPT !.token = j].at = "confirm"
        BY DEF TaskAt
      <4> QED
        BY <3>3, <4>1, Zenon DEF ForgotPasswordConfirm
    <3> QED
      BY <1>6, <3>1, <3>2, <3>3
  <2>2. v # w
    BY <1>1, <2>1
  <2> QED
    BY <1>1, <2>1, <2>2
<1>7. CASE task' = task
  BY <1>1, <1>7
<1>8. CASE TimePasses \/ \E p \in Phones : ChangePassword(p) \/ SetActive(p)
  BY <1>7, <1>8 DEF ChangePassword, SetActive, TimePasses
<1> QED
  BY <1>2, <1>3, <1>4, <1>5, <1>6, <1>7, <1>8 DEF ResetNext, resetVars

\* A token that passes was not spent: a save with it would have voided it.
LEMMA PassesUnspent ==
  ASSUME ResetInv, NEW j \in 1 .. minted, TokenPasses(j)
  PROVE  spent[j] = 0
<1>1. j \in Tokens /\ j <= minted
  BY ResetAssumption DEF ResetInv, HandlerInv, TokenInv, Tokens
<1> QED
  BY <1>1 DEF TokenPasses, MatchesCurrentPassword, ResetInv, HandlerInv, TokenInv, RowInv, Token

\* A confirmation whose check begins after a password was saved with its token
\* is refused.
THEOREM SpentTokensAreRefused == ResetSpec => SpentTokenIsRefused
<1> DEFINE Refused == \A w \in Workers :
        task[w].at = "confirm" /\ task'[w].at = "save" => spent[task[w].token] = 0
<1>1. ResetInv /\ [ResetNext]_resetVars => Refused
  <2> SUFFICES ASSUME ResetInv, [ResetNext]_resetVars, NEW w \in Workers,
                      task[w].at = "confirm", task'[w].at = "save"
               PROVE  spent[task[w].token] = 0
    OBVIOUS
  <2>1. task[w].token \in 1 .. minted
    BY DEF GoodTask, ResetInv, HandlerInv, TaskInv
  <2>2. TokenPasses(task[w].token)
    BY IntoSave
  <2> QED
    BY <2>1, <2>2, PassesUnspent
<1>2. ResetInv /\ [ResetNext]_resetVars => [Refused]_resetVars
  BY <1>1
<1> QED
  BY ResetInitInv, ResetNextInv, <1>2, PTL DEF ResetSpec, SpentTokenIsRefused

----------------------------------------------------------------------------
(* How often a token can be spent: each save takes a worker off those that  *)
(* passed the check, and once one has saved nobody passes it any more.      *)

Savers(j) == {w \in Workers : task[w].at = "save" /\ task[w].token = j}

SpendInv == \A j \in Tokens : spent[j] + Cardinality(Savers(j)) <= Cardinality(Workers)

LEMMA FewSavers ==
  ASSUME IsFiniteSet(Workers), NEW j
  PROVE  /\ IsFiniteSet(Savers(j)) /\ Cardinality(Savers(j)) \in Nat
         /\ Cardinality(Savers(j)) <= Cardinality(Workers)
         /\ Cardinality(Workers) \in Nat
<1>1. Savers(j) \subseteq Workers
  BY DEF Savers
<1> QED
  BY <1>1, FS_Subset, FS_CardinalityType

LEMMA SaveTakesOne ==
  ASSUME IsFiniteSet(Workers), ResetInv, SpendInv, NEW w \in Workers, SavePassword(w)
  PROVE  SpendInv'
<1> SUFFICES ASSUME NEW j \in Tokens
             PROVE  spent'[j] + Cardinality(Savers(j)') <= Cardinality(Workers)
  BY DEF SpendInv
<1>1. /\ task \in [Workers -> Task] /\ spent \in [Tokens -> Nat]
      /\ task[w].token \in Tokens
  BY ResetAssumption
  DEF SavePassword, GoodTask, ResetInv, HandlerInv, TaskInv, TokenInv, Tokens
<1>2. Savers(j)' = Savers(j) \ {w}
  BY <1>1 DEF Savers, SavePassword, Move, Task
<1>3. spent[j] + Cardinality(Savers(j)) <= Cardinality(Workers)
  BY DEF SpendInv
<1>4. CASE j = task[w].token
  <2>1. w \in Savers(j)
    BY <1>4 DEF Savers, SavePassword
  <2>2. Cardinality(Savers(j)') = Cardinality(Savers(j)) - 1
    BY <1>2, <2>1, FewSavers, FS_RemoveElement
  <2>3. spent'[j] = spent[j] + 1
    BY <1>1, <1>4 DEF SavePassword
  <2> QED
    BY <1>1, <1>3, <2>2, <2>3, FewSavers
<1>5. CASE j # task[w].token
  <2>1. Savers(j)' = Savers(j)
    BY <1>2, <1>5 DEF Savers
  <2>2. spent'[j] = spent[j]
    BY <1>1, <1>5 DEF SavePassword
  <2> QED
    BY <1>3, <2>1, <2>2
<1> QED
  BY <1>4, <1>5

LEMMA SpendNextInv ==
  ASSUME IsFiniteSet(Workers), ResetInv, SpendInv, [ResetNext]_resetVars
  PROVE  SpendInv'
<1>1. CASE \E w \in Workers : SavePassword(w)
  BY <1>1, SaveTakesOne
<1>2. CASE ~ \E w \in Workers : SavePassword(w)
  <2>1. UNCHANGED spent
    BY <1>2 DEF ResetNext, ForgotPasswordRequest, ForgotPasswordVerify, ForgotPasswordConfirm,
        RequestHandler, IgnoreRequest, SendPasswordResetOtp, RequestReturns, VerifyHandler,
        VerifyFindsNobody, VerifyFindsUser, CodeRefused, MintResetToken, ConfirmHandler,
        ValidateResetToken, ResetTokenRefused, OtpStep, Respond, Die, ChangePassword,
        SetActive, TimePasses, resetVars
  <2> SUFFICES ASSUME NEW j \in Tokens
               PROVE  spent[j] + Cardinality(Savers(j)') <= Cardinality(Workers)
    BY <2>1 DEF SpendInv
  <2>2. Savers(j)' \subseteq Workers
    BY DEF Savers
  <2>3. CASE Savers(j)' \subseteq Savers(j)
    <3>1. Cardinality(Savers(j)') <= Cardinality(Savers(j)) /\ Cardinality(Savers(j)') \in Nat
      BY <2>3, FewSavers, FS_Subset, FS_CardinalityType
    <3> QED
      BY <3>1, FewSavers DEF SpendInv, ResetInv, HandlerInv, TokenInv
  <2>4. CASE ~ (Savers(j)' \subseteq Savers(j))
    <3>1. PICK w \in Workers : task'[w].at = "save" /\ task'[w].token = j /\ w \notin Savers(j)
      BY <2>4 DEF Savers
    <3>2. task[w].at = "confirm" /\ task[w].token = j /\ TokenPasses(j)
      BY <3>1, IntoSave DEF Savers
    <3>3. j \in 1 .. minted
      BY <3>2 DEF GoodTask, ResetInv, HandlerInv, TaskInv
    <3>4. spent[j] = 0
      BY <3>2, <3>3, PassesUnspent
    <3>5. Cardinality(Savers(j)') <= Cardinality(Workers) /\ Cardinality(Savers(j)') \in Nat
      BY <2>2, FS_Subset, FS_CardinalityType
    <3> QED
      BY <3>4, <3>5
  <2> QED
    BY <2>3, <2>4
<1> QED
  BY <1>1, <1>2

\* Confirmations that race on a token can all be granted, but each worker at
\* most once, however many workers there are.
THEOREM SpendsAreBounded ==
  ASSUME IsFiniteSet(Workers)
  PROVE  ResetSpec => []ConcurrentSpends
<1>1. ResetInit => SpendInv
  <2> SUFFICES ASSUME ResetInit, NEW j \in Tokens
               PROVE  spent[j] + Cardinality(Savers(j)) <= Cardinality(Workers)
    BY DEF SpendInv
  <2>1. spent[j] = 0
    BY DEF ResetInit
  <2> QED
    BY <2>1, FewSavers
<1>2. ResetInv /\ SpendInv /\ [ResetNext]_resetVars => SpendInv'
  BY SpendNextInv
<1>3. ResetInv /\ SpendInv => ConcurrentSpends
  BY FewSavers DEF SpendInv, ConcurrentSpends, ResetInv, HandlerInv, TokenInv
<1> QED
  BY ResetInitInv, ResetNextInv, <1>1, <1>2, <1>3, PTL DEF ResetSpec
=============================================================================
