------------------------- MODULE RegistrationProofs -------------------------
(***************************************************************************)
(* For any workers, numbers, forms, codes and limits: Registration keeps   *)
(* its type invariant, and no account can be used that has no password.    *)
(*                                                                         *)
(* A row that has a password keeps one for good.  Before it has one,       *)
(* nobody asks for a code for its number, so there is none to store, none  *)
(* to compare and none to activate the row with.                           *)
(***************************************************************************)
EXTENDS Registration, OtpProofs

HasPassword(p) == HasRow(p) /\ users[p].password # NoPassword

Task == [at : {"idle"} \cup RegisterSteps \cup ActivateSteps \cup Outcomes,
         phone : Phones \cup {NoKey}, form : Forms \cup {NoForm}, code : Codes \cup {NoCode}]

\* What a handler carries from one step to the next.
WellFormed(t) ==
    /\ t \in Task
    /\ t.at # "idle" => t.phone \in Phones
    /\ t.at \in RegisterSteps => t.form \in Forms
    /\ t.at \in ActivateSteps => t.code \in Codes

GoodTask(t) ==
    /\ WellFormed(t)
    /\ t.at \in {"password", "verify", "verifying"} => HasRow(t.phone)
    /\ t.at \in {"send", "sending", "activate"} => HasPassword(t.phone)

TaskInv == task \in [Workers -> Task] /\ \A w \in Workers : GoodTask(task[w])

\* A call of otp.py belongs to a handler that waits for it; one that compared a
\* code did so for a row with a password.
GoodCaller(t, c) ==
    /\ c.pc # "idle" => t.at \in {"sending", "verifying"} /\ c.key = Key(t.phone)
    /\ c.pc \in RequestSteps => t.at = "sending"
    /\ t.at = "verifying" /\ Compared(c) => HasPassword(t.phone)

CallerInv == \A w \in Workers : GoodCaller(task[w], call[w])

CodeInv == \A p \in Phones : otp[Key(p)].ttl > 0 => HasPassword(p)

RowInv == users \in [Phones -> Row \cup {NoRow}] /\ ActiveHasPassword

HandlerInv == RowInv /\ TaskInv /\ CallerInv /\ CodeInv

RegInv == IInv /\ HandlerInv

----------------------------------------------------------------------------
(* Numbers and rows.                                                       *)

LEMMA KeyOfPhone == \A p \in Phones : Key(p) \in Keys
  BY RegisterPurpose DEF Key, Keys

LEMMA KeysDiffer == \A p, q \in Phones : Key(p) = Key(q) => p = q
  BY DEF Key

\* No row goes away, and no password does.
RowsStay == \A p \in Phones : /\ HasRow(p) => HasRow(p)'
                              /\ HasPassword(p) => HasPassword(p)'

LEMMA SameRowsStay == ASSUME UNCHANGED users PROVE RowsStay
  BY DEF RowsStay, HasRow, HasPassword

LEMMA GoodTaskStays ==
  ASSUME RowsStay, NEW t, GoodTask(t) PROVE GoodTask(t)'
<1>1. WellFormed(t)'
  BY DEF GoodTask, WellFormed
<1>2. t.at # "idle" => t.phone \in Phones
  BY DEF GoodTask, WellFormed
<1> QED
  BY <1>1, <1>2 DEF GoodTask, RowsStay

LEMMA GoodCallerStays ==
  ASSUME RowsStay, NEW t, GoodTask(t), NEW c, GoodCaller(t, c) PROVE GoodCaller(t, c)'
<1>1. t.at # "idle" => t.phone \in Phones
  BY DEF GoodTask, WellFormed
<1> QED
  BY <1>1 DEF GoodCaller, RowsStay, Key, Compared

----------------------------------------------------------------------------
(* One handler moves, and the others are as good as before.                *)

LEMMA ReplaceTask ==
  ASSUME HandlerInv, RowsStay, NEW w \in Workers, NEW t, GoodTask(t)',
         NEW c, call'[w] = c, GoodCaller(t, c)', task' = [task EXCEPT ![w] = t],
         \A v \in Workers \ {w} : CallStays(v)
  PROVE  TaskInv' /\ CallerInv'
<1> USE DEF HandlerInv
<1>1. task \in [Workers -> Task]
  BY DEF TaskInv
<1>2. task' \in [Workers -> Task]
  BY <1>1 DEF GoodTask, WellFormed, Task
<1>3. ASSUME NEW v \in Workers PROVE GoodTask(task[v])' /\ GoodCaller(task[v], call[v])'
  <2>1. CASE v = w
    <3>1. task'[v] = t /\ call'[v] = c
      BY <1>1, <2>1
    <3>2. GoodTask(task[v])'
      BY <3>1 DEF GoodTask, WellFormed
    <3>3. GoodCaller(task[v], call[v])'
      BY <3>1 DEF GoodCaller, Compared
    <3> QED
      BY <3>2, <3>3
  <2>2. CASE v # w
    <3>1. /\ GoodTask(task[v]) /\ GoodCaller(task[v], call[v])
          /\ task'[v] = task[v] /\ CallStays(v)
      BY <1>1, <2>2 DEF TaskInv, CallerInv
    <3>2. task[v].at # "idle" => task[v].phone \in Phones
      BY <3>1 DEF GoodTask, WellFormed
    <3>3. GoodTask(task[v])'
      BY <3>1, <3>2 DEF GoodTask, WellFormed, RowsStay
    <3>4. GoodCaller(task[v], call[v])'
      BY <3>1, <3>2 DEF GoodCaller, CallStays, Compared, RowsStay, Key
    <3> QED
      BY <3>3, <3>4
  <2> QED
    BY <2>1, <2>2
<1> QED
  BY <1>2, <1>3 DEF TaskInv, CallerInv

\* Most steps leave the rows and the stored codes as they are.
LEMMA MoveOnly ==
  ASSUME HandlerInv, UNCHANGED <<users, otp>>, NEW w \in Workers, NEW t, GoodTask(t),
         NEW c, call'[w] = c, GoodCaller(t, c), task' = [task EXCEPT ![w] = t],
         \A v \in Workers \ {w} : CallStays(v)
  PROVE  HandlerInv'
<1>1. RowsStay
  BY SameRowsStay
<1>2. GoodTask(t)' /\ GoodCaller(t, c)'
  BY DEF GoodTask, WellFormed, GoodCaller, HasRow, HasPassword, Key, Compared
<1>3. RowInv' /\ CodeInv'
  BY DEF HandlerInv, RowInv, ActiveHasPassword, CodeInv, HasRow, HasPassword, Key
<1> QED
  BY <1>1, <1>2, <1>3, ReplaceTask DEF HandlerInv

\* Handlers that are not in a call of otp.py stay out of it.
LEMMA NoCallUnderWay ==
  ASSUME HandlerInv, NEW w \in Workers, task[w].at \notin {"sending", "verifying"},
         UNCHANGED call
  PROVE  call'[w].pc = "idle" /\ \A v \in Workers \ {w} : CallStays(v)
  BY DEF HandlerInv, CallerInv, GoodCaller, CallStays

LEMMA IdleCallIsGood ==
  ASSUME NEW t, t.at # "verifying", NEW c, c.pc = "idle" PROVE GoodCaller(t, c)
  BY DEF GoodCaller, RequestSteps

LEMMA NoTaskIsGood == GoodTask(NoTask) /\ NoTask.at # "verifying"
  BY DEF GoodTask, WellFormed, NoTask, TaskAt, Task, RegisterSteps, ActivateSteps, Outcomes

LEMMA TaskOf ==
  ASSUME HandlerInv, NEW w \in Workers
  PROVE  task[w] \in Task /\ GoodTask(task[w]) /\ WellFormed(task[w])
  BY DEF HandlerInv, TaskInv, GoodTask

\* Going on to a step that asks nothing of the row.
LEMMA MoveOn ==
  ASSUME HandlerInv, UNCHANGED <<users, otp>>, NEW w \in Workers, NEW step,
         Move(w, step), call'[w].pc = "idle",
         \A v \in Workers \ {w} : CallStays(v),
         \/ step \in Outcomes /\ task[w].at # "idle"
         \/ step \in RegisterSteps \ {"password", "send", "sending"} /\ task[w].at \in RegisterSteps
         \/ step = "verify" /\ task[w].at \in ActivateSteps /\ HasRow(task[w].phone)
         \/ step = "activate" /\ task[w].at \in ActivateSteps /\ HasPassword(task[w].phone)
  PROVE  HandlerInv'
<1> DEFINE t == [task[w] EXCEPT !.at = step]
<1>1. t \in Task /\ t.at = step /\ t.phone = task[w].phone
      /\ t.form = task[w].form /\ t.code = task[w].code
  BY TaskOf DEF Task, Outcomes, RegisterSteps, ActivateSteps
<1>2. task' = [task EXCEPT ![w] = t]
  BY DEF Move
<1> HIDE DEF t
<1>3. GoodTask(t) /\ t.at # "verifying"
  BY <1>1, TaskOf DEF GoodTask, WellFormed, Outcomes, RegisterSteps, ActivateSteps
<1> QED
  BY <1>2, <1>3, IdleCallIsGood, MoveOnly

----------------------------------------------------------------------------
(* Requests, and steps that only look.                                     *)

LEMMA RequestInv ==
  ASSUME RegInv, NEW w \in Workers, NEW p \in Phones,
         \/ \E f \in Forms : Register(w, p, f)
         \/ \E c \in Codes : VerifyOtpRequest(w, p, c)
  PROVE  HandlerInv'
<1> USE DEF RegInv
<1>1. task[w].at = "idle" /\ UNCHANGED <<call, users, otp>>
  BY DEF Register, VerifyOtpRequest, NoTask, TaskAt, vars, cacheVars
<1>2. PICK t : /\ task' = [task EXCEPT ![w] = t] /\ GoodTask(t) /\ t.at # "verifying"
  <2>1. ASSUME NEW f \in Forms
        PROVE  LET t == TaskAt("username", p, f, NoCode)
               IN  GoodTask(t) /\ t.at # "verifying"
    BY DEF GoodTask, WellFormed, TaskAt, Task, RegisterSteps, ActivateSteps
  <2>2. ASSUME NEW c \in Codes
        PROVE  LET t == TaskAt("exists", p, NoForm, c)
               IN  GoodTask(t) /\ t.at # "verifying"
    BY DEF GoodTask, WellFormed, TaskAt, Task, RegisterSteps, ActivateSteps
  <2>3. CASE \E f \in Forms : Register(w, p, f)
    BY <2>1, <2>3 DEF Register
  <2>4. CASE \E c \in Codes : VerifyOtpRequest(w, p, c)
    BY <2>2, <2>4 DEF VerifyOtpRequest
  <2> QED
    BY <2>3, <2>4
<1> QED
  BY <1>1, <1>2, NoCallUnderWay, IdleCallIsGood, MoveOnly

LEMMA ValidateInv ==
  ASSUME RegInv, NEW w \in Workers, NEW step, NEW next, NEW passes,
         Validate(w, step, next, passes),
         step \notin {"idle", "sending", "verifying"},
         passes =>
            \/ /\ step \in RegisterSteps
               /\ next \in RegisterSteps \ {"password", "send", "sending"}
            \/ step \in ActivateSteps /\ next = "verify" /\ HasRow(task[w].phone)
  PROVE  HandlerInv'
<1>1. task[w].at = step /\ UNCHANGED <<call, users, otp>>
  BY DEF Validate, vars, cacheVars
<1>2. call'[w].pc = "idle" /\ \A v \in Workers \ {w} : CallStays(v)
  BY <1>1, NoCallUnderWay DEF RegInv
<1>3. CASE passes
  <2>1. Move(w, next)
    BY <1>3 DEF Validate
  <2> QED
    BY <1>1, <1>2, <1>3, <2>1, MoveOn DEF RegInv
<1>4. CASE ~ passes
  <2>1. Move(w, "rejected")
    BY <1>4 DEF Validate
  <2> QED
    BY <1>1, <1>2, <2>1, MoveOn DEF RegInv, Outcomes
<1> QED
  BY <1>3, <1>4

----------------------------------------------------------------------------
(* Writes to the row.                                                      *)

LEMMA WriteRow ==
  ASSUME RegInv, UNCHANGED vars, NEW w \in Workers, task[w].at \notin {"sending", "verifying"},
         NEW p \in Phones, NEW row \in Row, users' = [users EXCEPT ![p] = row],
         HasPassword(p) \/ row.active => row.password # NoPassword,
         NEW t, WellFormed(t), t.phone = p, task' = [task EXCEPT ![w] = t],
         \/ t.at \in {"password", "activated"}
         \/ t.at = "send" /\ row.password # NoPassword
  PROVE  HandlerInv'
<1> USE DEF RegInv, HandlerInv
<1>1. /\ users'[p] = row /\ \A q \in Phones \ {p} : users'[q] = users[q]
      /\ users' \in [Phones -> Row \cup {NoRow}]
  BY DEF RowInv
<1>2. RowsStay /\ HasRow(p)' /\ (row.password # NoPassword => HasPassword(p)')
  BY <1>1, NoRowAssumption DEF RowsStay, HasRow, HasPassword
<1>3. RowInv'
  BY <1>1 DEF RowInv, ActiveHasPassword, HasRow
<1>4. CodeInv'
  BY <1>2 DEF CodeInv, RowsStay, vars, cacheVars, Key
<1>5. GoodTask(t)'
  BY <1>2 DEF GoodTask, WellFormed
<1>6. call'[w].pc = "idle" /\ \A v \in Workers \ {w} : CallStays(v)
  BY NoCallUnderWay DEF vars
<1>7. PICK c : c = call'[w]
  OBVIOUS
<1>8. GoodCaller(t, c)'
  BY <1>6, <1>7 DEF GoodCaller, RequestSteps
<1> QED
  BY <1>2, <1>3, <1>4, <1>5, <1>6, <1>7, <1>8, ReplaceTask

LEMMA UpdateOrCreateInv ==
  ASSUME RegInv, NEW w \in Workers, UpdateOrCreate(w) PROVE HandlerInv'
<1> DEFINE p == task[w].phone
           f == task[w].form
           row == Upserted(p, f)
           t == [task[w] EXCEPT !.at = "password"]
<1>1. task[w] \in Task /\ task[w].at = "upsert" /\ p \in Phones /\ f \in Forms
  BY TaskOf DEF RegInv, UpdateOrCreate, WellFormed, RegisterSteps
<1>2. users' = [users EXCEPT ![p] = row] /\ UNCHANGED vars /\ task' = [task EXCEPT ![w] = t]
  BY DEF UpdateOrCreate, Move
<1>3. /\ row \in Row /\ ~ row.active
      /\ row.password = IF HasRow(p) THEN users[p].password ELSE NoPassword
  BY <1>1 DEF Upserted, Row, RegInv, HandlerInv, RowInv, HasRow
<1>4. HasPassword(p) => row.password # NoPassword
  BY <1>3 DEF HasPassword
<1>5. WellFormed(t) /\ t.phone = p /\ t.at = "password"
  BY <1>1 DEF WellFormed, Task, RegisterSteps, ActivateSteps
<1> HIDE DEF p, row, t
<1> QED
  BY <1>1, <1>2, <1>3, <1>4, <1>5, WriteRow

LEMMA SavePasswordInv ==
  ASSUME RegInv, NEW w \in Workers, SavePassword(w) PROVE HandlerInv'
<1> DEFINE p == task[w].phone
           f == task[w].form
           row == [users[p] EXCEPT !.password = f.password]
           t == [task[w] EXCEPT !.at = "send"]
<1>1. /\ task[w] \in Task /\ task[w].at = "password" /\ p \in Phones /\ f \in Forms
      /\ users[p] \in Row
  BY TaskOf DEF RegInv, HandlerInv, RowInv, SavePassword, GoodTask, WellFormed, RegisterSteps, HasRow
<1>2. users' = [users EXCEPT ![p] = row] /\ UNCHANGED vars /\ task' = [task EXCEPT ![w] = t]
  BY DEF SavePassword, Move
<1>3. row \in Row /\ row.password # NoPassword
  BY <1>1, FormsAssumption DEF Row
<1>4. WellFormed(t) /\ t.phone = p /\ t.at = "send"
  BY <1>1 DEF WellFormed, Task, RegisterSteps, ActivateSteps
<1> HIDE DEF p, row, t
<1> QED
  BY <1>1, <1>2, <1>3, <1>4, WriteRow

LEMMA ActivateInv ==
  ASSUME RegInv, NEW w \in Workers, Activate(w) PROVE HandlerInv'
<1> DEFINE p == task[w].phone
           row == [users[p] EXCEPT !.verified = TRUE, !.active = TRUE]
           t == [task[w] EXCEPT !.at = "activated"]
<1>1. /\ task[w] \in Task /\ task[w].at = "activate" /\ p \in Phones
      /\ users[p] \in Row /\ users[p].password # NoPassword
  BY TaskOf DEF RegInv, HandlerInv, RowInv, Activate, GoodTask, WellFormed,
     HasRow, HasPassword
<1>2. users' = [users EXCEPT ![p] = row] /\ UNCHANGED vars /\ task' = [task EXCEPT ![w] = t]
  BY <1>1 DEF Activate, Move, RegInv, HandlerInv, RowInv
<1>3. row \in Row /\ row.password # NoPassword
  BY <1>1 DEF Row
<1>4. WellFormed(t) /\ t.phone = p /\ t.at = "activated"
  BY <1>1 DEF WellFormed, Task, Outcomes, RegisterSteps, ActivateSteps
<1> HIDE DEF p, row, t
<1> QED
  BY <1>1, <1>2, <1>3, <1>4, WriteRow

----------------------------------------------------------------------------
(* Calls of otp.py.                                                        *)

LEMMA CallsInv ==
  ASSUME RegInv, NEW w \in Workers, SendRegistrationOtp(w) \/ VerifyCode(w)
  PROVE  HandlerInv'
<1> USE DEF RegInv
<1>1. UNCHANGED <<users, otp>>
  BY DEF SendRegistrationOtp, VerifyCode, CallRequest, CallVerify, cacheVars
<1>2. CASE SendRegistrationOtp(w)
  <2> DEFINE t == [task[w] EXCEPT !.at = "sending"]
             c == CallAt("get_count", Key(task[w].phone), NoCode)
  <2>1. /\ task[w].at = "send" /\ task' = [task EXCEPT ![w] = t]
        /\ call' = [call EXCEPT ![w] = c]
    BY <1>2 DEF SendRegistrationOtp, CallRequest, Move
  <2>2. GoodTask(t) /\ t.at = "sending" /\ t.phone = task[w].phone
    BY <2>1, TaskOf DEF GoodTask, WellFormed, Task, RegisterSteps, ActivateSteps
  <2>3. GoodCaller(t, c)
    BY <2>2 DEF GoodCaller, CallAt
  <2> HIDE DEF t, c
  <2> QED
    BY <1>1, <2>1, <2>2, <2>3, CallsOfOthersStay, MoveOnly DEF IInv
<1>3. CASE VerifyCode(w)
  <2> DEFINE t == [task[w] EXCEPT !.at = "verifying"]
             c == CallAt("get_attempts", Key(task[w].phone), task[w].code)
  <2>1. /\ task[w].at = "verify" /\ task' = [task EXCEPT ![w] = t]
        /\ call' = [call EXCEPT ![w] = c]
    BY <1>3 DEF VerifyCode, CallVerify, Move
  <2>2. GoodTask(t) /\ t.at = "verifying" /\ t.phone = task[w].phone
    BY <2>1, TaskOf DEF GoodTask, WellFormed, Task, RegisterSteps, ActivateSteps
  <2>3. GoodCaller(t, c)
    BY <2>2 DEF GoodCaller, CallAt, Compared, RequestSteps
  <2> HIDE DEF t, c
  <2> QED
    BY <1>1, <2>1, <2>2, <2>3, CallsOfOthersStay, MoveOnly DEF IInv
<1> QED
  BY <1>2, <1>3

LEMMA ReturnsInv ==
  ASSUME RegInv, NEW w \in Workers, RegisterReturns(w) \/ VerifyReturns(w)
  PROVE  HandlerInv'
<1>1. /\ call' = [call EXCEPT ![w] = Idle] /\ UNCHANGED <<users, otp>>
      /\ task[w].at # "idle"
  BY DEF RegisterReturns, VerifyReturns, Return, cacheVars
<1>2. call'[w].pc = "idle" /\ \A v \in Workers \ {w} : CallStays(v)
  BY <1>1, EndCall DEF RegInv, IInv
<1>3. CASE \E step \in Outcomes : Move(w, step)
  BY <1>1, <1>2, <1>3, MoveOn DEF RegInv
<1>4. CASE Move(w, "activate") /\ VerifyReturns(w) /\ call[w].result = "accepted"
  <2>1. task[w].at = "verifying" /\ HasPassword(task[w].phone)
    BY <1>4 DEF VerifyReturns, RegInv, HandlerInv, CallerInv, GoodCaller, Compared
  <2> QED
    BY <1>1, <1>2, <1>4, <2>1, MoveOn DEF RegInv, ActivateSteps
<1> QED
  BY <1>3, <1>4 DEF RegisterReturns, VerifyReturns, Outcomes

\* Only a handler that asked on behalf of a row with a password stores a code,
\* and only a stored code is compared.
LEMMA OtpStepInv ==
  ASSUME RegInv, NEW w \in Workers, OtpStep(w) PROVE HandlerInv'
<1> USE DEF RegInv, HandlerInv
<1>1. /\ RequestStep(w) \/ VerifyStep(w)
      /\ UNCHANGED <<users, task>> /\ IInv /\ CallInv
  BY DEF OtpStep, IInv
<1>2. /\ GoodTask(task[w]) /\ GoodCaller(task[w], call[w])
      /\ call[w].pc # "idle" /\ task[w].at \in {"sending", "verifying"}
      /\ task[w].phone \in Phones /\ call[w].key = Key(task[w].phone)
  BY <1>1, OtpStepRuns DEF TaskInv, CallerInv, GoodCaller, GoodTask, WellFormed
<1>3. RowInv' /\ TaskInv'
  BY <1>1 DEF RowInv, ActiveHasPassword, HasRow, TaskInv, GoodTask, WellFormed, HasPassword
<1>4. CodeInv'
  <2> SUFFICES ASSUME NEW p \in Phones, otp'[Key(p)].ttl > 0 PROVE HasPassword(p)'
    BY DEF CodeInv, Key
  <2>1. CASE otp[Key(p)].ttl > 0
    BY <1>1, <2>1 DEF CodeInv, HasPassword, HasRow
  <2>2. CASE call[w].key = Key(p) /\ call[w].pc \in RequestSteps
    <3>1. task[w].phone = p /\ task[w].at = "sending"
      BY <1>2, <2>2, KeysDiffer DEF GoodCaller
    <3> QED
      BY <1>1, <1>2, <3>1 DEF GoodTask, HasPassword, HasRow
  <2> QED
    BY <1>1, <2>1, <2>2, KeyOfPhone, OnlyRequestsStore
<1>5. CallerInv'
  <2> SUFFICES ASSUME NEW v \in Workers PROVE GoodCaller(task[v], call[v])'
    BY DEF CallerInv
  <2>1. CASE v # w
    <3>1. CallStays(v) /\ GoodCaller(task[v], call[v])
      BY <1>1, <2>1, OtpStepKeepsCalls DEF CallerInv
    <3> QED
      BY <1>1, <3>1 DEF CallStays, GoodCaller, Compared, Key, HasPassword, HasRow
  <2>2. CASE v = w
    <3>1. /\ call'[w].key = call[w].key
          /\ call'[w].pc \in RequestSteps => call[w].pc \in RequestSteps
      BY <1>1, OtpStepKeepsSide
    <3>2. ASSUME task[w].at = "verifying", Compared(call'[w]) PROVE HasPassword(task[w].phone)
      <4>1. CASE Compared(call[w])
        BY <1>2, <3>2, <4>1 DEF GoodCaller
      <4>2. CASE ~ Compared(call[w])
        BY <1>1, <1>2, <3>2, <4>2, ComparesLiveCode DEF CodeInv
      <4> QED
        BY <4>1, <4>2
    <3> QED
      BY <1>1, <1>2, <2>2, <3>1, <3>2 DEF GoodCaller, Compared, Key, HasPassword, HasRow
  <2> QED
    BY <2>1, <2>2
<1> QED
  BY <1>3, <1>4, <1>5

LEMMA RespondOrDieInv ==
  ASSUME RegInv, NEW w \in Workers, Respond(w) \/ Die(w) PROVE HandlerInv'
<1>1. task' = [task EXCEPT ![w] = NoTask] /\ UNCHANGED <<users, otp>>
  BY DEF Respond, Die, vars, cacheVars
<1>2. call'[w].pc = "idle" /\ \A v \in Workers \ {w} : CallStays(v)
  <2>1. CASE Respond(w)
    BY <2>1, NoCallUnderWay DEF Respond, vars, Outcomes, RegInv
  <2>2. CASE Die(w)
    BY <2>2, EndCall DEF Die, RegInv, IInv
  <2> QED
    BY <2>1, <2>2
<1> QED
  BY <1>1, <1>2, NoTaskIsGood, IdleCallIsGood, MoveOnly DEF RegInv

LEMMA TimePassesInv == ASSUME RegInv, TimePasses PROVE HandlerInv'
<1> USE DEF RegInv, HandlerInv
<1>1. UNCHANGED <<users, task, call>>
  BY DEF TimePasses, Tick
<1>2. \A k \in Keys : otp'[k].ttl > 0 => otp[k].ttl > 0
  BY DEF TimePasses, Tick, Aged, NoOtp, IInv, CacheInv
<1>3. CodeInv'
  BY <1>1, <1>2, KeyOfPhone DEF CodeInv, HasPassword, HasRow, Key
<1>4. RowInv' /\ TaskInv' /\ CallerInv'
  BY <1>1 DEF RowInv, ActiveHasPassword, TaskInv, GoodTask, WellFormed, CallerInv, GoodCaller,
      Compared, HasPassword, HasRow, Key
<1> QED
  BY <1>3, <1>4

----------------------------------------------------------------------------
(* The invariant is inductive.                                             *)

LEMMA RegInitInv == RegInit => RegInv
<1> SUFFICES ASSUME RegInit PROVE RegInv
  OBVIOUS
<1>1. IInv
  BY InitIInv DEF RegInit
<1>2. RowInv
  BY DEF RegInit, RowInv, ActiveHasPassword, HasRow
<1>3. TaskInv
  BY NoTaskIsGood DEF RegInit, TaskInv, GoodTask, WellFormed
<1>4. CallerInv
  <2>1. Idle.pc = "idle"
    BY DEF Idle, CallAt
  <2> QED
    BY <2>1, NoTaskIsGood, IdleCallIsGood DEF RegInit, Init, CallerInv
<1>5. CodeInv
  BY KeyOfPhone DEF RegInit, Init, CodeInv, NoOtp
<1> QED
  BY <1>1, <1>2, <1>3, <1>4, <1>5 DEF RegInv, HandlerInv

\* To the cache, a handler is somebody who calls otp.py as Next has it.
LEMMA HandlersAreCallers ==
  ASSUME RegInv, [RegNext]_regVars PROVE IInv'
<1>1. ASSUME NEW w \in Workers, Die(w) PROVE IInv'
  BY <1>1, IdleIsGood, ReplaceIsGood, CallOnlyInv DEF Die, RegInv, IInv
<1>2. CASE \A w \in Workers : ~ Die(w)
  <2>1. ASSUME NEW w \in Workers, SendRegistrationOtp(w) PROVE Next
    <3>1. Key(task[w].phone) \in Keys
      BY <2>1, TaskOf, KeyOfPhone DEF RegInv, WellFormed, SendRegistrationOtp
    <3> QED
      BY <2>1, <3>1 DEF SendRegistrationOtp, Next
  <2>2. ASSUME NEW w \in Workers, VerifyCode(w) PROVE Next
    <3>1. Key(task[w].phone) \in Keys /\ task[w].code \in Codes
      BY <2>2, TaskOf, KeyOfPhone DEF RegInv, WellFormed, VerifyCode, ActivateSteps
    <3> QED
      BY <2>2, <3>1 DEF VerifyCode, Next
  <2>3. [Next]_vars
    BY <1>2, <2>1, <2>2
    DEF RegNext, RegisterStep, ActivateStep, OtpStep, TimePasses, Register, VerifyOtpRequest,
        Validate, ValidateUsername, ValidatePhoneNumber, CheckThrottle, ValidateEmail,
        UpdateOrCreate, UpsertFails, SavePassword, RegisterReturns, UserExists,
        VerifyReturns, Activate, Respond, regVars, Next
  <2> QED
    BY <2>3, NextIInv DEF RegInv
<1> QED
  BY <1>1, <1>2

LEMMA RegisterStepInv ==
  ASSUME RegInv, NEW w \in Workers, RegisterStep(w) PROVE HandlerInv'
<1> USE DEF RegisterSteps
<1>1. CASE ValidateUsername(w)
  BY <1>1, ValidateInv DEF ValidateUsername, UsernameFree
<1>2. CASE ValidatePhoneNumber(w)
  BY <1>2, ValidateInv DEF ValidatePhoneNumber
<1>3. CASE CheckThrottle(w)
  BY <1>3, ValidateInv DEF CheckThrottle
<1>4. CASE ValidateEmail(w)
  BY <1>4, ValidateInv DEF ValidateEmail
<1>5. CASE UpsertFails(w)
  <2>1. task[w].at = "upsert" /\ Move(w, "failed") /\ UNCHANGED <<users, otp, call>>
    BY <1>5 DEF UpsertFails, vars, cacheVars
  <2> QED
    BY <2>1, NoCallUnderWay, MoveOn DEF RegInv, Outcomes
<1> QED
  BY <1>1, <1>2, <1>3, <1>4, <1>5, UpdateOrCreateInv, SavePasswordInv, CallsInv, ReturnsInv
  DEF RegisterStep

LEMMA ActivateStepInv ==
  ASSUME RegInv, NEW w \in Workers, ActivateStep(w) PROVE HandlerInv'
<1>1. CASE UserExists(w)
  BY <1>1, ValidateInv DEF UserExists, HasRow, ActivateSteps
<1> QED
  BY <1>1, CallsInv, ReturnsInv, ActivateInv DEF ActivateStep

LEMMA RegNextInv == RegInv /\ [RegNext]_regVars => RegInv'
<1> SUFFICES ASSUME RegInv, [RegNext]_regVars PROVE HandlerInv'
  BY HandlersAreCallers DEF RegInv
<1>1. CASE UNCHANGED regVars
  BY <1>1 DEF regVars, vars, cacheVars, RegInv, HandlerInv, RowInv, ActiveHasPassword, TaskInv,
      GoodTask, WellFormed, CallerInv, GoodCaller, Compared, CodeInv, HasPassword, HasRow, Key
<1> QED
  BY <1>1, RequestInv, RegisterStepInv, ActivateStepInv, OtpStepInv, RespondOrDieInv,
     TimePassesInv DEF RegNext

----------------------------------------------------------------------------

\* Rows, handlers, calls and cache entries are well formed in every reachable
\* state, for all workers, numbers, forms and limits.
THEOREM RegTypeCorrect == RegSpec => []RegTypeOK
<1>1. IInv => TypeOK
  BY DEF IInv, CacheInv, CallInv, GoodCall, TypeOK
<1>2. RegInv => RegTypeOK
  BY <1>1 DEF RegInv, HandlerInv, RowInv, TaskInv, GoodTask, WellFormed, Task, RegTypeOK
<1> QED
  BY RegInitInv, RegNextInv, <1>2, PTL DEF RegSpec

\* Nobody gets an account that can be used and has no password, however many
\* sign-ups race for a number and wherever they die.
THEOREM ActiveUsersHavePassword == RegSpec => []ActiveHasPassword
<1>1. RegInv => ActiveHasPassword
  BY DEF RegInv, HandlerInv, RowInv
<1> QED
  BY RegInitInv, RegNextInv, <1>1, PTL DEF RegSpec
=============================================================================
