---------------------------- MODULE OtpProofs ----------------------------
(***************************************************************************)
(* Type correctness of Otp and CountedGuessOutlivesCode, for any workers,  *)
(* numbers, purposes, codes and limits, with and without aborted calls;    *)
(* and AcceptOvershoot and ThrottleOvershoot for any finite number of      *)
(* workers: what was granted and what the calls under way can still be     *)
(* granted are counted together.  The last part is about one worker: what  *)
(* otp.py promises holds when calls do not overlap.                        *)
(***************************************************************************)
EXTENDS Otp, FiniteSetTheorems, TLAPS

\* What holds of the cache by itself ...
CacheInv ==
    /\ otp \in [Keys -> [code : Codes \cup {NoCode}, ttl : 0 .. OTP_TTL_SECONDS]]
    /\ attempts \in [Keys -> [n : 0 .. MAX_VERIFY_ATTEMPTS, ttl : 0 .. OTP_TTL_SECONDS]]
    /\ throttle \in [Phones -> [n : Nat, ttl : 0 .. THROTTLE_WINDOW_SECONDS]]
    /\ uses \in [Keys -> Nat]
    /\ wrong \in [Keys -> Nat]
    /\ grants \in [Phones -> Nat]
    /\ \A k \in Keys : otp[k].ttl = 0 <=> otp[k].code = NoCode
    /\ \A k \in Keys : attempts[k].ttl = 0 <=> attempts[k].n = 0
    /\ \A p \in Phones : throttle[p].ttl = 0 <=> throttle[p].n = 0
    /\ CountedGuessOutlivesCode

\* ... and of one call: a verification that got past the lock carries a count
\* below the cap, so that what RecordMiss writes is at most the cap.
GoodCall(c) ==
    /\ c \in CallType
    /\ c.pc # "idle" => c.key \in Keys
    /\ c.pc \in {"get_code", "miss"} => c.seen < MAX_VERIFY_ATTEMPTS

CallInv ==
    /\ call \in [Workers -> CallType]
    /\ \A w \in Workers : GoodCall(call[w])

IInv == CacheInv /\ CallInv

----------------------------------------------------------------------------
(* Records and keys.                                                       *)

LEMMA PhoneOfKey == \A k \in Keys : PhoneOf(k) \in Phones
  BY DEF Keys, PhoneOf

LEMMA IdleIsGood == GoodCall(Idle)
  BY DEF GoodCall, CallType, Idle, CallAt, Results

\* A worker may be given any good call ...
LEMMA ReplaceIsGood ==
  ASSUME CallInv, NEW w \in Workers, NEW c, GoodCall(c),
         call' = [call EXCEPT ![w] = c]
  PROVE  CallInv'
  BY DEF CallInv, GoodCall

\* ... such as the one that answers, ...
LEMMA AnswerIsGood ==
  ASSUME CallInv, NEW w \in Workers, call[w].pc # "idle", NEW r \in Results,
         Answer(w, r)
  PROVE  CallInv'
<1> DEFINE c == [pc |-> "returned", key |-> call[w].key, code |-> NoCode,
                 seen |-> 0, own |-> FALSE, result |-> r]
<1>1. GoodCall(c)
  BY DEF CallInv, GoodCall, CallType
<1>2. call' = [call EXCEPT ![w] = c]
  BY DEF Answer
<1> HIDE DEF c
<1> QED
  BY <1>1, <1>2, ReplaceIsGood

\* ... or the one that goes on to a step that carries no count.
LEMMA GotoIsGood ==
  ASSUME CallInv, NEW w \in Workers, call[w].pc # "idle",
         NEW step \in (RequestSteps \cup VerifySteps) \ {"get_code", "miss"},
         Goto(w, step)
  PROVE  CallInv'
<1> DEFINE c == [call[w] EXCEPT !.pc = step]
<1>1. /\ call[w] \in CallType
      /\ call[w].key \in Keys
  BY DEF CallInv, GoodCall
<1>2. c \in CallType /\ c.pc = step /\ c.key = call[w].key
  BY <1>1 DEF CallType
<1>3. GoodCall(c)
  BY <1>1, <1>2 DEF GoodCall
<1>4. step # "idle"
  BY DEF RequestSteps, VerifySteps
<1>5. call' = [call EXCEPT ![w] = c]
  BY DEF Goto
<1> QED
  BY <1>3, <1>5, ReplaceIsGood

LEMMA CacheStutters ==
  ASSUME CacheInv, UNCHANGED <<cacheVars, historyVars>>
  PROVE  CacheInv'
  BY DEF CacheInv, cacheVars, historyVars, CountedGuessOutlivesCode
----------------------------------------------------------------------------
(* Init, and one lemma per action that writes the cache.                   *)

LEMMA InitIInv == Init => IInv
<1> SUFFICES ASSUME Init PROVE IInv
  OBVIOUS
<1>1. CacheInv
  BY LimitsAssumption, NoCodeAssumption
  DEF Init, CacheInv, CountedGuessOutlivesCode, NoOtp, NoCount
<1>2. CallInv
  BY IdleIsGood DEF Init, CallInv, GoodCall
<1> QED
  BY <1>1, <1>2 DEF IInv

LEMMA StoreCodeInv ==
  ASSUME IInv, NEW w \in Workers, StoreCode(w)
  PROVE  IInv'
<1> DEFINE k == call[w].key
<1>1. k \in Keys
  BY DEF IInv, CallInv, GoodCall, StoreCode
<1>2. PICK c \in Codes :
        /\ otp' = [otp EXCEPT ![k] = NewEntry(k, c)]
        /\ call' = [v \in Workers |->
              IF v = w THEN [call[w] EXCEPT !.pc = "clear_attempts", !.code = c]
              ELSE IF call[v].key = k THEN [call[v] EXCEPT !.own = FALSE]
              ELSE call[v]]
  BY DEF StoreCode
<1>3. CacheInv'
  <2> HIDE DEF k
  <2>1. /\ uses' = [uses EXCEPT ![k] = 0]
        /\ wrong' = [wrong EXCEPT ![k] = 0]
        /\ UNCHANGED <<attempts, throttle, grants>>
    BY DEF StoreCode, k
  <2> QED
    BY <1>1, <1>2, <2>1, LimitsAssumption, NoCodeAssumption
    DEF NewEntry, IInv, CacheInv, CountedGuessOutlivesCode
<1>4. CallInv'
  <2>1. ASSUME NEW v \in Workers PROVE GoodCall(call'[v])
    <3>1. GoodCall(call[v]) /\ GoodCall(call[w])
      BY DEF IInv, CallInv
    <3>2. CASE v = w
      <4>1. call'[v] = [call[w] EXCEPT !.pc = "clear_attempts", !.code = c]
        BY <1>2, <3>2
      <4> QED
        BY <3>1, <4>1, <1>1 DEF GoodCall, CallType, RequestSteps
    <3>3. CASE v # w /\ call[v].key = k
      <4>1. call'[v] = [call[v] EXCEPT !.own = FALSE]
        BY <1>2, <3>3
      <4> QED
        BY <3>1, <4>1 DEF GoodCall, CallType
    <3>4. CASE v # w /\ call[v].key # k
      BY <1>2, <3>1, <3>4
    <3> QED
      BY <3>2, <3>3, <3>4
  <2> QED
    BY <1>2, <2>1 DEF CallInv, GoodCall
<1> QED
  BY <1>3, <1>4 DEF IInv

LEMMA ClearAttemptsInv ==
  ASSUME IInv, NEW w \in Workers, ClearAttempts(w)
  PROVE  IInv'
<1>1. call[w].key \in Keys
  BY DEF IInv, CallInv, GoodCall, ClearAttempts
<1>2. CacheInv'
  BY <1>1, LimitsAssumption
  DEF ClearAttempts, historyVars, NoCount, IInv, CacheInv, CountedGuessOutlivesCode
<1>3. CallInv'
  BY GotoIsGood DEF ClearAttempts, IInv, RequestSteps
<1> QED
  BY <1>2, <1>3 DEF IInv

LEMMA StartWindowInv ==
  ASSUME IInv, NEW w \in Workers, StartWindow(w)
  PROVE  IInv'
<1>1. PhoneOf(call[w].key) \in Phones
  BY PhoneOfKey DEF IInv, CallInv, GoodCall, StartWindow
<1>2. CacheInv'
  BY <1>1, LimitsAssumption
  DEF StartWindow, IInv, CacheInv, CountedGuessOutlivesCode
<1>3. CallInv'
  BY GotoIsGood DEF StartWindow, IInv, RequestSteps
<1> QED
  BY <1>2, <1>3 DEF IInv

LEMMA CountRequestInv ==
  ASSUME IInv, NEW w \in Workers, CountRequest(w)
  PROVE  IInv'
<1>1. PhoneOf(call[w].key) \in Phones
  BY PhoneOfKey DEF IInv, CallInv, GoodCall, CountRequest
<1>2. CacheInv'
  BY <1>1, LimitsAssumption
  DEF CountRequest, IInv, CacheInv, CountedGuessOutlivesCode
<1>3. CallInv'
  BY GotoIsGood DEF CountRequest, IInv, RequestSteps
<1> QED
  BY <1>2, <1>3 DEF IInv

\* The counter is written with a full life, at least that of any stored code.
LEMMA RecordMissInv ==
  ASSUME IInv, NEW w \in Workers, RecordMiss(w)
  PROVE  IInv'
<1>1. call[w].key \in Keys /\ call[w].seen \in Nat /\ call[w].seen < MAX_VERIFY_ATTEMPTS
  BY DEF IInv, CallInv, GoodCall, CallType, RecordMiss
<1>2. CacheInv'
  <2> DEFINE k == call[w].key
             n == call[w].seen
  <2>1. /\ attempts' = [attempts EXCEPT ![k] = [n |-> n + 1, ttl |-> OTP_TTL_SECONDS]]
        /\ wrong' = [wrong EXCEPT ![k] = IF call[w].own THEN wrong[k] + 1 ELSE wrong[k]]
        /\ UNCHANGED <<otp, throttle, uses, grants>>
    BY DEF RecordMiss, MissEntry
  <2>2. k \in Keys /\ n \in Nat /\ n < MAX_VERIFY_ATTEMPTS
    BY <1>1
  <2>3. wrong' \in [Keys -> Nat] /\ \A j \in Keys \ {k} : wrong'[j] = wrong[j]
    BY <2>1, <2>2 DEF IInv, CacheInv
  <2> HIDE DEF k, n
  <2> QED
    BY <2>1, <2>2, <2>3, LimitsAssumption DEF IInv, CacheInv, CountedGuessOutlivesCode
<1>3. CallInv'
  BY AnswerIsGood DEF RecordMiss, IInv, Results
<1> QED
  BY <1>2, <1>3 DEF IInv

LEMMA DropCodeInv ==
  ASSUME IInv, NEW w \in Workers, DropCode(w)
  PROVE  IInv'
<1>1. call[w].key \in Keys
  BY DEF IInv, CallInv, GoodCall, DropCode
<1>2. CacheInv'
  BY <1>1, LimitsAssumption, NoCodeAssumption
  DEF DropCode, historyVars, NoOtp, IInv, CacheInv, CountedGuessOutlivesCode
<1>3. CallInv'
  BY GotoIsGood DEF DropCode, IInv, VerifySteps
<1> QED
  BY <1>2, <1>3 DEF IInv

LEMMA AcceptInv ==
  ASSUME IInv, NEW w \in Workers, Accept(w)
  PROVE  IInv'
<1>1. call[w].key \in Keys
  BY DEF IInv, CallInv, GoodCall, Accept
<1>2. CacheInv'
  <2> DEFINE k == call[w].key
  <2>1. /\ attempts' = [attempts EXCEPT ![k] = NoCount]
        /\ uses' = [uses EXCEPT ![k] = IF call[w].own THEN uses[k] + 1 ELSE uses[k]]
        /\ UNCHANGED <<otp, throttle, wrong, grants>>
    BY DEF Accept
  <2>2. k \in Keys
    BY <1>1
  <2>3. uses' \in [Keys -> Nat]
    BY <2>1, <2>2 DEF IInv, CacheInv
  <2> HIDE DEF k
  <2> QED
    BY <2>1, <2>2, <2>3, LimitsAssumption
    DEF NoCount, IInv, CacheInv, CountedGuessOutlivesCode
<1>3. CallInv'
  BY AnswerIsGood DEF Accept, IInv, Results
<1> QED
  BY <1>2, <1>3 DEF IInv

\* An entry ages by a second down to zero, and absent entries stay absent.
LEMMA AgedOtp ==
  ASSUME NEW e \in [code : Codes \cup {NoCode}, ttl : 0 .. OTP_TTL_SECONDS],
         e.ttl = 0 <=> e.code = NoCode
  PROVE  /\ Aged(e, NoOtp) \in [code : Codes \cup {NoCode}, ttl : 0 .. OTP_TTL_SECONDS]
         /\ Aged(e, NoOtp).ttl = 0 <=> Aged(e, NoOtp).code = NoCode
         /\ Aged(e, NoOtp).ttl = IF e.ttl > 1 THEN e.ttl - 1 ELSE 0
<1>1. CASE e.ttl > 1
  BY <1>1, LimitsAssumption DEF Aged
<1>2. CASE ~ e.ttl > 1
  BY <1>2, LimitsAssumption DEF Aged, NoOtp
<1> QED
  BY <1>1, <1>2

LEMMA AgedAttempts ==
  ASSUME NEW e \in [n : 0 .. MAX_VERIFY_ATTEMPTS, ttl : 0 .. OTP_TTL_SECONDS],
         e.ttl = 0 <=> e.n = 0
  PROVE  /\ Aged(e, NoCount) \in [n : 0 .. MAX_VERIFY_ATTEMPTS, ttl : 0 .. OTP_TTL_SECONDS]
         /\ Aged(e, NoCount).ttl = 0 <=> Aged(e, NoCount).n = 0
         /\ Aged(e, NoCount).ttl = IF e.ttl > 1 THEN e.ttl - 1 ELSE 0
<1>1. CASE e.ttl > 1
  BY <1>1, LimitsAssumption DEF Aged
<1>2. CASE ~ e.ttl > 1
  BY <1>2, LimitsAssumption DEF Aged, NoCount
<1> QED
  BY <1>1, <1>2

LEMMA AgedThrottle ==
  ASSUME NEW e \in [n : Nat, ttl : 0 .. THROTTLE_WINDOW_SECONDS],
         e.ttl = 0 <=> e.n = 0
  PROVE  /\ Aged(e, NoCount) \in [n : Nat, ttl : 0 .. THROTTLE_WINDOW_SECONDS]
         /\ Aged(e, NoCount).ttl = 0 <=> Aged(e, NoCount).n = 0
         /\ Aged(e, NoCount).ttl = IF e.ttl > 1 THEN e.ttl - 1 ELSE 0
<1>1. CASE e.ttl > 1
  BY <1>1, LimitsAssumption DEF Aged
<1>2. CASE ~ e.ttl > 1
  BY <1>2, LimitsAssumption DEF Aged, NoCount
<1> QED
  BY <1>1, <1>2

LEMMA TickInv == ASSUME IInv, Tick PROVE IInv'
<1>1. CacheInv'
  <2>1. \A k \in Keys :
          /\ otp'[k] = Aged(otp[k], NoOtp)
          /\ attempts'[k] = Aged(attempts[k], NoCount)
    BY DEF Tick
  <2>2. \A p \in Phones : throttle'[p] = Aged(throttle[p], NoCount)
    BY DEF Tick
  <2>3. ASSUME NEW k \in Keys
        PROVE  /\ otp'[k] \in [code : Codes \cup {NoCode}, ttl : 0 .. OTP_TTL_SECONDS]
               /\ attempts'[k] \in [n : 0 .. MAX_VERIFY_ATTEMPTS, ttl : 0 .. OTP_TTL_SECONDS]
               /\ otp'[k].ttl = 0 <=> otp'[k].code = NoCode
               /\ attempts'[k].ttl = 0 <=> attempts'[k].n = 0
               /\ attempts'[k].ttl = IF attempts[k].ttl > 1 THEN attempts[k].ttl - 1 ELSE 0
               /\ otp'[k].ttl = IF otp[k].ttl > 1 THEN otp[k].ttl - 1 ELSE 0
    <3>1. /\ otp[k] \in [code : Codes \cup {NoCode}, ttl : 0 .. OTP_TTL_SECONDS]
          /\ otp[k].ttl = 0 <=> otp[k].code = NoCode
          /\ attempts[k] \in [n : 0 .. MAX_VERIFY_ATTEMPTS, ttl : 0 .. OTP_TTL_SECONDS]
          /\ attempts[k].ttl = 0 <=> attempts[k].n = 0
      BY DEF IInv, CacheInv
    <3>2. /\ otp'[k] \in [code : Codes \cup {NoCode}, ttl : 0 .. OTP_TTL_SECONDS]
          /\ otp'[k].ttl = 0 <=> otp'[k].code = NoCode
          /\ otp'[k].ttl = IF otp[k].ttl > 1 THEN otp[k].ttl - 1 ELSE 0
      BY <2>1, <3>1, AgedOtp
    <3>3. /\ attempts'[k] \in [n : 0 .. MAX_VERIFY_ATTEMPTS, ttl : 0 .. OTP_TTL_SECONDS]
          /\ attempts'[k].ttl = 0 <=> attempts'[k].n = 0
          /\ attempts'[k].ttl = IF attempts[k].ttl > 1 THEN attempts[k].ttl - 1 ELSE 0
      BY <2>1, <3>1, AgedAttempts
    <3> QED
      BY <3>2, <3>3
  <2>4. ASSUME NEW p \in Phones
        PROVE  /\ throttle'[p] \in [n : Nat, ttl : 0 .. THROTTLE_WINDOW_SECONDS]
               /\ throttle'[p].ttl = 0 <=> throttle'[p].n = 0
    <3>1. /\ throttle[p] \in [n : Nat, ttl : 0 .. THROTTLE_WINDOW_SECONDS]
          /\ throttle[p].ttl = 0 <=> throttle[p].n = 0
      BY DEF IInv, CacheInv
    <3> QED
      BY <2>2, <3>1, AgedThrottle
  <2>5. CountedGuessOutlivesCode'
    BY <2>3 DEF IInv, CacheInv, CountedGuessOutlivesCode, Tick
  <2>6. grants' \in [Phones -> Nat] /\ uses' \in [Keys -> Nat] /\ wrong' \in [Keys -> Nat]
    BY DEF Tick, IInv, CacheInv
  <2>7. /\ otp' \in [Keys -> [code : Codes \cup {NoCode}, ttl : 0 .. OTP_TTL_SECONDS]]
        /\ attempts' \in [Keys -> [n : 0 .. MAX_VERIFY_ATTEMPTS, ttl : 0 .. OTP_TTL_SECONDS]]
    BY <2>3 DEF Tick
  <2>8. throttle' \in [Phones -> [n : Nat, ttl : 0 .. THROTTLE_WINDOW_SECONDS]]
    BY <2>4 DEF Tick
  <2> QED
    BY <2>3, <2>4, <2>5, <2>6, <2>7, <2>8 DEF CacheInv
<1>2. CallInv'
  BY DEF Tick, IInv, CallInv, GoodCall
<1> QED
  BY <1>1, <1>2 DEF IInv
----------------------------------------------------------------------------
(* The invariant is inductive.                                             *)

\* Actions that leave the cache alone only have to leave a good call behind.
LEMMA CallOnlyInv ==
  ASSUME IInv, UNCHANGED <<cacheVars, historyVars>>, CallInv'
  PROVE  IInv'
  BY CacheStutters DEF IInv

LEMMA RequestStepInv ==
  ASSUME IInv, NEW w \in Workers, RequestStep(w)
  PROVE  IInv'
<1>1. CASE RefuseRequest(w)
  BY <1>1, AnswerIsGood, CallOnlyInv DEF RefuseRequest, IInv, Results
<1>2. CASE AdmitRequest(w)
  <2> DEFINE c == [call[w] EXCEPT !.pc = "set_code", !.seen = ThrottleCount(w)]
  <2>1. GoodCall(call[w]) /\ call[w].key \in Keys
    BY <1>2 DEF AdmitRequest, IInv, CallInv, GoodCall
  <2>2. ThrottleCount(w) \in Nat
    BY <2>1, PhoneOfKey DEF ThrottleCount, IInv, CacheInv
  <2>3. GoodCall(c)
    BY <2>1, <2>2 DEF GoodCall, CallType, RequestSteps
  <2>4. call' = [call EXCEPT ![w] = c]
    BY <1>2 DEF AdmitRequest
  <2> HIDE DEF c
  <2> QED
    BY <1>2, <2>3, <2>4, ReplaceIsGood, CallOnlyInv DEF AdmitRequest, IInv
<1>3. CASE StoreCode(w)
  BY <1>3, StoreCodeInv
<1>4. CASE ClearAttempts(w)
  BY <1>4, ClearAttemptsInv
<1>5. CASE StartWindow(w)
  BY <1>5, StartWindowInv
<1>6. CASE CountRequest(w)
  BY <1>6, CountRequestInv
<1>7. CASE CountFails(w)
  BY <1>7, AnswerIsGood, CallOnlyInv DEF CountFails, IInv, Results
<1>8. CASE SendSms(w)
  BY <1>8, AnswerIsGood, CallOnlyInv DEF SendSms, IInv, Results
<1> QED
  BY <1>1, <1>2, <1>3, <1>4, <1>5, <1>6, <1>7, <1>8 DEF RequestStep

LEMMA VerifyStepInv ==
  ASSUME IInv, NEW w \in Workers, VerifyStep(w)
  PROVE  IInv'
<1>1. CASE RefuseLocked(w)
  BY <1>1, AnswerIsGood, CallOnlyInv DEF RefuseLocked, IInv, Results
<1>2. CASE ReadAttempts(w)
  <2> DEFINE c == [call[w] EXCEPT !.pc = "get_code", !.seen = AttemptCount(w)]
  <2>1. GoodCall(call[w]) /\ call[w].key \in Keys
    BY <1>2 DEF ReadAttempts, IInv, CallInv, GoodCall
  <2>2. AttemptCount(w) \in Nat /\ AttemptCount(w) < MAX_VERIFY_ATTEMPTS
    BY <1>2, <2>1, LimitsAssumption DEF ReadAttempts, Locked, AttemptCount, IInv, CacheInv
  <2>3. GoodCall(c)
    BY <2>1, <2>2 DEF GoodCall, CallType, VerifySteps
  <2>4. call' = [call EXCEPT ![w] = c]
    BY <1>2 DEF ReadAttempts
  <2> HIDE DEF c
  <2> QED
    BY <1>2, <2>3, <2>4, ReplaceIsGood, CallOnlyInv DEF ReadAttempts, IInv
<1>3. CASE RefuseMissing(w)
  BY <1>3, AnswerIsGood, CallOnlyInv DEF RefuseMissing, IInv, Results
<1>4. CASE CompareCode(w)
  <2> DEFINE step == IF otp[call[w].key].code = call[w].code THEN "drop_code" ELSE "miss"
             c == [call[w] EXCEPT !.pc = step, !.own = TRUE]
  <2>1. GoodCall(call[w]) /\ call[w].pc = "get_code"
    BY <1>4 DEF CompareCode, IInv, CallInv
  <2>2. GoodCall(c)
    BY <2>1 DEF GoodCall, CallType, VerifySteps
  <2>3. call' = [call EXCEPT ![w] = c]
    BY <1>4 DEF CompareCode
  <2> HIDE DEF c
  <2> QED
    BY <1>4, <2>2, <2>3, ReplaceIsGood, CallOnlyInv DEF CompareCode, IInv
<1>5. CASE RecordMiss(w)
  BY <1>5, RecordMissInv
<1>6. CASE DropCode(w)
  BY <1>6, DropCodeInv
<1>7. CASE Accept(w)
  BY <1>7, AcceptInv
<1> QED
  BY <1>1, <1>2, <1>3, <1>4, <1>5, <1>6, <1>7 DEF VerifyStep

LEMMA NextIInv == IInv /\ [Next]_vars => IInv'
<1> SUFFICES ASSUME IInv, [Next]_vars PROVE IInv'
  OBVIOUS
<1>1. ASSUME NEW w \in Workers, NEW k \in Keys, CallRequest(w, k) PROVE IInv'
  <2>1. GoodCall(CallAt("get_count", k, NoCode))
    BY DEF GoodCall, CallAt, CallType, RequestSteps, Results
  <2> QED
    BY <1>1, <2>1, ReplaceIsGood, CallOnlyInv DEF CallRequest, IInv
<1>2. ASSUME NEW w \in Workers, NEW k \in Keys, NEW c \in Codes, CallVerify(w, k, c)
      PROVE  IInv'
  <2>1. GoodCall(CallAt("get_attempts", k, c))
    BY DEF GoodCall, CallAt, CallType, VerifySteps, Results
  <2> QED
    BY <1>2, <2>1, ReplaceIsGood, CallOnlyInv DEF CallVerify, IInv
<1>3. ASSUME NEW w \in Workers, Return(w) \/ Abort(w) PROVE IInv'
  BY <1>3, IdleIsGood, ReplaceIsGood, CallOnlyInv DEF Return, Abort, IInv
<1>4. CASE UNCHANGED vars
  <2>1. CallInv'
    BY <1>4 DEF vars, IInv, CallInv, GoodCall
  <2> QED
    BY <1>4, <2>1, CallOnlyInv DEF vars
<1> QED
  BY <1>1, <1>2, <1>3, <1>4, RequestStepInv, VerifyStepInv, TickInv DEF Next

----------------------------------------------------------------------------
(* What the handlers that call otp.py may rely on: a step moves one call ... *)

CallStays(v) ==
    /\ call'[v].pc = call[v].pc /\ call'[v].key = call[v].key
    /\ call'[v].result = call[v].result

LEMMA OtpStepKeepsCalls ==
  ASSUME CallInv, NEW w \in Workers, RequestStep(w) \/ VerifyStep(w), NEW v \in Workers, v # w
  PROVE  CallStays(v)
<1> USE DEF CallInv, CallType, CallStays
<1>1. CASE StoreCode(w)
  BY <1>1 DEF StoreCode
<1>2. CASE ~ StoreCode(w)
  <2>1. \E c : call' = [call EXCEPT ![w] = c]
    BY <1>2 DEF RequestStep, VerifyStep, RefuseRequest, AdmitRequest, ClearAttempts,
        StartWindow, CountRequest, CountFails, SendSms, RefuseLocked, ReadAttempts,
        RefuseMissing, CompareCode, RecordMiss, DropCode, Accept, Answer, Goto
  <2> QED
    BY <2>1
<1> QED
  BY <1>1, <1>2

LEMMA CallsOfOthersStay ==
  ASSUME CallInv, NEW w \in Workers, NEW c, call' = [call EXCEPT ![w] = c]
  PROVE  call'[w] = c /\ \A v \in Workers \ {w} : CallStays(v)
  BY DEF CallInv, CallStays

LEMMA EndCall ==
  ASSUME CallInv, NEW w \in Workers, call' = [call EXCEPT ![w] = Idle]
  PROVE  call'[w].pc = "idle" /\ \A v \in Workers \ {w} : CallStays(v)
<1>1. Idle.pc = "idle"
  BY DEF Idle, CallAt
<1> QED
  BY <1>1, CallsOfOthersStay

\* ... and accepts a code that this call compared.
Compared(c) == c.pc \in {"drop_code", "drop_attempts"} \/ c.result = "accepted"

LEMMA OtpStepCompares ==
  ASSUME CallInv, NEW w \in Workers, RequestStep(w) \/ VerifyStep(w),
         call[w].pc # "get_code",
         Compared(call'[w])
  PROVE  Compared(call[w])
<1> USE DEF CallInv, CallType, Compared
<1>1. CASE StoreCode(w)
  <2>1. call'[w].pc = "clear_attempts" /\ call'[w].result = call[w].result
    BY <1>1 DEF StoreCode
  <2> QED
    BY <2>1
<1>2. CASE RequestStep(w) /\ ~ StoreCode(w)
  BY <1>2 DEF RequestStep, RefuseRequest, AdmitRequest, ClearAttempts,
        StartWindow, CountRequest, CountFails, SendSms, Answer, Goto
<1>3. CASE VerifyStep(w)
  BY <1>3 DEF VerifyStep, RefuseLocked, ReadAttempts,
        RefuseMissing, CompareCode, RecordMiss, DropCode, Accept, Answer, Goto
<1> QED
  BY <1>1, <1>2, <1>3

LEMMA OtpStepRuns ==
  ASSUME NEW w \in Workers, RequestStep(w) \/ VerifyStep(w)
  PROVE  call[w].pc # "idle"
  BY DEF RequestStep, VerifyStep, RefuseRequest, AdmitRequest, StoreCode,
      ClearAttempts, StartWindow, CountRequest, CountFails, SendSms, RefuseLocked,
      ReadAttempts, RefuseMissing, CompareCode, RecordMiss, DropCode, Accept

\* A call keeps its key and its side: who asked for a code does not end up
\* comparing one.
LEMMA OtpStepKeepsSide ==
  ASSUME CallInv, NEW w \in Workers, RequestStep(w) \/ VerifyStep(w)
  PROVE  /\ call'[w].key = call[w].key
         /\ call'[w].pc \in RequestSteps => call[w].pc \in RequestSteps
<1> USE DEF CallInv, CallType, RequestSteps
<1>1. CASE StoreCode(w)
  BY <1>1 DEF StoreCode
<1>2. CASE RequestStep(w) /\ ~ StoreCode(w)
  BY <1>2 DEF RequestStep, RefuseRequest, AdmitRequest, ClearAttempts,
        StartWindow, CountRequest, CountFails, SendSms, Answer, Goto
<1>3. CASE VerifyStep(w)
  BY <1>3 DEF VerifyStep, RefuseLocked, ReadAttempts,
        RefuseMissing, CompareCode, RecordMiss, DropCode, Accept, Answer, Goto
<1> QED
  BY <1>1, <1>2, <1>3

\* A call that begins to count as compared found a live code.
LEMMA ComparesLiveCode ==
  ASSUME CallInv, NEW w \in Workers, RequestStep(w) \/ VerifyStep(w),
         Compared(call'[w]), ~ Compared(call[w])
  PROVE  otp[call[w].key].ttl > 0
<1>1. call[w].pc = "get_code"
  BY OtpStepCompares
<1>2. CASE RefuseMissing(w)
  BY <1>2 DEF RefuseMissing, Answer, Compared, CallInv, CallType
<1>3. CASE CompareCode(w)
  BY <1>3 DEF CompareCode
<1> QED
  BY <1>1, <1>2, <1>3 DEF RequestStep, VerifyStep, RefuseRequest, AdmitRequest, StoreCode,
      ClearAttempts, StartWindow, CountRequest, CountFails, SendSms, RefuseLocked,
      ReadAttempts, RecordMiss, DropCode, Accept

\* Only a request stores a code, under its own key.
LEMMA OnlyRequestsStore ==
  ASSUME IInv, NEW w \in Workers, RequestStep(w) \/ VerifyStep(w),
         NEW k \in Keys, otp'[k].ttl > 0
  PROVE  otp[k].ttl > 0 \/ (call[w].key = k /\ call[w].pc \in RequestSteps)
<1> USE DEF IInv, CacheInv
<1>1. CASE StoreCode(w)
  BY <1>1 DEF StoreCode, RequestSteps
<1>2. CASE DropCode(w)
  <2>1. otp'[k] = otp[k] \/ otp'[k] = NoOtp
    BY <1>2 DEF DropCode
  <2> QED
    BY <2>1 DEF NoOtp
<1>3. CASE ~ StoreCode(w) /\ ~ DropCode(w)
  <2>1. otp' = otp
    BY <1>3 DEF RequestStep, VerifyStep, RefuseRequest, AdmitRequest, ClearAttempts,
        StartWindow, CountRequest, CountFails, SendSms, RefuseLocked, ReadAttempts,
        RefuseMissing, CompareCode, RecordMiss, Accept, cacheVars
  <2> QED
    BY <2>1
<1> QED
  BY <1>1, <1>2, <1>3

----------------------------------------------------------------------------

\* The cache and the calls are well formed in every reachable state: a stored
\* attempt count never passes MAX_VERIFY_ATTEMPTS, whatever the calls race on.
THEOREM TypeCorrect == Spec => []TypeOK
<1>1. IInv => TypeOK
  BY DEF IInv, CacheInv, CallInv, GoodCall, TypeOK
<1> QED
  BY InitIInv, NextIInv, <1>1, PTL DEF Spec

\* Waiting buys no further guesses at a stored code: the counter of its wrong
\* guesses never lapses before it does.
THEOREM CountedGuessOutlives == Spec => []CountedGuessOutlivesCode
<1>1. IInv => CountedGuessOutlivesCode
  BY DEF IInv, CacheInv
<1> QED
  BY InitIInv, NextIInv, <1>1, PTL DEF Spec

----------------------------------------------------------------------------
(* How often a code is accepted: the workers that compared it and found it *)
(* right are each good for one acceptance, and they join their number only *)
(* while it is stored, when nobody has accepted it yet.                    *)

Acceptors(k) == {w \in Workers :
    call[w].pc \in {"drop_code", "drop_attempts"} /\ call[w].own /\ call[w].key = k}

UseOk(k) ==
    /\ uses[k] + Cardinality(Acceptors(k)) <= Cardinality(Workers)
    /\ otp[k].ttl > 0 => uses[k] = 0 /\ \A w \in Acceptors(k) : call[w].pc = "drop_code"

UseInv == \A k \in Keys : UseOk(k)

LEMMA FewAcceptors ==
  ASSUME IsFiniteSet(Workers), NEW k
  PROVE  /\ IsFiniteSet(Acceptors(k)) /\ Cardinality(Acceptors(k)) \in Nat
         /\ Cardinality(Acceptors(k)) <= Cardinality(Workers)
         /\ Cardinality(Workers) \in Nat
<1>1. Acceptors(k) \subseteq Workers
  BY DEF Acceptors
<1> QED
  BY <1>1, FS_Subset, FS_CardinalityType

\* Nobody joins the acceptors of k, and no code comes back under k.
LEMMA NobodyJoins ==
  ASSUME IsFiniteSet(Workers), IInv, NEW k \in Keys, UseOk(k), uses'[k] = uses[k],
         otp'[k].ttl > 0 => otp[k].ttl > 0,
         \A v \in Workers : v \in Acceptors(k)' =>
            /\ v \in Acceptors(k)
            /\ otp'[k].ttl > 0 => call'[v].pc = call[v].pc
  PROVE  UseOk(k)'
<1>1. Acceptors(k)' \subseteq Acceptors(k) /\ Acceptors(k)' \subseteq Workers
  BY DEF Acceptors
<1>2. Cardinality(Acceptors(k)') <= Cardinality(Acceptors(k)) /\ Cardinality(Acceptors(k)') \in Nat
  BY <1>1, FewAcceptors, FS_Subset, FS_CardinalityType
<1>3. uses[k] \in Nat
  BY DEF IInv, CacheInv
<1> QED
  BY <1>1, <1>2, <1>3, FewAcceptors DEF UseOk

\* A call that moves to a step that accepts nothing.
LEMMA NoAcceptanceInSight ==
  ASSUME IsFiniteSet(Workers), IInv, UseInv, NEW w \in Workers, NEW c,
         call' = [call EXCEPT ![w] = c], c.pc \notin {"drop_code", "drop_attempts"},
         UNCHANGED <<uses, otp>>
  PROVE  UseInv'
<1> SUFFICES ASSUME NEW k \in Keys PROVE UseOk(k)'
  BY DEF UseInv
<1>1. call'[w] = c /\ \A v \in Workers \ {w} : call'[v] = call[v]
  BY DEF IInv, CallInv
<1>2. \A v \in Workers : v \in Acceptors(k)' => v \in Acceptors(k) /\ call'[v].pc = call[v].pc
  BY <1>1 DEF Acceptors
<1> QED
  BY <1>2, NobodyJoins DEF UseInv

LEMMA AnswersAcceptNothing ==
  ASSUME IsFiniteSet(Workers), IInv, UseInv, NEW w \in Workers, NEW r, Answer(w, r),
         UNCHANGED <<uses, otp>>
  PROVE  UseInv'
<1> DEFINE c == [pc |-> "returned", key |-> call[w].key, code |-> NoCode,
                 seen |-> 0, own |-> FALSE, result |-> r]
<1>1. call' = [call EXCEPT ![w] = c] /\ c.pc = "returned"
  BY DEF Answer
<1> HIDE DEF c
<1> QED
  BY <1>1, NoAcceptanceInSight

LEMMA StepsBeforeAcceptance ==
  ASSUME IsFiniteSet(Workers), IInv, UseInv, NEW w \in Workers, UNCHANGED <<uses, otp>>,
         NEW step \in RequestSteps \cup {"get_code"}, NEW n,
         call' = [call EXCEPT ![w].pc = step, ![w].seen = n]
  PROVE  UseInv'
<1> DEFINE c == [call[w] EXCEPT !.pc = step, !.seen = n]
<1>1. c.pc = step
  BY DEF IInv, CallInv, CallType
<1>2. call' = [call EXCEPT ![w] = c]
  OBVIOUS
<1> HIDE DEF c
<1> QED
  BY <1>1, <1>2, NoAcceptanceInSight DEF RequestSteps

\* A new code: nobody has compared it, nobody has accepted it.
LEMMA StoreStartsOver ==
  ASSUME IsFiniteSet(Workers), IInv, UseInv, NEW w \in Workers, StoreCode(w)
  PROVE  UseInv'
<1> SUFFICES ASSUME NEW j \in Keys PROVE UseOk(j)'
  BY DEF UseInv
<1>1. PICK k \in Keys : k = call[w].key
  BY DEF StoreCode, IInv, CallInv, GoodCall
<1>2. PICK c \in Codes :
        /\ otp' = [otp EXCEPT ![k] = NewEntry(k, c)]
        /\ call' = [v \in Workers |->
              IF v = w THEN [call[w] EXCEPT !.pc = "clear_attempts", !.code = c]
              ELSE IF call[v].key = k THEN [call[v] EXCEPT !.own = FALSE]
              ELSE call[v]]
  BY <1>1 DEF StoreCode
<1>3. call[w] \in CallType /\ \A v \in Workers : call[v] \in CallType
  BY DEF IInv, CallInv
<1>4. uses' = [uses EXCEPT ![k] = 0] /\ uses \in [Keys -> Nat]
  BY <1>1 DEF StoreCode, IInv, CacheInv
<1>5. CASE j = k
  <2>1. Acceptors(j)' = {}
    BY <1>2, <1>3, <1>5 DEF Acceptors, CallType
  <2>2. uses'[j] = 0
    BY <1>4, <1>5
  <2> QED
    BY <2>1, <2>2, FewAcceptors, FS_EmptySet DEF UseOk
<1>6. CASE j # k
  <2>1. otp'[j] = otp[j] /\ uses'[j] = uses[j]
    BY <1>2, <1>4, <1>6 DEF IInv, CacheInv
  <2>2. \A v \in Workers : v \in Acceptors(j)' => v \in Acceptors(j) /\ call'[v].pc = call[v].pc
    BY <1>1, <1>2, <1>3, <1>6 DEF Acceptors, CallType
  <2> QED
    BY <2>1, <2>2, NobodyJoins DEF UseInv
<1> QED
  BY <1>5, <1>6

\* Whoever compares the stored code finds it unused.
LEMMA CompareMayJoin ==
  ASSUME IsFiniteSet(Workers), IInv, UseInv, NEW w \in Workers, CompareCode(w)
  PROVE  UseInv'
<1> SUFFICES ASSUME NEW j \in Keys PROVE UseOk(j)'
  BY DEF UseInv
<1>1. /\ call[w].pc = "get_code" /\ otp[call[w].key].ttl > 0 /\ UNCHANGED <<otp, uses>>
      /\ call[w] \in CallType /\ UseOk(j) /\ uses[j] \in Nat
  BY DEF CompareCode, IInv, CacheInv, CallInv, cacheVars, historyVars, UseInv
<1>2. PICK step \in {"drop_code", "miss"} :
        call' = [call EXCEPT ![w].pc = step, ![w].own = TRUE]
  BY DEF CompareCode
<1>3. /\ call'[w].pc = step /\ call'[w].key = call[w].key
      /\ \A v \in Workers \ {w} : call'[v] = call[v]
  BY <1>1, <1>2 DEF IInv, CallInv, CallType
<1>4. CASE j = call[w].key
  <2>1. uses'[j] = 0
    BY <1>1, <1>4 DEF UseOk
  <2>2. Acceptors(j)' \subseteq Workers
    BY DEF Acceptors
  <2>3. Cardinality(Acceptors(j)') <= Cardinality(Workers) /\ Cardinality(Acceptors(j)') \in Nat
    BY <2>2, FS_Subset, FS_CardinalityType
  <2>4. \A v \in Acceptors(j)' : call'[v].pc = "drop_code"
    BY <1>1, <1>3, <1>4 DEF Acceptors, UseOk
  <2> QED
    BY <2>1, <2>3, <2>4 DEF UseOk
<1>5. CASE j # call[w].key
  <2>1. \A v \in Workers : v \in Acceptors(j)' => v \in Acceptors(j) /\ call'[v].pc = call[v].pc
    BY <1>3, <1>5 DEF Acceptors
  <2> QED
    BY <1>1, <2>1, NobodyJoins
<1> QED
  BY <1>4, <1>5

LEMMA DropEndsIt ==
  ASSUME IsFiniteSet(Workers), IInv, UseInv, NEW w \in Workers, DropCode(w)
  PROVE  UseInv'
<1> SUFFICES ASSUME NEW j \in Keys PROVE UseOk(j)'
  BY DEF UseInv
<1>1. PICK k \in Keys : k = call[w].key
  BY DEF DropCode, IInv, CallInv, GoodCall
<1>2. /\ otp' = [otp EXCEPT ![k] = NoOtp] /\ uses' = uses
      /\ call' = [call EXCEPT ![w].pc = "drop_attempts"] /\ call[w].pc = "drop_code"
  BY <1>1 DEF DropCode, Goto, historyVars
<1>3. /\ call'[w].key = k /\ call'[w].own = call[w].own
      /\ \A v \in Workers \ {w} : call'[v] = call[v]
  BY <1>1, <1>2 DEF IInv, CallInv, CallType
<1>4. otp'[j] = otp[j] \/ (j = k /\ otp'[j].ttl = 0)
  BY <1>1, <1>2 DEF NoOtp, IInv, CacheInv
<1>5. \A v \in Workers : v \in Acceptors(j)' =>
        v \in Acceptors(j) /\ (otp'[j].ttl > 0 => call'[v].pc = call[v].pc)
  <2> SUFFICES ASSUME NEW v \in Workers, v \in Acceptors(j)'
               PROVE  v \in Acceptors(j) /\ (otp'[j].ttl > 0 => call'[v].pc = call[v].pc)
    OBVIOUS
  <2>1. CASE v = w
    <3>1. j = k /\ v \in Acceptors(j)
      BY <1>1, <1>2, <1>3, <2>1 DEF Acceptors
    <3>2. otp'[j].ttl = 0
      BY <1>1, <1>2, <3>1 DEF NoOtp, IInv, CacheInv
    <3> QED
      BY <3>1, <3>2
  <2>2. CASE v # w
    BY <1>3, <2>2 DEF Acceptors
  <2> QED
    BY <2>1, <2>2
<1> QED
  BY <1>2, <1>4, <1>5, NobodyJoins DEF UseInv

\* An acceptor becomes an acceptance.
LEMMA AcceptanceTakesOne ==
  ASSUME IsFiniteSet(Workers), IInv, UseInv, NEW w \in Workers, Accept(w)
  PROVE  UseInv'
<1>1. CASE ~ call[w].own
  <2>1. UNCHANGED <<uses, otp>>
    BY <1>1 DEF Accept, IInv, CacheInv
  <2> QED
    BY <2>1, AnswersAcceptNothing DEF Accept
<1>2. CASE call[w].own
  <2> SUFFICES ASSUME NEW j \in Keys PROVE UseOk(j)'
    BY DEF UseInv
  <2>1. PICK k \in Keys : k = call[w].key
    BY DEF Accept, IInv, CallInv, GoodCall
  <2>2. /\ uses' = [uses EXCEPT ![k] = @ + 1] /\ otp' = otp /\ uses \in [Keys -> Nat]
        /\ call[w].pc = "drop_attempts"
    BY <1>2, <2>1 DEF Accept, IInv, CacheInv
  <2>3. call'[w].pc = "returned" /\ \A v \in Workers \ {w} : call'[v] = call[v]
    BY DEF Accept, Answer, IInv, CallInv
  <2>4. w \in Acceptors(k)
    BY <1>2, <2>1, <2>2 DEF Acceptors
  <2>5. CASE j = k
    <3>1. Acceptors(j)' = Acceptors(j) \ {w}
      BY <2>3 DEF Acceptors
    <3>2. Cardinality(Acceptors(j)') = Cardinality(Acceptors(j)) - 1
      BY <2>4, <2>5, <3>1, FewAcceptors, FS_RemoveElement
    <3>3. UseOk(j) /\ ~ otp[j].ttl > 0
      BY <2>2, <2>4, <2>5 DEF UseInv, UseOk
    <3>4. uses'[j] = uses[j] + 1 /\ otp'[j] = otp[j] /\ uses[j] \in Nat
      BY <2>2, <2>5
    <3> QED
      BY <3>2, <3>3, <3>4, FewAcceptors DEF UseOk
  <2>6. CASE j # k
    <3>1. \A v \in Workers : v \in Acceptors(j)' => v \in Acceptors(j) /\ call'[v].pc = call[v].pc
      BY <2>3 DEF Acceptors
    <3>2. uses'[j] = uses[j] /\ otp'[j] = otp[j]
      BY <2>2, <2>6
    <3> QED
      BY <3>1, <3>2, NobodyJoins DEF UseInv
  <2> QED
    BY <2>5, <2>6
<1> QED
  BY <1>1, <1>2

LEMMA TickUses ==
  ASSUME IsFiniteSet(Workers), IInv, UseInv, Tick
  PROVE  UseInv'
<1> SUFFICES ASSUME NEW k \in Keys PROVE UseOk(k)'
  BY DEF UseInv
<1>1. otp[k] \in [code : Codes \cup {NoCode}, ttl : 0 .. OTP_TTL_SECONDS]
      /\ (otp[k].ttl = 0 <=> otp[k].code = NoCode)
  BY DEF IInv, CacheInv
<1>2. otp'[k].ttl = IF otp[k].ttl > 1 THEN otp[k].ttl - 1 ELSE 0
  BY <1>1, AgedOtp DEF Tick
<1>3. otp'[k].ttl > 0 => otp[k].ttl > 0
  BY <1>1, <1>2, LimitsAssumption
<1>4. uses'[k] = uses[k] /\ call' = call
  BY DEF Tick
<1>5. \A v \in Workers : v \in Acceptors(k)' => v \in Acceptors(k) /\ call'[v].pc = call[v].pc
  BY <1>4 DEF Acceptors
<1> QED
  BY <1>3, <1>4, <1>5, NobodyJoins DEF UseInv

LEMMA UseNextInv ==
  ASSUME IsFiniteSet(Workers), IInv, UseInv, [Next]_vars
  PROVE  UseInv'
<1> USE DEF cacheVars, historyVars
<1>1. ASSUME NEW w \in Workers, RequestStep(w) PROVE UseInv'
  <2>1. CASE RefuseRequest(w) \/ CountFails(w) \/ SendSms(w)
    BY <2>1, AnswersAcceptNothing DEF RefuseRequest, CountFails, SendSms
  <2>2. CASE AdmitRequest(w)
    BY <2>2, StepsBeforeAcceptance DEF AdmitRequest, RequestSteps
  <2>3. CASE ClearAttempts(w) \/ StartWindow(w) \/ CountRequest(w)
    <3>1. PICK step \in RequestSteps : Goto(w, step) /\ UNCHANGED <<uses, otp>>
      BY <2>3 DEF ClearAttempts, StartWindow, CountRequest, RequestSteps
    <3>2. call[w] \in CallType
      BY DEF IInv, CallInv
    <3>3. [call[w] EXCEPT !.pc = step] = [call[w] EXCEPT !.pc = step, !.seen = call[w].seen]
      BY <3>2 DEF CallType
    <3>4. call' = [call EXCEPT ![w].pc = step, ![w].seen = call[w].seen]
      BY <3>1, <3>3 DEF Goto
    <3> QED
      BY <3>1, <3>4, StepsBeforeAcceptance
  <2> QED
    BY <1>1, <2>1, <2>2, <2>3, StoreStartsOver DEF RequestStep
<1>2. ASSUME NEW w \in Workers, VerifyStep(w) PROVE UseInv'
  <2>1. CASE RefuseLocked(w) \/ RefuseMissing(w) \/ RecordMiss(w)
    BY <2>1, AnswersAcceptNothing DEF RefuseLocked, RefuseMissing, RecordMiss
  <2>2. CASE ReadAttempts(w)
    BY <2>2, StepsBeforeAcceptance DEF ReadAttempts
  <2> QED
    BY <1>2, <2>1, <2>2, CompareMayJoin, DropEndsIt, AcceptanceTakesOne DEF VerifyStep
<1>3. ASSUME NEW w \in Workers, NEW k \in Keys, CallRequest(w, k) PROVE UseInv'
  <2>1. CallAt("get_count", k, NoCode).pc = "get_count"
    BY DEF CallAt
  <2> QED
    BY <1>3, <2>1, NoAcceptanceInSight DEF CallRequest
<1>4. ASSUME NEW w \in Workers, NEW k \in Keys, NEW c \in Codes, CallVerify(w, k, c)
      PROVE  UseInv'
  <2>1. CallAt("get_attempts", k, c).pc = "get_attempts"
    BY DEF CallAt
  <2> QED
    BY <1>4, <2>1, NoAcceptanceInSight DEF CallVerify
<1>5. ASSUME NEW w \in Workers, Return(w) \/ Abort(w) PROVE UseInv'
  <2>1. Idle.pc = "idle"
    BY DEF Idle, CallAt
  <2> QED
    BY <1>5, <2>1, NoAcceptanceInSight DEF Return, Abort
<1>6. CASE UNCHANGED vars
  BY <1>6 DEF vars, UseInv, UseOk, Acceptors
<1> QED
  BY <1>1, <1>2, <1>3, <1>4, <1>5, <1>6, TickUses DEF Next

\* Verifications that race on a code can all be granted, but each worker at most
\* once, however many workers there are: nobody who comes later is.
THEOREM AcceptancesAreBounded ==
  ASSUME IsFiniteSet(Workers)
  PROVE  Spec => []AcceptOvershoot
<1>1. Init => UseInv
  <2> SUFFICES ASSUME Init, NEW k \in Keys PROVE UseOk(k)
    BY DEF UseInv
  <2>1. uses[k] = 0 /\ otp[k].ttl = 0
    BY DEF Init, NoOtp
  <2> QED
    BY <2>1, FewAcceptors DEF UseOk
<1>2. IInv /\ UseInv /\ [Next]_vars => UseInv'
  BY UseNextInv
<1>3. IInv /\ UseInv => AcceptOvershoot
  BY FewAcceptors DEF UseInv, UseOk, AcceptOvershoot, IInv, CacheInv
<1> QED
  BY InitIInv, NextIInv, <1>1, <1>2, <1>3, PTL DEF Spec

----------------------------------------------------------------------------
(* How many codes are granted in a window.  A request that read no counter  *)
(* will write a new one (Starters), and there are no new such requests      *)
(* while a counter is live: every set that restarts the count leaves one    *)
(* starter less.  A request that read a counter adds one to whatever is     *)
(* there (Counters); all of them that get in at the limit overrun it.       *)

\* g grants, a count of n, z starters, s counters, W workers.
Within(g, n, z, s, W) ==
    /\ n = 0 => g = 0
    /\ n > 0 =>
        /\ z < W
        /\ n + s <= THROTTLE_MAX_REQUESTS + (W - 1 - z)
        /\ 2 * g <= (W - 1 - z) * (2 * THROTTLE_MAX_REQUESTS + (W - 1 - z) - 1) + 2 * n

LEMMA MoreLimitsMoreGrants ==
  ASSUME NEW a \in Nat, NEW b \in Nat, a <= b, NEW T \in Nat \ {0}
  PROVE  a * (2 * T + a - 1) <= b * (2 * T + b - 1)
<1> DEFINE d == b - a
<1>1. d \in Nat /\ b = a + d
  OBVIOUS
<1>2. a * d \in Nat /\ d * (2 * T + a + d - 1) \in Nat
  BY <1>1
<1>3. (a + d) * (2 * T + (a + d) - 1) = a * (2 * T + a - 1) + a * d + d * (2 * T + a + d - 1)
  BY <1>1
<1>4. a * (2 * T + a - 1) \in Int
  OBVIOUS
<1> HIDE DEF d
<1> QED
  BY <1>1, <1>2, <1>3, <1>4

LEMMA WithinFewer ==
  ASSUME NEW g \in Nat, NEW n \in Nat, NEW z \in Nat, NEW s \in Nat, NEW W \in Nat,
         Within(g, n, z, s, W), NEW y \in 0 .. z, NEW r \in 0 .. s
  PROVE  Within(g, n, y, r, W)
<1> SUFFICES ASSUME n > 0 PROVE Within(g, n, y, r, W)
  BY DEF Within
<1>1. /\ z < W /\ n + s <= THROTTLE_MAX_REQUESTS + (W - 1 - z)
      /\ 2 * g <= (W - 1 - z) * (2 * THROTTLE_MAX_REQUESTS + (W - 1 - z) - 1) + 2 * n
  BY DEF Within
<1>2. y < W /\ n + r <= THROTTLE_MAX_REQUESTS + (W - 1 - y)
  BY <1>1, LimitsAssumption
<1>3. (W - 1 - z) * (2 * THROTTLE_MAX_REQUESTS + (W - 1 - z) - 1)
        <= (W - 1 - y) * (2 * THROTTLE_MAX_REQUESTS + (W - 1 - y) - 1)
  <2>1. W - 1 - z \in Nat /\ W - 1 - y \in Nat /\ W - 1 - z <= W - 1 - y
    BY <1>1
  <2> QED
    BY <2>1, MoreLimitsMoreGrants, LimitsAssumption
<1>4. /\ (W - 1 - z) * (2 * THROTTLE_MAX_REQUESTS + (W - 1 - z) - 1) \in Int
      /\ (W - 1 - y) * (2 * THROTTLE_MAX_REQUESTS + (W - 1 - y) - 1) \in Int
  BY LimitsAssumption
<1> QED
  BY <1>1, <1>2, <1>3, <1>4 DEF Within

\* One more request got in below the limit.
LEMMA WithinAdmitted ==
  ASSUME NEW g \in Nat, NEW n \in Nat, NEW z \in Nat, NEW s \in Nat, NEW W \in Nat,
         Within(g, n, z, s, W), NEW r \in Nat, r + z <= W, n < THROTTLE_MAX_REQUESTS
  PROVE  Within(g, n, z, r, W)
  BY LimitsAssumption DEF Within

\* A starter restarts the count.
LEMMA WithinStarted ==
  ASSUME NEW g \in Nat, NEW n \in Nat, NEW z \in Nat \ {0}, NEW s \in Nat, NEW W \in Nat,
         Within(g, n, z, s, W), s + z <= W
  PROVE  Within(g + 1, 1, z - 1, s, W)
<1> DEFINE T == THROTTLE_MAX_REQUESTS
           m == W - z
<1>1. T \in Nat \ {0} /\ m \in Nat
  BY LimitsAssumption
<1>2. W - 1 - (z - 1) = m /\ W - 1 - z = m - 1
  OBVIOUS
<1>3. m * (2 * T + m - 1) = (m - 1) * (2 * T + (m - 1) - 1) + 2 * (T + m - 1)
  BY <1>1
<1>4. m * (2 * T + m - 1) >= 0 /\ m * (2 * T + m - 1) \in Int
      /\ (m - 1) * (2 * T + (m - 1) - 1) \in Int
  BY <1>1
<1>5. 2 * (g + 1) <= m * (2 * T + m - 1) + 2
  <2>1. CASE n = 0
    BY <1>4, <2>1 DEF Within
  <2>2. CASE n > 0
    <3>1. n + s <= T + (m - 1) /\ 2 * g <= (m - 1) * (2 * T + (m - 1) - 1) + 2 * n
      BY <1>2, <2>2 DEF Within
    <3> QED
      BY <1>1, <1>3, <1>4, <3>1
  <2> QED
    BY <2>1, <2>2
<1>6. 1 + s <= T + m /\ z - 1 < W
  BY <1>1
<1> QED
  BY <1>2, <1>5, <1>6 DEF Within

LEMMA WithinCounted ==
  ASSUME NEW g \in Nat, NEW n \in Nat \ {0}, NEW z \in Nat, NEW s \in Nat \ {0}, NEW W \in Nat,
         Within(g, n, z, s, W)
  PROVE  Within(g + 1, n + 1, z, s - 1, W)
<1>1. (W - 1 - z) * (2 * THROTTLE_MAX_REQUESTS + (W - 1 - z) - 1) \in Int
  BY LimitsAssumption
<1> QED
  BY <1>1, LimitsAssumption DEF Within

LEMMA WithinBound ==
  ASSUME NEW g \in Nat, NEW n \in Nat, NEW z \in Nat, NEW s \in Nat, NEW W \in Nat,
         Within(g, n, z, s, W)
  PROVE  g <= W * THROTTLE_MAX_REQUESTS + (W * (W - 1)) \div 2
<1> DEFINE T == THROTTLE_MAX_REQUESTS
           m == W - z
           half == (W * (W - 1)) \div 2
<1>1. T \in Nat \ {0}
  BY LimitsAssumption
<1>2. W * (W - 1) \in Nat /\ W * T \in Nat
  <2>1. W = 0 \/ W - 1 \in Nat
    OBVIOUS
  <2> QED
    BY <1>1, <2>1
<1>3. half \in Nat /\ W * (W - 1) <= 2 * half + 1
  BY <1>2
<1>4. CASE n = 0
  BY <1>2, <1>3, <1>4 DEF Within
<1>5. CASE n > 0
  <2>1. /\ m \in Nat /\ m <= W /\ n <= T + (m - 1)
        /\ 2 * g <= (m - 1) * (2 * T + (m - 1) - 1) + 2 * n
    <3>1. W - 1 - z = m - 1
      OBVIOUS
    <3> QED
      BY <1>1, <1>5, <3>1 DEF Within
  <2>2. m * (2 * T + m - 1) = (m - 1) * (2 * T + (m - 1) - 1) + 2 * (T + m - 1)
    BY <1>1, <2>1
  <2>3. m * (2 * T + m - 1) <= W * (2 * T + W - 1)
    BY <1>1, <2>1, MoreLimitsMoreGrants
  <2>4. W * (2 * T + W - 1) = 2 * (W * T) + W * (W - 1)
    BY <1>1
  <2>5. /\ (m - 1) * (2 * T + (m - 1) - 1) \in Int /\ m * (2 * T + m - 1) \in Int
        /\ W * (2 * T + W - 1) \in Int
    BY <1>1, <2>1
  <2>6. 2 * g <= 2 * (W * T) + W * (W - 1)
    <3> HIDE DEF m
    <3> QED
      BY <1>1, <2>1, <2>2, <2>3, <2>4, <2>5
  <2>7. PICK X \in Nat, Y \in Nat : X = W * (W - 1) /\ Y = W * T
    BY <1>2
  <2>8. 2 * g <= 2 * Y + X /\ X <= 2 * half + 1
    BY <1>3, <2>6, <2>7
  <2> HIDE DEF half
  <2>9. g <= Y + half
    BY <1>3, <2>8
  <2> QED
    BY <2>7, <2>9 DEF half
<1> QED
  BY <1>4, <1>5

\* Requests for p that were let in and have yet to count themselves.
Pending(c, p) == c.pc \in {"set_code", "clear_attempts", "count"} /\ PhoneOf(c.key) = p

Starters(p) == {w \in Workers : Pending(call[w], p) /\ call[w].seen = 0}
Counters(p) == {w \in Workers : Pending(call[w], p) /\ call[w].seen > 0}

GrantOk(p) ==
    Within(grants[p], throttle[p].n,
           Cardinality(Starters(p)), Cardinality(Counters(p)), Cardinality(Workers))

GrantInv == \A p \in Phones : GrantOk(p)

LEMMA DisjointParts ==
  ASSUME IsFiniteSet(Workers), NEW A \in SUBSET Workers, NEW B \in SUBSET Workers,
         A \cap B = {}
  PROVE  /\ IsFiniteSet(A) /\ Cardinality(A) \in Nat
         /\ IsFiniteSet(B) /\ Cardinality(B) \in Nat
         /\ Cardinality(Workers) \in Nat
         /\ Cardinality(B) + Cardinality(A) <= Cardinality(Workers)
<1>1. IsFiniteSet(A) /\ IsFiniteSet(B)
  BY FS_Subset
<1>2. Cardinality(A \cup B) = Cardinality(A) + Cardinality(B) - Cardinality({})
  BY <1>1, FS_Union
<1>3. Cardinality({}) = 0
  BY FS_EmptySet
<1>4. Cardinality(A \cup B) <= Cardinality(Workers)
  <2>1. A \cup B \subseteq Workers
    OBVIOUS
  <2> QED
    BY <2>1, FS_Subset
<1>5. Cardinality(A) \in Nat /\ Cardinality(B) \in Nat /\ Cardinality(Workers) \in Nat
  BY <1>1, FS_CardinalityType
<1> QED
  BY <1>1, <1>2, <1>3, <1>4, <1>5

LEMMA FewPending ==
  ASSUME IsFiniteSet(Workers), NEW p
  PROVE  /\ IsFiniteSet(Starters(p)) /\ Cardinality(Starters(p)) \in Nat
         /\ IsFiniteSet(Counters(p)) /\ Cardinality(Counters(p)) \in Nat
         /\ Cardinality(Workers) \in Nat
         /\ Cardinality(Counters(p)) + Cardinality(Starters(p)) <= Cardinality(Workers)
<1>1. /\ Starters(p) \in SUBSET Workers /\ Counters(p) \in SUBSET Workers
      /\ Starters(p) \cap Counters(p) = {}
  BY DEF Starters, Counters
<1> QED
  BY <1>1, DisjointParts

LEMMA CountsAreNat ==
  ASSUME IInv, NEW p \in Phones
  PROVE  grants[p] \in Nat /\ throttle[p].n \in Nat
         /\ (throttle[p].ttl > 0 => throttle[p].n > 0)
  BY LimitsAssumption DEF IInv, CacheInv

\* Nobody gets in for p, and nothing is counted, or all of it lapses.
LEMMA NobodyGetsIn ==
  ASSUME IsFiniteSet(Workers), IInv, IInv', NEW p \in Phones, GrantOk(p),
         Starters(p)' \subseteq Starters(p), Counters(p)' \subseteq Counters(p),
         \/ grants'[p] = grants[p] /\ throttle'[p].n = throttle[p].n
         \/ grants'[p] = 0 /\ throttle'[p].n = 0
  PROVE  GrantOk(p)'
<1>1. /\ Cardinality(Starters(p)') \in 0 .. Cardinality(Starters(p))
      /\ Cardinality(Counters(p)') \in 0 .. Cardinality(Counters(p))
  BY FewPending, FS_Subset, FS_CardinalityType
<1>2. CASE grants'[p] = grants[p] /\ throttle'[p].n = throttle[p].n
  BY <1>1, <1>2, FewPending, CountsAreNat, WithinFewer DEF GrantOk
<1>3. CASE grants'[p] = 0 /\ throttle'[p].n = 0
  BY <1>3 DEF GrantOk, Within
<1> QED
  BY <1>2, <1>3

\* A call that moves to a step that grants nothing.
LEMMA NoGrantInSight ==
  ASSUME IsFiniteSet(Workers), IInv, IInv', GrantInv, NEW w \in Workers, NEW c,
         call' = [call EXCEPT ![w] = c], c.pc \notin {"set_code", "clear_attempts", "count"},
         UNCHANGED <<throttle, grants>>
  PROVE  GrantInv'
<1> SUFFICES ASSUME NEW p \in Phones PROVE GrantOk(p)'
  BY DEF GrantInv
<1>1. call'[w] = c /\ \A v \in Workers \ {w} : call'[v] = call[v]
  BY DEF IInv, CallInv
<1>2. Starters(p)' \subseteq Starters(p) /\ Counters(p)' \subseteq Counters(p)
  BY <1>1 DEF Starters, Counters, Pending
<1> QED
  BY <1>2, NobodyGetsIn DEF GrantInv

LEMMA AnswersGrantNothing ==
  ASSUME IsFiniteSet(Workers), IInv, IInv', GrantInv, NEW w \in Workers, NEW r, Answer(w, r),
         UNCHANGED <<throttle, grants>>
  PROVE  GrantInv'
<1> DEFINE c == [pc |-> "returned", key |-> call[w].key, code |-> NoCode,
                 seen |-> 0, own |-> FALSE, result |-> r]
<1>1. call' = [call EXCEPT ![w] = c] /\ c.pc = "returned"
  BY DEF Answer
<1> HIDE DEF c
<1> QED
  BY <1>1, NoGrantInSight

\* Two steps between being let in and being counted.
LEMMA StillPending ==
  ASSUME IsFiniteSet(Workers), IInv, IInv', GrantInv, NEW w \in Workers,
         StoreCode(w) \/ ClearAttempts(w)
  PROVE  GrantInv'
<1> SUFFICES ASSUME NEW p \in Phones PROVE GrantOk(p)'
  BY DEF GrantInv
<1>1. \A v \in Workers : call[v] \in CallType
  BY DEF IInv, CallInv
<1>2. \A v \in Workers :
        /\ call'[v].key = call[v].key /\ call'[v].seen = call[v].seen
        /\ call'[v].pc = call[v].pc \/ call[v].pc \in {"set_code", "clear_attempts"}
  <2>1. CASE StoreCode(w)
    <3>1. call[w].pc = "set_code"
      BY <2>1 DEF StoreCode
    <3>2. PICK c :
            call' = [v \in Workers |->
              IF v = w THEN [call[w] EXCEPT !.pc = "clear_attempts", !.code = c]
              ELSE IF call[v].key = call[w].key THEN [call[v] EXCEPT !.own = FALSE]
              ELSE call[v]]
      BY <2>1 DEF StoreCode
    <3> QED
      BY <1>1, <3>1, <3>2 DEF CallType
  <2>2. CASE ClearAttempts(w)
    BY <1>1, <2>2 DEF ClearAttempts, Goto, CallType, IInv, CallInv
  <2> QED
    BY <2>1, <2>2
<1>3. Starters(p)' \subseteq Starters(p) /\ Counters(p)' \subseteq Counters(p)
  BY <1>2 DEF Starters, Counters, Pending
<1>4. grants' = grants /\ throttle' = throttle
  BY DEF StoreCode, ClearAttempts, historyVars
<1> QED
  BY <1>3, <1>4, NobodyGetsIn DEF GrantInv

LEMMA AdmissionGrants ==
  ASSUME IsFiniteSet(Workers), IInv, IInv', GrantInv, NEW w \in Workers, AdmitRequest(w)
  PROVE  GrantInv'
<1> SUFFICES ASSUME NEW p \in Phones PROVE GrantOk(p)'
  BY DEF GrantInv
<1>1. /\ grants' = grants /\ throttle' = throttle /\ call[w].pc = "get_count"
      /\ call' = [call EXCEPT ![w].pc = "set_code", ![w].seen = ThrottleCount(w)]
      /\ call[w] \in CallType /\ call[w].key \in Keys
  BY DEF AdmitRequest, cacheVars, historyVars, IInv, CallInv, GoodCall
<1>2. /\ call'[w].pc = "set_code" /\ call'[w].key = call[w].key
      /\ call'[w].seen = throttle[PhoneOf(call[w].key)].n
      /\ \A v \in Workers \ {w} : call'[v] = call[v]
  BY <1>1 DEF ThrottleCount, IInv, CallInv, CallType
<1>3. CASE p # PhoneOf(call[w].key)
  <2>1. Starters(p)' \subseteq Starters(p) /\ Counters(p)' \subseteq Counters(p)
    BY <1>2, <1>3 DEF Starters, Counters, Pending
  <2> QED
    BY <1>1, <2>1, NobodyGetsIn DEF GrantInv
<1>4. CASE p = PhoneOf(call[w].key)
  <2>1. throttle[p].n < THROTTLE_MAX_REQUESTS
    BY <1>4, CountsAreNat, LimitsAssumption DEF AdmitRequest, Throttled, ThrottleCount
  <2>2. GrantOk(p) /\ Cardinality(Counters(p)') \in Nat
        /\ Cardinality(Counters(p)') + Cardinality(Starters(p)') <= Cardinality(Workers)
    <3>1. /\ Starters(p)' \in SUBSET Workers /\ Counters(p)' \in SUBSET Workers
          /\ Starters(p)' \cap Counters(p)' = {}
      BY DEF Starters, Counters
    <3> QED
      BY <3>1, DisjointParts DEF GrantInv
  <2>3. CASE throttle[p].n = 0
    BY <1>1, <2>2, <2>3 DEF GrantOk, Within
  <2>4. CASE throttle[p].n > 0
    <3>1. Starters(p)' = Starters(p)
      <4>1. w \notin Starters(p)
        BY <1>1 DEF Starters, Pending
      <4>2. w \notin Starters(p)'
        BY <1>2, <1>4, <2>4 DEF Starters
      <4>3. \A v \in Workers \ {w} : v \in Starters(p)' <=> v \in Starters(p)
        BY <1>2 DEF Starters, Pending
      <4>4. Starters(p) \subseteq Workers /\ Starters(p)' \subseteq Workers
        BY DEF Starters
      <4> QED
        BY <4>1, <4>2, <4>3, <4>4
    <3> QED
      BY <1>1, <2>1, <2>2, <3>1, FewPending, CountsAreNat, WithinAdmitted DEF GrantOk
  <2> QED
    BY <2>3, <2>4, CountsAreNat
<1> QED
  BY <1>3, <1>4

\* The two ways of counting take one request off those to come.
LEMMA CountingGrants ==
  ASSUME IsFiniteSet(Workers), IInv, IInv', GrantInv, NEW w \in Workers,
         StartWindow(w) \/ CountRequest(w)
  PROVE  GrantInv'
<1> SUFFICES ASSUME NEW p \in Phones PROVE GrantOk(p)'
  BY DEF GrantInv
<1>1. PICK q \in Phones : q = PhoneOf(call[w].key)
  BY PhoneOfKey DEF StartWindow, CountRequest, IInv, CallInv, GoodCall
<1>2. /\ call[w].pc = "count" /\ grants' = [grants EXCEPT ![q] = @ + 1]
      /\ call' = [call EXCEPT ![w].pc = "sms"] /\ call[w] \in CallType
      /\ grants \in [Phones -> Nat]
      /\ throttle \in [Phones -> [n : Nat, ttl : 0 .. THROTTLE_WINDOW_SECONDS]]
  BY <1>1 DEF StartWindow, CountRequest, Goto, IInv, CallInv, CacheInv
<1>3. call'[w].pc = "sms" /\ \A v \in Workers \ {w} : call'[v] = call[v]
  BY <1>2 DEF IInv, CallInv, CallType
<1>4. Starters(p)' = Starters(p) \ {w} /\ Counters(p)' = Counters(p) \ {w}
  BY <1>3 DEF Starters, Counters, Pending
<1>5. CASE p # q
  <2>1. grants'[p] = grants[p] /\ throttle'[p] = throttle[p]
    BY <1>1, <1>2, <1>5 DEF StartWindow, CountRequest
  <2> QED
    BY <1>4, <2>1, NobodyGetsIn DEF GrantInv
<1>6. CASE p = q
  <2>1. /\ grants'[p] = grants[p] + 1 /\ grants[p] \in Nat /\ throttle[p].n \in Nat
        /\ Pending(call[w], p) /\ GrantOk(p)
    BY <1>1, <1>2, <1>6 DEF Pending, GrantInv
  <2>2. CASE StartWindow(w)
    <3>1. w \in Starters(p) /\ Counters(p)' = Counters(p)
      BY <1>4, <2>1, <2>2 DEF StartWindow, Starters, Counters
    <3>2. Cardinality(Starters(p)') = Cardinality(Starters(p)) - 1
          /\ Cardinality(Starters(p)) \in Nat \ {0}
      BY <1>4, <3>1, FewPending, FS_RemoveElement, FS_EmptySet
    <3>3. throttle'[p].n = 1
      BY <1>1, <1>2, <1>6, <2>2 DEF StartWindow
    <3> QED
      BY <2>1, <3>1, <3>2, <3>3, FewPending, WithinStarted DEF GrantOk
  <2>3. CASE CountRequest(w)
    <3>1. w \in Counters(p) /\ Starters(p)' = Starters(p)
      BY <1>4, <2>1, <2>3 DEF CountRequest, Starters, Counters
    <3>2. Cardinality(Counters(p)') = Cardinality(Counters(p)) - 1
          /\ Cardinality(Counters(p)) \in Nat \ {0}
      BY <1>4, <3>1, FewPending, FS_RemoveElement, FS_EmptySet
    <3>3. throttle'[p].n = throttle[p].n + 1 /\ throttle[p].n \in Nat \ {0}
      <4>1. throttle[p].ttl > 0
        BY <1>1, <1>6, <2>3 DEF CountRequest
      <4> QED
        BY <1>1, <1>2, <1>6, <2>3, <4>1, CountsAreNat DEF CountRequest
    <3> QED
      BY <2>1, <3>1, <3>2, <3>3, FewPending, WithinCounted DEF GrantOk
  <2> QED
    BY <2>2, <2>3
<1> QED
  BY <1>5, <1>6

\* A window ends with its counter, and the grants in it with the window.
LEMMA TickGrants ==
  ASSUME IsFiniteSet(Workers), IInv, IInv', GrantInv, Tick
  PROVE  GrantInv'
<1> SUFFICES ASSUME NEW p \in Phones PROVE GrantOk(p)'
  BY DEF GrantInv
<1>1. call' = call
  BY DEF Tick
<1>2. Starters(p)' \subseteq Starters(p) /\ Counters(p)' \subseteq Counters(p)
  BY <1>1 DEF Starters, Counters, Pending
<1>3. throttle'[p] = Aged(throttle[p], NoCount)
      /\ grants'[p] = IF throttle[p].ttl > 1 THEN grants[p] ELSE 0
  BY DEF Tick
<1>4. CASE throttle[p].ttl > 1
  BY <1>2, <1>3, <1>4, NobodyGetsIn DEF Aged, GrantInv, IInv, CacheInv
<1>5. CASE ~ throttle[p].ttl > 1
  BY <1>2, <1>3, <1>5, NobodyGetsIn DEF Aged, NoCount, GrantInv
<1> QED
  BY <1>4, <1>5

LEMMA GrantNextInv ==
  ASSUME IsFiniteSet(Workers), IInv, IInv', GrantInv, [Next]_vars
  PROVE  GrantInv'
<1> USE DEF cacheVars, historyVars
<1>1. ASSUME NEW w \in Workers, RequestStep(w) PROVE GrantInv'
  <2>1. CASE RefuseRequest(w) \/ CountFails(w) \/ SendSms(w)
    BY <2>1, AnswersGrantNothing DEF RefuseRequest, CountFails, SendSms
  <2> QED
    BY <1>1, <2>1, AdmissionGrants, StillPending, CountingGrants DEF RequestStep
<1>2. ASSUME NEW w \in Workers, VerifyStep(w) PROVE GrantInv'
  <2>1. CASE RefuseLocked(w) \/ RefuseMissing(w) \/ RecordMiss(w) \/ Accept(w)
    BY <2>1, AnswersGrantNothing DEF RefuseLocked, RefuseMissing, RecordMiss, Accept
  <2>2. CASE ReadAttempts(w) \/ CompareCode(w) \/ DropCode(w)
    <3>1. PICK c : call' = [call EXCEPT ![w] = c]
                   /\ c.pc \in {"get_code", "drop_code", "miss", "drop_attempts"}
      <4>1. call[w] \in CallType
        BY DEF IInv, CallInv
      <4>2. \A step, n : [call[w] EXCEPT !.pc = step, !.seen = n].pc = step
        BY <4>1 DEF CallType
      <4>3. \A step, b : [call[w] EXCEPT !.pc = step, !.own = b].pc = step
        BY <4>1 DEF CallType
      <4>4. \A step : [call[w] EXCEPT !.pc = step].pc = step
        BY <4>1 DEF CallType
      <4>5. CASE ReadAttempts(w)
        <5>1. call' = [call EXCEPT ![w] =
                         [call[w] EXCEPT !.pc = "get_code", !.seen = AttemptCount(w)]]
          BY <4>5 DEF ReadAttempts
        <5>2. [call[w] EXCEPT !.pc = "get_code", !.seen = AttemptCount(w)].pc = "get_code"
          BY <4>2, Zenon
        <5> QED
          BY <5>1, <5>2, Zenon
      <4>6. CASE CompareCode(w)
        <5>1. PICK step \in {"drop_code", "miss"} :
                call' = [call EXCEPT ![w] = [call[w] EXCEPT !.pc = step, !.own = TRUE]]
          BY <4>6 DEF CompareCode
        <5>2. [call[w] EXCEPT !.pc = step, !.own = TRUE].pc = step
          BY <4>3, Zenon
        <5> QED
          BY <5>1, <5>2, Zenon
      <4>7. CASE DropCode(w)
        BY <4>4, <4>7 DEF DropCode, Goto
      <4> QED
        BY <2>2, <4>5, <4>6, <4>7
    <3>2. UNCHANGED <<throttle, grants>>
      BY <2>2 DEF ReadAttempts, CompareCode, DropCode
    <3> QED
      BY <3>1, <3>2, NoGrantInSight
  <2> QED
    BY <1>2, <2>1, <2>2 DEF VerifyStep
<1>3. ASSUME NEW w \in Workers, NEW k \in Keys, CallRequest(w, k) PROVE GrantInv'
  <2>1. CallAt("get_count", k, NoCode).pc = "get_count"
    BY DEF CallAt
  <2> QED
    BY <1>3, <2>1, NoGrantInSight DEF CallRequest
<1>4. ASSUME NEW w \in Workers, NEW k \in Keys, NEW c \in Codes, CallVerify(w, k, c)
      PROVE  GrantInv'
  <2>1. CallAt("get_attempts", k, c).pc = "get_attempts"
    BY DEF CallAt
  <2> QED
    BY <1>4, <2>1, NoGrantInSight DEF CallVerify
<1>5. ASSUME NEW w \in Workers, Return(w) \/ Abort(w) PROVE GrantInv'
  <2>1. Idle.pc = "idle"
    BY DEF Idle, CallAt
  <2> QED
    BY <1>5, <2>1, NoGrantInSight DEF Return, Abort
<1>6. CASE UNCHANGED vars
  BY <1>6 DEF vars, GrantInv, GrantOk, Starters, Counters
<1> QED
  BY <1>1, <1>2, <1>3, <1>4, <1>5, <1>6, TickGrants DEF Next

\* Requests that race on the throttle overrun its limit by no more than
\* OvershootBound says, however many workers there are.
THEOREM GrantsAreBounded ==
  ASSUME IsFiniteSet(Workers)
  PROVE  Spec => []ThrottleOvershoot
<1>1. Init => GrantInv
  <2> SUFFICES ASSUME Init, NEW p \in Phones PROVE GrantOk(p)
    BY DEF GrantInv
  <2>1. grants[p] = 0 /\ throttle[p].n = 0
    BY DEF Init, NoCount
  <2> QED
    BY <2>1 DEF GrantOk, Within
<1>2. IInv /\ IInv' /\ GrantInv /\ [Next]_vars => GrantInv'
  BY GrantNextInv
<1>3. IInv /\ GrantInv => ThrottleOvershoot
  <2> SUFFICES ASSUME IInv, GrantInv, NEW p \in Phones PROVE grants[p] <= OvershootBound
    BY DEF ThrottleOvershoot
  <2> QED
    BY FewPending, CountsAreNat, WithinBound DEF GrantInv, GrantOk, OvershootBound
<1> QED
  BY InitIInv, NextIInv, <1>1, <1>2, <1>3, PTL DEF Spec

----------------------------------------------------------------------------
(***************************************************************************)
(* Calls that do not overlap.  What the docstrings of otp.py promise holds *)
(* for one worker, for any numbers, purposes, codes and limits, and        *)
(* wherever a call dies: a code is accepted once, is guessed at no more    *)
(* than the limit, a number gets no more codes than the limit in a window, *)
(* and the code in the text is fresh.  The runs that race two workers show *)
(* that each of the limits needs it.                                       *)
(*                                                                         *)
(* The cache says what happened to the stored code (KeyOk, PhoneOk), and   *)
(* what the only call has read is still there, or has lapsed (CallOk).     *)
(***************************************************************************)

OneWorker == \A v, w \in Workers : v = w

KeyOk(k) ==
    /\ otp[k].ttl > 0 => uses[k] = 0 /\ wrong[k] <= attempts[k].n
    /\ uses[k] <= 1 /\ wrong[k] <= MAX_VERIFY_ATTEMPTS

PhoneOk(p) == grants[p] <= throttle[p].n /\ throttle[p].n <= THROTTLE_MAX_REQUESTS

\* Of a verification.
VerifyOk(c) ==
    /\ c.pc = "get_code" /\ otp[c.key].ttl > 0 => wrong[c.key] <= c.seen
    /\ c.pc = "miss" => wrong[c.key] <= c.seen
    /\ c.pc \in {"miss", "drop_code", "drop_attempts"} => c.own
    /\ c.pc \in {"drop_code", "drop_attempts"} => uses[c.key] = 0
    /\ c.pc = "drop_attempts" => otp[c.key].ttl = 0

\* Of a request.
RequestOk(c) ==
    /\ c.pc \in {"set_code", "clear_attempts", "count"} =>
          throttle[PhoneOf(c.key)].n \in {0, c.seen} /\ c.seen < THROTTLE_MAX_REQUESTS
    /\ c.pc = "clear_attempts" => wrong[c.key] = 0
    /\ c.pc \in {"clear_attempts", "count", "sms"} => otp[c.key].code \in {c.code, NoCode}
    /\ c.pc \in {"count", "sms"} => attempts[c.key].n = 0

CallOk(c) == VerifyOk(c) /\ RequestOk(c)

SerialInv ==
    /\ IInv
    /\ \A k \in Keys : KeyOk(k)
    /\ \A p \in Phones : PhoneOk(p)
    /\ \A w \in Workers : CallOk(call[w])

----------------------------------------------------------------------------

\* The facts a step starts from.
LEMMA SerialFacts ==
  ASSUME SerialInv, NEW w \in Workers, Running(w) \/ call[w].pc = "returned"
  PROVE  /\ call[w] \in CallType /\ call[w].key \in Keys /\ PhoneOf(call[w].key) \in Phones
         /\ GoodCall(call[w]) /\ VerifyOk(call[w]) /\ RequestOk(call[w])
         /\ KeyOk(call[w].key) /\ PhoneOk(PhoneOf(call[w].key))
  BY PhoneOfKey DEF SerialInv, IInv, CallInv, GoodCall, CallOk, Running, RequestSteps, VerifySteps

\* A step of a call that only reads the cache.
LEMMA ReadKeepsSerial ==
  ASSUME OneWorker, SerialInv, IInv', NEW w \in Workers, UNCHANGED <<cacheVars, historyVars>>,
         CallOk(call[w])'
  PROVE  SerialInv'
<1>1. \A v \in Workers : CallOk(call[v])'
  BY DEF OneWorker
<1> QED
  BY <1>1 DEF SerialInv, KeyOk, PhoneOk, cacheVars, historyVars

LEMMA AnswersKeepSerial ==
  ASSUME OneWorker, SerialInv, IInv', NEW w \in Workers, NEW r, Answer(w, r),
         UNCHANGED <<cacheVars, historyVars>>
  PROVE  SerialInv'
<1>1. call'[w].pc = "returned"
  BY DEF Answer, SerialInv, IInv, CallInv
<1>2. CallOk(call[w])'
  BY <1>1 DEF CallOk, VerifyOk, RequestOk
<1> QED
  BY <1>2, ReadKeepsSerial

LEMMA AdmitSerial ==
  ASSUME OneWorker, SerialInv, IInv', NEW w \in Workers, AdmitRequest(w) PROVE SerialInv'
<1>1. /\ call[w].key \in Keys /\ PhoneOf(call[w].key) \in Phones /\ call[w] \in CallType
      /\ call[w].pc = "get_count"
  BY SerialFacts DEF AdmitRequest, Running, RequestSteps
<1>2. throttle[PhoneOf(call[w].key)].n \in Nat
  BY <1>1 DEF SerialInv, IInv, CacheInv
<1>3. /\ call'[w].pc = "set_code" /\ call'[w].key = call[w].key
      /\ call'[w].seen = throttle[PhoneOf(call[w].key)].n
  BY <1>1 DEF AdmitRequest, ThrottleCount, CallType, SerialInv, IInv, CallInv
<1>4. throttle[PhoneOf(call[w].key)].n < THROTTLE_MAX_REQUESTS
  BY <1>2, LimitsAssumption DEF AdmitRequest, Throttled, ThrottleCount
<1>5. CallOk(call[w])'
  BY <1>3, <1>4 DEF AdmitRequest, CallOk, VerifyOk, RequestOk, cacheVars
<1> QED
  BY <1>5, ReadKeepsSerial DEF AdmitRequest

LEMMA StoreSerial ==
  ASSUME OneWorker, SerialInv, IInv', NEW w \in Workers, StoreCode(w) PROVE SerialInv'
<1>1. /\ call[w].key \in Keys /\ PhoneOf(call[w].key) \in Phones /\ call[w] \in CallType
      /\ call[w].pc = "set_code" /\ RequestOk(call[w])
  BY SerialFacts DEF StoreCode, Running, RequestSteps
<1>2. PICK k \in Keys : k = call[w].key
  BY <1>1
<1>3. PICK c \in Codes :
        /\ otp' = [otp EXCEPT ![k] = NewEntry(k, c)]
        /\ call'[w] = [call[w] EXCEPT !.pc = "clear_attempts", !.code = c]
  BY <1>2 DEF StoreCode
<1>4. /\ call'[w].pc = "clear_attempts" /\ call'[w].code = c /\ call'[w].key = k
      /\ call'[w].seen = call[w].seen
  BY <1>1, <1>2, <1>3 DEF CallType
<1>5. /\ uses' = [uses EXCEPT ![k] = 0] /\ wrong' = [wrong EXCEPT ![k] = 0]
      /\ attempts' = attempts /\ throttle' = throttle /\ grants' = grants
  BY <1>2 DEF StoreCode
<1>6. otp'[k].code = c /\ wrong'[k] = 0
  BY <1>3, <1>5 DEF NewEntry, SerialInv, IInv, CacheInv
<1>7. CallOk(call[w])'
  BY <1>1, <1>2, <1>4, <1>5, <1>6 DEF CallOk, VerifyOk, RequestOk
<1>8. ASSUME NEW j \in Keys PROVE KeyOk(j)'
  <2>1. attempts[j].n \in Nat /\ KeyOk(j)
    BY LimitsAssumption DEF SerialInv, IInv, CacheInv
  <2>2. CASE j = k
    BY <1>5, <2>1, <2>2, LimitsAssumption DEF KeyOk, SerialInv, IInv, CacheInv
  <2>3. CASE j # k
    BY <1>3, <1>5, <2>1, <2>3 DEF KeyOk, SerialInv, IInv, CacheInv
  <2> QED
    BY <2>2, <2>3
<1>9. \A p \in Phones : PhoneOk(p)'
  BY <1>5 DEF PhoneOk, SerialInv
<1> QED
  BY <1>7, <1>8, <1>9 DEF SerialInv, OneWorker

LEMMA ClearSerial ==
  ASSUME OneWorker, SerialInv, IInv', NEW w \in Workers, ClearAttempts(w) PROVE SerialInv'
<1>1. /\ call[w].key \in Keys /\ call[w] \in CallType
      /\ call[w].pc = "clear_attempts" /\ RequestOk(call[w])
  BY SerialFacts DEF ClearAttempts, Running, RequestSteps
<1>2. PICK k \in Keys : k = call[w].key
  BY <1>1
<1>3. /\ attempts' = [attempts EXCEPT ![k] = NoCount]
      /\ otp' = otp /\ throttle' = throttle /\ uses' = uses /\ wrong' = wrong /\ grants' = grants
  BY <1>2 DEF ClearAttempts, historyVars
<1>4. /\ call'[w].pc = "count" /\ call'[w].key = k /\ call'[w].seen = call[w].seen
      /\ call'[w].code = call[w].code
  BY <1>1, <1>2 DEF ClearAttempts, Goto, CallType, SerialInv, IInv, CallInv
<1>5. attempts'[k].n = 0 /\ \A j \in Keys \ {k} : attempts'[j] = attempts[j]
  BY <1>3 DEF NoCount, SerialInv, IInv, CacheInv
<1>6. CallOk(call[w])'
  BY <1>1, <1>2, <1>3, <1>4, <1>5 DEF CallOk, VerifyOk, RequestOk
<1>7. \A j \in Keys : KeyOk(j)'
  BY <1>1, <1>2, <1>3, <1>5, LimitsAssumption DEF KeyOk, RequestOk, SerialInv
<1>8. \A p \in Phones : PhoneOk(p)'
  BY <1>3 DEF PhoneOk, SerialInv
<1> QED
  BY <1>6, <1>7, <1>8 DEF SerialInv, OneWorker

LEMMA CountSerial ==
  ASSUME OneWorker, SerialInv, IInv', NEW w \in Workers, StartWindow(w) \/ CountRequest(w)
  PROVE  SerialInv'
<1>1. /\ call[w].key \in Keys /\ PhoneOf(call[w].key) \in Phones /\ call[w] \in CallType
      /\ call[w].pc = "count" /\ RequestOk(call[w])
  BY SerialFacts DEF StartWindow, CountRequest, Running, RequestSteps
<1>2. PICK p \in Phones : p = PhoneOf(call[w].key)
  BY <1>1
<1>3. /\ attempts' = attempts /\ otp' = otp /\ uses' = uses /\ wrong' = wrong
      /\ grants' = [grants EXCEPT ![p] = @ + 1]
      /\ \A q \in Phones \ {p} : throttle'[q] = throttle[q]
  BY <1>2 DEF StartWindow, CountRequest, SerialInv, IInv, CacheInv
<1>4. /\ call'[w].pc = "sms" /\ call'[w].key = call[w].key /\ call'[w].code = call[w].code
  BY <1>1 DEF StartWindow, CountRequest, Goto, CallType, SerialInv, IInv, CallInv
<1>5. CallOk(call[w])'
  BY <1>1, <1>3, <1>4 DEF CallOk, VerifyOk, RequestOk
<1>6. \A j \in Keys : KeyOk(j)'
  BY <1>3 DEF KeyOk, SerialInv
<1>7. grants[p] \in Nat /\ throttle[p].n \in Nat /\ PhoneOk(p) /\ call[w].seen \in Nat
  BY <1>1 DEF SerialInv, IInv, CacheInv, CallType
<1>8. throttle'[p].n = throttle[p].n + 1 /\ throttle[p].n < THROTTLE_MAX_REQUESTS
  <2>1. CASE StartWindow(w)
    <3>1. throttle' = [throttle EXCEPT ![p] = [n |-> 1, ttl |-> THROTTLE_WINDOW_SECONDS]]
      BY <1>2, <2>1 DEF StartWindow
    <3>2. throttle[p].n = 0 /\ throttle'[p].n = 1
      BY <1>1, <1>2, <2>1, <3>1 DEF StartWindow, RequestOk, SerialInv, IInv, CacheInv
    <3> QED
      BY <3>2, LimitsAssumption
  <2>2. CASE CountRequest(w)
    <3>1. /\ throttle' = [throttle EXCEPT ![p].n = @ + 1]
          /\ throttle[p].ttl > 0
      BY <1>2, <2>2 DEF CountRequest
    <3>2. throttle'[p].n = throttle[p].n + 1 /\ throttle[p].n # 0
      BY <1>7, <3>1 DEF SerialInv, IInv, CacheInv
    <3> QED
      BY <1>1, <1>2, <3>2 DEF RequestOk
  <2> QED
    BY <2>1, <2>2
<1>9. \A q \in Phones : PhoneOk(q)'
  <2>1. grants'[p] = grants[p] + 1 /\ \A q \in Phones \ {p} : grants'[q] = grants[q]
    BY <1>3 DEF SerialInv, IInv, CacheInv
  <2>2. PhoneOk(p)'
    BY <1>7, <1>8, <2>1, LimitsAssumption DEF PhoneOk
  <2>3. \A q \in Phones \ {p} : PhoneOk(q)'
    BY <1>3, <2>1 DEF PhoneOk, SerialInv
  <2> QED
    BY <2>2, <2>3
<1> QED
  BY <1>5, <1>6, <1>9 DEF SerialInv, OneWorker

LEMMA RequestSerial ==
  ASSUME OneWorker, SerialInv, IInv', NEW w \in Workers, RequestStep(w) PROVE SerialInv'
<1>1. CASE RefuseRequest(w)
  BY <1>1, AnswersKeepSerial DEF RefuseRequest
<1>2. CASE CountFails(w)
  BY <1>2, AnswersKeepSerial DEF CountFails
<1>3. CASE SendSms(w)
  BY <1>3, AnswersKeepSerial DEF SendSms
<1> QED
  BY <1>1, <1>2, <1>3, AdmitSerial, StoreSerial, ClearSerial, CountSerial DEF RequestStep

----------------------------------------------------------------------------

LEMMA CallSerial ==
  ASSUME OneWorker, SerialInv, IInv', NEW w \in Workers, NEW k, NEW c,
         CallRequest(w, k) \/ CallVerify(w, k, c)
  PROVE  SerialInv'
<1>1. call'[w].pc \in {"get_count", "get_attempts"}
  BY DEF CallRequest, CallVerify, CallAt, SerialInv, IInv, CallInv
<1>2. CallOk(call[w])'
  BY <1>1 DEF CallOk, VerifyOk, RequestOk
<1> QED
  BY <1>2, ReadKeepsSerial DEF CallRequest, CallVerify

LEMMA EndSerial ==
  ASSUME OneWorker, SerialInv, IInv', NEW w \in Workers, Return(w) \/ Abort(w)
  PROVE  SerialInv'
<1>1. call'[w].pc = "idle"
  BY DEF Return, Abort, Idle, CallAt, SerialInv, IInv, CallInv
<1>2. CallOk(call[w])'
  BY <1>1 DEF CallOk, VerifyOk, RequestOk
<1> QED
  BY <1>2, ReadKeepsSerial DEF Return, Abort

LEMMA ReadAttemptsSerial ==
  ASSUME OneWorker, SerialInv, IInv', NEW w \in Workers, ReadAttempts(w) PROVE SerialInv'
<1>1. /\ call[w].key \in Keys /\ call[w] \in CallType /\ KeyOk(call[w].key)
      /\ call[w].pc = "get_attempts"
  BY SerialFacts DEF ReadAttempts, Running, VerifySteps
<1>2. /\ call'[w].pc = "get_code" /\ call'[w].key = call[w].key
      /\ call'[w].seen = attempts[call[w].key].n
  BY <1>1 DEF ReadAttempts, AttemptCount, CallType, SerialInv, IInv, CallInv
<1>3. CallOk(call[w])'
  BY <1>1, <1>2 DEF ReadAttempts, CallOk, VerifyOk, RequestOk, KeyOk, cacheVars, historyVars
<1> QED
  BY <1>3, ReadKeepsSerial DEF ReadAttempts

LEMMA CompareSerial ==
  ASSUME OneWorker, SerialInv, IInv', NEW w \in Workers, CompareCode(w) PROVE SerialInv'
<1>1. /\ call[w].key \in Keys /\ call[w] \in CallType /\ KeyOk(call[w].key)
      /\ call[w].pc = "get_code" /\ VerifyOk(call[w])
  BY SerialFacts DEF CompareCode, Running, VerifySteps
<1>2. /\ call'[w].pc \in {"drop_code", "miss"} /\ call'[w].key = call[w].key
      /\ call'[w].seen = call[w].seen /\ call'[w].own = TRUE
  BY <1>1 DEF CompareCode, CallType, SerialInv, IInv, CallInv
<1>3. CallOk(call[w])'
  BY <1>1, <1>2 DEF CompareCode, CallOk, VerifyOk, RequestOk, KeyOk, cacheVars, historyVars
<1> QED
  BY <1>3, ReadKeepsSerial DEF CompareCode

LEMMA MissSerial ==
  ASSUME OneWorker, SerialInv, IInv', NEW w \in Workers, RecordMiss(w) PROVE SerialInv'
<1>1. /\ call[w].key \in Keys /\ call[w] \in CallType /\ KeyOk(call[w].key)
      /\ call[w].pc = "miss" /\ VerifyOk(call[w]) /\ GoodCall(call[w])
  BY SerialFacts DEF RecordMiss, Running, VerifySteps
<1>2. PICK k \in Keys : k = call[w].key
  BY <1>1
<1>3. /\ attempts' = [attempts EXCEPT ![k] = MissEntry(w)]
      /\ wrong' = [wrong EXCEPT ![k] = @ + 1]
      /\ otp' = otp /\ throttle' = throttle /\ uses' = uses /\ grants' = grants
  BY <1>1, <1>2 DEF RecordMiss, VerifyOk, SerialInv, IInv, CacheInv
<1>4. /\ attempts'[k].n = call[w].seen + 1 /\ wrong'[k] = wrong[k] + 1
      /\ \A j \in Keys \ {k} : attempts'[j] = attempts[j] /\ wrong'[j] = wrong[j]
  BY <1>3 DEF MissEntry, SerialInv, IInv, CacheInv
<1>5. /\ wrong[k] <= call[w].seen /\ call[w].seen < MAX_VERIFY_ATTEMPTS
      /\ wrong[k] \in Nat /\ call[w].seen \in Nat
  BY <1>1, <1>2 DEF VerifyOk, GoodCall, CallType, SerialInv, IInv, CacheInv
<1>6. KeyOk(k)'
  BY <1>1, <1>2, <1>3, <1>4, <1>5, LimitsAssumption DEF KeyOk
<1>7. \A j \in Keys \ {k} : KeyOk(j)'
  BY <1>3, <1>4 DEF KeyOk, SerialInv
<1>8. \A p \in Phones : PhoneOk(p)'
  BY <1>3 DEF PhoneOk, SerialInv
<1>9. CallOk(call[w])'
  <2>1. call'[w].pc = "returned"
    BY DEF RecordMiss, Answer, SerialInv, IInv, CallInv
  <2> QED
    BY <2>1 DEF CallOk, VerifyOk, RequestOk
<1> QED
  BY <1>6, <1>7, <1>8, <1>9 DEF SerialInv, OneWorker

LEMMA DropSerial ==
  ASSUME OneWorker, SerialInv, IInv', NEW w \in Workers, DropCode(w) PROVE SerialInv'
<1>1. /\ call[w].key \in Keys /\ call[w] \in CallType
      /\ call[w].pc = "drop_code" /\ VerifyOk(call[w])
  BY SerialFacts DEF DropCode, Running, VerifySteps
<1>2. PICK k \in Keys : k = call[w].key
  BY <1>1
<1>3. /\ otp' = [otp EXCEPT ![k] = NoOtp]
      /\ attempts' = attempts /\ throttle' = throttle
      /\ uses' = uses /\ wrong' = wrong /\ grants' = grants
  BY <1>2 DEF DropCode, historyVars
<1>4. otp'[k].ttl = 0 /\ \A j \in Keys \ {k} : otp'[j] = otp[j]
  BY <1>3 DEF NoOtp, SerialInv, IInv, CacheInv
<1>5. /\ call'[w].pc = "drop_attempts" /\ call'[w].key = k /\ call'[w].own = call[w].own
  BY <1>1, <1>2 DEF DropCode, Goto, CallType, SerialInv, IInv, CallInv
<1>6. CallOk(call[w])'
  BY <1>1, <1>2, <1>3, <1>4, <1>5 DEF CallOk, VerifyOk, RequestOk
<1>7. \A j \in Keys : KeyOk(j)'
  BY <1>3, <1>4 DEF KeyOk, SerialInv
<1>8. \A p \in Phones : PhoneOk(p)'
  BY <1>3 DEF PhoneOk, SerialInv
<1> QED
  BY <1>6, <1>7, <1>8 DEF SerialInv, OneWorker

LEMMA AcceptSerial ==
  ASSUME OneWorker, SerialInv, IInv', NEW w \in Workers, Accept(w) PROVE SerialInv'
<1>1. /\ call[w].key \in Keys /\ call[w] \in CallType
      /\ call[w].pc = "drop_attempts" /\ VerifyOk(call[w])
  BY SerialFacts DEF Accept, Running, VerifySteps
<1>2. PICK k \in Keys : k = call[w].key
  BY <1>1
<1>3. /\ uses' = [uses EXCEPT ![k] = @ + 1] /\ attempts' = [attempts EXCEPT ![k] = NoCount]
      /\ otp' = otp /\ throttle' = throttle /\ wrong' = wrong /\ grants' = grants
  BY <1>1, <1>2 DEF Accept, VerifyOk, SerialInv, IInv, CacheInv
<1>4. /\ uses'[k] = 1
      /\ \A j \in Keys \ {k} : uses'[j] = uses[j] /\ attempts'[j] = attempts[j]
  BY <1>1, <1>2, <1>3 DEF VerifyOk, SerialInv, IInv, CacheInv
<1>5. \A j \in Keys : KeyOk(j)'
  BY <1>1, <1>2, <1>3, <1>4 DEF VerifyOk, KeyOk, SerialInv
<1>6. \A p \in Phones : PhoneOk(p)'
  BY <1>3 DEF PhoneOk, SerialInv
<1>7. CallOk(call[w])'
  <2>1. call'[w].pc = "returned"
    BY DEF Accept, Answer, SerialInv, IInv, CallInv
  <2> QED
    BY <2>1 DEF CallOk, VerifyOk, RequestOk
<1> QED
  BY <1>5, <1>6, <1>7 DEF SerialInv, OneWorker

LEMMA VerifySerial ==
  ASSUME OneWorker, SerialInv, IInv', NEW w \in Workers, VerifyStep(w) PROVE SerialInv'
<1>1. CASE RefuseLocked(w)
  BY <1>1, AnswersKeepSerial DEF RefuseLocked
<1>2. CASE RefuseMissing(w)
  BY <1>2, AnswersKeepSerial DEF RefuseMissing
<1> QED
  BY <1>1, <1>2, ReadAttemptsSerial, CompareSerial, MissSerial, DropSerial, AcceptSerial
  DEF VerifyStep

----------------------------------------------------------------------------

\* A second takes an entry away or leaves what it says.
LEMMA AgedEntries ==
  ASSUME SerialInv, Tick
  PROVE  /\ \A k \in Keys : otp'[k].code \in {otp[k].code, NoCode}
         /\ \A k \in Keys : otp'[k].ttl > 0 => otp[k].ttl > 1
         /\ \A k \in Keys : attempts'[k].n = IF attempts[k].ttl > 1 THEN attempts[k].n ELSE 0
         /\ \A p \in Phones : throttle'[p].n = IF throttle[p].ttl > 1 THEN throttle[p].n ELSE 0
<1>1. ASSUME NEW k \in Keys PROVE otp'[k].code \in {otp[k].code, NoCode} /\ (otp'[k].ttl > 0 => otp[k].ttl > 1)
  <2>1. otp'[k] = Aged(otp[k], NoOtp)
    BY DEF Tick
  <2> QED
    BY <2>1 DEF Aged, NoOtp, SerialInv, IInv, CacheInv
<1>2. ASSUME NEW k \in Keys PROVE attempts'[k].n = IF attempts[k].ttl > 1 THEN attempts[k].n ELSE 0
  <2>1. attempts'[k] = Aged(attempts[k], NoCount)
    BY DEF Tick
  <2> QED
    BY <2>1 DEF Aged, NoCount, SerialInv, IInv, CacheInv
<1>3. ASSUME NEW p \in Phones PROVE throttle'[p].n = IF throttle[p].ttl > 1 THEN throttle[p].n ELSE 0
  <2>1. throttle'[p] = Aged(throttle[p], NoCount)
    BY DEF Tick
  <2> QED
    BY <2>1 DEF Aged, NoCount, SerialInv, IInv, CacheInv
<1> QED
  BY <1>1, <1>2, <1>3

LEMMA TickSerial ==
  ASSUME OneWorker, SerialInv, IInv', Tick PROVE SerialInv'
<1>1. UNCHANGED <<call, uses, wrong>>
  BY DEF Tick
<1>2. ASSUME NEW k \in Keys PROVE KeyOk(k)'
  <2>1. /\ KeyOk(k) /\ attempts[k].n \in Nat /\ attempts[k].ttl \in Nat /\ otp[k].ttl \in Nat
        /\ wrong[k] \in Nat
        /\ attempts[k].ttl = 0 => attempts[k].n = 0
        /\ wrong[k] > 0 /\ attempts[k].ttl > 0 => attempts[k].ttl >= otp[k].ttl
    BY DEF SerialInv, IInv, CacheInv, CountedGuessOutlivesCode
  <2>2. /\ otp'[k].ttl > 0 => otp[k].ttl > 1
        /\ attempts'[k].n = IF attempts[k].ttl > 1 THEN attempts[k].n ELSE 0
    BY AgedEntries
  <2> QED
    BY <1>1, <2>1, <2>2 DEF KeyOk
<1>3. ASSUME NEW p \in Phones PROVE PhoneOk(p)'
  <2>1. PhoneOk(p) /\ throttle[p].ttl \in Nat /\ throttle[p].n \in Nat
    BY DEF SerialInv, IInv, CacheInv
  <2>2. grants'[p] = IF throttle[p].ttl > 1 THEN grants[p] ELSE 0
    BY DEF Tick
  <2> QED
    BY <2>1, <2>2, AgedEntries, LimitsAssumption DEF PhoneOk
<1>4. ASSUME NEW w \in Workers PROVE CallOk(call[w])'
  <2>1. CASE call[w].pc \in {"idle", "returned"}
    BY <1>1, <2>1 DEF CallOk, VerifyOk, RequestOk
  <2>2. CASE Running(w)
    <3>1. /\ call[w].key \in Keys /\ PhoneOf(call[w].key) \in Phones
          /\ VerifyOk(call[w]) /\ RequestOk(call[w])
      BY <2>2, SerialFacts
    <3>2. VerifyOk(call[w])'
      BY <1>1, <3>1, AgedEntries DEF VerifyOk, SerialInv, IInv, CacheInv
    <3>3. RequestOk(call[w])'
      BY <1>1, <3>1, AgedEntries DEF RequestOk
    <3> QED
      BY <3>2, <3>3 DEF CallOk
  <2> QED
    BY <2>1, <2>2 DEF SerialInv, IInv, CallInv, CallType, Running
<1> QED
  BY <1>2, <1>3, <1>4 DEF SerialInv

LEMMA InitSerial == Init => SerialInv
<1> SUFFICES ASSUME Init PROVE SerialInv
  OBVIOUS
<1>1. \A k \in Keys : KeyOk(k)
  BY LimitsAssumption DEF Init, KeyOk, NoOtp, NoCount
<1>2. \A p \in Phones : PhoneOk(p)
  BY LimitsAssumption DEF Init, PhoneOk, NoCount
<1>3. \A w \in Workers : CallOk(call[w])
  BY DEF Init, Idle, CallAt, CallOk, VerifyOk, RequestOk
<1> QED
  BY <1>1, <1>2, <1>3, InitIInv DEF SerialInv

LEMMA NextSerial == ASSUME OneWorker PROVE SerialInv /\ [Next]_vars => SerialInv'
<1> SUFFICES ASSUME SerialInv, [Next]_vars PROVE SerialInv'
  OBVIOUS
<1>1. IInv'
  BY NextIInv DEF SerialInv
<1>2. CASE UNCHANGED vars
  BY <1>1, <1>2 DEF vars, cacheVars, historyVars, SerialInv, KeyOk, PhoneOk, CallOk, VerifyOk,
                    RequestOk
<1>3. CASE Tick
  BY <1>1, <1>3, TickSerial
<1>4. CASE Next /\ ~ Tick
  BY <1>1, <1>4, RequestSerial, VerifySerial, CallSerial, EndSerial DEF Next
<1> QED
  BY <1>2, <1>3, <1>4

\* Calls that do not overlap accept a stored code once, wherever they die.
THEOREM SerialCodesAreSingleUse == ASSUME OneWorker PROVE Spec => []SingleUse
<1>1. SerialInv => SingleUse
  BY DEF SerialInv, KeyOk, SingleUse
<1> QED
  BY InitSerial, NextSerial, <1>1, PTL DEF Spec

\* Calls that do not overlap compare no more guesses than the limit with a code.
THEOREM SerialGuessesAreCapped == ASSUME OneWorker PROVE Spec => []AttemptCap
<1>1. SerialInv => AttemptCap
  BY DEF SerialInv, KeyOk, AttemptCap
<1> QED
  BY InitSerial, NextSerial, <1>1, PTL DEF Spec

\* Calls that do not overlap grant a number no more codes than the limit in the
\* life of one window, all purposes together.
THEOREM SerialSendsAreCapped == ASSUME OneWorker PROVE Spec => []SendCap
<1>1. SerialInv => SendCap
  <2> SUFFICES ASSUME SerialInv, NEW p \in Phones PROVE grants[p] <= THROTTLE_MAX_REQUESTS
    BY DEF SendCap
  <2>1. PhoneOk(p) /\ grants[p] \in Nat /\ throttle[p].n \in Nat
    BY DEF SerialInv, IInv, CacheInv
  <2> QED
    BY <2>1, LimitsAssumption DEF PhoneOk
<1> QED
  BY InitSerial, NextSerial, <1>1, PTL DEF Spec

\* Calls that do not overlap text the code that is stored, with all its guesses.
THEOREM SerialTextsAreFresh == ASSUME OneWorker PROVE Spec => []TextedCodeIsFresh
<1>1. SerialInv => TextedCodeIsFresh
  BY DEF SerialInv, CallOk, RequestOk, TextedCodeIsFresh
<1> QED
  BY InitSerial, NextSerial, <1>1, PTL DEF Spec
=============================================================================
