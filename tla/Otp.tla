------------------------------- MODULE Otp -------------------------------
(***************************************************************************)
(* One-time codes kept in the shared cache: accounts/services/otp.py, and  *)
(* the two callers that text a granted code, registration.py and           *)
(* password_reset.py.                                                      *)
(*                                                                         *)
(* Every cache.get, set, delete and incr is one action, since each is one  *)
(* round trip to Redis and nothing groups them: the calls of the workers   *)
(* interleave between any two, time passes between any two, and a worker   *)
(* may die between any two.  A cache entry carries the seconds it has left *)
(* to live; zero seconds is an absent entry.                               *)
(***************************************************************************)
EXTENDS Integers, FiniteSets

CONSTANTS
    Workers,                   \* request threads or processes of the service
    Phones,
    Purposes,                  \* "register" and "password_reset" in the code
    Codes,                     \* what secrets.randbelow can draw
    NoCode,
    OTP_TTL_SECONDS,
    MAX_VERIFY_ATTEMPTS,
    THROTTLE_WINDOW_SECONDS,
    THROTTLE_MAX_REQUESTS,
    MayAbort                   \* whether a call may die before it returns

ASSUME LimitsAssumption ==
    /\ OTP_TTL_SECONDS \in Nat \ {0}
    /\ THROTTLE_WINDOW_SECONDS \in Nat \ {0}
    /\ MAX_VERIFY_ATTEMPTS \in Nat \ {0}
    /\ THROTTLE_MAX_REQUESTS \in Nat \ {0}
    /\ MayAbort \in BOOLEAN

ASSUME NoCodeAssumption == NoCode \notin Codes

(***************************************************************************)
(* Both the code and its attempt counter are keyed by number and purpose;  *)
(* the throttle counter by number alone, so the purposes share it.         *)
(***************************************************************************)
Keys == Phones \X Purposes
PhoneOf(key) == key[1]

NoKey == <<>>

VARIABLES
    otp,        \* otp[key]: the stored code (its hash) and its remaining life
    attempts,   \* attempts[key]: wrong guesses counted, and remaining life
    throttle,   \* throttle[phone]: requests counted, and remaining life
    call,       \* call[w]: the request_otp or verify_otp call of worker w
    \* What happened to the code now stored, for the properties only:
    uses,       \* uses[key]: calls that accepted it
    wrong,      \* wrong[key]: calls that compared it, differed and were counted
    grants      \* grants[phone]: requests counted since throttle[phone] began

cacheVars == <<otp, attempts, throttle>>
historyVars == <<uses, wrong, grants>>
vars == <<cacheVars, call, historyVars>>

----------------------------------------------------------------------------
(* Cache entries.                                                          *)

NoOtp == [code |-> NoCode, ttl |-> 0]
NoCount == [n |-> 0, ttl |-> 0]       \* cache.get(key, 0) of an absent key

\* One second passes for an entry; the last one removes it.
Aged(entry, absent) ==
    IF entry.ttl > 1 THEN [entry EXCEPT !.ttl = @ - 1] ELSE absent

----------------------------------------------------------------------------
(* Calls.  pc names the cache operation a call does next.                  *)

RequestSteps == {"get_count", "set_code", "clear_attempts", "count", "sms"}
VerifySteps == {"get_attempts", "get_code", "miss", "drop_code", "drop_attempts"}
Results == {"none", "granted", "throttled", "error", "accepted", "refused"}

CallAt(step, k, c) == [pc |-> step, key |-> k, code |-> c,
                       seen |-> 0, own |-> FALSE, result |-> "none"]

Idle == CallAt("idle", NoKey, NoCode)

Running(w) == call[w].pc \in RequestSteps \cup VerifySteps

Goto(w, step) == call' = [call EXCEPT ![w].pc = step]

\* The call's locals are gone; its key and its result remain for the caller.
Answer(w, result) ==
    call' = [call EXCEPT ![w] =
                [pc |-> "returned", key |-> call[w].key, code |-> NoCode,
                 seen |-> 0, own |-> FALSE, result |-> result]]

Init ==
    /\ otp = [k \in Keys |-> NoOtp]
    /\ attempts = [k \in Keys |-> NoCount]
    /\ throttle = [p \in Phones |-> NoCount]
    /\ call = [w \in Workers |-> Idle]
    /\ uses = [k \in Keys |-> 0]
    /\ wrong = [k \in Keys |-> 0]
    /\ grants = [p \in Phones |-> 0]

----------------------------------------------------------------------------
(* request_otp, and the text message that follows a granted one.           *)

CallRequest(w, k) ==
    /\ call[w] = Idle
    /\ call' = [call EXCEPT ![w] = CallAt("get_count", k, NoCode)]
    /\ UNCHANGED <<cacheVars, historyVars>>

ThrottleCount(w) == throttle[PhoneOf(call[w].key)].n

\* Mutant: one request too many.
ThrottledLate(w) == ThrottleCount(w) > THROTTLE_MAX_REQUESTS

Throttled(w) == ThrottleCount(w) >= THROTTLE_MAX_REQUESTS

\* Mutant: being refused starts the window over.
RefuseRequestAndExtend(w) ==
    /\ call[w].pc = "get_count"
    /\ Throttled(w)
    /\ throttle' = [throttle EXCEPT ![PhoneOf(call[w].key)].ttl = THROTTLE_WINDOW_SECONDS]
    /\ Answer(w, "throttled")
    /\ UNCHANGED <<otp, attempts, historyVars>>

RefuseRequest(w) ==
    /\ call[w].pc = "get_count"
    /\ Throttled(w)
    /\ Answer(w, "throttled")
    /\ UNCHANGED <<cacheVars, historyVars>>

AdmitRequest(w) ==
    /\ call[w].pc = "get_count"
    /\ ~ Throttled(w)
    /\ call' = [call EXCEPT ![w].pc = "set_code", ![w].seen = ThrottleCount(w)]
    /\ UNCHANGED <<cacheVars, historyVars>>

\* Mutant: a second request while a code is live does not replace it.
NewEntryUnlessLive(k, c) ==
    IF otp[k].ttl > 0 THEN otp[k] ELSE [code |-> c, ttl |-> OTP_TTL_SECONDS]

NewEntry(k, c) == [code |-> c, ttl |-> OTP_TTL_SECONDS]

\* The new code replaces whatever the key held: a comparison that another
\* call made with the old one no longer speaks of the stored code.
StoreCode(w) ==
    LET k == call[w].key IN
    /\ call[w].pc = "set_code"
    /\ \E c \in Codes :
        /\ otp' = [otp EXCEPT ![k] = NewEntry(k, c)]
        /\ call' = [v \in Workers |->
              IF v = w THEN [call[w] EXCEPT !.pc = "clear_attempts", !.code = c]
              ELSE IF call[v].key = k THEN [call[v] EXCEPT !.own = FALSE]
              ELSE call[v]]
    /\ uses' = [uses EXCEPT ![k] = 0]
    /\ wrong' = [wrong EXCEPT ![k] = 0]
    /\ UNCHANGED <<attempts, throttle, grants>>

\* Mutant: the counter is left as it was.
KeepAttempts(w) ==
    /\ call[w].pc = "clear_attempts"
    /\ Goto(w, "count")
    /\ UNCHANGED <<cacheVars, historyVars>>

ClearAttempts(w) ==
    /\ call[w].pc = "clear_attempts"
    /\ attempts' = [attempts EXCEPT ![call[w].key] = NoCount]
    /\ Goto(w, "count")
    /\ UNCHANGED <<otp, throttle, historyVars>>

\* The first request of a window starts its clock ...
StartWindow(w) ==
    LET p == PhoneOf(call[w].key) IN
    /\ call[w].pc = "count"
    /\ call[w].seen = 0
    /\ throttle' = [throttle EXCEPT ![p] = [n |-> 1, ttl |-> THROTTLE_WINDOW_SECONDS]]
    /\ grants' = [grants EXCEPT ![p] = @ + 1]
    /\ Goto(w, "sms")
    /\ UNCHANGED <<otp, attempts, uses, wrong>>

\* ... and incr counts the others, leaving the clock alone.
CountRequest(w) ==
    LET p == PhoneOf(call[w].key) IN
    /\ call[w].pc = "count"
    /\ call[w].seen > 0
    /\ throttle[p].ttl > 0
    /\ throttle' = [throttle EXCEPT ![p].n = @ + 1]
    /\ grants' = [grants EXCEPT ![p] = @ + 1]
    /\ Goto(w, "sms")
    /\ UNCHANGED <<otp, attempts, uses, wrong>>

\* incr of a key that lapsed since it was read raises ValueError.
CountFails(w) ==
    /\ call[w].pc = "count"
    /\ call[w].seen > 0
    /\ throttle[PhoneOf(call[w].key)].ttl = 0
    /\ Answer(w, "error")
    /\ UNCHANGED <<cacheVars, historyVars>>

\* The provider texts the code and answers True or False; nobody reads the
\* answer, so nothing below depends on it.
SendSms(w) ==
    /\ call[w].pc = "sms"
    /\ Answer(w, "granted")
    /\ UNCHANGED <<cacheVars, historyVars>>

----------------------------------------------------------------------------
(* verify_otp.                                                             *)

CallVerify(w, k, c) ==
    /\ call[w] = Idle
    /\ call' = [call EXCEPT ![w] = CallAt("get_attempts", k, c)]
    /\ UNCHANGED <<cacheVars, historyVars>>

AttemptCount(w) == attempts[call[w].key].n

\* Mutant: one guess too many.
LockedLate(w) == AttemptCount(w) > MAX_VERIFY_ATTEMPTS

Locked(w) == AttemptCount(w) >= MAX_VERIFY_ATTEMPTS

\* Mutant: a guess at a locked code locks it for longer.
RefuseLockedAndExtend(w) ==
    /\ call[w].pc = "get_attempts"
    /\ Locked(w)
    /\ attempts' = [attempts EXCEPT ![call[w].key].ttl = OTP_TTL_SECONDS]
    /\ Answer(w, "refused")
    /\ UNCHANGED <<otp, throttle, historyVars>>

RefuseLocked(w) ==
    /\ call[w].pc = "get_attempts"
    /\ Locked(w)
    /\ Answer(w, "refused")
    /\ UNCHANGED <<cacheVars, historyVars>>

ReadAttempts(w) ==
    /\ call[w].pc = "get_attempts"
    /\ ~ Locked(w)
    /\ call' = [call EXCEPT ![w].pc = "get_code", ![w].seen = AttemptCount(w)]
    /\ UNCHANGED <<cacheVars, historyVars>>

RefuseMissing(w) ==
    /\ call[w].pc = "get_code"
    /\ otp[call[w].key].ttl = 0
    /\ Answer(w, "refused")
    /\ UNCHANGED <<cacheVars, historyVars>>

CompareCode(w) ==
    LET stored == otp[call[w].key] IN
    /\ call[w].pc = "get_code"
    /\ stored.ttl > 0
    /\ call' = [call EXCEPT
                  ![w].pc = IF stored.code = call[w].code THEN "drop_code" ELSE "miss",
                  ![w].own = TRUE]
    /\ UNCHANGED <<cacheVars, historyVars>>

\* Mutant: the counter runs on the clock it was started with, as with incr.
MissEntryOnOldClock(w) ==
    [n |-> call[w].seen + 1,
     ttl |-> IF attempts[call[w].key].ttl > 0 THEN attempts[call[w].key].ttl ELSE OTP_TTL_SECONDS]

\* The count this call read plus one, with a full life of its own.
MissEntry(w) == [n |-> call[w].seen + 1, ttl |-> OTP_TTL_SECONDS]

RecordMiss(w) ==
    LET k == call[w].key IN
    /\ call[w].pc = "miss"
    /\ attempts' = [attempts EXCEPT ![k] = MissEntry(w)]
    /\ wrong' = [wrong EXCEPT ![k] = IF call[w].own THEN @ + 1 ELSE @]
    /\ Answer(w, "refused")
    /\ UNCHANGED <<otp, throttle, uses, grants>>

\* Mutant: the code stays until it lapses.
KeepCode(w) ==
    /\ call[w].pc = "drop_code"
    /\ Goto(w, "drop_attempts")
    /\ UNCHANGED <<cacheVars, historyVars>>

DropCode(w) ==
    /\ call[w].pc = "drop_code"
    /\ otp' = [otp EXCEPT ![call[w].key] = NoOtp]
    /\ Goto(w, "drop_attempts")
    /\ UNCHANGED <<attempts, throttle, historyVars>>

Accept(w) ==
    LET k == call[w].key IN
    /\ call[w].pc = "drop_attempts"
    /\ attempts' = [attempts EXCEPT ![k] = NoCount]
    /\ uses' = [uses EXCEPT ![k] = IF call[w].own THEN @ + 1 ELSE @]
    /\ Answer(w, "accepted")
    /\ UNCHANGED <<otp, throttle, wrong, grants>>

----------------------------------------------------------------------------
(* The caller takes the answer; a call dies; a second passes.              *)

Return(w) ==
    /\ call[w].pc = "returned"
    /\ call' = [call EXCEPT ![w] = Idle]
    /\ UNCHANGED <<cacheVars, historyVars>>

Abort(w) ==
    /\ MayAbort
    /\ Running(w)
    /\ call' = [call EXCEPT ![w] = Idle]
    /\ UNCHANGED <<cacheVars, historyVars>>

Tick ==
    /\ otp' = [k \in Keys |-> Aged(otp[k], NoOtp)]
    /\ attempts' = [k \in Keys |-> Aged(attempts[k], NoCount)]
    /\ throttle' = [p \in Phones |-> Aged(throttle[p], NoCount)]
    /\ grants' = [p \in Phones |-> IF throttle[p].ttl > 1 THEN grants[p] ELSE 0]
    /\ UNCHANGED <<call, uses, wrong>>

RequestStep(w) ==
    \/ RefuseRequest(w) \/ AdmitRequest(w) \/ StoreCode(w) \/ ClearAttempts(w)
    \/ StartWindow(w) \/ CountRequest(w) \/ CountFails(w) \/ SendSms(w)

VerifyStep(w) ==
    \/ RefuseLocked(w) \/ ReadAttempts(w) \/ RefuseMissing(w) \/ CompareCode(w)
    \/ RecordMiss(w) \/ DropCode(w) \/ Accept(w)

Next ==
    \/ \E w \in Workers :
        \/ \E k \in Keys : CallRequest(w, k)
        \/ \E k \in Keys, c \in Codes : CallVerify(w, k, c)
        \/ RequestStep(w)
        \/ VerifyStep(w)
        \/ Return(w)
        \/ Abort(w)
    \/ Tick

Spec == Init /\ [][Next]_vars

\* The clock runs.  Nobody is obliged to call, nor to go on with a call.
LiveSpec == Spec /\ WF_vars(Tick)

----------------------------------------------------------------------------
(* Properties.                                                             *)

CallType ==
    [pc : RequestSteps \cup VerifySteps \cup {"idle", "returned"},
     key : Keys \cup {NoKey}, code : Codes \cup {NoCode},
     seen : Nat, own : BOOLEAN, result : Results]

\* Type invariant: an absent entry reads as zero, a live one holds a code.
TypeOK ==
    /\ otp \in [Keys -> [code : Codes \cup {NoCode}, ttl : 0 .. OTP_TTL_SECONDS]]
    /\ attempts \in [Keys -> [n : 0 .. MAX_VERIFY_ATTEMPTS, ttl : 0 .. OTP_TTL_SECONDS]]
    /\ throttle \in [Phones -> [n : Nat, ttl : 0 .. THROTTLE_WINDOW_SECONDS]]
    /\ call \in [Workers -> CallType]
    /\ uses \in [Keys -> Nat]
    /\ wrong \in [Keys -> Nat]
    /\ grants \in [Phones -> Nat]
    /\ \A k \in Keys : otp[k].ttl = 0 <=> otp[k].code = NoCode
    /\ \A k \in Keys : attempts[k].ttl = 0 <=> attempts[k].n = 0
    /\ \A p \in Phones : throttle[p].ttl = 0 <=> throttle[p].n = 0
    /\ \A w \in Workers : call[w].pc # "idle" => call[w].key \in Keys

\* Whatever the workers interleave and wherever they die: once a wrong guess at
\* the stored code has been counted, the counter lapses no earlier than the
\* code, so waiting never buys further guesses at the same code.  It rests on
\* line 128 giving the counter a full life of its own.
CountedGuessOutlivesCode ==
    \A k \in Keys :
        wrong[k] > 0 /\ attempts[k].ttl > 0 => attempts[k].ttl >= otp[k].ttl

\* Requests that race on the throttle get past the limit, since get and
\* set/incr are separate (lines 85 and 98-101), but only by so much: one late
\* set per other worker restarts the count, and each worker overruns it once.
OvershootBound ==
    LET W == Cardinality(Workers) IN W * THROTTLE_MAX_REQUESTS + (W * (W - 1)) \div 2

ThrottleOvershoot == \A p \in Phones : grants[p] <= OvershootBound

\* Verifications that race on one code may all compare before the first of them
\* deletes it (lines 122-132), but each worker gets one acceptance out of it and
\* nobody who comes later does.
AcceptOvershoot == \A k \in Keys : uses[k] <= Cardinality(Workers)

\* A stored code is accepted once (line 109, "single-use in the true sense").
SingleUse == \A k \in Keys : uses[k] <= 1

\* At most MAX_VERIFY_ATTEMPTS guesses are compared with one stored code
\* (line 31), also when requests and verifications die half way.
AttemptCap == \A k \in Keys : wrong[k] <= MAX_VERIFY_ATTEMPTS

\* At most THROTTLE_MAX_REQUESTS codes are granted to a number, over all
\* purposes, in the life of one throttle window (lines 32-33).
SendCap == \A p \in Phones : grants[p] <= THROTTLE_MAX_REQUESTS

\* registration.py and password_reset.py text a code only after request_otp has
\* stored it and reset the counter (lines 94-95): the code in the text is the one
\* a verification will compare with, unless it already lapsed, and whatever was
\* guessed at earlier codes or left half done, it starts with all its guesses.
TextedCodeIsFresh ==
    \A w \in Workers :
        LET k == call[w].key IN
        call[w].pc = "sms" =>
            otp[k].code \in {call[w].code, NoCode} /\ attempts[k].n = 0

\* Refusals do not extend a lock or a throttle: however often callers retry,
\* the number can be verified again, and can ask for a code again, in time.
LockReopens == \A k \in Keys : []<>(attempts[k].n < MAX_VERIFY_ATTEMPTS)
ThrottleReopens == \A p \in Phones : []<>(throttle[p].n < THROTTLE_MAX_REQUESTS)
=============================================================================
