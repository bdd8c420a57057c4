-------------------------- MODULE SessionPromise --------------------------
(***************************************************************************)
(* What the sessions of a user promise, without lifetimes, caches, cookies *)
(* or queries.  A refresh token is live until it is logged out, expires or *)
(* the password changes.  A new live token is only ever given to a request *)
(* that proved the password now in force, or showed a token that was live, *)
(* and a new password takes that right from every request under way.       *)
(* Sessions implements this module (Sessions!PromiseKept).                 *)
(***************************************************************************)
EXTENDS Integers

CONSTANTS
    Tokens,
    Requests,
    LogoutsMayBeForgotten   \* whether the record of the logouts may be lost

VARIABLES
    life,    \* life[t]: "none" before t is issued, then "live", "out" (logged
             \* out), "dim" (its last second) or "void" (for good)
    right    \* right[r]: what entitles request r to a new token

promiseVars == <<life, right>>

PromiseInit ==
    /\ life = [t \in Tokens |-> "none"]
    /\ right = [r \in Requests |-> "nothing"]

\* The password, or a one-time code, was proved.
SignIn(r) ==
    /\ right[r] = "nothing"
    /\ right' = [right EXCEPT ![r] = "password"]
    /\ UNCHANGED life

\* A token is shown.  In the last second a logout no longer counts.
Show(r, t) ==
    /\ right[r] = "nothing"
    /\ life[t] \in {"live", "dim"}
    /\ right' = [right EXCEPT ![r] = "token"]
    /\ UNCHANGED life

Refused(r) ==
    /\ right[r] # "nothing"
    /\ right' = [right EXCEPT ![r] = "nothing"]
    /\ UNCHANGED life

IssueLive(r, t) ==
    /\ right[r] # "nothing"
    /\ life[t] = "none"
    /\ life' = [life EXCEPT ![t] = "live"]
    /\ right' = [right EXCEPT ![r] = "nothing"]

\* To a request that lost its right: the token is void from birth.
IssueVoid(t) ==
    /\ life[t] = "none"
    /\ life' = [life EXCEPT ![t] = "void"]
    /\ UNCHANGED right

LogOut(t) ==
    /\ life[t] = "live"
    /\ life' = [life EXCEPT ![t] = "out"]
    /\ UNCHANGED right

NewPassword ==
    /\ life' = [t \in Tokens |-> IF life[t] = "none" THEN "none" ELSE "void"]
    /\ right' = [r \in Requests |-> "nothing"]

Later(l) ==
    CASE l \in {"live", "out"} -> {l, "dim", "void"}
      [] l = "dim" -> {"dim", "void"}
      [] OTHER -> {l}

\* How long a token lives is not promised here.
Age ==
    /\ life' \in [Tokens -> {"none", "live", "out", "dim", "void"}]
    /\ \A t \in Tokens : life'[t] \in Later(life[t])
    /\ UNCHANGED right

ForgetLogouts ==
    /\ LogoutsMayBeForgotten
    /\ life' = [t \in Tokens |-> IF life[t] = "out" THEN "live" ELSE life[t]]
    /\ UNCHANGED right

PromiseNext ==
    \/ Age \/ NewPassword \/ ForgetLogouts
    \/ \E r \in Requests :
        \/ SignIn(r) \/ Refused(r)
        \/ \E t \in Tokens : Show(r, t) \/ IssueLive(r, t)
    \/ \E t \in Tokens : IssueVoid(t) \/ LogOut(t)

PromiseSpec == PromiseInit /\ [][PromiseNext]_promiseVars
=============================================================================
