-------------------------- MODULE MCGoogleLogin --------------------------
(***************************************************************************)
(* Instances of GoogleLogin for TLC.  All emails have the same local part, *)
(* so every new user wants the same username.                              *)
(***************************************************************************)
EXTENDS GoogleLogin, TLC

CONSTANTS e1, e2, g1

\* e2 is e1 with its domain in capitals: another email to everything but
\* normalize_email.
Normalize == (e1 :> e1 @@ e2 :> e1)

\* One account of Google, whose email may change between two logins, so that
\* account and email may belong to two users.
MCProfiles == {[google_id |-> g1, email |-> e] : e \in {e1, e2}}

\* With the bare name taken or free again, one more draw than rows a login meets.
MCSuffixes == {<<>>, <<"1">>, <<"2">>, <<"3">>}
MCLocalPart == (e1 :> <<"u">> @@ e2 :> <<"u">>)
MCOthersNames == {<<"u", "0", "0">> \o s : s \in {<<>>, <<"1">>}}
MCUsernames == {<<"u", "0", "0">> \o s : s \in MCSuffixes}

\* A letter, an underscore, a dot and a plus sign, which a username must not have.
MCChars == {"u", "s", "e", "r", "_", "0", "1", "2", "3", Dot}
MCLocalParts == UNION {[1 .. n -> {"u", "_", Dot, "+"}] : n \in 0 .. 6}

\* Evaluated once, for every local part and every draw.
ASSUME UsernameRule == \A local \in MCLocalParts, s \in MCSuffixes : RuleOrTwoCases(local, s)
=============================================================================
