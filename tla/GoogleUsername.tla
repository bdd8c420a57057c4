-------------------------- MODULE GoogleUsername --------------------------
(***************************************************************************)
(* _generate_unique_username, the part before its queries: the name it     *)
(* makes of the local part of an email, a sequence of characters.          *)
(***************************************************************************)
EXTENDS Integers, Sequences, FiniteSetsExt

CONSTANTS
    UsernameChars,      \* [A-Za-z0-9._]
    BaseLength          \* 24

MinLength == 3
MaxLength == 30         \* max_length of the column
Dot == "."

ASSUME UsernameAssumption ==
    /\ {Dot, "0", "u", "s", "e", "r"} \subseteq UsernameChars
    /\ BaseLength \in MinLength .. MaxLength

\* username_regex: ^(?!.*\.\.)(?!\.)[A-Za-z0-9._]{3,30}(?<!\.)$
HasDots(s) == \E i \in 1 .. Len(s) - 1 : s[i] = Dot /\ s[i + 1] = Dot
EndsInDot(s) == Len(s) > 0 /\ s[Len(s)] = Dot

FollowsTheRule(u) ==
    /\ Len(u) \in MinLength .. MaxLength
    /\ \A i \in DOMAIN u : u[i] \in UsernameChars
    /\ u[1] # Dot /\ ~ EndsInDot(u) /\ ~ HasDots(u)

----------------------------------------------------------------------------

\* re.sub
Allowed(s) == SelectSeq(s, LAMBDA c : c \in UsernameChars)

\* str.strip(".")
Stripped(s) ==
    LET inner == {i \in DOMAIN s : s[i] # Dot}
    IN IF inner = {} THEN <<>> ELSE SubSeq(s, Min(inner), Max(inner))

Cut(s) == SubSeq(s, 1, Min({Len(s), BaseLength}))

OrUser(s) == IF s = <<>> THEN <<"u", "s", "e", "r">> ELSE s

Padded(s) == s \o [i \in 1 .. MinLength - Len(s) |-> "0"]

UsernameBase(local) == Padded(OrUser(Cut(Stripped(Allowed(local)))))

----------------------------------------------------------------------------

\* The docstring says that the name follows the rule of the column.  It does,
\* digits added or not, but for two cases: what the filter takes out leaves two
\* dots side by side, or the cut, which comes after the dots were stripped,
\* leaves one at the end of a name that gets no digits.
RuleOrTwoCases(local, digits) ==
    LET kept == Stripped(Allowed(local))
        name == UsernameBase(local) \o digits
    IN \/ FollowsTheRule(name)
       \/ HasDots(kept) /\ HasDots(name)
       \/ digits = <<>> /\ Len(kept) > BaseLength /\ EndsInDot(name)
=============================================================================
