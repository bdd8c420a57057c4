-------------------------- MODULE MCRegistration --------------------------
(***************************************************************************)
(* Instances of Registration for TLC.                                      *)
(***************************************************************************)
EXTENDS Registration, TLC

CONSTANTS u1, u2, e1, s1

Form(u) == [username |-> u, email |-> e1, password |-> s1]

\* One person who changed the username between two tries, or two people with the
\* same email.
SameEmail == {Form(u1), Form(u2)}

Symmetry == Permutations(Workers) \cup Permutations(Codes) \cup Permutations(Phones)
=============================================================================
