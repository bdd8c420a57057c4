---------------------------- MODULE MCAccounts ----------------------------
(***************************************************************************)
(* Instances of Accounts for TLC.                                          *)
(***************************************************************************)
EXTENDS Accounts, TLC

CONSTANTS p1, p2, u1, u2, e1, e2, s1, s2

Form(u, e, s) == [username |-> u, email |-> e, password |-> s]

\* One number with two forms and one with a third, which shares the email with the
\* first and the username with the second.
MCSubmissions == {<<p1, Form(u1, e1, s1)>>, <<p1, Form(u2, e2, s1)>>, <<p2, Form(u2, e1, s2)>>}
MCForms == {a[2] : a \in MCSubmissions}

Symmetry == Permutations(Codes)
=============================================================================
