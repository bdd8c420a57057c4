----------------------------- MODULE MCRoles -----------------------------
(***************************************************************************)
(* Instances of Roles for TLC.                                             *)
(***************************************************************************)
EXTENDS Roles, TLC

Symmetry ==
    Permutations(Workers) \cup Permutations(Users) \cup Permutations(RoleIds)
        \cup Permutations(Names)
=============================================================================
