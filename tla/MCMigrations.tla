--------------------------- MODULE MCMigrations ---------------------------
(***************************************************************************)
(* Instances of Migrations for TLC.                                        *)
(***************************************************************************)
EXTENDS Migrations, TLC

Symmetry == Permutations(Users) \cup Permutations(ExtraIds) \cup Permutations(ExtraNames)
=============================================================================
