------------------------------ MODULE MCOtp ------------------------------
(***************************************************************************)
(* Instances of Otp for TLC.  Workers and codes are interchangeable: no    *)
(* definition or property tells two of them apart.                         *)
(***************************************************************************)
EXTENDS Otp, TLC

Symmetry == Permutations(Workers) \cup Permutations(Codes)
=============================================================================
