----------------------------- MODULE MCOtpLogin -----------------------------
(***************************************************************************)
(* OtpLogin for TLC.  The digits of a code matter only when compared.      *)
(***************************************************************************)
EXTENDS OtpLogin, TLC

Symmetry == Permutations(Code)
=============================================================================
