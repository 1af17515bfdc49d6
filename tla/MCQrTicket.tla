----------------------------- MODULE MCQrTicket -----------------------------
(***************************************************************************)
(* QrTicket for TLC.  Users and ticket ids are interchangeable.              *)
(***************************************************************************)
EXTENDS QrTicket, TLC

Symmetry == Permutations(User) \cup Permutations(Tid)
=============================================================================
