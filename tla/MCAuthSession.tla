--------------------------- MODULE MCAuthSession ---------------------------
(* AuthSession for TLC: two users, interchangeable.                        *)
EXTENDS AuthSession, TLC

CONSTANTS u1, u2

Symmetry == Permutations({u1, u2})
=============================================================================
