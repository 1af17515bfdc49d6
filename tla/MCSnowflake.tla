----------------------------- MODULE MCSnowflake -----------------------------
(***************************************************************************)
(* Snowflake for TLC: generators as snowflake/index.ts builds them, all    *)
(* alike.                                                                  *)
(***************************************************************************)
EXTENDS Snowflake

SameNumber == [p \in Process |-> 1]
=============================================================================
