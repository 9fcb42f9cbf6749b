---------------------------- MODULE MCConnection ----------------------------
(* Queries and puts, a lost connection, an expired token.                  *)
EXTENDS Connection
CONSTANT q1
=============================================================================
