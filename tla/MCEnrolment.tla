----------------------------- MODULE MCEnrolment -----------------------------
(* One account, on one device or on two.                                   *)
EXTENDS Enrolment
CONSTANTS d1, d2, ann, bob

OneAccount  == [d \in Device |-> ann]
=============================================================================
