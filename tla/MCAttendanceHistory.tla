------------------------- MODULE MCAttendanceHistory -------------------------
(* Two players, one device each, with the versions of the events recorded.  *)
EXTENDS AttendanceHistory, TLC
CONSTANTS d1, d2, ann, bob

Owners == (d1 :> ann) @@ (d2 :> bob)
=============================================================================
