---------------------------- MODULE MCAttendance ----------------------------
(* Two players, one device each.                                           *)
EXTENDS Attendance, TLC
CONSTANTS d1, d2, ann, bob

Owners == (d1 :> ann) @@ (d2 :> bob)
OneOwner == [d \in Device |-> ann]

\* Under OneOwner, and with every device in Busy, the devices are alike.
Symmetry == Permutations(Device)
=============================================================================
