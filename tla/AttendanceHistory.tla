-------------------------- MODULE AttendanceHistory --------------------------
(***************************************************************************)
(* Attendance with the one thing remembered that its abstract              *)
(* specification speaks of: the versions of each event the server has      *)
(* held.  No action reads it.                                              *)
(***************************************************************************)
EXTENDS Attendance

VARIABLE past   \* the versions of each event the server has held

HistInit == Init /\ past = [e \in Event |-> {}]

HistNext ==
    /\ Next
    /\ past' = [e \in Event |->
                    IF db'[e] = Absent THEN past[e] ELSE past[e] \cup {db'[e]}]

HistSpec == HistInit /\ [][HistNext]_<<vars, past>>

Register == INSTANCE EventRegister

\* The Events tabs, with all their copies, queues and repeated puts, only
\* ever do to an event what EventRegister allows: a put changes the entry of
\* its own player on some version the event has had, never two players at
\* once and never to something nobody answered.
RefinesRegister == Register!Spec
=============================================================================
