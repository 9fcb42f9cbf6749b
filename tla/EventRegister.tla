--------------------------- MODULE EventRegister ----------------------------
(***************************************************************************)
(* What the Events tabs of a team promise together, without devices,       *)
(* connections or queues: a register per event that remembers the versions *)
(* it has held.  A write starts from one of those versions - not always    *)
(* the current one, which is how an answer can be lost - or from the event *)
(* as it was created, and changes the entry of at most one player.         *)
(***************************************************************************)
EXTENDS Naturals

CONSTANTS Player, Event, Time, Absent

Answer   == {"yes", "no"}
NoStatus == [p \in Player |-> "none"]

VARIABLES
    db,     \* the current version of each event
    past    \* the versions each event has had

vars == <<db, past>>

Init ==
    /\ db = [e \in Event |-> Absent]
    /\ past = [e \in Event |-> {}]

\* The versions a writer may have a copy of: those the event has had, and
\* the one its creator made, which is on the creator's screen at once.  An
\* event on the server keeps its start date.
Copies(e) ==
    {v \in past[e] \cup {[start |-> t, status |-> NoStatus] : t \in Time} :
        db[e] # Absent => v.start = db[e].start}

Put(e, v) ==
    /\ db' = [db EXCEPT ![e] = v]
    /\ past' = [past EXCEPT ![e] = @ \cup {v}]

\* An event is created, or a copy of it is written once more.
Write(e) == \E v \in Copies(e) : Put(e, v)

\* A player answers, on some copy of the event.
Respond(e, p, answer) ==
    \E v \in Copies(e) : Put(e, [v EXCEPT !.status[p] = answer])

Next ==
    \E e \in Event :
        \/ Write(e)
        \/ \E p \in Player, answer \in Answer : Respond(e, p, answer)

Spec == Init /\ [][Next]_vars
=============================================================================
