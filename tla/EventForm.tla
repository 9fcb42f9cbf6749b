------------------------------ MODULE EventForm ------------------------------
(***************************************************************************)
(* The form behind "+" in the Events tab (AddEventViewController): its     *)
(* rows, the rules on them, the Save button and what Save does, while time *)
(* goes by.  Of a text the model keeps whether there is one: an empty     *)
(* text is nil to Eureka.  The lineup section is left out: nothing of it   *)
(* reaches the event.                                                      *)
(***************************************************************************)
EXTENDS Naturals

CONSTANTS
    MaxTime,    \* bound: the last moment of the clock
    Nil         \* an empty row

ASSUME FormAssumption == MaxTime \in Nat /\ Nil \notin 0..MaxTime

VARIABLES
    now,        \* Date()
    form,       \* the values of the rows
    changed,    \* some row.wasChanged: the form is not clean
    enabled,    \* saveButton.isEnabled
    phase,      \* what has become of the form
    event       \* the event handed to the Events tab, or Nil

vars == <<now, form, changed, enabled, phase, event>>

Time      == 0..MaxTime
TextRows  == {"name", "description", "location", "type"}
DateRows  == {"dateStart", "dateEnd"}
Forms     == [text : [TextRows -> BOOLEAN], date : [DateRows -> Time \cup {Nil}]]

TypeOK ==
    /\ now \in Time
    /\ form \in Forms
    /\ changed \in BOOLEAN
    /\ enabled \in BOOLEAN
    /\ phase \in {"editing", "closed", "crashed"}
    /\ event \in Forms \cup {Nil}

-----------------------------------------------------------------------------
InOrder   == form.date["dateStart"] < form.date["dateEnd"]
Future(r) == form.date[r] > now

\* form.validate().isEmpty, at this moment
Valid ==
    /\ form.text["name"] /\ form.text["type"]
    /\ \A r \in DateRows : form.date[r] # Nil
    /\ InOrder
    /\ \A r \in DateRows : Future(r)

Init ==
    /\ now = 0
    /\ form = [text |-> [r \in TextRows |-> FALSE], date |-> [r \in DateRows |-> Nil]]
    /\ changed = FALSE
    /\ enabled = TRUE       \* as the storyboard has it
    /\ phase = "editing"
    /\ event = Nil

Tick ==
    /\ now < MaxTime
    /\ now' = now + 1
    /\ UNCHANGED <<form, changed, enabled, phase, event>>

\* A text row can be emptied again, a picker cannot take its value back.
EditText(r, filled) ==
    /\ phase = "editing"
    /\ r = "type" => filled
    /\ form' = [form EXCEPT !.text[r] = filled]
    /\ changed' = TRUE
    /\ UNCHANGED <<now, enabled, phase, event>>

\* Mutant: the picked date is rounded up.
EditDateUp(r, t) ==
    /\ phase = "editing"
    /\ form' = [form EXCEPT !.date[r] = t + 1]
    /\ changed' = TRUE
    /\ UNCHANGED <<now, enabled, phase, event>>

EditDate(r, t) ==
    /\ phase = "editing"
    /\ form' = [form EXCEPT !.date[r] = t]
    /\ changed' = TRUE
    /\ UNCHANGED <<now, enabled, phase, event>>

\* cellUpdate of any row, which an edit, a blur or scrolling can cause.
UpdateSaveButtonState ==
    /\ phase = "editing"
    /\ enabled' = IF ~changed THEN FALSE ELSE enabled \/ Valid
    /\ UNCHANGED <<now, form, changed, phase, event>>

\* Mutant: the enabled button is proof enough that the form is valid.
SaveUnchecked ==
    /\ phase = "editing"
    /\ enabled
    /\ phase' = "closed"
    /\ event' = form
    /\ UNCHANGED <<now, form, changed, enabled>>

\* Save, prepare(for:) and the unwind.  The form is validated once more; an
\* invalid one closes without an event, and a valid one is read with as!.
Save ==
    /\ phase = "editing"
    /\ enabled
    /\ IF Valid /\ ~(form.text["description"] /\ form.text["location"])
       THEN phase' = "crashed" /\ UNCHANGED event
       ELSE phase' = "closed" /\ event' = IF Valid THEN form ELSE Nil
    /\ UNCHANGED <<now, form, changed, enabled>>

Cancel ==
    /\ phase = "editing"
    /\ phase' = "closed"
    /\ UNCHANGED <<now, form, changed, enabled, event>>

Next ==
    \/ Tick
    \/ \E r \in TextRows, filled \in BOOLEAN : EditText(r, filled)
    \/ \E r \in DateRows, t \in Time : EditDate(r, t)
    \/ UpdateSaveButtonState
    \/ Save
    \/ Cancel

Spec == Init /\ [][Next]_vars

-----------------------------------------------------------------------------
\* The button stays enabled while rows are emptied and dates pass, so it
\* says nothing: still, an event only leaves the form complete, with its end
\* after its start and its start ahead - Attendance builds on the latter.
SavesOnlyValid ==
    [][event' # event =>
        /\ \A r \in TextRows : event'.text[r]
        /\ \A r \in DateRows : event'.date[r] # Nil
        /\ event'.date["dateStart"] < event'.date["dateEnd"]
        /\ event'.date["dateStart"] > now]_vars

\* AddEventViewController.swift:66 asks for "an optional description": a
\* form with everything else, its location included, can be saved without.
DescriptionIsOptional == phase = "crashed" => ~form.text["location"]
=============================================================================
