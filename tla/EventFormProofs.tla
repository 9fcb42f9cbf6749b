--------------------------- MODULE EventFormProofs ---------------------------
(***************************************************************************)
(* The form's types and the promise of its Save button, for a clock of any *)
(* length.                                                                 *)
(***************************************************************************)
EXTENDS EventForm, TLAPS

\* An event is handed over once, when the form closes.
OpenHasNone == phase = "editing" => event = Nil

FormInv == TypeOK /\ OpenHasNone

LEMMA FormInvInit == Init => FormInv
<1> SUFFICES ASSUME Init PROVE FormInv
    OBVIOUS
<1>1. now \in Time
    BY FormAssumption DEF Init, Time
<1>2. /\ [r \in TextRows |-> FALSE] \in [TextRows -> BOOLEAN]
      /\ [r \in DateRows |-> Nil] \in [DateRows -> Time \cup {Nil}]
    OBVIOUS
<1>3. form \in Forms
    BY <1>2, Zenon DEF Init, Forms
<1> QED BY <1>1, <1>3 DEF Init, FormInv, TypeOK, OpenHasNone

LEMMA FormInvStep == FormInv /\ [Next]_vars => FormInv'
<1> SUFFICES ASSUME FormInv, [Next]_vars PROVE FormInv'
    OBVIOUS
<1> USE FormAssumption DEF FormInv, TypeOK, OpenHasNone
<1>1. CASE Tick
    BY <1>1 DEF Tick, Time
<1>2. ASSUME NEW r \in TextRows, NEW filled \in BOOLEAN, EditText(r, filled)
      PROVE  FormInv'
    BY <1>2 DEF EditText, Forms
<1>3. ASSUME NEW r \in DateRows, NEW t \in Time, EditDate(r, t)
      PROVE  FormInv'
    BY <1>3 DEF EditDate, Forms
<1>4. CASE UpdateSaveButtonState
    <2>1. enabled' \in BOOLEAN
        <3>1. CASE changed
            BY <1>4, <3>1, Zenon DEF UpdateSaveButtonState, Valid, InOrder, Future
        <3>2. CASE ~changed
            BY <1>4, <3>2 DEF UpdateSaveButtonState
        <3> QED BY <3>1, <3>2
    <2> QED BY <1>4, <2>1 DEF UpdateSaveButtonState
<1>5. CASE Save
    <2>1. UNCHANGED <<now, form, changed, enabled>>
        BY <1>5 DEF Save
    <2>2. /\ phase' \in {"closed", "crashed"}
          /\ event' \in {event, form, Nil}
        BY <1>5 DEF Save
    <2> QED BY <2>1, <2>2
<1>6. CASE Cancel
    BY <1>6 DEF Cancel
<1>7. CASE UNCHANGED vars
    BY <1>7 DEF vars
<1> QED BY <1>1, <1>2, <1>3, <1>4, <1>5, <1>6, <1>7 DEF Next

\* Every row, the button and the phase keep their types, and the event that
\* leaves the form is one of its contents (AddEventViewController).
THEOREM FormTypeCorrect == Spec => []TypeOK
<1>1. FormInv => TypeOK
    BY DEF FormInv
<1> QED BY FormInvInit, FormInvStep, <1>1, PTL DEF Spec

-----------------------------------------------------------------------------
LEMMA SaveIsValid ==
    ASSUME FormInv, [Next]_vars, event' # event
    PROVE  /\ \A r \in TextRows : event'.text[r]
           /\ \A r \in DateRows : event'.date[r] # Nil
           /\ event'.date["dateStart"] < event'.date["dateEnd"]
           /\ event'.date["dateStart"] > now
<1>1. Save
    BY DEF Next, vars, Tick, EditText, EditDate, UpdateSaveButtonState, Cancel
<1>2. /\ Valid
      /\ form.text["description"] /\ form.text["location"]
      /\ event' = form
    BY <1>1 DEF Save, FormInv, OpenHasNone
<1>3. \A r \in TextRows : event'.text[r]
    BY <1>2 DEF Valid, TextRows
<1>4. \A r \in DateRows : event'.date[r] # Nil /\ event'.date[r] > now
    BY <1>2 DEF Valid, Future
<1> QED BY <1>2, <1>3, <1>4 DEF Valid, InOrder, DateRows

\* Whatever happens to rows and clock while the button stays enabled, only a
\* complete event with its start ahead leaves the form (the second
\* validation in prepare(for:sender:)).
THEOREM SavesOnlyValidCorrect == Spec => SavesOnlyValid
<1>1. FormInv /\ [Next]_vars =>
        [event' # event =>
            /\ \A r \in TextRows : event'.text[r]
            /\ \A r \in DateRows : event'.date[r] # Nil
            /\ event'.date["dateStart"] < event'.date["dateEnd"]
            /\ event'.date["dateStart"] > now]_vars
    BY SaveIsValid
<1> QED BY FormInvInit, FormInvStep, <1>1, PTL DEF Spec, SavesOnlyValid
=============================================================================
