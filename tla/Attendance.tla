----------------------------- MODULE Attendance -----------------------------
(***************************************************************************)
(* The events of one team and the answers the players give to them: the    *)
(* Events tab (EventsViewController, EventTableViewCell) of every running  *)
(* copy of the app, on top of the database client of RealtimeSync.         *)
(*                                                                         *)
(* A row of the table holds its own COPY of the event.  A swipe changes    *)
(* the own player's entry in that copy and writes the whole copy back, so  *)
(* what it writes for the other players is what the row happened to hold.  *)
(*                                                                         *)
(* Of an event the model keeps the key, the start date and playerStatus;   *)
(* title, type, location, description, end and lineup are written once     *)
(* with the start date and travel with it.                                 *)
(***************************************************************************)
EXTENDS RealtimeSync

CONSTANTS
    Player,     \* user ids
    OwnerOf,    \* the player signed in on a device
    MaxTime     \* bound: the last moment of the clock

Event    == Key     \* keys childByAutoId can return
Time     == 0..MaxTime
Answer   == {"yes", "no"}
EventVal == [start : Time, status : [Player -> Answer \cup {"none"}]]

ASSUME OwnerAssumption == OwnerOf \in [Device -> Player]
ASSUME TimeAssumption  == MaxTime \in Nat /\ Absent \notin Time
ASSUME ValAssumption   == Val = EventVal

VARIABLES
    now,        \* Date.init()
    list,       \* events: the rows of the table, by key
    cell,       \* the event each visible cell holds
    made,       \* by key childByAutoId has returned, the start of its event
    \* history, read by the properties only
    last,       \* the answer each player gave last, by event
    clash       \* events answered from a stale copy, or whose answer failed

tab     == <<list, cell>>
history == <<last, clash>>
vars    == <<syncVars, now, tab, made, history>>

-----------------------------------------------------------------------------
Rows == UNION {[S -> EventVal] : S \in SUBSET Event}

TypeOK ==
    /\ SyncTypeOK
    /\ now \in Time
    /\ list \in [Device -> Rows]
    /\ cell \in [Device -> Rows]
    /\ made \in [Event -> Time \cup {Absent}]
    /\ last \in [Event -> [Player -> Answer \cup {"none"}]]
    /\ clash \in SUBSET Event

-----------------------------------------------------------------------------
NoStatus  == [p \in Player |-> "none"]
NoRows    == [e \in {} |-> Absent]
StatusAt(e) == IF db[e] = Absent THEN NoStatus ELSE db[e].status

\* Mutant: an event is over the moment it starts.
NotYetStartedIn(snap) == {e \in Event : snap[e] # Absent /\ snap[e].start > now}

\* The events of a snapshot that have not started; sorting them gives the
\* rows their places and nothing else.
UpcomingIn(snap) == {e \in Event : snap[e] # Absent /\ snap[e].start >= now}
\* Mutant: the rows are the snapshot's children, unfiltered.
RowsUnfiltered(snap) == snap
RowsOf(snap) == [e \in UpcomingIn(snap) |-> snap[e]]

\* A write of d to event e is without an answer.
PendingOn(d, e) == On(Waiting(d), e) # {}

\* A copy v on device d that agrees with the server about everyone else,
\* with nobody else's write to the event under way.
UpToDate(d, e, v) ==
    /\ \A p \in Player \ {OwnerOf[d]} : v.status[p] = StatusAt(e)[p]
    /\ \A x \in Device \ {d} : ~PendingOn(x, e)

-----------------------------------------------------------------------------
Init ==
    /\ SyncInit
    /\ now = 0
    /\ list = [d \in Device |-> NoRows]
    /\ cell = [d \in Device |-> NoRows]
    /\ made = [e \in Event |-> Absent]
    /\ last = [e \in Event |-> NoStatus]
    /\ clash = {}

\* viewDidLoad
LoadEvents(d) ==
    /\ Observe(d)
    /\ UNCHANGED <<now, tab, made, history>>

\* Mutant: no reloadData, the cells keep their copies.
FetchEventsNoReload(d) ==
    /\ Deliver(d)
    /\ list' = [list EXCEPT ![d] = RowsOf(Head(mainq[d]))]
    /\ cell' = [cell EXCEPT ![d] = [e \in UpcomingIn(Head(mainq[d])) |->
                    IF e \in DOMAIN @ THEN @[e] ELSE Head(mainq[d])[e]]]
    /\ UNCHANGED <<now, made, history>>

\* The observer of fetchEvents: filter, sort, keep, reload every cell.
FetchEvents(d) ==
    /\ Deliver(d)
    /\ list' = [list EXCEPT ![d] = RowsOf(Head(mainq[d]))]
    /\ cell' = [cell EXCEPT ![d] = RowsOf(Head(mainq[d]))]
    /\ UNCHANGED <<now, made, history>>

\* What a swipe does with the changed copy of row e.
UpdateEvent(d, e, copy, answer) ==
    /\ cell' = [cell EXCEPT ![d][e] = copy]
    /\ SetValue(d, e, copy)
    /\ clash' = IF UpToDate(d, e, cell[d][e]) THEN clash ELSE clash \cup {e}
    /\ last' = [last EXCEPT ![e][OwnerOf[d]] = answer]
    /\ UNCHANGED <<now, list, made>>

\* Mutant: playerStatus is replaced by a new dictionary every time.
SwipeFresh(d, e, answer) ==
    /\ e \in DOMAIN cell[d]
    /\ UpdateEvent(d, e, [cell[d][e] EXCEPT !.status =
                        [NoStatus EXCEPT ![OwnerOf[d]] = answer]], answer)

\* Mutant: the players without an entry are entered as not available.
SwipeDefault(d, e, answer) ==
    /\ e \in DOMAIN cell[d]
    /\ UpdateEvent(d, e, [cell[d][e] EXCEPT !.status = [p \in Player |->
                        IF p = OwnerOf[d] THEN answer
                        ELSE IF @[p] = "none" THEN "no" ELSE @[p]]], answer)

\* Mutant: without a playerStatus there is nothing to update.
SwipeKnown(d, e, answer) ==
    /\ e \in DOMAIN cell[d]
    /\ IF cell[d][e].status # NoStatus
       THEN UpdateEvent(d, e, [cell[d][e] EXCEPT !.status[OwnerOf[d]] = answer], answer)
       ELSE /\ last' = [last EXCEPT ![e][OwnerOf[d]] = answer]
            /\ UNCHANGED <<syncVars, now, tab, made, clash>>

\* A swipe: "Available" and "Not Available" differ in the answer only.
Swipe(d, e, answer) ==
    /\ e \in DOMAIN cell[d]
    /\ UpdateEvent(d, e, [cell[d][e] EXCEPT !.status[OwnerOf[d]] = answer], answer)

\* Mutant: the key of the new event may be one already given out.
AddEventAnyKey(d, e, start) ==
    /\ start > now
    /\ made' = [made EXCEPT ![e] = start]
    /\ SetValue(d, e, [start |-> start, status |-> NoStatus])
    /\ cell' = [cell EXCEPT ![d] = list[d]]
    /\ UNCHANGED <<now, list, history>>

\* unwindToEventList after Save: a new key, the event of the form, whose
\* start the form only accepts in the future, and a reload of the old rows.
AddEvent(d, e, start) ==
    /\ made[e] = Absent
    /\ start > now
    /\ made' = [made EXCEPT ![e] = start]
    /\ SetValue(d, e, [start |-> start, status |-> NoStatus])
    /\ cell' = [cell EXCEPT ![d] = list[d]]
    /\ UNCHANGED <<now, list, history>>

\* A row scrolled out of view and back gets its event from the array again.
RedrawCell(d, e) ==
    /\ e \in DOMAIN list[d]
    /\ cell' = [cell EXCEPT ![d][e] = list[d][e]]
    /\ UNCHANGED <<syncVars, now, list, made, history>>

\* The connection and the server go on underneath; the tab is not involved.
TabAlone == UNCHANGED <<now, tab, made, history>>
Underneath(d) ==
    /\ Background(d) \/ ServerApply(d)
    /\ TabAlone

\* A refused answer is not kept.
Refuse(d) ==
    /\ ServerReject(d)
    /\ clash' = clash \cup {NextPut(d).key}
    /\ UNCHANGED <<now, tab, made, last>>

\* A killed app takes its pending answers with it.
KillApp(d) ==
    /\ Kill(d)
    /\ list' = [list EXCEPT ![d] = NoRows]
    /\ cell' = [cell EXCEPT ![d] = NoRows]
    /\ clash' = clash \cup {e \in Event : PendingOn(d, e)}
    /\ UNCHANGED <<now, made, last>>

Tick ==
    /\ now < MaxTime
    /\ now' = now + 1
    /\ UNCHANGED <<syncVars, tab, made, history>>

Step(d) ==
    \/ LoadEvents(d)
    \/ FetchEvents(d)
    \/ \E e \in Event, answer \in Answer : Swipe(d, e, answer)
    \/ \E e \in Event, start \in Time : AddEvent(d, e, start)
    \/ \E e \in Event : RedrawCell(d, e)
    \/ Underneath(d)
    \/ Refuse(d)
    \/ KillApp(d)

Next == Tick \/ \E d \in Device : Step(d)

\* The client retries the connection, the server serves what it was sent,
\* the listens of the other screens included, and both queues are drained;
\* nobody has to tap or to open the app.
Fairness ==
    \A d \in Device :
        /\ WF_vars(Connect(d) /\ TabAlone)
        /\ WF_vars(ServerListen(d) /\ TabAlone)
        /\ WF_vars(ServerApply(d) /\ TabAlone)
        /\ WF_vars((RecvInit(d) \/ RecvData(d) \/ RecvAck(d) \/ HoldAck(d)) /\ TabAlone)
        /\ WF_vars(AckPuts(d) /\ TabAlone)
        /\ WF_vars(FetchEvents(d))

Spec     == Init /\ [][Next]_vars
FairSpec == Spec /\ Fairness

-----------------------------------------------------------------------------
\* An answer is never lost but for a reason: on an event that was only ever
\* answered from up-to-date copies, with no write killed or refused, the
\* server holds each player's last answer once no device of the team has a
\* write to that event left - however often puts were sent again.
AnswersKept ==
    \A e \in Event \ clash :
        (\A d \in Device : ~PendingOn(d, e)) => StatusAt(e) = last[e]

\* What a screen shows when nothing is under way: every event of the server
\* that is still to come, as the server has it, and no event the server has
\* not; an event that started since may still be there.
SettledRows ==
    \A d \in Device : Settled(d) =>
        /\ \A e \in Event : (db[e] # Absent /\ db[e].start >= now) => e \in DOMAIN list[d]
        /\ \A e \in DOMAIN list[d] : list[d][e] = db[e] /\ cell[d][e] = db[e]

\* Whole copies are written back, yet an event that reached the server stays
\* and keeps its date: no stale copy brings it back to an earlier one.
EventsStay ==
    [][\A e \in Event : db[e] # Absent =>
            db'[e] # Absent /\ db'[e].start = db[e].start]_vars

\* An answer that was given, and neither changed nor lost to a clash, comes
\* to be what every open screen shows of that event.
AnswersSpread ==
    \A e \in Event, p \in Player, a \in Answer :
        last[e][p] = a ~>
            \/ last[e][p] # a
            \/ e \in clash
            \/ \A d \in Device : (open[d] /\ e \in DOMAIN list[d]) =>
                                    list[d][e].status[p] = a
=============================================================================
