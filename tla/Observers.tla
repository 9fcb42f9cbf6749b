------------------------------ MODULE Observers ------------------------------
(***************************************************************************)
(* Overlapping observers of one device: the Events tab on a team's events, *)
(* the details of one event below it, and single reads of all teams above  *)
(* it.  FSyncTree keeps a view per observed path, listens only at the      *)
(* topmost of them, and moves the listens when observers come and go; the  *)
(* views share what the server sends for any of them.                      *)
(*                                                                         *)
(* The library works on its own queue and the screens on the main queue.   *)
(* A call of the app and its work on the library's queue are one step, as  *)
(* in RealtimeSync; events reach the screens later, through mainq.  The    *)
(* device only reads here: its own pending writes are RealtimeSync's, and  *)
(* the connection is Connection's, seen from above.  Others only change    *)
(* events, they take none away.                                            *)
(***************************************************************************)
EXTENDS Naturals, Sequences, FiniteSets, SequencesExt

CONSTANTS
    Path,       \* paths observed, and the paths of the events
    Leaf,       \* the paths of the events that exist
    Over,       \* for each path, the paths strictly above it
    Parent,     \* for each path, the path directly above it, or NoPath
    NoPath,
    Tab,        \* Teams/<K>/Events, for the team K the tab was opened with
    Teams,      \* Teams
    Team,       \* the values of teamIdGlobal
    EventIn,    \* for each team, the path Teams/<team>/Events/<event.id>
    Read,       \* single reads of Teams
    MaxWrites,  \* bound: changes by others
    MaxVisits,  \* bound: appearances of the details
    MaxMoves,   \* bound: changes of teamIdGlobal
    MaxDrops    \* bound: connections lost

ASSUME OverAssumption ==
    /\ Over \in [Path -> SUBSET Path]
    /\ \A p \in Path : p \notin Over[p]
    /\ \A p \in Path : \A q \in Over[p] : Over[q] \subseteq Over[p]
    /\ \A p \in Path : \A q, r \in Over[p] : q = r \/ q \in Over[r] \/ r \in Over[q]

\* The paths the app observes: all teams, the tab's list of events, and events,
\* of the tab's list or of lists nobody observes.  Teams/<K> is not observed.
ASSUME TreeAssumption ==
    /\ Teams # Tab /\ Over[Teams] = {} /\ Over[Tab] = {Teams}
    /\ \A p \in Path \ {Teams, Tab} : Over[p] = {Teams} \/ Over[p] = {Teams, Tab}
    /\ Parent = [p \in Path |-> IF Tab \in Over[p] THEN Tab ELSE NoPath]
    /\ Leaf \cap {Teams, Tab} = {}
    /\ \A t \in Team : EventIn[t] \notin {Teams, Tab}

ASSUME FiniteAssumption == IsFiniteSet(Path) /\ IsFiniteSet(Read) /\ MaxWrites \in Nat

ASSUME PathAssumption ==
    /\ Leaf \subseteq Path /\ Tab \in Path /\ Teams \in Path
    /\ EventIn \in [Team -> Path]
    /\ NoPath \notin Path /\ Parent \in [Path -> Path \cup {NoPath}]

Details  == {"load", "appear"}   \* the observers of viewDidLoad and viewWillAppear
Observer == {"tab"} \cup Details \cup Read

ASSUME ReadAssumption == Read \cap {"tab", "load", "appear", "closed"} = {}

VARIABLES
    regs,      \* the event registrations of each path's view
    view,      \* what the view holds, and whether that is complete
    listens,   \* FPersistentConnection.listens
    online,
    up, down,  \* requests and messages in flight
    heard,     \* server: the paths this connection listens to
    db,        \* server: the version of each event
    mainq,     \* events on their way to the main queue
    tab,       \* "closed" or "loaded", and the snapshot last shown
    details,   \* where the details are, their ref, and the event they hold
    teamIdGlobal,
    reads,     \* the progress of each single read
    counts     \* what is left of the bounds

cache == <<regs, view, listens>>
wire  == <<online, up, down, heard>>
app   == <<tab, details, teamIdGlobal, reads>>
vars  == <<cache, wire, db, mainq, app, counts>>

-----------------------------------------------------------------------------
Version == 1..(MaxWrites + 1)
Under(p) == {l \in Leaf : l = p \/ p \in Over[l]}

\* Nodes: what a path holds, by event.  The empty node has none.
Node(p) == UNION {[S -> Version] : S \in SUBSET Under(p)}
Empty   == [l \in {} |-> 0]
Stored(p)  == [l \in Under(p) |-> db[l]]
Cut(n, p)  == [l \in DOMAIN n \cap Under(p) |-> n[l]]
Lay(n, m)  == [l \in DOMAIN n \cup DOMAIN m |-> IF l \in DOMAIN m THEN m[l] ELSE n[l]]

NoView  == [full |-> FALSE, node |-> Empty]
NoDetails == [at |-> "closed", ref |-> Tab, event |-> Empty]
Viewed  == {p \in Path : regs[p] # {}}

ListenTo(p)   == [kind |-> "listen", path |-> p, hash |-> view'[p].node, current |-> TRUE]
UnlistenTo(p) == [kind |-> "unlisten", path |-> p]
DataAt(p, n)  == [kind |-> "data", path |-> p, node |-> n]
AnswerTo(r)   == [kind |-> "answer", path |-> r.path, current |-> r.current]

ViewType(p) == [full : BOOLEAN, node : Node(p)]

TypeOK ==
    /\ regs \in [Path -> SUBSET Observer]
    /\ \A p \in Path : view[p] \in ViewType(p)
    /\ listens \subseteq Path /\ heard \subseteq Path
    /\ online \in BOOLEAN
    /\ \A i \in DOMAIN up :
        \/ up[i].kind = "unlisten" /\ up[i].path \in Path
        \/ up[i].kind = "listen" /\ up[i].path \in Path /\ up[i].hash \in Node(up[i].path)
    /\ \A i \in DOMAIN down :
        \/ down[i].kind = "answer" /\ down[i].path \in Path
        \/ down[i].kind = "data" /\ down[i].node \in Node(down[i].path)
    /\ db \in [Leaf -> Version]
    /\ \A i \in DOMAIN mainq : mainq[i].to \in Observer \cup {"closed"} /\ mainq[i].node \in Node(Teams)
    /\ tab.node \in Node(Tab) /\ tab.loaded \in BOOLEAN
    /\ details.at \in {"closed", "hidden", "visible"} /\ details.ref \in Path
    /\ teamIdGlobal \in Team
    /\ reads \in [Read -> {"new", "asked", "done"}]

-----------------------------------------------------------------------------
\* FSyncTree's helpers.  Every view of the app is a default, complete one.
Covered(p, V) == Over[p] \cap V # {}

\* collectDistinctViewsForSubTree, and the same fold in setupListenerOnQuery:
\* the topmost of the views below p.
TopsBelow(p, V) == {q \in V : p \in Over[q] /\ ~ \E r \in V : r \in Over[q] /\ p \in Over[r]}

\* serverCacheForQuery: the data of the root-most complete view above, or an
\* incomplete node put together from complete children.
CacheFor(p) ==
    LET above    == {q \in Over[p] : view[q].full}
        children == {q \in Path : Parent[q] = p /\ view[q].full}
    IN  IF above # {}
        THEN [full |-> TRUE,
              node |-> Cut(view[CHOOSE q \in above : above \cap Over[q] = {}].node, p)]
        ELSE [full |-> FALSE,
              node |-> [l \in UNION {DOMAIN view[q].node : q \in children} |->
                            view[CHOOSE q \in children : l \in DOMAIN view[q].node].node[l]]]

\* The events for the pairs S of a path and its observer, of complete views.
EventsOf(S) ==
    SetToSeq({[to |-> s[2], node |-> view'[s[1]].node] : s \in {x \in S : view'[x[1]].full}})

\* FView: a value event if the view has become complete or has changed.
RaiseChanges ==
    LET news == {p \in Path : view'[p].full /\ view'[p] # view[p]}
    IN  mainq' = mainq \o EventsOf({s \in news \X Observer : s[2] \in regs[s[1]]})

\* The answer to a listen that was stopped finds another FOutstandingQuery.
Outdate(S, msgs) ==
    [i \in DOMAIN msgs |-> IF msgs[i].path \in S /\ msgs[i].kind \in {"listen", "answer"}
                           THEN [msgs[i] EXCEPT !.current = FALSE] ELSE msgs[i]]

\* startListening, then stopListening.
SendListens(start, stop) ==
    /\ listens' = (listens \cup start) \ stop
    /\ IF online
       THEN \E on \in SetToSeqs(start), off \in SetToSeqs(stop) :
                LET ons  == [i \in DOMAIN on |-> ListenTo(on[i])]
                    offs == [i \in DOMAIN off |-> UnlistenTo(off[i])]
                IN  up' = Outdate(stop, up) \o ons \o offs
       ELSE up' = up
    /\ down' = Outdate(stop, down)

\* Mutant: only the first registration of a view is told what it holds.
AddRegistrationsQuiet(os, p) ==
    /\ regs' = [regs EXCEPT ![p] = @ \cup os]
    /\ view' = IF p \in Viewed THEN view ELSE [view EXCEPT ![p] = CacheFor(p)]
    /\ mainq' = IF p \in Viewed THEN mainq ELSE mainq \o EventsOf({<<p, o>> : o \in os})
    /\ IF p \in Viewed \/ Covered(p, Viewed)
       THEN UNCHANGED <<listens, up, down>>
       ELSE SendListens({p}, TopsBelow(p, Viewed))

\* addEventRegistration, for observers added together.
AddRegistrations(os, p) ==
    /\ regs' = [regs EXCEPT ![p] = @ \cup os]
    /\ view' = IF p \in Viewed THEN view ELSE [view EXCEPT ![p] = CacheFor(p)]
    /\ mainq' = mainq \o EventsOf({<<p, o>> : o \in os})
    /\ IF p \in Viewed \/ Covered(p, Viewed)
       THEN UNCHANGED <<listens, up, down>>
       ELSE SendListens({p}, TopsBelow(p, Viewed))

\* Mutant: whatever is below is listened to again.
RemoveRegistrationsAll(os, p) ==
    LET left == regs[p] \ os
    IN  /\ regs' = [regs EXCEPT ![p] = left]
        /\ view' = IF left = {} THEN [view EXCEPT ![p] = NoView] ELSE view
        /\ IF left = {} /\ p \in Viewed /\ ~Covered(p, Viewed)
           THEN SendListens({q \in Viewed : p \in Over[q]}, {p})
           ELSE UNCHANGED <<listens, up, down>>

\* removeEventRegistration: the last registration takes the view with it, and
\* unless a view above covers them, the topmost views below listen themselves.
RemoveRegistrations(os, p) ==
    LET left == regs[p] \ os
    IN  /\ regs' = [regs EXCEPT ![p] = left]
        /\ view' = IF left = {} THEN [view EXCEPT ![p] = NoView] ELSE view
        /\ IF left = {} /\ p \in Viewed /\ ~Covered(p, Viewed)
           THEN SendListens(TopsBelow(p, Viewed), {p})
           ELSE UNCHANGED <<listens, up, down>>

Init ==
    /\ regs = [p \in Path |-> {}]
    /\ view = [p \in Path |-> NoView]
    /\ listens = {}
    /\ online = FALSE /\ up = <<>> /\ down = <<>> /\ heard = {}
    /\ db = [l \in Leaf |-> 1]
    /\ mainq = <<>>
    /\ tab = [loaded |-> FALSE, node |-> Empty]
    /\ details = NoDetails
    /\ teamIdGlobal \in {t \in Team : Tab \in Over[EventIn[t]]}
    /\ reads = [r \in Read |-> "new"]
    /\ counts = [writes |-> 0, visits |-> 0, moves |-> 0, drops |-> 0]

Count(what, max) == counts[what] < max /\ counts' = [counts EXCEPT ![what] = @ + 1]

-----------------------------------------------------------------------------
\* The Events tab: viewDidLoad, once and for good.
LoadTab ==
    /\ ~tab.loaded
    /\ tab' = [tab EXCEPT !.loaded = TRUE]
    /\ AddRegistrations({"tab"}, Tab)
    /\ UNCHANGED <<online, heard, db, details, teamIdGlobal, reads, counts>>

\* The details open on a row: viewDidLoad and the first viewWillAppear, one
\* right after the other.
OpenDetails ==
    /\ details.at = "closed"
    /\ tab.node # Empty
    /\ Count("visits", MaxVisits)
    /\ LET ref == EventIn[teamIdGlobal] IN
        /\ details' = [at |-> "visible", ref |-> ref, event |-> tab.node]
        /\ AddRegistrations(Details, ref)
    /\ UNCHANGED <<online, heard, db, tab, teamIdGlobal, reads>>

\* Back to the details from another tab, or after a swipe back given up:
\* viewWillAppear alone.
AppearAgain ==
    /\ details.at = "hidden"
    /\ Count("visits", MaxVisits)
    /\ LET ref == EventIn[teamIdGlobal] IN
        /\ details' = [details EXCEPT !.at = "visible", !.ref = ref]
        /\ AddRegistrations({"appear"}, ref)
    /\ UNCHANGED <<online, heard, db, tab, teamIdGlobal, reads>>

\* Events on their way to details that are closed go to their controller.
Leave ==
    \/ /\ details' = NoDetails
       /\ mainq' = [i \in DOMAIN mainq |->
                       IF mainq[i].to \in Details THEN [to |-> "closed", node |-> Empty]
                       ELSE mainq[i]]
    \/ /\ details' = [details EXCEPT !.at = "hidden"]
       /\ UNCHANGED mainq

\* Mutant: the reference is looked up once more.
DisappearCurrent ==
    /\ details.at = "visible"
    /\ Leave
    /\ RemoveRegistrations(Observer, EventIn[teamIdGlobal])
    /\ UNCHANGED <<online, heard, db, tab, teamIdGlobal, reads, counts>>

\* viewWillDisappear: removeAllObservers on the reference kept.
Disappear ==
    /\ details.at = "visible"
    /\ Leave
    /\ RemoveRegistrations(Observer, details.ref)
    /\ UNCHANGED <<online, heard, db, tab, teamIdGlobal, reads, counts>>

\* The Profile tab's observer hears of another team.
ChangeTeam(t) ==
    /\ teamIdGlobal # t
    /\ Count("moves", MaxMoves)
    /\ teamIdGlobal' = t
    /\ UNCHANGED <<cache, wire, db, mainq, tab, details, reads>>

\* observeSingleEvent on Teams, in submit and saveUser: the next of the reads.
ReadTeams ==
    /\ \E r \in Read : reads[r] = "new"
    /\ LET r == CHOOSE x \in Read : reads[x] = "new" IN
        /\ reads' = [reads EXCEPT ![r] = "asked"]
        /\ AddRegistrations({r}, Teams)
    /\ UNCHANGED <<online, heard, db, tab, details, teamIdGlobal, counts>>

-----------------------------------------------------------------------------
Arrives(o) == mainq # <<>> /\ Head(mainq).to = o /\ mainq' = Tail(mainq)

ShowEvents ==
    /\ Arrives("tab")
    /\ tab' = [tab EXCEPT !.node = Head(mainq).node]
    /\ UNCHANGED <<cache, wire, db, details, teamIdGlobal, reads, counts>>

\* fetchEvent's callback: what does not decode is ignored.
ShowEvent(o) ==
    /\ Arrives(o)
    /\ details' = IF Head(mainq).node = Empty THEN details
                  ELSE [details EXCEPT !.event = Head(mainq).node]
    /\ UNCHANGED <<cache, wire, db, tab, teamIdGlobal, reads, counts>>

\* The wrapped callback: the first event removes the observer, more of them
\* may be on their way already.
AnswerRead(r) ==
    /\ Arrives(r)
    /\ reads' = [reads EXCEPT ![r] = "done"]
    /\ IF reads[r] = "asked" THEN RemoveRegistrations({r}, Teams)
       ELSE UNCHANGED <<cache, up, down>>
    /\ UNCHANGED <<online, heard, db, tab, details, teamIdGlobal, counts>>

\* A controller that is closed shows nothing any more.
ShowNothing ==
    /\ Arrives("closed")
    /\ UNCHANGED <<cache, wire, db, app, counts>>

Deliver ==
    \/ ShowEvents \/ ShowNothing
    \/ \E o \in Details : ShowEvent(o)
    \/ \E r \in Read : AnswerRead(r)

-----------------------------------------------------------------------------
\* Mutant: only listens that have not been answered are sent again.
ConnectNew ==
    /\ ~online
    /\ online' = TRUE
    /\ \E on \in SetToSeqs({p \in listens : ~view[p].full}) :
        up' = [i \in DOMAIN on |-> [kind |-> "listen", path |-> on[i],
                                    hash |-> view[on[i]].node, current |-> TRUE]]
    /\ UNCHANGED <<cache, down, heard, db, mainq, app, counts>>

\* The connection is up: every listen is sent, with the hash of what its view
\* holds by now.
Connect ==
    /\ ~online
    /\ online' = TRUE
    /\ \E on \in SetToSeqs(listens) :
        up' = [i \in DOMAIN on |-> [kind |-> "listen", path |-> on[i],
                                    hash |-> view[on[i]].node, current |-> TRUE]]
    /\ UNCHANGED <<cache, down, heard, db, mainq, app, counts>>

Disconnect ==
    /\ online
    /\ Count("drops", MaxDrops)
    /\ online' = FALSE
    /\ up' = <<>> /\ down' = <<>> /\ heard' = {}
    /\ UNCHANGED <<cache, db, mainq, app>>

Receives(kind) == down # <<>> /\ Head(down).kind = kind

\* Mutant: views below take the whole node.
OverwriteUncut(c, n) ==
    view' = [p \in Path |->
        IF p \notin Viewed THEN NoView ELSE
        CASE p = c \/ c \in Over[p]      -> [full |-> TRUE, node |-> n]
          [] p \in Over[c] /\ (view[p].full \/ Parent[c] = p)
                                         -> [view[p] EXCEPT !.node = Lay(@, n)]
          [] OTHER                       -> view[p]]

\* applyServerOverwriteAtPath: views at the path and below become complete;
\* views above change if they are complete, or directly above.
Overwrite(c, n) ==
    view' = [p \in Path |->
        IF p \notin Viewed THEN NoView ELSE
        CASE p = c \/ c \in Over[p]      -> [full |-> TRUE, node |-> Cut(n, p)]
          [] p \in Over[c] /\ (view[p].full \/ Parent[c] = p)
                                         -> [view[p] EXCEPT !.node = Lay(@, n)]
          [] OTHER                       -> view[p]]

RecvData ==
    /\ Receives("data")
    /\ Overwrite(Head(down).path, Head(down).node)
    /\ RaiseChanges
    /\ down' = Tail(down)
    /\ UNCHANGED <<regs, listens, online, up, heard, db, app, counts>>

\* Mutant: an answer completes the view whatever listen it belongs to.
RecvAnswerAny ==
    /\ Receives("answer")
    /\ LET c == Head(down).path IN
        view' = [p \in Path |-> IF p \in Viewed /\ (p = c \/ c \in Over[p])
                                THEN [view[p] EXCEPT !.full = TRUE] ELSE view[p]]
    /\ RaiseChanges
    /\ down' = Tail(down)
    /\ UNCHANGED <<regs, listens, online, up, heard, db, app, counts>>

\* Mutant: an answer leaves it to the data to complete the view.
RecvAnswerNothing ==
    /\ Receives("answer")
    /\ view' = view /\ mainq' = mainq
    /\ down' = Tail(down)
    /\ UNCHANGED <<regs, listens, online, up, heard, db, app, counts>>

\* The answer to a listen, applyListenCompleteAtPath: what the views at the
\* path and below hold is complete, nothing is said of views above.
RecvAnswer ==
    /\ Receives("answer")
    /\ LET c == Head(down).path IN
        view' = [p \in Path |->
            IF Head(down).current /\ p \in Viewed /\ (p = c \/ c \in Over[p])
            THEN [view[p] EXCEPT !.full = TRUE] ELSE view[p]]
    /\ RaiseChanges
    /\ down' = Tail(down)
    /\ UNCHANGED <<regs, listens, online, up, heard, db, app, counts>>

-----------------------------------------------------------------------------
\* The server, external: requests in order, the data only if the hash is not
\* that of the data, and changes to whoever listens at or above them.
ServeListen ==
    /\ up # <<>> /\ Head(up).kind = "listen"
    /\ LET r == Head(up) IN
        /\ heard' = heard \cup {r.path}
        /\ down' = down \o (IF r.hash = Stored(r.path) THEN <<>>
                            ELSE <<DataAt(r.path, Stored(r.path))>>)
                        \o <<AnswerTo(r)>>
    /\ up' = Tail(up)
    /\ UNCHANGED <<cache, online, db, mainq, app, counts>>

ServeUnlisten ==
    /\ up # <<>> /\ Head(up).kind = "unlisten"
    /\ heard' = heard \ {Head(up).path}
    /\ up' = Tail(up)
    /\ UNCHANGED <<cache, online, down, db, mainq, app, counts>>

\* Somebody else writes an event.
Write(l) ==
    /\ Count("writes", MaxWrites)
    /\ db' = [db EXCEPT ![l] = @ + 1]
    /\ down' = IF l \in heard \/ Covered(l, heard)
               THEN Append(down, DataAt(l, [x \in {l} |-> db'[l]])) ELSE down
    /\ UNCHANGED <<cache, online, up, heard, mainq, app>>

-----------------------------------------------------------------------------
Player ==
    \/ LoadTab \/ OpenDetails \/ AppearAgain \/ Disappear \/ ReadTeams

System == Connect \/ RecvData \/ RecvAnswer \/ ServeListen \/ ServeUnlisten \/ Deliver

Next ==
    \/ Player \/ System \/ Disconnect
    \/ \E t \in Team : ChangeTeam(t)
    \/ \E l \in Leaf : Write(l)

Spec == Init /\ [][Next]_vars

\* The connection comes back, the server and both queues go on.
FairSpec ==
    /\ Spec
    /\ WF_vars(Connect)
    /\ WF_vars(RecvData \/ RecvAnswer)
    /\ WF_vars(ServeListen \/ ServeUnlisten)
    /\ WF_vars(Deliver)

-----------------------------------------------------------------------------
\* However observers come and go, also while offline, the connection listens
\* at the topmost observed paths and nowhere else: nothing is asked for twice
\* and nothing is left unasked.
ListensAreTops == listens = {p \in Viewed : ~Covered(p, Viewed)}

\* Moving the listens loses no change: of every event under an observed path
\* the current version is on its way, will come with the answer to a listen
\* that is on its way, or is in the view, and the server tells of the next.
Told(l)   == \E i \in DOMAIN down :
                down[i].kind = "data" /\ l \in DOMAIN down[i].node /\ down[i].node[l] = db[l]
Asked(p)  == \E i \in DOMAIN up : up[i].kind = "listen" /\ up[i].path \in {p} \cup Over[p]
Knows(p, l) ==
    /\ l \in DOMAIN view[p].node /\ view[p].node[l] = db[l]
    /\ p \in heard \/ Covered(p, heard)
NothingMissed ==
    online => \A p \in Viewed : \A l \in Under(p) : Told(l) \/ Asked(p) \/ Knows(p, l)

\* A complete view has every event there is under its path, and complete
\* views agree about what they share, whatever overtook what on the way: a
\* single read never concludes from a half filled view that a team is missing.
OneTruth ==
    \A p \in Viewed : view[p].full =>
        /\ DOMAIN view[p].node = Under(p)
        /\ \A q \in Viewed : view[q].full => Cut(view[q].node, p) = Cut(view[p].node, q)

\* Once nothing is under way every view is complete and up to date, the tab
\* shows it, and so do details looked up under the tab's team.
Quiet == online /\ up = <<>> /\ down = <<>> /\ mainq = <<>>
SettledScreens ==
    Quiet =>
        /\ \A p \in Viewed : view[p] = [full |-> TRUE, node |-> Stored(p)]
        /\ tab.loaded => tab.node = Stored(Tab)
        /\ details.at = "visible" /\ details.ref \in Leaf =>
                details.event = Stored(details.ref)

\* Details that are not visible observe nothing, on whichever references the
\* two calls of fetchEvent and the team changes in between left observers.
NoStrayObservers ==
    details.at # "visible" => \A p \in Path : regs[p] \cap Details = {}

\* A single read is answered in the end, offline or not when it was asked: again
\* and again none of them waits, and none is asked twice.
ReadAnswered == []<>(\A r \in Read : reads[r] # "asked")
=============================================================================
