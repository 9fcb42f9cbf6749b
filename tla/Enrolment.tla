------------------------------ MODULE Enrolment ------------------------------
(***************************************************************************)
(* How a player gets from the log in screen to a team: LoginViewController, *)
(* AdditionalSetupViewController and the Profile tab, the records they keep *)
(* under Users and Teams, and teamIdGlobal, the process-wide variable that  *)
(* tells every other screen which team it shows.                           *)
(*                                                                         *)
(* Of a user record the model keeps the team.  The client library is the   *)
(* one of RealtimeSync seen from further away: server data arrives at once *)
(* or later, but answers can be lost, and puts are then sent again.        *)
(* Sign-in itself (FirebaseUI) and the server are external.                *)
(***************************************************************************)
EXTENDS Naturals, Sequences

CONSTANTS
    Device, Account,
    AccountOf,      \* the account used on a device
    Team,           \* keys childByAutoId can return
    DefaultTeam,    \* the "Test TEAM ID" teamIdGlobal starts with
    NoTeam,         \* the teamId of a record that has none
    NoRecord,       \* no record under Users, or none known yet
    Idle,           \* no single read under way
    HomeWhileDismissing,    \* UIKit may perform a segue asked for during a dismissal
    MaxSets,        \* bound: calls of setValue
    MaxHomes,       \* bound: times a device opens the tab bar
    MaxFaults       \* bound: kills, rejections and lost answers together

ASSUME AccountAssumption == AccountOf \in [Device -> Account]
ASSUME DistinctAssumption ==
    /\ {DefaultTeam, NoTeam, NoRecord, Idle} \cap Team = {}
    /\ DefaultTeam \notin {NoTeam, NoRecord, Idle}
    /\ NoTeam \notin {NoRecord, Idle}
    /\ NoRecord # Idle
ASSUME EnrolBoundAssumption ==
    HomeWhileDismissing \in BOOLEAN /\
    MaxSets \in Nat /\ MaxHomes \in Nat /\ MaxFaults \in Nat

VARIABLES
    \* the server
    users,      \* teamId of each account's record
    teams,      \* keys under Teams
    \* the device
    auth,       \* Auth.auth().currentUser # nil; kept in the keychain
    screen,     \* what is in front
    reads,      \* the single reads under way, by who waits for them
    observing,  \* fetchUser's observer is registered
    seen,       \* the own record as last sent by the server
    user,       \* ProfileViewController.user # nil
    teamId,     \* teamIdGlobal
    tab,        \* the team the Events tab took when it was loaded
    puts,       \* writes not yet answered, oldest first
    unheard,    \* how many of them the server has applied already
    mainq,      \* own records queued for fetchUser's observer
    \* bookkeeping
    minted,     \* keys childByAutoId has returned
    sets, homes, faults,
    \* history, read by the properties only
    choice,     \* the team each player chose last
    dropped     \* accounts and teams with a write that was killed or refused

server  == <<users, teams>>
profile == <<observing, seen, user, teamId, tab>>
client  == <<puts, unheard, mainq>>
history == <<choice, dropped>>
counts  == <<minted, sets, homes, faults, history>>
vars    == <<server, auth, screen, reads, profile, client, counts>>

-----------------------------------------------------------------------------
Record == Team \cup {NoTeam}
Screen == {"off", "crashed", "login", "signing in", "firebase ui", "setup", "home"}
Put    == [path : {"Users"}, team : Record] \cup [path : {"Teams"}, team : Team]
Reader == {"signIn", "join", "save"}    \* didSignIn, submit, saveUser
Read   == [team : Record, answer : {"asked", "found", "missing"}]

TypeOK ==
    /\ users \in [Account -> Record \cup {NoRecord}]
    /\ teams \in SUBSET Team
    /\ auth \in [Device -> BOOLEAN]
    /\ screen \in [Device -> Screen]
    /\ reads \in [Device -> [Reader -> Read \cup {Idle}]]
    /\ observing \in [Device -> BOOLEAN]
    /\ seen \in [Device -> Record \cup {NoRecord}]
    /\ user \in [Device -> BOOLEAN]
    /\ teamId \in [Device -> Team \cup {DefaultTeam}]
    /\ tab \in [Device -> Team \cup {DefaultTeam, Idle}]
    /\ puts \in [Device -> Seq(Put)]
    /\ unheard \in [Device -> Nat]
    /\ mainq \in [Device -> Seq(Record \cup {NoRecord})]
    /\ minted \in SUBSET Team
    /\ sets \in 0..MaxSets
    /\ homes \in [Device -> 0..MaxHomes]
    /\ faults \in 0..MaxFaults
    /\ choice \in [Account -> Record]
    /\ dropped \in SUBSET (Account \cup Team)

-----------------------------------------------------------------------------
Running(d) == screen[d] \notin {"off", "crashed"}
Mine(d)    == users[AccountOf[d]]

\* The own record as the client sees it with the writes ps over the server
\* data s: the youngest pending write to it, if there is one.
OwnPuts(ps) == {i \in DOMAIN ps : ps[i].path = "Users"}
View(ps, s) ==
    IF OwnPuts(ps) = {} THEN s
    ELSE ps[CHOOSE i \in OwnPuts(ps) : \A j \in OwnPuts(ps) : j <= i].team

\* fetchUser's observer hears of a view that is new to it.
Notify(d, ps, s) ==
    mainq' = IF observing[d] /\ View(ps, s) # View(puts[d], seen[d])
             THEN [mainq EXCEPT ![d] = Append(@, View(ps, s))] ELSE mainq

Write(d, ps) ==
    /\ sets + Len(ps) <= MaxSets
    /\ sets' = sets + Len(ps)
    /\ puts' = [puts EXCEPT ![d] = @ \o ps]

Choose(d, team) == choice' = [choice EXCEPT ![AccountOf[d]] = team]
UserPut(team) == [path |-> "Users", team |-> team]
TeamPut(team) == [path |-> "Teams", team |-> team]

\* A single read: asked, answered by the server in its own time, and its
\* callback run later still.  A reader has one of them under way at a time.
Ask(d, reader, team) ==
    /\ reads[d][reader] = Idle
    /\ reads' = [reads EXCEPT ![d][reader] = [team |-> team, answer |-> "asked"]]

Answered(d, reader, answer) ==
    /\ reads[d][reader] # Idle
    /\ reads[d][reader].answer = answer
    /\ reads' = [reads EXCEPT ![d][reader] = Idle]

-----------------------------------------------------------------------------
\* Teams may have been made before; these players are new.
Init ==
    /\ users = [a \in Account |-> NoRecord]
    /\ teams \in SUBSET Team
    /\ auth = [d \in Device |-> FALSE]
    /\ screen = [d \in Device |-> "off"]
    /\ reads = [d \in Device |-> [r \in Reader |-> Idle]]
    /\ observing = [d \in Device |-> FALSE]
    /\ seen = [d \in Device |-> NoRecord]
    /\ user = [d \in Device |-> FALSE]
    /\ teamId = [d \in Device |-> DefaultTeam]
    /\ tab = [d \in Device |-> Idle]
    /\ puts = [d \in Device |-> <<>>]
    /\ unheard = [d \in Device |-> 0]
    /\ mainq = [d \in Device |-> <<>>]
    /\ minted = teams
    /\ sets = 0
    /\ homes = [d \in Device |-> 0]
    /\ faults = 0
    /\ choice = [a \in Account |-> NoTeam]
    /\ dropped = {}

Launch(d) ==
    /\ ~Running(d)
    /\ screen' = [screen EXCEPT ![d] = "login"]
    /\ UNCHANGED <<server, auth, reads, profile, client, counts>>

\* emailLogInTapped
OpenFirebaseUI(d) ==
    /\ screen[d] = "login"
    /\ ~auth[d]
    /\ reads[d]["signIn"] = Idle
    /\ screen' = [screen EXCEPT ![d] = "firebase ui"]
    /\ UNCHANGED <<server, auth, reads, profile, client, counts>>

\* didSignIn with an error: nothing but the log in screen again.
CancelFirebaseUI(d) ==
    /\ screen[d] = "firebase ui"
    /\ screen' = [screen EXCEPT ![d] = "login"]
    /\ UNCHANGED <<server, auth, reads, profile, client, counts>>

\* didSignIn without one: the records of all users are asked for.
DidSignIn(d) ==
    /\ screen[d] = "firebase ui"
    /\ auth' = [auth EXCEPT ![d] = TRUE]
    /\ screen' = [screen EXCEPT ![d] = "signing in"]
    /\ Ask(d, "signIn", NoTeam)
    /\ UNCHANGED <<server, profile, client, counts>>

\* A segue to the tab bar: the Profile tab is loaded with a form of its own
\* and observes the own record, which it hears of at once if the client
\* knows it, from its pending writes ps or from an observer still alive.
GoHome(d, ps) ==
    /\ homes[d] < MaxHomes
    /\ homes' = [homes EXCEPT ![d] = @ + 1]
    /\ screen' = [screen EXCEPT ![d] = "home"]
    /\ observing' = [observing EXCEPT ![d] = TRUE]
    /\ user' = [user EXCEPT ![d] = FALSE]
    /\ mainq' = IF observing[d] \/ OwnPuts(ps) # {}
                THEN [mainq EXCEPT ![d] = Append(@, View(ps, seen[d]))] ELSE mainq
    /\ tab' = [tab EXCEPT ![d] = Idle]
    /\ UNCHANGED seen

\* The listener of viewWillAppear finds somebody signed in.  Right after a
\* sign-in FirebaseUI is still being dismissed: UIKit may drop the segue, or
\* perform it and compete with the answer to the read.
AutoHome(d) ==
    /\ screen[d] = "login" \/ (screen[d] = "signing in" /\ HomeWhileDismissing)
    /\ auth[d]
    /\ GoHome(d, puts[d])
    /\ UNCHANGED <<server, auth, reads, teamId, puts, unheard, minted, sets, faults, history>>

\* The user is known: home, unless the log in screen has gone there already.
SignInKnown(d) ==
    /\ Answered(d, "signIn", "found")
    /\ IF screen[d] = "signing in"
       THEN GoHome(d, puts[d])
       ELSE UNCHANGED <<screen, observing, user, mainq, seen, tab, homes>>
    /\ UNCHANGED <<server, auth, teamId, puts, unheard, minted, sets, faults, history>>

\* Mutant: the answer is not looked at.
RegisterAnyway(d) ==
    /\ (Answered(d, "signIn", "missing") \/ Answered(d, "signIn", "found"))
    /\ Write(d, <<UserPut(NoTeam)>>)
    /\ Notify(d, puts'[d], seen[d])
    /\ screen' = [screen EXCEPT ![d] = IF @ = "signing in" THEN "setup" ELSE @]
    /\ UNCHANGED <<server, auth, profile, unheard, minted, homes, faults, history>>

\* Mutant: no segue to the additional setup.
RegisterOnly(d) ==
    /\ Answered(d, "signIn", "missing")
    /\ Write(d, <<UserPut(NoTeam)>>)
    /\ Notify(d, puts'[d], seen[d])
    /\ UNCHANGED <<server, auth, screen, profile, unheard, minted, homes, faults, history>>

\* The user is not: a record without a team, and the additional setup,
\* unless the log in screen has already presented something.
Register(d) ==
    /\ Answered(d, "signIn", "missing")
    /\ Write(d, <<UserPut(NoTeam)>>)
    /\ Notify(d, puts'[d], seen[d])
    /\ screen' = [screen EXCEPT ![d] = IF @ = "signing in" THEN "setup" ELSE @]
    /\ UNCHANGED <<server, auth, profile, unheard, minted, homes, faults, history>>

-----------------------------------------------------------------------------
\* "Continue": the teams are asked for.
Submit(d, t) ==
    /\ screen[d] = "setup"
    /\ Ask(d, "join", t)
    /\ UNCHANGED <<server, auth, screen, profile, client, counts>>

\* "Team not found" is shown and that is all.
TeamNotFound(d, reader) ==
    /\ Answered(d, reader, "missing")
    /\ UNCHANGED <<server, auth, screen, profile, client, counts>>

\* The team exists: the record gets it, and home - unless the setup screen
\* has gone there with a new team while the read was under way.
Join(d) ==
    /\ Answered(d, "join", "found")
    /\ Write(d, <<UserPut(reads[d]["join"].team)>>)
    /\ Choose(d, reads[d]["join"].team)
    /\ IF screen[d] = "setup"
       THEN GoHome(d, puts'[d])
       ELSE /\ Notify(d, puts'[d], seen[d])
            /\ UNCHANGED <<screen, observing, user, seen, tab, homes>>
    /\ UNCHANGED <<server, auth, teamId, unheard, minted, faults, dropped>>

\* Mutant: the team itself is not written.
SubmitRecordOnly(d, t) ==
    /\ screen[d] = "setup"
    /\ t \notin minted
    /\ minted' = minted \cup {t}
    /\ teamId' = [teamId EXCEPT ![d] = t]
    /\ Write(d, <<UserPut(t)>>)
    /\ Choose(d, t)
    /\ GoHome(d, puts'[d])
    /\ UNCHANGED <<server, auth, reads, unheard, faults, dropped>>

\* "Create new team": two writes, the record first and then the team.
SubmitNewTeam(d, t) ==
    /\ screen[d] = "setup"
    /\ t \notin minted
    /\ minted' = minted \cup {t}
    /\ teamId' = [teamId EXCEPT ![d] = t]
    /\ Write(d, <<UserPut(t), TeamPut(t)>>)
    /\ Choose(d, t)
    /\ GoHome(d, puts'[d])
    /\ UNCHANGED <<server, auth, reads, unheard, faults, dropped>>

-----------------------------------------------------------------------------
\* Mutant: teamIdGlobal may become nil.
FetchUserNil(d) ==
    /\ mainq[d] # <<>>
    /\ mainq' = [mainq EXCEPT ![d] = Tail(@)]
    /\ IF Head(mainq[d]) = NoRecord
       THEN UNCHANGED <<user, teamId>>
       ELSE /\ user' = [user EXCEPT ![d] = TRUE]
            /\ teamId' = [teamId EXCEPT ![d] = Head(mainq[d])]
    /\ UNCHANGED <<server, auth, screen, reads, observing, seen, tab, puts, unheard, counts>>

\* Mutant: teamIdGlobal is only set once.
FetchUserOnce(d) ==
    /\ mainq[d] # <<>>
    /\ Head(mainq[d]) # NoTeam
    /\ mainq' = [mainq EXCEPT ![d] = Tail(@)]
    /\ IF Head(mainq[d]) = NoRecord
       THEN UNCHANGED <<user, teamId>>
       ELSE /\ user' = [user EXCEPT ![d] = TRUE]
            /\ teamId' = [teamId EXCEPT ![d] = IF @ = DefaultTeam THEN Head(mainq[d]) ELSE @]
    /\ UNCHANGED <<server, auth, screen, reads, observing, seen, tab, puts, unheard, counts>>

\* The observer of fetchUser.  A record that does not decode changes
\* nothing; user.teamId! of one without a team ends the process.
FetchUser(d) ==
    /\ mainq[d] # <<>>
    /\ Head(mainq[d]) # NoTeam
    /\ mainq' = [mainq EXCEPT ![d] = Tail(@)]
    /\ IF Head(mainq[d]) = NoRecord
       THEN UNCHANGED <<user, teamId>>
       ELSE /\ user' = [user EXCEPT ![d] = TRUE]
            /\ teamId' = [teamId EXCEPT ![d] = Head(mainq[d])]
    /\ UNCHANGED <<server, auth, screen, reads, observing, seen, tab, puts, unheard, counts>>

\* saveUser: the teams are asked for with what the form holds.
SaveUser(d, t) ==
    /\ screen[d] = "home"
    /\ Ask(d, "save", t)
    /\ UNCHANGED <<server, auth, screen, profile, client, counts>>

\* The team exists; without a decoded user nothing is saved.
SaveUserFound(d) ==
    /\ Answered(d, "save", "found")
    /\ IF user[d]
       THEN /\ Write(d, <<UserPut(reads[d]["save"].team)>>)
            /\ Choose(d, reads[d]["save"].team)
            /\ Notify(d, puts'[d], seen[d])
       ELSE UNCHANGED <<sets, choice, puts, mainq>>
    /\ UNCHANGED <<server, auth, screen, profile, unheard, minted, homes, faults, dropped>>

\* The first visit to the Events tab (or Team tab) fixes its team.
LoadTab(d) ==
    /\ screen[d] = "home"
    /\ tab[d] = Idle
    /\ tab' = [tab EXCEPT ![d] = teamId[d]]
    /\ UNCHANGED <<server, auth, screen, reads, observing, seen, user, teamId, client, counts>>

\* "Sign out": a new log in screen over the old tabs, which stay loaded.
\* Signing in again opens new ones.
SignOut(d) ==
    /\ screen[d] = "home"
    /\ auth' = [auth EXCEPT ![d] = FALSE]
    /\ screen' = [screen EXCEPT ![d] = "login"]
    /\ UNCHANGED <<server, reads, profile, client, counts>>

-----------------------------------------------------------------------------
\* The server.

\* What is read is the server's data under the reader's own pending writes.
ServerRead(d, reader) ==
    /\ reads[d][reader] # Idle
    /\ reads[d][reader].answer = "asked"
    /\ LET t == reads[d][reader].team
           known == IF reader = "signIn" THEN View(puts[d], Mine(d)) # NoRecord
                    ELSE t \in teams \/ \E i \in DOMAIN puts[d] : puts[d][i] = TeamPut(t)
       IN  reads' = [reads EXCEPT ![d][reader].answer = IF known THEN "found" ELSE "missing"]
    /\ UNCHANGED <<server, auth, screen, profile, client, counts>>

ServerPush(d) ==
    /\ observing[d]
    /\ seen[d] # Mine(d)
    /\ seen' = [seen EXCEPT ![d] = Mine(d)]
    /\ Notify(d, puts[d], Mine(d))
    /\ UNCHANGED <<server, auth, screen, reads, observing, user, teamId, tab, puts, unheard, counts>>

\* The puts are applied in order.
ServerApply(d) ==
    /\ unheard[d] < Len(puts[d])
    /\ LET p == puts[d][unheard[d] + 1]
       IN  IF p.path = "Users"
           THEN users' = [users EXCEPT ![AccountOf[d]] = p.team] /\ UNCHANGED teams
           ELSE teams' = teams \cup {p.team} /\ UNCHANGED users
    /\ unheard' = [unheard EXCEPT ![d] = @ + 1]
    /\ UNCHANGED <<auth, screen, reads, profile, puts, mainq, counts>>

\* The answer to the oldest put; an observer has the new record before it.
RecvAck(d) ==
    /\ unheard[d] > 0
    /\ unheard' = [unheard EXCEPT ![d] = @ - 1]
    /\ puts' = [puts EXCEPT ![d] = Tail(@)]
    /\ seen' = IF observing[d] THEN [seen EXCEPT ![d] = Mine(d)] ELSE seen
    /\ Notify(d, puts'[d], seen'[d])
    /\ UNCHANGED <<server, auth, screen, reads, observing, user, teamId, tab, counts>>

\* The connection drops and with it the answers under way: once it is back
\* every unanswered put is sent, and applied, again.
Disconnect(d) ==
    /\ unheard[d] > 0
    /\ faults < MaxFaults
    /\ faults' = faults + 1
    /\ unheard' = [unheard EXCEPT ![d] = 0]
    /\ UNCHANGED <<server, auth, screen, reads, profile, puts, mainq, minted, sets, homes, history>>

\* What is lost when the puts ps are never applied.
LostWith(d, ps) ==
    {AccountOf[d] : i \in OwnPuts(ps)} \cup
    {t \in Team : \E i \in DOMAIN ps : ps[i] = TeamPut(t)}

\* The security rules refuse a put; the answers before it have arrived.
ServerReject(d) ==
    /\ puts[d] # <<>>
    /\ unheard[d] = 0
    /\ faults < MaxFaults
    /\ faults' = faults + 1
    /\ dropped' = dropped \cup LostWith(d, <<Head(puts[d])>>)
    /\ puts' = [puts EXCEPT ![d] = Tail(@)]
    /\ Notify(d, puts'[d], seen[d])
    /\ UNCHANGED <<server, auth, screen, reads, profile, unheard, minted, sets, homes, choice>>

-----------------------------------------------------------------------------
\* The process ends and takes everything but the keychain with it.
EndProcess(d, to) ==
    /\ screen' = [screen EXCEPT ![d] = to]
    /\ reads' = [reads EXCEPT ![d] = [r \in Reader |-> Idle]]
    /\ observing' = [observing EXCEPT ![d] = FALSE]
    /\ seen' = [seen EXCEPT ![d] = NoRecord]
    /\ user' = [user EXCEPT ![d] = FALSE]
    /\ teamId' = [teamId EXCEPT ![d] = DefaultTeam]
    /\ tab' = [tab EXCEPT ![d] = Idle]
    /\ puts' = [puts EXCEPT ![d] = <<>>]
    /\ mainq' = [mainq EXCEPT ![d] = <<>>]
    /\ unheard' = [unheard EXCEPT ![d] = 0]
    /\ dropped' = dropped \cup LostWith(d, puts[d])
    /\ UNCHANGED <<server, auth, minted, sets, homes, choice>>

Kill(d) ==
    /\ Running(d)
    /\ faults < MaxFaults
    /\ faults' = faults + 1
    /\ EndProcess(d, "off")

Crash(d) ==
    /\ mainq[d] # <<>>
    /\ Head(mainq[d]) = NoTeam
    /\ EndProcess(d, "crashed")
    /\ UNCHANGED faults

-----------------------------------------------------------------------------
\* What happens without anybody touching the screen.
System(d) ==
    \/ \E r \in Reader : ServerRead(d, r)
    \/ SignInKnown(d) \/ Register(d)
    \/ Join(d) \/ SaveUserFound(d) \/ \E r \in {"join", "save"} : TeamNotFound(d, r)
    \/ ServerPush(d) \/ ServerApply(d) \/ RecvAck(d)
    \/ FetchUser(d) \/ Crash(d)

Player(d) ==
    \/ Launch(d) \/ OpenFirebaseUI(d) \/ CancelFirebaseUI(d) \/ DidSignIn(d)
    \/ \E t \in Team : Submit(d, t) \/ SubmitNewTeam(d, t) \/ SaveUser(d, t)
    \/ LoadTab(d) \/ SignOut(d)

Fault(d) == Disconnect(d) \/ ServerReject(d) \/ Kill(d)

Next == \E d \in Device : Player(d) \/ AutoHome(d) \/ System(d) \/ Fault(d)

Spec == Init /\ [][Next]_vars

\* Reads are answered and their callbacks run; nobody has to sign in.
FairSpec ==
    /\ Spec
    /\ \A d \in Device :
        /\ WF_vars(\E r \in Reader : ServerRead(d, r))
        /\ WF_vars(SignInKnown(d) \/ Register(d))
        /\ WF_vars(FetchUser(d) \/ Crash(d))
        /\ WF_vars(ServerPush(d))
        /\ WF_vars(ServerApply(d))
        /\ WF_vars(RecvAck(d))

-----------------------------------------------------------------------------
PendingFor(t) == \E d \in Device : \E i \in DOMAIN puts[d] : puts[d][i] = TeamPut(t)
Pending(a)    == \E d \in Device : AccountOf[d] = a /\ OwnPuts(puts[d]) # {}

\* submitNewTeam writes the record before the team it names, in two writes.
\* No record, no teamIdGlobal and no loaded tab names a team that is neither
\* on the server nor about to be, unless the write of the team itself was
\* killed or refused.
TeamsExist ==
    LET named == {users[a] : a \in Account} \cup {teamId[d] : d \in Device}
                                           \cup {tab[d] : d \in Device}
    IN  \A t \in named \cap Team : t \in teams \cup dropped \/ PendingFor(t)

\* The team a player chose last is the team of the record once no write to
\* it is left: neither a put sent twice nor signing in again - which adds a
\* record without a team for an unknown user - takes it away.
ChoiceKept ==
    \A a \in Account \ dropped :
        choice[a] \in Team /\ ~Pending(a) => users[a] = choice[a]

\* With nothing under way, teamIdGlobal is the team of the own record,
\* whatever it was set to on the way (submitNewTeam sets it early).
Settled(d) == observing[d] /\ puts[d] = <<>> /\ mainq[d] = <<>> /\ seen[d] = Mine(d)
GlobalFollowsRecord ==
    \A d \in Device : Settled(d) /\ Mine(d) \in Team => teamId[d] = Mine(d)

\* A sign-in always leads on: to the tabs, to the additional setup, or back
\* out of the app.
SignInLeadsOn ==
    \A d \in Device : screen[d] = "signing in" ~>
        screen[d] # "signing in" \/ homes[d] = MaxHomes \/ sets = MaxSets

\* LoginViewController.swift:85 calls the team "Additional required
\* information": no player's tabs meet a record without one.
NoRecordWithoutTeam == \A d \in Device : screen[d] # "crashed"

\* LoginViewController.swift:79 says of the branch that adds a record that
\* the user doesn't exist in the database.
AddsOnlyMissingUsers ==
    [][\A d \in Device : Register(d) => Mine(d) = NoRecord]_vars
=============================================================================
