# TeamStuff in TLA+

TeamStuff is an iOS app for sports teams.  A player signs in, joins or creates
a team, sees the coming events of the team, answers each with *Available* or
*Not available*, adds events, and posts messages.  There is no server code:
every screen talks to the Firebase Realtime Database through the client library
vendored in `Pods/FirebaseDatabase`, and correctness is a matter of what many
phones do to the same few records through caches, queues and a connection that
comes and goes.

This directory holds TLA+ models of that behaviour, the TLC runs that check
them, and TLAPS proofs about the client library and the screens.  File names below are relative to `src/Teamstuff/Teamstuff` for the app and to
`src/Teamstuff/Pods/FirebaseDatabase/Firebase/Database` for the library.

## Inventory

| Component | State | Operations | Talks to | Hard part |
|---|---|---|---|---|
| Database client (`Core/FRepo.m`, `FWriteTree.m`, `View/FView.m`, `View/FEventRaiser.m`) | server cache, pending writes, events queued for the main queue | setValue, acknowledge, raise | the server; every screen, by callback on the main queue | optimistic values, repeated puts, two queues |
| Connection (`Core/FPersistentConnection.m`, `Realtime/FConnection.m`, `Core/Utilities/FIRRetryHelper.m`) | state, interrupt reasons, retry timer, token and fetches, listens, outstanding and held puts | schedule, fetch, open, authenticate, restore, listen, put, answer, close, interrupt | Firebase Auth, the websocket, the client above | timers, fetches and closes that overtake one another |
| Observers (`Core/FSyncTree.m`, `FSyncPoint.m`, `View/FView.m`, `FViewProcessor.m`) | a view per observed path, the listens at the topmost of them | add, remove, apply data, complete, raise | the connection, the screens | listens that move while data is on its way |
| Events tab (`Controller/EventsViewController.swift`, `Model/Event.swift`) | `events`, the event each cell holds, `ref` | load, fetch, swipe, add, redraw | the client; the event form by unwind; `teamIdGlobal` | a swipe writes a whole copy back |
| Event form (`Controller/AddEventViewController.swift`) | rows, `isEnabled` of Save, `event` | edit, update the button, save, cancel | the Events tab | the clock runs on; casts of optional rows |
| Sign-in (`Controller/LoginViewController.swift`) | `user`, a state listener | log in, read all users, register, segue | FirebaseUI, `Users` | a check whose answer is stale when used; two segues at once |
| Additional setup (`Controller/AdditionalSetupViewController.swift`) | form, `user` | join, create a team | `Users`, `Teams`, `teamIdGlobal` | two writes for one operation |
| Profile tab (`Controller/ProfileViewController.swift`) | `user`, form, observer | fetch, save, sign out | `Users`, `Teams`, `teamIdGlobal` | an observer per sign-in; `teamId!` |
| Team tab (`Controller/TeamViewController.swift`, `AddMessageViewController.swift`) | `messages`, `ref` | fetch, add, refresh | the client | order of the feed, fixed reference |
| Event details (`Controller/EventDetailViewController.swift`, `PlayerStatusTableViewController.swift`) | `event`, two lists of players | fetch on load and on each appearance, read the names | the client, `teamIdGlobal` | two observers, lists fixed on opening |
| Helpers (`Helpers/Extensions.swift`) | none | relative times, months, sections | the screens | boundaries of the relative times |
| Shell (`AppDelegate.swift`, `Helpers/DataRepository.swift`, the storyboard) | none | configure | - | - |

What makes each of them correct:

* **Client.**  What a screen shows settles on what the server holds; a tap shows
  at once, is not overtaken by older data and does not flicker when its confirmation is
  used at once;
  every write is answered in the end.
* **Connection.**  It always tries again and never twice at once; it keeps its
  listens; it sends each unanswered put once per connection, in order, and calls
  the completion blocks in that order.
* **Observers.**  The listens are those of the topmost observed paths; moving them
  misses no change; overlapping views agree; a single read is answered once, from
  complete data.
* **Events tab.**  An answer is lost only for a reason one can name; writing
  whole copies back never changes the answers of two players at once and never
  takes an event away or moves its date; the list holds every coming event.
* **Event form.**  Only complete events with a start ahead leave it.
* **Sign-in, setup, profile.**  The record, the team and `teamIdGlobal` agree
  when nothing is under way; a choice is kept; a sign-in leads somewhere.
* **Team tab.**  A message whose author has the server's answer stays; the messages
  of one author stand newest first.
* **Details.**  They show the event of the list they were opened from, and observe
  nothing once they are hidden.

## Modules

```
RealtimeSync -----> Attendance ------> AttendanceHistory --(refines)--> EventRegister
     |                                        |
     +--> RealtimeSyncProofs -----------------+--> AttendanceProofs
               +--> RealtimeSyncAckProofs

Connection --(refines)--> Wire        Observers --> ObserversProofs
     +--> ConnectionProofs

TeamFeed --> TeamFeedProofs           Enrolment --> EnrolmentProofs
                                      EventForm --> EventFormProofs
```

RealtimeSync is the middle: it takes the connection for what `Wire` says, and
Connection shows that the code below implements Wire.  Observers takes the place
of the one listen per device with many that overlap; Attendance, TeamFeed and
Enrolment are the screens above.

Each model has an `MC...` module and one or more `.cfg` files (Attendance and its
refinement two modules).  Definitions
introduced by the comment *Mutant:* are plausible bugs of the definition that
follows; no action uses them, and replacing the definition by its mutant makes a
property of the runs fail.

### RealtimeSync - the client and the server, one collection

| TLA+ | code |
|---|---|
| `puts` | the visible writes of `FWriteTree` |
| `cache`, `View` | the server cache of `FSyncPoint`'s view, and the cache of events computed by `FWriteTree calculateCompleteEventCacheAtPath:` |
| `mainq`, `Raise`, `Deliver` | `FView applyOperation:` yields an event only if the view changed; `FEventRaiser raiseEvents:` puts it on the main queue |
| `SetValue` | `FRepo set:withNode:withCallback:` - overlay and events first, then `putData:` |
| `Connect`, `NextPut` | `tryScheduleReconnect`, `openNetworkConnectionWithToken:`, `restoreState`: listens, then all unanswered puts in order, also those the server has seen |
| `CloseWire` | `onDisconnect:`; writes and cache stay |
| `RecvInit`, `RecvData`, `RecvAck` | `sendListen:` and its answer, `onDataUpdate:`, `ackUserWriteWithWriteId:` (accepted or not, the write leaves the overlay) |
| `held`, `HoldAck`, `AckPuts` | `putsToAck`: `sendPut:` puts an answer aside while `unackedListensCount` is not 0, and `ackPuts` completes those put aside when the last listen is answered; until then their writes stay in the overlay |
| `Waiting` | `outstandingPuts`, the same writes in the same order without those whose answers are held: a held one has left it, so it is not sent again |
| `ServerListen`, `ServerApply`, `ServerReject`, `Push` | external: the server answers a connection's requests in order, and sends a change to every listener, the writer included, before it answers |

Abstractions: requests need no channel, because while the connection is up they
are determined by `Waiting` and by the number of answers on their way (`Handled`);
a request the server reads from a connection the client already gave up is one
it read just before the drop; an app is started again only after the server has
ended its old session; `setValue` is one step although the library does its work
on its own queue, as that queue is serial and the screen hears of nothing before
`Deliver`.  Persistence
is off, as in the app.

The connection is shared: Profile, Team, the details and the single reads listen on it
too, and all that reaches this collection of them is that their unanswered listens hold
answers back.  `HoldAck` is therefore a choice, for the devices in `Busy`: another
screen can send a listen after any put, and then the put is answered first.  Once an
answer is held, some listen is unanswered until `AckPuts`, so `RecvAck` needs `held = 0`;
`AckPuts` needs this collection's own listen answered as well, which after a drop it is not, while
`onDisconnect:` leaves `putsToAck` as it is.  What `AckPuts` raises is worked out write by write
(`Lifted`, `Changing`), since each completed answer lifts its own.

### Connection, Wire - the connection below the client

| TLA+ | code |
|---|---|
| `state`, `reasons`, `retry`, `force`, `fetches` | `connectionState`, `interruptReasons`, the block `FIRRetryHelper` has scheduled, `forceAuthTokenRefresh`, the token fetches under way (`latest`: its number is still `currentFetchTokenAttempt`) |
| `listens`, `outstanding`, `unacked`, `held` | `listens`, `outstandingPuts`, `unackedListensCount`, `putsToAck` |
| `Retry`, `Fetched`, `FetchFails` | the timer block of `tryScheduleReconnect` and the two outcomes of its token fetch |
| `Interrupt`, `Resume`, `Nudge` | `interruptForReason:`, `resumeForReason:`, and the return of the network or to the foreground |
| `OnReady`, `Receive` | `onReady:atTime:sessionID:`, and per message `onDataMessage:` - the answers to auth, listens and puts, and what the server pushes |
| `HangUp` and the actions that use it | `onDisconnect:withReason:`, for a lost websocket, a shutdown, a refused token, `interruptForReason:` |
| `Serve` | external: the server, and the security rules of an app with a sign-in |

Every method runs on one serial queue and is one step; a fetch whose answer comes
when another has been started is told by its number and ignored.  A closed
`FConnection` forgets its websocket, so nothing of it is heard later: closing
empties both channels.  Three things in the code are there to be seen in the model:

* `onDisconnect` does not release `putsToAck`.  A put whose answer came while a
  listen was unanswered waits for the next listen to be answered, and if the app
  observes nothing after the drop there is none.  The properties on completion blocks
  therefore say *if something is observed* (`Wanted # {}`); so it is in the app, whose
  screens always observe.
* the wish for a fresh token (`forceAuthTokenRefresh`) lives in the scheduled block;
  it is lost when the timer is replaced on a return to the foreground or when the
  forced fetch fails, and comes back with the next refusal.
* a listen made while authenticating is sent twice, at once and by `restoreState`;
  both answers are counted.

`Wire` is what RealtimeSync relies on: the wanted listens are asked and the unanswered
puts sent once, in order, per connection, and answered oldest first.  The
refinement maps a connection to *online* when it may send writes.

### Observers - the Events tab, the details and the single reads

The paths are a tree: `Teams` is read once by sign-in and setup, the tab observes
`Teams/K/Events` for good, the details one event below it.  `regs` and `view` are the
registrations and the cache of each path's view, `listens` those of the connection.
`AddRegistrations` and `RemoveRegistrations` are `addEventRegistration:forQuery:` and
`removeEventRegistration:forQuery:`: a view covered by another starts from its data,
one that covers others takes over their listens, one removed gives them back.
`RecvData` and `RecvAnswer` apply what the server sends to the views at, below and
directly above the path, and queue an event for each view that changed;
`Deliver` is the main queue.  The screens are
`LoadTab`, `OpenDetails` (the observer of `viewDidLoad` and the first of
`viewWillAppear` in one step, as no other main queue work runs between them),
`AppearAgain`, `Disappear`, `ReadTeams`, `ChangeTeam`.

`fetchEvent` looks its event up under the current `teamIdGlobal`.  The path `wrong` is
the same id under another team: there is nothing there, so the details keep the event
they have; `SettledScreens` speaks of details looked up at an event that
exists.  Each call of `fetchEvent` replaces `ref`, and
`viewWillDisappear` removes the observers at the last one only - `NoStrayObservers`
says that no order of appearing, disappearing and changing the team leaves one
behind at another.  A removed listen may still be answered: the answer is recognised as not
`current` and dropped, its data is harmless.  An event under way to details
that are closed reaches a controller nobody sees (`ShowNothing`); details opened later
are another controller with observers of its own.

The shape of the tree is what the app observes, and named in `TreeAssumption`: `Teams`
at the top, one list of events below it, events below that list or below a list that
nobody observes.

Left out: the device's own pending writes (RealtimeSync), refused listens, compound
hashes and range merges (they save traffic).

### Attendance - the Events tabs of a team

`Attendance` extends `RealtimeSync` with what each tab makes of the snapshots:
`list` is `events`, `cell` the event of each cell, `made` the keys
`childByAutoId` has returned.  `FetchEvents` is `fetchEvents`' callback (decode,
filter by the clock, sort, assign, reload), `Swipe` either swipe action with
`updateEvent`, `AddEvent` the unwind with `addEvent` and `reloadData`,
`RedrawCell` is `cellForRowAt` for a row scrolled out of view and back.  Of an
event the start and `playerStatus` are kept; the other fields are written once
and travel with the copy.  Sorting gives the rows their places only.  Two
history variables serve the properties: `last`, the last answer of each player,
and `clash`, the events whose loss of an answer is explained - by a swipe on a
copy that was not up to date, a kill or a refusal.

`EventRegister` is the abstract specification: a register per event with the
versions it has had; a write starts from one of those and changes the entry of
at most one player.  `AttendanceHistory` adds the variable `past` that the
mapping needs.

### TeamFeed - the creation of a team and its messages

`submitNewTeam` writes `Teams/<K> = true`, which replaces everything below, and the
team can be joined as soon as the server has it.  If the answer to that put is lost
the library sends it again - after others have added to the team.  `SubmitNewTeam`, `Enter`, `FetchMessages` and
`AddMessage` are the screens; `puts` and `cache` the client as in RealtimeSync, `held` the
number of answers that wait in `putsToAck` for the answer to the listen; the Team tab
is the only listener, and what it shows is taken from the client at once.  A message's
key is that of `childByAutoId` (`FNextPushId`): the server's time as the device
estimates it, then a random part that counts up within a millisecond; the feed is
sorted by the keys.  `era` counts the connections and launches of a device since it
posted: each of them may change its estimate of the server's time, so the order
of two of its messages is promised within one of them only.

A *pending* creation shadows what the founder sees of the team as well: until it is
answered, the founder's feed holds the messages written after it.

Keys tell messages apart only if the random parts do: `Fresh` takes the generator not to
return, within one millisecond, what is part of a key there or the start some device
counts up from.  The second half matters as much as the first: a device that counts up
from a start drawn twice meets the other's keys one count later.

The random part is 12 characters of 64; that all of them are at their last value, so
that the count wraps, is left out.  A member stays in one team; no write is
refused.

### Enrolment - from the log in screen to a team

`users` and `teams` are the server's; `auth` is kept in the keychain; `screen`,
`reads`, `observing`, `seen`, `user`, `teamId` (`teamIdGlobal`), `tab` (the team
the Events tab took in `viewDidLoad`), `puts` and `mainq` die with the process.
Every method that asks the server is two or three actions: `DidSignIn` /
`ServerRead` / `SignInKnown` or `Register`; `Submit` / `ServerRead` /
`TeamNotFound` or `Join`; `SaveUser` / `ServerRead` / `TeamNotFound` or
`SaveUserFound`.  `SubmitNewTeam` writes the record and then the team.
`FetchUser` is the Profile tab's observer, and `Crash` the same observer with a
record that has no team.  `AutoHome` is the listener of `viewWillAppear`.
Whether UIKit performs a segue asked for while FirebaseUI is being dismissed is
its own affair; the constant `HomeWhileDismissing` allows both.

The client is the one of RealtimeSync from further away: `unheard` counts the
puts the server applied and whose answers are under way, a `Disconnect` loses
those answers, and the puts are applied again.  A read has one answer, and each
of the three readers one read under way.

### EventForm - the form behind "+"

Rows, the rules on them, `updateSaveButtonState`, `prepare(for:sender:)`.
Texts are there or not; dates are moments of a clock that ticks while the form is
open.  The lineup section is left out since nothing of it reaches the event.

## Runs

All bounds are constants guarded in the actions.  `CHECK_DEADLOCK FALSE` stands
in every `.cfg`, since a player may always stop tapping and every bound ends
in a state without a next step; what must go on is stated as liveness.

| Run | Shows | Bounds |
|---|---|---|
| `sync` | `SettledShowsServer`, `NewestIsView`, `AckDoesNotFlicker`, types | 2 devices and 2 values (both symmetric), 1 key, both with other screens listening, 3 writes, 2 faults; 4.4 M states |
| `attendance` | `AnswersKept`, `SettledRows`, `RefinesRegister`, types | 2 players on 2 devices, one of them with other screens listening, 1 event, 3 writes, 1 fault, 2 moments; 1.7 M states |
| `attendance_shared` | `AnswersKept`, `SettledRows`, `EventsStay` with one player on two devices | 3 moments, other screens listening on both devices, the devices symmetric; 3.8 M states |
| `attendance_live` | `AnswersSpread`, `PutsDrain`, `Converges` | 2 writes, other screens listening on one device; 0.1 M states |
| `connection` | `OneAttempt`, `UnackedInFlight`, `HeldIsReleased`, `CallsInOrder`, `KeptWhileSignedIn`, `PutsCalled`, `RefinesWire`, types | 1 query, 2 puts, 2 calls of listen, 1 revoked token, 2 events |
| `event_screens` | `ListensAreTops`, `NothingMissed`, `OneTruth`, `SettledScreens`, `NoStrayObservers`, `ReadAnswered`, types | a tree of 5 paths with 2 events, 2 reads, 1 write, 2 appearances, 1 drop, 1 change of team; 0.8 M states |
| `team_space` | `PostsKept`, `NewestFirst`, `SettledFeeds`, types | founder and player, 2 messages, 2 moments, clocks right or 1 ahead, 1 fault; 3.2 M states |
| `enrolment` | `TeamsExist`, `ChoiceKept`, `GlobalFollowsRecord`, `SignInLeadsOn`, types | 1 device, 2 teams, 3 writes, 2 visits to the tabs, 1 fault; 1.5 M states |
| `event_form` | `SavesOnlyValid`, types | clock of 4 moments |
| `enrolment_no_team`, `enrolment_two_phones`, `event_form_optional` | findings, see below | smallest that show them |

Why the bounds are enough for the cases that matter.  In `sync`, three writes
and two faults (of any kinds) contain an answer that is held back over a drop while another device
writes below it, a put that is sent twice with another device's write between
the two, a kill with writes pending, and a refusal under a later write of the
same device; one key is the hardest case, as writes to different keys do not
interfere, and the proofs cover any number.  In `attendance`, three writes are
the creation and one answer of each player, in either order and from stale
copies, with a repetition; `attendance_shared` adds a moment, so that a created
event can have one of two dates and start while it is listed.  Events do not
interfere: a write touches one key.  In `enrolment`, three writes are a registration and a new
team (two), or a registration, a team joined and another chosen in the profile; two
visits allow a sign-out and a second
sign-in with the first tabs still loaded.  In `connection`, two
puts can be in different states (held, under way, not sent), two events are a loss
and another at the worst moment of the recovery, or a sign-out and a sign-in.  In
`event_screens`, two reads overlap each other and the tab, and two appearances have the team
change, or the connection drop, between them.  In `team_space` one drop is what it takes to send
the creation again; two messages are one of each author, or two of one in the same
millisecond.  The rows of EventForm are finite already.

Larger instances passed when run by hand; they exceed what a routine run should take:
`connection` with 3 events (1.8 M states), with two queries and one put (1.4 M) and with two
queries, two puts and one event (0.3 M); `event_screens` with 2 writes, its invariants only
(5.7 M); `team_space` with clocks that may also be behind (7.1 M);
`enrolment` with 4 writes, its invariants only and the two teams symmetric.

Fairness.  The reconnection timer (`tryScheduleReconnect` schedules itself again
after every failure), the server and the two serial dispatch queues run: hence
weak fairness of `Connect`, `ServerListen`, `ServerApply`, the receiving actions,
`AckPuts` (the server answers the listens of the other screens too) and `FetchEvents`,
per device.  It is stated in Attendance, whose run checks the
client's liveness properties together with the tab's.  Connection goes below that: weak fairness of the timer,
of the token fetches (each ends, one way or the other), of the websocket becoming ready, of
the server and of receiving.  Observers is fair in `Connect`, in receiving, in
the server's queue and in `Deliver`.  TeamFeed states no liveness: it would repeat
RealtimeSync's.  Players, kills, drops, refusals and the clock are
not fair: nobody has to tap, and faults are bounded by `MaxFaults`, so the
liveness properties say what happens once the network behaves.  In Enrolment the
answers to reads and their callbacks are fair, presses are not.

## Findings

* `enrolment_no_team`: the record is written before the team is chosen.  An app
  closed at the setup screen goes straight to the tabs at its next launch
  (`LoginViewController.swift:27-35`), and `user.teamId!`
  (`ProfileViewController.swift:154`) ends the process - again at each launch.
* `enrolment_two_phones`: the branch commented *User doesn't exist in DB*
  (`LoginViewController.swift:79`) acts on an answer that may be stale; two first
  sign-ins at the same time let the second overwrite the record of the first.
* `event_form_optional`: the description is called optional
  (`AddEventViewController.swift:66`) and cast with `as! String` (`:221`).

## Proofs

About the client, `RealtimeSyncProofs` and `RealtimeSyncAckProofs` prove four theorems for any sets
of devices, keys and values and any bounds, from the assumptions named in
RealtimeSync only: `Absent` is not a value, `Unknown` is not a snapshot, `Busy` are
devices, the bounds are natural numbers.

* `SyncTypeCorrect`: `SyncTypeOK` is invariant.  It is not inductive: `RecvAck`
  takes a put away and `NextPut` takes the one after the answered ones, so it must
  be known that an answer on its way has a put that waits for one (no more are held than
  pending, no more answers on their way than puts in `Waiting`), and that a
  change is only received when the cache is complete.  `TypeInv` adds exactly
  these: `AnswersHaveWrites`, and `ChangesFollowInit`.  The step lemmas treat a
  channel losing its head, gaining a message, or being closed once, and each
  action cites one of them.
* `NewestIsViewCorrect`: inductive together with `TypeInv`; every action either
  leaves the view alone or raises it (`RaisedIsNewest`).  `AckPuts` may raise several
  views: the last of them is the one that is left (`RaisedProperties`).
* `SettledShowsServerCorrect`: from the invariant `CatchesUp`: if a connection
  listens, then for every key the last word on it in the channel - or, if there is
  none, the cache - is the server's value (`LastWord`).  With an empty channel and
  no pending writes, the view is the cache is the database, and by `NewestIsView`
  it is shown.
* `AckDoesNotFlickerCorrect`: from the invariant `EchoFirst`: the message right
  before a positive answer is the change made by the put it answers, or, for an
  answer at the head of the channel, the cache holds that value already; so taking
  the put out of the overlay leaves the view as it is.  The property is about answers used
  at once.  It is false of a held one, and nothing like it is claimed: while the answer
  waits, another device's newer value can come in below the overlay, and `AckPuts`
  then changes what the screen shows - by `NewestIsView` to the newest data.

Finite sequences have a greatest index with a given property
(`GreatestElement`); this is proved from the well-foundedness of strict subset
on finite sets, not by induction over data.  All invariants named here were
model-checked first on two devices and two keys.

About the connection, `ConnectionProofs` proves seven theorems for any queries and any
bounds, assuming that `NoToken` and `Refused` are not tokens, the bounds are natural
numbers and the queries finitely many.  Their inductive invariant is `IInv`:

* `TypeCorrect` and `UnackedInFlightCorrect` go together (`TypeInv`): only the count of
  listens in both channels shows that `unackedListensCount` never goes below zero.
  Each action cites a lemma on one channel gaining, losing or forgetting messages;
  `RestoreCounts` does it for a whole restore.
* `OneAttemptCorrect`: from `AttemptInv`, which adds that no two fetches are the latest.
* `HeldIsReleasedCorrect`: from `RestoresFirst`: a connection that authenticates hears the
  answer that restores before any answer to a refreshed token; otherwise it would count
  as connected with writes held and no listen on the wire.
* `KeptWhileSignedInCorrect`: from `KeepInv`: until somebody signs out, whatever takes a
  listen away travels behind a message that closes the connection (`WireKept`), which in
  turn needs that no listen is asked for ahead of the authentication it depends on, and
  that what connects has the cached token (`TokensKept`).
* `CallsInOrderCorrect`: from `OrderInv`, in three parts.  `PutsKept`: the puts on either
  channel ascend, every answer is of an older put than every request, and while writes are
  sent the puts on the wire are exactly the outstanding ones - so the answer that arrives
  is of the oldest.  For that a connection must not send its writes twice:
  `RestoresOnce` says that the request that restores is sent once and that neither it nor
  its answer is left when the connection counts as connected.  `Numbered`: the
  answered writes, called or held, are `1..a` and those outstanding follow - so what is
  released together with a listen's answer has everything older with it.  That a put is
  called at once only if nothing is held is `HeldIsReleased` again.
* `RefinesWireCorrect`: Connection implements `Wire` for any queries and bounds, which is
  what RealtimeSync takes for granted.  While a connection sends writes, what it carries is
  told by the rest of its state (`WireView`), so that a step maps to the abstract action
  that its effect on *online*, *wanted* and *queue* names, or to none (`WireSteps`).  For
  the puts that is `CarriesQueue`, from `PutsKept` and `Numbered`: ascending and
  without gaps, the two channels joined are `outstandingPuts` (`NoGaps`, from the
  well-foundedness of `<`).  For the listens it is `AllAsked`: of every observed query
  the request is on the wire, the server listens, or a refusal is on its way; and
  behind each unlisten there is a request that takes it back, which is what the server's
  answers to the requests ahead of it cannot show.

These parts were model-checked on the instance of `connection` before they were
proved.

About the screens' observers, `ObserversProofs` proves six theorems for any events and
lists of the tree, any reads, teams and bounds, from the assumptions in Observers: the shape of
the tree, finitely many paths and reads, and no read called like an observer of a
screen.  They follow from one inductive invariant, `Inv`, whose parts need each other:

* `ListensAreTopsCorrect`: four lemmas on sets of paths (`AddCovered`,
  `AddUncovered`, `RemoveCovered`, `RemoveUncovered`) say what the topmost paths become.
  An added view starts from what is above it and a removed one hands over to what
  is below, so this is a premise of what follows.
* `OneTruthCorrect`: from `ViewsInv`: complete views agree (`FullAgree`) because whatever
  is below a complete view is complete (`FullBelow`) and an overwrite reaches all
  of them; only the tab may hold something before it is complete (`HalfEmpty`).  That an answer
  finds the whole data in place needs the wire: `AnswersPreceded` says that its data
  comes first, unless the view has all of it.
* `NothingMissedCorrect`: from `ListensHeard`: every listen is asked for, or the
  server has heard of it and the current version of each event is on the way or in the view.  For a
  listen answered without data, the hash must still be that of the view: `HashHeld` says
  that it is of versions the view has, or of older ones, and `InOrder` that versions
  only grow from view to wire to server.  A path stopped and asked for again needs
  `StopsFollowed`; an answer completes a view only while its path is listened to, and a
  drop forgets what was on the wire (`CurrentListened`, `OfflineQuiet`).  `MoveWire`
  carries all this over a change of the listens, once, for every order in which they are sent.
* `NoStrayObserversCorrect`: from `DetailsObserve`: the details have observers at their `ref`
  only, and only while visible - without it a removal at `ref` would not be known
  to reach both.
* `SettledScreensCorrect`: from `TabCurrent` and `DetailsCurrent`: what a complete view
  holds is shown already or on its way behind everything older (`Shows`, kept by every
  step that raises or delivers events).  `TabBefore` adds that nobody opens details before the
  tab's view is complete; so a view opened later is never half filled by the tab
  above it, which `CacheFor` relies on.
* `TypeCorrect`: from the types in `Inv`, which say more than `TypeOK` does.

About the Events tab, `AttendanceProofs` proves five theorems for any devices, events,
players, dates and bounds.  A step of the tabs is a step of RealtimeSync on the events
(`StepIsSync`), so the client's theorems hold of the tab and are cited, not proved again.

* `TypeCorrect` and `EventsStayCorrect`: from `TabInv`, the types with `Dated`: every
  copy of an event - on the server, pending, on its way, cached, queued, shown, in a
  cell - has the date the event was created with.  A copy travels through eleven places;
  `ServerCopies` and `ScreenCopies` show once, for any set of allowed records, that no
  step makes a copy out of nothing, and are used for the dates and again for the
  refinement.
* `SettledRowsCorrect`: from `RowsFollow`: the rows are those of the shown snapshot
  that were to come at some moment not after now - the clock goes on between
  `reloadData` and the look at the list - and then from `SettledShowsServer`.
* `AnswersKeptCorrect`: from `KeptInv`.  An event that is not in `clash` has its
  pending writes on one device (`OneWriter`), the youngest of which carries every player's last answer
  (`YoungestIsLast`; pending here means without an answer, held or not); if none is pending the server does (`ServerHasLast`), and a put
  the server has handled but whose answer is on its way is already there
  (`ServerHasHandled`).  A swipe that keeps the event out of `clash` was made on a copy that has
  everybody's last answer, which is why the whole copy may be written back.
* `RefinesRegisterCorrect`: from `PastInv`, by which every copy a device holds was once the
  event's value on the server, or its untouched first version, or is one of these with the
  entry of the device's owner changed;
  `ApplyIsRegisterStep` maps the one step that changes the database, all others
  stutter.

About sign-in, `EnrolmentProofs` proves four theorems for any accounts, devices and teams.

* `TypeCorrect`: with `HeardWrites`: an answer on its way has its write pending.
* `GlobalFollowsRecordCorrect`: from `GlobalInv`: what the observer of `fetchUser` was
  told last, or is still to be told, is the record under the device's pending writes, and
  `teamIdGlobal` follows what it was told.
* `TeamsExistCorrect`: from `NamedInv`: whatever carries the name of a team - records,
  `teamIdGlobal`, the loaded tab, the record as seen, events queued, writes pending,
  teams found by a read - names one that exists, is being created or was given up
  (`OkayStays`: no step undoes that).  `TeamsExist` alone is not
  inductive: an event on the main queue may still set a name.
* `ChoiceKeptCorrect`: under the hypothesis `OneDevice`, each account is used on one
  device.  It is the one theorem with a hypothesis beyond the constants' types, and
  without it the statement is false: two phones of one account write the same record in an
  order neither knows (`enrolment_two_phones`).  The invariant
  `ChoiceInv` says that with the pending writes the record is the choice (`LastOf`), that a
  sign-in which found no record found it before there was a choice (`FreshOf`,
  `MissingOf`), and that the youngest own write the server has heard is the record.

About the Team tab, `TeamFeedProofs` proves four theorems for any number of devices,
posts and faults, any errors of the clocks and any draws.

* `TypeCorrect`: from `BaseInv`.  That an answer finds a pending put needs the two
  channels and the pending puts to be one queue: the answers on their way are those of
  the oldest puts that are not held, and what is on its way up is the rest of them, with
  at most one listen in between (`Fifo`, `InFlight`).  `Adds` says that a message is
  never added to a feed that is not known.
* `PostsKeptCorrect`: from `KeptInv`.  `KeysApart`: no two messages have one key, and no
  two devices count up from one start; so a put takes nothing away.  The creation of
  the team is the founder's first put (`FoundFirst`), so while it has no answer no post of
  the founder has one either, and what it deletes is of others, posted before (`FoundPends`).
  `Handled`: what the answers on their way are of is in the feed.  This proof is where
  the second half of `Fresh` came from: without it the property fails with three posts.
* `SettledFeedsCorrect`, under the hypothesis that `Unknown` is not a set of posts: an
  answer waits only while a listen is unanswered (`HeldWaits`), and who listens has in
  its channel what turns its cache into the server's feed (`CatchesUp`, `Replay`).  A
  finite set of posts has an order by their keys (`OneOrder`): the place of a post is told
  by how many come after it, which needs no induction.
* `NewestFirstCorrect`: from `OrderInv`: the keys of an era go up, and the clock they are
  read off does not fall behind the last of them (`LastOfEra`); and the view, a fold of the
  pending puts over the cache, holds only what was posted (`FoldsWithin`, by the
  shortest counterexample).

About the form, `EventFormProofs` proves `FormTypeCorrect` and
`SavesOnlyValidCorrect` for a clock of any length, assuming that `Nil` is not a
moment.  The invariant adds to the types that a form still open has handed over
nothing (`OpenHasNone`); so a step that changes `event` is `Save`, whose own
validation carries the theorem - the enabled button does not.

Only model-checked: the liveness properties, since temporal reasoning with fairness and
`ENABLED` is beyond the prover.

## Not modelled

The helpers are pure functions that return text.  The status label of a reused cell
(`EventsViewController.swift:74`) keeps its old text when the event has no entry for the
player: which cell is reused is UIKit's affair, and no order of steps is involved.  The
player lists are filled once, when the details open, and do not follow; pull to refresh
reloads the same rows.  Of the client, transactions, updates, `onDisconnect` writes,
`purgeOutstandingWrites`, filtered queries, persistence and `goOffline` are not used by
the app (Connection has the interruption all the same).  Time is
left out of Connection: delays, and with them the growth of the retry delay.  Layout, colours, alerts and the name field
change no state that matters.  The application delegate, the empty
`DataRepository` and the storyboard hold no logic beyond the transitions in
Enrolment.  The other pods are third-party code; what the app relies on of them
(Auth's listener fires on registration, Eureka's `wasChanged` and validation,
CodableFirebase throwing on a record that does not decode) is part of the actions
that use it.  In Enrolment a device is used with one account: what the observers
of an earlier account's tabs do to `teamIdGlobal` is left out.

## Plan

1. *done* RealtimeSync with its runs and proofs; Attendance on top of it with its
   abstract specification; Enrolment; EventForm.
2. *done* Connection and Wire, with proofs: the connection that RealtimeSync assumes.
3. *done* Observers with its proofs: details, tab and single reads.
4. *done* TeamFeed: a team's record and its messages together.
5. *done* `AttendanceProofs` with the refinement, `EnrolmentProofs`, `TeamFeedProofs`.
   The data of Observers, and Connection's refinement of Wire.
6. A second account on a device in Enrolment: what the observers of the first account's
   tabs do to `teamIdGlobal`.
