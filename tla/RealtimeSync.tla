---------------------------- MODULE RealtimeSync ----------------------------
(***************************************************************************)
(* The Firebase Realtime Database client that every screen of the app      *)
(* talks through, for ONE observed collection (Teams/<id>/Events or        *)
(* Teams/<id>/Messages), together with the server it is a client of.       *)
(*                                                                         *)
(* The client is Pods/FirebaseDatabase: a setValue is recorded as a        *)
(* pending write and laid over the server cache at once, is sent when the  *)
(* connection is up, and is dropped again when the server answers it.  A   *)
(* value event is queued on the main queue whenever the overlaid view      *)
(* changes.  Persistence is never enabled by the app, so all of that is    *)
(* memory and dies with the process.  The server is external: it applies   *)
(* a connection's requests in order, and pushes each change to every       *)
(* subscribed connection, the writer's own included, before it answers.    *)
(*                                                                         *)
(* The app's other screens listen on the same connection.  Of them only    *)
(* one thing reaches this collection: while any listen is unanswered the   *)
(* answers to writes are held back (putsToAck), and the writes stay in the *)
(* overlay, until the last listen is answered.  Other screens listen       *)
(* whenever they like, so that an answer finds one of their listens        *)
(* unanswered is a choice, and as long as answers are held back, one is.   *)
(*                                                                         *)
(* Requests need no channel of their own.  While the connection is up,     *)
(* what is on its way to the server is the listen, if sub is FALSE, and    *)
(* then Waiting(d) after the first Handled(d); a put that was read by the  *)
(* server after the client noticed the drop is one read just before it.    *)
(***************************************************************************)
EXTENDS Naturals, Sequences, FiniteSets

CONSTANTS
    Device,     \* running copies of the app
    Key,        \* children of the observed collection
    Val,        \* what a child can hold
    Absent,     \* the value of a child that is not in the database
    Unknown,    \* the view before the first snapshot
    Busy,       \* bound: the devices whose other screens listen meanwhile
    MaxSets,    \* bound: calls of setValue
    MaxFaults   \* bound: disconnections, kills and rejections together

ASSUME AbsentAssumption  == Absent \notin Val
ASSUME UnknownAssumption == Unknown \notin [Key -> Val \cup {Absent}]
ASSUME BusyAssumption    == Busy \subseteq Device
ASSUME BoundAssumption   == MaxSets \in Nat /\ MaxFaults \in Nat

VARIABLES
    db,        \* the server's copy of the collection
    open,      \* the screen is loaded and its observer registered
    online,    \* the websocket is up
    sub,       \* the server has this connection's listen
    puts,      \* writes laid over the cache, oldest first
    held,      \* how many of them, the oldest, have an answer held back
    down,      \* server-to-client messages in flight
    cache,     \* the last server data the client has, or Unknown
    mainq,     \* snapshots queued for the observer on the main queue
    shown,     \* the snapshot the observer was last called with
    sets,      \* calls of setValue so far
    faults     \* faults so far

wire     == <<online, sub, down, held>>
screen   == <<mainq, shown>>
syncVars == <<db, open, wire, puts, cache, screen, sets, faults>>

-----------------------------------------------------------------------------
Entry    == Val \cup {Absent}
Snapshot == [Key -> Entry]
Put      == [key : Key, val : Val]
InitMsg  == [kind : {"init"}, snap : Snapshot]
DataMsg  == [kind : {"data"}, key : Key, val : Val]
AckMsg   == [kind : {"ack"}, ok : BOOLEAN]
Message  == InitMsg \cup DataMsg \cup AckMsg

SyncTypeOK ==
    /\ db \in Snapshot
    /\ open \in [Device -> BOOLEAN]
    /\ online \in [Device -> BOOLEAN]
    /\ sub \in [Device -> BOOLEAN]
    /\ puts \in [Device -> Seq(Put)]
    /\ held \in [Device -> Nat]
    /\ down \in [Device -> Seq(Message)]
    /\ cache \in [Device -> Snapshot \cup {Unknown}]
    /\ mainq \in [Device -> Seq(Snapshot)]
    /\ shown \in [Device -> Snapshot \cup {Unknown}]
    /\ sets \in 0..MaxSets
    /\ faults \in 0..MaxFaults

-----------------------------------------------------------------------------
\* The pending writes ps that touch k, and the youngest of them.
On(ps, k) == {i \in DOMAIN ps : ps[i].key = k}
LastOn(ps, k) == CHOOSE i \in On(ps, k) : \A j \in On(ps, k) : j <= i

\* The pending writes laid over the server cache, youngest on top: nothing
\* is known of the collection while the cache is not complete.
View(c, ps) ==
    IF c = Unknown THEN Unknown
    ELSE [k \in Key |-> IF On(ps, k) = {} THEN c[k] ELSE ps[LastOn(ps, k)].val]

\* Mutant: every operation on the view raises an event.
RaiseAlways(d, view) == mainq' = [mainq EXCEPT ![d] = Append(@, view)]

\* The writes without an answer.
Waiting(d) == SubSeq(puts[d], held[d] + 1, Len(puts[d]))

\* A value event is raised only when the view becomes known or changes.
Raise(d, view) ==
    mainq' = IF view = View(cache[d], puts[d]) THEN mainq
             ELSE [mainq EXCEPT ![d] = Append(@, view)]

-----------------------------------------------------------------------------
SyncInit ==
    /\ db = [k \in Key |-> Absent]
    /\ open = [d \in Device |-> FALSE]
    /\ online = [d \in Device |-> FALSE]
    /\ sub = [d \in Device |-> FALSE]
    /\ puts = [d \in Device |-> <<>>]
    /\ held = [d \in Device |-> 0]
    /\ down = [d \in Device |-> <<>>]
    /\ cache = [d \in Device |-> Unknown]
    /\ mainq = [d \in Device |-> <<>>]
    /\ shown = [d \in Device |-> Unknown]
    /\ sets = 0
    /\ faults = 0

\* viewDidLoad registers the observer.
Observe(d) ==
    /\ ~open[d]
    /\ open' = [open EXCEPT ![d] = TRUE]
    /\ UNCHANGED <<db, wire, puts, cache, screen, sets, faults>>

\* Mutant: the observers only hear of a write once it is answered.
SetValueUnseen(d, k, v) ==
    /\ open[d]
    /\ sets < MaxSets
    /\ puts' = [puts EXCEPT ![d] = Append(@, [key |-> k, val |-> v])]
    /\ sets' = sets + 1
    /\ UNCHANGED <<db, open, wire, cache, screen, faults>>

\* setValue: overlay, raise, remember, and send if the connection is up.
SetValue(d, k, v) ==
    /\ open[d]
    /\ sets < MaxSets
    /\ puts' = [puts EXCEPT ![d] = Append(@, [key |-> k, val |-> v])]
    /\ Raise(d, View(cache[d], puts'[d]))
    /\ sets' = sets + 1
    /\ UNCHANGED <<db, open, wire, cache, shown, faults>>

\* Mutant: the connection is not tried again after the first drop.
ConnectOnce(d) ==
    /\ open[d]
    /\ ~online[d]
    /\ cache[d] = Unknown
    /\ online' = [online EXCEPT ![d] = TRUE]
    /\ UNCHANGED <<db, open, sub, down, held, puts, cache, screen, sets, faults>>

\* The connection comes up: the listens and then every put without an answer
\* are sent again, whether or not the server has seen them before.
Connect(d) ==
    /\ open[d]
    /\ ~online[d]
    /\ online' = [online EXCEPT ![d] = TRUE]
    /\ UNCHANGED <<db, open, sub, down, held, puts, cache, screen, sets, faults>>

\* Everything in flight on the connection is gone, its answers included;
\* pending writes, the answers held back and the cache stay.
CloseWire(d) ==
    /\ online' = [online EXCEPT ![d] = FALSE]
    /\ sub' = [sub EXCEPT ![d] = FALSE]
    /\ down' = [down EXCEPT ![d] = <<>>]
    /\ faults < MaxFaults
    /\ faults' = faults + 1

Disconnect(d) ==
    /\ online[d]
    /\ CloseWire(d)
    /\ UNCHANGED <<db, open, held, puts, cache, screen, sets>>

\* The process ends: nothing of the client survives.
Kill(d) ==
    /\ open[d]
    /\ CloseWire(d)
    /\ open' = [open EXCEPT ![d] = FALSE]
    /\ puts' = [puts EXCEPT ![d] = <<>>]
    /\ held' = [held EXCEPT ![d] = 0]
    /\ cache' = [cache EXCEPT ![d] = Unknown]
    /\ mainq' = [mainq EXCEPT ![d] = <<>>]
    /\ shown' = [shown EXCEPT ![d] = Unknown]
    /\ UNCHANGED <<db, sets>>

-----------------------------------------------------------------------------
\* The server's side.

ServerListen(d) ==
    /\ online[d]
    /\ ~sub[d]
    /\ sub' = [sub EXCEPT ![d] = TRUE]
    /\ down' = [down EXCEPT ![d] = Append(@, [kind |-> "init", snap |-> db])]
    /\ UNCHANGED <<db, open, online, held, puts, cache, screen, sets, faults>>

\* The puts of this connection that the server has dealt with are those
\* whose answer is on its way; it takes them in order, after the listen.
Acks(msgs) == {i \in DOMAIN msgs : msgs[i].kind = "ack"}
Handled(d) == Cardinality(Acks(down[d]))
Unhandled(d) == sub[d] /\ Handled(d) < Len(Waiting(d))
NextPut(d) == Waiting(d)[Handled(d) + 1]

\* What d's channel carries once put p of writer w is dealt with: the new
\* value for a subscriber if there is one, then the writer's answer.
Push(w, p, ok, d) ==
    LET data == IF ok /\ sub[d]
                THEN <<[kind |-> "data", key |-> p.key, val |-> p.val]>> ELSE <<>>
        ack  == IF d = w THEN <<[kind |-> "ack", ok |-> ok]>> ELSE <<>>
    IN  down[d] \o data \o ack

ServerApply(d) ==
    /\ Unhandled(d)
    /\ LET p == NextPut(d)
       IN  /\ db' = [db EXCEPT ![p.key] = p.val]
           /\ down' = [x \in Device |-> Push(d, p, TRUE, x)]
    /\ UNCHANGED <<open, online, sub, held, puts, cache, screen, sets, faults>>

\* The security rules, which are not in the repository, refuse the put.
ServerReject(d) ==
    /\ Unhandled(d)
    /\ faults < MaxFaults
    /\ LET p == NextPut(d)
       IN  down' = [x \in Device |-> Push(d, p, FALSE, x)]
    /\ faults' = faults + 1
    /\ UNCHANGED <<db, open, online, sub, held, puts, cache, screen, sets>>

-----------------------------------------------------------------------------
\* The client's side of each message.

Receive(d, kind) ==
    /\ down[d] # <<>>
    /\ Head(down[d]).kind = kind
    /\ down' = [down EXCEPT ![d] = Tail(@)]
    /\ UNCHANGED <<db, open, online, sub, shown, sets, faults>>

\* Mutant: a listen's answer is only used for the first listen.
RecvInitOnce(d) ==
    /\ Receive(d, "init")
    /\ cache' = [cache EXCEPT ![d] = IF @ = Unknown THEN Head(down[d]).snap ELSE @]
    /\ Raise(d, View(cache'[d], puts[d]))
    /\ UNCHANGED <<puts, held>>

RecvInit(d) ==
    /\ Receive(d, "init")
    /\ cache' = [cache EXCEPT ![d] = Head(down[d]).snap]
    /\ Raise(d, View(cache'[d], puts[d]))
    /\ UNCHANGED <<puts, held>>

RecvData(d) ==
    /\ Receive(d, "data")
    /\ cache' = [cache EXCEPT ![d][Head(down[d]).key] = Head(down[d]).val]
    /\ Raise(d, View(cache'[d], puts[d]))
    /\ UNCHANGED <<puts, held>>

\* The answer to the oldest write without one, with every listen answered:
\* accepted or refused, the write leaves the overlay, and what shows from
\* then on is the server data.
RecvAck(d) ==
    /\ held[d] = 0
    /\ Receive(d, "ack")
    /\ puts' = [puts EXCEPT ![d] = Tail(@)]
    /\ Raise(d, View(cache[d], puts'[d]))
    /\ UNCHANGED <<cache, held>>

\* The same answer with a listen of another screen unanswered: it is put
\* aside, and the write stays where it is.
HoldAck(d) ==
    /\ d \in Busy
    /\ Receive(d, "ack")
    /\ held' = [held EXCEPT ![d] = @ + 1]
    /\ UNCHANGED <<puts, cache, mainq>>

\* The view once the n oldest writes are lifted, and the n at which it
\* changes when the writes held back are lifted one after the other.
Lifted(d, n)  == View(cache[d], SubSeq(puts[d], n + 1, Len(puts[d])))
Changing(d)   == {n \in 1..held[d] : Lifted(d, n) # Lifted(d, n - 1)}
NthChange(d, i) ==
    CHOOSE n \in Changing(d) : Cardinality({m \in Changing(d) : m <= n}) = i

\* The last unanswered listen of the connection, this collection's own or
\* another screen's, is answered: ackPuts completes the answers held back,
\* and each of them lifts its write and raises what that changes.
ListenAnswered(d) == sub[d] /\ \A i \in DOMAIN down[d] : down[d][i].kind # "init"
AckPuts(d) ==
    /\ held[d] > 0
    /\ ListenAnswered(d)
    /\ puts' = [puts EXCEPT ![d] = Waiting(d)]
    /\ held' = [held EXCEPT ![d] = 0]
    /\ mainq' = [mainq EXCEPT ![d] = @ \o
            [i \in 1..Cardinality(Changing(d)) |-> Lifted(d, NthChange(d, i))]]
    /\ UNCHANGED <<db, open, online, sub, down, cache, shown, sets, faults>>

\* Mutant: the callback is handed the queue instead of its first snapshot.
DeliverQueue(d) ==
    /\ mainq[d] # <<>>
    /\ shown' = [shown EXCEPT ![d] = mainq[d]]
    /\ mainq' = [mainq EXCEPT ![d] = Tail(@)]
    /\ UNCHANGED <<db, open, wire, puts, cache, sets, faults>>

\* The main queue runs the observer's callback.
Deliver(d) ==
    /\ mainq[d] # <<>>
    /\ shown' = [shown EXCEPT ![d] = Head(mainq[d])]
    /\ mainq' = [mainq EXCEPT ![d] = Tail(@)]
    /\ UNCHANGED <<db, open, wire, puts, cache, sets, faults>>

-----------------------------------------------------------------------------
\* What goes on whatever the screen does: the connection and the server.
Background(d) ==
    \/ Connect(d)
    \/ Disconnect(d)
    \/ ServerListen(d)
    \/ RecvInit(d)
    \/ RecvData(d)
    \/ RecvAck(d)
    \/ HoldAck(d)
    \/ AckPuts(d)

SyncNext ==
    \E d \in Device :
        \/ Observe(d)
        \/ \E k \in Key, v \in Val : SetValue(d, k, v)
        \/ Kill(d)
        \/ Background(d)
        \/ ServerApply(d)
        \/ ServerReject(d)
        \/ Deliver(d)

SyncSpec == SyncInit /\ [][SyncNext]_syncVars

-----------------------------------------------------------------------------
\* Nothing is under way between d and the server, and d is listening.
Settled(d) == sub[d] /\ puts[d] = <<>> /\ down[d] = <<>> /\ mainq[d] = <<>>

\* What a screen shows once nothing is under way is what the server holds,
\* whatever was lost, sent again or refused on the way (FSyncTree's overlay
\* and the order in which FPersistentConnection restores its state).
SettledShowsServer == \A d \in Device : Settled(d) => shown[d] = db

\* The newest snapshot handed to the main queue is the client's view: the
\* optimistic value of a tap is never overtaken by an older event.
Newest(d) == IF mainq[d] = <<>> THEN shown[d] ELSE mainq[d][Len(mainq[d])]
NewestIsView == \A d \in Device : Newest(d) = View(cache[d], puts[d])

\* The positive answer to a write that lifts the overlay at once, no listen
\* being unanswered, never changes what the device shows: the server's data
\* is already in the cache, also when the same put was sent twice
\* (ackUserWriteWithWriteId).  An answer that was held back gives no such
\* promise: another device's newer value can come in below the overlay that
\* AckPuts lifts later.
Accepted(d) == puts[d] # <<>> /\ RecvAck(d) /\ Head(down[d]).ok
AckDoesNotFlicker ==
    [][\A d \in Device : Accepted(d) => UNCHANGED mainq]_syncVars

\* A write is eventually answered, or its process has been killed
\* (tryScheduleReconnect, restoreState).
PutsDrain == \A d \in Device : puts[d] # <<>> ~> puts[d] = <<>>

\* Once connections are retried and queues drained - Attendance states that
\* fairness - every open screen shows the server's data and goes on doing so.
Converges == <>[](\A d \in Device : open[d] => shown[d] = db)
=============================================================================
