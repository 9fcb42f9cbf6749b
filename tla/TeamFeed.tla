------------------------------- MODULE TeamFeed -------------------------------
(***************************************************************************)
(* A team from the moment its founder creates it, and its feed of messages *)
(* (AdditionalSetupViewController.submitNewTeam, TeamViewController).      *)
(*                                                                         *)
(* Creating a team writes TRUE to Teams/<K>, which replaces all that is    *)
(* below; a message is written under a key of childByAutoId, which starts  *)
(* with the device's idea of the server's time, and the feed is sorted by  *)
(* those keys.  Both writes stay pending until they are answered, are laid *)
(* over the server's data until then, and are sent again after a drop.     *)
(*                                                                         *)
(* Requests and answers are FIFO per connection; the Team tab is the only  *)
(* listener, and shows at once what the library has for it: the way over   *)
(* the main queue is RealtimeSync's.  Of a message the model keeps the key *)
(* and the author; the key of the team is fixed; no write is refused.      *)
(***************************************************************************)
EXTENDS Integers, Sequences, FiniteSets, SequencesExt

CONSTANTS
    Device,
    Founder,    \* the device that creates the team
    Draw,       \* random parts of push ids, in their order
    Skew,       \* how far a device's idea of the server's time is off
    Unknown,    \* nothing is known of the feed yet
    MaxPosts,   \* bound: messages
    MaxTime,    \* bound: the last moment of the server's clock
    MaxFaults   \* bound: drops and kills together

ASSUME FeedAssumption ==
    /\ Founder \in Device
    /\ Draw \subseteq Nat \ {0} /\ Skew \subseteq Int /\ 0 \in Skew
    /\ MaxPosts \in Nat /\ MaxTime \in Nat /\ MaxFaults \in Nat

VARIABLES
    now,        \* the server's clock
    skew,       \* the error of FRepo.serverClock
    lastPush,   \* lastPushTime and lastRandChars
    founded,    \* server: Teams/<K> has been written
    feed,       \* server: Teams/<K>/Messages
    made,       \* submitNewTeam has been called
    member,     \* teamIdGlobal = K
    opened,     \* the Team tab observes the feed
    online,
    up, down,   \* requests and answers in flight
    puts,       \* pending writes, oldest first
    held,       \* how many of them have an answer that waits for the listen's
    cache,      \* the feed as last sent by the server
    era,        \* connections and launches of each device since it posted
    faults,
    \* history, read by the properties only
    said,       \* messages posted
    answered,   \* those whose author has the server's answer
    atRisk      \* those applied while the creation of the team was pending

clock   == <<now, skew, lastPush, era>>
server  == <<founded, feed>>
wire    == <<online, up, down>>
client  == <<puts, held, cache>>
screen  == <<member, opened>>
history == <<said, answered, atRisk>>
vars    == <<clock, server, made, wire, client, screen, faults, history>>

-----------------------------------------------------------------------------
NoPush == [time |-> 0, draw |-> 0, inc |-> 0]
PushId == [time : Int, draw : Draw, inc : 0..MaxPosts]

\* Keys are compared character by character: the time, then the random part,
\* which counts up within one millisecond.
Before(a, b) ==
    \/ a.time < b.time
    \/ a.time = b.time /\ a.draw < b.draw
    \/ a.time = b.time /\ a.draw = b.draw /\ a.inc < b.inc

Post    == [key : PushId, author : Device, nth : 1..MaxPosts, era : Nat]
Found   == [kind |-> "found"]
PutPost(m) == [kind |-> "post", post |-> m]
Listen  == [kind |-> "listen"]
IsPut(r) == r = Found \/ (r.kind = "post" /\ r.post \in Post)
IsFeed(f) == f \subseteq Post

TypeOK ==
    /\ now \in 0..MaxTime /\ skew \in [Device -> Skew]
    /\ \A d \in Device : lastPush[d] \in PushId \cup {NoPush}
    /\ founded \in BOOLEAN /\ IsFeed(feed) /\ made \in BOOLEAN
    /\ {member, opened, online} \subseteq [Device -> BOOLEAN]
    /\ \A d \in Device :
        /\ \A i \in DOMAIN puts[d] : IsPut(puts[d][i])
        /\ \A i \in DOMAIN up[d] : up[d][i] = Listen \/ IsPut(up[d][i])
        /\ \A i \in DOMAIN down[d] : down[d][i].kind \in {"init", "feed", "add", "ack"}
        /\ held[d] \in 0..Len(puts[d])
        /\ cache[d] = Unknown \/ IsFeed(cache[d])
    /\ IsFeed(said) /\ answered \cup atRisk \subseteq said

-----------------------------------------------------------------------------
\* A put under a key replaces what is there.
With(f, m) == {x \in f : x.key # m.key} \cup {m}

\* What a put makes of a feed: the creation of the team empties it.
Apply(f, r) == IF r.kind = "found" THEN {} ELSE With(f, r.post)

\* The pending writes laid over the cache; a pending creation of the team
\* says all there is to know, without it the cache has to be complete.
View(d) ==
    LET known == IF cache[d] = Unknown THEN {} ELSE cache[d]
    IN  IF cache[d] = Unknown /\ Found \notin Range(puts[d]) THEN Unknown
        ELSE FoldLeft(Apply, known, puts[d])

\* TeamViewController.messages: the children by their keys, reversed.
Messages(d) ==
    IF ~opened[d] \/ View(d) = Unknown THEN <<>>
    ELSE CHOOSE s \in SetToSeqs(View(d)) :
            \A i, j \in DOMAIN s : i < j => Before(s[j].key, s[i].key)

\* A write: pending, and sent if the connection is up.
SetValue(d, r) ==
    /\ puts' = [puts EXCEPT ![d] = Append(@, r)]
    /\ up' = IF online[d] THEN [up EXCEPT ![d] = Append(@, r)] ELSE up

\* arc4random is taken not to return, within one millisecond, what is part of a
\* key there or is counted up from.
Fresh(time) ==
    LET drawn == {m.key.draw : m \in {x \in said : x.key.time = time}}
                 \cup {lastPush[d].draw : d \in {x \in Device : lastPush[x].time = time}}
    IN  {[time |-> time, draw |-> r, inc |-> 0] : r \in Draw \ drawn}

\* Mutant: the random part is drawn every time.
PushIdsDrawn(d) == Fresh(now + skew[d])

\* What childByAutoId may return: within a millisecond the last id plus one.
PushIds(d) ==
    LET time == now + skew[d]
    IN  IF lastPush[d] # NoPush /\ lastPush[d].time = time
        THEN {[lastPush[d] EXCEPT !.inc = @ + 1]}
        ELSE Fresh(time)

TakePushId(d, key) ==
    /\ key \in PushIds(d)
    /\ lastPush' = [lastPush EXCEPT ![d] = key]

Init ==
    /\ now = 0 /\ skew = [d \in Device |-> 0] /\ era = [d \in Device |-> 0]
    /\ lastPush = [d \in Device |-> NoPush]
    /\ founded = FALSE /\ feed = {} /\ made = FALSE
    /\ member = [d \in Device |-> FALSE] /\ opened = [d \in Device |-> FALSE]
    /\ online = [d \in Device |-> FALSE]
    /\ up = [d \in Device |-> <<>>] /\ down = [d \in Device |-> <<>>]
    /\ puts = [d \in Device |-> <<>>] /\ held = [d \in Device |-> 0]
    /\ cache = [d \in Device |-> Unknown]
    /\ faults = 0
    /\ said = {} /\ answered = {} /\ atRisk = {}

-----------------------------------------------------------------------------
\* submitNewTeam: a key for the team, teamIdGlobal, and the put of Teams/<K>.
SubmitNewTeam(key) ==
    /\ ~made
    /\ made' = TRUE
    /\ member' = [member EXCEPT ![Founder] = TRUE]
    /\ TakePushId(Founder, key)
    /\ SetValue(Founder, Found)
    /\ UNCHANGED <<now, skew, era, server, online, down, held, cache, opened, faults, history>>

\* teamIdGlobal is set to the team: by whoever finds it under Teams, and by
\* the founder's own record after a restart.
Enter(d) ==
    /\ ~member[d]
    /\ founded \/ feed # {} \/ (d = Founder /\ made)
    /\ member' = [member EXCEPT ![d] = TRUE]
    /\ UNCHANGED <<clock, server, made, wire, client, opened, faults, history>>

\* viewDidLoad of the Team tab, fetchMessages.
FetchMessages(d) ==
    /\ member[d] /\ ~opened[d]
    /\ opened' = [opened EXCEPT ![d] = TRUE]
    /\ up' = IF online[d] THEN [up EXCEPT ![d] = Append(@, Listen)] ELSE up
    /\ UNCHANGED <<clock, server, made, online, down, client, member, faults, history>>

Mine(d) == {m \in said : m.author = d}

\* unwindToMessages with the text of the form, addMessage.
AddMessage(d, key) ==
    /\ opened[d]
    /\ Cardinality(said) < MaxPosts
    /\ TakePushId(d, key)
    /\ LET m == [key |-> key, author |-> d, nth |-> Cardinality(Mine(d)) + 1,
                 era |-> era[d]] IN
        /\ SetValue(d, PutPost(m))
        /\ said' = said \cup {m}
    /\ UNCHANGED <<now, skew, era, server, made, online, down, held, cache,
                   screen, faults, answered, atRisk>>

-----------------------------------------------------------------------------
\* Ids made from now on come from another clock or another process.
NewEra(d) == era' = [era EXCEPT ![d] = IF Mine(d) = {} THEN @ ELSE @ + 1]

Pending(d) == SubSeq(puts[d], held[d] + 1, Len(puts[d]))

\* The offset of the server's clock is estimated on each connection; a bound:
\* it is right until the device has posted something.
Reestimate(d) ==
    \E s \in IF Mine(d) = {} THEN {0} ELSE Skew : skew' = [skew EXCEPT ![d] = s]

\* Mutant: the puts are sent again newest first.
ConnectBackwards(d) ==
    /\ member[d] /\ ~online[d]
    /\ online' = [online EXCEPT ![d] = TRUE]
    /\ up' = [up EXCEPT ![d] =
        (IF opened[d] THEN <<Listen>> ELSE <<>>) \o Reverse(Pending(d))]
    /\ Reestimate(d) /\ NewEra(d)
    /\ UNCHANGED <<now, lastPush, server, made, down, client, screen, faults, history>>

\* The connection comes up, with a new estimate of the server's clock: the
\* listen is sent and every put without an answer, in their order.  What the
\* connection does before the device knows the team is of no interest.
Connect(d) ==
    /\ member[d] /\ ~online[d]
    /\ online' = [online EXCEPT ![d] = TRUE]
    /\ up' = [up EXCEPT ![d] =
        (IF opened[d] THEN <<Listen>> ELSE <<>>) \o Pending(d)]
    /\ Reestimate(d) /\ NewEra(d)
    /\ UNCHANGED <<now, lastPush, server, made, down, client, screen, faults, history>>

Drop(d) ==
    /\ faults < MaxFaults
    /\ faults' = faults + 1
    /\ online' = [online EXCEPT ![d] = FALSE]
    /\ up' = [up EXCEPT ![d] = <<>>] /\ down' = [down EXCEPT ![d] = <<>>]

Disconnect(d) ==
    /\ online[d]
    /\ Drop(d)
    /\ UNCHANGED <<clock, server, made, client, screen, history>>

PostsIn(ps) == {r.post : r \in {x \in Range(ps) : x.kind = "post"}}

\* The process ends; offset, push ids and everything pending start anew.
Kill(d) ==
    /\ member[d]
    /\ Drop(d)
    /\ skew' = [skew EXCEPT ![d] = 0] /\ lastPush' = [lastPush EXCEPT ![d] = NoPush]
    /\ NewEra(d)
    /\ member' = [member EXCEPT ![d] = FALSE] /\ opened' = [opened EXCEPT ![d] = FALSE]
    /\ puts' = [puts EXCEPT ![d] = <<>>] /\ held' = [held EXCEPT ![d] = 0]
    /\ cache' = [cache EXCEPT ![d] = Unknown]
    /\ UNCHANGED <<now, server, made, history>>

Receive(d, kind) ==
    /\ down[d] # <<>> /\ Head(down[d]).kind = kind
    /\ down' = [down EXCEPT ![d] = Tail(@)]

\* Mutant: the count of the answers that waited stays.
RecvInitHolding(d) ==
    /\ Receive(d, "init")
    /\ cache' = [cache EXCEPT ![d] = Head(down[d]).feed]
    /\ puts' = [puts EXCEPT ![d] = Pending(d)]
    /\ UNCHANGED <<clock, server, made, online, up, held, screen, faults, history>>

\* The answer to the listen, with the data before it: answers to puts that
\* had to wait for it are dealt with now.
RecvInit(d) ==
    /\ Receive(d, "init")
    /\ cache' = [cache EXCEPT ![d] = Head(down[d]).feed]
    /\ puts' = [puts EXCEPT ![d] = Pending(d)]
    /\ held' = [held EXCEPT ![d] = 0]
    /\ UNCHANGED <<clock, server, made, online, up, screen, faults, history>>

\* A change others or the own puts have made.
RecvData(d) ==
    /\ Receive(d, "feed") \/ Receive(d, "add")
    /\ LET r == Head(down[d]) IN
        cache' = [cache EXCEPT ![d] = IF r.kind = "feed" THEN r.feed ELSE With(@, r.post)]
    /\ UNCHANGED <<clock, server, made, online, up, puts, held, screen, faults, history>>

\* The answer to a put: held while a listen is unanswered.
AwaitsListen(d) == Listen \in Range(up[d]) \/ \E r \in Range(down[d]) : r.kind = "init"

\* Mutant: the put of the team stays pending.
RecvAckOfPosts(d) ==
    /\ Receive(d, "ack")
    /\ IF AwaitsListen(d)
       THEN held' = [held EXCEPT ![d] = @ + 1] /\ puts' = puts
       ELSE held' = held /\ puts' = [puts EXCEPT ![d] =
                                       SelectSeq(@, LAMBDA r : r # Head(@) \/ r = Found)]
    /\ answered' = answered \cup PostsIn(<<puts[d][held[d] + 1]>>)
    /\ UNCHANGED <<clock, server, made, online, up, cache, screen, faults,
                   said, atRisk>>

RecvAck(d) ==
    /\ Receive(d, "ack")
    /\ IF AwaitsListen(d)
       THEN held' = [held EXCEPT ![d] = @ + 1] /\ puts' = puts
       ELSE held' = held /\ puts' = [puts EXCEPT ![d] = Tail(@)]
    /\ answered' = answered \cup PostsIn(<<puts[d][held[d] + 1]>>)
    /\ UNCHANGED <<clock, server, made, online, up, cache, screen, faults,
                   said, atRisk>>

-----------------------------------------------------------------------------
\* The server, external.
Heard(d) == opened[d] /\ online[d] /\ Listen \notin Range(up[d])

ServeListen(d) ==
    /\ up[d] # <<>> /\ Head(up[d]) = Listen
    /\ up' = [up EXCEPT ![d] = Tail(@)]
    /\ down' = [down EXCEPT ![d] = Append(@, [kind |-> "init", feed |-> feed])]
    /\ UNCHANGED <<clock, server, made, online, client, screen, faults, history>>

\* A put: to everybody who listens, then the answer to the writer.
ServePut(d) ==
    /\ up[d] # <<>> /\ Head(up[d]) # Listen
    /\ LET r    == Head(up[d])
           news == IF r = Found THEN [kind |-> "feed", feed |-> {}]
                   ELSE [kind |-> "add", post |-> r.post] IN
        /\ founded' = (founded \/ r = Found)
        /\ feed' = Apply(feed, r)
        /\ down' = [x \in Device |-> down[x] \o (IF Heard(x) THEN <<news>> ELSE <<>>)
                                      \o (IF x = d THEN <<[kind |-> "ack"]>> ELSE <<>>)]
        /\ atRisk' = IF r.kind = "post" /\ Found \in Range(Pending(Founder))
                     THEN atRisk \cup {r.post} ELSE atRisk
    /\ up' = [up EXCEPT ![d] = Tail(@)]
    /\ UNCHANGED <<clock, made, online, client, screen, faults, said, answered>>

Tick ==
    /\ now < MaxTime
    /\ now' = now + 1
    /\ UNCHANGED <<skew, lastPush, era, server, made, wire, client, screen,
                   faults, history>>

-----------------------------------------------------------------------------
Background(d) ==
    Connect(d) \/ RecvInit(d) \/ RecvData(d) \/ RecvAck(d) \/ ServeListen(d) \/ ServePut(d)

Step(d) ==
    \/ Enter(d) \/ FetchMessages(d)
    \/ \E key \in PushIds(d) : AddMessage(d, key)
    \/ Disconnect(d) \/ Kill(d)
    \/ Background(d)

Next ==
    \/ \E key \in PushIds(Founder) : SubmitNewTeam(key)
    \/ Tick
    \/ \E d \in Device : Step(d)

Spec == Init /\ [][Next]_vars

-----------------------------------------------------------------------------
\* A message whose author has the server's answer stays, whatever is sent
\* again: no key comes twice, and the repeated creation of the team takes
\* only messages of others from the time before the founder had its answer,
\* never the founder's own, which are sent again after it.
PostsKept ==
    \A m \in answered : m \in feed \/ (m.author # Founder /\ m \in atRisk)

\* On every screen the messages one device posted under one connection stand
\* the newest first, also those posted in the same millisecond, and across
\* what is still pending and what has been answered.
NewestFirst ==
    \A d \in Device : \A i, j \in DOMAIN Messages(d) :
        LET a == Messages(d)[i]
            b == Messages(d)[j]
        IN  (i < j /\ a.author = b.author /\ a.era = b.era) => a.nth > b.nth

\* Once nothing is under way on a device's connection it has nothing pending
\* any more, neither put nor held answer, and an open tab shows what the
\* server has.
SettledFeeds ==
    \A d \in Device :
        (online[d] /\ up[d] = <<>> /\ down[d] = <<>>) =>
            /\ puts[d] = <<>> /\ held[d] = 0
            /\ opened[d] => Range(Messages(d)) = feed
=============================================================================
