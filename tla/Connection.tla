----------------------------- MODULE Connection -----------------------------
(***************************************************************************)
(* The connection below RealtimeSync: FPersistentConnection with its       *)
(* FConnection and FIRRetryHelper.  It schedules an attempt, fetches a     *)
(* token, opens a websocket, authenticates, restores listens and puts, and *)
(* starts over when any of it fails.  Everything runs on one serial queue, *)
(* so each method, callback or timer block is one step; what is concurrent *)
(* is the timer, the token fetches, the network, the server and the app.   *)
(*                                                                         *)
(* FConnection closes synchronously and forgets its websocket, so nothing  *)
(* of a closed connection is heard any more: closing empties the channels. *)
(* Delays are left out; with them go signalSuccess and the growth of the   *)
(* retry delay.  The server and Firebase Auth are external; the security   *)
(* rules are those of an app with a sign-in, everything for who is         *)
(* signed in and nothing for others.                                       *)
(***************************************************************************)
EXTENDS Naturals, Sequences, FiniteSets, SequencesExt

CONSTANTS
    Query,       \* the queries the app observes
    NoToken,     \* nobody is signed in, or the session is anonymous
    Refused,     \* the session of a token the server does not accept
    MaxPuts,     \* bound: writes
    MaxListens,  \* bound: calls of listen
    MaxRevoked,  \* bound: tokens the server stops accepting
    MaxEvents    \* bound: connections lost or shut down, fetches failed,
                 \* tokens expired, sign-ins, sign-outs, calls of goOffline,
                 \* and returns of the network or to the foreground

Token     == 0..MaxRevoked
Put       == 1..MaxPuts
Reason    == {"waiting for open", "repo", "server kill"}
LinkState == {"disconnected", "getting token", "connecting",
              "authenticating", "connected"}

ASSUME TokenAssumption ==
    NoToken \notin Token /\ Refused \notin Token /\ Refused # NoToken
ASSUME ConnectionBoundAssumption ==
    /\ MaxPuts \in Nat /\ MaxListens \in Nat /\ MaxRevoked \in Nat /\ MaxEvents \in Nat
    /\ IsFiniteSet(Query)

VARIABLES
    state,        \* connectionState
    reasons,      \* interruptReasons
    retry,        \* the scheduled retry, with the force flag it captured
    force,        \* forceAuthTokenRefresh
    fetches,      \* token fetches under way
    token,        \* authToken
    listens,      \* listens: for each query its FOutstandingQuery, or 0
    outstanding,  \* outstandingPuts, by index
    unacked,      \* unackedListensCount
    held,         \* putsToAck
    called,       \* puts whose completion block has run, in that order
    up, down,     \* requests and messages in flight
    session,      \* server: the token this connection authenticated with
    heard,        \* server: the queries this connection listens to
    cached,       \* Firebase Auth: the token it holds
    valid,        \* the oldest token the server accepts
    signedOut,    \* somebody has signed out before
    asks, events

machine   == <<state, reasons, retry, force, fetches>>
listening == <<listens, unacked>>
writing   == <<outstanding, held, called>>
net       == <<up, down, session, heard>>
auth      == <<cached, valid, signedOut>>
counts    == <<asks, events>>
vars      == <<machine, token, listening, writing, net, auth, counts>>

-----------------------------------------------------------------------------
Request ==
         [kind : {"auth"}, token : Token, restore : BOOLEAN]
    \cup [kind : {"unauth"}]
    \cup [kind : {"listen"}, query : Query, spec : 1..MaxListens]
    \cup [kind : {"unlisten"}, query : Query]
    \cup [kind : {"put"}, put : Put]

Message ==
         [kind : {"auth"}, ok : BOOLEAN, restore : BOOLEAN]
    \cup [kind : {"listen"}, query : Query, spec : 1..MaxListens, ok : BOOLEAN]
    \cup [kind : {"put"}, put : Put]
    \cup [kind : {"cancel"}, query : Query]
    \cup [kind : {"revoked"}]

TypeOK ==
    /\ state \in LinkState
    /\ reasons \subseteq Reason
    /\ retry \in {"none", "plain", "forced"}
    /\ force \in BOOLEAN
    /\ fetches \subseteq [latest : BOOLEAN, force : BOOLEAN]
    /\ token \in Token \cup {NoToken}
    /\ listens \in [Query -> 0..MaxListens]
    /\ outstanding \in Seq(Put) /\ held \in Seq(Put) /\ called \in Seq(Put)
    /\ unacked \in Nat
    /\ up \in Seq(Request) /\ down \in Seq(Message)
    /\ session \in Token \cup {NoToken, Refused}
    /\ heard \subseteq Query
    /\ cached \in Token \cup {NoToken} /\ valid \in Token
    /\ signedOut \in BOOLEAN
    /\ asks \in 0..MaxListens /\ events \in 0..MaxEvents

-----------------------------------------------------------------------------
Connected     == state \in {"authenticating", "connected"}
CanSendWrites == state = "connected"
Wanted        == {q \in Query : listens[q] # 0}
Called        == {called[i] : i \in DOMAIN called}
Made          == Called \cup {held[i] : i \in DOMAIN held}
                        \cup {outstanding[i] : i \in DOMAIN outstanding}

AuthRequest(t, restore) == [kind |-> "auth", token |-> t, restore |-> restore]
Unauth         == [kind |-> "unauth"]
ListenTo(q, n) == [kind |-> "listen", query |-> q, spec |-> n]
UnlistenTo(q)  == [kind |-> "unlisten", query |-> q]
PutOf(p)       == [kind |-> "put", put |-> p]

\* One more of the things that MaxEvents bounds.
Counted == events < MaxEvents /\ events' = events + 1

Orders(S) == {s \in [1..Cardinality(S) -> S] : {s[i] : i \in DOMAIN s} = S}

\* tryScheduleReconnect when nobody interrupts: the timer, which replaces one
\* that is running, takes the force flag with it.
Schedule(f) ==
    /\ retry' = IF f THEN "forced" ELSE "plain"
    /\ force' = FALSE

TrySchedule(why, f) ==
    IF why = {} THEN Schedule(f) ELSE retry' = retry /\ force' = f

\* Mutant: the count of listens without an answer survives the connection.
HangUpCounting(why, f) ==
    /\ state' = "disconnected"
    /\ reasons' = why
    /\ up' = <<>> /\ down' = <<>>
    /\ session' = NoToken /\ heard' = {}
    /\ unacked' = unacked
    /\ TrySchedule(why, f)

\* FConnection close and onDisconnect: back to the start, the callbacks of
\* all requests forgotten; the answers held back stay held.
HangUp(why, f) ==
    /\ state' = "disconnected"
    /\ reasons' = why
    /\ up' = <<>> /\ down' = <<>>
    /\ session' = NoToken /\ heard' = {}
    /\ unacked' = 0
    /\ TrySchedule(why, f)

Init ==
    /\ state = "disconnected" /\ reasons = {"waiting for open"}
    /\ retry = "none" /\ force = FALSE /\ fetches = {}
    /\ token = NoToken
    /\ listens = [q \in Query |-> 0] /\ unacked = 0
    /\ outstanding = <<>> /\ held = <<>> /\ called = <<>>
    /\ up = <<>> /\ down = <<>>
    /\ session = NoToken /\ heard = {}
    /\ cached \in {NoToken, 0} /\ valid = 0 /\ signedOut = FALSE
    /\ asks = 0 /\ events = 0

-----------------------------------------------------------------------------
\* interruptForReason from goOffline: closes a connection, or stops the timer
\* and leaves a fetch to find the state changed.
Interrupt ==
    /\ Counted
    /\ IF state \in {"connecting", "authenticating", "connected"}
       THEN HangUp(reasons \cup {"repo"}, force)
       ELSE /\ state' = "disconnected"
            /\ reasons' = reasons \cup {"repo"}
            /\ retry' = "none"
            /\ UNCHANGED <<force, unacked, net>>
    /\ UNCHANGED <<fetches, token, listens, writing, auth, asks>>

\* open, when the repo is started, and goOnline.
Resume(r) ==
    /\ r \in reasons
    /\ reasons' = reasons \ {r}
    /\ IF state = "disconnected" THEN TrySchedule(reasons', force)
       ELSE UNCHANGED <<retry, force>>
    /\ UNCHANGED <<state, fetches, token, listening, writing, net, auth, counts>>

\* The network becomes reachable or the app enters the foreground: the timer
\* is set again, and a flag its block had captured is lost with the block.
Nudge ==
    /\ state = "disconnected"
    /\ Counted
    /\ TrySchedule(reasons, force)
    /\ UNCHANGED <<state, reasons, fetches, token, listening, writing, net, auth, asks>>

\* The retry block: the fetch it starts is the latest attempt from now on.
Retry ==
    /\ retry # "none"
    /\ state' = "getting token"
    /\ retry' = "none"
    /\ fetches' = {[f EXCEPT !.latest = FALSE] : f \in fetches}
                    \cup {[latest |-> TRUE, force |-> retry = "forced"]}
    /\ UNCHANGED <<reasons, force, token, listening, writing, net, auth, counts>>

\* refreshAuthToken, called whenever Firebase Auth's token changes.
RefreshAuth(t) ==
    /\ token' = t
    /\ up' = IF ~Connected THEN up
             ELSE Append(up, IF t = NoToken THEN Unauth ELSE AuthRequest(t, FALSE))

\* Mutant: the number of the attempt is not looked at.
FetchedAny(f) ==
    /\ fetches' = fetches \ {f}
    /\ cached' = IF f.force /\ cached # NoToken THEN valid ELSE cached
    /\ state' = "connecting"
    /\ token' = cached'
    /\ UNCHANGED <<reasons, retry, force, listening, writing, net, valid,
                   signedOut, counts>>

\* The fetch is answered with the token Firebase Auth holds at that moment, a
\* new one if it was forced.  Only the latest attempt may open a connection,
\* and only if nobody interrupted it; a new token is announced in any case.
Fetched(f) ==
    /\ fetches' = fetches \ {f}
    /\ cached' = IF f.force /\ cached # NoToken THEN valid ELSE cached
    /\ IF f.latest /\ state = "getting token"
       THEN state' = "connecting" /\ token' = cached' /\ up' = up
       ELSE /\ state' = state
            /\ IF cached' = cached THEN UNCHANGED <<token, up>> ELSE RefreshAuth(cached')
    /\ UNCHANGED <<reasons, retry, force, listening, writing, down, session, heard,
                   valid, signedOut, counts>>

\* A failed fetch starts over, with the force flag as it is now: the forced
\* refresh it may have been is not repeated.
FetchFails(f) ==
    /\ f.latest
    /\ cached # NoToken
    /\ Counted
    /\ fetches' = fetches \ {f}
    /\ state' = "disconnected"
    /\ TrySchedule(reasons, force)
    /\ UNCHANGED <<reasons, token, listening, writing, net, auth, asks>>

-----------------------------------------------------------------------------
\* Mutant: the puts are restored in the order of the dictionary.
RestoreAnyOrder ==
    \E order \in Orders(Wanted), puts \in Orders({outstanding[i] : i \in DOMAIN outstanding}) :
        /\ up' = up \o [i \in DOMAIN order |-> ListenTo(order[i], listens[order[i]])]
                    \o [i \in DOMAIN puts |-> PutOf(puts[i])]
        /\ unacked' = unacked + Cardinality(Wanted)

\* Mutant: restored listens are not counted.
RestoreUncounted ==
    \E order \in Orders(Wanted) :
        /\ up' = up \o [i \in DOMAIN order |-> ListenTo(order[i], listens[order[i]])]
                    \o [i \in DOMAIN outstanding |-> PutOf(outstanding[i])]
        /\ unacked' = unacked

\* restoreState: the listens in the dictionary's order, the puts by index.
Restore ==
    \E order \in Orders(Wanted) :
        /\ up' = up \o [i \in DOMAIN order |-> ListenTo(order[i], listens[order[i]])]
                    \o [i \in DOMAIN outstanding |-> PutOf(outstanding[i])]
        /\ unacked' = unacked + Cardinality(Wanted)

\* The handshake, onReady and restoreAuth.
OnReady ==
    /\ state = "connecting"
    /\ IF token = NoToken
       THEN state' = "connected" /\ Restore
       ELSE /\ state' = "authenticating"
            /\ up' = Append(up, AuthRequest(token, TRUE))
            /\ unacked' = unacked
    /\ UNCHANGED <<reasons, retry, force, fetches, token, listens, writing,
                   down, session, heard, auth, counts>>

\* The websocket fails or times out, or the server asks for a reset.
Lose ==
    /\ state \in {"connecting", "authenticating", "connected"}
    /\ Counted
    /\ HangUp(reasons, force)
    /\ UNCHANGED <<fetches, token, listens, writing, auth, asks>>

\* The server shuts the client down: onKill, never to be resumed.
OnKill ==
    /\ state \in {"connecting", "authenticating", "connected"}
    /\ Counted
    /\ HangUp(reasons \cup {"server kill"}, force)
    /\ UNCHANGED <<fetches, token, listens, writing, auth, asks>>

-----------------------------------------------------------------------------
\* The app observes a query, while somebody is signed in.
Listen(q) ==
    /\ cached # NoToken
    /\ listens[q] = 0
    /\ asks < MaxListens
    /\ asks' = asks + 1
    /\ listens' = [listens EXCEPT ![q] = asks']
    /\ IF Connected
       THEN up' = Append(up, ListenTo(q, asks')) /\ unacked' = unacked + 1
       ELSE UNCHANGED <<up, unacked>>
    /\ UNCHANGED <<machine, token, writing, down, session, heard, auth, events>>

Unlisten(q) ==
    /\ listens[q] # 0
    /\ listens' = [listens EXCEPT ![q] = 0]
    /\ up' = IF Connected THEN Append(up, UnlistenTo(q)) ELSE up
    /\ UNCHANGED <<machine, token, unacked, writing, down, session, heard, auth, counts>>

\* Mutant: a write is sent as soon as there is a connection.
PutDataEarly ==
    /\ cached # NoToken
    /\ Cardinality(Made) < MaxPuts
    /\ LET p == Cardinality(Made) + 1
       IN  /\ outstanding' = Append(outstanding, p)
           /\ up' = IF Connected THEN Append(up, PutOf(p)) ELSE up
    /\ UNCHANGED <<machine, token, listening, held, called, down, session, heard,
                   auth, counts>>

PutData ==
    /\ cached # NoToken
    /\ Cardinality(Made) < MaxPuts
    /\ LET p == Cardinality(Made) + 1
       IN  /\ outstanding' = Append(outstanding, p)
           /\ up' = IF CanSendWrites THEN Append(up, PutOf(p)) ELSE up
    /\ UNCHANGED <<machine, token, listening, held, called, down, session, heard,
                   auth, counts>>

\* Firebase Auth signs somebody in, out, or gets a fresh token.
SignIn ==
    /\ Counted
    /\ cached' = valid
    /\ RefreshAuth(valid)
    /\ UNCHANGED <<machine, listening, writing, down, session, heard, valid,
                   signedOut, asks>>

SignOut ==
    /\ cached # NoToken
    /\ Counted
    /\ cached' = NoToken
    /\ signedOut' = TRUE
    /\ RefreshAuth(NoToken)
    /\ UNCHANGED <<machine, listening, writing, down, session, heard, valid,
                   asks>>

-----------------------------------------------------------------------------
Receives(kind) == down # <<>> /\ Head(down).kind = kind
Arrived        == down' = Tail(down)

\* Mutant: a refused token does not close the connection.
RecvAuthOpen ==
    /\ Receives("auth")
    /\ Arrived
    /\ state' = "connected"
    /\ IF Head(down).ok
       THEN /\ IF Head(down).restore THEN Restore ELSE UNCHANGED <<up, unacked>>
            /\ UNCHANGED <<force, token>>
       ELSE /\ token' = NoToken
            /\ force' = TRUE
            /\ UNCHANGED <<up, unacked>>
    /\ UNCHANGED <<reasons, retry, fetches, listens, writing, session, heard, auth, counts>>

\* Mutant: the refused token is fetched from the cache again.
RecvAuthUnforced ==
    /\ Receives("auth")
    /\ IF Head(down).ok
       THEN /\ Arrived
            /\ state' = "connected"
            /\ IF Head(down).restore THEN Restore ELSE UNCHANGED <<up, unacked>>
            /\ UNCHANGED <<reasons, retry, force, token, session, heard>>
       ELSE /\ token' = NoToken
            /\ HangUp(reasons, FALSE)
    /\ UNCHANGED <<fetches, listens, writing, auth, counts>>

\* The answer to auth: restore what is to be restored, or close and fetch a
\* new token for the next attempt.
RecvAuth ==
    /\ Receives("auth")
    /\ IF Head(down).ok
       THEN /\ Arrived
            /\ state' = "connected"
            /\ IF Head(down).restore THEN Restore ELSE UNCHANGED <<up, unacked>>
            /\ UNCHANGED <<reasons, retry, force, token, session, heard>>
       ELSE /\ token' = NoToken
            /\ HangUp(reasons, TRUE)
    /\ UNCHANGED <<fetches, listens, writing, auth, counts>>

\* onAuthRevokedWithStatus: as for a refused token.
RecvRevoked ==
    /\ Receives("revoked")
    /\ token' = NoToken
    /\ HangUp(reasons, TRUE)
    /\ UNCHANGED <<fetches, listens, writing, auth, counts>>

\* onListenRevoked: whatever listens at the path is dropped.
RecvCancel ==
    /\ Receives("cancel")
    /\ Arrived
    /\ listens' = [listens EXCEPT ![Head(down).query] = 0]
    /\ UNCHANGED <<machine, token, unacked, writing, up, session, heard, auth, counts>>

\* Mutant: the count is looked at before this answer is taken off it.
RecvListenLate ==
    /\ Receives("listen")
    /\ Arrived
    /\ LET m == Head(down)
       IN  listens' = IF listens[m.query] = m.spec /\ ~m.ok
                      THEN [listens EXCEPT ![m.query] = 0] ELSE listens
    /\ unacked' = unacked - 1
    /\ IF unacked = 0 THEN called' = called \o held /\ held' = <<>>
       ELSE UNCHANGED <<called, held>>
    /\ UNCHANGED <<machine, token, outstanding, up, session, heard, auth, counts>>

\* The answer to a listen.  A refusal counts only for the FOutstandingQuery
\* it was asked with; the last answer releases the puts held back (ackPuts).
RecvListen ==
    /\ Receives("listen")
    /\ Arrived
    /\ LET m == Head(down)
       IN  listens' = IF listens[m.query] = m.spec /\ ~m.ok
                      THEN [listens EXCEPT ![m.query] = 0] ELSE listens
    /\ unacked' = unacked - 1
    /\ IF unacked' = 0 THEN called' = called \o held /\ held' = <<>>
       ELSE UNCHANGED <<called, held>>
    /\ UNCHANGED <<machine, token, outstanding, up, session, heard, auth, counts>>

\* The answer to a put, which is still outstanding: its block runs, unless a
\* listen is unanswered.
RecvPut ==
    /\ Receives("put")
    /\ Arrived
    /\ LET p == Head(down).put
       IN  /\ \E i \in DOMAIN outstanding :
                outstanding[i] = p /\ outstanding' = RemoveAt(outstanding, i)
           /\ IF unacked = 0
              THEN called' = Append(called, p) /\ held' = held
              ELSE held' = Append(held, p) /\ called' = called
    /\ UNCHANGED <<machine, token, listening, up, session, heard, auth, counts>>

Receive ==
    RecvAuth \/ RecvRevoked \/ RecvCancel \/ RecvListen \/ RecvPut

-----------------------------------------------------------------------------
\* The server, external.  It answers a connection's requests in order.
Authorised     == session \in Token
Serves(kind)   == up # <<>> /\ Head(up).kind = kind /\ up' = Tail(up)
Answer(m)      == down' = Append(down, m)
ServerOnly     == UNCHANGED <<machine, token, listening, writing, auth, counts>>

ServeAuth ==
    /\ Serves("auth")
    /\ LET r == Head(up) IN
        /\ session' = IF r.token >= valid THEN r.token ELSE Refused
        /\ Answer([kind |-> "auth", ok |-> r.token >= valid, restore |-> r.restore])
    /\ UNCHANGED heard /\ ServerOnly

ServeUnauth ==
    /\ Serves("unauth")
    /\ session' = NoToken
    /\ UNCHANGED <<down, heard>> /\ ServerOnly

ServeListen ==
    /\ Serves("listen")
    /\ LET r == Head(up) IN
        /\ heard' = IF Authorised THEN heard \cup {r.query} ELSE heard
        /\ Answer([kind |-> "listen", query |-> r.query, spec |-> r.spec, ok |-> Authorised])
    /\ UNCHANGED session /\ ServerOnly

ServeUnlisten ==
    /\ Serves("unlisten")
    /\ heard' = heard \ {Head(up).query}
    /\ UNCHANGED <<down, session>> /\ ServerOnly

ServePut ==
    /\ Serves("put")
    /\ Answer(Head(up))
    /\ UNCHANGED <<session, heard>> /\ ServerOnly

Serve == ServeAuth \/ ServeUnauth \/ ServeListen \/ ServeUnlisten \/ ServePut

\* A token expires; the server tells the sessions that use it, some time
\* later, and then takes their listens away, as it does after unauth.
Revoke ==
    /\ valid < MaxRevoked
    /\ valid' = valid + 1
    /\ Counted
    /\ UNCHANGED <<machine, token, listening, writing, net, cached, signedOut, asks>>

ServerRevokes ==
    /\ Authorised
    /\ session < valid
    /\ session' = Refused
    /\ Answer([kind |-> "revoked"])
    /\ UNCHANGED <<up, heard>> /\ ServerOnly

ServerCancels(q) ==
    /\ ~Authorised
    /\ q \in heard
    /\ heard' = heard \ {q}
    /\ Answer([kind |-> "cancel", query |-> q])
    /\ UNCHANGED <<up, session>> /\ ServerOnly

-----------------------------------------------------------------------------
App ==
    \/ \E q \in Query : Listen(q) \/ Unlisten(q)
    \/ PutData \/ SignIn \/ SignOut
    \/ Interrupt \/ Nudge
    \/ \E r \in {"waiting for open", "repo"} : Resume(r)

FetchDone == \E f \in fetches : Fetched(f)

Fault ==
    \/ Lose \/ OnKill \/ Revoke
    \/ \E f \in fetches : FetchFails(f)

Next ==
    \/ App \/ Fault
    \/ Retry \/ FetchDone \/ OnReady
    \/ Receive \/ Serve
    \/ ServerRevokes \/ \E q \in Query : ServerCancels(q)

Spec == Init /\ [][Next]_vars

\* The timer fires, Firebase Auth answers, the network carries what it is
\* given and the server serves; nobody has to use the app.
FairSpec ==
    /\ Spec
    /\ WF_vars(Retry)
    /\ WF_vars(FetchDone)
    /\ WF_vars(OnReady)
    /\ WF_vars(Serve)
    /\ WF_vars(Receive)

-----------------------------------------------------------------------------
\* The NSAsserts of tryScheduleReconnect, its retry block and its fetch
\* callback, and what they are for: whenever nobody interrupts, the machine is
\* on its way - a timer, a fetch or a websocket will move it on - and never on
\* two ways at once.
OneAttempt ==
    LET pending == \E f \in fetches : f.latest
    IN  /\ retry # "none" => state = "disconnected" /\ reasons = {}
        /\ state = "disconnected" /\ reasons = {} => retry # "none"
        /\ pending => state \in {"disconnected", "getting token"}
        /\ state = "getting token" => pending

\* unackedListensCount is the number of listens whose answer is under way,
\* through drops, restored listens, and listens sent twice because they were
\* made while authenticating (its NSAssert says only that it is not negative).
ListensIn(s) == {i \in DOMAIN s : s[i].kind = "listen"}
UnackedInFlight ==
    unacked = Cardinality(ListensIn(up)) + Cardinality(ListensIn(down))

\* Answers that wait for listens always have a listen to release them, also
\* when they were held back on a connection that was lost - as long as there
\* is a listen at all.
HeldIsReleased == CanSendWrites /\ held # <<>> /\ Wanted # {} => unacked > 0

\* Completion blocks run in the order of the writes, although answers are held
\* back and connections lost in between - again, as long as there is a listen.
CallsInOrder ==
    [][\A p \in Called' \ Called : 1..(p - 1) \subseteq Called' \/ Wanted = {}]_vars

\* The screens never lose an observer to a token that expires or is revoked:
\* the connection is closed before a refusal that follows can be heard.  Only
\* signing out takes listens away.
KeptWhileSignedIn ==
    [][\A q \in Query : listens[q] # 0 /\ listens'[q] = 0 /\ ~signedOut => Unlisten(q)]_vars

\* Once the app stays online and observes something, every write is answered
\* and its block runs, whatever was lost, expired or refused before.
PutsCalled ==
    \A p \in Put :
        <>[](p \in Made /\ reasons = {} /\ Wanted # {}) => <>(p \in Called)

\* How the connection implements Wire.  A put travels as a request or as its
\* answer, and PutsIn has those of a channel in their order; a query has been
\* asked for if the server listens, will listen, or has refused and the refusal
\* is on its way.
PutPlaces(s) == {i \in DOMAIN s : s[i].kind = "put"}
Place(s, i)  == Cardinality({j \in PutPlaces(s) : j <= i})
PutsIn(s)    == [n \in 1..Cardinality(PutPlaces(s)) |->
                    s[CHOOSE i \in PutPlaces(s) : Place(s, i) = n].put]
Asked(q) ==
    \/ \E i \in DOMAIN up : up[i] = ListenTo(q, listens[q])
    \/ q \in heard /\ \A i \in DOMAIN up : up[i] # UnlistenTo(q)
    \/ \E i \in DOMAIN down :
        \/ down[i] = [kind |-> "listen", query |-> q, spec |-> listens[q], ok |-> FALSE]
        \/ down[i] = [kind |-> "cancel", query |-> q]

W == INSTANCE Wire WITH
        online <- CanSendWrites,
        wanted <- Wanted,
        asked  <- IF CanSendWrites THEN {q \in Wanted : Asked(q)} ELSE {},
        queue  <- outstanding,
        sent   <- IF CanSendWrites THEN PutsIn(down) \o PutsIn(up) ELSE <<>>

\* While writes can be sent, what is on the wire is what RealtimeSync assumes.
RefinesWire == W!Spec
=============================================================================
