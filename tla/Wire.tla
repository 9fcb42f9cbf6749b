-------------------------------- MODULE Wire --------------------------------
(***************************************************************************)
(* What RealtimeSync takes for granted of a connection, as a specification *)
(* of its own: while it is up, exactly the wanted queries have been asked  *)
(* of the server and exactly the unanswered puts are on their way, each    *)
(* once and in order, and they are answered oldest first.  A connection    *)
(* that closes loses all of it, and the next one asks and sends anew.      *)
(***************************************************************************)
EXTENDS Sequences

CONSTANTS Query, Put

VARIABLES
    online,   \* writes and listens are passed on at once
    wanted,   \* the queries somebody observes
    asked,    \* the queries this connection has asked for
    queue,    \* puts without an answer, oldest first
    sent      \* those of them this connection carries, or their answers

wireVars == <<online, wanted, asked, queue, sent>>

Init ==
    /\ online = FALSE
    /\ wanted = {} /\ asked = {}
    /\ queue = <<>> /\ sent = <<>>

Open ==
    /\ ~online
    /\ online' = TRUE
    /\ asked' = wanted
    /\ sent' = queue
    /\ UNCHANGED <<wanted, queue>>

Close ==
    /\ online
    /\ online' = FALSE
    /\ asked' = {}
    /\ sent' = <<>>
    /\ UNCHANGED <<wanted, queue>>

\* A query is observed, no longer observed, or refused by the server.
Ask(q) ==
    /\ wanted' = wanted \cup {q}
    /\ asked' = IF online THEN asked \cup {q} ELSE asked
    /\ UNCHANGED <<online, queue, sent>>

Forget(q) ==
    /\ wanted' = wanted \ {q}
    /\ asked' = asked \ {q}
    /\ UNCHANGED <<online, queue, sent>>

Write(p) ==
    /\ queue' = Append(queue, p)
    /\ sent' = IF online THEN Append(sent, p) ELSE sent
    /\ UNCHANGED <<online, wanted, asked>>

Answer ==
    /\ sent # <<>>
    /\ sent' = Tail(sent)
    /\ queue' = Tail(queue)
    /\ UNCHANGED <<online, wanted, asked>>

Next ==
    \/ Open \/ Close \/ Answer
    \/ \E q \in Query : Ask(q) \/ Forget(q)
    \/ \E p \in Put : Write(p)

Spec == Init /\ [][Next]_wireVars
=============================================================================
