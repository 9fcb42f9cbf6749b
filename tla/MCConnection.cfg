SPECIFICATION FairSpec
CONSTANTS
    q1 = q1
    Query = {q1}
    NoToken = NoToken
    Refused = Refused
    MaxPuts = 2
    MaxListens = 2
    MaxRevoked = 1
    MaxEvents = 2
INVARIANTS
    TypeOK
    OneAttempt
    UnackedInFlight
    HeldIsReleased
PROPERTIES
    RefinesWire
    CallsInOrder
    KeptWhileSignedIn
    PutsCalled
CHECK_DEADLOCK FALSE
