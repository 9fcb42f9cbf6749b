SPECIFICATION FairSpec
CONSTANTS
    Teams = teams
    events = events
    event = event
    other = other
    wrong = wrong
    k = k
    l = l
    r1 = r1
    r2 = r2
    NoPath = NoPath
    Path = {teams, events, event, other, wrong}
    Leaf = {event, other}
    Over <- Tree
    Parent <- Above
    Tab = events
    Team = {k, l}
    EventIn <- Lookup
    Read = {r1, r2}
    MaxWrites = 1
    MaxVisits = 2
    MaxMoves = 1
    MaxDrops = 1
INVARIANTS
    TypeOK
    ListensAreTops
    NothingMissed
    OneTruth
    SettledScreens
    NoStrayObservers
PROPERTIES
    ReadAnswered
CHECK_DEADLOCK FALSE
