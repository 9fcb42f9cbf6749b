SPECIFICATION Spec
CONSTANTS
    d1 = d1
    d2 = d2
    ann = ann
    bob = bob
    Device = {d1, d2}
    Player = {ann, bob}
    OwnerOf <- OneOwner
    Val <- EventVal
    Key = {e1}
    MaxTime = 2
    Absent = Absent
    Unknown = Unknown
    Busy = {d1, d2}
    MaxSets = 3
    MaxFaults = 1
INVARIANTS
    AnswersKept
    SettledRows
PROPERTIES
    EventsStay
SYMMETRY Symmetry
CHECK_DEADLOCK FALSE
