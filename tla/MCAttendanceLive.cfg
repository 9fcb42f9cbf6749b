SPECIFICATION FairSpec
CONSTANTS
    d1 = d1
    d2 = d2
    ann = ann
    bob = bob
    Device = {d1, d2}
    Player = {ann, bob}
    OwnerOf <- Owners
    Val <- EventVal
    Key = {e1}
    MaxTime = 1
    Absent = Absent
    Unknown = Unknown
    Busy = {d1}
    MaxSets = 2
    MaxFaults = 1
PROPERTIES
    PutsDrain
    Converges
    AnswersSpread
CHECK_DEADLOCK FALSE
