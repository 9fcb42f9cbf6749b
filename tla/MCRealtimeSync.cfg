SPECIFICATION SyncSpec
CONSTANTS
    Device = {d1, d2}
    Key = {k1}
    Val = {v1, v2}
    Absent = Absent
    Unknown = Unknown
    Busy = {d1, d2}
    MaxSets = 3
    MaxFaults = 2
INVARIANTS
    SyncTypeOK
    SettledShowsServer
    NewestIsView
PROPERTIES
    AckDoesNotFlicker
SYMMETRY Symmetry
CHECK_DEADLOCK FALSE
