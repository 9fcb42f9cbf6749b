SPECIFICATION Spec
CONSTANTS
    d1 = d1
    d2 = d2
    ann = ann
    bob = bob
    Device = {d1}
    Account = {ann}
    AccountOf <- OneAccount
    Team = {t1}
    DefaultTeam = DefaultTeam
    NoTeam = NoTeam
    NoRecord = NoRecord
    Idle = Idle
    HomeWhileDismissing = FALSE
    MaxSets = 2
    MaxHomes = 2
    MaxFaults = 1
INVARIANTS
    NoRecordWithoutTeam
CHECK_DEADLOCK FALSE
