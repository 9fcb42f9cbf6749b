SPECIFICATION Spec
CONSTANTS
    d1 = d1
    d2 = d2
    ann = ann
    bob = bob
    Device = {d1, d2}
    Account = {ann}
    AccountOf <- OneAccount
    Team = {t1}
    DefaultTeam = DefaultTeam
    NoTeam = NoTeam
    NoRecord = NoRecord
    Idle = Idle
    HomeWhileDismissing = FALSE
    MaxSets = 3
    MaxHomes = 1
    MaxFaults = 0
PROPERTIES
    AddsOnlyMissingUsers
CHECK_DEADLOCK FALSE
