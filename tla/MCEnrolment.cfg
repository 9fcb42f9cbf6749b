SPECIFICATION FairSpec
CONSTANTS
    d1 = d1
    d2 = d2
    ann = ann
    bob = bob
    Device = {d1}
    Account = {ann}
    AccountOf <- OneAccount
    Team = {t1, t2}
    DefaultTeam = DefaultTeam
    NoTeam = NoTeam
    NoRecord = NoRecord
    Idle = Idle
    HomeWhileDismissing = TRUE
    MaxSets = 3
    MaxHomes = 2
    MaxFaults = 1
INVARIANTS
    TypeOK
    TeamsExist
    ChoiceKept
    GlobalFollowsRecord
PROPERTIES
    SignInLeadsOn
CHECK_DEADLOCK FALSE
