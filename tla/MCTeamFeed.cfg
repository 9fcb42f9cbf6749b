SPECIFICATION Spec
CONSTANTS
    founder = founder
    player = player
    Unknown = Unknown
    Device = {founder, player}
    Founder = founder
    Draw = {1, 2}
    Skew = {0, 1}
    MaxPosts = 2
    MaxTime = 1
    MaxFaults = 1
INVARIANTS
    TypeOK
    PostsKept
    NewestFirst
    SettledFeeds
CHECK_DEADLOCK FALSE
