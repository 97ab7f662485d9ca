SPECIFICATION FairSpec
CONSTANTS
    Keys <- MCKeys
    Requests = {"phone", "laptop"}
    ComesFrom <- MCComesFrom
    Limit = 2
    Window = 2
    EvictionInterval = 2
    TicksPerSecond = 2
    MaxLag = 1
    Memory = 4
    Watched = "10.0.0.1"
INVARIANTS TypeOK RefusalEndsAsTold OverrunIsBounded
PROPERTIES RefusalIsEarned SilentKeysGo LimitExpires
