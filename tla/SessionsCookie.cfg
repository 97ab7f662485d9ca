SPECIFICATION Spec
CONSTANTS
    Clients = {c1, c2}
    Requests = {r1, r2}
    Codes <- MCCodes
    MaxHouseholds = 1
    MaxSessions = 2
    FirstCodes <- MCOneHouse
    Operations <- Visits
    HouseholdLifetime = 3
    AdminLifetime = 2
    RefreshInterval = 1
    MaxClock = 4
    MayDie = FALSE
SYMMETRY MCSymmetry
INVARIANTS CookieExpiresWithSession
CHECK_DEADLOCK FALSE
