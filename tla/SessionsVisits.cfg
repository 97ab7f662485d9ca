SPECIFICATION Spec
CONSTANTS
    Clients = {c1}
    Requests = {r1, r2}
    Codes = {"K1", "K2"}
    MaxHouseholds = 2
    MaxSessions = 1
    FirstCodes <- MCOneHouse
    Operations = {"LogIn", "LogOut", "Me", "AdminLogIn", "CreateHousehold"}
    HouseholdLifetime = 4
    AdminLifetime = 3
    RefreshInterval = 2
    MaxClock = 6
    MayDie = TRUE
SYMMETRY MCSymmetry
INVARIANTS TypeOK AdminSessionsEnd RollingReach
PROPERTIES RevokedStaysRevoked
CHECK_DEADLOCK FALSE
