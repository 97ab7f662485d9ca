SPECIFICATION Spec
CONSTANTS
    Clients = {c1, c2}
    Requests = {r1, r2}
    Codes <- MCCodes
    MaxHouseholds = 2
    MaxSessions = 2
    FirstCodes <- MCTwoHouses
    Operations = {"LogIn", "AdminLogIn", "Me", "ReissueCode", "DeleteHousehold"}
    HouseholdLifetime = 3
    AdminLifetime = 2
    RefreshInterval = 1
    MaxClock = 0
    MayDie = FALSE
SYMMETRY MCSymmetry
INVARIANTS ReissueRevokes OrphansAreNobody
PROPERTIES EndsForAReason
CHECK_DEADLOCK FALSE
