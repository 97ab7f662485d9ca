SPECIFICATION FairSpec
CONSTANTS
    Households <- MCOneHouse
    Starts <- MCStarts
    Scopes = {"both"}
    MaxGuests = 2
    MaxSessions = 1
    Directions = {}
    MaxCalls = 2
    MaxDisturbances = 1
INVARIANTS TypeOK NobodyIsDeclined
PROPERTIES TypedSurvives TryingHelps
CHECK_DEADLOCK FALSE
