SPECIFICATION FairSpec
CONSTANTS
    Requests = {"save", "export", "ready"}
    PlanOf <- MCPlans
    ReadConnections = 1
    WriteTimeout = 2
    ShutdownTimeout = 1
    MaxStarts = 2
INVARIANTS TypeOK HandlesOutliveRequests
PROPERTIES EveryRequestEnds
CHECK_DEADLOCK FALSE
