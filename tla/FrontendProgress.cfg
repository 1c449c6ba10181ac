SPECIFICATION FairFrontendSpec
CONSTANTS
    Items = {i1}
    Devices = {d1}
    MaxSessions = 1
    Nobody = nobody
    MaxCalls = 2
    MaxRetries = 3
    Screens = {"audit", "device", "dashboard", "networkEdit", "deviceEdit", "export", "networkExport", "session", "client"}
CHECK_DEADLOCK FALSE
INVARIANT KeyShownIsInForce
INVARIANT AuditMatchesFilters
INVARIANT ClientPostsOnce
INVARIANT ClientGivesUp
PROPERTY ClientImplementsCall
PROPERTY WaitingEnds
PROPERTY LockedIsNoticed
PROPERTY ClientEnds
