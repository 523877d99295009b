SPECIFICATION FairSpec
CONSTANTS
    Models = {m1}
    Selectors = {a, b}
    MaxRevision = 3
    Requests = {q1}
    RefreshInterval = 4
    MinInterval = 1
    Timeout = 1
    InitialDelay = 1
    MaxDelay = 2
    FreshnessTTL = 3
    MaxGeneration = 3
    MaxTime = 3
    None = None
INVARIANTS NoLostNudge
PROPERTIES RowsOnlyAdvance BoundForward FetchSpacing WaitEnds
