SPECIFICATION FairSpec
CONSTANTS
    Scopes = {s1}
    Instances = {i1, i2}
    Nonces = {n1, n2}
    Requests = {q1}
    AdmissionTTL = 1
    RefreshAhead = 0
    RenewJitter = 0
    MinInterval = 3
    RejectionTTL = 1
    NonceMargin = 0
    Lifetimes = {1}
    EvidenceLives = {1}
    LedgerCapacity = 2
    MaxAdmissions = 1
    MaxDiscoveries = 2
    MaxInvoke = 2
    MaxTime = 1
    MaxGeneration = 1
    None = None
PROPERTY IssueEnds
