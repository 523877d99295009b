SPECIFICATION Spec
CONSTANTS
    Scopes = {s1}
    Instances = {i1}
    Nonces = {n1, n2}
    Requests = {q1}
    AdmissionTTL = 2
    RefreshAhead = 1
    RenewJitter = 1
    MinInterval = 1
    RejectionTTL = 1
    NonceMargin = 1
    Lifetimes = {3}
    EvidenceLives = {1, 3}
    LedgerCapacity = 1
    MaxAdmissions = 1
    MaxDiscoveries = 1
    MaxInvoke = 2
    MaxTime = 3
    MaxGeneration = 3
    None = None
SYMMETRY Symmetry
INVARIANTS LaterRejectionWins NoncesOnce
PROPERTY TicketsSound

