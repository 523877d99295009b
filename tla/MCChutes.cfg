SPECIFICATION Spec
CONSTANTS
    Credentials = {a}
    Chutes = {x}
    Workers = {w1, w2}
    Gates = {g1, g2, g3}
    DiscoveryLimit = 1
    EvidenceLimit = 1
    Window = 2
    Slack = 1
    Jitter = 0
    BackoffStart = 1
    BackoffMax = 2
    RefusalBackoff = 4
    MaxCredentials = 1
    MaxTime = 5
    MaxCalls = 2
    None = None
SYMMETRY Symmetry
INVARIANTS EvidenceRate SingleFlight
PROPERTY QuietAfterRefusal
