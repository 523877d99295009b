SPECIFICATION Spec
CONSTANTS
    Procs = {p1, p2}
    Networks = {n1, n2}
    Workers = {w1}
    Rotates = TRUE
    MaxTokens = 3
    None = None
SYMMETRY Symmetry
INVARIANTS StoredTokenLive OverrideIsolated
PROPERTY SavesOnlyItsOwn
