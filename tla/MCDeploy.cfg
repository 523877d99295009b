SPECIFICATION FairSpec
CONSTANTS
    Procs = {p1, p2}
    Guided = {p1}
    Names = {A, B}
    First = A
    MaxCvms = 4
    MaxRows = 4
    MaxCommands = 2
    MaxFaults = 1
    MaxKeys = 2
    MaxDrops = 1
    None = None
INVARIANTS RecordsTrue RowsTrue RowsApart SecretKept
PROPERTY Recovers
CHECK_DEADLOCK FALSE
