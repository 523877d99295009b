SPECIFICATION MCSpec
CONSTANTS
    Bytes = {"lf", "cr", "named", "foreign", "stop", "delta"}
    MaxChunk = 2
    MaxPreamble = 5
    MaxFrame = 4
    MaxBody = 8
    MaxInput = 9
    BootLog <- MCBoot
    Mrtd <- MCMrtd
    Platform <- MCPlatform
    Entries <- MCEntries
    FirstKey <- MCFirst
    Sealed <- MCSealed
    Envs <- MCEnvs
    Calls <- MCRequests
    Payloads <- MCPayloads
    Replies <- MCReplies
    Machines = {"a", "b", "o"}
    Keys = {"k1", "k2", "k3", "k4"}
    Nonces = {n1, n2}
    Lives = {1, 2}
    MaxClock = 2
    MaxQuotes = 2
    MaxInstances = 2
    MaxLine = 1
    MaxRelayed = 6
    None = None
CHECK_DEADLOCK FALSE
INVARIANTS ReleasedLegal EndJust AcceptedGenuine ReleasedTrue AnsweredAsBound
