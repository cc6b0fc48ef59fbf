\* The answer of one seal is lost, and the process stays up.
SPECIFICATION FairSpec
CONSTANTS
    MaxRow = 2
    Repeats = FALSE
    Payload <- MCPayload
    Bad = {}
    Modes = {"bucket"}
    MaxInsert = 1
    MaxRecords = 1
    Ceiling = 2
    FailAt = {"seal"}
    MaxFaults = 1
    MaxCrashes = 0
PROPERTY SettlesUnaided
