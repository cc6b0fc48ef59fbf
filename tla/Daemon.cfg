\* Two commands at a time, one in the foreground; one process
\* killed.
SPECIFICATION CommandsSpec
CONSTANTS
    s1 = s1
    s2 = s2
    ta = ta
    Starters = {s1, s2}
    Foreground = {s1}
    Tables = {ta}
    Inodes <- FirstInodes
    MaxAttempts = 2
    MaxKills = 1
    WordBits = 9
    KiloBits = 2
    DefaultBaseDelay = 1
    DefaultMaxDelay = 60
    MaxAttempt = 12
    Deployments <- SmallDeployments
    Worlds <- SmallWorlds
INVARIANTS OneDaemon ReportsAreTrue RefusedForGood CommandsAgree NumbersHold
PROPERTIES ExitZeroMeansCommitted SignalledExits
CHECK_DEADLOCK FALSE
