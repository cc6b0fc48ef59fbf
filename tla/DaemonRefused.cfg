\* A refused record while another command starts.
CONSTANTS
    s1 = s1
    s2 = s2
    ta = ta
    Starters = {s1, s2}
    Foreground = {s1}
    Tables = {ta}
    Inodes <- FirstInodes
    MaxAttempts = 2
    MaxKills = 0
    WordBits = 9
    KiloBits = 2
    DefaultBaseDelay = 1
    DefaultMaxDelay = 60
    MaxAttempt = 12
    Deployments <- SmallDeployments
    Worlds <- SmallWorlds
SPECIFICATION CommandsSpec
INVARIANT OneWriter
CHECK_DEADLOCK FALSE
