SPECIFICATION Spec
CONSTANTS
    Deployments <- Deployed
    OperatorTables <- OwnWithWindow
    DedupWindow = 1
    MaxBatches = 2
    Poisoned = {}
    MaxFailures = 1
    MaxOutages = 1
    MaxDrops = 1
    MaxStarts = 2
INVARIANTS OnceOrTold TwoDoorsAgree
PROPERTIES LakeNeverWaits
CHECK_DEADLOCK FALSE
