\* Not one of the runs: a replay killed between file and row, and then a
\* declaration under which the batch is quarantined.  TLC finds EveryColumnLive,
\* which is ReadsAsWritten without its exception, violated in four deployments.
SPECIFICATION Spec
CONSTANTS
    Declarations <- AddedThenTightened
    Widens <- Promotions
    MaxRows = 1
    MaxStarts = 4
INVARIANT EveryColumnLive
CHECK_DEADLOCK FALSE
