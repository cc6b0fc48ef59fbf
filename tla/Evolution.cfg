\* Five declarations of one table, four deployments, two records.
SPECIFICATION Spec
CONSTANTS
    Declarations <- FiveShapes
    Widens <- Promotions
    MaxRows = 2
    MaxStarts = 4
INVARIANTS ReadsAsWritten BacklogReadable LiveMatchesDeclaration
CHECK_DEADLOCK FALSE
