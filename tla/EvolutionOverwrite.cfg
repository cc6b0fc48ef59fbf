\* Two declarations, the second adding a column.
SPECIFICATION Spec
CONSTANTS
    Declarations <- TwoShapes
    Widens <- Promotions
    MaxRows = 1
    MaxStarts = 3
PROPERTIES CommittedBytesStand
CHECK_DEADLOCK FALSE
