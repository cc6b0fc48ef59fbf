\* A rebuild that dies between the removal of the old log and the rename.
SPECIFICATION Spec
CONSTANTS
    ta = ta
    tb = tb
    Tables = {ta, tb}
    Shapes = {1, 2}
    Rollbacks = FALSE
    KillAt = {"rename"}
    MaxBatches = 1
    MaxFiles = 4
INVARIANT CatalogKeepsCommitted
CHECK_DEADLOCK FALSE
