\* Two tables in two shapes; a rebuild can die anywhere but between the removal
\* of the old log and the rename (RebuildWal.cfg).
SPECIFICATION Spec
CONSTANTS
    ta = ta
    tb = tb
    Tables = {ta, tb}
    Shapes = {1, 2}
    Rollbacks = FALSE
    KillAt <- ButRename
    MaxBatches = 2
    MaxFiles = 4
SYMMETRY EitherTable
INVARIANT CatalogKeepsCommitted
CHECK_DEADLOCK FALSE
