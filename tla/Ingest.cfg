\* Two tables in one stream, chunks of up to three records, a ceiling of two
\* records and three bytes, and one write that fails.
SPECIFICATION Spec
CONSTANTS
    ta = ta
    tb = tb
    Tables <- TwoTables
    Streams <- MixedStreams
    ReadAhead = 3
    ChunkMaxRecords = 3
    ChunkMaxBytes = 5
    StagingMaxRecords = 2
    StagingMaxBytes = 3
    MaxFaults = 1
INVARIANTS ResultIsTrue OnceInOrder ChargeExact
PROPERTIES StreamEnds
CHECK_DEADLOCK FALSE
