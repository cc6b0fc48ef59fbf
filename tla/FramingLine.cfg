SPECIFICATION Spec
CONSTANTS
    Inputs <- MCInputs
    Heads <- MCHeads
    ItemLen <- MCItemLen
    Limit = 3
    Slack = 2
    WordBits = 5
    IntBits = 3
    MantissaBits = 3
    FloatBits = 2
    MaxFrac = 2
    MaxDouble = 72
    MaxFloat = 48
    ClockScale = 3
    MaxValueLen = 3
    Contents <- MCContents
    Shapes <- MCShapes
    Openings <- MCOpenings
    Sent <- MCSent
    Sources <- MCSources
    NameChars <- MCNameChars
    LegalChars <- MCLegalChars
    MaxNameLength = 4
    MaxPrecision = 3
    MaxFieldId = 9
INVARIANTS
    LinesAreOfText
\* A stream ends.
CHECK_DEADLOCK FALSE
