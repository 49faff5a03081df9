SPECIFICATION Spec
CONSTANTS
    SECOND = 3
    MIN_DURATION = 1
    MAX_DURATION = 2
    DEDUP_TTL_MARGIN_SECONDS = 1
    NoTime = NoTime
    InputRow <- MCInputRow
    MaxNow = 14
INVARIANTS
    BadgeAgreesWithGate
    DedupKeyCoversMargin
PROPERTIES
    BadgeOnlyAdvances
CHECK_DEADLOCK TRUE
