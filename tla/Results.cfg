SPECIFICATION Spec
CHECK_DEADLOCK FALSE
CONSTANTS
    SECOND = 1
    MIN_DURATION = 1
    MAX_DURATION = 1
    DEDUP_TTL_MARGIN_SECONDS = 1
    NoTime = NoTime
    q1 = q1
    v1 = v1
    v2 = v2
    r1 = r1
    r2 = r2
    b1 = b1
    b2 = b2
    yes = yes
    yes_no = yes_no
    Question <- MCQuestion
    Viewer <- MCViewer
    OptionKey <- MCOptionKey
    OptionList <- MCOptionList
    KeysOf <- MCKeysOf
    NoOptions = NoOptions
    COUNTER_SHARDS = 2
    Crc32 <- LastShard
    NoRow = NoRow
    NoCard = NoCard
    Garbled = Garbled
    NotAHash = NotAHash
    ASYNC = TRUE
    JOURNAL_QUEUE_SIZE = 1
    JOURNAL_BATCH_SIZE = 1
    Request <- MCRequest
    NoCall = NoCall
    NoOption = NoOption
    Reader <- MCReader
    NoSnapshot = NoSnapshot
    PollRow <- LiveRow
    ForeignKeys <- NoKeys
    MaxNow = 1
    MaxLatency = 1
    MaxLosses = 0
SYMMETRY ResultSymmetry
INVARIANTS
    TypeOK
    CountersExact
    AnswersWithinBounds
