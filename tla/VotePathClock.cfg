SPECIFICATION PathSpec
CONSTANTS
    SECOND = 2
    MIN_DURATION = 1
    MAX_DURATION = 1
    DEDUP_TTL_MARGIN_SECONDS = 1
    NoTime = NoTime
    q1 = q1
    v1 = v1
    v2 = v2
    r1 = r1
    r2 = r2
    r3 = r3
    yes = yes
    no = no
    other = other
    yes_no = yes_no
    Question <- MCQuestion
    Viewer <- MCViewer
    OptionKey <- MCOptionKey
    OptionList <- MCOptionList
    KeysOf <- MCKeysOf
    NoOptions = NoOptions
    COUNTER_SHARDS = 2
    Crc32 <- TwoShards
    NoRow = NoRow
    NoCard = NoCard
    Garbled = Garbled
    NotAHash = NotAHash
    ASYNC = FALSE
    JOURNAL_QUEUE_SIZE = 1
    JOURNAL_BATCH_SIZE = 2
    Request <- MCRequest2
    NoCall = NoCall
    NoOption = NoOption
    PollRow <- MCRows
    ForeignKeys <- Shard1
    MaxNow = 6
    MaxLatency = 2
SYMMETRY ClockSymmetry
INVARIANTS
    OneVotePerViewer
    ReservedIffCounted
    VotesInWindow
