SPECIFICATION PathSpec
CONSTANTS
    SECOND = 1
    MIN_DURATION = 1
    MAX_DURATION = 1
    DEDUP_TTL_MARGIN_SECONDS = 1
    NoTime = NoTime
    q1 = q1
    v1 = v1
    v2 = v2
    r1 = r1
    r2 = r2
    r3 = r3
    yes = yes
    no = no
    other = other
    yes_no = yes_no
    Question <- MCQuestion
    Viewer <- MCViewer
    OptionKey <- MCOptionKey
    OptionList <- MCOptionList
    KeysOf <- MCKeysOf
    NoOptions = NoOptions
    COUNTER_SHARDS = 2
    Crc32 <- SameShard
    NoRow = NoRow
    NoCard = NoCard
    Garbled = Garbled
    NotAHash = NotAHash
    ASYNC = TRUE
    JOURNAL_QUEUE_SIZE = 1
    JOURNAL_BATCH_SIZE = 2
    Request <- MCRequest3
    NoCall = NoCall
    NoOption = NoOption
    PollRow <- MCLiveRow
    ForeignKeys <- NoKeys
    MaxNow = 0
    MaxLatency = 0
SYMMETRY AsyncSymmetry
INVARIANTS
    PathTypeOK
    CountersMatchVotes
    VotesAccounted
    AnswersHonest
    UnfinishedExact
PROPERTIES
    ShutdownLosesNothing
    BallotBoxSpec
