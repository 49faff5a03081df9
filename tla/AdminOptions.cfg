SPECIFICATION Spec
CHECK_DEADLOCK FALSE
CONSTANTS
    SECOND = 1
    MIN_DURATION = 1
    MAX_DURATION = 1
    DEDUP_TTL_MARGIN_SECONDS = 2
    NoTime = NoTime
    q1 = q1
    yes = yes
    no = no
    maybe = maybe
    yes_no = yes_no
    yes_maybe = yes_maybe
    Question = {q1}
    Viewer = {v1}
    OptionKey <- MCOptionKey
    OptionList <- MCOptionList
    KeysOf <- MCKeysOf
    NoOptions = NoOptions
    COUNTER_SHARDS = 2
    Crc32 <- LastShard
    NoRow = NoRow
    NoCard = NoCard
    Garbled = Garbled
    NotAHash = NotAHash
    ASYNC = FALSE
    JOURNAL_QUEUE_SIZE = 1
    JOURNAL_BATCH_SIZE = 1
    Request = {r1}
    NoCall = NoCall
    NoOption = NoOption
    Admin = {a1}
    NoJob = NoJob
    AdminJob <- EditJobs
    PollRow <- LiveRow
    ForeignKeys <- NoKeys
    MaxNow = 0
    MaxLatency = 1
PROPERTIES
    CountedOptionsStay
