SPECIFICATION FairSpec
CHECK_DEADLOCK FALSE
CONSTANTS
    SECOND = 1
    MIN_DURATION = 1
    MAX_DURATION = 2
    DEDUP_TTL_MARGIN_SECONDS = 3
    NoTime = NoTime
    today = today
    yesterday = yesterday
    Poll = {today}
    PollRow <- OneShow
    Page = {l1, l2, l3}
    VIEWER_COOKIE_MAX_AGE = 3
    MaxNow = 3
    MaxSent = 5
INVARIANTS
    TypeOK
    OneVotePerBrowser
    VoterRemembered
    SuccessIsTrue
PROPERTIES
    PagesSettle
