---------------------------- MODULE VotingWindow ----------------------------
(***************************************************************************)
(* The clock arithmetic of a poll: when its voting window is open, which   *)
(* badge the admin sees, and how long a viewer's dedup key lives           *)
(* (question/voting_window.py, question/models.py, vote/service.py).       *)
(* Instants are counted in ticks of the server clock, SECOND of them to a  *)
(* second; durations and TTLs are whole seconds, as in the code.           *)
(***************************************************************************)
EXTENDS Integers

CONSTANTS
    SECOND,                     \* ticks of the clock in one second
    MIN_DURATION,               \* shortest accepted duration_seconds (10)
    MAX_DURATION,               \* longest accepted duration_seconds (3600)
    DEDUP_TTL_MARGIN_SECONDS,   \* how long a dedup key outlives its window (86400)
    NoTime                      \* show_time of a question that has none

ASSUME SecondAssumption == SECOND \in Nat \ {0}
ASSUME DurationAssumption ==
    MIN_DURATION \in Nat \ {0} /\ MAX_DURATION \in Nat
ASSUME MarginAssumption == DEDUP_TTL_MARGIN_SECONDS \in Nat
ASSUME NoTimeAssumption == NoTime \notin Int

QuestionStatus == {"draft", "published", "cancelled"}

\* The stored columns of a question that the validators of QuestionInput let
\* through: a published question has a show_time.
Row == {row \in [status           : QuestionStatus,
                 show_time        : Nat \cup {NoTime},
                 duration_seconds : MIN_DURATION .. MAX_DURATION] :
            row.status = "published" => row.show_time # NoTime}

\* Mutant: the duration taken for minutes.
ClosingTimeInMinutes(show_time, duration_seconds) ==
    show_time + SECOND * (duration_seconds \div 60)

CalculateClosingTime(show_time, duration_seconds) ==
    show_time + SECOND * duration_seconds

\* The outcome of require_open_voting_window: "open", or the error it raises.
WindowVerdict == {"open", "not_published", "window_not_started", "window_closed"}

\* Mutant: the right edge of the window is let in.
ClosedIntervalVerdict(card, t) ==
    IF card.status # "published" \/ card.show_time = NoTime THEN "not_published"
    ELSE IF t < card.show_time THEN "window_not_started"
    ELSE IF t > CalculateClosingTime(card.show_time, card.duration_seconds)
         THEN "window_closed"
    ELSE "open"

RequireOpenVotingWindow(card, t) ==
    IF card.status # "published" \/ card.show_time = NoTime THEN "not_published"
    ELSE IF t < card.show_time THEN "window_not_started"
    ELSE IF t >= CalculateClosingTime(card.show_time, card.duration_seconds)
         THEN "window_closed"
    ELSE "open"

\* The badge computed for the admin; never stored. A published card always
\* has a show_time, so the ValueError of the code has no case here.
EffectiveStatus(card, t) ==
    IF card.status # "published" THEN card.status
    ELSE IF t < card.show_time THEN "scheduled"
    ELSE IF t < CalculateClosingTime(card.show_time, card.duration_seconds)
         THEN "live"
    ELSE "closed"

\* Mutant: rounded down, as int() would.
FloorSeconds(ticks) == ticks \div SECOND

\* math.ceil of a length of time given in ticks, in seconds.
CeilSeconds(ticks) == (ticks + (SECOND - 1)) \div SECOND

\* EX argument of the Lua script: the rest of the window, rounded up to whole
\* seconds, and the margin.
DedupTtl(closes_at, t) == CeilSeconds(closes_at - t) + DEDUP_TTL_MARGIN_SECONDS
=============================================================================
