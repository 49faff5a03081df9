------------------------- MODULE VotingWindowProofs -------------------------
(***************************************************************************)
(* Facts about the clock arithmetic, for every length of a second, every   *)
(* duration and every margin.                                              *)
(***************************************************************************)
EXTENDS VotingWindow, TLAPS

\* Whole seconds, rounded up, cover a length of time and exceed it by less
\* than a second (math.ceil in _dedup_ttl).
LEMMA CeilSecondsCovers ==
    ASSUME NEW ticks \in Int
    PROVE  /\ CeilSeconds(ticks) \in Int
           /\ ticks <= SECOND * CeilSeconds(ticks)
           /\ SECOND * CeilSeconds(ticks) < ticks + SECOND
<1> DEFINE padded == ticks + (SECOND - 1)
<1>1. SECOND \in Nat /\ SECOND > 0
    BY SecondAssumption
<1>2. padded \in Int
    BY <1>1
<1>3. /\ padded \div SECOND \in Int
      /\ SECOND * (padded \div SECOND) <= padded
      /\ padded < SECOND * (padded \div SECOND) + SECOND
    BY <1>1, <1>2
<1>4. SECOND * (padded \div SECOND) \in Int
    BY <1>1, <1>3
<1> QED
    BY <1>1, <1>3, <1>4 DEF CeilSeconds

\* The closing time of a row is an instant after its show_time, since a
\* duration is at least a second.
LEMMA ClosingTimeAfterShowTime ==
    ASSUME NEW show_time \in Nat,
           NEW duration \in MIN_DURATION .. MAX_DURATION
    PROVE  /\ CalculateClosingTime(show_time, duration) \in Nat
           /\ show_time < CalculateClosingTime(show_time, duration)
<1>1. SECOND \in Nat /\ SECOND > 0 /\ duration \in Nat /\ duration > 0
    BY SecondAssumption, DurationAssumption
<1>2. SECOND * duration \in Nat /\ SECOND * duration > 0
    BY <1>1
<1> QED
    BY <1>2 DEF CalculateClosingTime

\* The TTL of a vote admitted at t, counted from t, ends after the margin that
\* follows the close, and less than a second after that.
LEMMA DedupTtlCoversMargin ==
    ASSUME NEW closes \in Nat, NEW t \in Nat, t < closes
    PROVE  /\ SECOND * DedupTtl(closes, t) \in Nat
           /\ closes + SECOND * DEDUP_TTL_MARGIN_SECONDS
                 <= t + SECOND * DedupTtl(closes, t)
           /\ t + SECOND * DedupTtl(closes, t)
                 < closes + SECOND * DEDUP_TTL_MARGIN_SECONDS + SECOND
<1> DEFINE rest == CeilSeconds(closes - t)
<1>1. SECOND \in Nat /\ SECOND > 0 /\ DEDUP_TTL_MARGIN_SECONDS \in Nat
    BY SecondAssumption, MarginAssumption
<1>2. /\ rest \in Int
      /\ closes - t <= SECOND * rest
      /\ SECOND * rest < (closes - t) + SECOND
    BY CeilSecondsCovers
<1>3. SECOND * rest \in Int /\ SECOND * DEDUP_TTL_MARGIN_SECONDS \in Nat
    BY <1>1, <1>2
<1>4. SECOND * (rest + DEDUP_TTL_MARGIN_SECONDS)
        = SECOND * rest + SECOND * DEDUP_TTL_MARGIN_SECONDS
    BY <1>1, <1>2
<1> QED
    BY <1>1, <1>2, <1>3, <1>4 DEF DedupTtl

\* A card whose gate is open is published, with a show_time, and the instant
\* is inside its window.
LEMMA OpenMeansInside ==
    ASSUME NEW card, NEW t, RequireOpenVotingWindow(card, t) = "open"
    PROVE  /\ card.status = "published"
           /\ card.show_time # NoTime
           /\ ~(t < card.show_time)
           /\ ~(t >= CalculateClosingTime(card.show_time, card.duration_seconds))
    BY DEF RequireOpenVotingWindow

\* The gate gives one of four verdicts, whatever the card.
LEMMA VerdictType ==
    ASSUME NEW card, NEW t
    PROVE  RequireOpenVotingWindow(card, t) \in WindowVerdict
    BY DEF RequireOpenVotingWindow, WindowVerdict
=============================================================================
