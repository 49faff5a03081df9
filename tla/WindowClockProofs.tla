-------------------------- MODULE WindowClockProofs -------------------------
(***************************************************************************)
(* The properties of WindowClock, for every set of cards and every clock.  *)
(***************************************************************************)
EXTENDS WindowClock, VotingWindowProofs

\* The stored card always passes the validators, and time is a number.
THEOREM TypeCorrect == Spec => []TypeOK
<1>1. Init => TypeOK
    BY InputRowAssumption DEF Init, TypeOK
<1>2. TypeOK /\ [Next]_vars => TypeOK'
    BY InputRowAssumption DEF TypeOK, Next, Tick, Save, vars
<1> QED
    BY <1>1, <1>2, PTL DEF Spec

\* The badge the admin sees and the gate for votes agree at every instant
\* (effective_status and require_open_voting_window).
THEOREM BadgeCorrect == Spec => []BadgeAgreesWithGate
<1>1. TypeOK => BadgeAgreesWithGate
    <2> SUFFICES ASSUME TypeOK
                 PROVE  BadgeAgreesWithGate
        OBVIOUS
    <2>1. /\ row.status \in QuestionStatus
          /\ row.status = "published" =>
                row.show_time \in Nat /\ row.show_time # NoTime
          /\ row.duration_seconds \in MIN_DURATION .. MAX_DURATION
          /\ now \in Nat
        BY NoTimeAssumption DEF TypeOK, Row
    <2>2. row.status = "published" =>
            /\ CalculateClosingTime(row.show_time, row.duration_seconds) \in Nat
            /\ row.show_time
                 < CalculateClosingTime(row.show_time, row.duration_seconds)
        BY <2>1, ClosingTimeAfterShowTime
    <2> QED
        BY <2>1, <2>2 DEF BadgeAgreesWithGate, EffectiveStatus,
           RequireOpenVotingWindow, QuestionStatus
<1> QED
    BY <1>1, TypeCorrect, PTL

\* A dedup key set by an admitted vote outlives the window by the margin, to
\* within a second (_dedup_ttl).
THEOREM DedupKeyCovers == Spec => []DedupKeyCoversMargin
<1>1. TypeOK => DedupKeyCoversMargin
    <2> SUFFICES ASSUME TypeOK, RequireOpenVotingWindow(row, now) = "open"
                 PROVE  LET closes  == CalculateClosingTime(row.show_time, row.duration_seconds)
                            expiry  == now + SECOND * DedupTtl(closes, now)
                            covered == closes + SECOND * DEDUP_TTL_MARGIN_SECONDS
                        IN  covered <= expiry /\ expiry < covered + SECOND
        BY DEF DedupKeyCoversMargin
    <2> DEFINE closes == CalculateClosingTime(row.show_time, row.duration_seconds)
    <2>1. row.show_time \in Nat /\ row.duration_seconds \in MIN_DURATION .. MAX_DURATION
        BY OpenMeansInside DEF TypeOK, Row
    <2>2. closes \in Nat
        BY <2>1, ClosingTimeAfterShowTime
    <2>3. now \in Nat /\ now < closes
        BY <2>2, OpenMeansInside DEF TypeOK
    <2> HIDE DEF closes
    <2>4. /\ closes + SECOND * DEDUP_TTL_MARGIN_SECONDS
                <= now + SECOND * DedupTtl(closes, now)
          /\ now + SECOND * DedupTtl(closes, now)
                < closes + SECOND * DEDUP_TTL_MARGIN_SECONDS + SECOND
        BY <2>2, <2>3, DedupTtlCoversMargin
    <2> QED
        BY <2>4 DEF closes
<1> QED
    BY <1>1, TypeCorrect, PTL

\* Without a save, the badge of a published card goes from scheduled to live
\* to closed, one at a time and never back.
THEOREM BadgeAdvances == Spec => BadgeOnlyAdvances
<1> DEFINE Advance ==
        (row' = row /\ row.status = "published") =>
            LET before == BadgeRank[EffectiveStatus(row, now)]
                after  == BadgeRank[EffectiveStatus(row, now')]
            IN  before <= after /\ after <= before + 1
<1>1. TypeOK /\ [Next]_vars => Advance
    <2> SUFFICES ASSUME TypeOK, [Next]_vars, row' = row, row.status = "published"
                 PROVE  LET before == BadgeRank[EffectiveStatus(row, now)]
                            after  == BadgeRank[EffectiveStatus(row, now')]
                        IN  before <= after /\ after <= before + 1
        OBVIOUS
    <2> DEFINE closes == CalculateClosingTime(row.show_time, row.duration_seconds)
    <2>1. /\ row.show_time \in Nat /\ now \in Nat
          /\ row.duration_seconds \in MIN_DURATION .. MAX_DURATION
        BY NoTimeAssumption DEF TypeOK, Row
    <2>2. closes \in Nat /\ row.show_time < closes
        BY <2>1, ClosingTimeAfterShowTime
    <2>3. now' = now \/ now' = now + 1
        BY DEF Next, Tick, Save, vars
    <2>4. /\ BadgeRank["scheduled"] = 0
          /\ BadgeRank["live"] = 1
          /\ BadgeRank["closed"] = 2
        BY DEF BadgeRank
    <2>5. ASSUME NEW t \in Nat
          PROVE  EffectiveStatus(row, t) =
                    IF t < row.show_time THEN "scheduled"
                    ELSE IF t < closes THEN "live" ELSE "closed"
        BY DEF EffectiveStatus
    <2> HIDE DEF closes
    <2> QED
        BY <2>1, <2>2, <2>3, <2>4, <2>5
<1>2. Spec => [][Advance]_vars
    BY <1>1, TypeCorrect, PTL DEF Spec
<1> QED
    BY <1>2 DEF BadgeOnlyAdvances
=============================================================================
