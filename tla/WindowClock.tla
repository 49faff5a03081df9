---------------------------- MODULE WindowClock -----------------------------
(***************************************************************************)
(* A question under a running clock: time passes, and an admin may save    *)
(* the card again at any moment. Every reader evaluates the badge, the     *)
(* window and the dedup TTL against the card and the time it finds.        *)
(***************************************************************************)
EXTENDS VotingWindow

CONSTANTS
    InputRow,   \* the cards an admin may save, a subset of Row
    MaxNow      \* bound on the clock

ASSUME InputRowAssumption == InputRow \subseteq Row
ASSUME MaxNowAssumption == MaxNow \in Nat

VARIABLES
    row,        \* the stored question
    now         \* the server clock

vars == <<row, now>>

\* The stored question is one the validators accept.
TypeOK == row \in Row /\ now \in Nat

Init == row \in InputRow /\ now = 0

Tick ==
    /\ now < MaxNow
    /\ now' = now + 1
    /\ UNCHANGED row

\* update_question stores any card that passes the validators; nothing
\* restricts which status may follow which.
Save ==
    /\ row' \in InputRow
    /\ UNCHANGED now

Next == Tick \/ Save

Spec == Init /\ [][Next]_vars

-----------------------------------------------------------------------------

\* The admin's badge and the viewer's gate are two pieces of code: the badge
\* says "live" exactly while require_open_voting_window lets votes in, and
\* each of its refusals has its own badge.
BadgeAgreesWithGate ==
    LET badge   == EffectiveStatus(row, now)
        verdict == RequireOpenVotingWindow(row, now)
    IN  /\ (badge = "live")      <=> (verdict = "open")
        /\ (badge = "scheduled") <=> (verdict = "window_not_started")
        /\ (badge = "closed")    <=> (verdict = "window_closed")

\* The order of the badges of a published question.
BadgeRank == [badge \in {"scheduled", "live", "closed"} |->
                CASE badge = "scheduled" -> 0 [] badge = "live" -> 1 [] OTHER -> 2]

\* While nobody saves the card, the window opens once and closes once: the
\* badge goes from scheduled to live to closed, never back, and a second of
\* window is never skipped (durations are at least one second long).
BadgeOnlyAdvances ==
    [][(row' = row /\ row.status = "published") =>
          LET before == BadgeRank[EffectiveStatus(row, now)]
              after  == BadgeRank[EffectiveStatus(row, now')]
          IN  before <= after /\ after <= before + 1]_vars

\* A dedup key set by a vote admitted now lives until the whole margin after
\* the close of the window has passed, and less than a second longer, however
\* the vote falls between two seconds.
DedupKeyCoversMargin ==
    RequireOpenVotingWindow(row, now) = "open" =>
        LET closes  == CalculateClosingTime(row.show_time, row.duration_seconds)
            expiry  == now + SECOND * DedupTtl(closes, now)
            covered == closes + SECOND * DEDUP_TTL_MARGIN_SECONDS
        IN  covered <= expiry /\ expiry < covered + SECOND
=============================================================================
