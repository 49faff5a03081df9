--------------------------- MODULE MCWindowClock ----------------------------
(* Small instance of WindowClock: every card with a show_time of 0 to 4 and  *)
(* a duration of 1 or 2 seconds of 3 ticks each, and a clock that runs past  *)
(* the end of the last window.                                               *)
EXTENDS WindowClock

MCInputRow ==
    {card \in [status           : QuestionStatus,
               show_time        : (0 .. 4) \cup {NoTime},
               duration_seconds : MIN_DURATION .. MAX_DURATION] : card \in Row}
=============================================================================
