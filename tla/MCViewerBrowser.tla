-------------------------- MODULE MCViewerBrowser ---------------------------
(* Small instances of ViewerBrowser. *)
EXTENDS ViewerBrowser

CONSTANTS today, yesterday

Show(show_time, duration) ==
    [status |-> "published", show_time |-> show_time, duration_seconds |-> duration]

\* One show; and two shows a "day" apart, the second with a window in which a
\* cookie of the first expires.
OneShow == [q \in {today} |-> Show(1, 2)]
TwoShows == [q \in {yesterday, today} |->
                IF q = yesterday THEN Show(0, 1) ELSE Show(3, 2)]
=============================================================================
