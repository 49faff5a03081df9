---------------------------- MODULE MCResultPath ----------------------------
(* Small instances of ResultPath. *)
EXTENDS ResultPath, TLC

CONSTANTS q1, v1, v2, r1, r2, b1, b2, yes, yes_no

MCQuestion == {q1}
MCViewer == {v1, v2}
MCRequest == {r1, r2}
MCReader == {b1, b2}
\* The second option gets no votes; one is enough for sums to go wrong.
MCOptionKey == {yes}
MCOptionList == {NoOptions, yes_no}
MCKeysOf == [list \in MCOptionList |-> IF list = yes_no THEN {yes} ELSE {}]

\* The votes go to the last of two shards; rebuilt sums are in the first.
LastShard == [k \in Question \X Viewer |-> 5]

Live(show_time) ==
    [status |-> "published", show_time |-> show_time, duration_seconds |-> 1]
LiveRow == {Live(0)}
ScheduledRow == {Live(1)}
NoKeys == {}
FirstShard == {<<q1, 0>>}

\* Viewers whose votes go to one shard, their requests and those of the admins
\* are interchangeable.
ResultSymmetry ==
    Permutations(MCViewer) \cup Permutations(MCRequest) \cup Permutations(MCReader)
=============================================================================
