----------------------------- MODULE MCVotePath -----------------------------
(* Small instances of VotePath. *)
EXTENDS VotePath, TLC

CONSTANTS q1, v1, v2, r1, r2, r3, yes, no, other, yes_no

\* One question of one second, two viewers, three requests. "other" is a key
\* that no list of options has.
MCQuestion == {q1}
MCViewer == {v1, v2}
MCRequest3 == {r1, r2, r3}
MCRequest2 == {r1, r2}
MCOptionKey == {yes, no, other}
MCOptionList == {NoOptions, yes_no}
MCKeysOf == [list \in MCOptionList |-> IF list = yes_no THEN {yes, no} ELSE {}]

\* The viewers' votes go to the same of two shards, or to different ones.
SameShard == [k \in MCQuestion \X MCViewer |-> 4]
TwoShards == [k \in MCQuestion \X MCViewer |-> IF k[2] = v1 THEN 4 ELSE 7]

Published(show_time, duration) ==
    [status |-> "published", show_time |-> show_time, duration_seconds |-> duration]

MCLiveRow == {Published(0, 1)}
MCRows == {Published(1, 1),
           [status |-> "draft", show_time |-> NoTime, duration_seconds |-> 1]}
NoKeys == {}
Shard1 == {<<q1, 1>>}

\* Requests, and the two options of the question, are interchangeable; so are
\* the viewers when their votes go to one shard.
AsyncSymmetry ==
    Permutations(MCRequest3) \cup Permutations(MCViewer) \cup Permutations({yes, no})
ClockSymmetry == Permutations(MCRequest2) \cup Permutations({yes, no})
=============================================================================
