---------------------------- MODULE MCAdminPath -----------------------------
(* Small instances of AdminPath. *)
EXTENDS AdminPath, TLC

CONSTANTS q1, yes, no, maybe, yes_no, yes_maybe

MCOptionKey == {yes, no, maybe}
MCOptionList == {NoOptions, yes_no, yes_maybe}
MCKeysOf == [list \in MCOptionList |->
    CASE list = yes_no -> {yes, no}
      [] list = yes_maybe -> {yes, maybe}
      [] OTHER -> {}]

\* Every vote goes to the last of two shards.
LastShard == [k \in Question \X Viewer |-> 5]

Poll(status, show_time) ==
    [status |-> status, show_time |-> show_time, duration_seconds |-> 1]

\* A question on the air at time 0, a draft, or none.
MCRows == {Poll("published", 0), Poll("draft", 0)}
LiveRow == {Poll("published", 0)}

Edit(q, row, options) ==
    [kind |-> "update", question |-> q, row |-> row, options |-> options]
Delete(q) ==
    [kind |-> "delete", question |-> q, row |-> NoRow, options |-> NoOptions]
Create(q, row, options) ==
    [kind |-> "create", question |-> q, row |-> row, options |-> options]

\* Publish for a tick later, with one list of options whatever there was;
\* delete; create.
MCJobs == {Edit(q1, Poll("published", 1), yes_maybe),
           Delete(q1),
           Create(q1, Poll("published", 0), yes_no)}
EditJobs == {Edit(q1, Poll("published", 0), yes_maybe)}
CancelJobs == {Edit(q1, Poll("published", 1), yes_no),
               Edit(q1, Poll("cancelled", 0), yes_no)}
NoKeys == {}

\* The edits of these instances keep within the margin of the dedup keys.
ASSUME MovesAssumption == EditsWithinMargin
=============================================================================
