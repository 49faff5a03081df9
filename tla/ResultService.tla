--------------------------- MODULE ResultService ----------------------------
(***************************************************************************)
(* The admin's requests for the sums of a question (api/admin.py,          *)
(* result/service.py): get_results, which adds up the counter shards, and  *)
(* rebuild_results, which counts the journal anew, stores a snapshot and   *)
(* replaces the counters. A handler takes one step per statement or        *)
(* command; get_results goes over to rebuild_results when Redis has no     *)
(* counters and the question was not live when it was read.                *)
(***************************************************************************)
EXTENDS VoteService, CounterShards

CONSTANTS
    Reader,         \* the HTTP requests for sums, each handled once
    NoSnapshot      \* a question without rows in question_result

VARIABLES
    question_result,    \* table question_result: the snapshot of each question
    at,                 \* where the handler of each request is
    about,              \* the question each request is about
    mode,               \* "read": in get_results; "rebuild": in rebuild_results
    view,               \* the card the handler has read
    badge,              \* its effective_status
    hashes,             \* the counter hashes read so far
    rows,               \* the journal rows that its GROUP BY has counted
    figures,            \* the sums in the answer
    outcome,            \* HTTP answer, "none" before it
    sure,               \* history: requests the sums being read must contain
    forgotten           \* history: counted requests no longer in the counters

resultVars == <<question_result, at, about, mode, view, badge, hashes, rows,
                figures, outcome, sure, forgotten>>
requestVars == <<about, figures, outcome>>

ResultStep == {"idle", "row", "options", "shards", "count", "delete", "insert",
               "replace", "done"}

Outcome == {"none", "ok", "not_found", "unavailable", "internal_error"}

\* Sums by option.
IsTally(t) == DOMAIN t \subseteq OptionKey /\ t \in [DOMAIN t -> Nat]

ResultTypeOK ==
    /\ \A q \in Question : question_result[q] = NoSnapshot \/ IsTally(question_result[q])
    /\ at \in [Reader -> ResultStep]
    /\ about \in [Reader -> Question]
    /\ mode \in [Reader -> {"read", "rebuild"}]
    /\ view \in [Reader -> Card \cup {NoCard}]
    /\ badge \in [Reader -> {"none", "draft", "cancelled", "scheduled", "live", "closed"}]
    /\ \A b \in Reader : /\ Len(hashes[b]) <= COUNTER_SHARDS
                         /\ \A i \in DOMAIN hashes[b] : IsHash(hashes[b][i])
                         /\ IsTally(figures[b])
    /\ rows \in [Reader -> SUBSET VoteEvent]
    /\ outcome \in [Reader -> Outcome]
    /\ sure \in [Reader -> SUBSET Request]
    /\ forgotten \subseteq Request

ResultInit ==
    /\ question_result = [q \in Question |-> NoSnapshot]
    /\ at = [b \in Reader |-> "idle"]
    /\ about \in [Reader -> Question]
    /\ mode \in [Reader -> {"read", "rebuild"}]
    /\ view = [b \in Reader |-> NoCard]
    /\ badge = [b \in Reader |-> "none"]
    /\ hashes = [b \in Reader |-> <<>>]
    /\ rows = [b \in Reader |-> {}]
    /\ figures = [b \in Reader |-> EmptyHash]
    /\ outcome = [b \in Reader |-> "none"]
    /\ sure = [b \in Reader |-> {}]
    /\ forgotten = {}

ResultsInFlight == {b \in Reader : at[b] \notin {"idle", "done"}}

\* The votes for an option, of a set of requests.
VotesFor(option, requests) == {r \in requests : call[r].option = option}

CountedFor(q) == {r \in cast : QuestionOf(r) = q}

\* The handlers' local variables, but for those of the step.
Proceed(b, next) ==
    /\ at' = [at EXCEPT ![b] = next]
    /\ UNCHANGED requestVars

ForgetLocals(handlers) ==
    /\ view' = [b \in Reader |-> IF b \in handlers THEN NoCard ELSE view[b]]
    /\ badge' = [b \in Reader |-> IF b \in handlers THEN "none" ELSE badge[b]]
    /\ hashes' = [b \in Reader |-> IF b \in handlers THEN <<>> ELSE hashes[b]]
    /\ rows' = [b \in Reader |-> IF b \in handlers THEN {} ELSE rows[b]]

Fail(b, error) ==
    /\ at' = [at EXCEPT ![b] = "done"]
    /\ outcome' = [outcome EXCEPT ![b] = error]
    /\ ForgetLocals({b})
    /\ UNCHANGED <<about, mode, figures>>

\* _response: a number for every option of the card, zero when there is none.
Respond(b, counts) ==
    /\ at' = [at EXCEPT ![b] = "done"]
    /\ outcome' = [outcome EXCEPT ![b] = "ok"]
    /\ figures' = [figures EXCEPT ![b] =
                    [option \in KeysOf[view[b].options] |-> counts[option]]]
    /\ ForgetLocals({b})
    /\ UNCHANGED <<about, mode>>

-----------------------------------------------------------------------------
\* get_question, in both functions

StartResult(b) ==
    /\ at[b] = "idle"
    /\ Proceed(b, "row")
    /\ UNCHANGED <<question_result, mode, view, badge, hashes, rows, sure, forgotten>>

\* First SELECT of _load_one.
ResultRow(b) ==
    /\ at[b] = "row"
    /\ LET row == question[about[b]]
       IN  \/ row = NoRow /\ Fail(b, "not_found")
           \/ /\ row # NoRow
              /\ view' = [view EXCEPT ![b] = ToCard(row, NoOptions)]
              /\ Proceed(b, "options")
              /\ UNCHANGED <<mode, badge, hashes, rows>>
    /\ UNCHANGED <<question_result, sure, forgotten>>

\* Second SELECT, and effective_status by the clock of this moment.
ResultOptions(b) ==
    /\ at[b] = "options"
    /\ view' = [view EXCEPT ![b] = ToCard(view[b], question_option[about[b]])]
    /\ badge' = [badge EXCEPT ![b] = EffectiveStatus(view[b], now)]
    /\ IF mode[b] = "rebuild" THEN Proceed(b, "count") /\ UNCHANGED sure
       ELSE /\ Proceed(b, "shards")
            /\ sure' = [sure EXCEPT ![b] = CountedFor(about[b]) \ forgotten]
    /\ UNCHANGED <<question_result, mode, hashes, rows, forgotten>>

-----------------------------------------------------------------------------
\* _read_counters and the decision of get_results

\* Mutant: the question is live, when it should be anything else.
NeedsRebuildWhileLive(b, read) ==
    badge[b] = "live" /\ \A i \in DOMAIN read : DOMAIN read[i] = {}

\* any(shards) is false, and the question was not live.
NeedsRebuild(b, read) ==
    badge[b] # "live" /\ \A i \in DOMAIN read : DOMAIN read[i] = {}

\* One HGETALL of the pipeline; after the last one, the answer or the way to
\* rebuild_results, which begins with get_question again.
ReadShard(b) ==
    /\ at[b] = "shards"
    /\ LET found == counters[NextShardKey(about[b], hashes[b])]
           read == Append(hashes[b], found)
       IN  \/ found = NotAHash /\ Fail(b, "unavailable")
           \/ /\ found # NotAHash
              /\ ~AllShardsRead(read)
              /\ hashes' = [hashes EXCEPT ![b] = read]
              /\ UNCHANGED <<at, requestVars, mode, view, badge, rows>>
           \/ /\ found # NotAHash
              /\ AllShardsRead(read)
              /\ IF NeedsRebuild(b, read)
                 THEN /\ mode' = [mode EXCEPT ![b] = "rebuild"]
                      /\ Proceed(b, "row")
                      /\ ForgetLocals({b})
                 ELSE Respond(b, AggregateCounterShards(read))
    /\ UNCHANGED <<question_result, sure, forgotten>>

-----------------------------------------------------------------------------
\* rebuild_results: the transaction (READ COMMITTED, a snapshot per statement)

\* Sums of journal rows.
JournalCounts(events) ==
    [option \in OptionKey |-> Cardinality({e \in events : e.option = option})]

\* _journal_counts: GROUP BY of the rows committed by now.
CountRows(b) ==
    /\ at[b] = "count"
    /\ rows' = [rows EXCEPT ![b] = {e \in vote : e.key[1] = about[b]}]
    /\ Proceed(b, "delete")
    /\ UNCHANGED <<question_result, mode, view, badge, hashes, sure, forgotten>>

\* The DELETE of _store_snapshot sees the snapshot committed by now, and waits
\* for whoever else is deleting it.
DeleteSnapshot(b) ==
    /\ at[b] = "delete"
    /\ Proceed(b, "insert")
    /\ UNCHANGED <<question_result, mode, view, badge, hashes, rows, sure, forgotten>>

\* Everybody else between DELETE and INSERT for the same question: the rows
\* their DELETE did not see break the primary key of their INSERT.
Colliding(b) == {c \in Reader \ {b} : at[c] = "insert" /\ about[c] = about[b]}

\* Mutant: the snapshot is locked before it is replaced, by all at once.
InsertSnapshotAlone(b) ==
    /\ at[b] = "insert"
    /\ Colliding(b) = {}
    /\ question_result' = [question_result EXCEPT ![about[b]] =
            [option \in KeysOf[view[b].options] |-> JournalCounts(rows[b])[option]]]
    /\ Proceed(b, "replace")
    /\ UNCHANGED <<mode, view, badge, hashes, rows, sure, forgotten>>

\* The INSERT and COMMIT of the first; the others get an IntegrityError. The
\* reply to COMMIT may be lost.
InsertSnapshot(b) ==
    /\ at[b] = "insert"
    /\ question_result' = [question_result EXCEPT ![about[b]] =
            [option \in KeysOf[view[b].options] |-> JournalCounts(rows[b])[option]]]
    /\ \E failed \in {Colliding(b), Colliding(b) \cup {b}} :
          /\ at' = [c \in Reader |-> IF c \in failed THEN "done"
                                     ELSE IF c = b THEN "replace" ELSE at[c]]
          /\ outcome' = [c \in Reader |-> IF c \in failed THEN "internal_error"
                                          ELSE outcome[c]]
          /\ ForgetLocals(failed)
    /\ UNCHANGED <<about, mode, figures, sure, forgotten>>

-----------------------------------------------------------------------------
\* rebuild_results: the counters

\* Mutant: only the first shard is deleted.
ReplacedFirstOnly(q, options, counts) ==
    [c \in CounterKey |->
        IF c = <<q, 0>> THEN [option \in KeysOf[options] |-> counts[option]]
        ELSE counters[c]]

\* MULTI: DEL of all shards of q and HSET of the sums in shard 0.
ReplacedCounters(q, options, counts) ==
    [c \in CounterKey |->
        IF c[1] # q THEN counters[c]
        ELSE IF c[2] = 0 THEN [option \in KeysOf[options] |-> counts[option]]
        ELSE EmptyHash]

\* _replace_counters, and the answer unless the reply of EXEC is lost, when the
\* client of Redis sends it all once more or gives up. The counters now hold
\* exactly the rows that were counted, and whoever is reading them may miss
\* what has moved.
ReplaceCounters(b) ==
    /\ at[b] = "replace"
    /\ LET q == about[b]
           counts == JournalCounts(rows[b])
       IN  /\ counters' = ReplacedCounters(q, view[b].options, counts)
           /\ forgotten' = {r \in cast : IF QuestionOf(r) = q
                                         THEN EventOf(r) \notin rows[b]
                                         ELSE r \in forgotten}
           /\ sure' = [c \in Reader |-> IF about[c] = q THEN {} ELSE sure[c]]
           /\ \/ Respond(b, counts)
              \/ Fail(b, "unavailable")
              \/ UNCHANGED <<at, requestVars, mode, view, badge, hashes, rows>>
    /\ UNCHANGED question_result

-----------------------------------------------------------------------------
\* A store fails without effect: nothing catches an error of PostgreSQL, one
\* of Redis is a 503.
ResultStoreFails(b) ==
    /\ \/ /\ at[b] \in {"row", "options", "count", "delete", "insert"}
          /\ Fail(b, "internal_error")
       \/ /\ at[b] \in {"shards", "replace"}
          /\ Fail(b, "unavailable")
    /\ UNCHANGED <<question_result, sure, forgotten>>

\* Redis has lost the counters of q: what get_results is prepared for.
LoseCounters(q) ==
    /\ \E c \in CounterKey : c[1] = q /\ counters[c] # EmptyHash
    /\ counters' = [c \in CounterKey |-> IF c[1] = q THEN EmptyHash ELSE counters[c]]
    /\ forgotten' = forgotten \cup CountedFor(q)
    /\ sure' = [b \in Reader |-> IF about[b] = q THEN {} ELSE sure[b]]
    /\ UNCHANGED <<question_result, at, about, mode, view, badge, hashes, rows,
                   figures, outcome>>
=============================================================================
