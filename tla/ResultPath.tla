----------------------------- MODULE ResultPath -----------------------------
(***************************************************************************)
(* Viewers who vote, the journal that lags behind, and admins who ask for  *)
(* sums and rebuilds, over the same stores. Every question is stored and   *)
(* cached, nobody edits it, and the process does not stop: what those do   *)
(* to votes is the matter of VotePath and AdminPath.                       *)
(***************************************************************************)
EXTENDS VotePath, ResultService

CONSTANT MaxLosses  \* how often Redis may lose the counters of a question

ASSUME MaxLossesAssumption == MaxLosses \in Nat

VARIABLES
    losses,
    owed            \* history: votes a request for sums has to recover

vars == <<storeVars, journalVars, serviceVars, resultVars, losses, owed>>

Init ==
    /\ PathInit
    /\ \A q \in Question : cache[q] \notin {NoCard, Garbled}
    /\ ResultInit
    /\ losses = 0
    /\ owed = [b \in Reader |-> {}]

\* The question is closed, the journal has all its votes, Redis has none.
OnlyInJournal(q) ==
    /\ question[q] # NoRow /\ EffectiveStatus(question[q], now) = "closed"
    /\ \A r \in CountedFor(q) : EventOf(r) \in vote
    /\ \A s \in Shard : counters[<<q, s>>] = EmptyHash

\* A request that finds this must show every vote; it does not answer for a
\* rebuild that replaces the counters by rows from before.
StartsOwing(b) ==
    owed' = [owed EXCEPT ![b] = IF OnlyInJournal(about[b]) THEN CountedFor(about[b]) ELSE {}]

OwedAfter(b) ==
    owed' = [c \in Reader |->
        IF about[c] = about[b] /\ ~ \A r \in owed[c] : EventOf(r) \in rows[b]
        THEN {} ELSE owed[c]]

\* The next step of the handler b of a request for sums.
ResultGoesOn(b) ==
    /\ \/ /\ ResultRow(b) \/ ResultOptions(b) \/ ReadShard(b)
             \/ CountRows(b) \/ DeleteSnapshot(b) \/ InsertSnapshot(b)
          /\ UNCHANGED <<storeVars, owed>>
       \/ /\ ReplaceCounters(b)
          /\ OwedAfter(b)
          /\ UNCHANGED <<now, question, question_option, vote, cache, dedup>>
    /\ UNCHANGED <<journalVars, serviceVars, losses>>

Viewing == Tick \/ WorkerStep \/ \E r \in Request : StartRequest(r) \/ HandlerNext(r)

Next ==
    \/ Viewing /\ UNCHANGED <<resultVars, losses, owed>>
    \/ \E b \in Reader :
          /\ StartResult(b) /\ StartsOwing(b)
          /\ UNCHANGED <<storeVars, journalVars, serviceVars, losses>>
    \/ \E b \in Reader : ResultGoesOn(b)
    \/ \E b \in Reader :
          /\ ResultStoreFails(b)
          /\ UNCHANGED <<storeVars, journalVars, serviceVars, losses, owed>>
    \/ /\ losses < MaxLosses
       /\ losses' = losses + 1
       /\ \E q \in Question : LoseCounters(q)
       /\ UNCHANGED <<now, question, question_option, vote, cache, dedup, journalVars,
                      serviceVars, owed>>

Spec == Init /\ [][Next]_vars

\* The client of Redis repeats a command only so often.
ResultAnsweredOn(b) == ResultGoesOn(b) /\ (at[b] = "replace" => at'[b] = "done")

\* A statement or command that nothing keeps waiting is answered, or fails.
Fairness ==
    /\ \A b \in Reader : WF_vars(ResultAnsweredOn(b))
    /\ \A r \in Request : WF_vars(HandlerNext(r) /\ UNCHANGED <<resultVars, losses, owed>>)
    /\ WF_vars(WorkerStep /\ UNCHANGED <<resultVars, losses, owed>>)

FairSpec == Spec /\ Fairness

-----------------------------------------------------------------------------
\* Safety

\* Every variable has its type.
TypeOK ==
    /\ PathTypeOK /\ ResultTypeOK
    /\ losses \in 0 .. MaxLosses
    /\ owed \in [Reader -> SUBSET Request]

SumInCounters(q, option) ==
    SumOf([i \in 1 .. COUNTER_SHARDS |-> CountOf(counters[<<q, i - 1>>], option)])

\* Votes and rebuilds in any order: the counters of a question are its counted
\* votes without those a rebuild could not see, because the journal did not
\* have them yet when it counted, and without those that Redis lost. Votes
\* after a rebuild are added to it, whatever shard they go to, and a rebuild
\* that finds every vote in the journal restores the sums exactly.
CountersExact ==
    \A q \in Question, option \in OptionKey :
        (\A s \in Shard : counters[<<q, s>>] # NotAHash) =>
            SumInCounters(q, option)
                = Cardinality(VotesFor(option, CountedFor(q) \ forgotten))

\* No answer shows more votes for an option than were counted, although its
\* shards are read one by one while a rebuild moves the sums to shard 0; and
\* unless that happens, it shows every vote counted before the read began.
AnswersWithinBounds ==
    \A b \in Reader : outcome[b] = "ok" =>
        \A option \in DOMAIN figures[b] :
            /\ figures[b][option] <= Cardinality(VotesFor(option, CountedFor(about[b])))
            /\ figures[b][option] >= Cardinality(VotesFor(option, sure[b]))

\* Nothing stays lost: after Redis has lost the counters of a closed question,
\* a request for its sums does not show zeros but every vote of the journal,
\* which get_results finds out without being told (its docstring). Two such
\* requests at once, or one that starts while another recovers, are no
\* exception; a vote that is still counted meanwhile is one.
ResultsRecovered ==
    \A b \in Reader : outcome[b] = "ok" /\ owed[b] = CountedFor(about[b]) =>
        \A option \in DOMAIN figures[b] :
            figures[b][option] = Cardinality(VotesFor(option, owed[b]))

\* Whoever rebuilds, reads or loses counters, the journal gets what it would
\* get without them and no viewer is counted twice.
BallotBoxUnderRebuilds == BallotBoxSpec

-----------------------------------------------------------------------------
\* What the documents say and the code does not do

\* docs/01-specification.md:81: while the question is live, no automatic
\* rebuild is started.
RebuildNeverStartsWhileLive ==
    [][\A b \in Reader : mode[b] # mode'[b] =>
            EffectiveStatus(question[about[b]], now) # "live"]_vars

-----------------------------------------------------------------------------
\* Liveness

\* Every request for sums ends with an answer: two rebuilds of one question do
\* not wait for each other.
ResultsAnswered == \A b \in Reader : (b \in ResultsInFlight) ~> (at[b] = "done")
=============================================================================
