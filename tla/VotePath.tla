------------------------------ MODULE VotePath ------------------------------
(***************************************************************************)
(* Viewers, handlers, Redis, the journal and the process together, on      *)
(* questions nobody edits during the run: the way of a vote from the click *)
(* to the counters and the table vote, with failing stores, lost replies,  *)
(* shutdowns, crashes and restarts.                                        *)
(***************************************************************************)
EXTENDS VoteService

CONSTANTS
    PollRow,        \* rows the questions of the run may have, a subset of Row
    ForeignKeys,    \* counter keys on which something else was left
    MaxNow,         \* bound on the clock
    MaxLatency      \* most ticks a handler is in flight: an assumption on
                    \* the environment, the code sets no timeout

ASSUME PollRowAssumption == PollRow \subseteq Row
ASSUME ForeignKeysAssumption == ForeignKeys \subseteq CounterKey
ASSUME BoundAssumption == MaxNow \in Nat /\ MaxLatency \in Nat
\* A handler is done before the margin of the dedup keys is over (a day).
ASSUME LatencyAssumption == MaxLatency <= SECOND * DEDUP_TTL_MARGIN_SECONDS

pathVars == <<storeVars, journalVars, serviceVars>>

\* Every variable of the stores, the journal and the handlers has its type.
PathTypeOK == StoreTypeOK /\ JournalTypeOK /\ ServiceTypeOK

\* A stored question has options, and its card is cached, lost, or left over
\* from an older schema. No votes yet.
PathInit ==
    /\ now = 0
    /\ question \in [Question -> PollRow \cup {NoRow}]
    /\ question_option \in [Question -> OptionList]
    /\ \A q \in Question : question[q] = NoRow <=> question_option[q] = NoOptions
    /\ vote = {}
    /\ cache \in [Question -> {NoCard, Garbled} \cup
                    {ToCard(row, options) : row \in PollRow, options \in OptionList}]
    /\ \A q \in Question : cache[q] \notin {NoCard, Garbled} =>
          question[q] # NoRow /\ cache[q] = ToCard(question[q], question_option[q])
    /\ dedup = [k \in DedupKey |-> 0]
    /\ counters = [c \in CounterKey |->
                    IF c \in ForeignKeys THEN NotAHash ELSE EmptyHash]
    /\ JournalInit
    /\ ServiceInit

\* Time passes, but no handler outlives MaxLatency.
Tick ==
    /\ now < MaxNow
    /\ \A r \in InFlight : now - call[r].at < MaxLatency
    /\ now' = now + 1
    /\ UNCHANGED <<question, question_option, vote, cache, dedup, counters,
                   journalVars, serviceVars>>

WorkerStep == WorkerNext /\ UNCHANGED serviceVars

ProcessStep ==
    \/ (ApiShutdown \/ JournalClose \/ ApiStart) /\ UNCHANGED serviceVars
    \/ ApiDrained
    \/ ApiCrash

PathNext ==
    \/ \E r \in Request : StartRequest(r) \/ HandlerNext(r)
    \/ WorkerStep
    \/ ProcessStep
    \/ Tick

PathSpec == PathInit /\ [][PathNext]_pathVars

\* Redis and PostgreSQL answer or break the connection, so a handler and the
\* worker that wait go on; the event loop runs whatever is ready. Nothing is
\* assumed of clients, of time, of crashes, or of anybody restarting the API.
PathFairness ==
    /\ \A r \in Request : WF_pathVars(HandlerNext(r))
    /\ WF_pathVars(WorkerStep)
    /\ WF_pathVars(ApiDrained)
    /\ WF_pathVars(JournalClose /\ UNCHANGED serviceVars)

PathFairSpec == PathSpec /\ PathFairness

-----------------------------------------------------------------------------
\* Safety

\* One viewer is counted once on a question, whatever clicks twice, retries
\* after a 503, comes back near the close of the window or after a restart
\* (the Lua script, and a TTL that outlives every handler).
OneVotePerViewer ==
    \A r, s \in cast : call[r].key = call[s].key => r = s

\* No interleaving of handlers loses or doubles an increment: a shard's field
\* is the number of counted votes of its viewers for that option, and nothing
\* was reserved for a counter that could not be incremented.
CountersMatchVotes ==
    \A c \in CounterKey, option \in OptionKey :
        LET votes == {r \in cast : /\ ResultCounterKey(call[r].key) = c
                                   /\ call[r].option = option}
        IN  IF counters[c] = NotAHash THEN votes = {}
            ELSE CountOf(counters[c], option) = Cardinality(votes)

\* "Either both steps happened, or neither": a viewer is marked as having
\* voted exactly when a vote of the viewer was counted. A 422, a counter key
\* of a wrong type or a failing Redis never costs a viewer the vote.
ReservedIffCounted ==
    \A k \in DedupKey : dedup[k] > 0 <=> \E r \in cast : call[r].key = k

\* The events of counted votes that are on their way to the journal.
AtJournal == {EventOf(r) : r \in {s \in Request : pc[s] = "journal"}}
OnTheWay == AtJournal \cup Range(queue) \cup Range(batch)

\* Through queue, batches, failed INSERTs, shutdown and crash a counted vote
\* is never forgotten: it is on its way, written or lost, and only one of
\* these; and nothing else ever gets on that way.
VotesAccounted ==
    /\ OnTheWay \cup vote \cup lost = {EventOf(r) : r \in cast}
    /\ OnTheWay \cap (vote \cup lost) = {}
    /\ vote \cap lost = {}

\* An answer tells the viewer the truth about the counters: "accepted" only
\* for a counted vote, 409 only to a viewer who has one, and the errors that
\* ask for another try leave the viewer free to try (a 503 does not promise
\* either).
AnswersHonest ==
    \A r \in Request :
        /\ answer[r] = "accepted" => r \in cast
        /\ answer[r] = "already_voted" =>
              \E s \in cast : call[s].key = call[r].key
        /\ answer[r] \in {"not_published", "window_not_started", "window_closed",
                          "invalid_option", "not_found", "internal_error", "form"}
              => r \notin cast

\* A counted vote was sent inside the window of its question and for one of
\* its options, and its dedup key outlives the window by the whole margin.
VotesInWindow ==
    \A r \in cast :
        LET q == QuestionOf(r)
        IN  /\ question[q] # NoRow
            /\ RequireOpenVotingWindow(question[q], call[r].at) = "open"
            /\ call[r].option \in KeysOf[question_option[q]]
            /\ dedup[call[r].key] >= ClosesAt(question[q])
                                        + SECOND * DEDUP_TTL_MARGIN_SECONDS

\* join() waits for exactly the events that are in the queue or in the
\* worker's hands: fewer and close() drops some, more and it hangs.
UnfinishedExact == unfinished = Len(queue) + Len(batch)

\* A process that stops in order takes no vote with it.
ShutdownLosesNothing == [][api' = "down" => lost' = lost]_pathVars

-----------------------------------------------------------------------------
\* Inductive strengthenings of the above, for the proofs

\* What a handler has established when it stands at a call: who asks and when,
\* the card it holds, the gate it has passed.
HandlerOK(r) ==
    /\ pc[r] # "idle" => call[r] \in Call /\ call[r].at <= now
    /\ pc[r] \in {"load_options", "warm", "exists", "eval", "journal"}
          => card[r] \in Card
    /\ pc[r] \in {"exists", "eval", "journal"}
          => RequireOpenVotingWindow(card[r], call[r].at) = "open"
    /\ pc[r] \in {"eval", "journal"} => call[r].kind = "vote"
    /\ r \in cast => pc[r] \in {"eval", "journal", "done"} /\ call[r].kind = "vote"

HandlerInv == \A r \in Request : HandlerOK(r)

TypeInv == PathTypeOK /\ HandlerInv /\ UnfinishedExact

\* Nobody edits a question, so every card in Redis or in a handler is the
\* question as stored.
CachedOK(q) == cache[q] \notin {NoCard, Garbled} =>
    question[q] # NoRow /\ cache[q] = ToCard(question[q], question_option[q])

HeldOK(r) ==
    LET q == QuestionOf(r)
    IN  /\ pc[r] \in {"load_options", "warm", "exists", "eval", "journal"}
              => question[q] # NoRow
        /\ pc[r] = "load_options" => card[r] = ToCard(question[q], NoOptions)
        /\ pc[r] \in {"warm", "exists", "eval", "journal"}
              => card[r] = ToCard(question[q], question_option[q])
        /\ pc[r] \in {"eval", "journal"}
              => call[r].option \in KeysOf[question_option[q]]

CardInv ==
    /\ \A q \in Question : CachedOK(q)
    /\ \A r \in Request : HeldOK(r)

\* No handler is in flight for longer than the environment allows.
LatencyInv == \A r \in InFlight : now <= call[r].at + MaxLatency

\* A vote is handed to the journal only after it was counted, and nobody is
\* answered twice.
CastInv ==
    \A r \in Request :
        /\ pc[r] = "journal" => r \in cast
        /\ pc[r] # "done" => answer[r] = "none"

\* An event waits in one place, once.
DistinctInv ==
    /\ \A i, j \in DOMAIN queue : queue[i] = queue[j] => i = j
    /\ \A i, j \in DOMAIN batch : batch[i] = batch[j] => i = j
    /\ Range(queue) \cap Range(batch) = {}
    /\ AtJournal \cap (Range(queue) \cup Range(batch)) = {}

\* The journal's memory lives and dies with the process and its worker.
ProcessInv ==
    /\ api \in {"closing", "down", "crashed"} => InFlight = {}
    /\ api \in {"down", "crashed"} => worker = "none"
    /\ worker = "none" => queue = <<>> /\ batch = <<>>
    /\ worker = "none" /\ ASYNC => api \in {"down", "crashed"}

-----------------------------------------------------------------------------
\* Refinement: the vote path implements the ballot box.

Box == INSTANCE BallotBox WITH
    Ballot   <- VoteEvent,
    ballots  <- {EventOf(r) : r \in cast},
    receipts <- {EventOf(r) : r \in {s \in cast : answer[s] = "accepted"}},
    audit    <- vote,
    spoiled  <- lost

BallotBoxSpec == Box!Spec

-----------------------------------------------------------------------------
\* Liveness

\* Every request that reaches a handler ends with an answer.
RequestsAnswered == \A r \in Request : (r \in InFlight) ~> (pc[r] = "done")

\* Every counted vote is written to the journal, or is known to be lost to a
\* full queue, a failed INSERT, a lost reply or a crash.
VotesSettle ==
    \A r \in Request :
        (r \in cast) ~> (r \in cast /\ EventOf(r) \in vote \cup lost)

\* close() does not hang in join(): a failed INSERT also calls task_done.
ShutdownCompletes == (api = "draining") ~> (api \in {"down", "crashed"})
=============================================================================
