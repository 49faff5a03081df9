---------------------------- MODULE VoteService -----------------------------
(***************************************************************************)
(* The viewer's two requests (api/public.py, vote/service.py): open the    *)
(* form, and vote. A handler is a coroutine; a step of the model is what   *)
(* it does from one await to the next, with the command or the statement   *)
(* it waits for, so handlers interleave at every await. pc[r] names the    *)
(* call that handler r makes next.                                         *)
(***************************************************************************)
EXTENDS VoteJournal

CONSTANTS
    Request,    \* the HTTP requests of viewers, each handled once
    NoCall,     \* call of a request not yet sent
    NoOption    \* option of a request for the form

VARIABLES
    pc,         \* where each handler is
    call,       \* what each request asks, and when its handler started
    card,       \* local variable question of each handler
    answer,     \* HTTP answer to each request, "none" before it
    cast        \* history: requests whose vote the Lua script counted

serviceVars == <<pc, call, card, answer, cast>>

\* The request for a form or a vote, with the dedup key of its viewer and
\* question and the time current_time its handler took first of all.
Call == [kind : {"form"}, key : DedupKey, option : {NoOption}, at : Nat]
          \cup [kind : {"vote"}, key : DedupKey, option : OptionKey, at : Nat]

ASSUME CallSentinelAssumption == NoCall \notin Call

Location == {"idle", "get", "drop", "load_row", "load_options", "warm",
             "exists", "eval", "journal", "done"}

\* "form" and "accepted" are the successes, the others the errors: 409, 403,
\* 403, 410, 422, 404, 503, 500, and a connection closed without an answer.
Answer == {"none", "form", "accepted", "already_voted", "not_published",
           "window_not_started", "window_closed", "invalid_option",
           "not_found", "unavailable", "internal_error", "connection_lost"}

ServiceTypeOK ==
    /\ pc \in [Request -> Location]
    /\ call \in [Request -> Call \cup {NoCall}]
    /\ card \in [Request -> Card \cup {NoCard}]
    /\ answer \in [Request -> Answer]
    /\ cast \subseteq Request

ServiceInit ==
    /\ pc = [r \in Request |-> "idle"]
    /\ call = [r \in Request |-> NoCall]
    /\ card = [r \in Request |-> NoCard]
    /\ answer = [r \in Request |-> "none"]
    /\ cast = {}

InFlight == {r \in Request : pc[r] \notin {"idle", "done"}}

QuestionOf(r) == call[r].key[1]
EventOf(r) == [key |-> call[r].key, option |-> call[r].option]

\* Handler r goes on to the next call.
GoTo(r, location) ==
    /\ pc' = [pc EXCEPT ![r] = location]
    /\ UNCHANGED answer

\* Handler r ends.
Reply(r, result) ==
    /\ pc' = [pc EXCEPT ![r] = "done"]
    /\ answer' = [answer EXCEPT ![r] = result]

-----------------------------------------------------------------------------
\* accept_vote and get_public_question up to _load_question

\* The handler starts: it fixes current_time and the viewer's dedup key.
StartRequest(r) ==
    /\ api = "up"
    /\ pc[r] = "idle"
    /\ \E q \in Question, v \in Viewer, option \in OptionKey \cup {NoOption} :
          call' = [call EXCEPT ![r] =
                    [kind   |-> IF option = NoOption THEN "form" ELSE "vote",
                     key    |-> DedupHash(q, v),
                     option |-> option,
                     at     |-> now]]
    /\ GoTo(r, "get")
    /\ UNCHANGED <<storeVars, journalVars, card, cast>>

\* Mutant: the option is not looked up in the card.
AdmitAnyOption(r, c) ==
    LET verdict == RequireOpenVotingWindow(c, call[r].at)
    IN  /\ card' = [card EXCEPT ![r] = c]
        /\ IF verdict # "open" THEN Reply(r, verdict)
           ELSE GoTo(r, IF call[r].kind = "form" THEN "exists" ELSE "eval")

\* The rest of _vote_context and, for a vote, the check of the option: no
\* await in between, so it belongs to the step that brings card c.
Admit(r, c) ==
    LET verdict == RequireOpenVotingWindow(c, call[r].at)
    IN  /\ card' = [card EXCEPT ![r] = c]
        /\ \/ /\ verdict # "open"
              /\ Reply(r, verdict)
           \/ /\ verdict = "open"
              /\ call[r].kind = "form"
              /\ GoTo(r, "exists")
           \/ /\ verdict = "open"
              /\ call[r].kind = "vote"
              /\ IF call[r].option \in KeysOf[c.options]
                 THEN GoTo(r, "eval")
                 ELSE Reply(r, "invalid_option")

\* get_cached_question: GET of the card, and its parsing.
GetCached(r) ==
    /\ pc[r] = "get"
    /\ LET found == cache[QuestionOf(r)]
       IN  \/ /\ found \notin {NoCard, Garbled}
              /\ Admit(r, found)
           \/ /\ found = NoCard
              /\ GoTo(r, "load_row")
              /\ UNCHANGED card
           \/ /\ found = Garbled
              /\ GoTo(r, "drop")
              /\ UNCHANGED card
    /\ UNCHANGED <<storeVars, journalVars, call, cast>>

\* Mutant: the broken card is left where it is and read again.
KeepGarbled(r) ==
    /\ pc[r] = "drop"
    /\ GoTo(r, "get")
    /\ UNCHANGED <<storeVars, journalVars, call, card, cast>>

\* DELETE of a card that does not parse: of whatever is there by now.
DropGarbled(r) ==
    /\ pc[r] = "drop"
    /\ cache' = [cache EXCEPT ![QuestionOf(r)] = NoCard]
    /\ GoTo(r, "load_row") \/ Reply(r, "unavailable")
    /\ UNCHANGED <<now, question, question_option, vote, dedup, counters,
                   journalVars, call, card, cast>>

\* get_question, first SELECT of _load_one: the row.
LoadRow(r) ==
    /\ pc[r] = "load_row"
    /\ LET row == question[QuestionOf(r)]
       IN  \/ /\ row = NoRow
              /\ Reply(r, "not_found")
              /\ UNCHANGED card
           \/ /\ row # NoRow
              /\ card' = [card EXCEPT ![r] = ToCard(row, NoOptions)]
              /\ GoTo(r, "load_options")
    /\ UNCHANGED <<storeVars, journalVars, call, cast>>

\* Second SELECT of _load_one, by a snapshot of its own (READ COMMITTED).
LoadOptions(r) ==
    /\ pc[r] = "load_options"
    /\ card' = [card EXCEPT ![r] = ToCard(card[r], question_option[QuestionOf(r)])]
    /\ GoTo(r, "warm")
    /\ UNCHANGED <<storeVars, journalVars, call, cast>>

\* cache_question: SET of the card just read, with no look at the key. The
\* second disjunct is a SET whose reply is lost.
WarmCache(r) ==
    /\ pc[r] = "warm"
    /\ cache' = [cache EXCEPT ![QuestionOf(r)] = card[r]]
    /\ \/ Admit(r, card[r])
       \/ Reply(r, "unavailable") /\ UNCHANGED card
    /\ UNCHANGED <<now, question, question_option, vote, dedup, counters,
                   journalVars, call, cast>>

-----------------------------------------------------------------------------
\* The end of get_public_question

CheckVoted(r) ==
    /\ pc[r] = "exists"
    /\ Reply(r, IF DedupKeyExists(call[r].key) THEN "already_voted" ELSE "form")
    /\ UNCHANGED <<storeVars, journalVars, call, card, cast>>

-----------------------------------------------------------------------------
\* The end of accept_vote

\* Mutant: the key lives for the rest of the window only.
ExpiryWithoutMargin(r) ==
    now + SECOND * CeilSeconds(ClosesAt(card[r]) - call[r].at)

\* The instant at which SET EX of the script lets the dedup key expire: the
\* TTL was computed for current_time, and runs from now.
DedupExpiry(r) == now + SECOND * DedupTtl(ClosesAt(card[r]), call[r].at)

\* Mutant: the script's 0 is taken for success.
EvalRepeatedAccepted(r) ==
    /\ pc[r] = "eval"
    /\ DedupKeyExists(call[r].key)
    /\ GoTo(r, "journal")
    /\ UNCHANGED <<storeVars, journalVars, call, card, cast>>

\* The Lua script finds the viewer's dedup key.
EvalRepeated(r) ==
    /\ pc[r] = "eval"
    /\ DedupKeyExists(call[r].key)
    /\ Reply(r, "already_voted")
    /\ UNCHANGED <<storeVars, journalVars, call, card, cast>>

\* Mutant: SET before the check of TYPE.
EvalWrongTypeReserved(r) ==
    /\ pc[r] = "eval"
    /\ ~DedupKeyExists(call[r].key)
    /\ counters[ResultCounterKey(call[r].key)] = NotAHash
    /\ dedup' = [dedup EXCEPT ![call[r].key] = DedupExpiry(r)]
    /\ Reply(r, "unavailable")
    /\ UNCHANGED <<now, question, question_option, vote, cache, counters,
                   journalVars, call, card, cast>>

\* The counter key is not a hash: the script fails before it writes anything.
EvalWrongType(r) ==
    /\ pc[r] = "eval"
    /\ ~DedupKeyExists(call[r].key)
    /\ counters[ResultCounterKey(call[r].key)] = NotAHash
    /\ Reply(r, "unavailable")
    /\ UNCHANGED <<storeVars, journalVars, call, card, cast>>

\* Mutant: SET and HINCRBY with no EXISTS in the same script.
IncrementCounter(r) ==
    LET shard == ResultCounterKey(call[r].key)
    IN  /\ counters[shard] # NotAHash
        /\ dedup' = [dedup EXCEPT ![call[r].key] = DedupExpiry(r)]
        /\ counters' = [counters EXCEPT ![shard] =
                            HIncrBy(counters[shard], call[r].option)]
        /\ cast' = cast \cup {r}

\* The two writes of the script, SET EX of the dedup key and HINCRBY of the
\* option, which no other client sees apart.
ReserveViewerAndIncrementCounter(r) ==
    LET shard == ResultCounterKey(call[r].key)
    IN  /\ ~DedupKeyExists(call[r].key)
        /\ counters[shard] # NotAHash
        /\ dedup' = [dedup EXCEPT ![call[r].key] = DedupExpiry(r)]
        /\ counters' = [counters EXCEPT ![shard] =
                            HIncrBy(counters[shard], call[r].option)]
        /\ cast' = cast \cup {r}

\* The viewer's first vote is counted. When the reply is lost, the handler
\* answers 503, or the Redis client has sent the script again (redis-py 6 and
\* later do by default); the event is then never made.
EvalFirst(r) ==
    /\ pc[r] = "eval"
    /\ ReserveViewerAndIncrementCounter(r)
    /\ \/ GoTo(r, "journal") /\ UNCHANGED lost
       \/ /\ GoTo(r, "eval") \/ Reply(r, "unavailable")
          /\ lost' = lost \cup {EventOf(r)}
    /\ UNCHANGED <<now, question, question_option, vote, cache, api, queue,
                   unfinished, worker, batch, call, card>>

\* The event goes to the queue, or is written at once; the answer is the same
\* whether or not that works. The viewer may be gone before it arrives.
JournalVote(r) ==
    /\ pc[r] = "journal"
    /\ \/ ASYNC /\ Enqueue(EventOf(r)) /\ UNCHANGED vote
       \/ ~ASYNC /\ WriteBatch(<<EventOf(r)>>) /\ UNCHANGED <<queue, unfinished>>
    /\ Reply(r, "accepted") \/ Reply(r, "connection_lost")
    /\ UNCHANGED <<now, question, question_option, cache, dedup, counters,
                   api, worker, batch, call, card, cast>>

-----------------------------------------------------------------------------
\* Failures of the stores, without effect on them

\* unavailable_on_redis_error: any error of Redis is a 503.
RedisFails(r) ==
    /\ pc[r] \in {"get", "drop", "warm", "exists", "eval"}
    /\ Reply(r, "unavailable")
    /\ UNCHANGED <<storeVars, journalVars, call, card, cast>>

\* Nothing catches an error of PostgreSQL on the way to the card.
DatabaseFails(r) ==
    /\ pc[r] \in {"load_row", "load_options"}
    /\ Reply(r, "internal_error")
    /\ UNCHANGED <<storeVars, journalVars, call, card, cast>>

HandlerNext(r) ==
    \/ GetCached(r) \/ DropGarbled(r) \/ LoadRow(r) \/ LoadOptions(r)
    \/ WarmCache(r) \/ CheckVoted(r)
    \/ EvalRepeated(r) \/ EvalWrongType(r) \/ EvalFirst(r) \/ JournalVote(r)
    \/ RedisFails(r) \/ DatabaseFails(r)

-----------------------------------------------------------------------------
\* The process dies: open connections break, and with the journal's memory go
\* the votes whose handlers had not yet handed them over.
ApiCrash ==
    /\ JournalCrash
    /\ pc' = [r \in Request |-> IF r \in InFlight THEN "done" ELSE pc[r]]
    /\ answer' = [r \in Request |->
                    IF r \in InFlight THEN "connection_lost" ELSE answer[r]]
    /\ lost' = lost \cup Range(queue) \cup Range(batch)
                    \cup {EventOf(r) : r \in {s \in Request : pc[s] = "journal"}}
    /\ UNCHANGED <<storeVars, call, card, cast>>

\* The last open request of a draining process is answered: the lifespan's
\* finally runs.
ApiDrained ==
    /\ api = "draining"
    /\ InFlight = {}
    /\ api' = "closing"
    /\ UNCHANGED <<storeVars, queue, unfinished, worker, batch, lost, serviceVars>>
=============================================================================
