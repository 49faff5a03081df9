-------------------------- MODULE QuestionService ---------------------------
(***************************************************************************)
(* The admin's requests that change questions (api/admin.py,               *)
(* question/service.py): create, update and delete. A step is what the     *)
(* handler does up to the next statement or command another client can see *)
(* or can get in front of. The statements of the transaction that only its *)
(* own row lock lets happen - the read of the options under FOR UPDATE,    *)
(* and UPDATE, DELETE, INSERT, the read back and COMMIT - are seen by      *)
(* others as one.                                                          *)
(***************************************************************************)
EXTENDS CounterShards

CONSTANTS
    Admin,          \* the HTTP requests of admins, each handled once
    NoJob           \* job of a request not sent yet, or done

VARIABLES
    step,           \* where each admin's handler is
    job,            \* what each request asks for
    held,           \* the card a handler has in hand: current, then updated
    shards,         \* the counter hashes _has_votes has read so far
    reply,          \* HTTP answer to each request, "none" before it
    issued,         \* ids the identity column question.id has given out
    past,           \* history: rows and option lists each question has had
    known           \* history: requests counted when a handler took the lock

adminVars == <<step, job, held, shards, reply, issued, past, known>>

\* QuestionCreate admits draft and published, QuestionUpdate cancelled too;
\* both need at least two options. The id of a created question is the one
\* its INSERT will draw.
Job ==
    [kind : {"create"}, question : Question,
     row : {row \in Row : row.status # "cancelled"},
     options : OptionList \ {NoOptions}]
    \cup [kind : {"update"}, question : Question, row : Row,
          options : OptionList \ {NoOptions}]
    \cup [kind : {"delete"}, question : Question, row : {NoRow},
          options : {NoOptions}]

ASSUME JobSentinelAssumption == NoJob \notin Job

AdminStep == {"idle", "insert", "lock", "votes", "shards", "write", "cache", "done"}

\* "saved" and "deleted" are the successes, the others 404, twice 409, 500,
\* and a connection closed without an answer.
AdminAnswer == {"none", "saved", "deleted", "not_found", "options_locked",
                "delete_forbidden", "internal_error", "connection_lost"}

AdminTypeOK ==
    /\ step \in [Admin -> AdminStep]
    /\ job \in [Admin -> Job \cup {NoJob}]
    /\ held \in [Admin -> Card \cup {NoCard}]
    /\ DOMAIN shards = Admin
    /\ \A a \in Admin : /\ DOMAIN shards[a] = 1 .. Len(shards[a])
                        /\ Len(shards[a]) <= COUNTER_SHARDS
                        /\ \A i \in DOMAIN shards[a] : IsHash(shards[a][i])
    /\ reply \in [Admin -> AdminAnswer]
    /\ issued \subseteq Question
    /\ past \in [Question -> SUBSET (Row \X OptionList)]

\* Ids that are stored were given out, others may have been.
AdminInit ==
    /\ step = [a \in Admin |-> "idle"]
    /\ job = [a \in Admin |-> NoJob]
    /\ held = [a \in Admin |-> NoCard]
    /\ shards = [a \in Admin |-> <<>>]
    /\ reply = [a \in Admin |-> "none"]
    /\ issued = {q \in Question : question[q] # NoRow}
    /\ past = [q \in Question |->
                IF question[q] = NoRow THEN {}
                ELSE {<<question[q], question_option[q]>>}]
    /\ known = [a \in Admin |-> {}]

AdminInFlight == {a \in Admin : step[a] \notin {"idle", "done"}}

Target(a) == job[a].question

\* Mutant: the card is loaded without FOR UPDATE.
NobodyLocks(q) == FALSE

\* Some transaction holds the row lock of question q.
RowLocked(q) ==
    \E a \in Admin : step[a] \in {"votes", "shards", "write"} /\ Target(a) = q

\* INSERT into vote takes FOR KEY SHARE on the question, which waits for
\* FOR UPDATE: a row enters the journal only while its question is unlocked.
JournalWaitsForLock == \A event \in vote' \ vote : ~RowLocked(event.key[1])

GoOn(a, next) ==
    /\ step' = [step EXCEPT ![a] = next]
    /\ UNCHANGED <<job, reply>>

\* The handler ends; its transaction, if any, and its locals with it.
Finish(a, result) ==
    /\ step' = [step EXCEPT ![a] = "done"]
    /\ reply' = [reply EXCEPT ![a] = result]
    /\ job' = [job EXCEPT ![a] = NoJob]
    /\ held' = [held EXCEPT ![a] = NoCard]
    /\ shards' = [shards EXCEPT ![a] = <<>>]
    /\ known' = [known EXCEPT ![a] = {}]

-----------------------------------------------------------------------------
\* The routes

StartJob(a, j) ==
    /\ step[a] = "idle"
    /\ j.kind = "create" => j.question \notin issued
    /\ issued' = IF j.kind = "create" THEN issued \cup {j.question} ELSE issued
    /\ job' = [job EXCEPT ![a] = j]
    /\ step' = [step EXCEPT ![a] = IF j.kind = "create" THEN "insert" ELSE "lock"]
    /\ UNCHANGED <<storeVars, held, shards, reply, past, known>>

-----------------------------------------------------------------------------
\* create_question

\* What a COMMIT of job[a] leaves in the tables.
StoreJob(a) ==
    /\ question' = [question EXCEPT ![Target(a)] = job[a].row]
    /\ question_option' = [question_option EXCEPT ![Target(a)] = job[a].options]
    /\ past' = [past EXCEPT ![Target(a)] = @ \cup {<<job[a].row, job[a].options>>}]

\* The card read back in the transaction goes on to the cache, unless the
\* reply to COMMIT is lost: the question is stored and the handler fails.
Committed(a) ==
    \/ /\ held' = [held EXCEPT ![a] = ToCard(job[a].row, job[a].options)]
       /\ GoOn(a, "cache")
       /\ UNCHANGED <<shards, known>>
    \/ Finish(a, "internal_error")

\* INSERT of the row and of its options, the read back, COMMIT.
InsertQuestion(a) ==
    /\ step[a] = "insert"
    /\ StoreJob(a)
    /\ Committed(a)
    /\ UNCHANGED <<now, vote, cache, dedup, counters, issued>>

-----------------------------------------------------------------------------
\* update_question and delete_question: the transaction

\* The card is about to lose its options, or altogether.
RemovesOptions(a, card) ==
    job[a].kind = "delete" \/ job[a].options # card.options

Refusal(a) ==
    IF job[a].kind = "delete" THEN "delete_forbidden" ELSE "options_locked"

\* _load_existing with for_update: it waits for whoever has the row, takes
\* the lock and returns the card. Then the first decision.
LockQuestion(a, counted) ==
    /\ step[a] = "lock"
    /\ ~RowLocked(Target(a))
    /\ LET row == question[Target(a)]
           card == ToCard(row, question_option[Target(a)])
       IN  \/ row = NoRow /\ Finish(a, "not_found")
           \/ /\ row # NoRow
              /\ job[a].kind = "delete" /\ row.status # "draft"
              /\ Finish(a, "delete_forbidden")
           \/ /\ row # NoRow
              /\ job[a].kind = "delete" => row.status = "draft"
              /\ held' = [held EXCEPT ![a] = card]
              /\ known' = [known EXCEPT ![a] = counted]
              /\ GoOn(a, IF RemovesOptions(a, card) THEN "votes" ELSE "write")
              /\ UNCHANGED shards
    /\ UNCHANGED <<storeVars, issued, past>>

\* _has_votes, first half: EXISTS in the journal.
CheckJournal(a) ==
    /\ step[a] = "votes"
    /\ \/ /\ \E event \in vote : event.key[1] = Target(a)
          /\ Finish(a, Refusal(a))
       \/ /\ \A event \in vote : event.key[1] # Target(a)
          /\ GoOn(a, "shards")
          /\ UNCHANGED <<held, shards, known>>
    /\ UNCHANGED <<storeVars, issued, past>>

\* _has_votes, second half: the shards one by one, the verdict with the last.
\* A key that is no hash makes the pipeline raise.
CheckShard(a) ==
    /\ step[a] = "shards"
    /\ LET found == counters[NextShardKey(Target(a), shards[a])]
           read == Append(shards[a], found)
       IN  \/ found = NotAHash /\ Finish(a, "internal_error")
           \/ /\ found # NotAHash
              /\ ~AllShardsRead(read)
              /\ shards' = [shards EXCEPT ![a] = read]
              /\ UNCHANGED <<step, reply, job, held, known>>
           \/ /\ found # NotAHash
              /\ AllShardsRead(read)
              /\ IF CounterShardsHaveVotes(read) THEN Finish(a, Refusal(a))
                 ELSE /\ GoOn(a, "write")
                      /\ shards' = [shards EXCEPT ![a] = read]
                      /\ UNCHANGED <<held, known>>
    /\ UNCHANGED <<storeVars, issued, past>>

\* Mutant: cache_question inside the transaction, which then fails.
UpdateCacheFirst(a) ==
    /\ step[a] = "write"
    /\ job[a].kind = "update"
    /\ cache' = [cache EXCEPT ![Target(a)] = ToCard(job[a].row, job[a].options)]
    /\ Finish(a, "internal_error")
    /\ UNCHANGED <<now, question, question_option, vote, dedup, counters, issued,
                   past>>

\* UPDATE, the options replaced when they differ, the read back, COMMIT.
UpdateQuestion(a) ==
    /\ step[a] = "write"
    /\ job[a].kind = "update"
    /\ StoreJob(a)
    /\ Committed(a)
    /\ UNCHANGED <<now, vote, cache, dedup, counters, issued>>

\* DELETE, with the options by CASCADE, COMMIT. RESTRICT of the journal would
\* make it fail.
DeleteQuestion(a) ==
    /\ step[a] = "write"
    /\ job[a].kind = "delete"
    /\ \/ /\ \A event \in vote : event.key[1] # Target(a)
          /\ question' = [question EXCEPT ![Target(a)] = NoRow]
          /\ question_option' = [question_option EXCEPT ![Target(a)] = NoOptions]
          /\ \/ GoOn(a, "cache") /\ UNCHANGED <<held, shards, known>>
             \/ Finish(a, "internal_error")
       \/ /\ \E event \in vote : event.key[1] = Target(a)
          /\ Finish(a, "internal_error")
          /\ UNCHANGED <<question, question_option>>
    /\ UNCHANGED <<now, vote, cache, dedup, counters, issued, past>>

-----------------------------------------------------------------------------
\* After the transaction

\* cache_question with the card just written, with no look at the key. The
\* error of a SET whose reply is lost is caught by nobody.
CacheQuestion(a) ==
    /\ step[a] = "cache"
    /\ job[a].kind # "delete"
    /\ cache' = [cache EXCEPT ![Target(a)] = held[a]]
    /\ Finish(a, "saved") \/ Finish(a, "internal_error")
    /\ UNCHANGED <<now, question, question_option, vote, dedup, counters, issued,
                   past>>

\* evict_question
EvictQuestion(a) ==
    /\ step[a] = "cache"
    /\ job[a].kind = "delete"
    /\ cache' = [cache EXCEPT ![Target(a)] = NoCard]
    /\ Finish(a, "deleted") \/ Finish(a, "internal_error")
    /\ UNCHANGED <<now, question, question_option, vote, dedup, counters, issued,
                   past>>

-----------------------------------------------------------------------------
\* Failures of the stores, without effect on them: the transaction, if it is
\* still open, is rolled back. Errors of Redis are caught here no more than
\* those of PostgreSQL.
AdminStoreFails(a) ==
    /\ step[a] \in {"insert", "lock", "votes", "shards", "write", "cache"}
    /\ Finish(a, "internal_error")
    /\ UNCHANGED <<storeVars, issued, past>>

\* counted: the requests counted so far, for the history variable known.
AdminProgress(a, counted) ==
    \/ InsertQuestion(a)
    \/ LockQuestion(a, counted) \/ CheckJournal(a) \/ CheckShard(a)
    \/ UpdateQuestion(a) \/ DeleteQuestion(a)
    \/ CacheQuestion(a) \/ EvictQuestion(a)

\* The process dies: connections break, open transactions are rolled back.
AdminCrash ==
    /\ step' = [a \in Admin |-> IF a \in AdminInFlight THEN "done" ELSE step[a]]
    /\ reply' = [a \in Admin |->
                    IF a \in AdminInFlight THEN "connection_lost" ELSE reply[a]]
    /\ job' = [a \in Admin |-> NoJob]
    /\ held' = [a \in Admin |-> NoCard]
    /\ shards' = [a \in Admin |-> <<>>]
    /\ known' = [a \in Admin |-> {}]
    /\ UNCHANGED <<issued, past>>
=============================================================================
