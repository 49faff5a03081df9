-------------------------- MODULE AdminPathProofs ---------------------------
(***************************************************************************)
(* Proofs about viewers and admins together, for every set of questions,   *)
(* requests and jobs, either mode of the journal, and any number of admins *)
(* at work on one question.                                                *)
(***************************************************************************)
EXTENDS AdminPath, TLAPS

-----------------------------------------------------------------------------
\* Lemmas on the operators of the stores and of the handlers

\* The journal table only gains rows, and only rows of the batch.
LEMMA InsertAdds ==
    ASSUME NEW events \in Seq(Known), NEW table \in SUBSET Known
    PROVE  LET new == InsertOnConflictDoNothing(table, events)
           IN  /\ new \subseteq Known
               /\ table \subseteq new
               /\ \A e \in new \ table : \E i \in DOMAIN events : e = events[i]
    BY DEF InsertOnConflictDoNothing

\* A write of the journal adds rows of stored questions only.
LEMMA WriteAdds ==
    ASSUME NEW events \in Seq(Known), vote \in SUBSET Known, WriteBatch(events)
    PROVE  /\ vote' \subseteq Known
           /\ vote \subseteq vote'
           /\ \A e \in vote' \ vote : question[e.key[1]] # NoRow
<1>1. CASE ForeignKeyHolds(events) /\ vote' = InsertOnConflictDoNothing(vote, events)
    BY <1>1, InsertAdds DEF ForeignKeyHolds
<1>2. CASE UNCHANGED vote
    BY <1>2
<1> QED
    BY <1>1, <1>2 DEF WriteBatch

\* A put adds the event or drops it.
LEMMA EnqueueKnown ==
    ASSUME NEW event \in Known, queue \in Seq(Known), Enqueue(event)
    PROVE  queue' \in Seq(Known)
    BY DEF Enqueue

\* A viewer's handler moves alone.
LEMMA HandlerMoves ==
    ASSUME NEW r \in Request, HandlerNext(r), Total(pc, Request)
    PROVE  /\ Total(pc, Request)'
           /\ pc[r] # "idle"
           /\ \A s \in Request \ {r} : pc'[s] = pc[s]
<1>1. ASSUME NEW location, GoTo(r, location)
      PROVE  Total(pc, Request)' /\ \A s \in Request \ {r} : pc'[s] = pc[s]
    BY <1>1 DEF GoTo, Total
<1>2. ASSUME NEW result, Reply(r, result)
      PROVE  Total(pc, Request)' /\ \A s \in Request \ {r} : pc'[s] = pc[s]
    BY <1>2 DEF Reply, Total
<1>3. ASSUME NEW c, Admit(r, c)
      PROVE  Total(pc, Request)' /\ \A s \in Request \ {r} : pc'[s] = pc[s]
    BY <1>1, <1>2, <1>3 DEF Admit
<1>4. CASE GetCached(r)
    BY <1>1, <1>3, <1>4 DEF GetCached
<1>5. CASE DropGarbled(r)
    BY <1>1, <1>2, <1>5 DEF DropGarbled
<1>6. CASE LoadRow(r)
    BY <1>1, <1>2, <1>6 DEF LoadRow
<1>7. CASE LoadOptions(r)
    BY <1>1, <1>7 DEF LoadOptions
<1>8. CASE WarmCache(r)
    BY <1>2, <1>3, <1>8 DEF WarmCache
<1>9. CASE CheckVoted(r)
    BY <1>2, <1>9 DEF CheckVoted
<1>10. CASE EvalRepeated(r)
    BY <1>2, <1>10 DEF EvalRepeated
<1>11. CASE EvalWrongType(r)
    BY <1>2, <1>11 DEF EvalWrongType
<1>12. CASE EvalFirst(r)
    BY <1>1, <1>2, <1>12 DEF EvalFirst
<1>13. CASE JournalVote(r)
    BY <1>2, <1>13 DEF JournalVote
<1>14. CASE RedisFails(r)
    BY <1>2, <1>14 DEF RedisFails
<1>15. CASE DatabaseFails(r)
    BY <1>2, <1>15 DEF DatabaseFails
<1> QED
    BY <1>4, <1>5, <1>6, <1>7, <1>8, <1>9, <1>10, <1>11, <1>12, <1>13, <1>14,
       <1>15 DEF HandlerNext

\* A viewer's handler touches the tables only with its vote.
LEMMA HandlerKeeps ==
    ASSUME NEW r \in Request, HandlerNext(r)
    PROVE  /\ UNCHANGED <<question, question_option, batch, call>>
           /\ UNCHANGED <<vote, queue>> \/ JournalVote(r)
<1>1. CASE GetCached(r) \/ LoadRow(r) \/ LoadOptions(r) \/ CheckVoted(r)
           \/ EvalRepeated(r) \/ EvalWrongType(r) \/ RedisFails(r) \/ DatabaseFails(r)
    BY <1>1 DEF GetCached, LoadRow, LoadOptions, CheckVoted, EvalRepeated,
                EvalWrongType, RedisFails, DatabaseFails, storeVars, journalVars
<1>2. CASE DropGarbled(r) \/ WarmCache(r) \/ EvalFirst(r)
    BY <1>2 DEF DropGarbled, WarmCache, EvalFirst, journalVars
<1>3. CASE JournalVote(r)
    BY <1>3 DEF JournalVote
<1> QED
    BY <1>1, <1>2, <1>3 DEF HandlerNext

\* What a step of viewers or of the journal does to the journal table.
NewVotesStored == \A e \in vote' \ vote : question[e.key[1]] # NoRow

\* A viewer's handler keeps types, and writes votes on stored questions only.
LEMMA HandlerStep ==
    ASSUME NEW r \in Request, HandlerNext(r), ViewerInv
    PROVE  ViewerInv' /\ NewVotesStored /\ vote \subseteq vote'
<1>1. /\ Total(pc, Request)'
      /\ pc[r] # "idle"
      /\ \A s \in Request \ {r} : pc'[s] = pc[s]
    BY HandlerMoves DEF ViewerInv
<1>2. call' = call /\ batch' = batch
    BY HandlerKeeps
<1>3. \A s \in Request : pc'[s] # "idle" => EventOf(s)' \in Known
    BY <1>1, <1>2 DEF ViewerInv, EventOf
<1>4. CASE UNCHANGED <<vote, queue>>
    BY <1>1, <1>2, <1>3, <1>4 DEF ViewerInv, EventOf, NewVotesStored, Total
<1>5. CASE JournalVote(r)
    <2>1. EventOf(r) \in Known
        BY <1>1 DEF ViewerInv
    <2>2. CASE Enqueue(EventOf(r)) /\ UNCHANGED vote
        <3>1. queue' \in Seq(Known)
            BY <2>1, <2>2, EnqueueKnown DEF ViewerInv
        <3> QED
            BY <1>1, <1>2, <1>3, <2>2, <3>1 DEF ViewerInv, EventOf, NewVotesStored, Total
    <2>3. CASE WriteBatch(<<EventOf(r)>>) /\ UNCHANGED <<queue, unfinished>>
        <3>1. <<EventOf(r)>> \in Seq(Known)
            BY <2>1
        <3>2. /\ vote' \subseteq Known /\ vote \subseteq vote'
              /\ \A e \in vote' \ vote : question[e.key[1]] # NoRow
            BY <2>3, <3>1, WriteAdds DEF ViewerInv
        <3> QED
            BY <1>1, <1>2, <1>3, <2>3, <3>2 DEF ViewerInv, EventOf, NewVotesStored, Total
    <2> QED
        BY <1>5, <2>2, <2>3 DEF JournalVote
<1> QED
    BY <1>4, <1>5, HandlerKeeps

\* So does the worker.
LEMMA WorkerStepKeeps ==
    ASSUME WorkerNext, UNCHANGED serviceVars, ViewerInv
    PROVE  /\ ViewerInv' /\ NewVotesStored /\ vote \subseteq vote'
           /\ UNCHANGED <<question, question_option>>
<1>1. pc' = pc /\ call' = call
    BY DEF serviceVars
<1>2. CASE WorkerTake
    <2>1. queue' \in Seq(Known) /\ batch' \in Seq(Known)
        BY <1>2 DEF WorkerTake, ViewerInv
    <2> QED
        BY <1>1, <1>2, <2>1 DEF WorkerTake, ViewerInv, EventOf, NewVotesStored, storeVars, Total
<1>3. CASE WorkerFlush
    BY <1>1, <1>3 DEF WorkerFlush, ViewerInv, EventOf, NewVotesStored, storeVars, Total
<1>4. CASE WorkerWrite
    <2>1. /\ vote' \subseteq Known /\ vote \subseteq vote'
          /\ \A e \in vote' \ vote : question[e.key[1]] # NoRow
        BY <1>4, WriteAdds DEF WorkerWrite, ViewerInv
    <2>2. batch' \in Seq(Known) /\ queue' = queue
        BY <1>4 DEF WorkerWrite
    <2> QED
        BY <1>1, <1>4, <2>1, <2>2 DEF WorkerWrite, ViewerInv, EventOf, NewVotesStored, Total
<1> QED
    BY <1>2, <1>3, <1>4 DEF WorkerNext

\* Steps of viewers and of the journal respect the locks of the admins.
LEMMA OthersKeep ==
    ASSUME AdminInv, UNCHANGED <<question, question_option, adminVars>>,
           JournalWaitsForLock, ViewerInv', NewVotesStored
    PROVE  AdminInv'
<1>1. HolderInv' /\ DecidedOnStoredCard'
    BY DEF AdminInv, HolderInv, DecidedOnStoredCard, adminVars, Total, Target,
           Holds, Stored
<1>2. JournalInv'
    <2>1. \A event \in vote' : question'[event.key[1]] # NoRow
        BY DEF AdminInv, JournalInv, NewVotesStored
    <2>2. ASSUME NEW a \in Admin, step[a] \in {"shards", "write"},
                 RemovesOptions(a, held[a]), NEW event \in vote'
          PROVE  event.key[1] # Target(a)
        BY <2>2 DEF AdminInv, JournalInv, JournalWaitsForLock, RowLocked
    <2> QED
        BY <2>1, <2>2 DEF JournalInv, adminVars, RemovesOptions, Target
<1> QED
    BY <1>1, <1>2 DEF AdminInv

-----------------------------------------------------------------------------
\* Steps of the admins

\* A handler that ends moves alone.
LEMMA FinishMoves ==
    ASSUME NEW a \in Admin, NEW result, HolderInv, Finish(a, result)
    PROVE  /\ Total(step, Admin)' /\ Total(job, Admin)' /\ Total(held, Admin)'
           /\ step'[a] = "done"
           /\ \A b \in Admin \ {a} :
                 step'[b] = step[b] /\ job'[b] = job[b] /\ held'[b] = held[b]
    BY DEF HolderInv, Finish, Total

\* A handler that goes on moves alone and keeps its job.
LEMMA GoOnMoves ==
    ASSUME NEW a \in Admin, NEW next, HolderInv, GoOn(a, next)
    PROVE  /\ Total(step, Admin)' /\ Total(job, Admin)'
           /\ step'[a] = next
           /\ job' = job
           /\ \A b \in Admin \ {a} : step'[b] = step[b]
    BY DEF HolderInv, GoOn, Total

\* The tables, and what of the viewers the invariant speaks of, stay as they are.
TablesStay == UNCHANGED <<question, question_option, vote>>
ViewersStay == UNCHANGED <<queue, batch, pc, call>>

\* A handler that ends without a change of the tables disturbs nobody.
LEMMA EndsKeep ==
    ASSUME AdminInv, NEW a \in Admin, NEW result, Finish(a, result),
           TablesStay, ViewersStay, UNCHANGED issued
    PROVE  AdminInv'
<1>1. /\ Total(step, Admin)' /\ Total(job, Admin)' /\ Total(held, Admin)'
      /\ step'[a] = "done"
      /\ \A b \in Admin \ {a} :
            step'[b] = step[b] /\ job'[b] = job[b] /\ held'[b] = held[b]
    BY FinishMoves DEF AdminInv
<1>2. HolderInv'
    BY <1>1 DEF AdminInv, HolderInv, TablesStay, Total, Target, Holds
<1>3. DecidedOnStoredCard'
    BY <1>1 DEF AdminInv, DecidedOnStoredCard, TablesStay, Target, Stored
<1>4. JournalInv'
    BY <1>1 DEF AdminInv, JournalInv, TablesStay, Target, RemovesOptions
<1>5. ViewerInv'
    BY DEF AdminInv, ViewerInv, EventOf, TablesStay, ViewersStay, Total
<1> QED
    BY <1>2, <1>3, <1>4, <1>5 DEF AdminInv

\* A new job of a handler has an id that nobody else is about to insert.
LEMMA StartKeeps ==
    ASSUME AdminInv, NEW a \in Admin, NEW j \in Job, StartJob(a, j), ViewersStay
    PROVE  AdminInv'
<1>1. /\ step[a] = "idle"
      /\ j.kind = "create" => j.question \notin issued
      /\ issued' = IF j.kind = "create" THEN issued \cup {j.question} ELSE issued
      /\ job' = [job EXCEPT ![a] = j]
      /\ step' = [step EXCEPT ![a] = IF j.kind = "create" THEN "insert" ELSE "lock"]
      /\ held' = held /\ TablesStay
    BY DEF StartJob, storeVars, TablesStay
<1>2. j.question \in Question /\ (j.kind # "delete" => j.row # NoRow)
    BY SentinelAssumption DEF Job
<1>3. /\ Total(step, Admin)' /\ Total(job, Admin)' /\ Total(held, Admin)'
      /\ job'[a] = j
      /\ step'[a] = IF j.kind = "create" THEN "insert" ELSE "lock"
      /\ \A b \in Admin \ {a} : step'[b] = step[b] /\ job'[b] = job[b]
    BY <1>1 DEF AdminInv, HolderInv, Total
<1>4. ~Holds(a)' /\ step'[a] \notin {"votes", "shards", "write"}
    BY <1>3 DEF Holds
<1>5. HolderInv'
    <2>1. \A q \in Question : question'[q] # NoRow => q \in issued'
        BY <1>1 DEF AdminInv, HolderInv, TablesStay
    <2>2. ASSUME NEW b \in Admin
          PROVE  /\ step'[b] \notin {"idle", "done"} =>
                       /\ Target(b)' \in Question
                       /\ job'[b].kind # "delete" => job'[b].row # NoRow
                 /\ step'[b] = "insert" =>
                       /\ job'[b].kind = "create"
                       /\ Target(b)' \in issued'
                       /\ question'[Target(b)'] = NoRow
                 /\ Holds(b)' /\ job'[b].kind = "delete" => held'[b].status = "draft"
        <3>1. CASE b = a
            BY <1>1, <1>2, <1>3, <1>4, <3>1
               DEF AdminInv, HolderInv, TablesStay, Target
        <3>2. CASE b # a
            BY <1>1, <1>3, <3>2 DEF AdminInv, HolderInv, TablesStay, Target, Holds
        <3> QED
            BY <3>1, <3>2
    <2>3. ASSUME NEW b \in Admin, NEW c \in Admin, step'[b] = "insert",
                 step'[c] = "insert", Target(b)' = Target(c)'
          PROVE  b = c
        BY <1>1, <1>3, <2>3 DEF AdminInv, HolderInv, Target
    <2>4. ASSUME NEW b \in Admin, NEW c \in Admin, Holds(b)', Holds(c)',
                 Target(b)' = Target(c)'
          PROVE  b = c
        BY <1>3, <1>4, <2>4 DEF AdminInv, HolderInv, Target, Holds
    <2>5. Total(question, Question)' /\ Total(question_option, Question)'
        BY <1>1 DEF AdminInv, HolderInv, TablesStay, Total
    <2> QED
        BY <1>3, <2>1, <2>2, <2>3, <2>4, <2>5 DEF HolderInv
<1>6. DecidedOnStoredCard'
    BY <1>1, <1>3, <1>4 DEF AdminInv, DecidedOnStoredCard, TablesStay, Target, Stored
<1>7. JournalInv'
    BY <1>1, <1>3, <1>4 DEF AdminInv, JournalInv, TablesStay, Target, RemovesOptions
<1>8. ViewerInv'
    BY <1>1 DEF AdminInv, ViewerInv, EventOf, TablesStay, ViewersStay, Total
<1> QED
    BY <1>5, <1>6, <1>7, <1>8 DEF AdminInv

\* A handler goes on to a step without a change of the tables: it need only
\* account for what it knows there.
LEMMA GoesOnKeeps ==
    ASSUME AdminInv, NEW a \in Admin, NEW next, GoOn(a, next), next # "insert",
           step[a] \notin {"idle", "done"},
           TablesStay, ViewersStay, UNCHANGED issued,
           Total(held, Admin)',
           \A b \in Admin \ {a} : held'[b] = held[b],
           next \in {"votes", "shards", "write"} =>
              /\ question[Target(a)] # NoRow /\ held'[a] = Stored(Target(a))
              /\ job[a].kind = "delete" => held'[a].status = "draft"
              /\ \A b \in Admin \ {a} : Holds(b) => Target(b) # Target(a),
           next \in {"shards", "write"} /\ RemovesOptions(a, held'[a]) =>
              \A event \in vote : event.key[1] # Target(a)
    PROVE  AdminInv'
<1>1. /\ Total(step, Admin)' /\ Total(job, Admin)'
      /\ step'[a] = next
      /\ job' = job
      /\ \A b \in Admin \ {a} : step'[b] = step[b]
    BY GoOnMoves DEF AdminInv
<1>2. HolderInv'
    BY <1>1 DEF AdminInv, HolderInv, TablesStay, Total, Target, Holds
<1>3. DecidedOnStoredCard'
    BY <1>1 DEF AdminInv, DecidedOnStoredCard, TablesStay, Target, Stored
<1>4. JournalInv'
    BY <1>1 DEF AdminInv, JournalInv, TablesStay, Target, RemovesOptions
<1>5. ViewerInv'
    BY DEF AdminInv, ViewerInv, EventOf, TablesStay, ViewersStay, Total
<1> QED
    BY <1>2, <1>3, <1>4, <1>5 DEF AdminInv

\* A COMMIT touches one question, which nobody else is inserting or holding.
LEMMA WriteKeeps ==
    ASSUME AdminInv, NEW a \in Admin, NEW row, NEW options,
           step[a] \notin {"idle", "done"},
           question' = [question EXCEPT ![Target(a)] = row],
           question_option' = [question_option EXCEPT ![Target(a)] = options],
           vote' = vote, ViewersStay, UNCHANGED issued,
           \A b \in Admin \ {a} : step[b] = "insert" \/ Holds(b) => Target(b) # Target(a),
           row = NoRow => \A event \in vote : event.key[1] # Target(a),
           row # NoRow => Target(a) \in issued,
           \/ /\ GoOn(a, "cache")
              /\ Total(held, Admin)'
              /\ \A b \in Admin \ {a} : held'[b] = held[b]
           \/ Finish(a, "internal_error")
    PROVE  AdminInv'
<1>1. /\ Total(step, Admin)' /\ Total(job, Admin)' /\ Total(held, Admin)'
      /\ step'[a] = "done" \/ (step'[a] = "cache" /\ job'[a] = job[a])
      /\ \A b \in Admin \ {a} :
            step'[b] = step[b] /\ job'[b] = job[b] /\ held'[b] = held[b]
    BY GoOnMoves, FinishMoves DEF AdminInv
<1>2. Target(a) \in Question
    BY DEF AdminInv, HolderInv
<1>3. /\ Total(question, Question)' /\ Total(question_option, Question)'
      /\ question'[Target(a)] = row
      /\ \A q \in Question \ {Target(a)} :
            question'[q] = question[q] /\ question_option'[q] = question_option[q]
    BY <1>2 DEF AdminInv, HolderInv, Total
<1>4. HolderInv'
    BY <1>1, <1>2, <1>3 DEF AdminInv, HolderInv, Target, Holds
<1>5. DecidedOnStoredCard'
    <2> SUFFICES ASSUME NEW b \in Admin, step'[b] \in {"votes", "shards", "write"}
                 PROVE  question'[Target(b)'] # NoRow /\ held'[b] = Stored(Target(b))'
        BY DEF DecidedOnStoredCard
    <2>1. b # a /\ step[b] = step'[b] /\ Target(b)' = Target(b) /\ held'[b] = held[b]
        BY <1>1 DEF Target
    <2>2. Target(b) \in Question \ {Target(a)}
        BY <2>1 DEF AdminInv, HolderInv, Holds
    <2> QED
        BY <1>3, <2>1, <2>2 DEF AdminInv, DecidedOnStoredCard, Stored
<1>6. JournalInv'
    <2>1. \A event \in vote' : question'[event.key[1]] # NoRow
        <3> SUFFICES ASSUME NEW event \in vote PROVE question'[event.key[1]] # NoRow
            OBVIOUS
        <3>1. event.key[1] \in Question /\ question[event.key[1]] # NoRow
            BY DEF AdminInv, ViewerInv, JournalInv, Known, DedupKey
        <3> QED
            BY <1>3, <3>1
    <2> QED
        BY <1>1, <2>1 DEF AdminInv, JournalInv, Target, RemovesOptions
<1>7. ViewerInv'
    BY DEF AdminInv, ViewerInv, EventOf, ViewersStay, Total
<1> QED
    BY <1>4, <1>5, <1>6, <1>7 DEF AdminInv

\* create_question
LEMMA InsertKeeps ==
    ASSUME AdminInv, NEW a \in Admin, InsertQuestion(a), ViewersStay
    PROVE  AdminInv'
<1>1. /\ step[a] = "insert"
      /\ question' = [question EXCEPT ![Target(a)] = job[a].row]
      /\ question_option' = [question_option EXCEPT ![Target(a)] = job[a].options]
      /\ vote' = vote /\ UNCHANGED issued
    BY DEF InsertQuestion, StoreJob
<1>2. \/ GoOn(a, "cache") /\ Total(held, Admin)' /\ \A b \in Admin \ {a} : held'[b] = held[b]
      \/ Finish(a, "internal_error")
    BY DEF InsertQuestion, Committed, AdminInv, HolderInv, Total
<1>3. Target(a) \in issued /\ question[Target(a)] = NoRow /\ job[a].row # NoRow
    BY <1>1 DEF AdminInv, HolderInv
<1>4. \A b \in Admin \ {a} : step[b] = "insert" \/ Holds(b) => Target(b) # Target(a)
    BY <1>1, <1>3 DEF AdminInv, HolderInv, DecidedOnStoredCard, Holds
<1> QED
    BY <1>1, <1>2, <1>3, <1>4, WriteKeeps

\* _load_existing: the new holder of the lock has the stored card in hand.
LEMMA LockKeeps ==
    ASSUME AdminInv, NEW a \in Admin, NEW counted, LockQuestion(a, counted), ViewersStay
    PROVE  AdminInv'
<1> DEFINE row == question[Target(a)]
           locked == Stored(Target(a))
<1>1. step[a] = "lock" /\ ~RowLocked(Target(a)) /\ TablesStay /\ UNCHANGED issued
    BY DEF LockQuestion, TablesStay, storeVars
<1>2. CASE \E result : Finish(a, result)
    BY <1>1, <1>2, EndsKeep
<1>3. CASE /\ row # NoRow
           /\ job[a].kind = "delete" => row.status = "draft"
           /\ held' = [held EXCEPT ![a] = locked]
           /\ GoOn(a, IF RemovesOptions(a, locked) THEN "votes" ELSE "write")
    <2> DEFINE next == IF RemovesOptions(a, locked) THEN "votes" ELSE "write"
    <2>1. Total(held, Admin)' /\ held'[a] = locked /\ \A b \in Admin \ {a} : held'[b] = held[b]
        BY <1>3 DEF AdminInv, HolderInv, Total
    <2>2. job[a].kind = "delete" => held'[a].status = "draft"
        BY <1>3, <2>1 DEF Stored, ToCard
    <2>3. \A b \in Admin \ {a} : Holds(b) => Target(b) # Target(a)
        BY <1>1 DEF RowLocked, Holds
    <2>4. next \in {"shards", "write"} => ~RemovesOptions(a, held'[a])
        BY <2>1
    <2>5. GoOn(a, next) /\ next # "insert" /\ step[a] \notin {"idle", "done"}
        BY <1>1, <1>3
    <2> QED
        BY <1>1, <1>3, <2>1, <2>2, <2>3, <2>4, <2>5, GoesOnKeeps
<1> QED
    BY <1>2, <1>3 DEF LockQuestion, Stored

\* _has_votes: a handler that goes on to the shards found the journal empty.
LEMMA CheckJournalKeeps ==
    ASSUME AdminInv, NEW a \in Admin, CheckJournal(a), ViewersStay
    PROVE  AdminInv'
<1>1. step[a] = "votes" /\ TablesStay /\ UNCHANGED issued
    BY DEF CheckJournal, TablesStay, storeVars
<1>2. CASE Finish(a, Refusal(a))
    BY <1>1, <1>2, EndsKeep
<1>3. CASE /\ \A event \in vote : event.key[1] # Target(a)
           /\ GoOn(a, "shards") /\ UNCHANGED <<held, shards, known>>
    <2>1. Total(held, Admin)' /\ held' = held
        BY <1>3 DEF AdminInv, HolderInv, Total
    <2>2. /\ question[Target(a)] # NoRow /\ held'[a] = Stored(Target(a))
          /\ job[a].kind = "delete" => held'[a].status = "draft"
          /\ \A b \in Admin \ {a} : Holds(b) => Target(b) # Target(a)
        BY <1>1, <2>1 DEF AdminInv, DecidedOnStoredCard, HolderInv, Holds
    <2> QED
        BY <1>1, <1>3, <2>1, <2>2, GoesOnKeeps
<1> QED
    BY <1>2, <1>3 DEF CheckJournal

\* What a handler knows of its question it still knows after the shards.
LEMMA CheckShardKeeps ==
    ASSUME AdminInv, NEW a \in Admin, CheckShard(a), ViewersStay
    PROVE  AdminInv'
<1>1. step[a] = "shards" /\ TablesStay /\ UNCHANGED issued
    BY DEF CheckShard, TablesStay, storeVars
<1>2. CASE \E result : Finish(a, result)
    BY <1>1, <1>2, EndsKeep
<1>3. CASE UNCHANGED <<step, job, held>>
    BY <1>1, <1>3
       DEF AdminInv, HolderInv, DecidedOnStoredCard, JournalInv, ViewerInv, EventOf, TablesStay,
           ViewersStay, Total, Target, Holds, Stored, RemovesOptions
<1>4. CASE GoOn(a, "write") /\ UNCHANGED <<held, known>>
    <2>1. Total(held, Admin)' /\ held' = held
        BY <1>4 DEF AdminInv, HolderInv, Total
    <2>2. /\ question[Target(a)] # NoRow /\ held'[a] = Stored(Target(a))
          /\ job[a].kind = "delete" => held'[a].status = "draft"
          /\ \A b \in Admin \ {a} : Holds(b) => Target(b) # Target(a)
        BY <1>1, <2>1 DEF AdminInv, DecidedOnStoredCard, HolderInv, Holds
    <2>3. RemovesOptions(a, held'[a]) => \A event \in vote : event.key[1] # Target(a)
        BY <1>1, <2>1 DEF AdminInv, JournalInv
    <2> QED
        BY <1>1, <1>4, <2>1, <2>2, <2>3, GoesOnKeeps
<1> QED
    BY <1>2, <1>3, <1>4 DEF CheckShard

\* The question of a holder is stored, and nobody else's.
LEMMA HolderAlone ==
    ASSUME AdminInv, NEW a \in Admin, step[a] = "write"
    PROVE  /\ Target(a) \in Question
           /\ question[Target(a)] # NoRow /\ Target(a) \in issued
           /\ held[a] = Stored(Target(a))
           /\ \A b \in Admin \ {a} :
                 step[b] = "insert" \/ Holds(b) => Target(b) # Target(a)
    BY DEF AdminInv, HolderInv, DecidedOnStoredCard, Holds

\* update_question
LEMMA UpdateKeeps ==
    ASSUME AdminInv, NEW a \in Admin, UpdateQuestion(a), ViewersStay
    PROVE  AdminInv'
<1>1. /\ step[a] = "write" /\ job[a].kind = "update"
      /\ question' = [question EXCEPT ![Target(a)] = job[a].row]
      /\ question_option' = [question_option EXCEPT ![Target(a)] = job[a].options]
      /\ vote' = vote /\ UNCHANGED issued
    BY DEF UpdateQuestion, StoreJob
<1>2. \/ GoOn(a, "cache") /\ Total(held, Admin)' /\ \A b \in Admin \ {a} : held'[b] = held[b]
      \/ Finish(a, "internal_error")
    BY DEF UpdateQuestion, Committed, AdminInv, HolderInv, Total
<1>3. job[a].row # NoRow
    BY <1>1 DEF AdminInv, HolderInv
<1> QED
    BY <1>1, <1>2, <1>3, HolderAlone, WriteKeeps

\* delete_question
LEMMA DeleteKeeps ==
    ASSUME AdminInv, NEW a \in Admin, DeleteQuestion(a), ViewersStay
    PROVE  AdminInv'
<1>1. step[a] = "write" /\ vote' = vote /\ UNCHANGED issued
    BY DEF DeleteQuestion
<1>2. CASE /\ \A event \in vote : event.key[1] # Target(a)
           /\ question' = [question EXCEPT ![Target(a)] = NoRow]
           /\ question_option' = [question_option EXCEPT ![Target(a)] = NoOptions]
           /\ \/ GoOn(a, "cache") /\ UNCHANGED <<held, shards, known>>
              \/ Finish(a, "internal_error")
    <2>1. \/ /\ GoOn(a, "cache")
             /\ Total(held, Admin)'
             /\ \A b \in Admin \ {a} : held'[b] = held[b]
          \/ Finish(a, "internal_error")
        BY <1>2 DEF AdminInv, HolderInv, Total
    <2> QED
        BY <1>1, <1>2, <2>1, HolderAlone, WriteKeeps
<1>3. CASE Finish(a, "internal_error") /\ UNCHANGED <<question, question_option>>
    BY <1>1, <1>3, EndsKeep DEF TablesStay
<1> QED
    BY <1>2, <1>3 DEF DeleteQuestion

\* Every step of an admin's handler.
LEMMA AdminKeeps ==
    ASSUME AdminInv, NEW a \in Admin, NEW counted,
           AdminProgress(a, counted) \/ AdminStoreFails(a), ViewersStay
    PROVE  AdminInv'
<1>1. CASE CacheQuestion(a) \/ EvictQuestion(a) \/ AdminStoreFails(a)
    <2>1. TablesStay /\ UNCHANGED issued /\ \E result : Finish(a, result)
        BY <1>1 DEF CacheQuestion, EvictQuestion, AdminStoreFails, TablesStay, storeVars
    <2> QED
        BY <2>1, EndsKeep
<1> QED
    BY <1>1, InsertKeeps, LockKeeps, CheckJournalKeeps, CheckShardKeeps, UpdateKeeps,
       DeleteKeeps DEF AdminProgress

-----------------------------------------------------------------------------
\* The invariant

\* A request that arrives.
LEMMA StartRequestKeeps ==
    ASSUME NEW r \in Request, StartRequest(r), ViewerInv
    PROVE  ViewerInv' /\ TablesStay
<1>1. PICK q \in Question, v \in Viewer, option \in OptionKey \cup {NoOption} :
        call' = [call EXCEPT ![r] =
                    [kind   |-> IF option = NoOption THEN "form" ELSE "vote",
                     key    |-> DedupHash(q, v),
                     option |-> option,
                     at     |-> now]]
    BY DEF StartRequest
<1>2. TablesStay /\ UNCHANGED <<queue, batch>> /\ pc' = [pc EXCEPT ![r] = "get"]
    BY DEF StartRequest, TablesStay, storeVars, journalVars, GoTo
<1> DEFINE new == [kind   |-> IF option = NoOption THEN "form" ELSE "vote",
                   key    |-> DedupHash(q, v),
                   option |-> option,
                   at     |-> now]
<1>3. [key |-> new.key, option |-> new.option] \in Known
    BY DEF Known, DedupKey, DedupHash
<1> HIDE DEF new
<1>4. /\ Total(pc, Request)' /\ Total(call, Request)'
      /\ call'[r] = new
      /\ \A s \in Request \ {r} : call'[s] = call[s] /\ pc'[s] = pc[s]
    BY <1>1, <1>2 DEF ViewerInv, EventOf, Total, new
<1>5. \A s \in Request : pc'[s] # "idle" => EventOf(s)' \in Known
    BY <1>3, <1>4 DEF ViewerInv, EventOf
<1> QED
    BY <1>2, <1>4, <1>5 DEF ViewerInv, EventOf, TablesStay

\* The process dies: nobody holds a lock any more.
LEMMA CrashKeeps ==
    ASSUME AdminInv, ApiCrash, AdminCrash
    PROVE  AdminInv'
<1>1. /\ TablesStay /\ UNCHANGED <<call, issued>>
      /\ queue' = <<>> /\ batch' = <<>>
    BY DEF ApiCrash, JournalCrash, AdminCrash, TablesStay, storeVars
<1>2. \A r \in Request : pc'[r] # "idle" => pc[r] # "idle"
    BY DEF ApiCrash, InFlight
<1>3. \A a \in Admin : step'[a] \in {"idle", "done"}
    BY DEF AdminCrash, AdminInFlight
<1>4. ViewerInv'
    <2>1. Total(pc, Request)' /\ Total(call, Request)'
        BY <1>1 DEF ApiCrash, Total, AdminInv, ViewerInv
    <2> QED
        BY <1>1, <1>2, <2>1 DEF AdminInv, ViewerInv, EventOf, TablesStay
<1>5. HolderInv'
    <2>1. Total(step, Admin)' /\ Total(job, Admin)' /\ Total(held, Admin)'
        BY DEF AdminCrash, Total
    <2> QED
        BY <1>1, <1>3, <2>1 DEF AdminInv, HolderInv, TablesStay, Total, Holds
<1>6. DecidedOnStoredCard' /\ JournalInv'
    BY <1>1, <1>3 DEF AdminInv, DecidedOnStoredCard, JournalInv, TablesStay
<1> QED
    BY <1>4, <1>5, <1>6 DEF AdminInv

\* Locks, ids, the cards in the admins' hands and the journal fit together in
\* every state: the inductive form of the theorems below.
THEOREM AdminInvariant == Spec => []AdminInv
<1>1. Init => AdminInv
    <2> SUFFICES ASSUME Init PROVE AdminInv
        OBVIOUS
    <2>1. ViewerInv
        BY DEF Init, PathInit, JournalInit, ServiceInit, ViewerInv, EventOf, Total
    <2>2. /\ Total(question, Question) /\ Total(question_option, Question)
          /\ \A a \in Admin : step[a] = "idle"
          /\ Total(step, Admin) /\ Total(job, Admin) /\ Total(held, Admin)
          /\ \A q \in Question : question[q] # NoRow => q \in issued
          /\ vote = {}
        BY DEF Init, PathInit, AdminInit, Total
    <2> QED
        BY <2>1, <2>2 DEF AdminInv, HolderInv, DecidedOnStoredCard, JournalInv, Holds
<1>2. AdminInv /\ [Next]_vars => AdminInv'
    <2> SUFFICES ASSUME AdminInv, [Next]_vars PROVE AdminInv'
        OBVIOUS
    <2>1. ASSUME UNCHANGED adminVars, TablesStay, ViewerInv' PROVE AdminInv'
        BY <2>1
           DEF AdminInv, HolderInv, DecidedOnStoredCard, JournalInv, adminVars, TablesStay,
               Total, Target, Holds, Stored, RemovesOptions
    <2>2. ASSUME NEW r \in Request, StartRequest(r), UNCHANGED adminVars PROVE AdminInv'
        BY <2>1, <2>2, StartRequestKeeps DEF AdminInv
    <2>3. ASSUME NEW r \in Request, ViewerStep(r) PROVE AdminInv'
        BY <2>3, HandlerStep, HandlerKeeps, OthersKeep DEF ViewerStep, AdminInv
    <2>4. ASSUME NEW a \in Admin, NEW j \in AdminJob, StartJob(a, j),
                 UNCHANGED <<journalVars, serviceVars>>
          PROVE  AdminInv'
        BY <2>4, AdminJobAssumption, StartKeeps DEF ViewersStay, journalVars, serviceVars
    <2>5. ASSUME NEW a \in Admin, AdminGoesOn(a) PROVE AdminInv'
        BY <2>5, AdminKeeps DEF AdminGoesOn, ViewersStay, journalVars, serviceVars
    <2>6. ASSUME NEW a \in Admin, AdminStoreFails(a), UNCHANGED <<journalVars, serviceVars>>
          PROVE  AdminInv'
        BY <2>6, AdminKeeps DEF ViewersStay, journalVars, serviceVars
    <2>7. CASE JournalStep
        BY <2>7, WorkerStepKeeps, OthersKeep DEF JournalStep, AdminInv
    <2>8. CASE ApiCrash /\ AdminCrash
        BY <2>8, CrashKeeps
    <2>9. CASE Tick /\ UNCHANGED adminVars
        <3>1. TablesStay /\ ViewersStay
            BY <2>9 DEF Tick, journalVars, serviceVars, TablesStay, ViewersStay
        <3>2. ViewerInv'
            BY <3>1 DEF AdminInv, ViewerInv, EventOf, TablesStay, ViewersStay, Total
        <3> QED
            BY <2>1, <2>9, <3>1, <3>2
    <2>10. CASE UNCHANGED vars
        <3>1. TablesStay /\ ViewersStay /\ UNCHANGED adminVars
            BY <2>10 DEF vars, TablesStay, ViewersStay, storeVars, journalVars, serviceVars
        <3>2. ViewerInv'
            BY <3>1 DEF AdminInv, ViewerInv, EventOf, TablesStay, ViewersStay, Total
        <3> QED
            BY <2>1, <3>1, <3>2
    <2> QED
        BY <2>2, <2>3, <2>4, <2>5, <2>6, <2>7, <2>8, <2>9, <2>10 DEF Next
<1> QED
    BY <1>1, <1>2, PTL DEF Spec

\* No admin decides on a card that somebody else has changed since.
THEOREM DecisionsHold == Spec => []DecidedOnStoredCard
<1>1. AdminInv => DecidedOnStoredCard
    BY DEF AdminInv
<1> QED
    BY <1>1, AdminInvariant, PTL

\* Only a COMMIT of an admin changes the tables of questions.
LEMMA TablesChange ==
    ASSUME AdminInv, [Next]_vars
    PROVE  \/ UNCHANGED <<question, question_option>>
           \/ \E a \in Admin :
                 InsertQuestion(a) \/ UpdateQuestion(a) \/ DeleteQuestion(a)
<1> DEFINE Kept == UNCHANGED <<question, question_option>>
<1>1. ASSUME NEW r \in Request, StartRequest(r) PROVE Kept
    BY <1>1 DEF StartRequest, storeVars
<1>2. ASSUME NEW r \in Request, ViewerStep(r) PROVE Kept
    BY <1>2, HandlerKeeps DEF ViewerStep
<1>3. ASSUME NEW a \in Admin, NEW j \in AdminJob, StartJob(a, j) PROVE Kept
    BY <1>3 DEF StartJob, storeVars
<1>4. ASSUME NEW a \in Admin, AdminGoesOn(a)
      PROVE  Kept \/ InsertQuestion(a) \/ UpdateQuestion(a) \/ DeleteQuestion(a)
    BY <1>4 DEF AdminGoesOn, AdminProgress, LockQuestion, CheckJournal, CheckShard,
                CacheQuestion, EvictQuestion, storeVars
<1>5. ASSUME NEW a \in Admin, AdminStoreFails(a) PROVE Kept
    BY <1>5 DEF AdminStoreFails, storeVars
<1>6. CASE JournalStep
    BY <1>6, WorkerStepKeeps DEF JournalStep, AdminInv
<1>7. CASE ApiCrash \/ Tick \/ UNCHANGED vars
    BY <1>7 DEF ApiCrash, JournalCrash, Tick, vars, storeVars
<1> QED
    BY <1>1, <1>2, <1>3, <1>4, <1>5, <1>6, <1>7 DEF Next

\* What a COMMIT of an admin does to a question: it inserts what was not there,
\* replaces options of which the journal holds no vote, or deletes a draft of
\* which it holds none.
LEMMA CommitChanges ==
    ASSUME AdminInv, NEW a \in Admin,
           InsertQuestion(a) \/ UpdateQuestion(a) \/ DeleteQuestion(a),
           NEW q \in Question
    PROVE  /\ question[q] # NoRow /\ question'[q] = NoRow =>
                 question[q].status = "draft" /\ \A event \in vote : event.key[1] # q
           /\ question[q] # NoRow /\ question_option'[q] # question_option[q] =>
                 \A event \in vote : event.key[1] # q
<1>1. Total(question, Question) /\ Total(question_option, Question)
    BY DEF AdminInv, HolderInv
<1>2. CASE InsertQuestion(a)
    <2>1. /\ question[Target(a)] = NoRow
          /\ question' = [question EXCEPT ![Target(a)] = job[a].row]
          /\ question_option' = [question_option EXCEPT ![Target(a)] = job[a].options]
        BY <1>2 DEF InsertQuestion, StoreJob, AdminInv, HolderInv
    <2> QED
        BY <1>1, <2>1 DEF Total
<1>3. CASE UpdateQuestion(a)
    <2>1. /\ step[a] = "write" /\ job[a].row # NoRow
          /\ question' = [question EXCEPT ![Target(a)] = job[a].row]
          /\ question_option' = [question_option EXCEPT ![Target(a)] = job[a].options]
        BY <1>3 DEF UpdateQuestion, StoreJob, AdminInv, HolderInv
    <2>2. held[a] = Stored(Target(a))
        BY <2>1, HolderAlone
    <2>3. ASSUME job[a].options # question_option[Target(a)]
          PROVE  \A event \in vote : event.key[1] # Target(a)
        BY <2>1, <2>2, <2>3 DEF AdminInv, JournalInv, RemovesOptions, Stored, ToCard
    <2> QED
        BY <1>1, <2>1, <2>3 DEF Total
<1>4. CASE DeleteQuestion(a)
    <2>1. step[a] = "write" /\ job[a].kind = "delete"
        BY <1>4 DEF DeleteQuestion
    <2>2. question[Target(a)].status = "draft"
        <3>1. held[a].status = "draft"
            BY <2>1 DEF AdminInv, HolderInv, Holds
        <3>2. held[a] = Stored(Target(a))
            BY <2>1, HolderAlone
        <3> QED
            BY <3>1, <3>2 DEF Stored, ToCard
    <2>3. \A event \in vote : event.key[1] # Target(a)
        BY <2>1 DEF AdminInv, JournalInv, RemovesOptions
    <2>4. \A p \in Question \ {Target(a)} :
             question'[p] = question[p] /\ question_option'[p] = question_option[p]
        BY <1>1, <1>4 DEF DeleteQuestion, Total
    <2> QED
        BY <2>2, <2>3, <2>4
<1> QED
    BY <1>2, <1>3, <1>4

\* A question with a vote in the journal keeps its options and its row.
THEOREM JournalledStay == Spec => JournalledOptionsStay
<1> DEFINE Stays == \A event \in vote : LET q == event.key[1]
                                        IN  question_option'[q] = question_option[q]
                                            /\ question'[q] # NoRow
<1>1. AdminInv /\ [Next]_vars => Stays
    <2> SUFFICES ASSUME AdminInv, [Next]_vars, NEW event \in vote
                 PROVE  /\ question_option'[event.key[1]] = question_option[event.key[1]]
                        /\ question'[event.key[1]] # NoRow
        OBVIOUS
    <2>1. event.key[1] \in Question /\ question[event.key[1]] # NoRow
        BY DEF AdminInv, ViewerInv, JournalInv, Known, DedupKey
    <2> QED
        BY <2>1, TablesChange, CommitChanges
<1> QED
    BY <1>1, AdminInvariant, PTL DEF Spec, JournalledOptionsStay

\* Whatever another admin is doing, only a draft disappears.
THEOREM DraftsOnly == Spec => OnlyDraftsDeleted
<1>1. AdminInv /\ [Next]_vars =>
        \A q \in Question : question[q] # NoRow /\ question'[q] = NoRow
                               => question[q].status = "draft"
    <2> SUFFICES ASSUME AdminInv, [Next]_vars, NEW q \in Question, question[q] # NoRow,
                        question'[q] = NoRow
                 PROVE  question[q].status = "draft"
        OBVIOUS
    <2> QED
        BY TablesChange, CommitChanges
<1> QED
    BY <1>1, AdminInvariant, PTL DEF Spec, OnlyDraftsDeleted
=============================================================================
