------------------------- MODULE AdminVotesProofs ---------------------------
(***************************************************************************)
(* Votes under the admins' hands. An admin's handler which finds no votes  *)
(* overlooks none: the shards are read one by one while viewers vote, and  *)
(* still every vote that was counted when the row lock was taken is found. *)
(* No vote is counted but by committed cards, whoever edits, deletes and   *)
(* caches what meanwhile. And viewers and admins together keep the types   *)
(* and, as long as edits do not move a broadcast by more than the margin   *)
(* of the dedup keys, the promises of the ballot box.                      *)
(***************************************************************************)
EXTENDS AdminPathProofs, BallotBoxProofs

-----------------------------------------------------------------------------
\* The viewers' side: every counted vote has its mark

\* HINCRBY leaves a mark of the option and takes none away.
LEMMA HIncrByMarks ==
    ASSUME NEW hash, IsHash(hash), NEW option \in OptionKey
    PROVE  /\ IsHash(HIncrBy(hash, option))
           /\ HasVote(HIncrBy(hash, option), option)
           /\ \A other : HasVote(hash, other) => HasVote(HIncrBy(hash, option), other)
<1> DEFINE after == HIncrBy(hash, option)
<1>1. CountOf(hash, option) \in Nat
    BY DEF CountOf, IsHash
<1>2. /\ DOMAIN after = DOMAIN hash \cup {option}
      /\ after[option] = CountOf(hash, option) + 1
      /\ \A field \in DOMAIN hash \ {option} : after[field] = hash[field]
    BY DEF HIncrBy
<1>3. IsHash(after)
    <2>1. DOMAIN after \subseteq OptionKey
        BY <1>2 DEF IsHash
    <2>2. \A field \in DOMAIN hash \cup {option} :
             (IF field = option THEN CountOf(hash, option) + 1 ELSE hash[field]) \in Nat
        BY <1>1 DEF IsHash
    <2>3. after \in [DOMAIN hash \cup {option} -> Nat]
        BY <2>2 DEF HIncrBy
    <2> QED
        BY <1>2, <2>1, <2>3 DEF IsHash
<1>4. HasVote(after, option)
    BY <1>1, <1>2, <1>3 DEF HasVote
<1>5. ASSUME NEW other, HasVote(hash, other) PROVE HasVote(after, other)
    <2>1. CASE other = option
        BY <1>4, <2>1
    <2>2. CASE other # option
        BY <1>2, <1>3, <1>5, <2>2 DEF HasVote
    <2> QED
        BY <2>1, <2>2
<1> QED
    BY <1>3, <1>4, <1>5

\* Where a handler's step leads, and which step counts a vote.
LEMMA HandlerLands ==
    ASSUME NEW r \in Request, HandlerNext(r), Total(pc, Request)
    PROVE  /\ pc'[r] # "idle"
           /\ pc'[r] \in {"eval", "journal"} => call[r].kind = "vote" \/ pc[r] = "eval"
           /\ UNCHANGED <<counters, cast>> \/ EvalFirst(r)
<1> DEFINE Lands == /\ pc'[r] # "idle"
                    /\ pc'[r] \in {"eval", "journal"} =>
                          call[r].kind = "vote" \/ pc[r] = "eval"
<1>1. ASSUME NEW location, GoTo(r, location) PROVE pc'[r] = location
    BY <1>1 DEF GoTo, Total
<1>2. ASSUME NEW result, Reply(r, result) PROVE Lands
    BY <1>2 DEF Reply, Total
<1>3. ASSUME NEW c, Admit(r, c) PROVE Lands
    BY <1>1, <1>2, <1>3 DEF Admit
<1>4. CASE GetCached(r)
    BY <1>1, <1>3, <1>4 DEF GetCached, storeVars
<1>5. CASE DropGarbled(r)
    BY <1>1, <1>2, <1>5 DEF DropGarbled
<1>6. CASE LoadRow(r)
    BY <1>1, <1>2, <1>6 DEF LoadRow, storeVars
<1>7. CASE LoadOptions(r)
    BY <1>1, <1>7 DEF LoadOptions, storeVars
<1>8. CASE WarmCache(r)
    BY <1>2, <1>3, <1>8 DEF WarmCache
<1>9. CASE CheckVoted(r) \/ EvalRepeated(r) \/ EvalWrongType(r) \/ RedisFails(r)
           \/ DatabaseFails(r)
    BY <1>2, <1>9 DEF CheckVoted, EvalRepeated, EvalWrongType, RedisFails, DatabaseFails,
                      storeVars
<1>10. CASE EvalFirst(r)
    BY <1>1, <1>2, <1>10 DEF EvalFirst
<1>11. CASE JournalVote(r)
    BY <1>2, <1>11 DEF JournalVote
<1> QED
    BY <1>4, <1>5, <1>6, <1>7, <1>8, <1>9, <1>10, <1>11 DEF HandlerNext

\* Counted or not, a request keeps what it asks; counted once, counted for ever.
LEMMA HandlerVotes ==
    ASSUME NEW r \in Request, HandlerNext(r), ViewerInv, VotingInv
    PROVE  VotingInv' /\ cast \subseteq cast' /\ call' = call
<1>1. /\ pc[r] # "idle"
      /\ \A s \in Request \ {r} : pc'[s] = pc[s]
    BY HandlerMoves DEF ViewerInv
<1>2. /\ pc'[r] # "idle"
      /\ pc'[r] \in {"eval", "journal"} => call[r].kind = "vote" \/ pc[r] = "eval"
      /\ UNCHANGED <<counters, cast>> \/ EvalFirst(r)
    BY HandlerLands DEF ViewerInv
<1>3. call' = call
    BY HandlerKeeps
<1>4. cast \subseteq cast' /\ cast' \subseteq cast \cup {r}
    BY <1>2 DEF EvalFirst, ReserveViewerAndIncrementCounter
<1> QED
    BY <1>1, <1>2, <1>3, <1>4 DEF VotingInv

\* A key of a counter shard.
LEMMA ShardOfKey ==
    ASSUME NEW k \in DedupKey
    PROVE  /\ CounterShard(k) \in 0 .. COUNTER_SHARDS - 1
           /\ ResultCounterKey(k) \in CounterKey
<1>1. Crc32[k] \in Nat /\ COUNTER_SHARDS \in Nat \ {0}
    BY Crc32Assumption, ShardsAssumption
<1>2. CounterShard(k) \in 0 .. COUNTER_SHARDS - 1
    BY <1>1 DEF CounterShard
<1>3. k[1] \in Question
    BY DEF DedupKey
<1> QED
    BY <1>2, <1>3 DEF ResultCounterKey, CounterKey, Shard

\* The script leaves the mark of the vote it counts, and those of all others.
LEMMA HandlerMarks ==
    ASSUME NEW r \in Request, HandlerNext(r), ViewerInv, VotingInv, MarksInv
    PROVE  MarksInv'
<1>1. call' = call
    BY HandlerKeeps
<1>2. CASE UNCHANGED <<counters, cast>>
    BY <1>1, <1>2 DEF MarksInv, Total
<1>3. CASE EvalFirst(r)
    <2> DEFINE c == ResultCounterKey(call[r].key)
               after == HIncrBy(counters[c], call[r].option)
    <2>1. /\ pc[r] = "eval"
          /\ counters[c] # NotAHash
          /\ counters' = [counters EXCEPT ![c] = after]
          /\ cast' = cast \cup {r}
        BY <1>3 DEF EvalFirst, ReserveViewerAndIncrementCounter
    <2>2. call[r].option \in OptionKey
        BY <2>1 DEF VotingInv
    <2>3. c \in CounterKey
        <3>1. call[r].key \in DedupKey
            BY <2>1 DEF ViewerInv, EventOf, Known
        <3> QED
            BY <3>1, ShardOfKey
    <2>4. IsHash(counters[c])
        BY <2>1, <2>3 DEF MarksInv
    <2>5. /\ IsHash(after)
          /\ HasVote(after, call[r].option)
          /\ \A other : HasVote(counters[c], other) => HasVote(after, other)
        BY <2>2, <2>4, HIncrByMarks
    <2> HIDE DEF after
    <2>6. /\ Total(counters', CounterKey)
          /\ counters'[c] = after
          /\ \A d \in CounterKey \ {c} : counters'[d] = counters[d]
        BY <2>1, <2>3 DEF MarksInv, Total
    <2>7. \A d \in CounterKey : counters'[d] = NotAHash \/ IsHash(counters'[d])
        BY <2>5, <2>6 DEF MarksInv
    <2>8. ASSUME NEW s \in cast'
          PROVE  HasVote(counters'[ResultCounterKey(call[s].key)], call[s].option)
        <3>1. CASE s = r
            BY <2>5, <2>6, <3>1
        <3>2. CASE s \in cast
            <4>1. HasVote(counters[ResultCounterKey(call[s].key)], call[s].option)
                BY <3>2 DEF MarksInv
            <4>2. ResultCounterKey(call[s].key) \in CounterKey
                <5>1. call[s].key \in DedupKey
                    BY <3>2 DEF VotingInv, ViewerInv, EventOf, Known
                <5> QED
                    BY <5>1, ShardOfKey
            <4> QED
                BY <2>5, <2>6, <4>1, <4>2
        <3> QED
            BY <2>1, <2>8, <3>1, <3>2
    <2> QED
        BY <1>1, <2>6, <2>7, <2>8 DEF MarksInv
<1> QED
    BY <1>2, <1>3, HandlerLands DEF ViewerInv

-----------------------------------------------------------------------------
\* The admins' side

\* Votes that are counted meanwhile do not disturb what an admin has read.
LEMMA ReadsUnderVotes ==
    ASSUME ReadInv, UNCHANGED <<adminVars, call>>, cast \subseteq cast'
    PROVE  ReadInv'
<1>1. ASSUME NEW a \in Admin PROVE ReadOK(a)'
    BY DEF ReadInv, ReadOK, adminVars, Holds, Counted, Target, QuestionOf, RemovesOptions
<1> QED
    BY <1>1 DEF ReadInv, adminVars, Total

\* A step of one admin disturbs no other.
LEMMA OthersRead ==
    ASSUME ReadInv, UNCHANGED <<call, cast>>, NEW a \in Admin,
           Total(shards', Admin), Total(known', Admin), ReadOK(a)',
           \A b \in Admin \ {a} :
              /\ step'[b] = step[b] /\ job'[b] = job[b] /\ held'[b] = held[b]
              /\ shards'[b] = shards[b] /\ known'[b] = known[b]
    PROVE  ReadInv'
<1>1. ASSUME NEW b \in Admin \ {a} PROVE ReadOK(b)'
    BY DEF ReadInv, ReadOK, Holds, Counted, Target, QuestionOf, RemovesOptions
<1> QED
    BY <1>1 DEF ReadInv, Total

\* A handler that ends has no reading to account for.
LEMMA EndsRead ==
    ASSUME AdminInv, ReadInv, UNCHANGED <<call, cast>>, NEW a \in Admin, NEW result,
           Finish(a, result)
    PROVE  ReadInv'
<1>1. /\ step'[a] = "done"
      /\ \A b \in Admin \ {a} :
            step'[b] = step[b] /\ job'[b] = job[b] /\ held'[b] = held[b]
    BY FinishMoves DEF AdminInv
<1>2. /\ Total(shards', Admin) /\ Total(known', Admin)
      /\ \A b \in Admin \ {a} : shards'[b] = shards[b] /\ known'[b] = known[b]
    BY DEF Finish, ReadInv, Total
<1>3. ReadOK(a)'
    BY <1>1 DEF ReadOK, Holds
<1> QED
    BY <1>1, <1>2, <1>3, OthersRead

\* A handler that goes on accounts for its own reading only.
LEMMA GoesOnReads ==
    ASSUME AdminInv, ReadInv, UNCHANGED <<call, cast>>, NEW a \in Admin, NEW next,
           GoOn(a, next), Total(shards', Admin), Total(known', Admin),
           \A b \in Admin \ {a} :
              held'[b] = held[b] /\ shards'[b] = shards[b] /\ known'[b] = known[b],
           step'[a] = next /\ job' = job => ReadOK(a)'
    PROVE  ReadInv'
<1>1. step'[a] = next /\ job' = job /\ \A b \in Admin \ {a} : step'[b] = step[b]
    BY GoOnMoves DEF AdminInv
<1> QED
    BY <1>1, OthersRead

\* The lock is taken: what was counted before is known, nothing is read yet.
LEMMA LockReads ==
    ASSUME AdminInv, ReadInv, UNCHANGED <<call, cast>>, NEW a \in Admin,
           LockQuestion(a, Counted(a))
    PROVE  ReadInv'
<1> DEFINE locked == ToCard(question[Target(a)], question_option[Target(a)])
           next == IF RemovesOptions(a, locked) THEN "votes" ELSE "write"
<1>1. CASE \E result : Finish(a, result)
    BY <1>1, EndsRead
<1>2. CASE /\ held' = [held EXCEPT ![a] = locked]
           /\ known' = [known EXCEPT ![a] = Counted(a)]
           /\ GoOn(a, next)
           /\ UNCHANGED shards
    <2>1. /\ Total(shards', Admin) /\ Total(known', Admin)
          /\ shards' = shards /\ held'[a] = locked /\ known'[a] = Counted(a)
          /\ \A b \in Admin \ {a} :
                held'[b] = held[b] /\ shards'[b] = shards[b] /\ known'[b] = known[b]
        BY <1>2 DEF AdminInv, HolderInv, ReadInv, Total
    <2>2. shards[a] = <<>>
        BY DEF LockQuestion, ReadInv, ReadOK
    <2>3. ASSUME step'[a] = next, job' = job PROVE ReadOK(a)'
        <3>1. Counted(a)' = Counted(a)
            BY <2>3 DEF Counted, Target, QuestionOf
        <3>2. step'[a] = "write" => ~RemovesOptions(a, held[a])'
            BY <2>1, <2>3 DEF RemovesOptions
        <3>3. step'[a] \in {"votes", "write"}
            BY <2>3
        <3> QED
            BY <2>1, <2>2, <3>1, <3>2, <3>3 DEF ReadOK
    <2> HIDE DEF next, locked
    <2> QED
        BY <1>2, <2>1, <2>3, GoesOnReads
<1> QED
    BY <1>1, <1>2 DEF LockQuestion

\* The journal is empty: the shards come next, from the first.
LEMMA CheckJournalReads ==
    ASSUME AdminInv, VotingInv, ReadInv, UNCHANGED <<call, cast>>, NEW a \in Admin,
           CheckJournal(a)
    PROVE  ReadInv'
<1>1. CASE Finish(a, Refusal(a))
    BY <1>1, EndsRead
<1>2. CASE GoOn(a, "shards") /\ UNCHANGED <<held, shards, known>>
    <2>1. step[a] = "votes" /\ shards[a] = <<>> /\ known[a] \subseteq Counted(a)
        BY DEF CheckJournal, ReadInv, ReadOK, Holds
    <2>2. ASSUME step'[a] = "shards", job' = job PROVE ReadOK(a)'
        <3>1. Counted(a)' = Counted(a)
            BY <2>2 DEF Counted, Target, QuestionOf
        <3>2. /\ shards'[a] \in Seq(Range(shards'[a]))
              /\ Len(shards'[a]) = 0
            BY <1>2, <2>1
        <3>3. ASSUME NEW r \in known'[a]
              PROVE  ~(CounterShard(call[r].key) + 1 <= Len(shards'[a]))
            <4>1. call[r].key \in DedupKey
                BY <1>2, <2>1, <3>3 DEF Counted, VotingInv, AdminInv, ViewerInv, EventOf, Known
            <4> QED
                BY <3>2, <4>1, ShardOfKey
        <3> QED
            BY <1>2, <2>1, <2>2, <3>1, <3>2, <3>3, ShardsAssumption DEF ReadOK
    <2> QED
        BY <1>2, <2>2, GoesOnReads DEF ReadInv
<1> QED
    BY <1>1, <1>2 DEF CheckJournal

\* The next shard: if no vote is found in any, none was there to be known.
LEMMA CheckShardReads ==
    ASSUME AdminInv, VotingInv, MarksInv, ReadInv, UNCHANGED <<call, cast>>,
           NEW a \in Admin, CheckShard(a)
    PROVE  ReadInv'
<1> DEFINE found == counters[NextShardKey(Target(a), shards[a])]
           read == Append(shards[a], found)
           Marked == \A r \in known[a] :
                        LET i == CounterShard(call[r].key) + 1
                        IN  i <= Len(read) => HasVote(read[i], call[r].option)
<1>1. step[a] = "shards"
    BY DEF CheckShard
<1>2. /\ shards[a] \in Seq(Range(shards[a]))
      /\ Len(shards[a]) < COUNTER_SHARDS
      /\ known[a] \subseteq Counted(a)
    BY <1>1 DEF ReadInv, ReadOK, Holds
<1>3. ASSUME NEW r \in known[a]
      PROVE  /\ r \in cast /\ call[r].key \in DedupKey /\ call[r].key[1] = Target(a)
             /\ CounterShard(call[r].key) \in 0 .. COUNTER_SHARDS - 1
    <2>1. r \in cast /\ call[r].key[1] = Target(a)
        BY <1>2 DEF Counted, QuestionOf
    <2>2. call[r].key \in DedupKey
        BY <2>1 DEF VotingInv, AdminInv, ViewerInv, EventOf, Known
    <2> QED
        BY <2>1, <2>2, ShardOfKey
<1>4. /\ read \in Seq(Range(shards[a]) \cup {found})
      /\ Len(read) = Len(shards[a]) + 1
      /\ read[Len(shards[a]) + 1] = found
      /\ \A i \in 1 .. Len(shards[a]) : read[i] = shards[a][i]
    <2>1. shards[a] \in Seq(Range(shards[a]) \cup {found})
        BY <1>2
    <2> HIDE DEF found
    <2> QED
        BY <2>1
<1>5. Marked
    <2> SUFFICES ASSUME NEW r \in known[a], CounterShard(call[r].key) + 1 <= Len(read)
                 PROVE  HasVote(read[CounterShard(call[r].key) + 1], call[r].option)
        OBVIOUS
    <2> DEFINE i == CounterShard(call[r].key) + 1
    <2>1. CASE i <= Len(shards[a])
        <3>1. HasVote(shards[a][i], call[r].option)
            BY <1>1, <2>1 DEF ReadInv, ReadOK
        <3>2. i \in 1 .. Len(shards[a])
            BY <1>3, <2>1, <1>2, ShardsAssumption
        <3> QED
            BY <1>4, <3>1, <3>2
    <2>2. CASE ~(i <= Len(shards[a]))
        <3>1. CounterShard(call[r].key) = Len(shards[a])
            <4>1. Len(shards[a]) \in Nat /\ CounterShard(call[r].key) \in Nat
                BY <1>2, <1>3
            <4> HIDE DEF read
            <4> QED
                BY <1>4, <2>2, <4>1
        <3>2. found = counters[ResultCounterKey(call[r].key)]
            BY <1>3, <3>1 DEF NextShardKey, ResultCounterKey
        <3>3. HasVote(found, call[r].option)
            BY <1>3, <3>2 DEF MarksInv
        <3> QED
            BY <1>4, <3>1, <3>3
    <2> QED
        BY <2>1, <2>2
<1>6. read \in Seq(Range(read))
    <2> HIDE DEF read
    <2> QED
        BY <1>4 DEF Range
<1> HIDE DEF found, read
<1>7. CASE \E result : Finish(a, result)
    BY <1>7, EndsRead
<1>8. CASE /\ ~AllShardsRead(read)
           /\ shards' = [shards EXCEPT ![a] = read]
           /\ UNCHANGED <<step, reply, job, held, known>>
    <2>1. /\ Total(shards', Admin) /\ Total(known', Admin)
          /\ shards'[a] = read /\ \A b \in Admin \ {a} : shards'[b] = shards[b]
        BY <1>8 DEF ReadInv, Total
    <2>2. Len(read) < COUNTER_SHARDS
        BY <1>2, <1>4, <1>8, ShardsAssumption DEF AllShardsRead
    <2>3. Counted(a)' = Counted(a)
        BY <1>8 DEF Counted, Target, QuestionOf
    <2>4. ReadOK(a)'
        BY <1>1, <1>2, <1>5, <1>6, <1>8, <2>1, <2>2, <2>3 DEF ReadOK
    <2> QED
        BY <1>8, <2>1, <2>4, OthersRead
<1>9. CASE /\ AllShardsRead(read)
           /\ ~CounterShardsHaveVotes(read)
           /\ GoOn(a, "write")
           /\ shards' = [shards EXCEPT ![a] = read]
           /\ UNCHANGED <<held, known>>
    <2>1. known[a] = {}
        <3> SUFFICES ASSUME NEW r \in known[a] PROVE FALSE
            OBVIOUS
        <3> DEFINE i == CounterShard(call[r].key) + 1
        <3>1. i \in 1 .. Len(read)
            BY <1>3, <1>9, ShardsAssumption DEF AllShardsRead
        <3>2. HasVote(read[i], call[r].option)
            BY <1>5, <3>1
        <3>3. i \in DOMAIN read
            BY <1>4, <3>1
        <3> QED
            BY <1>9, <3>2, <3>3 DEF HasVote, CounterShardsHaveVotes
    <2>2. /\ Total(shards', Admin) /\ Total(known', Admin)
          /\ \A b \in Admin \ {a} : shards'[b] = shards[b]
        BY <1>9 DEF ReadInv, Total
    <2>3. ASSUME step'[a] = "write", job' = job PROVE ReadOK(a)'
        BY <1>9, <2>1, <2>3 DEF ReadOK
    <2> QED
        BY <1>9, <2>2, <2>3, GoesOnReads
<1> QED
    BY <1>7, <1>8, <1>9 DEF CheckShard, found, read

\* Every step of an admin's handler.
LEMMA AdminReads ==
    ASSUME AdminInv, LookInv, NEW a \in Admin, UNCHANGED <<call, cast>>,
           AdminProgress(a, Counted(a)) \/ AdminStoreFails(a)
    PROVE  ReadInv'
<1>1. CASE CacheQuestion(a) \/ EvictQuestion(a) \/ AdminStoreFails(a)
    <2>1. \E result : Finish(a, result)
        BY <1>1 DEF CacheQuestion, EvictQuestion, AdminStoreFails
    <2> QED
        BY <2>1, EndsRead DEF LookInv
<1>2. CASE InsertQuestion(a) \/ UpdateQuestion(a) \/ DeleteQuestion(a)
    <2>1. CASE \E result : Finish(a, result)
        BY <2>1, EndsRead DEF LookInv
    <2>2. CASE GoOn(a, "cache") /\ UNCHANGED <<shards, known>>
               /\ \A b \in Admin \ {a} : held'[b] = held[b]
        <3>1. step'[a] = "cache" => ReadOK(a)'
            BY DEF ReadOK, Holds
        <3> QED
            BY <2>2, <3>1, GoesOnReads DEF LookInv, ReadInv
    <2> QED
        BY <1>2, <2>1, <2>2
           DEF InsertQuestion, UpdateQuestion, DeleteQuestion, Committed, AdminInv, HolderInv,
               Total
<1> QED
    BY <1>1, <1>2, LockReads, CheckJournalReads, CheckShardReads DEF AdminProgress, LookInv

\* A job just sent has read nothing.
LEMMA StartReads ==
    ASSUME AdminInv, ReadInv, UNCHANGED <<call, cast>>, NEW a \in Admin, NEW j,
           StartJob(a, j)
    PROVE  ReadInv'
<1>1. /\ step[a] = "idle" /\ UNCHANGED <<held, shards, known>>
      /\ step'[a] \in {"insert", "lock"}
      /\ \A b \in Admin \ {a} : step'[b] = step[b] /\ job'[b] = job[b]
    BY DEF StartJob, AdminInv, HolderInv, Total
<1>2. ReadOK(a)'
    BY <1>1 DEF ReadInv, ReadOK, Holds
<1> QED
    BY <1>1, <1>2, OthersRead DEF ReadInv

-----------------------------------------------------------------------------
\* The invariant

\* A request that arrives has not been counted, and asks for an option.
LEMMA StartRequestVotes ==
    ASSUME NEW r \in Request, StartRequest(r), UNCHANGED adminVars, ViewerInv, LookInv
    PROVE  LookInv'
<1>1. PICK q \in Question, v \in Viewer, option \in OptionKey \cup {NoOption} :
        call' = [call EXCEPT ![r] =
                    [kind   |-> IF option = NoOption THEN "form" ELSE "vote",
                     key    |-> DedupHash(q, v),
                     option |-> option,
                     at     |-> now]]
    BY DEF StartRequest
<1>2. /\ pc[r] = "idle" /\ pc' = [pc EXCEPT ![r] = "get"]
      /\ cast' = cast /\ counters' = counters
    BY DEF StartRequest, storeVars, GoTo
<1>3. /\ pc'[r] = "get"
      /\ call'[r].kind = "vote" => call'[r].option \in OptionKey
      /\ \A s \in Request \ {r} : call'[s] = call[s] /\ pc'[s] = pc[s]
    BY <1>1, <1>2 DEF ViewerInv, Total
<1>4. r \notin cast /\ cast \subseteq Request
    BY <1>2 DEF LookInv, VotingInv
<1>5. VotingInv'
    BY <1>2, <1>3, <1>4 DEF LookInv, VotingInv
<1>6. MarksInv'
    BY <1>2, <1>3, <1>4 DEF LookInv, MarksInv, Total
<1>7. ReadInv'
    <2> SUFFICES ASSUME NEW a \in Admin PROVE ReadOK(a)'
        BY DEF LookInv, ReadInv, adminVars, Total
    <2>1. Counted(a)' = Counted(a)
        BY <1>2, <1>3, <1>4 DEF Counted, QuestionOf, Target, adminVars
    <2>2. step[a] = "shards" => \A s \in known[a] : call'[s] = call[s]
        BY <1>3, <1>4 DEF LookInv, ReadInv, ReadOK, Holds, Counted
    <2> QED
        BY <2>1, <2>2 DEF LookInv, ReadInv, ReadOK, Holds, RemovesOptions, adminVars
<1> QED
    BY <1>5, <1>6, <1>7 DEF LookInv

\* Nobody reads any more when the process is dead.
LEMMA CrashReads ==
    ASSUME LookInv, ApiCrash, AdminCrash
    PROVE  LookInv'
<1>1. /\ UNCHANGED <<call, cast, counters>>
      /\ \A r \in Request : pc'[r] = pc[r] \/ (pc[r] # "idle" /\ pc'[r] = "done")
    BY DEF ApiCrash, InFlight, storeVars
<1>2. VotingInv' /\ MarksInv'
    BY <1>1 DEF LookInv, VotingInv, MarksInv, Total
<1>3. ReadInv'
    BY DEF AdminCrash, AdminInFlight, ReadInv, ReadOK, Holds, Total
<1> QED
    BY <1>2, <1>3 DEF LookInv

\* Marks and readings fit together in every state.
THEOREM LookInvariant == Spec => []LookInv
<1>1. Init => LookInv
    <2> SUFFICES ASSUME Init PROVE LookInv
        OBVIOUS
    <2>1. VotingInv
        BY DEF Init, PathInit, ServiceInit, VotingInv
    <2>2. MarksInv
        <3>1. cast = {}
            BY DEF Init, PathInit, ServiceInit
        <3>2. counters = [c \in CounterKey |->
                            IF c \in ForeignKeys THEN NotAHash ELSE EmptyHash]
            BY DEF Init, PathInit, CounterKey, Shard, EmptyHash, CounterKey,
                   Shard, EmptyHash
        <3>3. IsHash(EmptyHash)
            BY DEF IsHash, EmptyHash
        <3> QED
            BY <3>1, <3>2, <3>3 DEF MarksInv, Total
    <2>3. ReadInv
        BY DEF Init, AdminInit, ReadInv, ReadOK, Total, Holds
    <2> QED
        BY <2>1, <2>2, <2>3 DEF LookInv
<1>2. AdminInv /\ LookInv /\ [Next]_vars => LookInv'
    <2> SUFFICES ASSUME AdminInv, LookInv, [Next]_vars PROVE LookInv'
        OBVIOUS
    <2>1. ViewerInv /\ VotingInv /\ MarksInv /\ ReadInv
        BY DEF AdminInv, LookInv
    <2>2. ASSUME UNCHANGED <<pc, call, cast, counters>>, ReadInv' PROVE LookInv'
        BY <2>1, <2>2 DEF LookInv, VotingInv, MarksInv, Total
    <2>3. ASSUME UNCHANGED <<pc, call, cast, counters, adminVars>> PROVE LookInv'
        BY <2>1, <2>2, <2>3, ReadsUnderVotes
    <2>4. ASSUME NEW r \in Request, ViewerStep(r) PROVE LookInv'
        BY <2>1, <2>4, HandlerVotes, HandlerMarks, ReadsUnderVotes DEF ViewerStep, LookInv
    <2>5. ASSUME NEW a \in Admin, NEW j \in AdminJob, StartJob(a, j),
                 UNCHANGED <<journalVars, serviceVars>>
          PROVE  LookInv'
        BY <2>1, <2>2, <2>5, StartReads DEF StartJob, storeVars, serviceVars
    <2>6. ASSUME NEW a \in Admin, AdminProgress(a, Counted(a)) \/ AdminStoreFails(a),
                 UNCHANGED <<journalVars, serviceVars>>
          PROVE  LookInv'
        <3>1. counters' = counters
            BY <2>6 DEF AdminProgress, InsertQuestion, LockQuestion, CheckJournal, CheckShard,
                        UpdateQuestion, DeleteQuestion, CacheQuestion, EvictQuestion,
                        AdminStoreFails, storeVars
        <3>2. UNCHANGED <<pc, call, cast>>
            BY <2>6 DEF serviceVars
        <3> QED
            BY <2>2, <2>6, <3>1, <3>2, AdminReads
    <2>7. CASE JournalStep
        <3>1. counters' = counters
            BY <2>7 DEF JournalStep, WorkerNext, WorkerTake, WorkerFlush, WorkerWrite, storeVars
        <3> QED
            BY <2>3, <2>7, <3>1 DEF JournalStep, serviceVars
    <2>8. CASE Tick /\ UNCHANGED adminVars
        BY <2>3, <2>8 DEF Tick, journalVars, serviceVars
    <2>9. CASE UNCHANGED vars
        BY <2>3, <2>9 DEF vars, storeVars, serviceVars
    <2> QED
        BY <2>1, <2>4, <2>5, <2>6, <2>7, <2>8, <2>9, StartRequestVotes, CrashReads
           DEF Next, AdminGoesOn
<1> QED
    BY <1>1, <1>2, AdminInvariant, PTL DEF Spec

\* An admin who changes the options or deletes has overlooked no vote that was
\* counted before the row lock was taken.
THEOREM EditsBlocked == Spec => []CountedVotesBlockEdits
<1>1. LookInv => CountedVotesBlockEdits
    BY DEF LookInv, ReadInv, ReadOK, CountedVotesBlockEdits
<1> QED
    BY <1>1, LookInvariant, PTL

-----------------------------------------------------------------------------
\* The cards: what a viewer's handler does with them

\* A vote that passes by a card of committed versions passes by a version each.
LEMMA PassesByVersions ==
    ASSUME NEW q \in Question, NEW c, NEW t, NEW option, FromPast(q, c),
           RequireOpenVotingWindow(c, t) = "open", option \in KeysOf[c.options]
    PROVE  /\ \E version \in past[q] : RequireOpenVotingWindow(version[1], t) = "open"
           /\ \E version \in past[q] : option \in KeysOf[version[2]]
<1>1. \E version \in past[q] : RequireOpenVotingWindow(version[1], t) = "open"
    BY DEF FromPast, RequireOpenVotingWindow
<1>2. \E version \in past[q] : c.options = version[2]
    BY KeysOfAssumption DEF FromPast
<1> QED
    BY <1>1, <1>2

\* _vote_context with a card of committed versions.
LEMMA AdmitsByCard ==
    ASSUME NEW r \in Request, NEW c, Admit(r, c), FromPast(QuestionOf(r), c),
           Total(pc, Request), Total(card, Request), UNCHANGED <<past, call>>
    PROVE  /\ Total(card', Request)
           /\ \A s \in Request \ {r} : card'[s] = card[s]
           /\ AdmittedOK(r)'
<1>1. Total(card', Request) /\ card'[r] = c /\ \A s \in Request \ {r} : card'[s] = card[s]
    BY DEF Admit, Total
<1>2. /\ pc'[r] \in {"done", "exists", "eval"}
      /\ pc'[r] = "eval" => /\ RequireOpenVotingWindow(c, call[r].at) = "open"
                            /\ call[r].option \in KeysOf[c.options]
    BY DEF Admit, GoTo, Reply, Total
<1> QED
    BY <1>1, <1>2 DEF AdmittedOK, FromPast, QuestionOf

\* A handler's step takes care of its own card.
LEMMA HandlerCards ==
    ASSUME NEW r \in Request, HandlerNext(r), ViewerInv, StoredInv, CachedInv, AdmittedInv,
           past' = past
    PROVE  /\ Total(card', Request)
           /\ \A s \in Request \ {r} : card'[s] = card[s]
           /\ AdmittedOK(r)'
<1>1. pc[r] # "idle" /\ call' = call /\ Total(pc, Request) /\ Total(card, Request)
    BY HandlerMoves, HandlerKeeps DEF ViewerInv, AdmittedInv
<1>2. QuestionOf(r) \in Question
    BY <1>1 DEF ViewerInv, EventOf, Known, DedupKey, QuestionOf
<1>3. ASSUME NEW result, Reply(r, result) PROVE AdmittedOK(r)'
    BY <1>1, <1>3 DEF Reply, Total, AdmittedOK
<1>4. ASSUME NEW location \in {"load_row", "drop", "journal"}, GoTo(r, location)
      PROVE  AdmittedOK(r)'
    BY <1>1, <1>4 DEF GoTo, Total, AdmittedOK
<1>5. card' = card => Total(card', Request) /\ \A s \in Request \ {r} : card'[s] = card[s]
    BY <1>1 DEF Total
<1>6. CASE GetCached(r)
    <2>1. CASE /\ cache[QuestionOf(r)] \notin {NoCard, Garbled}
               /\ Admit(r, cache[QuestionOf(r)])
        <3>1. FromPast(QuestionOf(r), cache[QuestionOf(r)])
            BY <1>2, <2>1 DEF CachedInv
        <3> QED
            BY <1>1, <2>1, <3>1, AdmitsByCard
    <2>2. CASE (GoTo(r, "load_row") \/ GoTo(r, "drop")) /\ UNCHANGED card
        BY <1>4, <1>5, <2>2
    <2> QED
        BY <1>6, <2>1, <2>2 DEF GetCached
<1>7. CASE DropGarbled(r)
    BY <1>3, <1>4, <1>5, <1>7 DEF DropGarbled
<1>8. CASE LoadRow(r)
    <2> DEFINE row == question[QuestionOf(r)]
    <2>1. CASE Reply(r, "not_found") /\ UNCHANGED card
        BY <1>3, <1>5, <2>1
    <2>2. CASE /\ row # NoRow
               /\ card' = [card EXCEPT ![r] = ToCard(row, NoOptions)]
               /\ GoTo(r, "load_options")
        <3>1. <<row, question_option[QuestionOf(r)]>> \in past[QuestionOf(r)]
            BY <1>2, <2>2 DEF StoredInv
        <3>2. FromPast(QuestionOf(r), ToCard(row, NoOptions))
            BY <3>1 DEF FromPast, ToCard
        <3>3. card'[r] = ToCard(row, NoOptions) /\ pc'[r] = "load_options"
            BY <1>1, <2>2 DEF GoTo, Total
        <3>4. Total(card', Request) /\ \A s \in Request \ {r} : card'[s] = card[s]
            BY <1>1, <2>2 DEF Total
        <3> QED
            BY <1>1, <3>2, <3>3, <3>4 DEF AdmittedOK, FromPast, QuestionOf
    <2> QED
        BY <1>8, <2>1, <2>2 DEF LoadRow
<1>9. CASE LoadOptions(r)
    <2> DEFINE options == question_option[QuestionOf(r)]
    <2>1. FromPast(QuestionOf(r), card[r])
        BY <1>9 DEF LoadOptions, AdmittedInv, AdmittedOK
    <2>2. options = NoOptions \/ \E version \in past[QuestionOf(r)] : options = version[2]
        BY <1>2 DEF StoredInv
    <2>3. FromPast(QuestionOf(r), ToCard(card[r], options))
        BY <2>1, <2>2 DEF FromPast, ToCard
    <2>4. card'[r] = ToCard(card[r], options) /\ pc'[r] = "warm"
        BY <1>1, <1>9 DEF LoadOptions, GoTo, Total
    <2>5. Total(card', Request) /\ \A s \in Request \ {r} : card'[s] = card[s]
        BY <1>1, <1>9 DEF LoadOptions, Total
    <2> QED
        BY <1>1, <2>3, <2>4, <2>5 DEF AdmittedOK, FromPast, QuestionOf
<1>10. CASE WarmCache(r)
    <2>1. FromPast(QuestionOf(r), card[r])
        BY <1>10 DEF WarmCache, AdmittedInv, AdmittedOK
    <2>2. CASE Admit(r, card[r])
        BY <1>1, <2>1, <2>2, AdmitsByCard
    <2>3. CASE Reply(r, "unavailable") /\ UNCHANGED card
        BY <1>3, <1>5, <2>3
    <2> QED
        BY <1>10, <2>2, <2>3 DEF WarmCache
<1>11. CASE CheckVoted(r) \/ EvalRepeated(r) \/ EvalWrongType(r) \/ RedisFails(r)
            \/ DatabaseFails(r) \/ JournalVote(r)
    <2>1. card' = card /\ \E result : Reply(r, result)
        BY <1>11 DEF CheckVoted, EvalRepeated, EvalWrongType, RedisFails, DatabaseFails,
                     JournalVote
    <2> QED
        BY <1>3, <1>5, <2>1
<1>12. CASE EvalFirst(r)
    <2>1. card' = card /\ pc[r] = "eval"
        BY <1>12 DEF EvalFirst
    <2>2. CASE GoTo(r, "eval")
        BY <1>1, <2>1, <2>2 DEF GoTo, Total, AdmittedInv, AdmittedOK, FromPast, QuestionOf
    <2>3. CASE GoTo(r, "journal") \/ Reply(r, "unavailable")
        BY <1>3, <1>4, <1>5, <2>1, <2>3
    <2> QED
        BY <1>5, <1>12, <2>1, <2>2, <2>3 DEF EvalFirst
<1> QED
    BY <1>6, <1>7, <1>8, <1>9, <1>10, <1>11, <1>12 DEF HandlerNext

\* What a handler puts into Redis is a card of committed versions.
LEMMA HandlerCaches ==
    ASSUME NEW r \in Request, HandlerNext(r), ViewerInv, CachedInv, AdmittedInv,
           UNCHANGED adminVars
    PROVE  CachedInv'
<1>1. \A a \in Admin : HandsOn(a)'
    BY DEF CachedInv, HandsOn, FromPast, Target, adminVars
<1>2. pc[r] # "idle"
    BY HandlerMoves DEF ViewerInv
<1>3. QuestionOf(r) \in Question
    BY <1>2 DEF ViewerInv, EventOf, Known, DedupKey, QuestionOf
<1>4. CASE UNCHANGED cache
    BY <1>1, <1>4 DEF CachedInv, FromPast, Total, adminVars
<1>5. CASE DropGarbled(r)
    <2>1. cache' = [cache EXCEPT ![QuestionOf(r)] = NoCard]
        BY <1>5 DEF DropGarbled
    <2> QED
        BY <1>1, <1>3, <2>1 DEF CachedInv, FromPast, Total, adminVars
<1>6. CASE WarmCache(r)
    <2>1. /\ cache' = [cache EXCEPT ![QuestionOf(r)] = card[r]]
          /\ FromPast(QuestionOf(r), card[r])
        BY <1>6 DEF WarmCache, AdmittedInv, AdmittedOK
    <2> QED
        BY <1>1, <1>3, <2>1 DEF CachedInv, FromPast, Total, adminVars
<1> QED
    BY <1>4, <1>5, <1>6
       DEF HandlerNext, GetCached, LoadRow, LoadOptions, CheckVoted, EvalRepeated,
           EvalWrongType, EvalFirst, JournalVote, RedisFails, DatabaseFails, storeVars

\* A vote that the script counts was let pass by the card in the handler's hand.
LEMMA HandlerCounts ==
    ASSUME NEW r \in Request, HandlerNext(r), ViewerInv, AdmittedInv,
           VotesFromCommittedCards, past' = past
    PROVE  VotesFromCommittedCards'
<1>1. pc[r] # "idle" /\ call' = call
    BY HandlerMoves, HandlerKeeps DEF ViewerInv
<1>2. CASE UNCHANGED cast
    BY <1>1, <1>2 DEF VotesFromCommittedCards, QuestionOf
<1>3. CASE EvalFirst(r)
    <2>1. pc[r] = "eval" /\ cast' = cast \cup {r}
        BY <1>3 DEF EvalFirst, ReserveViewerAndIncrementCounter
    <2>2. /\ FromPast(QuestionOf(r), card[r])
          /\ RequireOpenVotingWindow(card[r], call[r].at) = "open"
          /\ call[r].option \in KeysOf[card[r].options]
        BY <2>1 DEF AdmittedInv, AdmittedOK
    <2>3. QuestionOf(r) \in Question
        BY <1>1 DEF ViewerInv, EventOf, Known, DedupKey, QuestionOf
    <2>4. /\ \E version \in past[QuestionOf(r)] :
                RequireOpenVotingWindow(version[1], call[r].at) = "open"
          /\ \E version \in past[QuestionOf(r)] : call[r].option \in KeysOf[version[2]]
        BY <2>2, <2>3, PassesByVersions
    <2> QED
        BY <1>1, <2>1, <2>4 DEF VotesFromCommittedCards, QuestionOf
<1> QED
    BY <1>2, <1>3, HandlerLands DEF ViewerInv

-----------------------------------------------------------------------------
\* The cards: what the admins do with them

\* While versions are only added, viewers' cards and votes stay what they are.
LEMMA PastGrows ==
    ASSUME ViewerInv, VotingInv, AdmittedInv, VotesFromCommittedCards,
           UNCHANGED <<pc, call, card, cast>>,
           \A q \in Question : past[q] \subseteq past'[q]
    PROVE  AdmittedInv' /\ VotesFromCommittedCards'
<1>1. ASSUME NEW r \in Request, pc[r] # "idle"
      PROVE  QuestionOf(r) \in Question /\ QuestionOf(r)' = QuestionOf(r)
    BY <1>1 DEF ViewerInv, EventOf, Known, DedupKey, QuestionOf
<1>2. ASSUME NEW r \in Request PROVE AdmittedOK(r)'
    BY <1>1, <1>2 DEF AdmittedInv, AdmittedOK, FromPast
<1>3. ASSUME NEW r \in cast
      PROVE  /\ \E version \in past'[QuestionOf(r)'] :
                   RequireOpenVotingWindow(version[1], call'[r].at) = "open"
             /\ \E version \in past'[QuestionOf(r)'] :
                   call'[r].option \in KeysOf[version[2]]
    <2>1. r \in Request /\ pc[r] # "idle"
        BY <1>3 DEF VotingInv
    <2>2. past[QuestionOf(r)] \subseteq past'[QuestionOf(r)'] /\ QuestionOf(r)' = QuestionOf(r)
        BY <1>1, <2>1
    <2>3. /\ \E version \in past[QuestionOf(r)] :
                RequireOpenVotingWindow(version[1], call[r].at) = "open"
          /\ \E version \in past[QuestionOf(r)] : call[r].option \in KeysOf[version[2]]
        BY <1>3 DEF VotesFromCommittedCards
    <2> QED
        BY <2>2, <2>3
<1> QED
    BY <1>2, <1>3 DEF AdmittedInv, Total, VotesFromCommittedCards

\* The cards of the stores, when an admin's handler leaves them alone.
LEMMA NothingStored ==
    ASSUME AdminInv, StoredInv, CachedInv, NEW a \in Admin,
           UNCHANGED <<question, question_option, past, cache>>, step'[a] # "cache",
           \A b \in Admin \ {a} :
              step'[b] = step[b] /\ job'[b] = job[b] /\ held'[b] = held[b]
    PROVE  StoredInv' /\ CachedInv'
<1>1. StoredInv'
    BY DEF StoredInv, Total
<1>2. \A b \in Admin : HandsOn(b)'
    BY DEF CachedInv, HandsOn, FromPast, Target
<1> QED
    BY <1>1, <1>2 DEF CachedInv, FromPast, Total

\* A COMMIT adds the version that is stored from now on.
LEMMA VersionStored ==
    ASSUME AdminInv, StoredInv, CachedInv, NEW a \in Admin,
           step[a] \notin {"idle", "done"}, StoreJob(a), Committed(a), UNCHANGED cache
    PROVE  /\ StoredInv' /\ CachedInv'
           /\ \A q \in Question : past[q] \subseteq past'[q]
<1> DEFINE version == <<job[a].row, job[a].options>>
<1>1. Target(a) \in Question
    BY DEF AdminInv, HolderInv
<1>2. /\ Total(past', Question)
      /\ past'[Target(a)] = past[Target(a)] \cup {version}
      /\ question'[Target(a)] = job[a].row
      /\ question_option'[Target(a)] = job[a].options
      /\ \A q \in Question \ {Target(a)} :
            /\ past'[q] = past[q] /\ question'[q] = question[q]
            /\ question_option'[q] = question_option[q]
    BY <1>1 DEF StoreJob, StoredInv, AdminInv, HolderInv, Total
<1> HIDE DEF version
<1>3. \A q \in Question : past[q] \subseteq past'[q]
    BY <1>2
<1>4. StoredInv'
    BY <1>2 DEF StoredInv, version
<1>5. /\ \A b \in Admin \ {a} :
            step'[b] = step[b] /\ job'[b] = job[b] /\ held'[b] = held[b]
      /\ \/ step'[a] = "done"
         \/ job'[a] = job[a] /\ held'[a] = ToCard(job[a].row, job[a].options)
    BY DEF Committed, GoOn, Finish, AdminInv, HolderInv, Total
<1>6. HandsOn(a)'
    <2>1. ASSUME job'[a] = job[a], held'[a] = ToCard(job[a].row, job[a].options)
          PROVE  FromPast(Target(a), held[a])'
        <3>1. /\ held'[a].status = job[a].row.status
              /\ held'[a].show_time = job[a].row.show_time
              /\ held'[a].duration_seconds = job[a].row.duration_seconds
              /\ held'[a].options = job[a].options
            BY <2>1 DEF ToCard
        <3>2. Target(a)' = Target(a)
            BY <2>1 DEF Target
        <3>3. /\ version \in past'[Target(a)]
              /\ version[1] = job[a].row /\ version[2] = job[a].options
            BY <1>2 DEF version
        <3> QED
            BY <3>1, <3>2, <3>3 DEF FromPast
    <2> QED
        BY <1>5, <2>1 DEF HandsOn
<1>7. ASSUME NEW b \in Admin \ {a} PROVE HandsOn(b)'
    <2>1. step[b] = "cache" => Target(b) \in Question
        BY DEF AdminInv, HolderInv
    <2> QED
        BY <1>3, <1>5, <2>1 DEF CachedInv, HandsOn, FromPast, Target
<1>8. ASSUME NEW q \in Question, cache[q] \notin {NoCard, Garbled}
      PROVE  FromPast(q, cache[q])'
    BY <1>3, <1>8 DEF CachedInv, FromPast
<1> QED
    BY <1>3, <1>4, <1>6, <1>7, <1>8 DEF CachedInv, Total

\* An admin's handler ends after it put its card into Redis, or dropped one.
LEMMA CardsCached ==
    ASSUME AdminInv, StoredInv, CachedInv, NEW a \in Admin,
           CacheQuestion(a) \/ EvictQuestion(a)
    PROVE  StoredInv' /\ CachedInv' /\ past' = past
<1>1. /\ step[a] = "cache"
      /\ UNCHANGED <<question, question_option, past>>
      /\ \E result : Finish(a, result)
    BY DEF CacheQuestion, EvictQuestion
<1>2. /\ step'[a] = "done"
      /\ \A b \in Admin \ {a} :
            step'[b] = step[b] /\ job'[b] = job[b] /\ held'[b] = held[b]
    BY <1>1, FinishMoves DEF AdminInv
<1>3. Target(a) \in Question
    BY <1>1 DEF AdminInv, HolderInv
<1>4. StoredInv'
    BY <1>1 DEF StoredInv, Total
<1>5. \A b \in Admin : HandsOn(b)'
    BY <1>1, <1>2 DEF CachedInv, HandsOn, FromPast, Target
<1>6. \/ cache' = [cache EXCEPT ![Target(a)] = NoCard]
      \/ /\ cache' = [cache EXCEPT ![Target(a)] = held[a]]
         /\ FromPast(Target(a), held[a])
    BY <1>1 DEF CacheQuestion, EvictQuestion, CachedInv, HandsOn
<1> QED
    BY <1>1, <1>3, <1>4, <1>5, <1>6 DEF CachedInv, FromPast, Total

\* Every step of an admin's handler.
LEMMA AdminCards ==
    ASSUME AdminInv, StoredInv, CachedInv, NEW a \in Admin, NEW counted,
           AdminProgress(a, counted) \/ AdminStoreFails(a)
    PROVE  /\ StoredInv' /\ CachedInv'
           /\ \A q \in Question : past[q] \subseteq past'[q]
<1>1. CASE InsertQuestion(a) \/ UpdateQuestion(a)
    <2>1. step[a] \notin {"idle", "done"} /\ StoreJob(a) /\ Committed(a) /\ UNCHANGED cache
        BY <1>1 DEF InsertQuestion, UpdateQuestion
    <2> QED
        BY <2>1, VersionStored
<1>2. CASE CacheQuestion(a) \/ EvictQuestion(a)
    BY <1>2, CardsCached
<1>3. CASE LockQuestion(a, counted) \/ CheckJournal(a) \/ CheckShard(a) \/ AdminStoreFails(a)
    <2>1. UNCHANGED <<question, question_option, past, cache>>
        BY <1>3 DEF LockQuestion, CheckJournal, CheckShard, AdminStoreFails, storeVars
    <2>2. /\ step'[a] # "cache"
          /\ \A b \in Admin \ {a} :
                step'[b] = step[b] /\ job'[b] = job[b] /\ held'[b] = held[b]
        BY <1>3 DEF LockQuestion, CheckJournal, CheckShard, AdminStoreFails, GoOn, Finish,
                    AdminInv, HolderInv, Total
    <2> QED
        BY <2>1, <2>2, NothingStored
<1>4. CASE DeleteQuestion(a)
    <2>1. step[a] = "write" /\ job[a].kind = "delete" /\ UNCHANGED <<past, cache>>
        BY <1>4 DEF DeleteQuestion
    <2>2. \/ UNCHANGED <<question, question_option>>
          \/ /\ question' = [question EXCEPT ![Target(a)] = NoRow]
             /\ question_option' = [question_option EXCEPT ![Target(a)] = NoOptions]
        BY <1>4 DEF DeleteQuestion
    <2>3. StoredInv'
        BY <2>1, <2>2 DEF StoredInv, AdminInv, HolderInv, Total
    <2>4. /\ step'[a] = "done" \/ job'[a] = job[a]
          /\ \A b \in Admin \ {a} :
                step'[b] = step[b] /\ job'[b] = job[b] /\ held'[b] = held[b]
        BY <1>4 DEF DeleteQuestion, GoOn, Finish, AdminInv, HolderInv, Total
    <2>5. \A b \in Admin : HandsOn(b)'
        BY <2>1, <2>4 DEF CachedInv, HandsOn, FromPast, Target
    <2> QED
        BY <2>1, <2>3, <2>5 DEF CachedInv, FromPast, Total
<1> QED
    BY <1>1, <1>2, <1>3, <1>4 DEF AdminProgress

-----------------------------------------------------------------------------
\* The invariant of the cards

\* Cards, wherever they are, and votes rest on committed versions.
THEOREM CommittedInvariant == Spec => []CommittedInv
<1>1. Init => CommittedInv
    <2> SUFFICES ASSUME Init PROVE CommittedInv
        OBVIOUS
    <2>1. /\ past = [q \in Question |-> IF question[q] = NoRow THEN {}
                                        ELSE {<<question[q], question_option[q]>>}]
          /\ \A q \in Question : question[q] = NoRow <=> question_option[q] = NoOptions
          /\ \A a \in Admin : step[a] = "idle"
        BY DEF Init, AdminInit, PathInit
    <2>2. StoredInv
        BY <2>1 DEF StoredInv, Total
    <2>3. CachedInv
        <3>1. Total(cache, Question)
            BY DEF Init, PathInit, Total
        <3>2. ASSUME NEW q \in Question, cache[q] \notin {NoCard, Garbled}
              PROVE  FromPast(q, cache[q])
            <4>1. question[q] # NoRow /\ cache[q] = ToCard(question[q], question_option[q])
                BY <3>2 DEF Init, PathInit, ToCard, ToCard
            <4>2. past[q] = {<<question[q], question_option[q]>>}
                BY <2>1, <4>1
            <4> QED
                BY <4>1, <4>2 DEF FromPast, ToCard
        <3> QED
            BY <2>1, <3>1, <3>2 DEF CachedInv, HandsOn
    <2>4. AdmittedInv /\ VotesFromCommittedCards
        BY DEF Init, PathInit, ServiceInit, AdmittedInv, AdmittedOK, Total,
               VotesFromCommittedCards
    <2> QED
        BY <2>2, <2>3, <2>4 DEF CommittedInv
<1>2. AdminInv /\ LookInv /\ CommittedInv /\ [Next]_vars => CommittedInv'
    <2> SUFFICES ASSUME AdminInv, LookInv, CommittedInv, [Next]_vars PROVE CommittedInv'
        OBVIOUS
    <2>1. /\ ViewerInv /\ VotingInv /\ StoredInv /\ CachedInv /\ AdmittedInv
          /\ VotesFromCommittedCards
        BY DEF AdminInv, LookInv, CommittedInv
    <2>2. ASSUME UNCHANGED <<question, question_option, cache, adminVars>>
          PROVE  StoredInv' /\ CachedInv'
        BY <2>1, <2>2
           DEF StoredInv, CachedInv, HandsOn, FromPast, Target, Total, adminVars
    <2>3. ASSUME UNCHANGED <<question, question_option, cache, adminVars>>,
                 UNCHANGED <<pc, call, card, cast>>
          PROVE  CommittedInv'
        BY <2>1, <2>2, <2>3, PastGrows DEF CommittedInv, adminVars
    <2>4. ASSUME NEW r \in Request, StartRequest(r), UNCHANGED adminVars PROVE CommittedInv'
        <3>1. /\ pc[r] = "idle" /\ pc' = [pc EXCEPT ![r] = "get"]
              /\ \A s \in Request \ {r} : call'[s] = call[s]
              /\ UNCHANGED <<question, question_option, cache, card, cast>>
            BY <2>1, <2>4 DEF StartRequest, GoTo, storeVars, ViewerInv, Total
        <3>2. /\ pc'[r] = "get" /\ r \notin cast /\ cast \subseteq Request
              /\ \A s \in Request \ {r} : pc'[s] = pc[s]
            BY <2>1, <3>1 DEF ViewerInv, VotingInv, Total
        <3>3. AdmittedInv'
            BY <2>1, <2>4, <3>1, <3>2
               DEF AdmittedInv, AdmittedOK, FromPast, QuestionOf, Total, adminVars
        <3>4. VotesFromCommittedCards'
            BY <2>1, <2>4, <3>1, <3>2 DEF VotesFromCommittedCards, QuestionOf, adminVars
        <3> QED
            BY <2>2, <2>4, <3>1, <3>3, <3>4 DEF CommittedInv
    <2>5. ASSUME NEW r \in Request, ViewerStep(r) PROVE CommittedInv'
        <3>1. HandlerNext(r) /\ UNCHANGED adminVars
            BY <2>5 DEF ViewerStep
        <3>2. /\ UNCHANGED <<question, question_option, call, past>>
              /\ \A s \in Request \ {r} : pc'[s] = pc[s]
            BY <2>1, <3>1, HandlerKeeps, HandlerMoves DEF ViewerInv, adminVars
        <3>3. StoredInv'
            BY <2>1, <3>2 DEF StoredInv, Total
        <3>4. CachedInv' /\ VotesFromCommittedCards'
            BY <2>1, <3>1, <3>2, HandlerCaches, HandlerCounts
        <3>5. /\ Total(card', Request)
              /\ \A s \in Request \ {r} : card'[s] = card[s]
              /\ AdmittedOK(r)'
            BY <2>1, <3>1, <3>2, HandlerCards
        <3>6. ASSUME NEW s \in Request \ {r} PROVE AdmittedOK(s)'
            BY <2>1, <3>2, <3>5 DEF AdmittedInv, AdmittedOK, FromPast, QuestionOf
        <3> QED
            BY <3>3, <3>4, <3>5, <3>6 DEF CommittedInv, AdmittedInv, Total
    <2>6. ASSUME NEW a \in Admin, NEW j \in AdminJob, StartJob(a, j),
                 UNCHANGED <<journalVars, serviceVars>>
          PROVE  CommittedInv'
        <3>1. /\ UNCHANGED <<question, question_option, past, cache>>
              /\ step'[a] # "cache"
              /\ \A b \in Admin \ {a} :
                    step'[b] = step[b] /\ job'[b] = job[b] /\ held'[b] = held[b]
            BY <2>6 DEF StartJob, storeVars, AdminInv, HolderInv, Total
        <3> QED
            BY <2>1, <2>6, <3>1, NothingStored, PastGrows DEF CommittedInv, serviceVars
    <2>7. ASSUME NEW a \in Admin, AdminProgress(a, Counted(a)) \/ AdminStoreFails(a),
                 UNCHANGED <<journalVars, serviceVars>>
          PROVE  CommittedInv'
        BY <2>1, <2>7, AdminCards, PastGrows DEF CommittedInv, serviceVars
    <2>8. CASE JournalStep
        <3>1. UNCHANGED <<question, question_option, cache>>
            BY <2>8 DEF JournalStep, WorkerNext, WorkerTake, WorkerFlush, WorkerWrite, storeVars
        <3> QED
            BY <2>3, <2>8, <3>1 DEF JournalStep, serviceVars
    <2>9. CASE ApiCrash /\ AdminCrash
        <3>1. /\ UNCHANGED <<question, question_option, past, cache, call, card, cast>>
              /\ \A r \in Request : pc'[r] = pc[r] \/ pc'[r] = "done"
              /\ \A a \in Admin : step'[a] # "cache"
            BY <2>9 DEF ApiCrash, AdminCrash, AdminInFlight, storeVars
        <3>2. StoredInv' /\ CachedInv'
            BY <2>1, <3>1 DEF StoredInv, CachedInv, HandsOn, FromPast, Total
        <3>3. AdmittedInv' /\ VotesFromCommittedCards'
            BY <2>1, <3>1
               DEF AdmittedInv, AdmittedOK, FromPast, QuestionOf, Total, VotesFromCommittedCards
        <3> QED
            BY <3>2, <3>3 DEF CommittedInv
    <2>10. CASE Tick /\ UNCHANGED adminVars
        BY <2>3, <2>10 DEF Tick, journalVars, serviceVars
    <2>11. CASE UNCHANGED vars
        BY <2>3, <2>11 DEF vars, storeVars, serviceVars
    <2> QED
        BY <2>4, <2>5, <2>6, <2>7, <2>8, <2>9, <2>10, <2>11 DEF Next, AdminGoesOn
<1> QED
    BY <1>1, <1>2, AdminInvariant, LookInvariant, PTL DEF Spec

\* Whoever edits, deletes and caches what meanwhile, a counted vote was let pass
\* by the window of one version of its question and the options of one.
THEOREM CommittedVotes == Spec => []VotesFromCommittedCards
<1>1. CommittedInv => VotesFromCommittedCards
    BY DEF CommittedInv
<1> QED
    BY <1>1, CommittedInvariant, PTL
-----------------------------------------------------------------------------
\* Types

\* A handler at work has one of the jobs of the run.
JobsGiven == \A a \in Admin : step[a] \notin {"idle", "done"} => job[a] \in AdminJob

Typed == TypeInv /\ AdminTypeOK /\ JobsGiven

\* What an admin's handler may do next, all by itself.
AdminMoves(a) ==
    \/ \E j \in AdminJob : StartJob(a, j)
    \/ AdminProgress(a, Counted(a))
    \/ AdminStoreFails(a)

\* A step belongs to the way of a vote, or to one admin.
LEMMA StepsOfTwoKinds ==
    ASSUME [Next]_vars
    PROVE  \/ [PathNext]_pathVars /\ (UNCHANGED adminVars \/ AdminCrash)
           \/ \E a \in Admin : AdminMoves(a) /\ UNCHANGED <<journalVars, serviceVars>>
<1>1. CASE UNCHANGED vars
    BY <1>1 DEF vars, pathVars
<1>2. ASSUME NEW r \in Request, StartRequest(r) \/ ViewerStep(r)
      PROVE  PathNext
    BY <1>2 DEF PathNext, ViewerStep
<1>3. CASE JournalStep
    BY <1>3 DEF JournalStep, PathNext, WorkerStep
<1>4. CASE ApiCrash /\ AdminCrash
    BY <1>4 DEF PathNext, ProcessStep
<1>5. CASE Tick /\ UNCHANGED adminVars
    BY <1>5 DEF PathNext
<1> QED
    BY <1>1, <1>2, <1>3, <1>4, <1>5 DEF Next, AdminMoves, AdminGoesOn, ViewerStep

\* The fields of a job that stores a question.
LEMMA JobFields ==
    ASSUME NEW j \in AdminJob
    PROVE  /\ j.question \in Question
           /\ j.kind # "delete" => j.row \in Row /\ j.options \in OptionList
           /\ j \in Job
    BY AdminJobAssumption DEF Job

\* Admins take the viewers' variables nowhere.
LEMMA ViewersTyped ==
    ASSUME TypeInv, UNCHANGED <<now, vote, dedup, counters, journalVars, serviceVars>>,
           question' \in [Question -> Row \cup {NoRow}],
           question_option' \in [Question -> OptionList],
           cache' \in [Question -> Card \cup {NoCard, Garbled}]
    PROVE  TypeInv'
<1>1. StoreTypeOK' /\ JournalTypeOK' /\ ServiceTypeOK'
    BY DEF TypeInv, PathTypeOK, StoreTypeOK, JournalTypeOK, ServiceTypeOK, journalVars,
           serviceVars
<1>2. HandlerInv' /\ UnfinishedExact'
    BY DEF TypeInv, HandlerInv, HandlerOK, UnfinishedExact, journalVars, serviceVars
<1> QED
    BY <1>1, <1>2 DEF TypeInv, PathTypeOK

\* A list of hashes a handler has read.
ShardsOK(list) ==
    /\ DOMAIN list = 1 .. Len(list)
    /\ Len(list) <= COUNTER_SHARDS
    /\ \A i \in DOMAIN list : IsHash(list[i])

\* A handler that ends leaves nothing behind.
LEMMA FinishTypes ==
    ASSUME AdminTypeOK, JobsGiven, NEW a \in Admin, NEW result \in AdminAnswer,
           Finish(a, result), issued' = issued,
           past' \in [Question -> SUBSET (Row \X OptionList)]
    PROVE  AdminTypeOK' /\ JobsGiven'
<1>1. /\ step' \in [Admin -> AdminStep] /\ job' \in [Admin -> Job \cup {NoJob}]
      /\ held' \in [Admin -> Card \cup {NoCard}] /\ reply' \in [Admin -> AdminAnswer]
    BY DEF AdminTypeOK, Finish, AdminStep
<1>2. DOMAIN shards' = Admin /\ \A b \in Admin : ShardsOK(shards'[b])
    <2>1. ShardsOK(<<>>)
        BY ShardsAssumption DEF ShardsOK
    <2>2. \A b \in Admin : shards'[b] \in {<<>>, shards[b]} /\ ShardsOK(shards[b])
        BY DEF Finish, AdminTypeOK, ShardsOK
    <2> QED
        BY <2>1, <2>2 DEF Finish, AdminTypeOK
<1>3. JobsGiven'
    BY DEF JobsGiven, Finish, AdminTypeOK
<1> QED
    BY <1>1, <1>2, <1>3 DEF AdminTypeOK, ShardsOK

\* A handler that goes on keeps its job.
LEMMA GoOnTypes ==
    ASSUME AdminTypeOK, JobsGiven, NEW a \in Admin, NEW next \in AdminStep,
           step[a] \notin {"idle", "done"}, GoOn(a, next), issued' = issued,
           held' \in [Admin -> Card \cup {NoCard}],
           DOMAIN shards' = Admin, \A b \in Admin : ShardsOK(shards'[b]),
           past' \in [Question -> SUBSET (Row \X OptionList)]
    PROVE  AdminTypeOK' /\ JobsGiven'
    BY DEF AdminTypeOK, JobsGiven, GoOn, ShardsOK

\* What a COMMIT stores has its type.
LEMMA StoreJobTypes ==
    ASSUME Typed, NEW a \in Admin, step[a] \notin {"idle", "done"},
           job[a].kind # "delete", StoreJob(a)
    PROVE  /\ question' \in [Question -> Row \cup {NoRow}]
           /\ question_option' \in [Question -> OptionList]
           /\ past' \in [Question -> SUBSET (Row \X OptionList)]
           /\ ToCard(job[a].row, job[a].options) \in Card
<1>1. /\ job[a].row \in Row /\ job[a].options \in OptionList /\ Target(a) \in Question
    BY JobFields DEF Typed, JobsGiven, Target
<1>2. /\ question \in [Question -> Row \cup {NoRow}]
      /\ question_option \in [Question -> OptionList]
      /\ past \in [Question -> SUBSET (Row \X OptionList)]
    BY DEF Typed, TypeInv, PathTypeOK, StoreTypeOK, AdminTypeOK
<1>3. <<job[a].row, job[a].options>> \in Row \X OptionList
    BY <1>1
<1>4. past' \in [Question -> SUBSET (Row \X OptionList)]
    BY <1>1, <1>2, <1>3 DEF StoreJob
<1> QED
    BY <1>1, <1>2, <1>4, ToCardType DEF StoreJob

\* Every step of an admin's handler keeps the types.
LEMMA AdminTypes ==
    ASSUME Typed, AdminInv, ReadInv, NEW a \in Admin, AdminMoves(a),
           UNCHANGED <<journalVars, serviceVars>>
    PROVE  Typed'
<1>1. /\ question \in [Question -> Row \cup {NoRow}]
      /\ question_option \in [Question -> OptionList]
      /\ cache \in [Question -> Card \cup {NoCard, Garbled}]
      /\ past \in [Question -> SUBSET (Row \X OptionList)]
      /\ held \in [Admin -> Card \cup {NoCard}] /\ step \in [Admin -> AdminStep]
      /\ DOMAIN shards = Admin /\ \A b \in Admin : ShardsOK(shards[b])
    BY DEF Typed, TypeInv, PathTypeOK, StoreTypeOK, AdminTypeOK, ShardsOK
<1>2. step[a] \notin {"idle", "done"} => Target(a) \in Question
    BY JobFields DEF Typed, JobsGiven, Target
<1>3. ASSUME UNCHANGED storeVars PROVE TypeInv'
    BY <1>1, <1>3, ViewersTyped DEF Typed, storeVars
<1>4. ASSUME NEW result \in AdminAnswer, Finish(a, result), UNCHANGED <<issued, past>>
      PROVE  AdminTypeOK' /\ JobsGiven'
    BY <1>1, <1>4, FinishTypes DEF Typed
<1>5. ASSUME NEW j \in AdminJob, StartJob(a, j) PROVE Typed'
    <2>1. j \in Job /\ j.question \in Question
        BY JobFields
    <2>2. AdminTypeOK'
        BY <1>5, <2>1 DEF StartJob, Typed, AdminTypeOK, AdminStep
    <2>3. JobsGiven'
        BY <1>5 DEF StartJob, Typed, AdminTypeOK, JobsGiven
    <2> QED
        BY <1>3, <1>5, <2>2, <2>3 DEF Typed, StartJob
<1>6. CASE InsertQuestion(a) \/ UpdateQuestion(a)
    <2>1. /\ step[a] \notin {"idle", "done"} /\ job[a].kind # "delete"
          /\ StoreJob(a) /\ Committed(a)
          /\ UNCHANGED <<now, vote, cache, dedup, counters, issued>>
        BY <1>6 DEF InsertQuestion, UpdateQuestion, AdminInv, HolderInv
    <2>2. /\ question' \in [Question -> Row \cup {NoRow}]
          /\ question_option' \in [Question -> OptionList]
          /\ past' \in [Question -> SUBSET (Row \X OptionList)]
          /\ ToCard(job[a].row, job[a].options) \in Card
        BY <2>1, StoreJobTypes
    <2>3. TypeInv'
        BY <1>1, <2>1, <2>2, ViewersTyped DEF Typed
    <2>4. CASE Finish(a, "internal_error")
        BY <2>1, <2>2, <2>3, <2>4, FinishTypes DEF Typed, AdminAnswer
    <2>5. CASE /\ held' = [held EXCEPT ![a] = ToCard(job[a].row, job[a].options)]
               /\ GoOn(a, "cache") /\ UNCHANGED <<shards, known>>
        <3>1. held' \in [Admin -> Card \cup {NoCard}]
            BY <1>1, <2>2, <2>5
        <3>2. "cache" \in AdminStep
            BY DEF AdminStep
        <3>3. DOMAIN shards' = Admin /\ \A b \in Admin : ShardsOK(shards'[b])
            BY <1>1, <2>5
        <3> QED
            BY <2>1, <2>2, <2>3, <2>5, <3>1, <3>2, <3>3, GoOnTypes DEF Typed
    <2> QED
        BY <2>1, <2>4, <2>5 DEF Committed
<1>7. CASE LockQuestion(a, Counted(a))
    <2>1. step[a] = "lock" /\ UNCHANGED <<storeVars, issued, past>>
        BY <1>7 DEF LockQuestion
    <2>2. CASE Finish(a, "not_found") \/ Finish(a, "delete_forbidden")
        BY <1>3, <1>4, <2>1, <2>2 DEF AdminAnswer, Typed
    <2>3. CASE /\ question[Target(a)] # NoRow
               /\ held' = [held EXCEPT ![a] =
                      ToCard(question[Target(a)], question_option[Target(a)])]
               /\ \E next \in {"votes", "write"} : GoOn(a, next)
               /\ UNCHANGED shards
        <3>1. ToCard(question[Target(a)], question_option[Target(a)]) \in Card
            BY <1>1, <1>2, <2>1, <2>3, ToCardType
        <3>2. held' \in [Admin -> Card \cup {NoCard}]
            BY <1>1, <2>3, <3>1
        <3>3. PICK next \in {"votes", "write"} : GoOn(a, next)
            BY <2>3
        <3>4. next \in AdminStep
            BY DEF AdminStep
        <3>5. DOMAIN shards' = Admin /\ \A b \in Admin : ShardsOK(shards'[b])
            BY <1>1, <2>3
        <3>6. AdminTypeOK' /\ JobsGiven'
            BY <1>1, <2>1, <3>2, <3>3, <3>4, <3>5, GoOnTypes DEF Typed
        <3> QED
            BY <1>3, <2>1, <3>6 DEF Typed
    <2> QED
        BY <1>7, <2>2, <2>3 DEF LockQuestion
<1>8. CASE CheckJournal(a)
    <2>1. step[a] = "votes" /\ UNCHANGED <<storeVars, issued, past>>
        BY <1>8 DEF CheckJournal
    <2>2. CASE Finish(a, Refusal(a))
        BY <1>3, <1>4, <2>1, <2>2 DEF AdminAnswer, Refusal, Typed
    <2>3. CASE GoOn(a, "shards") /\ UNCHANGED <<held, shards, known>>
        <3>1. "shards" \in AdminStep
            BY DEF AdminStep
        <3>2. AdminTypeOK' /\ JobsGiven'
            BY <1>1, <2>1, <2>3, <3>1, GoOnTypes DEF Typed
        <3> QED
            BY <1>3, <2>1, <3>2 DEF Typed
    <2> QED
        BY <1>8, <2>2, <2>3 DEF CheckJournal
<1>9. CASE CheckShard(a)
    <2> DEFINE found == counters[NextShardKey(Target(a), shards[a])]
               read == Append(shards[a], found)
    <2>1. step[a] = "shards" /\ UNCHANGED <<storeVars, issued, past>>
        BY <1>9 DEF CheckShard
    <2>2. /\ shards[a] \in Seq(Range(shards[a]))
          /\ Len(shards[a]) < COUNTER_SHARDS
        BY <2>1 DEF ReadInv, ReadOK
    <2>3. ASSUME found # NotAHash
          PROVE  IsHash(found)
        <3>1. NextShardKey(Target(a), shards[a]) \in CounterKey
            BY <1>2, <2>1, <2>2, ShardsAssumption DEF NextShardKey, CounterKey, Shard
        <3> QED
            BY <2>3, <3>1 DEF Typed, TypeInv, PathTypeOK, StoreTypeOK
    <2>4. ASSUME found # NotAHash
          PROVE  ShardsOK(read)
        <3>1. IsHash(found)
            BY <2>3, <2>4
        <3> HIDE DEF found
        <3>2. shards[a] \in Seq(Range(shards[a]) \cup {found})
            BY <2>2
        <3>3. /\ DOMAIN read = 1 .. Len(read) /\ Len(read) = Len(shards[a]) + 1
              /\ read[Len(shards[a]) + 1] = found
              /\ \A i \in 1 .. Len(shards[a]) : read[i] = shards[a][i]
              /\ Len(shards[a]) \in Nat /\ DOMAIN shards[a] = 1 .. Len(shards[a])
            BY <3>2
        <3> HIDE DEF read
        <3>4. \A i \in DOMAIN shards[a] : IsHash(shards[a][i])
            BY <1>1 DEF ShardsOK
        <3> QED
            BY <2>2, <3>1, <3>3, <3>4, ShardsAssumption DEF ShardsOK
    <2> HIDE DEF found, read
    <2>5. CASE \/ Finish(a, "internal_error") \/ Finish(a, Refusal(a))
        BY <1>3, <1>4, <2>1, <2>5 DEF AdminAnswer, Refusal, Typed
    <2>6. ASSUME found # NotAHash, shards' = [shards EXCEPT ![a] = read]
          PROVE  DOMAIN shards' = Admin /\ \A b \in Admin : ShardsOK(shards'[b])
        BY <1>1, <2>4, <2>6
    <2>7. CASE /\ found # NotAHash /\ shards' = [shards EXCEPT ![a] = read]
               /\ UNCHANGED <<step, reply, job, held, known>>
        <3>1. AdminTypeOK' /\ JobsGiven'
            BY <2>1, <2>6, <2>7 DEF Typed, AdminTypeOK, JobsGiven, ShardsOK
        <3> QED
            BY <1>3, <2>1, <3>1 DEF Typed
    <2>8. CASE /\ found # NotAHash /\ shards' = [shards EXCEPT ![a] = read]
               /\ GoOn(a, "write") /\ UNCHANGED <<held, known>>
        <3>1. "write" \in AdminStep
            BY DEF AdminStep
        <3>2. AdminTypeOK' /\ JobsGiven'
            BY <1>1, <2>1, <2>6, <2>8, <3>1, GoOnTypes DEF Typed
        <3> QED
            BY <1>3, <2>1, <3>2 DEF Typed
    <2> QED
        BY <1>9, <2>5, <2>7, <2>8 DEF CheckShard, found, read
<1>10. CASE DeleteQuestion(a)
    <2>1. /\ step[a] = "write" /\ UNCHANGED <<now, vote, cache, dedup, counters, issued, past>>
          /\ \/ UNCHANGED <<question, question_option>>
             \/ /\ question' = [question EXCEPT ![Target(a)] = NoRow]
                /\ question_option' = [question_option EXCEPT ![Target(a)] = NoOptions]
        BY <1>10 DEF DeleteQuestion
    <2>2. TypeInv'
        <3>1. /\ question' \in [Question -> Row \cup {NoRow}]
              /\ question_option' \in [Question -> OptionList]
            BY <1>1, <2>1, KeysOfAssumption
        <3> QED
            BY <1>1, <2>1, <3>1, ViewersTyped DEF Typed
    <2>3. CASE Finish(a, "internal_error")
        BY <1>4, <2>1, <2>2, <2>3 DEF AdminAnswer, Typed
    <2>4. CASE GoOn(a, "cache") /\ UNCHANGED <<held, shards, known>>
        <3>1. "cache" \in AdminStep
            BY DEF AdminStep
        <3>2. AdminTypeOK' /\ JobsGiven'
            BY <1>1, <2>1, <2>4, <3>1, GoOnTypes DEF Typed
        <3> QED
            BY <2>2, <3>2 DEF Typed
    <2> QED
        BY <1>10, <2>3, <2>4 DEF DeleteQuestion
<1>11. CASE CacheQuestion(a) \/ EvictQuestion(a)
    <2>1. /\ step[a] = "cache"
          /\ UNCHANGED <<now, question, question_option, vote, dedup, counters, issued, past>>
          /\ \E c \in {held[a], NoCard} : cache' = [cache EXCEPT ![Target(a)] = c]
          /\ \E result \in {"saved", "deleted", "internal_error"} : Finish(a, result)
        BY <1>11 DEF CacheQuestion, EvictQuestion
    <2>2. TypeInv'
        <3>1. cache' \in [Question -> Card \cup {NoCard, Garbled}]
            BY <1>1, <2>1
        <3> QED
            BY <1>1, <2>1, <3>1, ViewersTyped DEF Typed
    <2> QED
        BY <1>4, <2>1, <2>2 DEF AdminAnswer, Typed
<1>12. CASE AdminStoreFails(a)
    BY <1>3, <1>4, <1>12 DEF AdminStoreFails, AdminAnswer, Typed
<1> QED
    BY <1>5, <1>6, <1>7, <1>8, <1>9, <1>10, <1>11, <1>12 DEF AdminMoves, AdminProgress

\* Viewers, the journal, the process and the clock keep them too.
LEMMA PathTypes ==
    ASSUME Typed, [PathNext]_pathVars, UNCHANGED adminVars \/ AdminCrash
    PROVE  Typed'
<1>1. TypeInv'
    BY TypesStay DEF Typed
<1>2. CASE UNCHANGED adminVars
    BY <1>1, <1>2 DEF Typed, AdminTypeOK, JobsGiven, adminVars
<1>3. CASE AdminCrash
    <2>1. AdminTypeOK'
        BY <1>3, ShardsAssumption DEF AdminCrash, Typed, AdminTypeOK, AdminStep, AdminAnswer
    <2>2. JobsGiven'
        BY <1>3 DEF AdminCrash, JobsGiven, AdminInFlight
    <2> QED
        BY <1>1, <2>1, <2>2 DEF Typed
<1> QED
    BY <1>2, <1>3

\* Every variable of viewers and admins keeps its type.
THEOREM TypedInvariant == Spec => []Typed
<1>1. Init => Typed
    <2> SUFFICES ASSUME Init PROVE Typed
        OBVIOUS
    <2>1. TypeInv
        BY TypesStart DEF Init
    <2>2. past \in [Question -> SUBSET (Row \X OptionList)]
        <3>1. /\ question \in [Question -> PollRow \cup {NoRow}]
              /\ question_option \in [Question -> OptionList]
            BY DEF Init, PathInit
        <3>2. \A q \in Question : question[q] # NoRow =>
                  <<question[q], question_option[q]>> \in Row \X OptionList
            BY <3>1, PollRowAssumption
        <3> QED
            BY <3>2 DEF Init, AdminInit
    <2>3. AdminTypeOK
        BY <2>2, ShardsAssumption DEF Init, AdminInit, AdminTypeOK, AdminStep, AdminAnswer
    <2>4. JobsGiven
        BY DEF Init, AdminInit, JobsGiven
    <2> QED
        BY <2>1, <2>3, <2>4 DEF Typed
<1>2. Typed /\ AdminInv /\ LookInv /\ [Next]_vars => Typed'
    BY StepsOfTwoKinds, AdminTypes, PathTypes DEF LookInv
<1> QED
    BY <1>1, <1>2, AdminInvariant, LookInvariant, PTL DEF Spec

\* Every variable keeps its type, the admins' included, whoever edits, reads
\* shards or dies in between.
THEOREM AdminPathTypes == Spec => []TypeOK
<1>1. Typed => TypeOK
    BY DEF Typed, TypeInv, TypeOK
<1> QED
    BY <1>1, TypedInvariant, PTL
-----------------------------------------------------------------------------
\* The ballot box

\* What the ballot box needs, whoever edits the question: viewers' keys outlive
\* the windows of its versions, and so each viewer is counted once.
EditsInv ==
    /\ VersionsGiven /\ LatencyInv /\ KeysOutlive
    /\ ReservedIffCounted /\ OneVotePerViewer
    /\ AnswerInv /\ ProcessInv /\ AccountInv

\* A card made of committed versions closes when one of them does.
LEMMA ClosesAsVersion ==
    ASSUME NEW q \in Question, NEW c, NEW t, FromPast(q, c),
           RequireOpenVotingWindow(c, t) = "open"
    PROVE  \E version \in past[q] :
              version[1].status = "published" /\ ClosesAt(version[1]) = ClosesAt(c)
BY DEF FromPast, RequireOpenVotingWindow, ClosesAt

\* At the script, a handler has a card that closes as a version does, and the
\* key it writes outlives that window by the margin.
LEMMA EvalUnderEdits ==
    ASSUME TypeInv, CommittedInv, LatencyInv, NEW r \in Request, pc[r] = "eval"
    PROVE  /\ call[r].key \in DedupKey /\ QuestionOf(r) \in Question
           /\ now \in Nat /\ call[r].at \in Nat /\ now <= call[r].at + MaxLatency
           /\ DedupExpiry(r) \in Nat
           /\ \E version \in past[QuestionOf(r)] :
                 /\ version[1].status = "published"
                 /\ ClosesAt(version[1]) \in Nat
                 /\ call[r].at < ClosesAt(version[1])
                 /\ ClosesAt(version[1]) + SECOND * DEDUP_TTL_MARGIN_SECONDS
                       <= DedupExpiry(r)
<1>1. /\ call[r] \in Call /\ call[r].at <= now /\ card[r] \in Card
      /\ RequireOpenVotingWindow(card[r], call[r].at) = "open"
      /\ now \in Nat
    BY DEF TypeInv, PathTypeOK, StoreTypeOK, HandlerInv, HandlerOK
<1>2. call[r].key \in DedupKey /\ call[r].at \in Nat /\ QuestionOf(r) \in Question
    BY <1>1, CallFields DEF QuestionOf
<1>3. now <= call[r].at + MaxLatency
    BY DEF LatencyInv, InFlight
<1>4. PICK version \in past[QuestionOf(r)] :
          version[1].status = "published" /\ ClosesAt(version[1]) = ClosesAt(card[r])
    BY <1>1, <1>2, ClosesAsVersion DEF CommittedInv, AdmittedInv, AdmittedOK
<1>5. /\ DedupExpiry(r) \in Nat /\ ClosesAt(card[r]) \in Nat
      /\ call[r].at < ClosesAt(card[r])
      /\ ClosesAt(card[r]) + SECOND * DEDUP_TTL_MARGIN_SECONDS <= DedupExpiry(r)
    BY <1>1, DedupExpiryType
<1> QED
    BY <1>1, <1>2, <1>3, <1>4, <1>5

\* No key of a counted viewer has expired when a later vote of the same viewer
\* comes to the script, although the two may have been let in by two versions.
LEMMA FirstsUnderEdits ==
    ASSUME EditsWithinMargin, TypeInv, CommittedInv, VersionsGiven, LatencyInv, KeysOutlive
    PROVE  CountsFirst
<1> SUFFICES ASSUME NEW r \in Request, EvalFirst(r),
                    NEW s \in cast, call[s].key = call[r].key
             PROVE  FALSE
    BY DEF CountsFirst
<1> DEFINE k == call[r].key
           q == QuestionOf(r)
           margin == SECOND * DEDUP_TTL_MARGIN_SECONDS
<1>1. pc[r] = "eval" /\ ~(now < dedup[k])
    BY DEF EvalFirst, ReserveViewerAndIncrementCounter, DedupKeyExists
<1>2. k \in DedupKey /\ q \in Question /\ dedup[k] \in Nat
    BY <1>1, EvalUnderEdits DEF TypeInv, PathTypeOK, StoreTypeOK
<1>3. /\ now \in Nat /\ call[r].at \in Nat /\ now <= call[r].at + MaxLatency
      /\ margin \in Nat /\ MaxLatency \in Nat
    BY <1>1, EvalUnderEdits, SecondAssumption, MarginAssumption, BoundAssumption
<1>4. PICK later \in past[q] : /\ later[1].status = "published"
                               /\ ClosesAt(later[1]) \in Nat
                               /\ call[r].at < ClosesAt(later[1])
    BY <1>1, EvalUnderEdits
<1>5. PICK first \in past[q] : /\ first[1].status = "published"
                               /\ ClosesAt(first[1]) + margin <= dedup[k]
    BY DEF KeysOutlive, QuestionOf
<1>6. ClosesAt(later[1]) + MaxLatency <= ClosesAt(first[1]) + margin
    BY <1>2, <1>4, <1>5 DEF EditsWithinMargin, VersionsGiven
<1> HIDE DEF k, q, margin
<1>7. ClosesAt(later[1]) + MaxLatency <= dedup[k]
    <2>1. first[1] \in Row /\ first[1].status = "published"
        BY <1>2, <1>5, PollRowAssumption, JobFields DEF VersionsGiven, RowsOf
    <2>2. ClosesAt(first[1]) \in Int
        BY <2>1, ClosingTimeAfterShowTime DEF Row, ClosesAt
    <2> QED
        BY <1>2, <1>3, <1>4, <1>5, <1>6, <2>2
<1> QED
    BY <1>1, <1>2, <1>3, <1>4, <1>7

\* Versions are those admins may send.
LEMMA VersionsStay ==
    ASSUME Typed, AdminInv, VersionsGiven, [Next]_vars
    PROVE  VersionsGiven' /\ \A q \in Question : past[q] \subseteq past'[q]
<1>1. CASE past' = past
    BY <1>1 DEF VersionsGiven
<1>2. ASSUME NEW a \in Admin, InsertQuestion(a) \/ UpdateQuestion(a)
      PROVE  VersionsGiven' /\ \A q \in Question : past[q] \subseteq past'[q]
    <2>1. step[a] \notin {"idle", "done"} /\ job[a].kind # "delete" /\ StoreJob(a)
        BY <1>2 DEF InsertQuestion, UpdateQuestion, AdminInv, HolderInv
    <2>2. job[a] \in AdminJob /\ Target(a) = job[a].question /\ Target(a) \in Question
        BY <2>1, JobFields DEF Typed, JobsGiven, Target
    <2>3. job[a].row \in RowsOf(Target(a))
        BY <2>1, <2>2 DEF RowsOf
    <2>4. past' = [past EXCEPT ![Target(a)] = @ \cup {<<job[a].row, job[a].options>>}]
        BY <2>1 DEF StoreJob
    <2>5. past \in [Question -> SUBSET (Row \X OptionList)]
        BY DEF Typed, AdminTypeOK
    <2> QED
        BY <2>2, <2>3, <2>4, <2>5 DEF VersionsGiven
<1>3. \/ past' = past
      \/ \E a \in Admin : InsertQuestion(a) \/ UpdateQuestion(a)
    BY StepsOfTwoKinds
       DEF AdminMoves, StartJob, AdminProgress, LockQuestion, CheckJournal, CheckShard,
           DeleteQuestion, CacheQuestion, EvictQuestion, AdminStoreFails, AdminCrash, adminVars
<1> QED
    BY <1>1, <1>2, <1>3

\* Whatever viewers, journal, process and clock do, keys outlive windows.
LEMMA KeysStay ==
    ASSUME TypeInv, CommittedInv, LatencyInv, CountsFirst, KeysOutlive,
           [PathNext]_pathVars, past' = past
    PROVE  KeysOutlive'
<1>1. \A r \in cast : r \in Request /\ call'[r] = call[r]
    BY CallsStay DEF TypeInv, PathTypeOK, ServiceTypeOK, HandlerInv, HandlerOK
<1>2. CASE cast' = cast /\ dedup' = dedup
    BY <1>1, <1>2 DEF KeysOutlive, QuestionOf
<1>3. ASSUME NEW r \in Request, EvalFirst(r)
      PROVE  KeysOutlive'
    <2> DEFINE k == call[r].key
    <2>1. /\ pc[r] = "eval" /\ call' = call
          /\ dedup' = [dedup EXCEPT ![k] = DedupExpiry(r)]
          /\ cast' = cast \cup {r}
        BY <1>3 DEF EvalFirst, ReserveViewerAndIncrementCounter
    <2>2. k \in DedupKey /\ dedup \in [DedupKey -> Nat]
        BY <2>1, EvalUnderEdits DEF TypeInv, PathTypeOK, StoreTypeOK
    <2>3. \E version \in past[QuestionOf(r)] :
             /\ version[1].status = "published"
             /\ ClosesAt(version[1]) + SECOND * DEDUP_TTL_MARGIN_SECONDS <= dedup'[k]
        BY <2>1, <2>2, EvalUnderEdits
    <2>4. ASSUME NEW s \in cast PROVE dedup'[call[s].key] = dedup[call[s].key]
        <3>1. call[s].key # k
            BY <1>3 DEF CountsFirst
        <3>2. call[s].key \in DedupKey
            BY <1>1, CallFields DEF TypeInv, HandlerInv, HandlerOK
        <3> QED
            BY <2>1, <2>2, <3>1, <3>2
    <2> QED
        BY <2>1, <2>3, <2>4 DEF KeysOutlive, QuestionOf
<1> QED
    BY <1>2, <1>3, OnlyEvalFirstCounts

\* Viewers, journal, process and clock keep the whole invariant.
LEMMA PathEdits ==
    ASSUME EditsWithinMargin, Typed, Typed', AdminInv, CommittedInv, EditsInv, [Next]_vars,
           [PathNext]_pathVars, UNCHANGED adminVars \/ AdminCrash
    PROVE  EditsInv'
<1>1. TypeInv /\ TypeInv'
    BY DEF Typed
<1>2. CountsFirst
    BY <1>1, FirstsUnderEdits DEF EditsInv
<1>3. VersionsGiven'
    BY VersionsStay DEF EditsInv
<1>4. KeysOutlive'
    <2>1. past' = past
        BY DEF adminVars, AdminCrash
    <2> QED
        BY <1>1, <1>2, <2>1, KeysStay DEF EditsInv
<1>5. LatencyInv'
    BY <1>1, LatencyStays DEF EditsInv
<1>6. ReservedIffCounted' /\ OneVotePerViewer'
    BY <1>1, <1>2, OnceStays DEF EditsInv
<1>7. AnswerInv' /\ ProcessInv'
    BY <1>1, AnswersHold, ProcessStays DEF EditsInv
<1>8. AccountInv'
    BY <1>1, <1>2, AccountStays DEF EditsInv
<1> QED
    BY <1>3, <1>4, <1>5, <1>6, <1>7, <1>8 DEF EditsInv

\* What an admin's handler leaves alone, wherever it stands.
LEMMA AdminLeaves ==
    ASSUME NEW a \in Admin, AdminMoves(a)
    PROVE  UNCHANGED <<now, vote, dedup, counters>>
    BY DEF AdminMoves, StartJob, AdminProgress, InsertQuestion, UpdateQuestion,
           LockQuestion, CheckJournal, CheckShard, DeleteQuestion, CacheQuestion,
           EvictQuestion, AdminStoreFails, storeVars

\* So do the admins: what viewers have been promised does not mention them.
LEMMA AdminEdits ==
    ASSUME Typed, AdminInv, EditsInv, [Next]_vars,
           NEW a \in Admin, AdminMoves(a), UNCHANGED <<journalVars, serviceVars>>
    PROVE  EditsInv'
<1>1. UNCHANGED <<now, vote, dedup, counters>>
    BY AdminLeaves
<1>2. VersionsGiven' /\ \A q \in Question : past[q] \subseteq past'[q]
    BY VersionsStay DEF EditsInv
<1>3. KeysOutlive'
    <2>1. \A r \in cast : QuestionOf(r) \in Question
        BY CallFields
           DEF Typed, TypeInv, PathTypeOK, ServiceTypeOK, HandlerInv, HandlerOK, QuestionOf
    <2> QED
        BY <1>1, <1>2, <2>1 DEF EditsInv, KeysOutlive, QuestionOf, serviceVars
<1>4. LatencyInv' /\ ReservedIffCounted' /\ OneVotePerViewer'
    BY <1>1 DEF EditsInv, LatencyInv, InFlight, ReservedIffCounted, OneVotePerViewer, serviceVars
<1>5. AnswerInv'
    BY DEF EditsInv, AnswerInv, CastInv, AnswersHonest, serviceVars
<1>6. ProcessInv'
    BY DEF EditsInv, ProcessInv, InFlight, journalVars, serviceVars
<1>7. AccountInv'
    BY <1>1 DEF EditsInv, AccountInv, DistinctInv, VotesAccounted, OnTheWay, AtJournal,
                EventOf, journalVars, serviceVars
<1> QED
    BY <1>2, <1>3, <1>4, <1>5, <1>6, <1>7 DEF EditsInv

\* As long as edits stay within the margin, a viewer is counted once, answers
\* are true and every counted vote is accounted for, whoever edits meanwhile.
THEOREM EditsInvariant ==
    ASSUME EditsWithinMargin
    PROVE  Spec => []EditsInv
<1>1. Init => EditsInv
    <2> SUFFICES ASSUME Init PROVE EditsInv
        OBVIOUS
    <2>1. PathInit /\ AdminInit
        BY DEF Init
    <2>2. VersionsGiven
        <3>1. \A q \in Question : question[q] # NoRow => question[q] \in PollRow
            BY <2>1 DEF PathInit
        <3> QED
            BY <2>1, <3>1 DEF AdminInit, VersionsGiven, RowsOf
    <2>3. KeysOutlive
        BY <2>1 DEF PathInit, ServiceInit, KeysOutlive
    <2>4. CountInv
        BY <2>1, CountStart
    <2> QED
        BY <2>1, <2>2, <2>3, <2>4, LatencyStart, AnswersStart, ProcessStart, AccountStart
           DEF EditsInv, CountInv
<1>2. Typed /\ Typed' /\ AdminInv /\ CommittedInv /\ EditsInv /\ [Next]_vars => EditsInv'
    BY StepsOfTwoKinds, PathEdits, AdminEdits
<1> QED
    BY <1>1, <1>2, TypedInvariant, AdminInvariant, CommittedInvariant, PTL DEF Spec

\* An edit that moves the broadcast while a key is in Redis lets nobody vote
\* twice, as long as it keeps within the margin.
THEOREM OneVoteUnderEdits ==
    ASSUME EditsWithinMargin
    PROVE  Spec => []OneVotePerViewer
<1>1. EditsInv => OneVotePerViewer
    BY DEF EditsInv
<1> QED
    BY <1>1, EditsInvariant, PTL

\* Within that margin the shards add up to the counted votes, whatever options
\* the question has been given since: the inductive form of CountersUnderEdits.
THEOREM CountersEditsInvariant ==
    ASSUME EditsWithinMargin
    PROVE  Spec => []CountersInv
<1>1. Init => CountersInv
    BY CountersStart DEF Init
<1>2. Typed /\ CommittedInv /\ EditsInv /\ CountersInv /\ [Next]_vars => CountersInv'
    <2> SUFFICES ASSUME Typed, CommittedInv, EditsInv, CountersInv, [Next]_vars
                 PROVE  CountersInv'
        OBVIOUS
    <2>1. CASE [PathNext]_pathVars
        <3>1. TypeInv /\ CountsFirst
            BY FirstsUnderEdits DEF Typed, EditsInv
        <3> QED
            BY <2>1, <3>1, CountersStay
    <2>2. ASSUME NEW a \in Admin, AdminMoves(a), UNCHANGED <<journalVars, serviceVars>>
          PROVE  CountersInv'
        BY <2>2, AdminLeaves DEF CountersInv, CountersMatchVotes, serviceVars
    <2> QED
        BY <2>1, <2>2, StepsOfTwoKinds
<1> QED
    BY <1>1, <1>2, TypedInvariant, CommittedInvariant, EditsInvariant, PTL DEF Spec

\* Edits do not take a vote out of the counters, and a vote for an option the
\* question has lost stays in its field.
THEOREM CountersUnderEdits ==
    ASSUME EditsWithinMargin
    PROVE  Spec => []CountersMatchVotes
<1>1. CountersInv => CountersMatchVotes
    BY DEF CountersInv
<1> QED
    BY <1>1, CountersEditsInvariant, PTL

\* Viewers and admins together implement the ballot box: within that margin,
\* no edit, deletion or stale card casts a viewer's ballot twice, takes one
\* back, or makes one disappear from the accounts.
THEOREM EditsUnseen ==
    ASSUME EditsWithinMargin
    PROVE  Spec => BallotBoxUnderEdits
<1>1. Init => Box!Init
    BY BoxStarts DEF Init
<1>2. Typed /\ CommittedInv /\ EditsInv /\ EditsInv' /\ [Next]_vars => [Box!Next]_Box!vars
    <2> SUFFICES ASSUME Typed, CommittedInv, EditsInv, EditsInv', [Next]_vars
                 PROVE  [Box!Next]_Box!vars
        OBVIOUS
    <2>1. CASE [PathNext]_pathVars
        <3>1. TypeInv /\ CountsFirst
            BY FirstsUnderEdits DEF Typed, EditsInv
        <3> QED
            BY <2>1, <3>1, BoxSteps DEF EditsInv, AccountInv
    <2>2. ASSUME NEW a \in Admin, AdminMoves(a), UNCHANGED <<journalVars, serviceVars>>
          PROVE  UNCHANGED Box!vars
        BY <2>2, AdminLeaves DEF journalVars, serviceVars, Box!vars, EventOf
    <2> QED
        BY <2>1, <2>2, StepsOfTwoKinds
<1> QED
    BY <1>1, <1>2, TypedInvariant, CommittedInvariant, EditsInvariant, PTL
       DEF Spec, BallotBoxUnderEdits, BallotBoxSpec, Box!Spec
=============================================================================
