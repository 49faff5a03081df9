--------------------------- MODULE BallotBoxProofs --------------------------
(***************************************************************************)
(* What becomes of a counted vote: answers are true, the counters add up,  *)
(* an orderly shutdown loses nothing, and the event of the vote is, at     *)
(* every moment, on its way to the journal, in the table vote or lost, and *)
(* in one of these places only; hence the vote path implements BallotBox.  *)
(***************************************************************************)
EXTENDS VotePathProofs, FiniteSetTheorems

-----------------------------------------------------------------------------
\* Answers

\* Only handlers in flight move, and each counted vote was counted for good.
LEMMA CastGrows ==
    ASSUME [PathNext]_pathVars
    PROVE  cast \subseteq cast'
    BY OnlyEvalFirstCounts DEF EvalFirst, ReserveViewerAndIncrementCounter

AnswerInv == CastInv /\ AnswersHonest

\* Nobody has an answer at the start.
LEMMA AnswersStart ==
    PathInit => AnswerInv
    BY DEF PathInit, ServiceInit, AnswerInv, CastInv, AnswersHonest

\* A step answers no one but its own request, and truly.
LEMMA AnswersHold ==
    TypeInv /\ ReservedIffCounted /\ AnswerInv /\ [PathNext]_pathVars => AnswerInv'
<1> SUFFICES ASSUME TypeInv, ReservedIffCounted, AnswerInv, [PathNext]_pathVars
             PROVE  AnswerInv'
    OBVIOUS
<1>1. /\ pc \in [Request -> Location]
      /\ answer \in [Request -> Answer]
      /\ card \in [Request -> Card \cup {NoCard}]
      /\ call \in [Request -> Call \cup {NoCall}]
      /\ dedup \in [DedupKey -> Nat] /\ now \in Nat
      /\ cast \subseteq Request
    BY DEF TypeInv, PathTypeOK, StoreTypeOK, ServiceTypeOK
<1>2. \A r \in Request : pc[r] # "idle" =>
          call[r] \in Call /\ call[r].key \in DedupKey /\ call'[r] = call[r]
    BY CallsStay, CallFields DEF TypeInv, HandlerInv, HandlerOK
<1>3. \A r \in cast : r \in Request /\ pc[r] \in {"eval", "journal", "done"}
    BY <1>1 DEF TypeInv, HandlerInv, HandlerOK
<1>4. cast \subseteq cast'
    BY CastGrows
<1> DEFINE Refused == {"not_published", "window_not_started", "window_closed",
                       "invalid_option", "not_found", "internal_error", "form"}
           OK(r) == /\ pc[r] = "journal" => r \in cast
                    /\ pc[r] # "done" => answer[r] = "none"
                    /\ answer[r] = "accepted" => r \in cast
                    /\ answer[r] = "already_voted" =>
                          \E s \in cast : call[s].key = call[r].key
                    /\ answer[r] \in Refused => r \notin cast
<1>5. \A r \in Request : OK(r)
    BY DEF AnswerInv, CastInv, AnswersHonest
<1> SUFFICES \A r \in Request : OK(r)'
    BY DEF AnswerInv, CastInv, AnswersHonest
<1>6. ASSUME NEW r \in Request, pc'[r] = pc[r], answer'[r] = answer[r],
             r \in cast' => r \in cast
      PROVE  OK(r)'
    <2>1. OK(r)
        BY <1>5
    <2>2. ASSUME answer[r] = "already_voted"
          PROVE  \E s \in cast' : call'[s].key = call'[r].key
        <3>1. PICK s \in cast : call[s].key = call[r].key
            BY <2>1, <2>2
        <3>2. pc[r] = "done" /\ pc[s] # "idle"
            BY <1>3, <2>1, <2>2
        <3> QED
            BY <1>2, <1>3, <1>4, <3>1, <3>2
    <2> QED
        BY <1>4, <1>6, <2>1, <2>2
<1>7. ASSUME NEW r \in Request, cast' = cast,
             \A s \in Request \ {r} : pc'[s] = pc[s] /\ answer'[s] = answer[s],
             OK(r)'
      PROVE  \A s \in Request : OK(s)'
    BY <1>6, <1>7
<1>8. ASSUME NEW r \in Request, NEW location \in Location \ {"journal", "done"},
             GoTo(r, location), pc[r] # "done", cast' = cast
      PROVE  \A s \in Request : OK(s)'
    <2>1. /\ pc'[r] = location /\ answer' = answer
          /\ \A s \in Request \ {r} : pc'[s] = pc[s]
        BY <1>1, <1>8, GoToType
    <2>2. answer[r] = "none"
        BY <1>5, <1>8
    <2> QED
        BY <1>7, <1>8, <2>1, <2>2
<1>9. ASSUME NEW r \in Request, NEW result \in Answer, Reply(r, result),
             cast' = cast,
             result = "accepted" => r \in cast,
             result \in Refused => r \notin cast,
             result = "already_voted" => \E s \in cast : call'[s].key = call'[r].key
      PROVE  \A s \in Request : OK(s)'
    <2>1. /\ pc'[r] = "done" /\ answer'[r] = result
          /\ \A s \in Request \ {r} : pc'[s] = pc[s] /\ answer'[s] = answer[s]
        BY <1>1, <1>9, ReplyType
    <2>2. OK(r)'
        BY <1>9, <2>1
    <2> QED
        BY <1>7, <1>9, <2>1, <2>2
<1>10. ASSUME NEW r \in Request, NEW c \in Card, Admit(r, c), cast' = cast,
              pc[r] \in {"get", "warm"}
       PROVE  \A s \in Request : OK(s)'
    <2>1. call[r] \in Call /\ r \notin cast /\ answer[r] = "none"
        BY <1>2, <1>3, <1>5, <1>10
    <2>2. /\ \A s \in Request \ {r} : pc'[s] = pc[s] /\ answer'[s] = answer[s]
          /\ pc'[r] \in {"exists", "eval", "done"}
          /\ pc'[r] \in {"exists", "eval"} => answer'[r] = answer[r]
          /\ pc'[r] = "done" =>
                answer'[r] \in {"not_published", "window_not_started",
                                "window_closed", "invalid_option"}
        BY <1>1, <1>10, <2>1, AdmitEffect
    <2>3. OK(r)'
        BY <1>10, <2>1, <2>2
    <2> QED
        BY <1>7, <1>10, <2>2, <2>3
<1>11. ASSUME NEW r \in Request, StartRequest(r)
       PROVE  \A s \in Request : OK(s)'
    BY <1>8, <1>11 DEF StartRequest, Location
<1>12. ASSUME NEW r \in Request, GetCached(r)
       PROVE  \A s \in Request : OK(s)'
    <2>1. pc[r] = "get" /\ cast' = cast /\ QuestionOf(r) \in Question
        BY <1>2, <1>12, CallFields DEF GetCached, QuestionOf
    <2>2. CASE cache[QuestionOf(r)] \notin {NoCard, Garbled} /\ Admit(r, cache[QuestionOf(r)])
        <3>1. cache[QuestionOf(r)] \in Card
            BY <2>1, <2>2 DEF TypeInv, PathTypeOK, StoreTypeOK
        <3> QED
            BY <1>10, <2>1, <2>2, <3>1
    <2>3. CASE GoTo(r, "load_row") \/ GoTo(r, "drop")
        BY <1>8, <2>1, <2>3 DEF Location
    <2> QED
        BY <1>12, <2>2, <2>3 DEF GetCached
<1>13. ASSUME NEW r \in Request, DropGarbled(r) \/ LoadRow(r) \/ LoadOptions(r)
       PROVE  \A s \in Request : OK(s)'
    <2>1. pc[r] \in {"drop", "load_row", "load_options"} /\ cast' = cast /\ r \notin cast
        BY <1>3, <1>13 DEF DropGarbled, LoadRow, LoadOptions
    <2>2. CASE GoTo(r, "load_row") \/ GoTo(r, "load_options") \/ GoTo(r, "warm")
        BY <1>8, <2>1, <2>2 DEF Location
    <2>3. CASE Reply(r, "unavailable") \/ Reply(r, "not_found")
        BY <1>9, <2>1, <2>3 DEF Answer
    <2> QED
        BY <1>13, <2>2, <2>3 DEF DropGarbled, LoadRow, LoadOptions
<1>14. ASSUME NEW r \in Request, WarmCache(r)
       PROVE  \A s \in Request : OK(s)'
    <2>1. pc[r] = "warm" /\ cast' = cast /\ r \notin cast /\ card[r] \in Card
        BY <1>3, <1>14 DEF WarmCache, TypeInv, HandlerInv, HandlerOK
    <2>2. CASE Admit(r, card[r])
        BY <1>10, <2>1, <2>2
    <2>3. CASE Reply(r, "unavailable")
        BY <1>9, <2>1, <2>3 DEF Answer
    <2> QED
        BY <1>14, <2>2, <2>3 DEF WarmCache
<1>15. ASSUME NEW r \in Request, DedupKeyExists(call[r].key), pc[r] # "idle"
       PROVE  \E s \in cast : call'[s].key = call'[r].key
    <2>1. dedup[call[r].key] > 0
        BY <1>1, <1>2, <1>15 DEF DedupKeyExists
    <2>2. PICK s \in cast : call[s].key = call[r].key
        BY <1>2, <1>15, <2>1 DEF ReservedIffCounted
    <2> QED
        BY <1>2, <1>3, <1>15, <2>2
<1>16. ASSUME NEW r \in Request, CheckVoted(r) \/ EvalRepeated(r)
       PROVE  \A s \in Request : OK(s)'
    <2>1. pc[r] \in {"exists", "eval"} /\ cast' = cast
        BY <1>16 DEF CheckVoted, EvalRepeated
    <2>2. CASE DedupKeyExists(call[r].key) /\ Reply(r, "already_voted")
        BY <1>9, <1>15, <2>1, <2>2 DEF Answer
    <2>3. CASE pc[r] = "exists" /\ Reply(r, "form")
        BY <1>3, <1>9, <2>1, <2>3 DEF Answer
    <2> QED
        BY <1>16, <2>2, <2>3 DEF CheckVoted, EvalRepeated
<1>17. ASSUME NEW r \in Request, EvalWrongType(r) \/ RedisFails(r)
       PROVE  \A s \in Request : OK(s)'
    BY <1>9, <1>17 DEF EvalWrongType, RedisFails, Answer
<1>18. ASSUME NEW r \in Request, DatabaseFails(r)
       PROVE  \A s \in Request : OK(s)'
    BY <1>3, <1>9, <1>18 DEF DatabaseFails, Answer
<1>19. ASSUME NEW r \in Request, EvalFirst(r)
       PROVE  \A s \in Request : OK(s)'
    <2>1. pc[r] = "eval" /\ cast' = cast \cup {r} /\ answer[r] = "none"
        BY <1>5, <1>19 DEF EvalFirst, ReserveViewerAndIncrementCounter
    <2>2. CASE GoTo(r, "journal") \/ GoTo(r, "eval")
        <3>1. /\ pc'[r] \in {"journal", "eval"} /\ answer' = answer
              /\ \A s \in Request \ {r} : pc'[s] = pc[s]
            BY <1>1, <2>2, GoToType DEF Location
        <3> QED
            BY <1>6, <2>1, <3>1
    <2>3. CASE Reply(r, "unavailable")
        <3>1. /\ pc'[r] = "done" /\ answer'[r] = "unavailable"
              /\ \A s \in Request \ {r} : pc'[s] = pc[s] /\ answer'[s] = answer[s]
            BY <1>1, <2>3, ReplyType DEF Answer
        <3> QED
            BY <1>6, <2>1, <3>1
    <2> QED
        BY <1>19, <2>2, <2>3 DEF EvalFirst
<1>20. ASSUME NEW r \in Request, JournalVote(r)
       PROVE  \A s \in Request : OK(s)'
    <2>1. pc[r] = "journal" /\ cast' = cast /\ r \in cast
        BY <1>5, <1>20 DEF JournalVote
    <2> QED
        BY <1>9, <1>20, <2>1 DEF JournalVote, Answer
<1>21. ASSUME ApiCrash
       PROVE  \A r \in Request : OK(r)'
    <2>1. /\ cast' = cast
          /\ pc' = [r \in Request |-> IF r \in InFlight THEN "done" ELSE pc[r]]
          /\ answer' = [r \in Request |->
                IF r \in InFlight THEN "connection_lost" ELSE answer[r]]
        BY <1>21 DEF ApiCrash
    <2> QED
        BY <1>6, <2>1
<1>22. ASSUME UNCHANGED serviceVars
       PROVE  \A r \in Request : OK(r)'
    BY <1>6, <1>22 DEF serviceVars
<1>23. ASSUME WorkerStep \/ Tick \/ ApiDrained \/ UNCHANGED pathVars
                \/ ((ApiShutdown \/ JournalClose \/ ApiStart) /\ UNCHANGED serviceVars)
       PROVE  UNCHANGED serviceVars
    BY <1>23 DEF WorkerStep, Tick, ApiDrained, pathVars
<1> HIDE DEF OK
<1> QED
    BY <1>11, <1>12, <1>13, <1>14, <1>16, <1>17, <1>18, <1>19, <1>20, <1>21,
       <1>22, <1>23
    DEF PathNext, HandlerNext, ProcessStep

\* Answers are true, votes reach the journal only counted, and nobody has an
\* answer before the handler ends: the inductive form of Honest.
THEOREM AnswerInvariant == PathSpec => []AnswerInv
    BY AnswersStart, AnswersHold, TypeInvariant, Reserved, PTL DEF PathSpec

\* "accepted" only for a counted vote, 409 only for a viewer who has one, and
\* no counted vote behind a refusal.
THEOREM Honest == PathSpec => []AnswersHonest
    BY AnswerInvariant, PTL DEF AnswerInv

-----------------------------------------------------------------------------
\* Counters

CountersInv == IsFiniteSet(cast) /\ CountersMatchVotes

\* The votes counted in field option of shard c.
Votes(c, option) == {r \in cast : /\ ResultCounterKey(call[r].key) = c
                                  /\ call[r].option = option}

\* No vote is counted at the start, and no shard has a count.
LEMMA CountersStart ==
    PathInit => CountersInv
<1> SUFFICES ASSUME PathInit PROVE CountersInv
    OBVIOUS
<1>1. cast = {} /\ IsFiniteSet({}) /\ Cardinality({}) = 0
    BY FS_EmptySet DEF PathInit, ServiceInit
<1>2. ASSUME NEW c \in CounterKey, NEW option \in OptionKey
      PROVE  /\ Votes(c, option) = {}
             /\ counters[c] # NotAHash => CountOf(counters[c], option) = 0
    BY <1>1 DEF PathInit, Votes, CountOf, EmptyHash
<1> QED
    BY <1>1, <1>2 DEF CountersInv, CountersMatchVotes, Votes

\* While viewers are counted once, the script adds a vote to the count of its
\* shard and option, and nothing else moves the counters.
LEMMA CountersStay ==
    ASSUME TypeInv, CountsFirst, CountersInv, [PathNext]_pathVars
    PROVE  CountersInv'
<1>1. \A s \in cast : s \in Request /\ call[s].key \in DedupKey /\ call'[s] = call[s]
    BY CallsStay, CallFields DEF TypeInv, PathTypeOK, ServiceTypeOK, HandlerInv, HandlerOK
<1>2. CASE cast' = cast /\ counters' = counters
    <2>1. \A c \in CounterKey, option \in OptionKey : Votes(c, option)' = Votes(c, option)
        BY <1>1, <1>2 DEF Votes
    <2> QED
        BY <1>2, <2>1 DEF CountersInv, CountersMatchVotes, Votes
<1>3. ASSUME NEW r \in Request, EvalFirst(r)
      PROVE  CountersInv'
    <2> DEFINE shard == ResultCounterKey(call[r].key)
    <2>1. /\ pc[r] = "eval" /\ call' = call
          /\ counters[shard] # NotAHash
          /\ counters' = [counters EXCEPT ![shard] =
                            HIncrBy(counters[shard], call[r].option)]
          /\ cast' = cast \cup {r}
        BY <1>3 DEF EvalFirst, ReserveViewerAndIncrementCounter
    <2>2. /\ call[r] \in Call /\ call[r].key \in DedupKey
          /\ call[r].option \in OptionKey
        BY <2>1, CallFields DEF TypeInv, HandlerInv, HandlerOK
    <2>3. r \notin cast
        BY <1>3 DEF CountsFirst
    <2>4. shard \in CounterKey /\ DOMAIN counters = CounterKey
        BY <2>2, CounterKeyType DEF TypeInv, PathTypeOK, StoreTypeOK
    <2>5. /\ counters'[shard] = HIncrBy(counters[shard], call[r].option)
          /\ \A c \in CounterKey : c # shard => counters'[c] = counters[c]
        <3> HIDE DEF shard
        <3> QED
            BY <2>1, <2>4
    <2>6. counters'[shard] # NotAHash
        <3>1. IsHash(counters[shard])
            BY <2>1, <2>4 DEF TypeInv, PathTypeOK, StoreTypeOK
        <3>2. IsHash(counters'[shard])
            BY <2>2, <2>5, <3>1, HIncrByType
        <3>3. DOMAIN counters'[shard] \in SUBSET OptionKey
            BY <3>2 DEF IsHash
        <3> QED
            BY <3>2, <3>3, SentinelAssumption DEF IsHash
    <2>7. IsFiniteSet(cast')
        BY <2>1, FS_AddElement DEF CountersInv
    <2>8. ASSUME NEW c \in CounterKey, NEW option \in OptionKey
          PROVE  IF counters'[c] = NotAHash THEN Votes(c, option)' = {}
                 ELSE CountOf(counters'[c], option) = Cardinality(Votes(c, option)')
        <3>1. IF counters[c] = NotAHash THEN Votes(c, option) = {}
              ELSE CountOf(counters[c], option) = Cardinality(Votes(c, option))
            BY DEF CountersInv, CountersMatchVotes, Votes
        <3>2. CASE c = shard /\ option = call[r].option
            <4>1. Votes(c, option)' = Votes(c, option) \cup {r}
                BY <2>1, <3>2 DEF Votes
            <4>2. IsFiniteSet(Votes(c, option)) /\ r \notin Votes(c, option)
                BY <2>3, FS_Subset DEF Votes, CountersInv
            <4>3. Cardinality(Votes(c, option)') = Cardinality(Votes(c, option)) + 1
                BY <4>1, <4>2, FS_AddElement
            <4>4. CountOf(counters'[c], option) = CountOf(counters[c], option) + 1
                BY <2>5, <3>2, HIncrByCount
            <4> QED
                BY <2>1, <2>6, <3>1, <3>2, <4>3, <4>4
        <3>3. CASE ~(c = shard /\ option = call[r].option)
            <4>1. Votes(c, option)' = Votes(c, option)
                BY <2>1, <3>3 DEF Votes
            <4>2. CASE c = shard
                <5>1. CountOf(counters'[c], option) = CountOf(counters[c], option)
                    BY <2>5, <3>3, <4>2, HIncrByCount
                <5> QED
                    BY <2>1, <2>6, <3>1, <4>1, <4>2, <5>1
            <4>3. CASE c # shard
                BY <2>5, <3>1, <4>1, <4>3
            <4> QED
                BY <4>2, <4>3
        <3> QED
            BY <3>2, <3>3
    <2> QED
        BY <2>7, <2>8 DEF CountersInv, CountersMatchVotes, Votes
<1> QED
    BY <1>2, <1>3, OnlyEvalFirstCounts

\* Finitely many votes are counted at any time, and the shards add up to
\* them: the inductive form of CountersCorrect.
THEOREM CountersInvariant == PathSpec => []CountersInv
<1>1. PathInit => CountersInv
    BY CountersStart
<1>2. TypeInv /\ CardInv /\ LatencyInv /\ CountInv /\ CountersInv /\ [PathNext]_pathVars
        => CountersInv'
    BY FirstsCounted, CountersStay
<1> QED
    BY <1>1, <1>2, TypeInvariant, CardInvariant, LatencyInvariant, CountInvariant, PTL
    DEF PathSpec

\* A shard's field is the number of counted votes of its viewers for that
\* option, whatever the handlers' interleaving.
THEOREM CountersCorrect == PathSpec => []CountersMatchVotes
    BY CountersInvariant, PTL DEF CountersInv

-----------------------------------------------------------------------------
\* The process and its journal

\* The journal is empty at the start.
LEMMA ProcessStart ==
    PathInit => ProcessInv
    BY DEF PathInit, JournalInit, ServiceInit, ProcessInv, InFlight

\* A step keeps events and handlers to a process that runs.
LEMMA ProcessStays ==
    TypeInv /\ ProcessInv /\ [PathNext]_pathVars => ProcessInv'
<1> SUFFICES ASSUME TypeInv, ProcessInv, [PathNext]_pathVars
             PROVE  ProcessInv'
    OBVIOUS
<1>1. ASSUME NEW r \in Request, StartRequest(r)
      PROVE  ProcessInv'
    BY <1>1 DEF StartRequest, journalVars, ProcessInv
<1>2. ASSUME NEW r \in Request, HandlerNext(r)
      PROVE  ProcessInv'
    <2>1. api \notin {"closing", "down", "crashed"}
        <3>1. r \in InFlight
            BY <1>2 DEF HandlerNext, GetCached, DropGarbled, LoadRow, LoadOptions,
               WarmCache, CheckVoted, EvalRepeated, EvalWrongType, EvalFirst,
               JournalVote, RedisFails, DatabaseFails, InFlight
        <3> QED
            BY <3>1 DEF ProcessInv
    <2>2. /\ api' = api /\ worker' = worker /\ batch' = batch
          /\ queue' = queue \/ ASYNC
        BY <1>2 DEF HandlerNext, GetCached, DropGarbled, LoadRow, LoadOptions,
           WarmCache, CheckVoted, EvalRepeated, EvalWrongType, EvalFirst,
           JournalVote, RedisFails, DatabaseFails, journalVars
    <2> QED
        BY <2>1, <2>2 DEF ProcessInv
<1>3. CASE WorkerStep
    <2>1. /\ api' = api /\ worker # "none" /\ worker' # "none"
          /\ UNCHANGED serviceVars
        BY <1>3 DEF WorkerStep, WorkerNext, WorkerTake, WorkerFlush, WorkerWrite
    <2> QED
        BY <2>1 DEF ProcessInv, InFlight, serviceVars
<1>4. CASE UNCHANGED serviceVars /\ (ApiShutdown \/ JournalClose \/ ApiStart)
    BY <1>4, AsyncAssumption DEF ApiShutdown, JournalClose, ApiStart, ProcessInv,
       InFlight, serviceVars
<1>5. CASE ApiDrained
    BY <1>5 DEF ApiDrained, ProcessInv, InFlight, serviceVars
<1>6. CASE ApiCrash
    <2>1. pc' = [r \in Request |-> IF r \in InFlight THEN "done" ELSE pc[r]]
        BY <1>6 DEF ApiCrash
    <2>2. InFlight' = {}
        BY <2>1 DEF InFlight
    <2> QED
        BY <1>6, <2>2 DEF ApiCrash, JournalCrash, ProcessInv
<1>7. CASE Tick \/ UNCHANGED pathVars
    BY <1>7 DEF Tick, pathVars, journalVars, serviceVars, ProcessInv, InFlight
<1> QED
    BY <1>1, <1>2, <1>3, <1>4, <1>5, <1>6, <1>7 DEF PathNext, ProcessStep

\* Queue, batch and handlers exist only in a process that runs (lifespan,
\* VoteJournal.start and close).
THEOREM ProcessInvariant == PathSpec => []ProcessInv
    BY ProcessStart, ProcessStays, TypeInvariant, PTL DEF PathSpec

\* An orderly stop takes no vote with it: when join returns, neither the queue
\* nor the worker holds an event.
THEOREM ShutdownSafe == PathSpec => ShutdownLosesNothing
<1>1. TypeInv /\ ProcessInv /\ [PathNext]_pathVars => [api' = "down" => lost' = lost]_pathVars
    <2> SUFFICES ASSUME TypeInv, ProcessInv, [PathNext]_pathVars, api' = "down"
                 PROVE  lost' = lost
        OBVIOUS
    <2>1. CASE JournalClose
        <3>1. queue = <<>> /\ batch = <<>>
            <4>1. CASE worker = "none"
                BY <4>1 DEF ProcessInv
            <4>2. CASE unfinished = 0
                <5>1. /\ queue \in Seq(VoteEvent) /\ batch \in Seq(VoteEvent)
                      /\ Len(queue) + Len(batch) = 0
                    BY <4>2 DEF TypeInv, PathTypeOK, JournalTypeOK, UnfinishedExact
                <5>2. Len(queue) = 0 /\ Len(batch) = 0
                    BY <5>1
                <5> QED
                    BY <5>1, <5>2
            <4> QED
                BY <2>1, <4>1, <4>2 DEF JournalClose, JoinReturns
        <3>2. Range(queue) = {} /\ Range(batch) = {}
            BY <3>1 DEF Range
        <3> QED
            BY <2>1, <3>2 DEF JournalClose
    <2>2. CASE ~JournalClose
        <3>1. ~ApiCrash /\ ~ApiStart /\ ~ApiShutdown /\ ~ApiDrained
            BY DEF ApiCrash, JournalCrash, ApiStart, ApiShutdown, ApiDrained
        <3>2. ASSUME NEW r \in Request, HandlerNext(r)
              PROVE  FALSE
            <4>1. r \in InFlight /\ api' = api
                BY <3>2 DEF HandlerNext, GetCached, DropGarbled, LoadRow, LoadOptions,
                   WarmCache, CheckVoted, EvalRepeated, EvalWrongType, EvalFirst,
                   JournalVote, RedisFails, DatabaseFails, InFlight, journalVars
            <4> QED
                BY <4>1 DEF ProcessInv
        <3>3. ASSUME WorkerStep
              PROVE  FALSE
            BY <3>3 DEF WorkerStep, WorkerNext, WorkerTake, WorkerFlush, WorkerWrite,
               ProcessInv
        <3>4. ASSUME NEW r \in Request, StartRequest(r)
              PROVE  lost' = lost
            BY <3>4 DEF StartRequest, journalVars
        <3>5. CASE Tick \/ UNCHANGED pathVars
            BY <3>5 DEF Tick, pathVars, journalVars
        <3> QED
            BY <2>2, <3>1, <3>2, <3>3, <3>4, <3>5 DEF PathNext, ProcessStep
    <2> QED
        BY <2>1, <2>2
<1> QED
    BY <1>1, TypeInvariant, ProcessInvariant, PTL DEF PathSpec, ShutdownLosesNothing

-----------------------------------------------------------------------------
\* Lemmas on sequences of events

\* Appending an element adds it to the range; a new element keeps a sequence
\* free of repetitions (queue.put_nowait, the worker's batch.append).
LEMMA RangeAppend ==
    ASSUME NEW S, NEW seq \in Seq(S), NEW e \in S
    PROVE  /\ Range(Append(seq, e)) = Range(seq) \cup {e}
           /\ (\A i, j \in DOMAIN seq : seq[i] = seq[j] => i = j) /\ e \notin Range(seq)
                => \A i, j \in DOMAIN Append(seq, e) :
                      Append(seq, e)[i] = Append(seq, e)[j] => i = j
<1> DEFINE longer == Append(seq, e)
<1>1. /\ longer \in Seq(S) /\ Len(seq) \in Nat
      /\ DOMAIN longer = 1 .. Len(seq) + 1 /\ DOMAIN seq = 1 .. Len(seq)
      /\ longer[Len(seq) + 1] = e
      /\ \A i \in 1 .. Len(seq) : longer[i] = seq[i]
    OBVIOUS
<1> HIDE DEF longer
<1>2. Range(longer) = Range(seq) \cup {e}
    <2>1. ASSUME NEW x \in Range(longer)
          PROVE  x \in Range(seq) \cup {e}
        BY <1>1 DEF Range
    <2>2. ASSUME NEW x \in Range(seq)
          PROVE  x \in Range(longer)
        BY <1>1 DEF Range
    <2>3. e \in Range(longer)
        BY <1>1 DEF Range
    <2> QED
        BY <2>1, <2>2, <2>3
<1>3. ASSUME \A i, j \in DOMAIN seq : seq[i] = seq[j] => i = j, e \notin Range(seq),
             NEW i \in DOMAIN longer, NEW j \in DOMAIN longer, longer[i] = longer[j]
      PROVE  i = j
    BY <1>1, <1>3 DEF Range
<1> QED
    BY <1>2, <1>3 DEF longer

\* Taking the head of a sequence without repetitions removes just that element
\* from its range (queue.get).
LEMMA RangeTail ==
    ASSUME NEW S, NEW seq \in Seq(S), seq # <<>>
    PROVE  /\ Head(seq) \in S
           /\ Range(seq) = {Head(seq)} \cup Range(Tail(seq))
           /\ (\A i, j \in DOMAIN seq : seq[i] = seq[j] => i = j)
                => /\ Head(seq) \notin Range(Tail(seq))
                   /\ \A i, j \in DOMAIN Tail(seq) : Tail(seq)[i] = Tail(seq)[j] => i = j
<1> DEFINE rest == Tail(seq)
<1>1. /\ rest \in Seq(S) /\ Len(seq) \in Nat /\ Len(seq) > 0
      /\ DOMAIN seq = 1 .. Len(seq) /\ DOMAIN rest = 1 .. Len(seq) - 1
      /\ Head(seq) = seq[1] /\ seq[1] \in S
      /\ \A i \in 1 .. Len(seq) - 1 : rest[i] = seq[i + 1]
    OBVIOUS
<1> HIDE DEF rest
<1>2. Range(seq) = {Head(seq)} \cup Range(rest)
    <2>1. ASSUME NEW i \in DOMAIN seq
          PROVE  seq[i] \in {Head(seq)} \cup Range(rest)
        <3>1. CASE i = 1
            BY <1>1, <3>1
        <3>2. CASE i # 1
            <4>1. i - 1 \in DOMAIN rest /\ rest[i - 1] = seq[i]
                BY <1>1, <3>2
            <4> QED
                BY <4>1 DEF Range
        <3> QED
            BY <3>1, <3>2
    <2>2. ASSUME NEW i \in DOMAIN rest
          PROVE  rest[i] \in Range(seq)
        <3>1. i + 1 \in DOMAIN seq /\ rest[i] = seq[i + 1]
            BY <1>1
        <3> QED
            BY <3>1 DEF Range
    <2>3. Head(seq) \in Range(seq)
        BY <1>1 DEF Range
    <2> QED
        BY <2>1, <2>2, <2>3 DEF Range
<1>3. ASSUME \A i, j \in DOMAIN seq : seq[i] = seq[j] => i = j
      PROVE  /\ Head(seq) \notin Range(rest)
             /\ \A i, j \in DOMAIN rest : rest[i] = rest[j] => i = j
    <2>1. ASSUME NEW i \in DOMAIN rest
          PROVE  rest[i] # Head(seq)
        <3>1. i + 1 \in DOMAIN seq /\ 1 \in DOMAIN seq /\ rest[i] = seq[i + 1] /\ i + 1 # 1
            BY <1>1
        <3> QED
            BY <1>1, <1>3, <3>1
    <2>2. ASSUME NEW i \in DOMAIN rest, NEW j \in DOMAIN rest, rest[i] = rest[j]
          PROVE  i = j
        <3>1. /\ i + 1 \in DOMAIN seq /\ j + 1 \in DOMAIN seq
              /\ seq[i + 1] = seq[j + 1]
            BY <1>1, <2>2
        <3>2. i + 1 = j + 1
            BY <1>3, <3>1
        <3> QED
            BY <1>1, <3>2
    <2> QED
        BY <2>1, <2>2 DEF Range
<1> QED
    BY <1>1, <1>2, <1>3 DEF rest

\* When no two events share a key and none has a key of the table, the INSERT
\* skips nothing.
LEMMA InsertFresh ==
    ASSUME NEW table, NEW events \in Seq(VoteEvent),
           \A i, j \in DOMAIN events : events[i].key = events[j].key => i = j,
           \A i \in DOMAIN events : \A row \in table : row.key # events[i].key
    PROVE  InsertOnConflictDoNothing(table, events) = table \cup Range(events)
<1> DEFINE entering == {j \in DOMAIN events :
                            /\ \A row \in table : row.key # events[j].key
                            /\ \A h \in 1 .. j - 1 : events[h].key # events[j].key}
<1>1. Len(events) \in Nat /\ DOMAIN events = 1 .. Len(events)
    OBVIOUS
<1>2. ASSUME NEW j \in DOMAIN events
      PROVE  j \in entering
    <2>1. ASSUME NEW h \in 1 .. j - 1, events[h].key = events[j].key
          PROVE  FALSE
        <3>1. h \in DOMAIN events /\ h # j
            BY <1>1
        <3> QED
            BY <2>1, <3>1
    <2> QED
        BY <2>1
<1>3. entering = DOMAIN events
    BY <1>2
<1>4. InsertOnConflictDoNothing(table, events) = table \cup {events[i] : i \in entering}
    BY DEF InsertOnConflictDoNothing
<1> HIDE DEF entering
<1> QED
    BY <1>3, <1>4 DEF Range

-----------------------------------------------------------------------------
\* The way of an event

\* Requests whose event is about to be handed to the journal.
HandingOver == {r \in Request : pc[r] = "journal"}

CountedEvents == {EventOf(r) : r \in cast}

AccountInv == DistinctInv /\ VotesAccounted

\* What DistinctInv and VotesAccounted say of the places as sets.
Places(atJournal, inQueue, inBatch, written, gone, counted) ==
    /\ atJournal \cup inQueue \cup inBatch \cup written \cup gone = counted
    /\ atJournal \cap inQueue = {}
    /\ atJournal \cap inBatch = {}
    /\ inQueue \cap inBatch = {}
    /\ (atJournal \cup inQueue \cup inBatch) \cap (written \cup gone) = {}
    /\ written \cap gone = {}

Distinct(seq) == \A i, j \in DOMAIN seq : seq[i] = seq[j] => i = j

\* The two invariants are one statement about sets of events.
LEMMA AccountInvMeans ==
    AccountInv <=>
        /\ Distinct(queue) /\ Distinct(batch)
        /\ Places(AtJournal, Range(queue), Range(batch), vote, lost, CountedEvents)
<1> USE DEF AccountInv, DistinctInv, VotesAccounted, OnTheWay, CountedEvents, Distinct
<1>1. ASSUME AccountInv
      PROVE  Places(AtJournal, Range(queue), Range(batch), vote, lost, CountedEvents)
    <2> HIDE DEF AtJournal
    <2> QED
        BY <1>1 DEF Places
<1>2. ASSUME Distinct(queue), Distinct(batch),
             Places(AtJournal, Range(queue), Range(batch), vote, lost, CountedEvents)
      PROVE  AccountInv
    BY <1>2 DEF Places
<1> QED
    BY <1>1, <1>2

\* The same of the next state.
LEMMA AccountInvMeansNext ==
    (/\ Distinct(queue') /\ Distinct(batch')
     /\ Places(AtJournal', Range(queue'), Range(batch'), vote', lost', CountedEvents'))
    => AccountInv'
<1> SUFFICES ASSUME Distinct(queue'), Distinct(batch'),
        Places(AtJournal', Range(queue'), Range(batch'), vote', lost', CountedEvents')
             PROVE  AccountInv'
    OBVIOUS
<1> QED
    BY DEF AccountInv, DistinctInv, VotesAccounted, OnTheWay, CountedEvents, Distinct, Places

\* Two counted votes with the same viewer and question are the same vote.
LEMMA KeyDecides ==
    ASSUME OneVotePerViewer, NEW e \in CountedEvents, NEW f \in CountedEvents,
           e.key = f.key
    PROVE  e = f
    BY DEF OneVotePerViewer, CountedEvents, EventOf

\* A counted vote keeps its event.
LEMMA EventsStay ==
    ASSUME TypeInv, [PathNext]_pathVars
    PROVE  /\ \A r \in cast \cup HandingOver :
                  r \in Request /\ pc[r] # "idle" /\ call'[r] = call[r]
           /\ \A r \in cast \cup HandingOver : EventOf(r)' = EventOf(r)
<1>1. \A r \in cast \cup HandingOver : r \in Request /\ pc[r] # "idle"
    BY DEF TypeInv, PathTypeOK, ServiceTypeOK, HandlerInv, HandlerOK, HandingOver
<1>2. \A r \in cast \cup HandingOver : call'[r] = call[r]
    BY <1>1, CallsStay
<1> QED
    BY <1>1, <1>2 DEF EventOf

\* Steps that move no event: everything but the script, the hand-over, the
\* worker's get and INSERT, and the process's end and start.
LEMMA OtherStepsMoveNothing ==
    ASSUME TypeInv, [PathNext]_pathVars,
           ~ \E r \in Request : EvalFirst(r) \/ JournalVote(r),
           ~((WorkerTake \/ WorkerWrite \/ JournalClose \/ ApiStart) /\ UNCHANGED serviceVars),
           ~ApiCrash
    PROVE  /\ UNCHANGED <<queue, batch, vote, lost, cast>>
           /\ HandingOver' = HandingOver
<1>0. pc \in [Request -> Location] /\ answer \in [Request -> Answer]
    BY DEF TypeInv, PathTypeOK, ServiceTypeOK
<1>1. ASSUME NEW r \in Request, StartRequest(r) \/ HandlerNext(r)
      PROVE  /\ UNCHANGED <<queue, batch, vote, lost, cast>>
             /\ HandingOver' = HandingOver
    <2>1. \/ StartRequest(r) \/ GetCached(r) \/ DropGarbled(r) \/ LoadRow(r)
          \/ LoadOptions(r) \/ WarmCache(r) \/ CheckVoted(r) \/ EvalRepeated(r)
          \/ EvalWrongType(r) \/ RedisFails(r) \/ DatabaseFails(r)
        BY <1>1 DEF HandlerNext
    <2>2. UNCHANGED <<queue, batch, vote, lost, cast>>
        BY <2>1 DEF StartRequest, GetCached, DropGarbled, LoadRow, LoadOptions,
           WarmCache, CheckVoted, EvalRepeated, EvalWrongType, RedisFails,
           DatabaseFails, storeVars, journalVars
    <2>3. \/ \E location \in Location \ {"journal"} :
                 pc' = [pc EXCEPT ![r] = location] /\ pc[r] # "journal"
        BY <2>1 DEF StartRequest, GetCached, DropGarbled, LoadRow, LoadOptions,
           WarmCache, CheckVoted, EvalRepeated, EvalWrongType, RedisFails,
           DatabaseFails, Admit, GoTo, Reply, Location
    <2>4. HandingOver' = HandingOver
        BY <1>0, <2>3 DEF HandingOver
    <2> QED
        BY <2>2, <2>4
<1>2. CASE WorkerFlush /\ UNCHANGED serviceVars
    BY <1>2 DEF WorkerFlush, storeVars, serviceVars, HandingOver
<1>3. CASE (ApiShutdown /\ UNCHANGED serviceVars) \/ ApiDrained
    BY <1>3 DEF ApiShutdown, ApiDrained, storeVars, serviceVars, HandingOver
<1>4. CASE Tick \/ UNCHANGED pathVars
    BY <1>4 DEF Tick, pathVars, storeVars, journalVars, serviceVars, HandingOver
<1> QED
    BY <1>1, <1>2, <1>3, <1>4 DEF PathNext, WorkerStep, WorkerNext, ProcessStep

\* Counted events and events at the journal, when one handler moves or none.
LEMMA CountedStay ==
    ASSUME TypeInv, [PathNext]_pathVars, cast' = cast
    PROVE  CountedEvents' = CountedEvents
    BY EventsStay DEF CountedEvents

\* The events at the journal, by the requests that hand them over.
LEMMA AtJournalIs ==
    /\ AtJournal = {EventOf(r) : r \in HandingOver}
    /\ AtJournal' = {EventOf(r)' : r \in HandingOver'}
    BY DEF AtJournal, HandingOver

\* With one vote per viewer, the INSERT of events on their way skips none.
LEMMA InsertsAll ==
    ASSUME OneVotePerViewer, NEW events \in Seq(VoteEvent), Distinct(events),
           Range(events) \cup vote \subseteq CountedEvents,
           Range(events) \cap vote = {}
    PROVE  InsertOnConflictDoNothing(vote, events) = vote \cup Range(events)
<1>1. \A i \in DOMAIN events : events[i] \in Range(events)
    BY DEF Range
<1>2. \A i, j \in DOMAIN events : events[i].key = events[j].key => i = j
    BY <1>1, KeyDecides DEF Distinct
<1>3. \A i \in DOMAIN events : \A row \in vote : row.key # events[i].key
    BY <1>1, KeyDecides
<1> QED
    BY <1>2, <1>3, InsertFresh

\* No event is anywhere at the start.
LEMMA AccountStart ==
    PathInit => AccountInv
<1> SUFFICES ASSUME PathInit PROVE AccountInv
    OBVIOUS
<1>1. /\ queue = <<>> /\ batch = <<>> /\ vote = {} /\ lost = {} /\ cast = {}
      /\ AtJournal = {}
    BY DEF PathInit, JournalInit, ServiceInit, AtJournal
<1>2. Range(queue) = {} /\ Range(batch) = {} /\ CountedEvents = {}
    BY <1>1 DEF Range, CountedEvents
<1>3. Distinct(queue) /\ Distinct(batch)
    BY <1>1 DEF Distinct
<1> QED
    BY <1>1, <1>2, <1>3, AccountInvMeans DEF Places

\* A step keeps the event of every counted vote in exactly one place.
LEMMA AccountStays ==
    TypeInv /\ CountsFirst /\ OneVotePerViewer /\ AnswerInv /\ ProcessInv
    /\ AccountInv /\ [PathNext]_pathVars => AccountInv'
<1> SUFFICES ASSUME TypeInv, CountsFirst, OneVotePerViewer, AnswerInv, ProcessInv,
                    AccountInv, [PathNext]_pathVars
             PROVE  AccountInv'
    OBVIOUS
<1> DEFINE A == AtJournal
           Q == Range(queue)
           B == Range(batch)
           C == CountedEvents
<1>1. /\ Distinct(queue) /\ Distinct(batch)
      /\ Places(A, Q, B, vote, lost, C)
    BY AccountInvMeans
<1>2. /\ queue \in Seq(VoteEvent) /\ batch \in Seq(VoteEvent)
      /\ pc \in [Request -> Location] /\ answer \in [Request -> Answer]
    BY DEF TypeInv, PathTypeOK, JournalTypeOK, ServiceTypeOK
<1>3. cast' = cast => C' = C
    BY CountedStay
<1>4. HandingOver' = HandingOver => A' = A
    BY EventsStay, AtJournalIs
<1> HIDE DEF A, Q, B, C
<1> SUFFICES /\ Distinct(queue') /\ Distinct(batch')
             /\ Places(A', Q', B', vote', lost', C')
    BY AccountInvMeansNext DEF A, Q, B, C
<1>5. CASE /\ UNCHANGED <<queue, batch, vote, lost, cast>>
           /\ HandingOver' = HandingOver
    <2>1. Q' = Q /\ B' = B
        BY <1>5 DEF Q, B
    <2> QED
        BY <1>1, <1>3, <1>4, <1>5, <2>1
<1>6. ASSUME NEW r \in Request, EvalFirst(r)
      PROVE  /\ Distinct(queue') /\ Distinct(batch')
             /\ Places(A', Q', B', vote', lost', C')
    <2> DEFINE e == EventOf(r)
    <2>1. /\ pc[r] = "eval" /\ cast' = cast \cup {r} /\ call' = call
          /\ UNCHANGED <<queue, batch, vote>>
        BY <1>6 DEF EvalFirst, ReserveViewerAndIncrementCounter
    <2>2. C' = C \cup {e}
        BY <2>1 DEF C, CountedEvents, EventOf
    <2>3. e \notin C
        BY <1>6 DEF CountsFirst, C, CountedEvents, EventOf
    <2>4. Q' = Q /\ B' = B
        BY <2>1 DEF Q, B
    <2>5. CASE GoTo(r, "journal") /\ lost' = lost
        <3>1. HandingOver' = HandingOver \cup {r}
            BY <1>2, <2>5, GoToType DEF HandingOver, Location
        <3>2. A' = A \cup {e}
            BY <2>1, <3>1, AtJournalIs DEF A, EventOf
        <3> QED
            BY <1>1, <2>1, <2>2, <2>3, <2>4, <2>5, <3>2 DEF Places
    <2>6. CASE /\ GoTo(r, "eval") \/ Reply(r, "unavailable")
               /\ lost' = lost \cup {e}
        <3>1. HandingOver' = HandingOver
            BY <1>2, <2>1, <2>6, GoToType, ReplyType
            DEF HandingOver, Location, Answer
        <3> QED
            BY <1>1, <1>4, <2>1, <2>2, <2>3, <2>4, <2>6, <3>1 DEF Places
    <2> QED
        BY <1>6, <2>5, <2>6 DEF EvalFirst
<1>7. ASSUME NEW r \in Request, JournalVote(r)
      PROVE  /\ Distinct(queue') /\ Distinct(batch')
             /\ Places(A', Q', B', vote', lost', C')
    <2> DEFINE e == EventOf(r)
    <2>1. pc[r] = "journal" /\ cast' = cast /\ call' = call /\ batch' = batch
        BY <1>7 DEF JournalVote
    <2>2. C' = C /\ B' = B
        BY <1>3, <2>1 DEF B
    <2>3. /\ HandingOver' = HandingOver \ {r}
          /\ r \in HandingOver
        BY <1>2, <1>7, ReplyType DEF JournalVote, HandingOver, Answer
    <2>4. e \in A /\ e \in VoteEvent
        <3>1. call[r] \in Call /\ call[r].kind = "vote"
            BY <2>1 DEF TypeInv, HandlerInv, HandlerOK
        <3> QED
            BY <2>3, <3>1, AtJournalIs, EventType DEF A
    <2>5. A' = A \ {e}
        <3>1. \A s \in HandingOver : EventOf(s) = e => s = r
            <4>1. \A s \in HandingOver : s \in cast
                BY DEF AnswerInv, CastInv, HandingOver
            <4> QED
                BY <2>3, <4>1 DEF OneVotePerViewer, EventOf
        <3>2. A' = {EventOf(s) : s \in HandingOver \ {r}}
            BY <2>1, <2>3, AtJournalIs DEF A, EventOf
        <3>3. A = {EventOf(s) : s \in HandingOver}
            BY AtJournalIs DEF A
        <3> HIDE DEF e
        <3>4. e = EventOf(r)
            BY DEF e
        <3> QED
            BY <2>3, <3>1, <3>2, <3>3, <3>4
    <2>6. Range(<<e>>) = {e}
        BY DEF Range
    <2> HIDE DEF e
    <2>7. CASE queue' = Append(queue, e) /\ UNCHANGED <<lost, vote>>
        <3>1. e \notin Q
            BY <1>1, <2>4 DEF Places
        <3>2. Q' = Q \cup {e} /\ Distinct(queue')
            BY <1>1, <1>2, <2>4, <2>7, <3>1, RangeAppend DEF Q, Distinct
        <3> QED
            BY <1>1, <2>1, <2>2, <2>4, <2>5, <2>7, <3>2 DEF Places
    <2>8. CASE lost' = lost \cup {e} /\ UNCHANGED <<queue, vote>>
        <3>1. Q' = Q
            BY <2>8 DEF Q
        <3> QED
            BY <1>1, <2>1, <2>2, <2>4, <2>5, <2>8, <3>1 DEF Places
    <2>9. CASE /\ vote' = InsertOnConflictDoNothing(vote, <<e>>)
               /\ UNCHANGED <<queue, lost>>
        <3>1. /\ Range(<<e>>) \cup vote \subseteq C
              /\ Range(<<e>>) \cap vote = {}
            BY <1>1, <2>4, <2>6 DEF Places
        <3>2. <<e>> \in Seq(VoteEvent) /\ Distinct(<<e>>)
            BY <2>4 DEF Distinct
        <3>3. vote' = vote \cup {e}
            BY <2>6, <2>9, <3>1, <3>2, InsertsAll DEF C
        <3>4. Q' = Q
            BY <2>9 DEF Q
        <3> QED
            BY <1>1, <2>1, <2>2, <2>4, <2>5, <2>9, <3>3, <3>4 DEF Places
    <2>10. CASE ASYNC /\ Enqueue(e) /\ UNCHANGED vote
        BY <2>7, <2>8, <2>10 DEF Enqueue
    <2>11. CASE ~ASYNC /\ WriteBatch(<<e>>) /\ UNCHANGED <<queue, unfinished>>
        BY <2>6, <2>8, <2>9, <2>11 DEF WriteBatch
    <2> QED
        BY <1>7, <2>10, <2>11 DEF JournalVote, e
<1>8. CASE WorkerTake /\ UNCHANGED serviceVars
    <2> DEFINE e == Head(queue)
    <2>1. /\ queue # <<>> /\ batch' = Append(batch, e) /\ queue' = Tail(queue)
          /\ UNCHANGED <<vote, lost, cast, pc>>
        BY <1>8 DEF WorkerTake, storeVars, serviceVars
    <2>2. C' = C /\ A' = A
        BY <1>3, <1>4, <2>1 DEF HandingOver
    <2>3. /\ e \in VoteEvent /\ Q = {e} \cup Q' /\ e \notin Q' /\ Distinct(queue')
        BY <1>1, <1>2, <2>1, RangeTail DEF Q, Distinct
    <2> HIDE DEF e
    <2>4. e \notin B
        BY <1>1, <2>3 DEF Places
    <2>5. B' = B \cup {e} /\ Distinct(batch')
        BY <1>1, <1>2, <2>1, <2>3, <2>4, RangeAppend DEF B, Distinct
    <2> QED
        BY <1>1, <2>1, <2>2, <2>3, <2>5 DEF Places
<1>9. CASE WorkerWrite /\ UNCHANGED serviceVars
    <2>1. /\ WriteBatch(batch) /\ batch' = <<>>
          /\ UNCHANGED <<queue, cast, pc>>
        BY <1>9 DEF WorkerWrite, serviceVars
    <2>2. C' = C /\ A' = A /\ Q' = Q
        BY <1>3, <1>4, <2>1 DEF HandingOver, Q
    <2>3. B' = {} /\ Distinct(batch')
        BY <2>1 DEF B, Range, Distinct
    <2>4. CASE lost' = lost \cup B /\ vote' = vote
        BY <1>1, <2>1, <2>2, <2>3, <2>4 DEF Places
    <2>5. CASE vote' = InsertOnConflictDoNothing(vote, batch) /\ lost' = lost
        <3>1. Range(batch) \cup vote \subseteq C /\ Range(batch) \cap vote = {}
            BY <1>1 DEF Places, B
        <3>2. vote' = vote \cup B
            BY <1>1, <1>2, <2>5, <3>1, InsertsAll DEF B, C
        <3> QED
            BY <1>1, <2>1, <2>2, <2>3, <2>5, <3>2 DEF Places
    <2> QED
        BY <2>1, <2>4, <2>5 DEF WriteBatch, B
<1>10. CASE JournalClose /\ UNCHANGED serviceVars
    <2>1. /\ lost' = lost \cup Q \cup B /\ queue' = <<>> /\ batch' = <<>>
          /\ UNCHANGED <<vote, cast, pc>>
        BY <1>10 DEF JournalClose, storeVars, serviceVars, Q, B
    <2>2. C' = C /\ A' = A
        BY <1>3, <1>4, <2>1 DEF HandingOver
    <2>3. Q' = {} /\ B' = {} /\ Distinct(queue') /\ Distinct(batch')
        BY <2>1 DEF Q, B, Range, Distinct
    <2> QED
        BY <1>1, <2>1, <2>2, <2>3 DEF Places
<1>11. CASE ApiStart /\ UNCHANGED serviceVars
    <2>1. /\ queue = <<>> /\ batch = <<>>
        BY <1>11 DEF ApiStart, ProcessInv
    <2>2. /\ UNCHANGED <<queue, batch, vote, lost, cast>>
          /\ HandingOver' = HandingOver
        BY <1>11, <2>1 DEF ApiStart, storeVars, serviceVars, HandingOver
    <2> QED
        BY <1>5, <2>2
<1>12. CASE ApiCrash
    <2>1. /\ lost' = lost \cup Q \cup B \cup A
          /\ queue' = <<>> /\ batch' = <<>>
          /\ UNCHANGED <<vote, cast>>
          /\ pc' = [r \in Request |-> IF r \in InFlight THEN "done" ELSE pc[r]]
        BY <1>12 DEF ApiCrash, JournalCrash, storeVars, Q, B, A, AtJournal
    <2>2. HandingOver' = {}
        BY <2>1 DEF HandingOver, InFlight
    <2>3. C' = C /\ A' = {}
        BY <1>3, <2>1, <2>2, AtJournalIs DEF A
    <2>4. Q' = {} /\ B' = {} /\ Distinct(queue') /\ Distinct(batch')
        BY <2>1 DEF Q, B, Range, Distinct
    <2> QED
        BY <1>1, <2>1, <2>3, <2>4 DEF Places
<1> QED
    <2>1. \/ /\ UNCHANGED <<queue, batch, vote, lost, cast>>
             /\ HandingOver' = HandingOver
          \/ \E r \in Request : EvalFirst(r) \/ JournalVote(r)
          \/ (WorkerTake \/ WorkerWrite \/ JournalClose \/ ApiStart)
                /\ UNCHANGED serviceVars
          \/ ApiCrash
        BY OtherStepsMoveNothing
    <2> QED
        BY <1>5, <1>6, <1>7, <1>8, <1>9, <1>10, <1>11, <1>12, <2>1

\* No event waits twice or in two places, and every counted vote has its
\* event in exactly one place: the inductive form of Accounted.
THEOREM AccountInvariant == PathSpec => []AccountInv
<1>1. TypeInv /\ CardInv /\ LatencyInv /\ CountInv /\ AnswerInv /\ ProcessInv
        /\ AccountInv /\ [PathNext]_pathVars => AccountInv'
    BY FirstsCounted, AccountStays DEF CountInv
<1> QED
    BY <1>1, AccountStart, TypeInvariant, CardInvariant, LatencyInvariant, CountInvariant,
       AnswerInvariant, ProcessInvariant, PTL DEF PathSpec

\* A counted vote is on its way to the journal, written or lost, and only one
\* of these, through failing stores, shutdowns and crashes.
THEOREM Accounted == PathSpec => []VotesAccounted
    BY AccountInvariant, PTL DEF AccountInv

-----------------------------------------------------------------------------
\* Refinement

\* Nothing leaves the table vote, and what is lost stays lost.
LEMMA SettledStays ==
    ASSUME TypeInv, [PathNext]_pathVars
    PROVE  vote \subseteq vote' /\ lost \subseteq lost'
<1>1. \A events \in Seq(VoteEvent) :
          WriteBatch(events) => vote \subseteq vote' /\ lost \subseteq lost'
    BY DEF WriteBatch, InsertOnConflictDoNothing
<1>2. ASSUME NEW r \in Request, JournalVote(r)
      PROVE  vote \subseteq vote' /\ lost \subseteq lost'
    <2>1. <<EventOf(r)>> \in Seq(VoteEvent)
        BY <1>2, EventType DEF JournalVote, TypeInv, HandlerInv, HandlerOK
    <2> QED
        BY <1>1, <1>2, <2>1 DEF JournalVote, Enqueue
<1>3. ASSUME NEW r \in Request, EvalFirst(r)
      PROVE  vote \subseteq vote' /\ lost \subseteq lost'
    BY <1>3 DEF EvalFirst
<1>4. ASSUME WorkerTake \/ JournalClose \/ ApiStart \/ ApiCrash
      PROVE  vote \subseteq vote' /\ lost \subseteq lost'
    BY <1>4 DEF WorkerTake, JournalClose, ApiStart, ApiCrash, storeVars
<1>5. ASSUME WorkerWrite
      PROVE  vote \subseteq vote' /\ lost \subseteq lost'
    BY <1>1, <1>5 DEF WorkerWrite, TypeInv, PathTypeOK, JournalTypeOK
<1> QED
    BY <1>2, <1>3, <1>4, <1>5, OtherStepsMoveNothing

\* Nobody's answer changes.
LEMMA AnswersStay ==
    ASSUME TypeInv, CastInv, [PathNext]_pathVars, NEW r \in Request, answer[r] # "none"
    PROVE  answer'[r] = answer[r]
<1>1. answer \in [Request -> Answer] /\ pc[r] = "done"
    BY DEF TypeInv, PathTypeOK, ServiceTypeOK, CastInv
<1>2. ASSUME NEW s \in Request, StartRequest(s) \/ HandlerNext(s)
      PROVE  answer'[r] = answer[r]
    <2>1. pc[s] # "done"
        BY <1>2 DEF HandlerNext, StartRequest, GetCached, DropGarbled, LoadRow,
           LoadOptions, WarmCache, CheckVoted, EvalRepeated, EvalWrongType, EvalFirst,
           JournalVote, RedisFails, DatabaseFails
    <2>2. \/ answer' = answer
          \/ \E result : answer' = [answer EXCEPT ![s] = result]
        BY <1>2 DEF HandlerNext, StartRequest, GetCached, DropGarbled, LoadRow,
           LoadOptions, WarmCache, CheckVoted, EvalRepeated, EvalWrongType, EvalFirst,
           JournalVote, RedisFails, DatabaseFails, Admit, GoTo, Reply
    <2> QED
        BY <1>1, <2>1, <2>2
<1>3. CASE UNCHANGED serviceVars
    BY <1>3 DEF serviceVars
<1>4. CASE ApiCrash
    BY <1>1, <1>4 DEF ApiCrash, InFlight
<1>5. CASE Tick \/ ApiDrained \/ UNCHANGED pathVars
    BY <1>5 DEF Tick, ApiDrained, pathVars, serviceVars
<1> QED
    BY <1>2, <1>3, <1>4, <1>5 DEF PathNext, WorkerStep, ProcessStep

\* Nothing is cast at the start.
LEMMA BoxStarts ==
    PathInit => Box!Init
    BY DEF PathInit, JournalInit, ServiceInit, Box!Init

\* The script casts a ballot, every other step settles ballots or changes
\* nothing a viewer or an auditor sees.
LEMMA BoxSteps ==
    TypeInv /\ CountsFirst /\ AnswerInv
    /\ VotesAccounted /\ VotesAccounted' /\ [PathNext]_pathVars
    => [Box!Next]_Box!vars
<1> DEFINE ballots == {EventOf(r) : r \in cast}
           receipts == {EventOf(r) : r \in {s \in cast : answer[s] = "accepted"}}
<1> SUFFICES ASSUME TypeInv, CountsFirst, AnswerInv, VotesAccounted,
                    VotesAccounted', [PathNext]_pathVars
             PROVE  Box!Next
    OBVIOUS
<1>1. \A r \in cast : r \in Request /\ call'[r] = call[r] /\ EventOf(r)' = EventOf(r)
    BY EventsStay
<1>2. vote \subseteq vote' /\ lost \subseteq lost'
    BY SettledStays
<1>3. \A r \in cast : answer[r] = "accepted" => answer'[r] = "accepted"
    BY <1>1, AnswersStay DEF AnswerInv
<1>4. /\ vote \cup lost \subseteq ballots
      /\ vote \cap lost = {}
      /\ vote' \cup lost' \subseteq ballots'
      /\ vote' \cap lost' = {}
    <2>1. vote \cup lost \subseteq ballots /\ vote \cap lost = {}
        BY DEF VotesAccounted
    <2>2. vote' \cup lost' \subseteq ballots' /\ vote' \cap lost' = {}
        BY DEF VotesAccounted
    <2> QED
        BY <2>1, <2>2
<1>5. CASE cast' = cast
    <2> DEFINE written == vote' \ vote
               dropped == lost' \ lost
    <2>1. ballots' = ballots
        BY <1>1, <1>5
    <2>2. receipts \subseteq receipts' /\ receipts' \subseteq ballots
        BY <1>1, <1>3, <1>5
    <2> HIDE DEF ballots, receipts
    <2>3. /\ written \cup dropped \subseteq ballots \ (vote \cup lost)
          /\ written \cap dropped = {}
          /\ vote' = vote \cup written
          /\ lost' = lost \cup dropped
          /\ receipts' = receipts \cup receipts'
        BY <1>2, <1>4, <2>1, <2>2
    <2>4. PICK w, d, t : w = written /\ d = dropped /\ t = receipts'
        OBVIOUS
    <2>5. Box!Settle(w, d, t)
        BY <2>1, <2>2, <2>3, <2>4 DEF Box!Settle, Box!Open, ballots, receipts
    <2>6. w \in SUBSET Box!Open /\ d \in SUBSET Box!Open /\ t \in SUBSET ballots
        BY <2>2, <2>3, <2>4 DEF Box!Open, ballots
    <2> HIDE DEF written, dropped
    <2> QED
        BY <2>5, <2>6 DEF Box!Next, ballots
<1>6. ASSUME NEW r \in Request, EvalFirst(r)
      PROVE  Box!Next
    <2> DEFINE e == EventOf(r)
    <2>1. /\ pc[r] = "eval" /\ cast' = cast \cup {r} /\ call' = call /\ vote' = vote
          /\ lost' = lost \/ lost' = lost \cup {e}
          /\ GoTo(r, "journal") \/ GoTo(r, "eval") \/ Reply(r, "unavailable")
        BY <1>6 DEF EvalFirst, ReserveViewerAndIncrementCounter
    <2>2. \A s \in cast : call[s].key # e.key
        BY <1>6 DEF CountsFirst, EventOf
    <2>3. e \in VoteEvent
        BY <2>1, EventType DEF TypeInv, HandlerInv, HandlerOK
    <2>4. ballots' = ballots \cup {e}
        BY <2>1 DEF EventOf
    <2>5. \A b \in ballots : b.key # e.key
        BY <2>2 DEF EventOf
    <2>6. receipts' = receipts
        <3>1. answer \in [Request -> Answer] /\ pc \in [Request -> Location]
            BY DEF TypeInv, PathTypeOK, ServiceTypeOK
        <3>2. answer[r] = "none"
            BY <2>1 DEF AnswerInv, CastInv
        <3>3. /\ answer'[r] # "accepted"
              /\ \A s \in Request \ {r} : answer'[s] = answer[s]
            BY <2>1, <3>1, <3>2, GoToType, ReplyType DEF Location, Answer
        <3>4. {s \in cast' : answer'[s] = "accepted"} = {s \in cast : answer[s] = "accepted"}
            BY <1>1, <2>1, <3>2, <3>3
        <3> QED
            BY <1>1, <2>1, <3>4 DEF EventOf
    <2>7. Box!Cast(e)
        BY <2>1, <2>4, <2>5, <2>6 DEF Box!Cast
    <2> QED
        BY <2>3, <2>7 DEF Box!Next
<1> QED
    BY <1>5, <1>6, OnlyEvalFirstCounts

\* The vote path implements the ballot box: the script casts a ballot, every
\* other step settles ballots or changes nothing a viewer or an auditor sees.
THEOREM Refinement == PathSpec => BallotBoxSpec
<1>1. TypeInv /\ CardInv /\ LatencyInv /\ CountInv /\ AnswerInv
        /\ VotesAccounted /\ VotesAccounted' /\ [PathNext]_pathVars
        => [Box!Next]_Box!vars
    BY FirstsCounted, BoxSteps
<1> QED
    BY <1>1, BoxStarts, TypeInvariant, CardInvariant, LatencyInvariant, CountInvariant,
       AnswerInvariant, Accounted, PTL DEF PathSpec, BallotBoxSpec, Box!Spec
=============================================================================
