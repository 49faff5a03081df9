--------------------------- MODULE VotePathProofs ---------------------------
(***************************************************************************)
(* Proofs about the way of a vote, for every set of questions, viewers,    *)
(* requests and options, every capacity of the journal, either mode of it, *)
(* and every bound on the clock.                                           *)
(***************************************************************************)
EXTENDS VotePath, VotingWindowProofs

-----------------------------------------------------------------------------
\* Lemmas on the operators of the stores

\* The card of a stored row, or of another card, is a card.
LEMMA ToCardType ==
    ASSUME NEW row \in Row \cup Card, NEW options \in OptionList
    PROVE  ToCard(row, options) \in Card
    BY DEF ToCard, Row, Card

\* HINCRBY leaves a hash from option keys to numbers.
LEMMA HIncrByType ==
    ASSUME NEW hash, IsHash(hash), NEW option \in OptionKey
    PROVE  IsHash(HIncrBy(hash, option))
    BY DEF IsHash, HIncrBy, CountOf

\* HINCRBY counts one more for its option and leaves the others alone.
LEMMA HIncrByCount ==
    ASSUME NEW hash, NEW option, NEW other
    PROVE  CountOf(HIncrBy(hash, option), other) =
             IF other = option THEN CountOf(hash, option) + 1
             ELSE CountOf(hash, other)
    BY DEF HIncrBy, CountOf

\* Every viewer's votes go to one of the question's shards.
LEMMA CounterKeyType ==
    ASSUME NEW k \in DedupKey
    PROVE  ResultCounterKey(k) \in CounterKey
<1>1. Crc32[k] \in Nat /\ COUNTER_SHARDS \in Nat /\ COUNTER_SHARDS > 0
    BY Crc32Assumption, ShardsAssumption
<1>2. Crc32[k] % COUNTER_SHARDS \in 0 .. COUNTER_SHARDS - 1
    BY <1>1
<1>3. k[1] \in Question
    BY DEF DedupKey
<1> QED
    BY <1>2, <1>3 DEF ResultCounterKey, CounterShard, CounterKey, Shard

\* The journal table only gains events of the batch.
LEMMA InsertType ==
    ASSUME NEW events \in Seq(VoteEvent), NEW table \in SUBSET VoteEvent
    PROVE  /\ InsertOnConflictDoNothing(table, events) \in SUBSET VoteEvent
           /\ table \subseteq InsertOnConflictDoNothing(table, events)
           /\ InsertOnConflictDoNothing(table, events) \subseteq table \cup Range(events)
           /\ Range(events) \in SUBSET VoteEvent
    BY DEF InsertOnConflictDoNothing, Range

\* The fields of a request.
LEMMA CallFields ==
    ASSUME NEW c \in Call
    PROVE  /\ c.kind \in {"form", "vote"}
           /\ c.key \in DedupKey
           /\ c.key[1] \in Question
           /\ c.at \in Nat
           /\ c.kind = "vote" => c.option \in OptionKey
    BY DEF Call, DedupKey

-----------------------------------------------------------------------------
\* The end of a handler's step

\* A handler that goes on moves alone and answers nobody.
LEMMA GoToType ==
    ASSUME NEW r \in Request, NEW location \in Location,
           pc \in [Request -> Location], GoTo(r, location)
    PROVE  /\ pc' \in [Request -> Location]
           /\ pc'[r] = location
           /\ \A s \in Request \ {r} : pc'[s] = pc[s]
           /\ answer' = answer
    BY DEF GoTo

\* A handler that ends moves alone and answers its own request only.
LEMMA ReplyType ==
    ASSUME NEW r \in Request, NEW result \in Answer,
           pc \in [Request -> Location], answer \in [Request -> Answer],
           Reply(r, result)
    PROVE  /\ pc' \in [Request -> Location]
           /\ pc'[r] = "done"
           /\ answer' \in [Request -> Answer]
           /\ answer'[r] = result
           /\ \A s \in Request \ {r} : pc'[s] = pc[s] /\ answer'[s] = answer[s]
    BY DEF Reply, Location

\* What Admit does with a card: the handler is refused, or stands at the next
\* call with the gate open.
LEMMA AdmitEffect ==
    ASSUME NEW r \in Request, NEW c \in Card, Admit(r, c),
           call[r] \in Call,
           pc \in [Request -> Location], answer \in [Request -> Answer],
           card \in [Request -> Card \cup {NoCard}]
    PROVE  /\ card' \in [Request -> Card \cup {NoCard}]
           /\ card'[r] = c
           /\ pc' \in [Request -> Location]
           /\ answer' \in [Request -> Answer]
           /\ \A s \in Request \ {r} :
                 card'[s] = card[s] /\ pc'[s] = pc[s] /\ answer'[s] = answer[s]
           /\ pc'[r] \in {"exists", "eval", "done"}
           /\ pc'[r] \in {"exists", "eval"} =>
                 /\ RequireOpenVotingWindow(c, call[r].at) = "open"
                 /\ answer'[r] = answer[r]
           /\ pc'[r] = "eval" =>
                 call[r].kind = "vote" /\ call[r].option \in KeysOf[c.options]
           /\ pc'[r] = "done" =>
                 answer'[r] \in {"not_published", "window_not_started",
                                 "window_closed", "invalid_option"}
<1> DEFINE verdict == RequireOpenVotingWindow(c, call[r].at)
<1>1. card' = [card EXCEPT ![r] = c]
    BY DEF Admit
<1>2. verdict \in {"open", "not_published", "window_not_started", "window_closed"}
    BY VerdictType DEF WindowVerdict
<1>3. CASE verdict # "open" /\ Reply(r, verdict)
    <2>1. verdict \in Answer
        BY <1>2, <1>3 DEF Answer
    <2> QED
        BY <1>1, <1>2, <1>3, <2>1, ReplyType
<1>4. CASE verdict = "open" /\ call[r].kind = "form" /\ GoTo(r, "exists")
    <2>1. "exists" \in Location
        BY DEF Location
    <2> QED
        BY <1>1, <1>4, <2>1, GoToType
<1>5. CASE /\ verdict = "open" /\ call[r].kind = "vote"
           /\ call[r].option \in KeysOf[c.options] /\ GoTo(r, "eval")
    <2>1. "eval" \in Location
        BY DEF Location
    <2> QED
        BY <1>1, <1>5, <2>1, GoToType
<1>6. CASE Reply(r, "invalid_option")
    <2>1. "invalid_option" \in Answer
        BY DEF Answer
    <2> QED
        BY <1>1, <1>6, <2>1, ReplyType
<1> QED
    BY <1>3, <1>4, <1>5, <1>6 DEF Admit

-----------------------------------------------------------------------------
\* Type correctness

\* A vote becomes a row of the table vote.
LEMMA EventType ==
    ASSUME NEW r \in Request, call[r] \in Call, call[r].kind = "vote"
    PROVE  EventOf(r) \in VoteEvent
    BY CallFields DEF EventOf, VoteEvent

\* The instant at which a counted viewer's key expires.
LEMMA DedupExpiryType ==
    ASSUME NEW r \in Request, call[r] \in Call, card[r] \in Card,
           now \in Nat, call[r].at <= now,
           RequireOpenVotingWindow(card[r], call[r].at) = "open"
    PROVE  /\ DedupExpiry(r) \in Nat
           /\ ClosesAt(card[r]) \in Nat
           /\ call[r].at < ClosesAt(card[r])
           /\ ClosesAt(card[r]) + SECOND * DEDUP_TTL_MARGIN_SECONDS <= DedupExpiry(r)
           /\ now < DedupExpiry(r)
<1> DEFINE closes == ClosesAt(card[r])
<1>1. /\ card[r].show_time \in Nat
      /\ card[r].duration_seconds \in MIN_DURATION .. MAX_DURATION
      /\ call[r].at \in Nat
    BY OpenMeansInside, CallFields DEF Card
<1>2. closes \in Nat /\ call[r].at < closes
    BY <1>1, ClosingTimeAfterShowTime, OpenMeansInside DEF ClosesAt
<1> HIDE DEF closes
<1>3. /\ SECOND * DedupTtl(closes, call[r].at) \in Nat
      /\ closes + SECOND * DEDUP_TTL_MARGIN_SECONDS
            <= call[r].at + SECOND * DedupTtl(closes, call[r].at)
    BY <1>1, <1>2, DedupTtlCoversMargin
<1>4. SECOND * DEDUP_TTL_MARGIN_SECONDS \in Nat
    BY SecondAssumption, MarginAssumption
<1>5. DedupExpiry(r) = now + SECOND * DedupTtl(closes, call[r].at)
    BY DEF DedupExpiry, closes
<1> QED
    BY <1>1, <1>2, <1>3, <1>4, <1>5 DEF closes

\* A step of handler r alone keeps what the other handlers have established.
LEMMA OneHandlerMoves ==
    ASSUME HandlerInv, NEW r \in Request, now' = now,
           \A s \in Request \ {r} :
              /\ pc'[s] = pc[s] /\ call'[s] = call[s] /\ card'[s] = card[s]
              /\ s \in cast' <=> s \in cast,
           HandlerOK(r)'
    PROVE  HandlerInv'
<1> SUFFICES ASSUME NEW s \in Request, s # r PROVE HandlerOK(s)'
    BY DEF HandlerInv
<1>1. HandlerOK(s)
    BY DEF HandlerInv
<1> QED
    BY <1>1 DEF HandlerOK

\* Before the first request every variable has its type.
LEMMA TypesStart ==
    PathInit => TypeInv
<1> SUFFICES ASSUME PathInit PROVE TypeInv
    OBVIOUS
<1>1. StoreTypeOK
    <2>1. cache \in [Question -> Card \cup {NoCard, Garbled}]
        BY ToCardType, PollRowAssumption DEF PathInit
    <2>2. IsHash(EmptyHash)
        BY DEF IsHash, EmptyHash
    <2> QED
        BY <2>1, <2>2, PollRowAssumption DEF PathInit, StoreTypeOK
<1>2. JournalTypeOK /\ UnfinishedExact
    BY DEF PathInit, JournalInit, JournalTypeOK, UnfinishedExact
<1>3. ServiceTypeOK /\ HandlerInv
    BY DEF PathInit, ServiceInit, ServiceTypeOK, HandlerInv, HandlerOK, Location, Answer
<1> QED
    BY <1>1, <1>2, <1>3 DEF TypeInv, PathTypeOK

\* A step of a handler, the worker, the process or the clock keeps the types.
LEMMA TypesStay ==
    TypeInv /\ [PathNext]_pathVars => TypeInv'
<1> SUFFICES ASSUME TypeInv, [PathNext]_pathVars
             PROVE  TypeInv'
    OBVIOUS
<1>1. StoreTypeOK /\ JournalTypeOK /\ ServiceTypeOK /\ HandlerInv /\ UnfinishedExact
    BY DEF TypeInv, PathTypeOK
<1>2. /\ pc \in [Request -> Location]
      /\ answer \in [Request -> Answer]
      /\ card \in [Request -> Card \cup {NoCard}]
      /\ call \in [Request -> Call \cup {NoCall}]
      /\ cast \subseteq Request
      /\ now \in Nat
    BY <1>1 DEF ServiceTypeOK, StoreTypeOK
<1>3. ASSUME UNCHANGED storeVars
      PROVE  StoreTypeOK'
    BY <1>1, <1>3 DEF StoreTypeOK, storeVars
<1>4. ASSUME UNCHANGED journalVars
      PROVE  JournalTypeOK' /\ UnfinishedExact'
    BY <1>1, <1>4 DEF JournalTypeOK, UnfinishedExact, journalVars
<1>5. ASSUME UNCHANGED serviceVars
      PROVE  ServiceTypeOK'
    BY <1>1, <1>5 DEF ServiceTypeOK, serviceVars
<1>6. ASSUME UNCHANGED serviceVars, now' = now
      PROVE  HandlerInv'
    BY <1>1, <1>6 DEF HandlerInv, HandlerOK, serviceVars
<1>7. ASSUME NEW r \in Request, pc[r] # "idle"
      PROVE  /\ call[r] \in Call
             /\ call[r].at <= now
             /\ QuestionOf(r) \in Question
             /\ call[r].key \in DedupKey
    BY <1>1, <1>7, CallFields DEF HandlerInv, HandlerOK, QuestionOf
<1>10. ASSUME NEW r \in Request, StartRequest(r)
       PROVE  TypeInv'
    <2>1. PICK q \in Question, v \in Viewer, option \in OptionKey \cup {NoOption} :
            call' = [call EXCEPT ![r] =
                [kind   |-> IF option = NoOption THEN "form" ELSE "vote",
                 key    |-> DedupHash(q, v),
                 option |-> option,
                 at     |-> now]]
        BY <1>10 DEF StartRequest
    <2> DEFINE new == [kind   |-> IF option = NoOption THEN "form" ELSE "vote",
                       key    |-> DedupHash(q, v),
                       option |-> option,
                       at     |-> now]
    <2>2. new \in Call /\ new.at = now
        BY <1>2 DEF Call, DedupKey, DedupHash
    <2> HIDE DEF new
    <2>3. /\ call' \in [Request -> Call \cup {NoCall}]
          /\ call'[r] = new
          /\ \A s \in Request \ {r} : call'[s] = call[s]
        BY <1>2, <2>1, <2>2 DEF new
    <2>4. /\ pc' \in [Request -> Location]
          /\ pc'[r] = "get"
          /\ \A s \in Request \ {r} : pc'[s] = pc[s]
          /\ answer' = answer
        BY <1>2, <1>10, GoToType DEF StartRequest, Location
    <2>5. UNCHANGED <<storeVars, journalVars, card, cast>> /\ now' = now
        BY <1>10 DEF StartRequest, storeVars
    <2>6. ServiceTypeOK'
        BY <1>1, <2>3, <2>4, <2>5 DEF ServiceTypeOK
    <2>7. r \notin cast
        BY <1>1, <1>10 DEF StartRequest, HandlerInv, HandlerOK
    <2>8. HandlerOK(r)'
        BY <1>2, <2>2, <2>3, <2>4, <2>5, <2>7 DEF HandlerOK
    <2>9. HandlerInv'
        BY <1>1, <2>3, <2>4, <2>5, <2>8, OneHandlerMoves
    <2> QED
        BY <1>3, <1>4, <2>5, <2>6, <2>9 DEF TypeInv, PathTypeOK
<1>11. ASSUME NEW r \in Request, GetCached(r)
       PROVE  TypeInv'
    <2>1. pc[r] = "get" /\ call[r] \in Call /\ call[r].at <= now
          /\ QuestionOf(r) \in Question
        BY <1>7, <1>11 DEF GetCached
    <2>2. /\ UNCHANGED <<storeVars, journalVars>>
          /\ call' = call /\ cast' = cast /\ now' = now
        BY <1>11 DEF GetCached, storeVars
    <2>3. r \notin cast
        BY <1>1, <2>1 DEF HandlerInv, HandlerOK
    <2> DEFINE found == cache[QuestionOf(r)]
    <2> SUFFICES ServiceTypeOK' /\ HandlerInv'
        BY <1>3, <1>4, <2>2 DEF TypeInv, PathTypeOK
    <2>4. CASE Admit(r, found) /\ found \notin {NoCard, Garbled}
        <3>1. found \in Card
            BY <1>1, <2>1, <2>4 DEF StoreTypeOK
        <3>2. /\ card' \in [Request -> Card \cup {NoCard}]
              /\ card'[r] = found
              /\ pc' \in [Request -> Location]
              /\ answer' \in [Request -> Answer]
              /\ \A s \in Request \ {r} : card'[s] = card[s] /\ pc'[s] = pc[s]
              /\ pc'[r] \in {"exists", "eval", "done"}
              /\ pc'[r] \in {"exists", "eval"} =>
                    RequireOpenVotingWindow(found, call[r].at) = "open"
              /\ pc'[r] = "eval" => call[r].kind = "vote"
            BY <1>2, <2>1, <2>4, <3>1, AdmitEffect
        <3>3. ServiceTypeOK'
            BY <1>1, <2>2, <3>2 DEF ServiceTypeOK
        <3>4. HandlerOK(r)'
            BY <2>1, <2>2, <2>3, <3>1, <3>2 DEF HandlerOK
        <3>5. HandlerInv'
            BY <1>1, <2>2, <3>2, <3>4, OneHandlerMoves
        <3> QED
            BY <3>3, <3>5
    <2>5. CASE GoTo(r, "load_row") /\ UNCHANGED card
        <3>1. /\ pc' \in [Request -> Location]
              /\ pc'[r] = "load_row"
              /\ \A s \in Request \ {r} : pc'[s] = pc[s]
              /\ answer' = answer
            BY <1>2, <2>5, GoToType DEF Location
        <3>2. HandlerOK(r)'
            BY <2>1, <2>2, <2>3, <2>5, <3>1 DEF HandlerOK
        <3> QED
            BY <1>1, <2>2, <2>5, <3>1, <3>2, OneHandlerMoves DEF ServiceTypeOK
    <2>6. CASE GoTo(r, "drop") /\ UNCHANGED card
        <3>1. /\ pc' \in [Request -> Location]
              /\ pc'[r] = "drop"
              /\ \A s \in Request \ {r} : pc'[s] = pc[s]
              /\ answer' = answer
            BY <1>2, <2>6, GoToType DEF Location
        <3>2. HandlerOK(r)'
            BY <2>1, <2>2, <2>3, <2>6, <3>1 DEF HandlerOK
        <3> QED
            BY <1>1, <2>2, <2>6, <3>1, <3>2, OneHandlerMoves DEF ServiceTypeOK
    <2> QED
        BY <1>11, <2>4, <2>5, <2>6 DEF GetCached
<1>12. ASSUME NEW r \in Request, DropGarbled(r)
       PROVE  TypeInv'
    <2>1. pc[r] = "drop" /\ call[r] \in Call /\ call[r].at <= now
          /\ QuestionOf(r) \in Question
        BY <1>7, <1>12 DEF DropGarbled
    <2>2. /\ UNCHANGED <<journalVars>>
          /\ call' = call /\ cast' = cast /\ now' = now
        BY <1>12 DEF DropGarbled, storeVars
    <2>3. r \notin cast
        BY <1>1, <2>1 DEF HandlerInv, HandlerOK
    <2>4. StoreTypeOK'
        BY <1>1, <1>12 DEF DropGarbled, StoreTypeOK, IsHash
    <2> SUFFICES ServiceTypeOK' /\ HandlerInv'
        BY <1>4, <2>2, <2>4 DEF TypeInv, PathTypeOK
    <2>5. CASE GoTo(r, "load_row") /\ UNCHANGED card
        <3>1. /\ pc' \in [Request -> Location]
              /\ pc'[r] = "load_row"
              /\ \A s \in Request \ {r} : pc'[s] = pc[s]
              /\ answer' = answer
            BY <1>2, <2>5, GoToType DEF Location
        <3>2. HandlerOK(r)'
            BY <2>1, <2>2, <2>3, <2>5, <3>1 DEF HandlerOK
        <3> QED
            BY <1>1, <2>2, <2>5, <3>1, <3>2, OneHandlerMoves DEF ServiceTypeOK
    <2>6. CASE Reply(r, "unavailable") /\ UNCHANGED card
        <3>1. /\ pc' \in [Request -> Location]
              /\ answer' \in [Request -> Answer]
              /\ pc'[r] = "done"
              /\ \A s \in Request \ {r} : pc'[s] = pc[s]
            BY <1>2, <2>6, ReplyType DEF Answer
        <3>2. HandlerOK(r)'
            BY <1>1, <2>1, <2>2, <2>6, <3>1 DEF HandlerOK, HandlerInv
        <3> QED
            BY <1>1, <2>2, <2>6, <3>1, <3>2, OneHandlerMoves DEF ServiceTypeOK
    <2> QED
        BY <1>12, <2>5, <2>6 DEF DropGarbled
<1>13. ASSUME NEW r \in Request, LoadRow(r)
       PROVE  TypeInv'
    <2>1. pc[r] = "load_row" /\ call[r] \in Call /\ call[r].at <= now
          /\ QuestionOf(r) \in Question
        BY <1>7, <1>13 DEF LoadRow
    <2>2. /\ UNCHANGED <<storeVars, journalVars>>
          /\ call' = call /\ cast' = cast /\ now' = now
        BY <1>13 DEF LoadRow, storeVars
    <2>3. r \notin cast
        BY <1>1, <2>1 DEF HandlerInv, HandlerOK
    <2> SUFFICES ServiceTypeOK' /\ HandlerInv'
        BY <1>3, <1>4, <2>2 DEF TypeInv, PathTypeOK
    <2>4. CASE Reply(r, "not_found") /\ UNCHANGED card
        <3>1. /\ pc' \in [Request -> Location]
              /\ answer' \in [Request -> Answer]
              /\ pc'[r] = "done"
              /\ \A s \in Request \ {r} : pc'[s] = pc[s]
            BY <1>2, <2>4, ReplyType DEF Answer
        <3>2. HandlerOK(r)'
            BY <1>1, <2>1, <2>2, <2>4, <3>1 DEF HandlerOK, HandlerInv
        <3> QED
            BY <1>1, <2>2, <2>4, <3>1, <3>2, OneHandlerMoves DEF ServiceTypeOK
    <2>5. CASE card' = [card EXCEPT ![r] = ToCard(question[QuestionOf(r)], NoOptions)] /\ GoTo(r, "load_options")
                 /\ ToCard(question[QuestionOf(r)], NoOptions) \in Card
        <3>1. /\ pc' \in [Request -> Location]
              /\ pc'[r] = "load_options"
              /\ \A s \in Request \ {r} : pc'[s] = pc[s]
              /\ answer' = answer
            BY <1>2, <2>5, GoToType DEF Location
        <3>2. /\ card' \in [Request -> Card \cup {NoCard}]
              /\ card'[r] \in Card
              /\ \A s \in Request \ {r} : card'[s] = card[s]
            BY <1>2, <2>5
        <3>3. HandlerOK(r)'
            BY <2>1, <2>2, <2>3, <3>1, <3>2 DEF HandlerOK
        <3> QED
            BY <1>1, <2>2, <3>1, <3>2, <3>3, OneHandlerMoves DEF ServiceTypeOK
    <2>6. question[QuestionOf(r)] # NoRow =>
            ToCard(question[QuestionOf(r)], NoOptions) \in Card
        BY <1>1, <2>1, ToCardType, KeysOfAssumption DEF StoreTypeOK
    <2> QED
        BY <1>13, <2>4, <2>5, <2>6 DEF LoadRow
<1>14. ASSUME NEW r \in Request, LoadOptions(r)
       PROVE  TypeInv'
    <2>1. pc[r] = "load_options" /\ call[r] \in Call /\ call[r].at <= now
          /\ QuestionOf(r) \in Question
        BY <1>7, <1>14 DEF LoadOptions
    <2>2. /\ UNCHANGED <<storeVars, journalVars>>
          /\ call' = call /\ cast' = cast /\ now' = now
        BY <1>14 DEF LoadOptions, storeVars
    <2>3. r \notin cast
        BY <1>1, <2>1 DEF HandlerInv, HandlerOK
    <2> SUFFICES ServiceTypeOK' /\ HandlerInv'
        BY <1>3, <1>4, <2>2 DEF TypeInv, PathTypeOK
    <2>4. CASE card' = [card EXCEPT ![r] = ToCard(card[r], question_option[QuestionOf(r)])] /\ GoTo(r, "warm")
                 /\ ToCard(card[r], question_option[QuestionOf(r)]) \in Card
        <3>1. /\ pc' \in [Request -> Location]
              /\ pc'[r] = "warm"
              /\ \A s \in Request \ {r} : pc'[s] = pc[s]
              /\ answer' = answer
            BY <1>2, <2>4, GoToType DEF Location
        <3>2. /\ card' \in [Request -> Card \cup {NoCard}]
              /\ card'[r] \in Card
              /\ \A s \in Request \ {r} : card'[s] = card[s]
            BY <1>2, <2>4
        <3>3. HandlerOK(r)'
            BY <2>1, <2>2, <2>3, <3>1, <3>2 DEF HandlerOK
        <3> QED
            BY <1>1, <2>2, <3>1, <3>2, <3>3, OneHandlerMoves DEF ServiceTypeOK
    <2>5. card[r] \in Card
        BY <1>1, <2>1 DEF HandlerInv, HandlerOK
    <2>6. ToCard(card[r], question_option[QuestionOf(r)]) \in Card
        BY <1>1, <2>1, <2>5, ToCardType DEF StoreTypeOK
    <2> QED
        BY <1>14, <2>4, <2>6 DEF LoadOptions
<1>15. ASSUME NEW r \in Request, WarmCache(r)
       PROVE  TypeInv'
    <2>1. pc[r] = "warm" /\ call[r] \in Call /\ call[r].at <= now
          /\ QuestionOf(r) \in Question
        BY <1>7, <1>15 DEF WarmCache
    <2>2. /\ UNCHANGED <<journalVars>>
          /\ call' = call /\ cast' = cast /\ now' = now
        BY <1>15 DEF WarmCache, storeVars
    <2>3. r \notin cast
        BY <1>1, <2>1 DEF HandlerInv, HandlerOK
    <2>4. card[r] \in Card
        BY <1>1, <2>1 DEF HandlerInv, HandlerOK
    <2>5. StoreTypeOK'
        BY <1>1, <1>15, <2>4 DEF WarmCache, StoreTypeOK, IsHash
    <2> SUFFICES ServiceTypeOK' /\ HandlerInv'
        BY <1>4, <2>2, <2>5 DEF TypeInv, PathTypeOK
    <2>6. CASE Admit(r, card[r])
        <3>1. card[r] \in Card
            BY <2>4
        <3>2. /\ card' \in [Request -> Card \cup {NoCard}]
              /\ card'[r] = card[r]
              /\ pc' \in [Request -> Location]
              /\ answer' \in [Request -> Answer]
              /\ \A s \in Request \ {r} : card'[s] = card[s] /\ pc'[s] = pc[s]
              /\ pc'[r] \in {"exists", "eval", "done"}
              /\ pc'[r] \in {"exists", "eval"} =>
                    RequireOpenVotingWindow(card[r], call[r].at) = "open"
              /\ pc'[r] = "eval" => call[r].kind = "vote"
            BY <1>2, <2>1, <2>6, <3>1, AdmitEffect
        <3>3. ServiceTypeOK'
            BY <1>1, <2>2, <3>2 DEF ServiceTypeOK
        <3>4. HandlerOK(r)'
            BY <2>1, <2>2, <2>3, <3>1, <3>2 DEF HandlerOK
        <3>5. HandlerInv'
            BY <1>1, <2>2, <3>2, <3>4, OneHandlerMoves
        <3> QED
            BY <3>3, <3>5
    <2>7. CASE Reply(r, "unavailable") /\ UNCHANGED card
        <3>1. /\ pc' \in [Request -> Location]
              /\ answer' \in [Request -> Answer]
              /\ pc'[r] = "done"
              /\ \A s \in Request \ {r} : pc'[s] = pc[s]
            BY <1>2, <2>7, ReplyType DEF Answer
        <3>2. HandlerOK(r)'
            BY <1>1, <2>1, <2>2, <2>7, <3>1 DEF HandlerOK, HandlerInv
        <3> QED
            BY <1>1, <2>2, <2>7, <3>1, <3>2, OneHandlerMoves DEF ServiceTypeOK
    <2> QED
        BY <1>15, <2>6, <2>7 DEF WarmCache
<1>16. ASSUME NEW r \in Request,
              CheckVoted(r) \/ EvalRepeated(r) \/ EvalWrongType(r)
                \/ RedisFails(r) \/ DatabaseFails(r)
       PROVE  TypeInv'
    <2>1. pc[r] # "idle"
        BY <1>16 DEF CheckVoted, EvalRepeated, EvalWrongType, RedisFails, DatabaseFails
    <2>2. /\ UNCHANGED <<storeVars, journalVars>>
          /\ call' = call /\ cast' = cast /\ now' = now /\ card' = card
        BY <1>16 DEF CheckVoted, EvalRepeated, EvalWrongType, RedisFails,
                     DatabaseFails, storeVars
    <2>3. PICK result \in Answer : Reply(r, result)
        BY <1>16 DEF CheckVoted, EvalRepeated, EvalWrongType, RedisFails,
                     DatabaseFails, Answer
    <2>4. /\ pc' \in [Request -> Location]
          /\ answer' \in [Request -> Answer]
          /\ pc'[r] = "done"
          /\ \A s \in Request \ {r} : pc'[s] = pc[s]
        BY <1>2, <2>3, ReplyType
    <2>5. HandlerOK(r)'
        BY <1>1, <1>7, <2>1, <2>2, <2>4 DEF HandlerOK, HandlerInv
    <2>6. HandlerInv' /\ ServiceTypeOK'
        BY <1>1, <2>2, <2>4, <2>5, OneHandlerMoves DEF ServiceTypeOK
    <2> QED
        BY <1>3, <1>4, <2>2, <2>6 DEF TypeInv, PathTypeOK
<1>17. ASSUME NEW r \in Request, EvalFirst(r)
       PROVE  TypeInv'
    <2>1. /\ pc[r] = "eval" /\ call[r] \in Call /\ call[r].at <= now
          /\ call[r].key \in DedupKey
        BY <1>7, <1>17 DEF EvalFirst
    <2>2. /\ card[r] \in Card /\ call[r].kind = "vote"
          /\ RequireOpenVotingWindow(card[r], call[r].at) = "open"
        BY <1>1, <2>1 DEF HandlerInv, HandlerOK
    <2>3. DedupExpiry(r) \in Nat
        BY <1>2, <2>1, <2>2, DedupExpiryType
    <2>4. EventOf(r) \in VoteEvent /\ call[r].option \in OptionKey
        BY <2>1, <2>2, EventType, CallFields
    <2> DEFINE shard == ResultCounterKey(call[r].key)
    <2>5. shard \in CounterKey
        BY <2>1, CounterKeyType
    <2>6. /\ counters[shard] # NotAHash
          /\ dedup' = [dedup EXCEPT ![call[r].key] = DedupExpiry(r)]
          /\ counters' = [counters EXCEPT ![shard] =
                            HIncrBy(counters[shard], call[r].option)]
          /\ cast' = cast \cup {r}
        BY <1>17 DEF EvalFirst, ReserveViewerAndIncrementCounter
    <2>7. /\ UNCHANGED <<now, question, question_option, vote, cache, api, queue,
                         unfinished, worker, batch, call, card>>
          /\ lost' \in {lost, lost \cup {EventOf(r)}}
        BY <1>17 DEF EvalFirst
    <2> HIDE DEF shard
    <2>8. StoreTypeOK'
        <3>1. IsHash(HIncrBy(counters[shard], call[r].option))
            BY <1>1, <2>4, <2>5, <2>6, HIncrByType DEF StoreTypeOK
        <3>2. /\ DOMAIN counters' = CounterKey
              /\ \A c \in CounterKey : counters'[c] = NotAHash \/ IsHash(counters'[c])
            BY <1>1, <2>5, <2>6, <3>1 DEF StoreTypeOK
        <3>3. dedup' \in [DedupKey -> Nat]
            BY <1>1, <2>1, <2>3, <2>6 DEF StoreTypeOK
        <3> QED
            BY <1>1, <2>7, <3>2, <3>3 DEF StoreTypeOK, IsHash
    <2>9. JournalTypeOK' /\ UnfinishedExact'
        BY <1>1, <2>4, <2>7 DEF JournalTypeOK, UnfinishedExact
    <2>10. /\ pc' \in [Request -> Location]
           /\ pc'[r] \in {"journal", "eval", "done"}
           /\ \A s \in Request \ {r} : pc'[s] = pc[s]
           /\ answer' \in [Request -> Answer]
        BY <1>2, <1>17, GoToType, ReplyType DEF EvalFirst, Location, Answer
    <2>11. HandlerOK(r)'
        BY <2>1, <2>2, <2>7, <2>10 DEF HandlerOK
    <2>12. HandlerInv'
        BY <1>1, <2>6, <2>7, <2>10, <2>11, OneHandlerMoves
    <2>13. ServiceTypeOK'
        BY <1>2, <2>6, <2>7, <2>10 DEF ServiceTypeOK
    <2> QED
        BY <2>8, <2>9, <2>12, <2>13 DEF TypeInv, PathTypeOK
<1>18. ASSUME NEW r \in Request, JournalVote(r)
       PROVE  TypeInv'
    <2>1. pc[r] = "journal" /\ call[r] \in Call /\ call[r].at <= now
        BY <1>7, <1>18 DEF JournalVote
    <2>2. call[r].kind = "vote"
        BY <1>1, <2>1 DEF HandlerInv, HandlerOK
    <2>3. EventOf(r) \in VoteEvent
        BY <2>1, <2>2, EventType
    <2>4. UNCHANGED <<now, question, question_option, cache, dedup, counters,
                      api, worker, batch, call, card, cast>>
        BY <1>18 DEF JournalVote
    <2>5. StoreTypeOK' /\ JournalTypeOK' /\ UnfinishedExact'
        <3>1. CASE Enqueue(EventOf(r)) /\ UNCHANGED vote
            <4>1. CASE /\ queue' = Append(queue, EventOf(r))
                       /\ unfinished' = unfinished + 1
                       /\ UNCHANGED lost
                <5>1. queue' \in Seq(VoteEvent) /\ Len(queue') = Len(queue) + 1
                    BY <1>1, <2>3, <4>1 DEF JournalTypeOK
                <5> QED
                    BY <1>1, <2>4, <3>1, <4>1, <5>1
                    DEF StoreTypeOK, JournalTypeOK, UnfinishedExact, IsHash
            <4>2. CASE lost' = lost \cup {EventOf(r)} /\ UNCHANGED <<queue, unfinished>>
                BY <1>1, <2>3, <2>4, <3>1, <4>2
                DEF StoreTypeOK, JournalTypeOK, UnfinishedExact, IsHash
            <4> QED
                BY <3>1, <4>1, <4>2 DEF Enqueue
        <3>2. CASE WriteBatch(<<EventOf(r)>>) /\ UNCHANGED <<queue, unfinished>>
            <4>1. <<EventOf(r)>> \in Seq(VoteEvent)
                BY <2>3
            <4>2. vote' \subseteq VoteEvent /\ lost' \subseteq VoteEvent
                BY <1>1, <3>2, <4>1, InsertType DEF WriteBatch, StoreTypeOK, JournalTypeOK
            <4> QED
                BY <1>1, <2>4, <3>2, <4>2
                DEF StoreTypeOK, JournalTypeOK, UnfinishedExact, IsHash
        <3> QED
            BY <1>18, <3>1, <3>2 DEF JournalVote
    <2>6. PICK result \in Answer : Reply(r, result)
        BY <1>18 DEF JournalVote, Answer
    <2>7. /\ pc' \in [Request -> Location]
          /\ answer' \in [Request -> Answer]
          /\ pc'[r] = "done"
          /\ \A s \in Request \ {r} : pc'[s] = pc[s]
        BY <1>2, <2>6, ReplyType
    <2>8. HandlerOK(r)'
        BY <2>1, <2>2, <2>4, <2>7 DEF HandlerOK
    <2>9. HandlerInv' /\ ServiceTypeOK'
        BY <1>1, <2>4, <2>7, <2>8, OneHandlerMoves DEF ServiceTypeOK
    <2> QED
        BY <2>5, <2>9 DEF TypeInv, PathTypeOK
<1>19. ASSUME WorkerStep
       PROVE  TypeInv'
    <2>1. UNCHANGED serviceVars /\ now' = now
        BY <1>19 DEF WorkerStep, WorkerNext, WorkerTake, WorkerFlush, WorkerWrite, storeVars
    <2> SUFFICES StoreTypeOK' /\ JournalTypeOK' /\ UnfinishedExact'
        BY <1>5, <1>6, <2>1 DEF TypeInv, PathTypeOK
    <2>2. CASE WorkerTake
        <3>1. /\ batch' \in Seq(VoteEvent) /\ Len(batch') = Len(batch) + 1
              /\ queue' \in Seq(VoteEvent) /\ Len(queue') = Len(queue) - 1
            BY <1>1, <2>2 DEF WorkerTake, JournalTypeOK
        <3>2. UNCHANGED storeVars
            BY <2>2 DEF WorkerTake
        <3>3. Len(queue) \in Nat /\ Len(batch) \in Nat
            BY <1>1 DEF JournalTypeOK
        <3> QED
            BY <1>1, <1>3, <2>2, <3>1, <3>2, <3>3
            DEF WorkerTake, JournalTypeOK, UnfinishedExact
    <2>3. CASE WorkerFlush
        BY <1>1, <1>3, <2>3 DEF WorkerFlush, JournalTypeOK, UnfinishedExact
    <2>4. CASE WorkerWrite
        <3>1. vote' \subseteq VoteEvent /\ lost' \subseteq VoteEvent
            BY <1>1, <2>4, InsertType DEF WorkerWrite, WriteBatch, StoreTypeOK, JournalTypeOK
        <3>2. StoreTypeOK'
            BY <1>1, <2>4, <3>1 DEF WorkerWrite, StoreTypeOK, IsHash
        <3>3. Len(queue) \in Nat /\ Len(batch) \in Nat
            BY <1>1 DEF JournalTypeOK
        <3>4. batch' = <<>> /\ unfinished' = Len(queue) /\ queue' = queue
            BY <1>1, <2>4, <3>3 DEF WorkerWrite, UnfinishedExact
        <3> QED
            BY <1>1, <2>4, <3>1, <3>2, <3>3, <3>4
            DEF WorkerWrite, JournalTypeOK, UnfinishedExact
    <2> QED
        BY <1>19, <2>2, <2>3, <2>4 DEF WorkerStep, WorkerNext
<1>20. ASSUME (ApiShutdown \/ JournalClose \/ ApiStart) /\ UNCHANGED serviceVars
       PROVE  TypeInv'
    <2>1. UNCHANGED <<storeVars, serviceVars>> /\ now' = now
        BY <1>20 DEF ApiShutdown, JournalClose, ApiStart, storeVars
    <2> SUFFICES JournalTypeOK' /\ UnfinishedExact'
        BY <1>3, <1>5, <1>6, <2>1 DEF TypeInv, PathTypeOK
    <2>2. CASE ApiShutdown
        BY <1>1, <2>2 DEF ApiShutdown, JournalTypeOK, UnfinishedExact
    <2>3. CASE JournalClose
        BY <1>1, <2>3 DEF JournalClose, JournalTypeOK, UnfinishedExact, Range
    <2>4. CASE ApiStart
        BY <1>1, <2>4, AsyncAssumption DEF ApiStart, JournalTypeOK, UnfinishedExact
    <2> QED
        BY <1>20, <2>2, <2>3, <2>4
<1>21. ASSUME ApiDrained
       PROVE  TypeInv'
    <2>1. UNCHANGED <<storeVars, serviceVars>> /\ now' = now
        BY <1>21 DEF ApiDrained, storeVars
    <2>2. JournalTypeOK' /\ UnfinishedExact'
        BY <1>1, <1>21 DEF ApiDrained, JournalTypeOK, UnfinishedExact
    <2> QED
        BY <1>3, <1>5, <1>6, <2>1, <2>2 DEF TypeInv, PathTypeOK
<1>22. ASSUME ApiCrash
       PROVE  TypeInv'
    <2>1. /\ UNCHANGED <<storeVars, call, card, cast>> /\ now' = now
          /\ JournalCrash
        BY <1>22 DEF ApiCrash, storeVars
    <2>2. \A r \in Request : pc[r] = "journal" => EventOf(r) \in VoteEvent
        BY <1>1, <1>7, EventType DEF HandlerInv, HandlerOK
    <2>3. lost' \subseteq VoteEvent
        BY <1>1, <1>22, <2>2 DEF ApiCrash, JournalTypeOK, Range
    <2>4. JournalTypeOK' /\ UnfinishedExact'
        BY <1>1, <2>1, <2>3 DEF JournalCrash, JournalTypeOK, UnfinishedExact
    <2>5. /\ pc' = [r \in Request |-> IF r \in InFlight THEN "done" ELSE pc[r]]
          /\ answer' = [r \in Request |->
                IF r \in InFlight THEN "connection_lost" ELSE answer[r]]
        BY <1>22 DEF ApiCrash
    <2>6. ServiceTypeOK'
        BY <1>2, <2>1, <2>5 DEF ServiceTypeOK, Location, Answer
    <2>7. HandlerInv'
        BY <1>1, <1>2, <2>1, <2>5 DEF HandlerInv, HandlerOK, InFlight
    <2> QED
        BY <1>3, <2>1, <2>4, <2>6, <2>7 DEF TypeInv, PathTypeOK
<1>23. ASSUME Tick
       PROVE  TypeInv'
    <2>1. /\ UNCHANGED <<question, question_option, vote, cache, dedup, counters,
                         journalVars, serviceVars>>
          /\ now' = now + 1
        BY <1>23 DEF Tick
    <2>2. StoreTypeOK'
        BY <1>1, <2>1 DEF StoreTypeOK, IsHash
    <2>3. HandlerInv'
        BY <1>1, <1>2, <2>1, CallFields DEF HandlerInv, HandlerOK, serviceVars
    <2> QED
        BY <1>4, <1>5, <2>1, <2>2, <2>3 DEF TypeInv, PathTypeOK
<1>24. ASSUME UNCHANGED pathVars
       PROVE  TypeInv'
    BY <1>3, <1>4, <1>5, <1>6, <1>24 DEF pathVars, TypeInv, PathTypeOK, storeVars
<1> QED
    BY <1>10, <1>11, <1>12, <1>13, <1>14, <1>15, <1>16, <1>17, <1>18, <1>19,
       <1>20, <1>21, <1>22, <1>23, <1>24
    DEF PathNext, HandlerNext, ProcessStep

\* Types, what a handler at each call has established, and the count of
\* unfinished puts: the inductive form of TypeCorrect and UnfinishedCorrect.
THEOREM TypeInvariant == PathSpec => []TypeInv
    BY TypesStart, TypesStay, PTL DEF PathSpec

\* Every variable keeps its type, and unfinished never goes below zero
\* (asyncio's task_done would raise).
THEOREM TypeCorrect == PathSpec => []PathTypeOK
    BY TypeInvariant, PTL DEF TypeInv

\* join() waits for the events in the queue and in the worker's hands, no
\* fewer and no more.
THEOREM UnfinishedCorrect == PathSpec => []UnfinishedExact
    BY TypeInvariant, PTL DEF TypeInv

-----------------------------------------------------------------------------
\* Cards

\* A card made from another card keeps the columns and takes the options.
LEMMA ToCardFields ==
    ASSUME NEW row, NEW options, NEW others, NEW t
    PROVE  /\ ToCard(row, options).options = options
           /\ ToCard(ToCard(row, others), options) = ToCard(row, options)
           /\ ClosesAt(ToCard(row, options)) = ClosesAt(row)
           /\ RequireOpenVotingWindow(ToCard(row, options), t)
                = RequireOpenVotingWindow(row, t)
    BY DEF ToCard, ClosesAt, RequireOpenVotingWindow

\* Every handler's step leaves the tables of questions alone.
LEMMA QuestionsStay ==
    ASSUME [PathNext]_pathVars
    PROVE  question' = question /\ question_option' = question_option
    BY DEF PathNext, HandlerNext, StartRequest, GetCached, DropGarbled, LoadRow,
       LoadOptions, WarmCache, CheckVoted, EvalRepeated, EvalWrongType, EvalFirst,
       JournalVote, RedisFails, DatabaseFails, WorkerStep, WorkerNext, WorkerTake,
       WorkerFlush, WorkerWrite, ProcessStep, ApiShutdown, JournalClose, ApiStart,
       ApiDrained, ApiCrash, Tick, pathVars, storeVars

\* What a step may do to the calls, cards and locations of handlers: one
\* handler moves, or none, or all of those in flight end.
LEMMA OneHandlerHolds ==
    ASSUME CardInv, NEW r \in Request,
           question' = question, question_option' = question_option,
           \A s \in Request \ {r} :
              pc'[s] = pc[s] /\ call'[s] = call[s] /\ card'[s] = card[s],
           HeldOK(r)'
    PROVE  \A s \in Request : HeldOK(s)'
<1> SUFFICES ASSUME NEW s \in Request, s # r PROVE HeldOK(s)'
    OBVIOUS
<1>1. HeldOK(s)
    BY DEF CardInv
<1> QED
    BY <1>1 DEF HeldOK, QuestionOf

\* The cards in Redis are the stored questions at the start.
LEMMA CardsStart ==
    PathInit => CardInv
    BY DEF PathInit, ServiceInit, CardInv, CachedOK, HeldOK

\* A step leaves every card in Redis and in a handler the stored question.
LEMMA CardsStay ==
    TypeInv /\ CardInv /\ [PathNext]_pathVars => CardInv'
<1> SUFFICES ASSUME TypeInv, CardInv, [PathNext]_pathVars
             PROVE  CardInv'
    OBVIOUS
<1>1. question' = question /\ question_option' = question_option
    BY QuestionsStay
<1>2. /\ pc \in [Request -> Location]
      /\ answer \in [Request -> Answer]
      /\ card \in [Request -> Card \cup {NoCard}]
      /\ call \in [Request -> Call \cup {NoCall}]
      /\ cache \in [Question -> Card \cup {NoCard, Garbled}]
    BY DEF TypeInv, PathTypeOK, ServiceTypeOK, StoreTypeOK
<1>3. \A r \in Request : HeldOK(r)
    BY DEF CardInv
<1>4. ASSUME NEW r \in Request, pc[r] # "idle"
      PROVE  call[r] \in Call /\ QuestionOf(r) \in Question
    BY <1>4, CallFields DEF TypeInv, HandlerInv, HandlerOK, QuestionOf
<1>5. ASSUME cache' = cache
      PROVE  \A q \in Question : CachedOK(q)'
    BY <1>1, <1>5 DEF CardInv, CachedOK
<1>6. ASSUME NEW r \in Request, StartRequest(r)
      PROVE  CardInv'
    <2>1. /\ pc'[r] = "get"
          /\ \A s \in Request \ {r} :
                pc'[s] = pc[s] /\ call'[s] = call[s] /\ card'[s] = card[s]
          /\ cache' = cache
        BY <1>2, <1>6, GoToType DEF StartRequest, storeVars, Location
    <2>2. HeldOK(r)'
        BY <2>1 DEF HeldOK
    <2> QED
        BY <1>1, <1>5, <2>1, <2>2, OneHandlerHolds DEF CardInv
<1>7. ASSUME NEW r \in Request, NEW c \in Card, Admit(r, c), call' = call,
             pc[r] # "idle", question[QuestionOf(r)] # NoRow,
             c = ToCard(question[QuestionOf(r)], question_option[QuestionOf(r)])
      PROVE  \A s \in Request : HeldOK(s)'
    <2>1. /\ card'[r] = c
          /\ \A s \in Request \ {r} : card'[s] = card[s] /\ pc'[s] = pc[s]
          /\ pc'[r] \in {"exists", "eval", "done"}
          /\ pc'[r] = "eval" => call[r].option \in KeysOf[c.options]
        BY <1>2, <1>4, <1>7, AdmitEffect
    <2>2. c.options = question_option[QuestionOf(r)]
        BY <1>7, ToCardFields
    <2>3. HeldOK(r)'
        BY <1>1, <1>7, <2>1, <2>2 DEF HeldOK, QuestionOf
    <2> QED
        BY <1>1, <1>7, <2>1, <2>3, OneHandlerHolds
<1>8. ASSUME NEW r \in Request, NEW location \in {"drop", "load_row", "done"},
             pc'[r] = location, \A s \in Request \ {r} : pc'[s] = pc[s],
             call' = call, card' = card
      PROVE  \A s \in Request : HeldOK(s)'
    <2>1. HeldOK(r)'
        BY <1>8 DEF HeldOK
    <2> QED
        BY <1>1, <1>8, <2>1, OneHandlerHolds
<1>9. ASSUME NEW r \in Request, NEW result \in Answer, Reply(r, result),
             call' = call, card' = card
      PROVE  \A s \in Request : HeldOK(s)'
    BY <1>2, <1>8, <1>9, ReplyType
<1>10. ASSUME NEW r \in Request, GetCached(r)
       PROVE  CardInv'
    <2> DEFINE q == QuestionOf(r)
    <2>1. pc[r] # "idle" /\ call' = call /\ cache' = cache
        BY <1>10 DEF GetCached, storeVars
    <2>2. q \in Question /\ CachedOK(q)
        BY <1>4, <2>1 DEF CardInv
    <2>3. CASE cache[q] \notin {NoCard, Garbled} /\ Admit(r, cache[q])
        BY <1>2, <1>5, <1>7, <2>1, <2>2, <2>3 DEF CachedOK, CardInv
    <2>4. CASE (GoTo(r, "load_row") \/ GoTo(r, "drop")) /\ UNCHANGED card
        <3>1. /\ pc'[r] \in {"load_row", "drop"}
              /\ \A s \in Request \ {r} : pc'[s] = pc[s]
            BY <1>2, <2>4, GoToType DEF Location
        <3> QED
            BY <1>5, <1>8, <2>1, <2>4, <3>1 DEF CardInv
    <2> QED
        BY <1>10, <2>3, <2>4 DEF GetCached
<1>11. ASSUME NEW r \in Request, DropGarbled(r)
       PROVE  CardInv'
    <2>1. /\ call' = call /\ card' = card
          /\ cache' = [cache EXCEPT ![QuestionOf(r)] = NoCard]
        BY <1>11 DEF DropGarbled
    <2>2. \A q \in Question : CachedOK(q)'
        BY <1>1, <1>2, <2>1 DEF CardInv, CachedOK
    <2>3. CASE GoTo(r, "load_row")
        BY <1>2, <1>8, <2>1, <2>2, <2>3, GoToType DEF CardInv, Location
    <2>4. CASE Reply(r, "unavailable")
        BY <1>9, <2>1, <2>2, <2>4 DEF CardInv, Answer
    <2> QED
        BY <1>11, <2>3, <2>4 DEF DropGarbled
<1>12. ASSUME NEW r \in Request, LoadRow(r)
       PROVE  CardInv'
    <2>1. call' = call /\ cache' = cache
        BY <1>12 DEF LoadRow, storeVars
    <2>2. CASE Reply(r, "not_found") /\ UNCHANGED card
        BY <1>5, <1>9, <2>1, <2>2 DEF CardInv, Answer
    <2>3. CASE /\ question[QuestionOf(r)] # NoRow
               /\ card' = [card EXCEPT ![r] = ToCard(question[QuestionOf(r)], NoOptions)]
               /\ GoTo(r, "load_options")
        <3>1. /\ pc'[r] = "load_options"
              /\ \A s \in Request \ {r} : pc'[s] = pc[s] /\ card'[s] = card[s]
              /\ card'[r] = ToCard(question[QuestionOf(r)], NoOptions)
            BY <1>2, <2>3, GoToType DEF Location
        <3>2. HeldOK(r)'
            BY <1>1, <2>1, <2>3, <3>1 DEF HeldOK, QuestionOf
        <3> QED
            BY <1>1, <1>5, <2>1, <3>1, <3>2, OneHandlerHolds DEF CardInv
    <2> QED
        BY <1>12, <2>2, <2>3 DEF LoadRow
<1>13. ASSUME NEW r \in Request, LoadOptions(r)
       PROVE  CardInv'
    <2> DEFINE q == QuestionOf(r)
    <2>1. /\ call' = call /\ cache' = cache /\ pc[r] = "load_options"
          /\ card' = [card EXCEPT ![r] = ToCard(card[r], question_option[q])]
          /\ GoTo(r, "warm")
        BY <1>13 DEF LoadOptions, storeVars
    <2>2. question[q] # NoRow /\ card[r] = ToCard(question[q], NoOptions)
        BY <1>3, <2>1 DEF HeldOK
    <2>3. /\ pc'[r] = "warm"
          /\ \A s \in Request \ {r} : pc'[s] = pc[s] /\ card'[s] = card[s]
          /\ card'[r] = ToCard(question[q], question_option[q])
        BY <1>2, <2>1, <2>2, GoToType, ToCardFields DEF Location
    <2>4. HeldOK(r)'
        BY <1>1, <2>1, <2>2, <2>3 DEF HeldOK, QuestionOf
    <2> QED
        BY <1>1, <1>5, <2>1, <2>3, <2>4, OneHandlerHolds DEF CardInv
<1>14. ASSUME NEW r \in Request, WarmCache(r)
       PROVE  CardInv'
    <2> DEFINE q == QuestionOf(r)
    <2>1. /\ call' = call /\ pc[r] = "warm"
          /\ cache' = [cache EXCEPT ![q] = card[r]]
        BY <1>14 DEF WarmCache
    <2>2. /\ question[q] # NoRow
          /\ card[r] = ToCard(question[q], question_option[q])
          /\ card[r] \in Card
        BY <1>3, <2>1 DEF HeldOK, TypeInv, HandlerInv, HandlerOK
    <2>3. \A p \in Question : CachedOK(p)'
        BY <1>1, <1>2, <2>1, <2>2 DEF CardInv, CachedOK
    <2>4. CASE Admit(r, card[r])
        BY <1>7, <2>1, <2>2, <2>3, <2>4 DEF CardInv
    <2>5. CASE Reply(r, "unavailable") /\ UNCHANGED card
        BY <1>9, <2>1, <2>3, <2>5 DEF CardInv, Answer
    <2> QED
        BY <1>14, <2>4, <2>5 DEF WarmCache
<1>15. ASSUME NEW r \in Request,
              CheckVoted(r) \/ EvalRepeated(r) \/ EvalWrongType(r)
                \/ RedisFails(r) \/ DatabaseFails(r) \/ JournalVote(r)
       PROVE  CardInv'
    <2>1. call' = call /\ card' = card /\ cache' = cache
        BY <1>15 DEF CheckVoted, EvalRepeated, EvalWrongType, RedisFails,
                     DatabaseFails, JournalVote, storeVars
    <2>2. PICK result \in Answer : Reply(r, result)
        BY <1>15 DEF CheckVoted, EvalRepeated, EvalWrongType, RedisFails,
                     DatabaseFails, JournalVote, Answer
    <2> QED
        BY <1>5, <1>9, <2>1, <2>2 DEF CardInv
<1>16. ASSUME NEW r \in Request, EvalFirst(r)
       PROVE  CardInv'
    <2>1. call' = call /\ card' = card /\ cache' = cache /\ pc[r] = "eval"
        BY <1>16 DEF EvalFirst
    <2>2. /\ pc'[r] \in {"journal", "eval", "done"}
          /\ \A s \in Request \ {r} : pc'[s] = pc[s]
        BY <1>2, <1>16, GoToType, ReplyType DEF EvalFirst, Location, Answer
    <2>3. HeldOK(r)'
        BY <1>1, <1>3, <2>1, <2>2 DEF HeldOK, QuestionOf
    <2> QED
        BY <1>1, <1>5, <2>1, <2>2, <2>3, OneHandlerHolds DEF CardInv
<1>17. ASSUME WorkerStep \/ Tick \/ ApiDrained \/ UNCHANGED pathVars
                \/ ((ApiShutdown \/ JournalClose \/ ApiStart) /\ UNCHANGED serviceVars)
       PROVE  CardInv'
    <2>1. UNCHANGED serviceVars /\ cache' = cache
        BY <1>17 DEF WorkerStep, WorkerNext, WorkerTake, WorkerFlush, WorkerWrite,
           Tick, ApiDrained, ApiShutdown, JournalClose, ApiStart, storeVars, pathVars
    <2> QED
        BY <1>1, <1>3, <1>5, <2>1 DEF CardInv, HeldOK, QuestionOf, serviceVars
<1>18. ASSUME ApiCrash
       PROVE  CardInv'
    <2>1. call' = call /\ card' = card /\ cache' = cache
        BY <1>18 DEF ApiCrash, storeVars
    <2>2. \A r \in Request : pc'[r] \in {"done", pc[r]}
        BY <1>18 DEF ApiCrash
    <2> QED
        BY <1>1, <1>3, <1>5, <2>1, <2>2 DEF CardInv, HeldOK, QuestionOf
<1> QED
    BY <1>6, <1>10, <1>11, <1>12, <1>13, <1>14, <1>15, <1>16, <1>17, <1>18
    DEF PathNext, HandlerNext, ProcessStep

\* Without edits, every card in Redis and in a handler is the stored question.
THEOREM CardInvariant == PathSpec => []CardInv
    BY CardsStart, CardsStay, TypeInvariant, PTL DEF PathSpec

-----------------------------------------------------------------------------
\* One vote per viewer

\* A request, once sent, asks the same for good.
LEMMA CallsStay ==
    ASSUME TypeInv, [PathNext]_pathVars, NEW r \in Request, pc[r] # "idle"
    PROVE  call'[r] = call[r]
<1>1. call \in [Request -> Call \cup {NoCall}]
    BY DEF TypeInv, PathTypeOK, ServiceTypeOK
<1>2. ASSUME NEW s \in Request, StartRequest(s)
      PROVE  call'[r] = call[r]
    BY <1>1, <1>2 DEF StartRequest
<1>3. ASSUME ~ \E s \in Request : StartRequest(s)
      PROVE  call' = call
    BY <1>3 DEF PathNext, HandlerNext, GetCached, DropGarbled, LoadRow,
       LoadOptions, WarmCache, CheckVoted, EvalRepeated, EvalWrongType, EvalFirst,
       JournalVote, RedisFails, DatabaseFails, WorkerStep, ProcessStep,
       ApiDrained, ApiCrash, Tick, pathVars, serviceVars
<1> QED
    BY <1>2, <1>3

\* Only a first vote of the script writes dedup keys and counters.
LEMMA OnlyEvalFirstCounts ==
    ASSUME [PathNext]_pathVars
    PROVE  \/ \E r \in Request : EvalFirst(r)
           \/ cast' = cast /\ dedup' = dedup /\ counters' = counters
    BY DEF PathNext, HandlerNext, StartRequest, GetCached, DropGarbled, LoadRow,
       LoadOptions, WarmCache, CheckVoted, EvalRepeated, EvalWrongType,
       JournalVote, RedisFails, DatabaseFails, WorkerStep, WorkerNext, WorkerTake,
       WorkerFlush, WorkerWrite, ProcessStep, ApiShutdown, JournalClose, ApiStart,
       ApiDrained, ApiCrash, Tick, pathVars, storeVars, serviceVars

\* A handler that is in flight after a step was so before it, or starts.
LEMMA InFlightOrStarting ==
    ASSUME TypeInv, [PathNext]_pathVars, NEW r \in Request, r \in InFlight'
    PROVE  r \in InFlight \/ StartRequest(r)
<1>1. pc \in [Request -> Location] /\ answer \in [Request -> Answer]
    BY DEF TypeInv, PathTypeOK, ServiceTypeOK
<1>2. pc'[r] \notin {"idle", "done"}
    BY DEF InFlight
<1>3. SUFFICES ASSUME pc[r] \in {"idle", "done"}
               PROVE  StartRequest(r)
    BY DEF InFlight
<1>4. pc'[r] # pc[r]
    BY <1>2, <1>3
<1>5. ASSUME NEW s \in Request, StartRequest(s) \/ HandlerNext(s)
      PROVE  s = r
    <2>1. \/ \E location : pc' = [pc EXCEPT ![s] = location]
          \/ pc' = pc
        BY <1>5 DEF HandlerNext, StartRequest, GetCached, DropGarbled, LoadRow,
           LoadOptions, WarmCache, CheckVoted, EvalRepeated, EvalWrongType, EvalFirst,
           JournalVote, RedisFails, DatabaseFails, Admit, GoTo, Reply
    <2> QED
        BY <1>1, <1>4, <2>1
<1>6. ~ HandlerNext(r)
    BY <1>3 DEF HandlerNext, GetCached, DropGarbled, LoadRow,
       LoadOptions, WarmCache, CheckVoted, EvalRepeated, EvalWrongType, EvalFirst,
       JournalVote, RedisFails, DatabaseFails
<1>7. ~ (WorkerStep \/ Tick \/ UNCHANGED pathVars)
    BY <1>4 DEF WorkerStep, Tick, pathVars, serviceVars
<1>8. ~ ProcessStep
    BY <1>1, <1>2, <1>3 DEF ProcessStep, ApiDrained, ApiCrash, serviceVars, InFlight
<1> QED
    BY <1>5, <1>6, <1>7, <1>8 DEF PathNext

\* Nobody is in flight at the start.
LEMMA LatencyStart ==
    PathInit => LatencyInv
    BY DEF PathInit, ServiceInit, LatencyInv, InFlight

\* No step lets a handler outlive the latency allowed to the environment.
LEMMA LatencyStays ==
    TypeInv /\ TypeInv' /\ LatencyInv /\ [PathNext]_pathVars => LatencyInv'
<1> SUFFICES ASSUME TypeInv, TypeInv', LatencyInv, [PathNext]_pathVars,
                    NEW r \in Request, r \in InFlight'
             PROVE  (now <= call[r].at + MaxLatency)'
    BY DEF LatencyInv, InFlight
<1>1. now \in Nat /\ now' \in Nat /\ MaxLatency \in Nat
    BY BoundAssumption DEF TypeInv, PathTypeOK, StoreTypeOK
<1>2. pc'[r] # "idle" /\ call'[r] \in Call /\ call'[r].at \in Nat
    BY CallFields DEF TypeInv, HandlerInv, HandlerOK, InFlight
<1>3. CASE StartRequest(r)
    <2>1. call'[r].at = now /\ now' = now
        BY <1>3 DEF StartRequest, storeVars, TypeInv, PathTypeOK, ServiceTypeOK
    <2> QED
        BY <1>1, <2>1
<1>4. CASE r \in InFlight
    <2>1. call'[r] = call[r]
        BY <1>4, CallsStay DEF InFlight
    <2>2. now <= call[r].at + MaxLatency
        BY <1>4 DEF LatencyInv
    <2>3. CASE Tick
        <3>1. now - call[r].at < MaxLatency /\ now' = now + 1
            BY <1>4, <2>3 DEF Tick
        <3> QED
            BY <1>1, <1>2, <2>1, <3>1
    <2>4. CASE ~Tick
        <3>1. now' = now
            BY <2>4 DEF PathNext, HandlerNext, StartRequest, GetCached, DropGarbled,
               LoadRow, LoadOptions, WarmCache, CheckVoted, EvalRepeated,
               EvalWrongType, EvalFirst, JournalVote, RedisFails, DatabaseFails,
               WorkerStep, WorkerNext, WorkerTake, WorkerFlush, WorkerWrite,
               ProcessStep, ApiShutdown, JournalClose, ApiStart, ApiDrained,
               ApiCrash, pathVars, storeVars
        <3> QED
            BY <2>1, <2>2, <3>1
    <2> QED
        BY <2>3, <2>4
<1> QED
    BY <1>3, <1>4, InFlightOrStarting

\* No handler outlives the latency allowed to the environment.
THEOREM LatencyInvariant == PathSpec => []LatencyInv
    BY LatencyStart, LatencyStays, TypeInvariant, PTL DEF PathSpec

\* The invariant behind one vote per viewer: a counted vote was sent inside
\* the window of its question and left a key that outlives the window by the
\* margin; no handler lives that long, so whoever passed the gate still finds
\* the key.
CountInv == VotesInWindow /\ ReservedIffCounted /\ OneVotePerViewer

\* A viewer whose vote the script counts as the first has none counted yet.
LEMMA FirstVoteIsFirst ==
    ASSUME TypeInv, CardInv, LatencyInv, VotesInWindow, NEW r \in Request, EvalFirst(r)
    PROVE  LET k == call[r].key
               q == QuestionOf(r)
               bound == ClosesAt(question[q]) + SECOND * DEDUP_TTL_MARGIN_SECONDS
           IN  /\ k \in DedupKey
               /\ question[q] # NoRow
               /\ RequireOpenVotingWindow(question[q], call[r].at) = "open"
               /\ call[r].option \in KeysOf[question_option[q]]
               /\ DedupExpiry(r) \in Nat /\ now < DedupExpiry(r) /\ now \in Nat
               /\ bound <= DedupExpiry(r)
               /\ \A s \in cast : call[s].key # k
<1> DEFINE k == call[r].key
           q == QuestionOf(r)
           bound == ClosesAt(question[q]) + SECOND * DEDUP_TTL_MARGIN_SECONDS
<1>1. pc[r] = "eval" /\ ~DedupKeyExists(k)
    BY DEF EvalFirst, ReserveViewerAndIncrementCounter
<1>2. /\ call[r] \in Call /\ call[r].at <= now /\ card[r] \in Card
      /\ RequireOpenVotingWindow(card[r], call[r].at) = "open"
      /\ k \in DedupKey /\ call[r].at \in Nat /\ now \in Nat
      /\ dedup \in [DedupKey -> Nat]
    BY <1>1, CallFields DEF TypeInv, PathTypeOK, StoreTypeOK, HandlerInv, HandlerOK
<1>3. /\ question[q] # NoRow
      /\ card[r] = ToCard(question[q], question_option[q])
      /\ call[r].option \in KeysOf[question_option[q]]
    BY <1>1 DEF CardInv, HeldOK
<1>4. /\ RequireOpenVotingWindow(question[q], call[r].at) = "open"
      /\ ClosesAt(question[q]) = ClosesAt(card[r])
    BY <1>2, <1>3, ToCardFields
<1>5. /\ DedupExpiry(r) \in Nat /\ ClosesAt(question[q]) \in Nat
      /\ call[r].at < ClosesAt(question[q])
      /\ bound <= DedupExpiry(r) /\ now < DedupExpiry(r)
    BY <1>2, <1>4, DedupExpiryType
<1>6. SECOND * DEDUP_TTL_MARGIN_SECONDS \in Nat
    BY SecondAssumption, MarginAssumption
<1>7. now < bound
    <2>1. now <= call[r].at + MaxLatency
        BY <1>1 DEF LatencyInv, InFlight
    <2> QED
        BY <1>2, <1>5, <1>6, <2>1, LatencyAssumption, BoundAssumption
<1>8. ASSUME NEW s \in cast, call[s].key = k
      PROVE  FALSE
    <2>1. dedup[k] >= bound
        BY <1>8 DEF VotesInWindow, QuestionOf
    <2>2. ~(now < dedup[k])
        BY <1>1 DEF DedupKeyExists
    <2> HIDE DEF q, k
    <2>3. dedup[k] \in Nat /\ bound \in Nat
        BY <1>2, <1>5, <1>6
    <2> QED
        BY <1>2, <1>7, <2>1, <2>2, <2>3
<1> QED
    BY <1>2, <1>3, <1>4, <1>5, <1>8

\* The script counts nobody who has a counted vote.
CountsFirst ==
    \A r \in Request : EvalFirst(r) => \A s \in cast : call[s].key # call[r].key

LEMMA FirstsCounted ==
    ASSUME TypeInv, CardInv, LatencyInv, CountInv
    PROVE  CountsFirst
    BY FirstVoteIsFirst DEF CountInv, CountsFirst

\* As long as that is so, a key is there exactly for the viewers counted, and
\* each of them is counted once.
LEMMA OnceStays ==
    ASSUME TypeInv, CountsFirst, ReservedIffCounted, OneVotePerViewer, [PathNext]_pathVars
    PROVE  ReservedIffCounted' /\ OneVotePerViewer'
<1>1. \A r \in cast : r \in Request /\ call'[r] = call[r]
    BY CallsStay DEF TypeInv, PathTypeOK, ServiceTypeOK, HandlerInv, HandlerOK
<1>2. CASE cast' = cast /\ dedup' = dedup
    BY <1>1, <1>2 DEF ReservedIffCounted, OneVotePerViewer
<1>3. ASSUME NEW r \in Request, EvalFirst(r)
      PROVE  ReservedIffCounted' /\ OneVotePerViewer'
    <2> DEFINE k == call[r].key
    <2>1. /\ pc[r] = "eval" /\ call' = call
          /\ dedup' = [dedup EXCEPT ![k] = DedupExpiry(r)]
          /\ cast' = cast \cup {r}
        BY <1>3 DEF EvalFirst, ReserveViewerAndIncrementCounter
    <2>2. /\ call[r] \in Call /\ call[r].at <= now /\ card[r] \in Card /\ now \in Nat
          /\ RequireOpenVotingWindow(card[r], call[r].at) = "open"
          /\ k \in DedupKey
        BY <2>1, CallFields DEF TypeInv, PathTypeOK, StoreTypeOK, HandlerInv, HandlerOK
    <2>3. DedupExpiry(r) > 0
        BY <2>2, DedupExpiryType
    <2>4. /\ dedup'[k] = DedupExpiry(r)
          /\ \A j \in DedupKey : j # k => dedup'[j] = dedup[j]
        BY <2>1, <2>2 DEF TypeInv, PathTypeOK, StoreTypeOK
    <2>5. ReservedIffCounted'
        <3> SUFFICES ASSUME NEW j \in DedupKey
                     PROVE  dedup'[j] > 0 <=> \E s \in cast' : call[s].key = j
            BY <2>1 DEF ReservedIffCounted
        <3>1. CASE j = k
            BY <2>1, <2>3, <2>4, <3>1
        <3>2. CASE j # k
            BY <2>1, <2>4, <3>2 DEF ReservedIffCounted
        <3> QED
            BY <3>1, <3>2
    <2>6. OneVotePerViewer'
        BY <1>3, <2>1 DEF CountsFirst, OneVotePerViewer
    <2> QED
        BY <2>5, <2>6
<1> QED
    BY <1>2, <1>3, OnlyEvalFirstCounts

\* No vote is counted at the start.
LEMMA CountStart ==
    PathInit => CountInv
    BY DEF PathInit, ServiceInit, CountInv, VotesInWindow, ReservedIffCounted, OneVotePerViewer

\* A step counts a vote in its window, with its key, and only a viewer's first.
LEMMA CountStays ==
    TypeInv /\ CardInv /\ LatencyInv /\ CountInv /\ [PathNext]_pathVars => CountInv'
<1> SUFFICES ASSUME TypeInv, CardInv, LatencyInv, CountInv, [PathNext]_pathVars
             PROVE  CountInv'
    OBVIOUS
<1> DEFINE Bound(q) == ClosesAt(question[q]) + SECOND * DEDUP_TTL_MARGIN_SECONDS
<1>1. question' = question /\ question_option' = question_option
    BY QuestionsStay
<1>2. \A r \in cast : r \in Request /\ pc[r] # "idle" /\ call'[r] = call[r]
    BY CallsStay DEF TypeInv, PathTypeOK, ServiceTypeOK, HandlerInv, HandlerOK
<1>3. ASSUME cast' = cast, dedup' = dedup
      PROVE  VotesInWindow'
    BY <1>1, <1>2, <1>3 DEF CountInv, VotesInWindow, QuestionOf
<1>4. ASSUME NEW r \in Request, EvalFirst(r)
      PROVE  VotesInWindow'
    <2> DEFINE k == call[r].key
               q == QuestionOf(r)
    <2>1. /\ call' = call
          /\ dedup' = [dedup EXCEPT ![k] = DedupExpiry(r)]
          /\ cast' = cast \cup {r}
        BY <1>4 DEF EvalFirst, ReserveViewerAndIncrementCounter
    <2>2. dedup \in [DedupKey -> Nat]
        BY DEF TypeInv, PathTypeOK, StoreTypeOK
    <2>3. /\ k \in DedupKey
          /\ question[q] # NoRow
          /\ RequireOpenVotingWindow(question[q], call[r].at) = "open"
          /\ call[r].option \in KeysOf[question_option[q]]
          /\ DedupExpiry(r) \in Nat /\ now < DedupExpiry(r) /\ now \in Nat
          /\ DedupExpiry(r) >= Bound(q)
        BY <1>4, FirstVoteIsFirst DEF CountInv
    <2>4. ASSUME NEW s \in cast
          PROVE  call[s].key # k
        BY <1>4, FirstVoteIsFirst DEF CountInv
    <2>5. /\ dedup'[k] = DedupExpiry(r)
          /\ \A j \in DedupKey : j # k => dedup'[j] = dedup[j]
        BY <2>1, <2>2, <2>3
    <2> SUFFICES ASSUME NEW s \in cast'
                 PROVE  LET p == QuestionOf(s)
                        IN  /\ question[p] # NoRow
                            /\ RequireOpenVotingWindow(question[p], call[s].at) = "open"
                            /\ call[s].option \in KeysOf[question_option[p]]
                            /\ dedup'[call[s].key] >= Bound(p)
        BY <1>1, <2>1 DEF VotesInWindow, QuestionOf
    <2>6. CASE s = r
        BY <2>3, <2>5, <2>6
    <2>7. CASE s \in cast
        <3>1. s \in Request /\ call[s].key \in DedupKey
            BY <1>2, <2>7, CallFields DEF TypeInv, HandlerInv, HandlerOK
        <3>2. dedup'[call[s].key] = dedup[call[s].key]
            BY <2>4, <2>5, <2>7, <3>1
        <3> QED
            BY <2>7, <3>2 DEF CountInv, VotesInWindow
    <2> QED
        BY <2>1, <2>6, <2>7
<1>5. CountsFirst
    BY FirstsCounted
<1>6. ReservedIffCounted' /\ OneVotePerViewer'
    BY <1>5, OnceStays DEF CountInv
<1>7. VotesInWindow'
    BY <1>3, <1>4, OnlyEvalFirstCounts
<1> QED
    BY <1>6, <1>7 DEF CountInv

\* The inductive form of OneVote, Reserved and InWindow.
THEOREM CountInvariant == PathSpec => []CountInv
    BY CountStart, CountStays, TypeInvariant, CardInvariant, LatencyInvariant, PTL DEF PathSpec

\* However a viewer's requests interleave, fail, are sent again or straddle
\* the close of the window or a restart, at most one vote of the viewer on a
\* question is counted (accept_vote and its Lua script).
THEOREM OneVote == PathSpec => []OneVotePerViewer
    BY CountInvariant, PTL DEF CountInv

\* Both steps of the script happened, or neither.
THEOREM Reserved == PathSpec => []ReservedIffCounted
    BY CountInvariant, PTL DEF CountInv

\* Every counted vote was sent inside the window of its question, for one of
\* its options, and its dedup key outlives the window by the margin.
THEOREM InWindow == PathSpec => []VotesInWindow
    BY CountInvariant, PTL DEF CountInv
=============================================================================
