-------------------------- MODULE ResultPathProofs --------------------------
(***************************************************************************)
(* Proofs about sums and rebuilds beside the votes, for every set of       *)
(* questions, viewers, requests and admins: the counters are the counted   *)
(* votes but for what a rebuild missed or Redis lost, an answer is within  *)
(* bounds, and the journal and the viewers notice nothing of it.           *)
(***************************************************************************)
EXTENDS ResultPath, BallotBoxProofs

-----------------------------------------------------------------------------
\* Lemmas on sums

\* The pairs that SumOf counts.
Units(counts) == UNION {{i} \X (1 .. counts[i]) : i \in DOMAIN counts}

Counts(n) == [1 .. n -> Nat]

LEMMA UnitsAre ==
    ASSUME NEW n \in Nat, NEW counts \in Counts(n), NEW p
    PROVE  p \in Units(counts) <=>
              \E i \in 1 .. n : \E k \in 1 .. counts[i] : p = <<i, k>>
    BY DEF Units, Counts

\* A list of counts has a sum.
LEMMA SumType ==
    ASSUME NEW n \in Nat, NEW counts \in Counts(n)
    PROVE  IsFiniteSet(Units(counts)) /\ SumOf(counts) \in Nat
           /\ SumOf(counts) = Cardinality(Units(counts))
<1> DEFINE block == [i \in 1 .. n |-> {i} \X (1 .. counts[i])]
           blocks == {{i} \X (1 .. counts[i]) : i \in DOMAIN counts}
<1>1. IsFiniteSet(1 .. n)
    BY FS_Interval
<1>2. block \in Surjection(1 .. n, blocks)
    BY DEF Surjection, Counts
<1>3. IsFiniteSet(blocks)
    BY <1>1, <1>2, FS_Surjection
<1>4. ASSUME NEW i \in 1 .. n
      PROVE  IsFiniteSet({i} \X (1 .. counts[i]))
    <2>1. counts[i] \in Int
        BY DEF Counts
    <2>2. IsFiniteSet({i})
        BY FS_Singleton
    <2>3. IsFiniteSet(1 .. counts[i])
        BY <2>1, FS_Interval
    <2> QED
        BY <2>2, <2>3, FS_Product
<1>5. \A T \in blocks : IsFiniteSet(T)
    BY <1>4 DEF Counts
<1>6. IsFiniteSet(UNION blocks)
    BY <1>3, <1>5, FS_UNION
<1> QED
    BY <1>6, FS_CardinalityType DEF Units, SumOf

\* Counts that are nowhere greater have no greater sum.
LEMMA SumMonotone ==
    ASSUME NEW n \in Nat, NEW fewer \in Counts(n), NEW counts \in Counts(n),
           \A i \in 1 .. n : fewer[i] <= counts[i]
    PROVE  SumOf(fewer) <= SumOf(counts)
<1>1. Units(fewer) \subseteq Units(counts)
    <2> SUFFICES ASSUME NEW i \in 1 .. n, NEW k \in 1 .. fewer[i]
                 PROVE  k \in 1 .. counts[i]
        BY UnitsAre
    <2> QED
        BY DEF Counts
<1> QED
    BY <1>1, SumType, FS_Subset

\* One more somewhere is one more in the sum.
LEMMA SumOneMore ==
    ASSUME NEW n \in Nat, NEW counts \in Counts(n), NEW more \in Counts(n), NEW j \in 1 .. n,
           more[j] = counts[j] + 1, \A i \in (1 .. n) \ {j} : more[i] = counts[i]
    PROVE  SumOf(more) = SumOf(counts) + 1
<1> DEFINE new == <<j, counts[j] + 1>>
<1>1. counts[j] \in Nat /\ counts[j] + 1 \in 1 .. more[j]
    BY DEF Counts
<1>2. \A i \in 1 .. n : \A k : k \in 1 .. more[i]
        <=> k \in 1 .. counts[i] \/ (i = j /\ k = counts[j] + 1)
    <2> SUFFICES ASSUME NEW i \in 1 .. n, NEW k
                 PROVE  k \in 1 .. more[i]
                        <=> k \in 1 .. counts[i] \/ (i = j /\ k = counts[j] + 1)
        OBVIOUS
    <2>1. CASE i = j
        BY <1>1, <2>1 DEF Counts
    <2>2. CASE i # j
        BY <2>2
    <2> QED
        BY <2>1, <2>2
<1>3. ASSUME NEW p
      PROVE  p \in Units(more) <=> p \in Units(counts) \/ p = new
    <2>1. p \in Units(more) <=> \E i \in 1 .. n : \E k : k \in 1 .. more[i] /\ p = <<i, k>>
        BY UnitsAre
    <2>2. p \in Units(counts) <=> \E i \in 1 .. n : \E k : k \in 1 .. counts[i] /\ p = <<i, k>>
        BY UnitsAre
    <2> QED
        BY <1>2, <2>1, <2>2
<1>4. Units(more) = Units(counts) \cup {new}
    BY <1>3
<1>5. new \notin Units(counts)
    <2>1. counts[j] + 1 \notin 1 .. counts[j]
        BY <1>1
    <2>2. new \in Units(counts) <=>
              \E i \in 1 .. n : \E k \in 1 .. counts[i] : new = <<i, k>>
        BY UnitsAre
    <2> QED
        BY <2>1, <2>2
<1> QED
    BY <1>4, <1>5, SumType, FS_AddElement

\* Nothing but the first count: the sum is the first count.
LEMMA SumOfFirst ==
    ASSUME NEW n \in Nat \ {0}, NEW counts \in Counts(n),
           \A i \in 2 .. n : counts[i] = 0
    PROVE  SumOf(counts) = counts[1]
<1>1. 1 \in 1 .. n /\ counts[1] \in Nat /\ counts[1] \in Int
    BY DEF Counts
<1> DEFINE first == [k \in 1 .. counts[1] |-> <<1, k>>]
<1>2. \A i \in 1 .. n : i # 1 => counts[i] = 0
    OBVIOUS
<1>3. ASSUME NEW p
      PROVE  p \in Units(counts) <=> \E k \in 1 .. counts[1] : p = <<1, k>>
    <2>1. ASSUME NEW i \in 1 .. n, NEW k \in 1 .. counts[i]
          PROVE  i = 1
        BY <1>2, <2>1
    <2> QED
        BY <1>1, <2>1, UnitsAre
<1>4. first \in [1 .. counts[1] -> Units(counts)]
    BY <1>3
<1>5. first \in Bijection(1 .. counts[1], Units(counts))
    BY <1>3, <1>4 DEF Bijection, Injection, IsInjective, Surjection
<1>6. IsFiniteSet(1 .. counts[1]) /\ Cardinality(1 .. counts[1]) = counts[1]
    <2>1. ASSUME NEW m \in Nat
          PROVE  IsFiniteSet(1 .. m) /\ Cardinality(1 .. m) = m
        <3>1. /\ IsFiniteSet(1 .. m)
              /\ Cardinality(1 .. m) = IF 1 > m THEN 0 ELSE m - 1 + 1
            BY FS_Interval
        <3> QED
            BY <3>1
    <2> QED
        BY <1>1, <2>1
<1> QED
    BY <1>5, <1>6, FS_Bijection, SumType DEF ExistsBijection

\* Nothing anywhere: the sum is zero.
LEMMA SumOfZeros ==
    ASSUME NEW counts \in Counts(COUNTER_SHARDS),
           \A i \in 1 .. COUNTER_SHARDS : counts[i] = 0
    PROVE  SumOf(counts) = 0
<1>1. COUNTER_SHARDS \in Nat \ {0} /\ 1 \in 1 .. COUNTER_SHARDS
    BY ShardsAssumption
<1> QED
    BY <1>1, SumOfFirst

-----------------------------------------------------------------------------
\* The way of a vote beside sums and rebuilds

\* What VotePathProofs and BallotBoxProofs establish of the vote path, but
\* for the counters.
PathInv ==
    /\ TypeInv /\ CardInv /\ LatencyInv /\ CountInv
    /\ AnswerInv /\ ProcessInv /\ AccountInv
    /\ IsFiniteSet(cast)

LEMMA PathStarts == PathInit => PathInv
<1> SUFFICES ASSUME PathInit PROVE PathInv
    OBVIOUS
<1>1. IsFiniteSet(cast)
    BY FS_EmptySet DEF PathInit, ServiceInit
<1> QED
    BY <1>1, TypesStart, CardsStart, LatencyStart, CountStart, AnswersStart, ProcessStart,
       AccountStart DEF PathInv

\* Whatever the vote path does keeps its invariant.
LEMMA PathStays ==
    ASSUME PathInv, [PathNext]_pathVars
    PROVE  PathInv'
<1>1. TypeInv'
    BY TypesStay DEF PathInv
<1>2. CardInv' /\ LatencyInv' /\ CountInv' /\ AnswerInv' /\ ProcessInv'
    BY <1>1, CardsStay, LatencyStays, CountStays, AnswersHold, ProcessStays DEF PathInv, CountInv
<1>3. AccountInv'
    BY FirstsCounted, AccountStays DEF PathInv, CountInv
<1>4. cast' = cast \/ \E r \in Request : cast' = cast \cup {r}
    BY OnlyEvalFirstCounts DEF EvalFirst, ReserveViewerAndIncrementCounter
<1>5. IsFiniteSet(cast')
    BY <1>4, FS_AddElement DEF PathInv
<1> QED
    BY <1>1, <1>2, <1>3, <1>5 DEF PathInv

\* What a request for sums leaves alone, apart from the counters.
OnlyCountersMove ==
    UNCHANGED <<now, question, question_option, vote, cache, dedup, journalVars, serviceVars>>

CountersTyped ==
    /\ DOMAIN counters = CounterKey
    /\ \A c \in CounterKey : counters[c] = NotAHash \/ IsHash(counters[c])

\* Nothing in the invariant of the vote path depends on what the counters say.
LEMMA PathKept ==
    ASSUME PathInv, OnlyCountersMove, CountersTyped'
    PROVE  PathInv'
<1> USE DEF OnlyCountersMove, journalVars, serviceVars
<1>1. PathTypeOK'
    BY DEF PathInv, TypeInv, PathTypeOK, StoreTypeOK, JournalTypeOK, ServiceTypeOK,
       CountersTyped
<1>2. HandlerInv' /\ UnfinishedExact'
    BY DEF PathInv, TypeInv, HandlerInv, HandlerOK, UnfinishedExact
<1>3. CardInv'
    BY DEF PathInv, CardInv, CachedOK, HeldOK, QuestionOf
<1>4. LatencyInv' /\ ProcessInv'
    BY DEF PathInv, LatencyInv, ProcessInv, InFlight
<1>5. CountInv'
    BY DEF PathInv, CountInv, VotesInWindow, ReservedIffCounted, OneVotePerViewer, QuestionOf
<1>6. AnswerInv'
    BY DEF PathInv, AnswerInv, CastInv, AnswersHonest
<1>7. AccountInv'
    BY DEF PathInv, AccountInv, DistinctInv, VotesAccounted, OnTheWay, AtJournal, EventOf
<1> QED
    BY <1>1, <1>2, <1>3, <1>4, <1>5, <1>6, <1>7 DEF PathInv, TypeInv

-----------------------------------------------------------------------------
\* Hashes and journal rows

Hash == UNION {[fields -> Nat] : fields \in SUBSET OptionKey}

LEMMA HashIs ==
    ASSUME NEW h
    PROVE  IsHash(h) <=> h \in Hash
    BY DEF IsHash, Hash

LEMMA CountOfType ==
    ASSUME NEW h \in Hash, NEW option
    PROVE  CountOf(h, option) \in Nat
    BY DEF Hash, CountOf

\* The sums of a list of hashes are numbers.
LEMMA AggregateIs ==
    ASSUME NEW shards \in Seq(Hash), NEW option \in OptionKey
    PROVE  /\ Len(shards) \in Nat
           /\ [i \in 1 .. Len(shards) |-> CountOf(shards[i], option)] \in Counts(Len(shards))
           /\ AggregateCounterShards(shards)[option]
                = SumOf([i \in 1 .. Len(shards) |-> CountOf(shards[i], option)])
           /\ AggregateCounterShards(shards)[option] \in Nat
<1> DEFINE counts == [i \in 1 .. Len(shards) |-> CountOf(shards[i], option)]
<1>1. Len(shards) \in Nat /\ DOMAIN shards = 1 .. Len(shards)
    OBVIOUS
<1>2. \A i \in 1 .. Len(shards) : shards[i] \in Hash
    OBVIOUS
<1>3. counts \in Counts(Len(shards))
    BY <1>2, CountOfType DEF Counts
<1>4. AggregateCounterShards(shards)[option] = SumOf(counts)
    BY <1>1 DEF AggregateCounterShards
<1> QED
    BY <1>1, <1>3, <1>4, SumType

\* The rows of the journal that a GROUP BY counts for an option are, one by
\* one, the counted votes with these events.
LEMMA JournalIsVotes ==
    ASSUME PathInv, NEW events \in SUBSET vote, NEW option \in OptionKey
    PROVE  LET votes == {r \in cast : EventOf(r) \in events /\ call[r].option = option}
           IN  /\ IsFiniteSet(votes)
               /\ JournalCounts(events)[option] = Cardinality(votes)
               /\ JournalCounts(events)[option] \in Nat
<1> DEFINE votes == {r \in cast : EventOf(r) \in events /\ call[r].option = option}
           counted == {e \in events : e.option = option}
           event == [r \in votes |-> EventOf(r)]
<1>1. IsFiniteSet(votes)
    BY FS_Subset DEF PathInv
<1>2. vote \subseteq {EventOf(r) : r \in cast}
    BY DEF PathInv, AccountInv, VotesAccounted
<1>3. \A r \in cast : EventOf(r).option = call[r].option /\ EventOf(r).key = call[r].key
    BY DEF EventOf
<1>4. \A r, s \in votes : event[r] = event[s] => r = s
    BY <1>3 DEF PathInv, CountInv, OneVotePerViewer
<1>5. \A e \in counted : \E r \in votes : event[r] = e
    BY <1>2, <1>3
<1>6. event \in [votes -> counted]
    BY <1>3
<1>7. event \in Bijection(votes, counted)
    BY <1>4, <1>5, <1>6 DEF Bijection, Injection, IsInjective, Surjection
<1>8. Cardinality(counted) = Cardinality(votes)
    BY <1>1, <1>7, FS_Bijection DEF ExistsBijection
<1>9. JournalCounts(events)[option] = Cardinality(counted)
    BY DEF JournalCounts
<1> QED
    BY <1>1, <1>8, <1>9, FS_CardinalityType

\* Sums by the options of a card are a tally.
LEMMA TallyIs ==
    ASSUME NEW c \in Card, NEW counts, \A option \in OptionKey : counts[option] \in Nat
    PROVE  /\ KeysOf[c.options] \subseteq OptionKey
           /\ IsTally([option \in KeysOf[c.options] |-> counts[option]])
           /\ IsHash([option \in KeysOf[c.options] |-> counts[option]])
<1>1. KeysOf[c.options] \subseteq OptionKey
    BY KeysOfAssumption DEF Card
<1> QED
    BY <1>1 DEF IsTally, IsHash

-----------------------------------------------------------------------------
\* What the handler of a request for sums knows

LocalsTyped ==
    /\ at \in [Reader -> ResultStep]
    /\ about \in [Reader -> Question]
    /\ mode \in [Reader -> {"read", "rebuild"}]
    /\ view \in [Reader -> Card \cup {NoCard}]
    /\ badge \in [Reader -> {"none", "draft", "cancelled", "scheduled", "live", "closed"}]
    /\ hashes \in [Reader -> Seq(Hash)]
    /\ rows \in [Reader -> SUBSET VoteEvent]
    /\ outcome \in [Reader -> Outcome]
    /\ sure \in [Reader -> SUBSET Request]

FiguresTyped ==
    /\ figures = [b \in Reader |-> figures[b]]
    /\ \A b \in Reader : IsTally(figures[b])

SnapshotsTyped ==
    /\ question_result = [q \in Question |-> question_result[q]]
    /\ \A q \in Question : question_result[q] = NoSnapshot \/ IsTally(question_result[q])

\* How far a handler is, the card and the rows it holds, and the votes it must
\* show.
ReaderOK(b) ==
    LET q == about[b]
    IN  /\ at[b] \in {"options", "shards", "count", "delete", "insert", "replace"}
              => question[q] # NoRow
        /\ at[b] = "options" => view[b] = ToCard(question[q], NoOptions)
        /\ at[b] \in {"shards", "count", "delete", "insert", "replace"}
              => view[b] = ToCard(question[q], question_option[q])
        /\ at[b] = "shards" => Len(hashes[b]) < COUNTER_SHARDS
        /\ at[b] # "shards" => hashes[b] = <<>>
        /\ \A e \in rows[b] : e \in vote /\ e.key[1] = q
        /\ sure[b] \subseteq CountedFor(q)

ReaderInv ==
    /\ LocalsTyped /\ FiguresTyped /\ SnapshotsTyped
    /\ forgotten \subseteq cast
    /\ losses \in 0 .. MaxLosses
    /\ \A b \in Reader : ReaderOK(b)

\* Only counted votes are owed.
OwedTyped == owed \in [Reader -> SUBSET cast]

\* The invariant contains the type invariant.
LEMMA ReaderInvTypes ==
    ASSUME PathInv, ReaderInv, OwedTyped
    PROVE  TypeOK
<1>1. \A b \in Reader : hashes[b] \in Seq(Hash)
    BY DEF ReaderInv, LocalsTyped
<1>2. \A b \in Reader : /\ Len(hashes[b]) <= COUNTER_SHARDS
                        /\ \A i \in DOMAIN hashes[b] : IsHash(hashes[b][i])
    <2> TAKE b \in Reader
    <2>1. Len(hashes[b]) <= COUNTER_SHARDS
        <3>1. Len(hashes[b]) < COUNTER_SHARDS \/ hashes[b] = <<>>
            BY DEF ReaderInv, ReaderOK
        <3>2. Len(hashes[b]) \in Nat /\ COUNTER_SHARDS \in Nat
            BY <1>1, ShardsAssumption
        <3> QED
            BY <3>1, <3>2
    <2> QED
        BY <1>1, <2>1, HashIs
<1>3. forgotten \subseteq Request /\ owed \in [Reader -> SUBSET Request]
    BY DEF PathInv, TypeInv, PathTypeOK, ServiceTypeOK, ReaderInv, OwedTyped
<1> QED
    BY <1>2, <1>3 DEF TypeOK, ResultTypeOK, ReaderInv, LocalsTyped, FiguresTyped, SnapshotsTyped,
       PathInv, TypeInv

\* The card a handler holds once it has read both tables.
LEMMA HeldCards ==
    ASSUME PathInv, ReaderInv, NEW b \in Reader
    PROVE  /\ at[b] \in {"options", "shards", "count", "delete", "insert", "replace"}
                => view[b] \in Card /\ question[about[b]] \in Row
           /\ about[b] \in Question
<1>1. about[b] \in Question
    BY DEF ReaderInv, LocalsTyped
<1>2. question[about[b]] \in Row \cup {NoRow} /\ question_option[about[b]] \in OptionList
    BY <1>1 DEF PathInv, TypeInv, PathTypeOK, StoreTypeOK
<1> QED
    BY <1>1, <1>2, ToCardType, KeysOfAssumption DEF ReaderInv, ReaderOK

-----------------------------------------------------------------------------
\* One step of a handler

\* The other handlers' variables stay.
OthersStay(b) ==
    \A c \in Reader \ {b} :
        /\ at'[c] = at[c] /\ view'[c] = view[c] /\ hashes'[c] = hashes[c]
        /\ rows'[c] = rows[c] /\ sure'[c] \subseteq sure[c]

\* Handler b ends, and forgets what it held.
Ended(b) == at'[b] = "done" /\ hashes'[b] = <<>> /\ rows'[b] = {}

LEMMA ForgetEffect ==
    ASSUME LocalsTyped, NEW handlers, ForgetLocals(handlers)
    PROVE  /\ view' \in [Reader -> Card \cup {NoCard}]
           /\ badge' \in [Reader -> {"none", "draft", "cancelled", "scheduled", "live", "closed"}]
           /\ hashes' \in [Reader -> Seq(Hash)]
           /\ rows' \in [Reader -> SUBSET VoteEvent]
           /\ \A c \in Reader : c \in handlers => hashes'[c] = <<>> /\ rows'[c] = {}
           /\ \A c \in Reader : c \notin handlers =>
                view'[c] = view[c] /\ hashes'[c] = hashes[c] /\ rows'[c] = rows[c]
    BY DEF LocalsTyped, ForgetLocals

\* A handler that ends touches no other, and all keep their types.
LEMMA EndEffect ==
    ASSUME LocalsTyped, NEW b \in Reader, ForgetLocals({b}),
           at' = [at EXCEPT ![b] = "done"],
           NEW result \in Outcome, outcome' = [outcome EXCEPT ![b] = result],
           UNCHANGED <<about, mode>>,
           sure' \in [Reader -> SUBSET Request], \A c \in Reader : sure'[c] \subseteq sure[c]
    PROVE  LocalsTyped' /\ Ended(b) /\ OthersStay(b)
<1>1. /\ at' \in [Reader -> ResultStep] /\ at'[b] = "done"
      /\ \A c \in Reader \ {b} : at'[c] = at[c]
      /\ outcome' \in [Reader -> Outcome]
    BY DEF LocalsTyped, ResultStep
<1>2. /\ hashes'[b] = <<>> /\ rows'[b] = {}
      /\ \A c \in Reader \ {b} :
            view'[c] = view[c] /\ hashes'[c] = hashes[c] /\ rows'[c] = rows[c]
    BY ForgetEffect
<1>3. /\ view' \in [Reader -> Card \cup {NoCard}]
      /\ badge' \in [Reader -> {"none", "draft", "cancelled", "scheduled", "live", "closed"}]
      /\ hashes' \in [Reader -> Seq(Hash)]
      /\ rows' \in [Reader -> SUBSET VoteEvent]
    BY ForgetEffect
<1>4. LocalsTyped'
    BY <1>1, <1>3 DEF LocalsTyped
<1> QED
    BY <1>1, <1>2, <1>4 DEF Ended, OthersStay

\* A handler that fails ends alone.
LEMMA FailEffect ==
    ASSUME LocalsTyped, NEW b \in Reader, NEW error \in Outcome, Fail(b, error),
           sure' \in [Reader -> SUBSET Request], \A c \in Reader : sure'[c] \subseteq sure[c]
    PROVE  LocalsTyped' /\ Ended(b) /\ OthersStay(b) /\ UNCHANGED <<about, figures>>
    BY EndEffect DEF Fail

\* A handler that answers ends alone, with a tally of its card's options.
LEMMA RespondEffect ==
    ASSUME LocalsTyped, FiguresTyped, NEW b \in Reader, NEW counts, Respond(b, counts),
           view[b] \in Card, \A option \in OptionKey : counts[option] \in Nat,
           sure' \in [Reader -> SUBSET Request], \A c \in Reader : sure'[c] \subseteq sure[c]
    PROVE  /\ LocalsTyped' /\ FiguresTyped' /\ Ended(b) /\ OthersStay(b) /\ about' = about
           /\ \A c \in Reader \ {b} : figures'[c] = figures[c] /\ outcome'[c] = outcome[c]
           /\ figures'[b] = [option \in KeysOf[view[b].options] |-> counts[option]]
<1>1. LocalsTyped' /\ Ended(b) /\ OthersStay(b) /\ about' = about
    BY EndEffect DEF Respond, Outcome
<1>2. /\ figures'[b] = [option \in KeysOf[view[b].options] |-> counts[option]]
      /\ \A c \in Reader \ {b} : figures'[c] = figures[c]
      /\ figures' = [c \in Reader |-> figures'[c]]
    BY DEF Respond, FiguresTyped
<1>3. \A c \in Reader \ {b} : outcome'[c] = outcome[c]
    BY DEF Respond, LocalsTyped
<1>4. FiguresTyped'
    BY <1>2, TallyIs DEF FiguresTyped
<1> QED
    BY <1>1, <1>2, <1>3, <1>4

\* A handler whose variables stay knows as much as before: questions are not
\* edited, and rows and counted votes stay.
LEMMA HandlerHolds ==
    ASSUME ReaderInv, NEW c \in Reader,
           question' = question, question_option' = question_option, about' = about,
           vote \subseteq vote', cast \subseteq cast', \A r \in cast : call'[r] = call[r],
           at'[c] = at[c], view'[c] = view[c], hashes'[c] = hashes[c], rows'[c] = rows[c],
           sure'[c] \subseteq sure[c]
    PROVE  ReaderOK(c)'
<1>1. ReaderOK(c)
    BY DEF ReaderInv
<1> QED
    BY <1>1 DEF ReaderOK, CountedFor, QuestionOf

LEMMA OthersHold ==
    ASSUME ReaderInv, NEW b \in Reader, OthersStay(b), OnlyCountersMove, about' = about,
           ReaderOK(b)'
    PROVE  \A c \in Reader : ReaderOK(c)'
<1>1. ASSUME NEW c \in Reader \ {b}
      PROVE  ReaderOK(c)'
    BY HandlerHolds DEF OthersStay, OnlyCountersMove, serviceVars
<1> QED
    BY <1>1

\* An ended handler knows nothing; the votes it had to show were counted.
LEMMA EndedHolds ==
    ASSUME ReaderInv, NEW b \in Reader, Ended(b), OnlyCountersMove, about' = about,
           sure'[b] \subseteq sure[b]
    PROVE  ReaderOK(b)'
<1>1. ReaderOK(b)
    BY DEF ReaderInv
<1> QED
    BY <1>1 DEF ReaderOK, Ended, CountedFor, QuestionOf, OnlyCountersMove, serviceVars

\* A step after which handler b fails.
LEMMA FailHolds ==
    ASSUME ReaderInv, NEW b \in Reader, NEW error \in Outcome, Fail(b, error),
           OnlyCountersMove, UNCHANGED <<question_result, losses>>,
           sure' \in [Reader -> SUBSET Request], \A c \in Reader : sure'[c] \subseteq sure[c],
           forgotten' \subseteq cast
    PROVE  ReaderInv'
<1>1. LocalsTyped' /\ Ended(b) /\ OthersStay(b) /\ UNCHANGED <<about, figures>>
    BY FailEffect DEF ReaderInv
<1>2. \A c \in Reader : ReaderOK(c)'
    BY <1>1, OthersHold, EndedHolds
<1>3. FiguresTyped' /\ SnapshotsTyped' /\ cast' = cast
    BY <1>1 DEF ReaderInv, FiguresTyped, SnapshotsTyped, OnlyCountersMove, serviceVars
<1> QED
    BY <1>1, <1>2, <1>3 DEF ReaderInv

\* A step after which handler b answers.
LEMMA RespondHolds ==
    ASSUME ReaderInv, NEW b \in Reader, NEW counts, Respond(b, counts),
           view[b] \in Card, \A option \in OptionKey : counts[option] \in Nat,
           OnlyCountersMove, UNCHANGED <<question_result, losses>>,
           sure' \in [Reader -> SUBSET Request], \A c \in Reader : sure'[c] \subseteq sure[c],
           forgotten' \subseteq cast
    PROVE  ReaderInv'
<1>1. LocalsTyped' /\ FiguresTyped' /\ Ended(b) /\ OthersStay(b) /\ about' = about
    BY RespondEffect DEF ReaderInv
<1>2. \A c \in Reader : ReaderOK(c)'
    BY <1>1, OthersHold, EndedHolds
<1>3. SnapshotsTyped' /\ cast' = cast
    BY DEF ReaderInv, SnapshotsTyped, OnlyCountersMove, serviceVars
<1> QED
    BY <1>1, <1>2, <1>3 DEF ReaderInv

\* A step of handler b that goes on, with what it must know then.
LEMMA GoesOnHolds ==
    ASSUME ReaderInv, NEW b \in Reader, LocalsTyped', OthersStay(b), ReaderOK(b)',
           OnlyCountersMove, UNCHANGED <<about, figures, question_result, forgotten, losses>>
    PROVE  ReaderInv'
<1>1. \A c \in Reader : ReaderOK(c)'
    BY OthersHold
<1>2. FiguresTyped' /\ SnapshotsTyped' /\ forgotten' \subseteq cast'
    BY DEF ReaderInv, FiguresTyped, SnapshotsTyped, OnlyCountersMove, serviceVars
<1> QED
    BY <1>1, <1>2 DEF ReaderInv

LEMMA StartResultKeeps ==
    ASSUME ReaderInv, NEW b \in Reader, StartResult(b), OnlyCountersMove, losses' = losses
    PROVE  ReaderInv'
<1>1. ReaderOK(b) /\ LocalsTyped
    BY DEF ReaderInv
<1>2. at[b] = "idle" /\ at' = [at EXCEPT ![b] = "row"]
      /\ UNCHANGED <<question_result, mode, view, badge, hashes, rows, sure, forgotten,
                     about, figures, outcome>>
    BY DEF StartResult, Proceed, requestVars
<1>3. LocalsTyped' /\ OthersStay(b)
    BY <1>1, <1>2 DEF LocalsTyped, OthersStay, ResultStep
<1>4. at'[b] = "row"
    BY <1>1, <1>2 DEF LocalsTyped
<1>5. ReaderOK(b)'
    BY <1>1, <1>2, <1>4 DEF ReaderOK, CountedFor, QuestionOf, OnlyCountersMove, serviceVars
<1> QED
    BY <1>2, <1>3, <1>5, GoesOnHolds

LEMMA ResultRowKeeps ==
    ASSUME PathInv, ReaderInv, NEW b \in Reader, ResultRow(b), OnlyCountersMove,
           losses' = losses
    PROVE  ReaderInv'
<1>1. ReaderOK(b) /\ LocalsTyped
    BY DEF ReaderInv
<1>2. at[b] = "row" /\ UNCHANGED <<question_result, sure, forgotten>>
    BY DEF ResultRow
<1>3. sure' \in [Reader -> SUBSET Request] /\ forgotten' \subseteq cast
    BY <1>2 DEF ReaderInv, LocalsTyped
<1>4. CASE Fail(b, "not_found")
    BY <1>2, <1>3, <1>4, FailHolds DEF Outcome
<1>5. CASE /\ question[about[b]] # NoRow
           /\ view' = [view EXCEPT ![b] = ToCard(question[about[b]], NoOptions)]
           /\ Proceed(b, "options")
           /\ UNCHANGED <<mode, badge, hashes, rows>>
    <2>1. about[b] \in Question /\ question[about[b]] \in Row \cup {NoRow}
        BY <1>1 DEF LocalsTyped, PathInv, TypeInv, PathTypeOK, StoreTypeOK
    <2>2. ToCard(question[about[b]], NoOptions) \in Card
        BY <1>5, <2>1, ToCardType, KeysOfAssumption
    <2>3. UNCHANGED <<about, figures, outcome>>
        BY <1>5 DEF Proceed, requestVars
    <2>4. /\ at' = [at EXCEPT ![b] = "options"]
          /\ at' \in [Reader -> ResultStep] /\ at'[b] = "options"
          /\ view' \in [Reader -> Card \cup {NoCard}]
          /\ view'[b] = ToCard(question[about[b]], NoOptions)
        BY <1>1, <1>5, <2>2 DEF LocalsTyped, Proceed, ResultStep
    <2>5. LocalsTyped' /\ OthersStay(b)
        BY <1>1, <1>2, <1>5, <2>3, <2>4 DEF LocalsTyped, OthersStay
    <2>6. ReaderOK(b)'
        BY <1>1, <1>2, <1>5, <2>3, <2>4
        DEF ReaderOK, CountedFor, QuestionOf, OnlyCountersMove, serviceVars
    <2> QED
        BY <1>2, <2>3, <2>5, <2>6, GoesOnHolds
<1> QED
    BY <1>4, <1>5 DEF ResultRow

\* The badge that effective_status gives a card.
LEMMA BadgeType ==
    ASSUME NEW c \in Card, NEW t
    PROVE  EffectiveStatus(c, t) \in {"draft", "cancelled", "scheduled", "live", "closed"}
    BY DEF EffectiveStatus, Card, QuestionStatus

LEMMA ResultOptionsKeeps ==
    ASSUME PathInv, ReaderInv, NEW b \in Reader, ResultOptions(b), OnlyCountersMove,
           losses' = losses
    PROVE  ReaderInv'
<1>1. ReaderOK(b) /\ LocalsTyped /\ forgotten \subseteq cast
    BY DEF ReaderInv
<1> DEFINE q == about[b]
           next == IF mode[b] = "rebuild" THEN "count" ELSE "shards"
           found == ToCard(view[b], question_option[q])
<1>2. /\ at[b] = "options"
      /\ view' = [view EXCEPT ![b] = found]
      /\ badge' = [badge EXCEPT ![b] = EffectiveStatus(view[b], now)]
      /\ at' = [at EXCEPT ![b] = next]
      /\ sure' = sure \/ sure' = [sure EXCEPT ![b] = CountedFor(q) \ forgotten]
      /\ UNCHANGED <<question_result, mode, hashes, rows, forgotten, about, figures, outcome>>
    BY DEF ResultOptions, Proceed, requestVars
<1>3. view[b] \in Card /\ q \in Question
    BY <1>2, HeldCards
<1>4. /\ found \in Card
      /\ found = ToCard(question[q], question_option[q]) /\ question[q] # NoRow
    <2>1. question_option[q] \in OptionList
        BY <1>3 DEF PathInv, TypeInv, PathTypeOK, StoreTypeOK
    <2>2. view[b] = ToCard(question[q], NoOptions) /\ question[q] # NoRow
        BY <1>1, <1>2 DEF ReaderOK
    <2>3. found \in Card
        BY <1>3, <2>1, ToCardType
    <2>4. found = ToCard(question[q], question_option[q])
        BY <2>2 DEF ToCard
    <2> QED
        BY <2>2, <2>3, <2>4
<1>5. CountedFor(q) \in SUBSET Request
    BY DEF CountedFor, PathInv, TypeInv, PathTypeOK, ServiceTypeOK
<1> HIDE DEF found
<1>6. /\ at' \in [Reader -> ResultStep] /\ at'[b] = next
      /\ \A c \in Reader \ {b} : at'[c] = at[c]
    BY <1>1, <1>2 DEF LocalsTyped, ResultStep
<1>7. /\ view' \in [Reader -> Card \cup {NoCard}] /\ view'[b] = found
      /\ \A c \in Reader \ {b} : view'[c] = view[c]
    BY <1>1, <1>2, <1>4 DEF LocalsTyped
<1>8. /\ sure' \in [Reader -> SUBSET Request] /\ sure'[b] \subseteq CountedFor(q)
      /\ \A c \in Reader \ {b} : sure'[c] = sure[c]
    BY <1>1, <1>2, <1>5 DEF LocalsTyped, ReaderOK
<1>9. badge' \in [Reader -> {"none", "draft", "cancelled", "scheduled", "live", "closed"}]
    BY <1>1, <1>2, <1>3, BadgeType DEF LocalsTyped
<1>10. LocalsTyped' /\ OthersStay(b)
    BY <1>1, <1>2, <1>6, <1>7, <1>8, <1>9 DEF LocalsTyped, OthersStay
<1>11. hashes'[b] = <<>> /\ Len(hashes'[b]) < COUNTER_SHARDS
    BY <1>1, <1>2, ShardsAssumption DEF ReaderOK
<1>12. ReaderOK(b)'
    BY <1>1, <1>2, <1>4, <1>6, <1>7, <1>8, <1>11
    DEF ReaderOK, CountedFor, QuestionOf, OnlyCountersMove, serviceVars
<1> QED
    BY <1>2, <1>10, <1>12, GoesOnHolds

\* What the next HGETALL of a reader finds.
LEMMA NextShardIs ==
    ASSUME PathInv, ReaderInv, NEW b \in Reader, at[b] = "shards"
    PROVE  LET found == counters[NextShardKey(about[b], hashes[b])]
               read == Append(hashes[b], found)
           IN  /\ hashes[b] \in Seq(Hash) /\ Len(hashes[b]) \in 0 .. COUNTER_SHARDS - 1
               /\ found # NotAHash =>
                    /\ found \in Hash
                    /\ read \in Seq(Hash) /\ Len(read) = Len(hashes[b]) + 1
                    /\ \A i \in 1 .. Len(hashes[b]) : read[i] = hashes[b][i]
                    /\ read[Len(hashes[b]) + 1] = found
<1> DEFINE found == counters[NextShardKey(about[b], hashes[b])]
<1>1. /\ hashes[b] \in Seq(Hash) /\ Len(hashes[b]) < COUNTER_SHARDS
      /\ about[b] \in Question /\ COUNTER_SHARDS \in Nat
    BY ShardsAssumption DEF ReaderInv, LocalsTyped, ReaderOK
<1>2. Len(hashes[b]) \in 0 .. COUNTER_SHARDS - 1
    <2>1. Len(hashes[b]) \in Nat
        BY <1>1
    <2> QED
        BY <1>1, <2>1
<1>3. NextShardKey(about[b], hashes[b]) \in CounterKey
    BY <1>1, <1>2 DEF NextShardKey, CounterKey, Shard
<1>4. found # NotAHash => found \in Hash
    BY <1>3, HashIs DEF PathInv, TypeInv, PathTypeOK, StoreTypeOK
<1> HIDE DEF found
<1>5. ASSUME found \in Hash
      PROVE  LET read == Append(hashes[b], found)
             IN  /\ read \in Seq(Hash) /\ Len(read) = Len(hashes[b]) + 1
                 /\ \A i \in 1 .. Len(hashes[b]) : read[i] = hashes[b][i]
                 /\ read[Len(hashes[b]) + 1] = found
    BY <1>1, <1>5
<1> QED
    BY <1>1, <1>2, <1>4, <1>5 DEF found

LEMMA ReadShardKeeps ==
    ASSUME PathInv, ReaderInv, NEW b \in Reader, ReadShard(b), OnlyCountersMove,
           losses' = losses
    PROVE  ReaderInv'
<1> DEFINE found == counters[NextShardKey(about[b], hashes[b])]
           read == Append(hashes[b], found)
<1>1. ReaderOK(b) /\ LocalsTyped /\ forgotten \subseteq cast
    BY DEF ReaderInv
<1>2. at[b] = "shards" /\ UNCHANGED <<question_result, sure, forgotten>>
    BY DEF ReadShard
<1>3. sure' \in [Reader -> SUBSET Request] /\ forgotten' \subseteq cast
    BY <1>1, <1>2 DEF LocalsTyped
<1>4. found # NotAHash => read \in Seq(Hash) /\ Len(read) = Len(hashes[b]) + 1
    BY <1>2, NextShardIs
<1>5. view[b] \in Card /\ Len(hashes[b]) \in 0 .. COUNTER_SHARDS - 1
    BY <1>2, HeldCards, NextShardIs
<1> HIDE DEF found, read
<1>6. CASE Fail(b, "unavailable")
    BY <1>2, <1>3, <1>6, FailHolds DEF Outcome
<1>7. CASE /\ found # NotAHash
           /\ ~AllShardsRead(read)
           /\ hashes' = [hashes EXCEPT ![b] = read]
           /\ UNCHANGED <<at, requestVars, mode, view, badge, rows>>
    <2>1. Len(read) < COUNTER_SHARDS
        BY <1>4, <1>5, <1>7, ShardsAssumption DEF AllShardsRead
    <2>2. /\ hashes' \in [Reader -> Seq(Hash)] /\ hashes'[b] = read
          /\ \A c \in Reader \ {b} : hashes'[c] = hashes[c]
        BY <1>1, <1>4, <1>7 DEF LocalsTyped
    <2>3. UNCHANGED <<at, about, figures, outcome, mode, view, badge, rows, sure>>
        BY <1>2, <1>7 DEF requestVars
    <2>4. LocalsTyped' /\ OthersStay(b)
        BY <1>1, <2>2, <2>3 DEF LocalsTyped, OthersStay
    <2>5. ReaderOK(b)'
        BY <1>1, <1>2, <2>1, <2>2, <2>3
        DEF ReaderOK, CountedFor, QuestionOf, OnlyCountersMove, serviceVars
    <2> QED
        BY <1>2, <2>3, <2>4, <2>5, GoesOnHolds
<1>8. CASE /\ mode' = [mode EXCEPT ![b] = "rebuild"]
           /\ Proceed(b, "row")
           /\ ForgetLocals({b})
    <2>1. /\ at' \in [Reader -> ResultStep] /\ at'[b] = "row"
          /\ \A c \in Reader \ {b} : at'[c] = at[c]
          /\ mode' \in [Reader -> {"read", "rebuild"}]
          /\ UNCHANGED <<about, figures, outcome>>
        BY <1>1, <1>8 DEF LocalsTyped, Proceed, requestVars, ResultStep
    <2>2. /\ hashes'[b] = <<>> /\ rows'[b] = {}
          /\ \A c \in Reader \ {b} :
                view'[c] = view[c] /\ hashes'[c] = hashes[c] /\ rows'[c] = rows[c]
        BY <1>1, <1>8, ForgetEffect
    <2>3. /\ view' \in [Reader -> Card \cup {NoCard}]
          /\ badge' \in [Reader -> {"none", "draft", "cancelled", "scheduled", "live", "closed"}]
          /\ hashes' \in [Reader -> Seq(Hash)]
          /\ rows' \in [Reader -> SUBSET VoteEvent]
        BY <1>1, <1>8, ForgetEffect
    <2>4. LocalsTyped' /\ OthersStay(b)
        BY <1>1, <1>2, <2>1, <2>2, <2>3 DEF LocalsTyped, OthersStay
    <2>5. ReaderOK(b)'
        BY <1>1, <1>2, <2>1, <2>2
        DEF ReaderOK, CountedFor, QuestionOf, OnlyCountersMove, serviceVars
    <2> QED
        BY <1>2, <2>1, <2>4, <2>5, GoesOnHolds
<1>9. CASE found # NotAHash /\ Respond(b, AggregateCounterShards(read))
    <2>1. \A option \in OptionKey : AggregateCounterShards(read)[option] \in Nat
        BY <1>4, <1>9, AggregateIs
    <2> QED
        BY <1>2, <1>3, <1>5, <1>9, <2>1, RespondHolds
<1> QED
    BY <1>6, <1>7, <1>8, <1>9 DEF ReadShard, found, read

LEMMA CountRowsKeeps ==
    ASSUME PathInv, ReaderInv, NEW b \in Reader, CountRows(b), OnlyCountersMove,
           losses' = losses
    PROVE  ReaderInv'
<1> DEFINE grouped == {e \in vote : e.key[1] = about[b]}
<1>1. ReaderOK(b) /\ LocalsTyped
    BY DEF ReaderInv
<1>2. /\ at[b] = "count" /\ at' = [at EXCEPT ![b] = "delete"]
      /\ rows' = [rows EXCEPT ![b] = grouped]
      /\ UNCHANGED <<question_result, mode, view, badge, hashes, sure, forgotten,
                     about, figures, outcome>>
    BY DEF CountRows, Proceed, requestVars
<1>3. grouped \in SUBSET VoteEvent
    BY DEF PathInv, TypeInv, PathTypeOK, StoreTypeOK
<1>4. /\ at' \in [Reader -> ResultStep] /\ at'[b] = "delete"
      /\ \A c \in Reader \ {b} : at'[c] = at[c]
    BY <1>1, <1>2 DEF LocalsTyped, ResultStep
<1>5. /\ rows' \in [Reader -> SUBSET VoteEvent]
      /\ \A e \in rows'[b] : e \in vote /\ e.key[1] = about[b]
      /\ \A c \in Reader \ {b} : rows'[c] = rows[c]
    BY <1>1, <1>2, <1>3 DEF LocalsTyped
<1>6. LocalsTyped' /\ OthersStay(b)
    BY <1>1, <1>2, <1>4, <1>5 DEF LocalsTyped, OthersStay
<1>7. ReaderOK(b)'
    BY <1>1, <1>2, <1>4, <1>5
    DEF ReaderOK, CountedFor, QuestionOf, OnlyCountersMove, serviceVars
<1> QED
    BY <1>2, <1>6, <1>7, GoesOnHolds

LEMMA DeleteSnapshotKeeps ==
    ASSUME ReaderInv, NEW b \in Reader, DeleteSnapshot(b), OnlyCountersMove,
           losses' = losses
    PROVE  ReaderInv'
<1>1. ReaderOK(b) /\ LocalsTyped
    BY DEF ReaderInv
<1>2. /\ at[b] = "delete" /\ at' = [at EXCEPT ![b] = "insert"]
      /\ UNCHANGED <<question_result, mode, view, badge, hashes, rows, sure, forgotten,
                     about, figures, outcome>>
    BY DEF DeleteSnapshot, Proceed, requestVars
<1>3. /\ at' \in [Reader -> ResultStep] /\ at'[b] = "insert"
      /\ \A c \in Reader \ {b} : at'[c] = at[c]
    BY <1>1, <1>2 DEF LocalsTyped, ResultStep
<1>4. LocalsTyped' /\ OthersStay(b)
    BY <1>1, <1>2, <1>3 DEF LocalsTyped, OthersStay
<1>5. ReaderOK(b)'
    BY <1>1, <1>2, <1>3 DEF ReaderOK, CountedFor, QuestionOf, OnlyCountersMove, serviceVars
<1> QED
    BY <1>2, <1>4, <1>5, GoesOnHolds

\* One of the rebuilds that stand at their INSERT commits, or loses the reply
\* to COMMIT; the others end.
LEMMA InsertSnapshotKeeps ==
    ASSUME PathInv, ReaderInv, NEW b \in Reader, InsertSnapshot(b), OnlyCountersMove,
           losses' = losses
    PROVE  ReaderInv'
<1> DEFINE tally == [option \in KeysOf[view[b].options] |-> JournalCounts(rows[b])[option]]
<1>1. LocalsTyped /\ SnapshotsTyped /\ \A c \in Reader : ReaderOK(c)
    BY DEF ReaderInv
<1>2. /\ at[b] = "insert"
      /\ question_result' = [question_result EXCEPT ![about[b]] = tally]
      /\ UNCHANGED <<about, mode, figures, sure, forgotten>>
    BY DEF InsertSnapshot
<1>3. view[b] \in Card /\ about[b] \in Question
    BY <1>2, HeldCards
<1>4. SnapshotsTyped'
    <2>1. rows[b] \in SUBSET vote
        BY <1>1 DEF ReaderOK
    <2>2. \A option \in OptionKey : JournalCounts(rows[b])[option] \in Nat
        BY <2>1, JournalIsVotes
    <2>3. IsTally(tally)
        BY <1>3, <2>2, TallyIs
    <2> HIDE DEF tally
    <2> QED
        BY <1>1, <1>2, <1>3, <2>3 DEF SnapshotsTyped
<1>5. PICK failed \in {Colliding(b), Colliding(b) \cup {b}} :
        /\ at' = [c \in Reader |-> IF c \in failed THEN "done"
                                   ELSE IF c = b THEN "replace" ELSE at[c]]
        /\ outcome' = [c \in Reader |-> IF c \in failed THEN "internal_error"
                                        ELSE outcome[c]]
        /\ ForgetLocals(failed)
    BY DEF InsertSnapshot
<1>6. at' \in [Reader -> ResultStep] /\ outcome' \in [Reader -> Outcome]
    BY <1>1, <1>5 DEF LocalsTyped, ResultStep, Outcome
<1>7. LocalsTyped'
    BY <1>1, <1>2, <1>5, <1>6, ForgetEffect DEF LocalsTyped
<1>8. ASSUME NEW c \in Reader PROVE ReaderOK(c)'
    <2>1. ReaderOK(c)
        BY <1>1
    <2>2. CASE c \in failed
        <3>1. Ended(c)
            BY <1>1, <1>5, <2>2, ForgetEffect DEF Ended
        <3> QED
            BY <1>2, <3>1, EndedHolds
    <2>3. CASE c \notin failed
        <3>1. /\ at'[c] = IF c = b THEN "replace" ELSE at[c]
              /\ view'[c] = view[c] /\ hashes'[c] = hashes[c] /\ rows'[c] = rows[c]
            BY <1>1, <1>5, <2>3, ForgetEffect
        <3> QED
            BY <1>2, <2>1, <3>1
            DEF ReaderOK, CountedFor, QuestionOf, OnlyCountersMove, serviceVars
    <2> QED
        BY <2>2, <2>3
<1> QED
    BY <1>2, <1>4, <1>7, <1>8
    DEF ReaderInv, FiguresTyped, OnlyCountersMove, serviceVars

LEMMA ReplaceKeeps ==
    ASSUME PathInv, ReaderInv, NEW b \in Reader, ReplaceCounters(b), OnlyCountersMove,
           losses' = losses
    PROVE  ReaderInv' /\ CountersTyped'
<1> DEFINE counts == JournalCounts(rows[b])
<1>1. /\ at[b] = "replace" /\ question_result' = question_result
      /\ counters' = ReplacedCounters(about[b], view[b].options, counts)
      /\ sure' = [c \in Reader |-> IF about[c] = about[b] THEN {} ELSE sure[c]]
      /\ \/ Respond(b, counts) \/ Fail(b, "unavailable")
         \/ UNCHANGED <<at, requestVars, mode, view, badge, hashes, rows>>
      /\ forgotten' \subseteq cast
    BY DEF ReplaceCounters
<1>2. LocalsTyped /\ ReaderOK(b)
    BY DEF ReaderInv
<1>3. sure' \in [Reader -> SUBSET Request] /\ \A c \in Reader : sure'[c] \subseteq sure[c]
    BY <1>1, <1>2 DEF LocalsTyped
<1>4. view[b] \in Card
    BY <1>1, HeldCards
<1>5. \A option \in OptionKey : counts[option] \in Nat
    <2>1. rows[b] \in SUBSET vote
        BY <1>2 DEF ReaderOK
    <2> QED
        BY <2>1, JournalIsVotes
<1>6. CountersTyped'
    <2>1. IsHash([option \in KeysOf[view[b].options] |-> counts[option]])
        BY <1>4, <1>5, TallyIs
    <2>2. IsHash(EmptyHash)
        BY DEF IsHash, EmptyHash
    <2> HIDE DEF counts
    <2> QED
        BY <1>1, <2>1, <2>2
        DEF ReplacedCounters, CountersTyped, PathInv, TypeInv, PathTypeOK, StoreTypeOK
<1> HIDE DEF counts
<1>7. CASE UNCHANGED <<at, requestVars, mode, view, badge, hashes, rows>>
    <2>1. UNCHANGED <<question_result, at, about, mode, view, badge, hashes, rows, figures,
                      outcome>>
        BY <1>1, <1>7 DEF requestVars
    <2>2. \A c \in Reader : ReaderOK(c)'
        BY <1>3, <2>1, HandlerHolds DEF OnlyCountersMove, serviceVars
    <2> QED
        BY <1>1, <1>3, <1>6, <2>1, <2>2
        DEF ReaderInv, LocalsTyped, FiguresTyped, SnapshotsTyped, OnlyCountersMove, serviceVars
<1>8. ReaderInv'
    BY <1>1, <1>3, <1>4, <1>5, <1>7, FailHolds, RespondHolds DEF Outcome
<1> QED
    BY <1>6, <1>8

LEMMA StoreFailsKeeps ==
    ASSUME ReaderInv, NEW b \in Reader, ResultStoreFails(b), OnlyCountersMove, losses' = losses
    PROVE  ReaderInv'
<1>1. /\ Fail(b, "internal_error") \/ Fail(b, "unavailable")
      /\ UNCHANGED <<question_result, sure, forgotten>>
    BY DEF ResultStoreFails
<1>2. sure' \in [Reader -> SUBSET Request] /\ forgotten' \subseteq cast
    BY <1>1 DEF ReaderInv, LocalsTyped
<1> QED
    BY <1>1, <1>2, FailHolds DEF Outcome

\* Redis loses the counters of a question.
LEMMA LoseKeeps ==
    ASSUME PathInv, ReaderInv, NEW q \in Question, LoseCounters(q), OnlyCountersMove,
           losses < MaxLosses, losses' = losses + 1
    PROVE  ReaderInv' /\ CountersTyped'
<1>1. /\ counters' = [c \in CounterKey |-> IF c[1] = q THEN EmptyHash ELSE counters[c]]
      /\ forgotten' = forgotten \cup CountedFor(q)
      /\ sure' = [b \in Reader |-> IF about[b] = q THEN {} ELSE sure[b]]
      /\ UNCHANGED <<question_result, at, about, mode, view, badge, hashes, rows,
                     figures, outcome>>
    BY DEF LoseCounters
<1>2. IsHash(EmptyHash)
    BY DEF IsHash, EmptyHash
<1>3. CountersTyped'
    BY <1>1, <1>2 DEF CountersTyped, PathInv, TypeInv, PathTypeOK, StoreTypeOK
<1>4. LocalsTyped' /\ FiguresTyped' /\ SnapshotsTyped'
    BY <1>1 DEF ReaderInv, LocalsTyped, FiguresTyped, SnapshotsTyped
<1>5. \A c \in Reader : sure'[c] \subseteq sure[c]
    BY <1>1
<1>6. \A c \in Reader : ReaderOK(c)'
    BY <1>1, <1>5, HandlerHolds DEF OnlyCountersMove, serviceVars
<1>7. losses' \in 0 .. MaxLosses
    BY MaxLossesAssumption DEF ReaderInv
<1> QED
    BY <1>1, <1>3, <1>4, <1>6, <1>7 DEF ReaderInv, CountedFor, OnlyCountersMove, serviceVars

\* Votes go on beside the requests for sums.
LEMMA ViewingKeeps ==
    ASSUME PathInv, ReaderInv, [PathNext]_pathVars, UNCHANGED <<resultVars, losses>>
    PROVE  ReaderInv'
<1>1. UNCHANGED <<question_result, at, about, mode, view, badge, hashes, rows, figures,
                  outcome, sure, forgotten, losses>>
    BY DEF resultVars
<1>2. /\ question' = question /\ question_option' = question_option
      /\ vote \subseteq vote' /\ cast \subseteq cast'
      /\ \A r \in cast : call'[r] = call[r]
    BY QuestionsStay, SettledStays, CastGrows, EventsStay DEF PathInv
<1>3. \A c \in Reader : ReaderOK(c)'
    BY <1>1, <1>2, HandlerHolds
<1> QED
    BY <1>1, <1>2, <1>3 DEF ReaderInv, LocalsTyped, FiguresTyped, SnapshotsTyped

-----------------------------------------------------------------------------
\* The steps of the whole

\* Steps of a request for sums that leave the counters alone.
CalmStep(b) ==
    \/ StartResult(b) \/ ResultRow(b) \/ ResultOptions(b) \/ ReadShard(b)
    \/ CountRows(b) \/ DeleteSnapshot(b) \/ InsertSnapshot(b) \/ ResultStoreFails(b)

\* What the steps do to the votes that are owed.
LEMMA OwedKinds ==
    ASSUME [Next]_vars
    PROVE  \/ [PathNext]_pathVars /\ UNCHANGED <<resultVars, losses, owed>>
           \/ /\ OnlyCountersMove /\ losses' = losses /\ counters' = counters
              /\ \E b \in Reader : StartResult(b) /\ StartsOwing(b)
           \/ /\ OnlyCountersMove /\ losses' = losses /\ counters' = counters
              /\ owed' = owed
              /\ \E b \in Reader : CalmStep(b) /\ ~StartResult(b)
           \/ /\ OnlyCountersMove /\ losses' = losses
              /\ \E b \in Reader : ReplaceCounters(b) /\ OwedAfter(b)
           \/ /\ OnlyCountersMove /\ losses < MaxLosses /\ losses' = losses + 1
              /\ owed' = owed
              /\ \E q \in Question : LoseCounters(q)
<1>1. ASSUME Viewing
      PROVE  [PathNext]_pathVars
    BY <1>1 DEF Viewing, PathNext
<1>2. ASSUME UNCHANGED <<storeVars, journalVars, serviceVars, losses>>
      PROVE  OnlyCountersMove /\ losses' = losses /\ counters' = counters
    BY <1>2 DEF storeVars, OnlyCountersMove
<1>3. ASSUME NEW b \in Reader, ResultStoreFails(b)
      PROVE  CalmStep(b) /\ ~StartResult(b)
    BY <1>3 DEF CalmStep, ResultStoreFails, StartResult
<1>4. ASSUME NEW b \in Reader, ResultGoesOn(b)
      PROVE  /\ OnlyCountersMove /\ losses' = losses
             /\ \/ counters' = counters /\ owed' = owed /\ CalmStep(b) /\ ~StartResult(b)
                \/ ReplaceCounters(b) /\ OwedAfter(b)
    BY <1>4 DEF ResultGoesOn, storeVars, OnlyCountersMove, CalmStep, StartResult, ResultRow,
       ResultOptions, ReadShard, CountRows, DeleteSnapshot, InsertSnapshot
<1>5. ASSUME UNCHANGED vars
      PROVE  [PathNext]_pathVars /\ UNCHANGED <<resultVars, losses, owed>>
    BY <1>5 DEF vars, pathVars
<1> QED
    BY <1>1, <1>2, <1>3, <1>4, <1>5 DEF Next, OnlyCountersMove

\* The same without them.
LEMMA StepKinds ==
    ASSUME [Next]_vars
    PROVE  \/ [PathNext]_pathVars /\ UNCHANGED <<resultVars, losses>>
           \/ /\ OnlyCountersMove /\ losses' = losses /\ counters' = counters
              /\ \E b \in Reader : CalmStep(b)
           \/ /\ OnlyCountersMove /\ losses' = losses
              /\ \E b \in Reader : ReplaceCounters(b)
           \/ /\ OnlyCountersMove /\ losses < MaxLosses /\ losses' = losses + 1
              /\ \E q \in Question : LoseCounters(q)
    BY OwedKinds DEF CalmStep

\* The vote path beside sums and rebuilds.
LEMMA PathGoesOn ==
    ASSUME PathInv, ReaderInv, [Next]_vars
    PROVE  PathInv'
<1>1. CASE [PathNext]_pathVars
    BY <1>1, PathStays
<1>2. CASE OnlyCountersMove /\ counters' = counters
    <2>1. CountersTyped'
        BY <1>2 DEF CountersTyped, PathInv, TypeInv, PathTypeOK, StoreTypeOK
    <2> QED
        BY <1>2, <2>1, PathKept
<1>3. ASSUME NEW b \in Reader, ReplaceCounters(b), OnlyCountersMove, losses' = losses
      PROVE  PathInv'
    BY <1>3, ReplaceKeeps, PathKept
<1>4. ASSUME NEW q \in Question, LoseCounters(q), OnlyCountersMove, losses < MaxLosses,
             losses' = losses + 1
      PROVE  PathInv'
    BY <1>4, LoseKeeps, PathKept
<1> QED
    BY <1>1, <1>2, <1>3, <1>4, StepKinds

\* The handlers of the requests for sums.
LEMMA ReadersGoOn ==
    ASSUME PathInv, ReaderInv, [Next]_vars
    PROVE  ReaderInv'
<1>1. ASSUME NEW b \in Reader, CalmStep(b), OnlyCountersMove, losses' = losses
      PROVE  ReaderInv'
    BY <1>1, StartResultKeeps, ResultRowKeeps, ResultOptionsKeeps, ReadShardKeeps,
       CountRowsKeeps, DeleteSnapshotKeeps, InsertSnapshotKeeps, StoreFailsKeeps DEF CalmStep
<1>2. ASSUME NEW b \in Reader, ReplaceCounters(b), OnlyCountersMove, losses' = losses
      PROVE  ReaderInv'
    BY <1>2, ReplaceKeeps
<1>3. ASSUME NEW q \in Question, LoseCounters(q), OnlyCountersMove, losses < MaxLosses,
             losses' = losses + 1
      PROVE  ReaderInv'
    BY <1>3, LoseKeeps
<1> QED
    BY <1>1, <1>2, <1>3, ViewingKeeps, StepKinds

LEMMA OwedTypeStays ==
    ASSUME PathInv, OwedTyped, [Next]_vars
    PROVE  OwedTyped'
<1>1. cast \subseteq cast'
    <2>1. CASE [PathNext]_pathVars
        BY <2>1, CastGrows DEF PathInv
    <2>2. CASE OnlyCountersMove
        BY <2>2 DEF OnlyCountersMove, serviceVars
    <2> QED
        BY <2>1, <2>2, OwedKinds
<1>2. CASE owed' = owed
    BY <1>1, <1>2 DEF OwedTyped
<1>3. ASSUME NEW b \in Reader, StartsOwing(b)
      PROVE  OwedTyped'
    BY <1>1, <1>3 DEF OwedTyped, StartsOwing, CountedFor
<1>4. ASSUME NEW b \in Reader, OwedAfter(b)
      PROVE  OwedTyped'
    BY <1>1, <1>4 DEF OwedTyped, OwedAfter
<1> QED
    BY <1>2, <1>3, <1>4, OwedKinds

\* Types, cards and rows of the handlers, together with the invariant of the
\* vote path, which rebuilds and losses of counters do not disturb: the
\* inductive form of ResultTypes.
THEOREM ReaderInvariant == Spec => [](PathInv /\ ReaderInv /\ OwedTyped)
<1>1. Init => PathInv /\ ReaderInv /\ OwedTyped
    <2> SUFFICES ASSUME Init PROVE PathInv /\ ReaderInv /\ OwedTyped
        OBVIOUS
    <2>1. PathInv
        BY PathStarts DEF Init
    <2>2. <<>> \in Seq(Hash) /\ IsTally(EmptyHash)
        BY DEF IsTally, EmptyHash
    <2>3. LocalsTyped
        BY <2>2 DEF Init, ResultInit, LocalsTyped, ResultStep, Outcome
    <2>4. FiguresTyped /\ SnapshotsTyped /\ forgotten \subseteq cast /\ losses \in 0 .. MaxLosses
        BY <2>2, MaxLossesAssumption DEF Init, ResultInit, FiguresTyped, SnapshotsTyped
    <2>5. \A b \in Reader : ReaderOK(b)
        BY DEF Init, ResultInit, ReaderOK
    <2>6. OwedTyped
        BY DEF Init, OwedTyped
    <2> QED
        BY <2>1, <2>3, <2>4, <2>5, <2>6 DEF ReaderInv
<1>2. PathInv /\ ReaderInv /\ OwedTyped /\ [Next]_vars => (PathInv /\ ReaderInv /\ OwedTyped)'
    BY PathGoesOn, ReadersGoOn, OwedTypeStays
<1> QED
    BY <1>1, <1>2, PTL DEF Spec

\* Every variable keeps its type: no sum is negative, no answer has an option
\* the card does not have, and a reader never asks for a shard too many.
THEOREM ResultTypes == Spec => []TypeOK
<1>1. PathInv /\ ReaderInv /\ OwedTyped => TypeOK
    BY ReaderInvTypes
<1> QED
    BY <1>1, ReaderInvariant, PTL

\* Whoever rebuilds, reads or loses counters, the vote path still implements
\* the ballot box: viewers and journal get what they would get without it.
THEOREM RebuildsUnseen == Spec => BallotBoxUnderRebuilds
<1>1. Init => Box!Init
    BY BoxStarts DEF Init
<1>2. PathInv /\ PathInv' /\ ReaderInv /\ [Next]_vars => [Box!Next]_Box!vars
    <2> SUFFICES ASSUME PathInv, PathInv', ReaderInv, [Next]_vars
                 PROVE  [Box!Next]_Box!vars
        OBVIOUS
    <2>1. CASE [PathNext]_pathVars
        BY <2>1, FirstsCounted, BoxSteps DEF PathInv, AccountInv
    <2>2. CASE OnlyCountersMove
        <3>1. UNCHANGED Box!vars
            BY <2>2 DEF OnlyCountersMove, journalVars, serviceVars, Box!vars, EventOf
        <3> QED
            BY <3>1
    <2> QED
        BY <2>1, <2>2, StepKinds
<1> QED
    BY <1>1, <1>2, ReaderInvariant, PTL DEF Spec, BallotBoxUnderRebuilds, BallotBoxSpec, Box!Spec

-----------------------------------------------------------------------------
\* Sums in the counters

\* What shard c counts for an option; a key of another type counts nothing.
Field(c, option) == IF counters[c] = NotAHash THEN 0 ELSE CountOf(counters[c], option)

InShards(q, option) == [i \in 1 .. COUNTER_SHARDS |-> Field(<<q, i - 1>>, option)]

InCounters(q) == CountedFor(q) \ forgotten

SumsInv ==
    \A q \in Question, option \in OptionKey :
        SumOf(InShards(q, option)) = Cardinality(VotesFor(option, InCounters(q)))

LEMMA FieldType ==
    ASSUME PathInv, NEW q \in Question, NEW option
    PROVE  /\ \A s \in Shard : Field(<<q, s>>, option) \in Nat
           /\ InShards(q, option) \in Counts(COUNTER_SHARDS)
           /\ \A i \in 1 .. COUNTER_SHARDS : i - 1 \in Shard
<1>1. COUNTER_SHARDS \in Nat
    BY ShardsAssumption
<1>2. \A i \in 1 .. COUNTER_SHARDS : i - 1 \in Shard
    BY <1>1 DEF Shard
<1>3. ASSUME NEW s \in Shard
      PROVE  Field(<<q, s>>, option) \in Nat
    <2>1. counters[<<q, s>>] = NotAHash \/ counters[<<q, s>>] \in Hash
        BY HashIs DEF CounterKey, PathInv, TypeInv, PathTypeOK, StoreTypeOK
    <2> QED
        BY <2>1, CountOfType DEF Field
<1> QED
    BY <1>2, <1>3 DEF InShards, Counts

\* The same of the next state.
LEMMA FieldTypeNext ==
    ASSUME PathInv', NEW q \in Question, NEW option
    PROVE  /\ \A s \in Shard : Field(<<q, s>>, option)' \in Nat
           /\ InShards(q, option)' \in Counts(COUNTER_SHARDS)
           /\ \A i \in 1 .. COUNTER_SHARDS :
                InShards(q, option)'[i] = Field(<<q, i - 1>>, option)'
<1>1. COUNTER_SHARDS \in Nat
    BY ShardsAssumption
<1>2. \A i \in 1 .. COUNTER_SHARDS : i - 1 \in Shard
    BY <1>1 DEF Shard
<1>3. ASSUME NEW s \in Shard
      PROVE  Field(<<q, s>>, option)' \in Nat
    <2>1. counters'[<<q, s>>] = NotAHash \/ counters'[<<q, s>>] \in Hash
        BY HashIs DEF CounterKey, PathInv, TypeInv, PathTypeOK, StoreTypeOK
    <2> QED
        BY <2>1, CountOfType DEF Field
<1>4. InShards(q, option)' = [i \in 1 .. COUNTER_SHARDS |-> Field(<<q, i - 1>>, option)']
    BY DEF InShards
<1> QED
    BY <1>2, <1>3, <1>4 DEF Counts

\* Sets of counted votes are finite, and larger ones have more votes for an
\* option.
LEMMA VotesForType ==
    ASSUME PathInv, NEW option, NEW requests \in SUBSET cast, NEW fewer \in SUBSET requests
    PROVE  /\ IsFiniteSet(VotesFor(option, requests))
           /\ Cardinality(VotesFor(option, requests)) \in Nat
           /\ Cardinality(VotesFor(option, fewer)) \in Nat
           /\ Cardinality(VotesFor(option, fewer)) <= Cardinality(VotesFor(option, requests))
<1>1. VotesFor(option, requests) \in SUBSET cast
    BY DEF VotesFor
<1>2. IsFiniteSet(VotesFor(option, requests))
    BY <1>1, FS_Subset DEF PathInv
<1>3. VotesFor(option, fewer) \in SUBSET VotesFor(option, requests)
    BY DEF VotesFor
<1>4. IsFiniteSet(VotesFor(option, fewer))
    BY <1>2, <1>3, FS_Subset
<1> QED
    BY <1>2, <1>3, <1>4, FS_Subset, FS_CardinalityType

\* The script adds one to one field of one shard of the question, for a vote
\* that was not counted before.
LEMMA VoteAdds ==
    ASSUME PathInv, NEW r \in Request, EvalFirst(r)
    PROVE  LET q == QuestionOf(r)
               s == CounterShard(call[r].key)
           IN  /\ q \in Question /\ s \in Shard
               /\ call' = call /\ r \notin cast /\ cast' = cast \cup {r}
               /\ \A p \in Question, t \in Shard, option \in OptionKey :
                    Field(<<p, t>>, option)' =
                        IF p = q /\ t = s /\ option = call[r].option
                        THEN Field(<<p, t>>, option) + 1 ELSE Field(<<p, t>>, option)
<1> DEFINE k == call[r].key
           key == ResultCounterKey(k)
<1>1. k \in DedupKey /\ r \notin cast
    BY FirstVoteIsFirst DEF PathInv, CountInv
<1>2. key \in CounterKey /\ key = <<QuestionOf(r), CounterShard(k)>>
    BY <1>1, CounterKeyType DEF ResultCounterKey, QuestionOf
<1>3. QuestionOf(r) \in Question /\ CounterShard(k) \in Shard
    BY <1>2 DEF CounterKey
<1>4. /\ counters[key] # NotAHash
      /\ counters' = [counters EXCEPT ![key] = HIncrBy(counters[key], call[r].option)]
      /\ call' = call /\ cast' = cast \cup {r}
    BY DEF EvalFirst, ReserveViewerAndIncrementCounter
<1>5. /\ DOMAIN counters = CounterKey
      /\ IsHash(counters[key]) /\ call[r].option \in OptionKey
    <2>1. call[r] \in Call /\ call[r].kind = "vote"
        BY DEF EvalFirst, PathInv, TypeInv, HandlerInv, HandlerOK
    <2> QED
        BY <1>2, <1>4, <2>1, CallFields DEF PathInv, TypeInv, PathTypeOK, StoreTypeOK
<1>6. HIncrBy(counters[key], call[r].option) # NotAHash
    <2>1. IsHash(HIncrBy(counters[key], call[r].option))
        BY <1>5, HIncrByType
    <2> QED
        BY <2>1, SentinelAssumption DEF IsHash
<1>7. ASSUME NEW p \in Question, NEW t \in Shard, NEW option \in OptionKey
      PROVE  Field(<<p, t>>, option)' =
                IF p = QuestionOf(r) /\ t = CounterShard(k) /\ option = call[r].option
                THEN Field(<<p, t>>, option) + 1 ELSE Field(<<p, t>>, option)
    <2>1. <<p, t>> \in CounterKey
        BY DEF CounterKey
    <2>2. CASE <<p, t>> = key
        <3>1. counters'[<<p, t>>] = HIncrBy(counters[key], call[r].option)
            BY <1>4, <1>5, <2>1, <2>2
        <3> QED
            BY <1>2, <1>4, <1>6, <2>2, <3>1, HIncrByCount DEF Field
    <2>3. CASE <<p, t>> # key
        <3>1. counters'[<<p, t>>] = counters[<<p, t>>]
            BY <1>4, <1>5, <2>1, <2>3
        <3> QED
            BY <1>2, <2>3, <3>1 DEF Field
    <2> QED
        BY <2>2, <2>3
<1> QED
    BY <1>1, <1>3, <1>4, <1>7

\* When the votes, the counters and what they no longer hold stay, so do sums.
LEMMA SumsKept ==
    ASSUME SumsInv, \A r \in cast : call'[r] = call[r], UNCHANGED <<cast, counters, forgotten>>
    PROVE  SumsInv'
<1> SUFFICES ASSUME NEW q \in Question, NEW option \in OptionKey
             PROVE  (SumOf(InShards(q, option))
                        = Cardinality(VotesFor(option, InCounters(q))))'
    BY DEF SumsInv
<1>1. InShards(q, option)' = InShards(q, option)
    BY DEF InShards, Field
<1>2. VotesFor(option, InCounters(q))' = VotesFor(option, InCounters(q))
    BY DEF VotesFor, InCounters, CountedFor, QuestionOf
<1> QED
    BY <1>1, <1>2 DEF SumsInv

\* A vote is one more in the sum of its option, and in no other.
LEMMA SumsAfterVote ==
    ASSUME PathInv, PathInv', ReaderInv, SumsInv, NEW r \in Request, EvalFirst(r),
           UNCHANGED <<resultVars, losses>>
    PROVE  SumsInv'
<1> DEFINE p == QuestionOf(r)
           s == CounterShard(call[r].key)
<1>1. /\ p \in Question /\ s \in Shard
      /\ call' = call /\ r \notin cast /\ cast' = cast \cup {r}
      /\ \A q \in Question, t \in Shard, option \in OptionKey :
            Field(<<q, t>>, option)' =
                IF q = p /\ t = s /\ option = call[r].option
                THEN Field(<<q, t>>, option) + 1 ELSE Field(<<q, t>>, option)
    BY VoteAdds
<1>2. forgotten' = forgotten /\ forgotten \subseteq cast
    BY DEF resultVars, ReaderInv
<1> SUFFICES ASSUME NEW q \in Question, NEW option \in OptionKey
             PROVE  (SumOf(InShards(q, option))
                        = Cardinality(VotesFor(option, InCounters(q))))'
    BY DEF SumsInv
<1> DEFINE before == InShards(q, option)
           after == InShards(q, option)'
           votes == VotesFor(option, InCounters(q))
<1>3. /\ before \in Counts(COUNTER_SHARDS)
      /\ \A i \in 1 .. COUNTER_SHARDS : i - 1 \in Shard
      /\ COUNTER_SHARDS \in Nat
    BY FieldType, ShardsAssumption
<1>4. /\ \A i \in 1 .. COUNTER_SHARDS : before[i] = Field(<<q, i - 1>>, option)
      /\ \A i \in 1 .. COUNTER_SHARDS : after[i] = Field(<<q, i - 1>>, option)'
      /\ after \in Counts(COUNTER_SHARDS)
    <2>1. \A i \in 1 .. COUNTER_SHARDS : before[i] = Field(<<q, i - 1>>, option)
        BY DEF InShards
    <2> QED
        BY <2>1, FieldTypeNext
<1>5. IsFiniteSet(votes) /\ SumOf(before) = Cardinality(votes)
    BY VotesForType DEF InCounters, CountedFor, SumsInv
<1> HIDE DEF before, after
<1>6. CASE q = p /\ option = call[r].option
    <2>1. VotesFor(option, InCounters(q))' = votes \cup {r} /\ r \notin votes
        BY <1>1, <1>2, <1>6 DEF VotesFor, InCounters, CountedFor, QuestionOf
    <2>2. s + 1 \in 1 .. COUNTER_SHARDS /\ (s + 1) - 1 = s
        BY <1>1, <1>3 DEF Shard
    <2>3. after[s + 1] = before[s + 1] + 1
        BY <1>1, <1>4, <1>6, <2>2
    <2>4. ASSUME NEW i \in (1 .. COUNTER_SHARDS) \ {s + 1}
          PROVE  after[i] = before[i]
        <3>1. i - 1 \in Shard /\ i - 1 # s
            BY <1>1, <1>3 DEF Shard
        <3> QED
            BY <1>1, <1>4, <3>1
    <2>5. SumOf(after) = SumOf(before) + 1
        BY <1>3, <1>4, <2>2, <2>3, <2>4, SumOneMore
    <2>6. Cardinality(votes \cup {r}) = Cardinality(votes) + 1
        BY <1>5, <2>1, FS_AddElement
    <2> QED
        BY <1>5, <2>1, <2>5, <2>6 DEF after
<1>7. CASE ~(q = p /\ option = call[r].option)
    <2>1. VotesFor(option, InCounters(q))' = votes
        BY <1>1, <1>2, <1>7 DEF VotesFor, InCounters, CountedFor, QuestionOf
    <2>2. ASSUME NEW i \in 1 .. COUNTER_SHARDS
          PROVE  after[i] = before[i]
        BY <1>1, <1>3, <1>4, <1>7
    <2>3. after = before
        BY <1>3, <1>4, <2>2 DEF Counts
    <2> QED
        BY <1>5, <2>1, <2>3 DEF after
<1> QED
    BY <1>6, <1>7

\* After _replace_counters, the first shard holds the rows that were counted
\* and the others are empty: these rows are exactly the votes in the counters.
LEMMA SumsAfterReplace ==
    ASSUME PathInv, PathInv', ReaderInv, SumsInv, NEW b \in Reader, ReplaceCounters(b),
           OnlyCountersMove
    PROVE  SumsInv'
<1> DEFINE p == about[b]
           counts == JournalCounts(rows[b])
<1>1. /\ at[b] = "replace"
      /\ counters' = ReplacedCounters(p, view[b].options, counts)
      /\ forgotten' = {r \in cast : IF QuestionOf(r) = p THEN EventOf(r) \notin rows[b]
                                    ELSE r \in forgotten}
      /\ call' = call /\ cast' = cast
    BY DEF ReplaceCounters, OnlyCountersMove, serviceVars
<1>2. /\ rows[b] \in SUBSET vote /\ \A e \in rows[b] : e.key[1] = p
      /\ view[b] = ToCard(question[p], question_option[p])
    BY <1>1 DEF ReaderInv, ReaderOK
<1>3. view[b] \in Card /\ p \in Question
    BY <1>1, HeldCards
<1> SUFFICES ASSUME NEW q \in Question, NEW option \in OptionKey
             PROVE  (SumOf(InShards(q, option))
                        = Cardinality(VotesFor(option, InCounters(q))))'
    BY DEF SumsInv
<1>4. CASE q # p
    <2>1. VotesFor(option, InCounters(q))' = VotesFor(option, InCounters(q))
        BY <1>1, <1>4 DEF VotesFor, InCounters, CountedFor, QuestionOf
    <2>2. \A i \in 1 .. COUNTER_SHARDS : <<q, i - 1>> \in CounterKey
        BY FieldType DEF CounterKey
    <2>3. \A i \in 1 .. COUNTER_SHARDS : counters'[<<q, i - 1>>] = counters[<<q, i - 1>>]
        BY <1>1, <1>4, <2>2 DEF ReplacedCounters
    <2>4. InShards(q, option)' = InShards(q, option)
        BY <2>3 DEF InShards, Field
    <2> QED
        BY <2>1, <2>4 DEF SumsInv
<1>5. CASE q = p
    <2> DEFINE after == InShards(q, option)'
               votes == {r \in cast : EventOf(r) \in rows[b] /\ call[r].option = option}
    <2>1. counts[option] = Cardinality(votes) /\ counts[option] \in Nat
        BY <1>2, JournalIsVotes
    <2>2. VotesFor(option, InCounters(q))' = votes
        <3>1. ASSUME NEW r \in cast, EventOf(r) \in rows[b]
              PROVE  QuestionOf(r) = q
            BY <1>2, <1>5, <3>1 DEF EventOf, QuestionOf
        <3>2. VotesFor(option, InCounters(q))'
                = {r \in cast : /\ QuestionOf(r) = q /\ EventOf(r) \in rows[b]
                                /\ call[r].option = option}
            BY <1>1, <1>5 DEF VotesFor, InCounters, CountedFor, QuestionOf, EventOf
        <3> QED
            BY <3>1, <3>2
    <2>3. option \notin KeysOf[view[b].options] => votes = {}
        BY <1>2 DEF PathInv, CountInv, VotesInWindow, QuestionOf, EventOf, ToCard
    <2>4. option \notin KeysOf[view[b].options] => counts[option] = 0
        BY <2>1, <2>3, FS_EmptySet
    <2>5. /\ \A i \in 1 .. COUNTER_SHARDS : i - 1 \in Shard
          /\ COUNTER_SHARDS \in Nat \ {0} /\ 1 \in 1 .. COUNTER_SHARDS /\ 1 - 1 = 0
        BY <1>3, ShardsAssumption DEF Shard
    <2>6. /\ after \in Counts(COUNTER_SHARDS)
          /\ \A i \in 1 .. COUNTER_SHARDS : after[i] = Field(<<q, i - 1>>, option)'
        BY FieldTypeNext
    <2> HIDE DEF after
    <2>7. after[1] = counts[option]
        <3>1. <<q, 0>> \in CounterKey
            BY <1>3, <2>5 DEF CounterKey
        <3>2. counters'[<<q, 0>>] = [o \in KeysOf[view[b].options] |-> counts[o]]
            BY <1>1, <1>5, <3>1 DEF ReplacedCounters
        <3>3. counters'[<<q, 0>>] # NotAHash
            <4>1. IsHash(counters'[<<q, 0>>])
                <5>1. \A o \in OptionKey : counts[o] \in Nat
                    BY <1>2, JournalIsVotes
                <5> HIDE DEF counts
                <5> QED
                    BY <1>3, <3>2, <5>1, TallyIs
            <4> QED
                BY <4>1, SentinelAssumption DEF IsHash
        <3>4. after[1] = Field(<<q, 0>>, option)'
            <4>1. after[1] = Field(<<q, 1 - 1>>, option)'
                BY <2>5, <2>6
            <4> QED
                BY <2>5, <4>1
        <3>5. after[1] = CountOf(counters'[<<q, 0>>], option)
            BY <3>3, <3>4 DEF Field
        <3> HIDE DEF counts
        <3> QED
            BY <2>4, <3>2, <3>5 DEF CountOf
    <2>8. ASSUME NEW i \in 2 .. COUNTER_SHARDS
          PROVE  after[i] = 0
        <3>1. i \in 1 .. COUNTER_SHARDS /\ i - 1 # 0
            BY <2>5
        <3>2. <<q, i - 1>> \in CounterKey
            BY <1>3, <2>5, <3>1 DEF CounterKey
        <3>3. counters'[<<q, i - 1>>] = EmptyHash
            BY <1>1, <1>5, <3>1, <3>2 DEF ReplacedCounters
        <3>4. after[i] = Field(<<q, i - 1>>, option)'
            BY <2>6, <3>1
        <3> QED
            BY <3>3, <3>4 DEF Field, CountOf, EmptyHash
    <2>9. SumOf(after) = after[1]
        BY <2>5, <2>6, <2>8, SumOfFirst
    <2>10. SumOf(InShards(q, option)') = Cardinality(VotesFor(option, InCounters(q))')
        BY <2>1, <2>2, <2>7, <2>9 DEF after
    <2> QED
        BY <2>10
<1> QED
    BY <1>4, <1>5

\* Lost counters hold no vote, and all counted votes of the question are lost.
LEMMA SumsAfterLose ==
    ASSUME PathInv, PathInv', SumsInv, NEW p \in Question, LoseCounters(p), OnlyCountersMove
    PROVE  SumsInv'
<1>1. /\ counters' = [c \in CounterKey |-> IF c[1] = p THEN EmptyHash ELSE counters[c]]
      /\ forgotten' = forgotten \cup CountedFor(p)
      /\ call' = call /\ cast' = cast
    BY DEF LoseCounters, OnlyCountersMove, serviceVars
<1> SUFFICES ASSUME NEW q \in Question, NEW option \in OptionKey
             PROVE  (SumOf(InShards(q, option))
                        = Cardinality(VotesFor(option, InCounters(q))))'
    BY DEF SumsInv
<1>2. \A i \in 1 .. COUNTER_SHARDS : <<q, i - 1>> \in CounterKey
    BY FieldType DEF CounterKey
<1>3. CASE q # p
    <2>1. VotesFor(option, InCounters(q))' = VotesFor(option, InCounters(q))
        BY <1>1, <1>3 DEF VotesFor, InCounters, CountedFor, QuestionOf
    <2>2. \A i \in 1 .. COUNTER_SHARDS : counters'[<<q, i - 1>>] = counters[<<q, i - 1>>]
        BY <1>1, <1>2, <1>3
    <2>3. InShards(q, option)' = InShards(q, option)
        BY <2>2 DEF InShards, Field
    <2> QED
        BY <2>1, <2>3 DEF SumsInv
<1>4. CASE q = p
    <2>1. VotesFor(option, InCounters(q))' = {}
        BY <1>1, <1>4 DEF VotesFor, InCounters, CountedFor, QuestionOf
    <2>2. \A i \in 1 .. COUNTER_SHARDS : Field(<<q, i - 1>>, option)' = 0
        <3>1. \A i \in 1 .. COUNTER_SHARDS : counters'[<<q, i - 1>>] = EmptyHash
            BY <1>1, <1>2, <1>4
        <3> QED
            BY <3>1 DEF Field, CountOf, EmptyHash
    <2>3. SumOf(InShards(q, option)') = 0
        BY <2>2, FieldTypeNext, SumOfZeros
    <2>4. Cardinality(VotesFor(option, InCounters(q))') = 0
        BY <2>1, FS_EmptySet
    <2> QED
        BY <2>3, <2>4
<1> QED
    BY <1>3, <1>4

LEMMA SumsStart ==
    ASSUME Init, PathInv
    PROVE  SumsInv
<1> SUFFICES ASSUME NEW q \in Question, NEW option \in OptionKey
             PROVE  SumOf(InShards(q, option)) = Cardinality(VotesFor(option, InCounters(q)))
    BY DEF SumsInv
<1>1. VotesFor(option, InCounters(q)) = {}
    BY DEF Init, PathInit, ServiceInit, VotesFor, InCounters, CountedFor
<1>2. \A i \in 1 .. COUNTER_SHARDS : <<q, i - 1>> \in CounterKey
    BY FieldType DEF CounterKey
<1>3. \A i \in 1 .. COUNTER_SHARDS : Field(<<q, i - 1>>, option) = 0
    BY <1>2 DEF Init, PathInit, Field, CountOf, EmptyHash
<1>4. /\ \A i \in 1 .. COUNTER_SHARDS : InShards(q, option)[i] = 0
      /\ InShards(q, option) \in Counts(COUNTER_SHARDS)
    BY <1>3, FieldType DEF InShards
<1>5. SumOf(InShards(q, option)) = 0
    BY <1>4, SumOfZeros
<1> QED
    BY <1>1, <1>5, FS_EmptySet

\* Votes, rebuilds and losses all keep the sums in step with the votes.
LEMMA SumsStay ==
    ASSUME PathInv, PathInv', ReaderInv, SumsInv, [Next]_vars
    PROVE  SumsInv'
<1>1. CASE [PathNext]_pathVars /\ UNCHANGED <<resultVars, losses>>
    <2>1. CASE \E r \in Request : EvalFirst(r)
        BY <1>1, <2>1, SumsAfterVote
    <2>2. CASE cast' = cast /\ dedup' = dedup /\ counters' = counters
        BY <1>1, <2>2, EventsStay, SumsKept DEF PathInv, resultVars
    <2> QED
        BY <1>1, <2>1, <2>2, OnlyEvalFirstCounts
<1>2. ASSUME NEW b \in Reader, CalmStep(b), OnlyCountersMove, counters' = counters
      PROVE  SumsInv'
    <2>1. forgotten' = forgotten
        BY <1>2 DEF CalmStep, StartResult, ResultRow, ResultOptions, ReadShard, CountRows,
           DeleteSnapshot, InsertSnapshot, ResultStoreFails
    <2> QED
        BY <1>2, <2>1, SumsKept DEF OnlyCountersMove, serviceVars
<1> QED
    BY <1>1, <1>2, StepKinds, SumsAfterReplace, SumsAfterLose

\* The counters of a question hold its counted votes, but for those that a
\* rebuild missed or Redis lost: whatever shard is read, lost or of a type
\* nobody can count in, the sum of what the shards say is exact.
THEOREM SumsInvariant == Spec => [](PathInv /\ ReaderInv /\ SumsInv)
<1>1. Init /\ PathInv => SumsInv
    BY SumsStart
<1>2. PathInv /\ PathInv' /\ ReaderInv /\ SumsInv /\ [Next]_vars => SumsInv'
    BY SumsStay
<1> QED
    BY <1>1, <1>2, ReaderInvariant, PTL DEF Spec

\* Votes and rebuilds in any order: after them the sums are the counted votes
\* that no rebuild overlooked and no loss took.
THEOREM CountersAreExact == Spec => []CountersExact
<1>1. PathInv /\ SumsInv => CountersExact
    <2> SUFFICES ASSUME PathInv, SumsInv, NEW q \in Question, NEW option \in OptionKey,
                        \A s \in Shard : counters[<<q, s>>] # NotAHash
                 PROVE  SumInCounters(q, option)
                            = Cardinality(VotesFor(option, CountedFor(q) \ forgotten))
        BY DEF CountersExact
    <2>1. \A i \in 1 .. COUNTER_SHARDS : i - 1 \in Shard
        BY FieldType
    <2>2. InShards(q, option)
            = [i \in 1 .. COUNTER_SHARDS |-> CountOf(counters[<<q, i - 1>>], option)]
        BY <2>1 DEF InShards, Field
    <2> QED
        BY <2>2 DEF SumsInv, SumInCounters, InCounters
<1> QED
    BY <1>1, SumsInvariant, PTL

-----------------------------------------------------------------------------
\* What a reader will show, shard by shard

\* A reader that has these hashes shows what they say and, of the shards it has
\* not read, what they say when it gets there.
Pieced(read, unread, option) ==
    [i \in 1 .. COUNTER_SHARDS |->
        IF i <= Len(read) THEN CountOf(read[i], option) ELSE unread[i]]

LEMMA PiecedType ==
    ASSUME NEW read \in Seq(Hash), NEW unread \in Counts(COUNTER_SHARDS), NEW option
    PROVE  /\ Pieced(read, unread, option) \in Counts(COUNTER_SHARDS)
           /\ SumOf(Pieced(read, unread, option)) \in Nat
<1>1. Len(read) \in Nat /\ COUNTER_SHARDS \in Nat
    BY ShardsAssumption
<1>2. \A i \in 1 .. COUNTER_SHARDS : i <= Len(read) => CountOf(read[i], option) \in Nat
    BY <1>1, CountOfType
<1>3. Pieced(read, unread, option) \in Counts(COUNTER_SHARDS)
    BY <1>2 DEF Pieced, Counts
<1> QED
    BY <1>1, <1>3, SumType

\* Before the first shard, after the next one, and after the last one.
LEMMA PiecedTogether ==
    ASSUME NEW read \in Seq(Hash), NEW unread \in Counts(COUNTER_SHARDS), NEW option
    PROVE  /\ Pieced(<<>>, unread, option) = unread
           /\ \A found \in Hash :
                /\ Len(read) < COUNTER_SHARDS
                /\ unread[Len(read) + 1] = CountOf(found, option)
                => Pieced(Append(read, found), unread, option) = Pieced(read, unread, option)
           /\ Len(read) = COUNTER_SHARDS =>
                Pieced(read, unread, option)
                    = [i \in 1 .. Len(read) |-> CountOf(read[i], option)]
<1>1. Len(read) \in Nat /\ COUNTER_SHARDS \in Nat
    BY ShardsAssumption
<1>2. Pieced(<<>>, unread, option) = unread
    <2>1. \A i \in 1 .. COUNTER_SHARDS : ~(i <= Len(<<>>))
        OBVIOUS
    <2> QED
        BY <2>1 DEF Pieced, Counts
<1>3. ASSUME NEW found \in Hash, Len(read) < COUNTER_SHARDS,
             unread[Len(read) + 1] = CountOf(found, option)
      PROVE  Pieced(Append(read, found), unread, option) = Pieced(read, unread, option)
    <2> DEFINE more == Append(read, found)
    <2>1. /\ Len(more) = Len(read) + 1 /\ more[Len(read) + 1] = found
          /\ \A i \in 1 .. Len(read) : more[i] = read[i]
        OBVIOUS
    <2> HIDE DEF more
    <2>2. ASSUME NEW i \in 1 .. COUNTER_SHARDS
          PROVE  (IF i <= Len(more) THEN CountOf(more[i], option) ELSE unread[i])
                    = (IF i <= Len(read) THEN CountOf(read[i], option) ELSE unread[i])
        <3>1. CASE i <= Len(read)
            <4>1. i \in 1 .. Len(read)
                BY <1>1, <3>1
            <4> QED
                BY <1>1, <2>1, <3>1, <4>1
        <3>2. CASE i = Len(read) + 1
            BY <1>1, <1>3, <2>1, <3>2
        <3>3. CASE i > Len(read) + 1
            BY <1>1, <2>1, <3>3
        <3> QED
            BY <1>1, <3>1, <3>2, <3>3
    <2>3. Pieced(more, unread, option) = Pieced(read, unread, option)
        BY <2>2 DEF Pieced
    <2> QED
        BY <2>3 DEF more
<1>4. Len(read) = COUNTER_SHARDS =>
        Pieced(read, unread, option) = [i \in 1 .. Len(read) |-> CountOf(read[i], option)]
    BY <1>1 DEF Pieced
<1> QED
    BY <1>2, <1>3, <1>4

\* Less in the shards not read yet is no more in the sum.
LEMMA PiecedMonotone ==
    ASSUME NEW read \in Seq(Hash), NEW fewer \in Counts(COUNTER_SHARDS),
           NEW unread \in Counts(COUNTER_SHARDS), NEW option,
           \A i \in 1 .. COUNTER_SHARDS : i > Len(read) => fewer[i] <= unread[i]
    PROVE  SumOf(Pieced(read, fewer, option)) <= SumOf(Pieced(read, unread, option))
<1>1. Len(read) \in Nat /\ COUNTER_SHARDS \in Nat
    BY ShardsAssumption
<1>2. /\ Pieced(read, fewer, option) \in Counts(COUNTER_SHARDS)
      /\ Pieced(read, unread, option) \in Counts(COUNTER_SHARDS)
    BY PiecedType
<1>3. ASSUME NEW i \in 1 .. COUNTER_SHARDS
      PROVE  Pieced(read, fewer, option)[i] <= Pieced(read, unread, option)[i]
    <2>1. CASE i <= Len(read)
        <3>1. Pieced(read, fewer, option)[i] = Pieced(read, unread, option)[i]
            BY <2>1 DEF Pieced
        <3> QED
            BY <1>2, <3>1 DEF Counts
    <2>2. CASE i > Len(read)
        BY <1>1, <2>2 DEF Pieced
    <2> QED
        BY <1>1, <2>1, <2>2
<1> QED
    BY <1>1, <1>2, <1>3, SumMonotone

\* One more in one shard is at most one more in the sum, and no less.
LEMMA PiecedOneMore ==
    ASSUME NEW read \in Seq(Hash), NEW unread \in Counts(COUNTER_SHARDS),
           NEW more \in Counts(COUNTER_SHARDS), NEW option, NEW j \in 1 .. COUNTER_SHARDS,
           more[j] = unread[j] + 1, \A i \in (1 .. COUNTER_SHARDS) \ {j} : more[i] = unread[i]
    PROVE  /\ SumOf(Pieced(read, unread, option)) <= SumOf(Pieced(read, more, option))
           /\ SumOf(Pieced(read, more, option)) <= SumOf(Pieced(read, unread, option)) + 1
<1> DEFINE before == Pieced(read, unread, option)
           after == Pieced(read, more, option)
<1>1. Len(read) \in Nat /\ COUNTER_SHARDS \in Nat
    BY ShardsAssumption
<1>2. /\ before \in Counts(COUNTER_SHARDS) /\ after \in Counts(COUNTER_SHARDS)
      /\ SumOf(before) \in Nat /\ SumOf(after) \in Nat
    BY PiecedType
<1>3. /\ \A i \in 1 .. COUNTER_SHARDS :
            before[i] = IF i <= Len(read) THEN CountOf(read[i], option) ELSE unread[i]
      /\ \A i \in 1 .. COUNTER_SHARDS :
            after[i] = IF i <= Len(read) THEN CountOf(read[i], option) ELSE more[i]
    BY DEF Pieced
<1> HIDE DEF before, after
<1>4. \A i \in (1 .. COUNTER_SHARDS) \ {j} : after[i] = before[i]
    BY <1>3
<1>5. CASE j <= Len(read)
    <2>1. after[j] = before[j]
        BY <1>3, <1>5
    <2>2. \A i \in 1 .. COUNTER_SHARDS : after[i] <= before[i] /\ before[i] <= after[i]
        BY <1>2, <1>4, <2>1 DEF Counts
    <2>3. SumOf(after) <= SumOf(before) /\ SumOf(before) <= SumOf(after)
        BY <1>1, <1>2, <2>2, SumMonotone
    <2> QED
        BY <1>2, <2>3 DEF before, after
<1>6. CASE ~(j <= Len(read))
    <2>1. after[j] = before[j] + 1
        BY <1>3, <1>6
    <2>2. SumOf(after) = SumOf(before) + 1
        BY <1>1, <1>2, <1>4, <2>1, SumOneMore
    <2> QED
        BY <1>2, <2>2 DEF before, after
<1> QED
    BY <1>5, <1>6

Shown(b, option) == Pieced(hashes[b], InShards(about[b], option), option)

\* A reader under way will show every vote it must show, and no other vote
\* than a counted one; an answer does.
SeenOK(b) ==
    at[b] = "shards" => \A option \in OptionKey :
        /\ Cardinality(VotesFor(option, sure[b])) <= SumOf(Shown(b, option))
        /\ SumOf(Shown(b, option)) <= Cardinality(VotesFor(option, CountedFor(about[b])))

AnsweredOK(b) ==
    outcome[b] = "ok" =>
        /\ at[b] = "done"
        /\ \A option \in DOMAIN figures[b] :
            /\ figures[b][option] <= Cardinality(VotesFor(option, CountedFor(about[b])))
            /\ figures[b][option] >= Cardinality(VotesFor(option, sure[b]))

BoundsInv == \A b \in Reader : SeenOK(b) /\ AnsweredOK(b)

\* Counted votes stay counted; what a reader must show may become less.
LEMMA BoundsWiden ==
    ASSUME PathInv, PathInv', ReaderInv, NEW c \in Reader, sure'[c] \subseteq sure[c],
           cast \subseteq cast', \A r \in cast : call'[r] = call[r], NEW option, NEW q
    PROVE  /\ Cardinality(VotesFor(option, sure[c])) \in Nat
           /\ Cardinality(VotesFor(option, sure[c])') \in Nat
           /\ Cardinality(VotesFor(option, sure[c])') <= Cardinality(VotesFor(option, sure[c]))
           /\ Cardinality(VotesFor(option, CountedFor(q))) \in Nat
           /\ Cardinality(VotesFor(option, CountedFor(q))') \in Nat
           /\ Cardinality(VotesFor(option, CountedFor(q)))
                <= Cardinality(VotesFor(option, CountedFor(q))')
<1>1. sure[c] \subseteq cast
    BY DEF ReaderInv, ReaderOK, CountedFor
<1>2. /\ IsFiniteSet(VotesFor(option, sure[c]))
      /\ Cardinality(VotesFor(option, sure[c])) \in Nat
    BY <1>1, VotesForType
<1>3. VotesFor(option, sure[c])' \subseteq VotesFor(option, sure[c])
    BY <1>1 DEF VotesFor
<1>4. /\ Cardinality(VotesFor(option, sure[c])') \in Nat
      /\ Cardinality(VotesFor(option, sure[c])') <= Cardinality(VotesFor(option, sure[c]))
    BY <1>2, <1>3, FS_Subset, FS_CardinalityType
<1>5. VotesFor(option, CountedFor(q))' \subseteq cast' /\ IsFiniteSet(cast')
    BY DEF VotesFor, CountedFor, PathInv
<1>6. IsFiniteSet(VotesFor(option, CountedFor(q))')
    BY <1>5, FS_Subset
<1>7. VotesFor(option, CountedFor(q)) \subseteq VotesFor(option, CountedFor(q))'
    BY DEF VotesFor, CountedFor, QuestionOf
<1>8. /\ IsFiniteSet(VotesFor(option, CountedFor(q)))
      /\ Cardinality(VotesFor(option, CountedFor(q)))
            <= Cardinality(VotesFor(option, CountedFor(q))')
    BY <1>6, <1>7, FS_Subset
<1> QED
    BY <1>2, <1>4, <1>6, <1>8, FS_CardinalityType

\* What stays in the variables of a handler, and one that has nothing to show.
Unmoved(c) ==
    /\ at'[c] = at[c] /\ hashes'[c] = hashes[c]
    /\ figures'[c] = figures[c] /\ outcome'[c] = outcome[c]

Silent(c) == at'[c] # "shards" /\ outcome'[c] # "ok"

LEMMA SilentHolds ==
    ASSUME NEW c \in Reader, Silent(c)
    PROVE  SeenOK(c)' /\ AnsweredOK(c)'
    BY DEF Silent, SeenOK, AnsweredOK

\* An answer that was right stays right.
LEMMA AnswerHolds ==
    ASSUME PathInv, PathInv', ReaderInv, NEW c \in Reader, AnsweredOK(c), Unmoved(c),
           about' = about, sure'[c] \subseteq sure[c],
           cast \subseteq cast', \A r \in cast : call'[r] = call[r]
    PROVE  AnsweredOK(c)'
<1>1. PICK q : q = about[c] /\ q = about'[c]
    OBVIOUS
<1> SUFFICES ASSUME outcome[c] = "ok", NEW option \in DOMAIN figures[c]
             PROVE  /\ figures[c][option] <= Cardinality(VotesFor(option, CountedFor(q))')
                    /\ figures[c][option] >= Cardinality(VotesFor(option, sure[c])')
    BY <1>1 DEF AnsweredOK, Unmoved
<1>2. figures[c][option] \in Nat
    BY DEF ReaderInv, FiguresTyped, IsTally
<1>3. /\ figures[c][option] <= Cardinality(VotesFor(option, CountedFor(q)))
      /\ figures[c][option] >= Cardinality(VotesFor(option, sure[c]))
    BY <1>1 DEF AnsweredOK
<1> QED
    BY <1>2, <1>3, BoundsWiden

\* While the shards of its question stay, a reader keeps its bounds.
LEMMA SeenHolds ==
    ASSUME PathInv, PathInv', ReaderInv, NEW c \in Reader, SeenOK(c), Unmoved(c),
           about' = about, sure'[c] \subseteq sure[c],
           cast \subseteq cast', \A r \in cast : call'[r] = call[r],
           \A q \in Question, option \in OptionKey :
                q = about[c] => InShards(q, option)' = InShards(q, option)
    PROVE  SeenOK(c)'
<1>1. PICK q \in Question : q = about[c] /\ q = about'[c]
    BY DEF ReaderInv, LocalsTyped
<1> SUFFICES ASSUME at[c] = "shards", NEW option \in OptionKey
             PROVE  LET shown == Pieced(hashes'[c], InShards(q, option)', option)
                    IN  /\ Cardinality(VotesFor(option, sure[c])') <= SumOf(shown)
                        /\ SumOf(shown) <= Cardinality(VotesFor(option, CountedFor(q))')
    BY <1>1 DEF SeenOK, Unmoved, Shown
<1> DEFINE shown == Pieced(hashes[c], InShards(q, option), option)
<1>2. Pieced(hashes'[c], InShards(q, option)', option) = shown
    BY <1>1 DEF Unmoved
<1>3. /\ Cardinality(VotesFor(option, sure[c])) <= SumOf(shown)
      /\ SumOf(shown) <= Cardinality(VotesFor(option, CountedFor(q)))
    BY <1>1 DEF SeenOK, Shown
<1>4. SumOf(shown) \in Nat
    BY FieldType, PiecedType DEF ReaderInv, LocalsTyped
<1> HIDE DEF shown
<1> QED
    BY <1>2, <1>3, <1>4, BoundsWiden

\* A vote may or may not be seen by a reader whose answer it comes too late to
\* be promised in.
LEMMA SeenAfterVote ==
    ASSUME PathInv, PathInv', ReaderInv, NEW r \in Request, EvalFirst(r),
           UNCHANGED <<resultVars, losses>>, NEW c \in Reader, SeenOK(c)
    PROVE  SeenOK(c)'
<1>1. PICK q \in Question : q = about[c] /\ q = about'[c]
    BY DEF ReaderInv, LocalsTyped, resultVars
<1>2. at'[c] = at[c] /\ hashes'[c] = hashes[c] /\ sure'[c] = sure[c]
    BY DEF resultVars
<1> SUFFICES ASSUME at[c] = "shards", NEW option \in OptionKey
             PROVE  LET shown == Pieced(hashes[c], InShards(q, option)', option)
                    IN  /\ Cardinality(VotesFor(option, sure[c])') <= SumOf(shown)
                        /\ SumOf(shown) <= Cardinality(VotesFor(option, CountedFor(q))')
    BY <1>1, <1>2 DEF SeenOK, Shown
<1>3. PICK p \in Question, s \in Shard :
        /\ p = QuestionOf(r)
        /\ call' = call /\ r \notin cast /\ cast' = cast \cup {r}
        /\ \A w \in Question, t \in Shard, o \in OptionKey :
              Field(<<w, t>>, o)' =
                  IF w = p /\ t = s /\ o = call[r].option
                  THEN Field(<<w, t>>, o) + 1 ELSE Field(<<w, t>>, o)
    BY VoteAdds
<1> DEFINE unread == InShards(q, option)
           more == InShards(q, option)'
           before == Pieced(hashes[c], unread, option)
           after == Pieced(hashes[c], more, option)
<1>4. /\ hashes[c] \in Seq(Hash) /\ unread \in Counts(COUNTER_SHARDS)
      /\ \A i \in 1 .. COUNTER_SHARDS : i - 1 \in Shard
      /\ COUNTER_SHARDS \in Nat
    BY FieldType, ShardsAssumption DEF ReaderInv, LocalsTyped
<1>5. /\ more \in Counts(COUNTER_SHARDS)
      /\ \A i \in 1 .. COUNTER_SHARDS : more[i] = Field(<<q, i - 1>>, option)'
    BY FieldTypeNext
<1>6. \A i \in 1 .. COUNTER_SHARDS : unread[i] = Field(<<q, i - 1>>, option)
    BY DEF InShards
<1> HIDE DEF unread, more
<1>7. SumOf(before) \in Nat /\ SumOf(after) \in Nat
    BY <1>4, <1>5, PiecedType
<1>8. /\ Cardinality(VotesFor(option, sure[c])) <= SumOf(before)
      /\ SumOf(before) <= Cardinality(VotesFor(option, CountedFor(q)))
    BY <1>1 DEF SeenOK, Shown, unread
<1>9. /\ Cardinality(VotesFor(option, sure[c])) \in Nat
      /\ Cardinality(VotesFor(option, sure[c])') \in Nat
      /\ Cardinality(VotesFor(option, sure[c])') <= Cardinality(VotesFor(option, sure[c]))
      /\ Cardinality(VotesFor(option, CountedFor(q))) \in Nat
      /\ Cardinality(VotesFor(option, CountedFor(q))') \in Nat
      /\ Cardinality(VotesFor(option, CountedFor(q)))
            <= Cardinality(VotesFor(option, CountedFor(q))')
    BY <1>2, <1>3, BoundsWiden
<1>10. CASE p = q /\ option = call[r].option
    <2>1. s + 1 \in 1 .. COUNTER_SHARDS /\ (s + 1) - 1 = s
        BY <1>4 DEF Shard
    <2>2. more[s + 1] = unread[s + 1] + 1
        BY <1>3, <1>5, <1>6, <1>10, <2>1
    <2>3. ASSUME NEW i \in (1 .. COUNTER_SHARDS) \ {s + 1}
          PROVE  more[i] = unread[i]
        <3>1. i - 1 \in Shard /\ i - 1 # s
            BY <1>4 DEF Shard
        <3> QED
            BY <1>3, <1>5, <1>6, <3>1
    <2>4. SumOf(before) <= SumOf(after) /\ SumOf(after) <= SumOf(before) + 1
        BY <1>4, <1>5, <2>1, <2>2, <2>3, PiecedOneMore
    <2>5. /\ VotesFor(option, CountedFor(q))' = VotesFor(option, CountedFor(q)) \cup {r}
          /\ r \notin VotesFor(option, CountedFor(q))
        BY <1>3, <1>10 DEF VotesFor, CountedFor, QuestionOf
    <2>6. IsFiniteSet(VotesFor(option, CountedFor(q)))
        BY VotesForType DEF CountedFor
    <2>7. Cardinality(VotesFor(option, CountedFor(q))')
            = Cardinality(VotesFor(option, CountedFor(q))) + 1
        BY <2>5, <2>6, FS_AddElement
    <2> HIDE DEF before, after
    <2> QED
        BY <1>7, <1>8, <1>9, <2>4, <2>7 DEF after, more
<1>11. CASE ~(p = q /\ option = call[r].option)
    <2>1. ASSUME NEW i \in 1 .. COUNTER_SHARDS
          PROVE  more[i] = unread[i]
        <3>1. i - 1 \in Shard
            BY <1>4
        <3>2. Field(<<q, i - 1>>, option)' = Field(<<q, i - 1>>, option)
            BY <1>3, <1>11, <3>1
        <3> QED
            BY <1>5, <1>6, <3>2
    <2>2. \A i \in 1 .. COUNTER_SHARDS : more[i] <= unread[i] /\ unread[i] <= more[i]
        BY <1>4, <1>5, <2>1 DEF Counts
    <2>3. SumOf(before) <= SumOf(after) /\ SumOf(after) <= SumOf(before)
        BY <1>4, <1>5, <2>2, PiecedMonotone
    <2> HIDE DEF before, after
    <2> QED
        BY <1>7, <1>8, <1>9, <2>3 DEF after, more
<1> QED
    BY <1>10, <1>11

\* Nothing read yet: a reader will show what is in the counters now.
LEMMA SeenAtStart ==
    ASSUME PathInv', SumsInv', NEW c \in Reader, NEW q \in Question, about'[c] = q,
           hashes'[c] = <<>>, sure'[c] \subseteq InCounters(q)'
    PROVE  SeenOK(c)'
<1> SUFFICES ASSUME NEW option \in OptionKey
             PROVE  LET shown == Pieced(<<>>, InShards(q, option)', option)
                    IN  /\ Cardinality(VotesFor(option, sure[c])') <= SumOf(shown)
                        /\ SumOf(shown) <= Cardinality(VotesFor(option, CountedFor(q))')
    BY DEF SeenOK, Shown
<1>1. Pieced(<<>>, InShards(q, option)', option) = InShards(q, option)'
    <2>1. <<>> \in Seq(Hash)
        OBVIOUS
    <2> QED
        BY <2>1, FieldTypeNext, PiecedTogether
<1>2. SumOf(InShards(q, option)') = Cardinality(VotesFor(option, InCounters(q))')
    BY DEF SumsInv
<1>3. VotesFor(option, CountedFor(q))' \subseteq cast' /\ IsFiniteSet(cast')
    BY DEF VotesFor, CountedFor, PathInv
<1>4. IsFiniteSet(VotesFor(option, CountedFor(q))')
    BY <1>3, FS_Subset
<1>5. /\ VotesFor(option, sure[c])' \subseteq VotesFor(option, InCounters(q))'
      /\ VotesFor(option, InCounters(q))' \subseteq VotesFor(option, CountedFor(q))'
    BY DEF VotesFor, InCounters
<1>6. /\ IsFiniteSet(VotesFor(option, InCounters(q))')
      /\ Cardinality(VotesFor(option, InCounters(q))')
            <= Cardinality(VotesFor(option, CountedFor(q))')
    BY <1>4, <1>5, FS_Subset
<1>7. Cardinality(VotesFor(option, sure[c])') <= Cardinality(VotesFor(option, InCounters(q))')
    BY <1>5, <1>6, FS_Subset
<1> QED
    BY <1>1, <1>2, <1>6, <1>7

\* Shards that are emptied while a reader is under way: it shows less, and no
\* vote is promised to it any more.
LEMMA SeenAfterClearing ==
    ASSUME PathInv, PathInv', ReaderInv, NEW c \in Reader, SeenOK(c), Unmoved(c),
           about' = about, sure'[c] = {}, OnlyCountersMove,
           \A q \in Question, option \in OptionKey, i \in 1 .. COUNTER_SHARDS :
                q = about[c] /\ i > Len(hashes[c]) => Field(<<q, i - 1>>, option)' = 0
    PROVE  SeenOK(c)'
<1>1. PICK q \in Question : q = about[c] /\ q = about'[c]
    BY DEF ReaderInv, LocalsTyped
<1> SUFFICES ASSUME at[c] = "shards", NEW option \in OptionKey
             PROVE  LET shown == Pieced(hashes[c], InShards(q, option)', option)
                    IN  /\ Cardinality(VotesFor(option, sure[c])') <= SumOf(shown)
                        /\ SumOf(shown) <= Cardinality(VotesFor(option, CountedFor(q))')
    BY <1>1 DEF SeenOK, Unmoved, Shown
<1> DEFINE unread == InShards(q, option)
           less == InShards(q, option)'
<1>2. hashes[c] \in Seq(Hash) /\ unread \in Counts(COUNTER_SHARDS)
    BY FieldType DEF ReaderInv, LocalsTyped
<1>3. /\ less \in Counts(COUNTER_SHARDS)
      /\ \A i \in 1 .. COUNTER_SHARDS : i > Len(hashes[c]) => less[i] = 0
    BY <1>1, FieldTypeNext
<1>4. SumOf(Pieced(hashes[c], unread, option)) <= Cardinality(VotesFor(option, CountedFor(q)))
    BY <1>1 DEF SeenOK, Shown
<1> HIDE DEF unread, less
<1>5. \A i \in 1 .. COUNTER_SHARDS : i > Len(hashes[c]) => less[i] <= unread[i]
    BY <1>2, <1>3 DEF Counts
<1>6. SumOf(Pieced(hashes[c], less, option)) <= SumOf(Pieced(hashes[c], unread, option))
    BY <1>2, <1>3, <1>5, PiecedMonotone
<1>7. /\ SumOf(Pieced(hashes[c], less, option)) \in Nat
      /\ SumOf(Pieced(hashes[c], unread, option)) \in Nat
    BY <1>2, <1>3, PiecedType
<1>8. VotesFor(option, sure[c])' = {}
    BY DEF VotesFor
<1>9. Cardinality(VotesFor(option, sure[c])') = 0
    BY <1>8, FS_EmptySet
<1>10. VotesFor(option, CountedFor(q))' = VotesFor(option, CountedFor(q))
    BY DEF VotesFor, CountedFor, QuestionOf, OnlyCountersMove, serviceVars
<1>11. Cardinality(VotesFor(option, CountedFor(q))) \in Nat
    BY VotesForType DEF CountedFor
<1> QED
    BY <1>4, <1>6, <1>7, <1>9, <1>10, <1>11 DEF less

-----------------------------------------------------------------------------
\* Bounds, step by step

\* The other handlers stay, or fail without having had anything to show.
LEMMA OthersUnmoved ==
    ASSUME LocalsTyped, FiguresTyped, NEW b \in Reader, CalmStep(b) \/ ReplaceCounters(b),
           NEW c \in Reader \ {b}
    PROVE  about' = about /\ (Unmoved(c) \/ Silent(c))
<1> USE DEF LocalsTyped, FiguresTyped, Unmoved, Silent
<1>1. ASSUME NEW error, Fail(b, error)
      PROVE  about' = about /\ Unmoved(c)
    BY <1>1 DEF Fail, ForgetLocals
<1>2. ASSUME NEW counts, Respond(b, counts)
      PROVE  about' = about /\ Unmoved(c)
    BY <1>2 DEF Respond, ForgetLocals
<1>3. ASSUME NEW next, Proceed(b, next), hashes' = hashes \/ ForgetLocals({b})
      PROVE  about' = about /\ Unmoved(c)
    BY <1>3 DEF Proceed, requestVars, ForgetLocals
<1>4. CASE StartResult(b) \/ ResultRow(b) \/ ResultOptions(b) \/ CountRows(b)
           \/ DeleteSnapshot(b) \/ ResultStoreFails(b)
    BY <1>1, <1>3, <1>4 DEF StartResult, ResultRow, ResultOptions, CountRows, DeleteSnapshot,
       ResultStoreFails
<1>5. CASE ReadShard(b)
    <2>1. ASSUME NEW read, hashes' = [hashes EXCEPT ![b] = read],
                 UNCHANGED <<at, requestVars, mode, view, badge, rows>>
          PROVE  about' = about /\ Unmoved(c)
        BY <2>1 DEF requestVars
    <2> QED
        BY <1>1, <1>2, <1>3, <1>5, <2>1 DEF ReadShard
<1>6. CASE InsertSnapshot(b)
    BY <1>6, SilentHolds DEF InsertSnapshot, ForgetLocals
<1>7. CASE ReplaceCounters(b)
    <2>1. CASE UNCHANGED <<at, requestVars, mode, view, badge, hashes, rows>>
        BY <2>1 DEF requestVars
    <2> QED
        BY <1>1, <1>2, <1>7, <2>1 DEF ReplaceCounters
<1> QED
    BY <1>4, <1>5, <1>6, <1>7 DEF CalmStep

\* What these steps leave of what must be shown.
LEMMA SureStays ==
    ASSUME ReaderInv, NEW b \in Reader, CalmStep(b), NEW c \in Reader \ {b}
    PROVE  sure'[c] = sure[c]
    BY DEF ReaderInv, LocalsTyped, CalmStep, StartResult, ResultRow, ResultOptions, ReadShard,
       CountRows, DeleteSnapshot, InsertSnapshot, ResultStoreFails

\* A handler that neither reads shards nor answers after its step.
LEMMA QuietSteps ==
    ASSUME ReaderInv, NEW b \in Reader, AnsweredOK(b),
           \/ StartResult(b) \/ ResultRow(b) \/ CountRows(b) \/ DeleteSnapshot(b)
           \/ InsertSnapshot(b) \/ ResultStoreFails(b)
           \/ ResultOptions(b) /\ mode[b] = "rebuild"
    PROVE  Silent(b)
<1> USE DEF ReaderInv, LocalsTyped, Silent, AnsweredOK
<1>1. ASSUME NEW error, error # "ok", Fail(b, error)
      PROVE  Silent(b)
    BY <1>1 DEF Fail
<1>2. ASSUME NEW next, next # "shards", Proceed(b, next), at[b] # "done"
      PROVE  Silent(b)
    BY <1>2 DEF Proceed, requestVars
<1>3. CASE InsertSnapshot(b)
    BY <1>3 DEF InsertSnapshot
<1> QED
    BY <1>1, <1>2, <1>3 DEF StartResult, ResultRow, CountRows, DeleteSnapshot, ResultStoreFails,
       ResultOptions

\* Its card read, a reader begins with what the counters hold.
LEMMA OptionsBounds ==
    ASSUME PathInv', SumsInv', ReaderInv, NEW b \in Reader, AnsweredOK(b), ResultOptions(b),
           mode[b] # "rebuild", OnlyCountersMove
    PROVE  SeenOK(b)' /\ AnsweredOK(b)'
<1>1. PICK q \in Question : q = about[b]
    BY DEF ReaderInv, LocalsTyped
<1>2. /\ about'[b] = q /\ hashes'[b] = <<>> /\ outcome'[b] # "ok"
      /\ sure'[b] = CountedFor(q) \ forgotten /\ forgotten' = forgotten
    BY <1>1 DEF ResultOptions, Proceed, requestVars, AnsweredOK, ReaderInv, LocalsTyped, ReaderOK
<1>3. sure'[b] \subseteq InCounters(q)'
    BY <1>2 DEF InCounters, CountedFor, QuestionOf, OnlyCountersMove, serviceVars
<1> QED
    BY <1>2, <1>3, SeenAtStart DEF AnsweredOK

\* A shard is read as it was counted on, and the answer is what was counted on.
LEMMA ReadShardBounds ==
    ASSUME PathInv, PathInv', ReaderInv, NEW b \in Reader, SeenOK(b), AnsweredOK(b),
           ReadShard(b), OnlyCountersMove, counters' = counters
    PROVE  SeenOK(b)' /\ AnsweredOK(b)'
<1> DEFINE found == counters[NextShardKey(about[b], hashes[b])]
           read == Append(hashes[b], found)
<1>1. PICK q \in Question : q = about[b]
    BY DEF ReaderInv, LocalsTyped
<1>2. /\ at[b] = "shards" /\ outcome[b] # "ok" /\ LocalsTyped /\ FiguresTyped
      /\ sure' = sure /\ cast' = cast /\ call' = call
    BY DEF ReadShard, AnsweredOK, ReaderInv, OnlyCountersMove, serviceVars
<1>3. /\ hashes[b] \in Seq(Hash) /\ Len(hashes[b]) \in 0 .. COUNTER_SHARDS - 1
      /\ COUNTER_SHARDS \in Nat
      /\ found # NotAHash => /\ found \in Hash /\ read \in Seq(Hash)
                             /\ Len(read) = Len(hashes[b]) + 1
    BY <1>2, NextShardIs, ShardsAssumption
<1>4. ASSUME found # NotAHash, NEW option \in OptionKey
      PROVE  LET shown == Pieced(read, InShards(q, option), option)
             IN  /\ Cardinality(VotesFor(option, sure[b])) <= SumOf(shown)
                 /\ SumOf(shown) <= Cardinality(VotesFor(option, CountedFor(q)))
                 /\ SumOf(shown) \in Nat
                 /\ InShards(q, option) \in Counts(COUNTER_SHARDS)
    <2> DEFINE unread == InShards(q, option)
    <2>1. unread \in Counts(COUNTER_SHARDS)
        BY FieldType
    <2>2. unread[Len(hashes[b]) + 1] = CountOf(found, option)
        <3>1. /\ Len(hashes[b]) + 1 \in 1 .. COUNTER_SHARDS
              /\ (Len(hashes[b]) + 1) - 1 = Len(hashes[b])
            BY <1>3
        <3>2. unread[Len(hashes[b]) + 1] = Field(<<q, (Len(hashes[b]) + 1) - 1>>, option)
            BY <3>1 DEF InShards
        <3>3. unread[Len(hashes[b]) + 1] = Field(<<q, Len(hashes[b])>>, option)
            BY <3>1, <3>2
        <3> QED
            BY <1>1, <1>4, <3>3 DEF Field, NextShardKey
    <2> HIDE DEF unread, found
    <2>3. Pieced(read, unread, option) = Pieced(hashes[b], unread, option)
        BY <1>3, <1>4, <2>1, <2>2, PiecedTogether
    <2>4. /\ Cardinality(VotesFor(option, sure[b])) <= SumOf(Pieced(hashes[b], unread, option))
          /\ SumOf(Pieced(hashes[b], unread, option))
                <= Cardinality(VotesFor(option, CountedFor(q)))
        BY <1>1, <1>2 DEF SeenOK, Shown, unread
    <2>5. SumOf(Pieced(hashes[b], unread, option)) \in Nat
        BY <1>3, <2>1, PiecedType
    <2> QED
        BY <2>1, <2>3, <2>4, <2>5 DEF unread
<1> HIDE DEF found, read
<1>5. CASE Fail(b, "unavailable")
    BY <1>2, <1>5, SilentHolds DEF Fail, Silent, LocalsTyped
<1>6. CASE /\ found # NotAHash
           /\ ~AllShardsRead(read)
           /\ hashes' = [hashes EXCEPT ![b] = read]
           /\ UNCHANGED <<at, requestVars, mode, view, badge, rows>>
    <2>1. /\ about'[b] = q /\ outcome'[b] # "ok" /\ hashes'[b] = read
        BY <1>1, <1>2, <1>6 DEF requestVars, LocalsTyped
    <2>2. ASSUME NEW option \in OptionKey
          PROVE  /\ Pieced(hashes'[b], InShards(q, option)', option)
                        = Pieced(read, InShards(q, option), option)
                 /\ VotesFor(option, sure[b])' = VotesFor(option, sure[b])
                 /\ VotesFor(option, CountedFor(q))' = VotesFor(option, CountedFor(q))
        BY <1>2, <2>1 DEF InShards, Field, VotesFor, CountedFor, QuestionOf
    <2> QED
        BY <1>4, <1>6, <2>1, <2>2 DEF SeenOK, Shown, AnsweredOK
<1>7. CASE Proceed(b, "row")
    BY <1>2, <1>7, SilentHolds DEF Proceed, requestVars, Silent, LocalsTyped
<1>8. CASE found # NotAHash /\ AllShardsRead(read) /\ Respond(b, AggregateCounterShards(read))
    <2>1. /\ at'[b] = "done" /\ about'[b] = q
          /\ figures'[b] = [option \in KeysOf[view[b].options] |->
                                AggregateCounterShards(read)[option]]
        BY <1>1, <1>2, <1>8 DEF Respond, LocalsTyped, FiguresTyped
    <2>2. KeysOf[view[b].options] \subseteq OptionKey
        BY <1>2, HeldCards, KeysOfAssumption DEF Card
    <2>3. ASSUME NEW option \in OptionKey
          PROVE  AggregateCounterShards(read)[option]
                    = SumOf(Pieced(read, InShards(q, option), option))
        <3>1. Len(read) = COUNTER_SHARDS /\ read \in Seq(Hash)
            BY <1>3, <1>8 DEF AllShardsRead
        <3>2. InShards(q, option) \in Counts(COUNTER_SHARDS)
            BY FieldType
        <3> QED
            BY <3>1, <3>2, AggregateIs, PiecedTogether
    <2>4. ASSUME NEW option \in OptionKey
          PROVE  /\ VotesFor(option, sure[b])' = VotesFor(option, sure[b])
                 /\ VotesFor(option, CountedFor(q))' = VotesFor(option, CountedFor(q))
        BY <1>2 DEF VotesFor, CountedFor, QuestionOf
    <2>5. ASSUME NEW option \in DOMAIN figures'[b]
          PROVE  /\ figures'[b][option] <= Cardinality(VotesFor(option, CountedFor(q))')
                 /\ figures'[b][option] >= Cardinality(VotesFor(option, sure[b])')
        <3>1. option \in OptionKey
            BY <2>1, <2>2
        <3>2. figures'[b][option] = SumOf(Pieced(read, InShards(q, option), option))
            BY <2>1, <2>3, <3>1
        <3>3. /\ Cardinality(VotesFor(option, sure[b]))
                    <= SumOf(Pieced(read, InShards(q, option), option))
              /\ SumOf(Pieced(read, InShards(q, option), option))
                    <= Cardinality(VotesFor(option, CountedFor(q)))
              /\ SumOf(Pieced(read, InShards(q, option), option)) \in Nat
            BY <1>4, <1>8, <3>1
        <3>4. /\ Cardinality(VotesFor(option, sure[b])) \in Nat
              /\ Cardinality(VotesFor(option, CountedFor(q))) \in Nat
            <4>1. sure[b] \subseteq cast
                BY DEF ReaderInv, ReaderOK, CountedFor
            <4> QED
                BY <4>1, VotesForType DEF CountedFor
        <3> QED
            BY <2>4, <3>1, <3>2, <3>3, <3>4
    <2> QED
        BY <2>1, <2>5 DEF SeenOK, AnsweredOK
<1> QED
    BY <1>5, <1>6, <1>7, <1>8 DEF ReadShard, found, read

\* A rebuild answers with rows of counted votes, and promises none.
LEMMA RebuildAnswers ==
    ASSUME PathInv, ReaderInv, NEW b \in Reader, AnsweredOK(b), ReplaceCounters(b),
           OnlyCountersMove
    PROVE  SeenOK(b)' /\ AnsweredOK(b)'
<1> DEFINE counts == JournalCounts(rows[b])
<1>1. PICK q \in Question : q = about[b]
    BY DEF ReaderInv, LocalsTyped
<1>2. /\ at[b] = "replace" /\ sure'[b] = {} /\ cast' = cast /\ call' = call
      /\ \/ Respond(b, counts) \/ Fail(b, "unavailable")
         \/ UNCHANGED <<at, requestVars, mode, view, badge, hashes, rows>>
    BY DEF ReplaceCounters, OnlyCountersMove, serviceVars
<1>3. LocalsTyped /\ FiguresTyped /\ rows[b] \in SUBSET vote /\ \A e \in rows[b] : e.key[1] = q
    BY <1>1 DEF ReaderInv, ReaderOK
<1> HIDE DEF counts
<1>4. CASE Fail(b, "unavailable")
    BY <1>3, <1>4, SilentHolds DEF Fail, Silent, LocalsTyped
<1>5. CASE Respond(b, counts)
    <2>1. /\ at'[b] = "done" /\ about'[b] = q
          /\ figures'[b] = [option \in KeysOf[view[b].options] |-> counts[option]]
        BY <1>1, <1>3, <1>5 DEF Respond, LocalsTyped, FiguresTyped
    <2>2. KeysOf[view[b].options] \subseteq OptionKey
        BY <1>2, HeldCards, KeysOfAssumption DEF Card
    <2>3. ASSUME NEW option \in OptionKey
          PROVE  /\ counts[option] <= Cardinality(VotesFor(option, CountedFor(q))')
                 /\ counts[option] >= Cardinality(VotesFor(option, sure[b])')
        <3> DEFINE votes == {r \in cast : EventOf(r) \in rows[b] /\ call[r].option = option}
        <3>1. counts[option] = Cardinality(votes) /\ counts[option] \in Nat
            BY <1>3, JournalIsVotes DEF counts
        <3>2. VotesFor(option, CountedFor(q))' = VotesFor(option, CountedFor(q))
            BY <1>2 DEF VotesFor, CountedFor, QuestionOf
        <3>3. votes \subseteq VotesFor(option, CountedFor(q))
            BY <1>3 DEF VotesFor, CountedFor, QuestionOf, EventOf
        <3>4. IsFiniteSet(VotesFor(option, CountedFor(q)))
            BY VotesForType DEF CountedFor
        <3>5. Cardinality(votes) <= Cardinality(VotesFor(option, CountedFor(q)))
            BY <3>3, <3>4, FS_Subset
        <3>6. VotesFor(option, sure[b])' = {}
            BY <1>2 DEF VotesFor
        <3>7. Cardinality(VotesFor(option, sure[b])') = 0
            BY <3>6, FS_EmptySet
        <3> HIDE DEF votes
        <3> QED
            BY <3>1, <3>2, <3>5, <3>7
    <2>4. ASSUME NEW option \in DOMAIN figures'[b]
          PROVE  /\ figures'[b][option] <= Cardinality(VotesFor(option, CountedFor(q))')
                 /\ figures'[b][option] >= Cardinality(VotesFor(option, sure[b])')
        BY <2>1, <2>2, <2>3
    <2> QED
        BY <2>1, <2>4 DEF SeenOK, AnsweredOK
<1>6. CASE UNCHANGED <<at, requestVars, mode, view, badge, hashes, rows>>
    <2>1. at'[b] # "shards" /\ outcome'[b] # "ok"
        BY <1>2, <1>6 DEF requestVars, AnsweredOK
    <2> QED
        BY <2>1, SilentHolds DEF Silent
<1> QED
    BY <1>2, <1>4, <1>5, <1>6

\* A reader of the rebuilt question starts anew, or finds the shards emptied
\* that it has not read; one of another question notices nothing.
LEMMA ReplaceBounds ==
    ASSUME PathInv, PathInv', ReaderInv, SumsInv', BoundsInv, NEW b \in Reader,
           ReplaceCounters(b), OnlyCountersMove, NEW c \in Reader \ {b}
    PROVE  SeenOK(c)' /\ AnsweredOK(c)'
<1>1. PICK q \in Question : q = about[c]
    BY DEF ReaderInv, LocalsTyped
<1>2. /\ counters' = ReplacedCounters(about[b], view[b].options, JournalCounts(rows[b]))
      /\ sure'[c] = IF q = about[b] THEN {} ELSE sure[c]
      /\ cast' = cast /\ call' = call
      /\ SeenOK(c) /\ AnsweredOK(c)
    BY <1>1 DEF ReplaceCounters, OnlyCountersMove, serviceVars, BoundsInv
<1>3. about' = about /\ (Unmoved(c) \/ Silent(c)) /\ about'[c] = q
    BY <1>1, OthersUnmoved DEF ReaderInv
<1>4. CASE Silent(c)
    BY <1>4, SilentHolds
<1>5. CASE Unmoved(c)
    <2>1. AnsweredOK(c)'
        BY <1>2, <1>3, <1>5, AnswerHolds
    <2>2. /\ \A i \in 1 .. COUNTER_SHARDS : <<q, i - 1>> \in CounterKey
          /\ COUNTER_SHARDS \in Nat
        BY FieldType, ShardsAssumption DEF CounterKey
    <2>3. CASE q # about[b]
        <3>1. \A i \in 1 .. COUNTER_SHARDS :
                counters'[<<q, i - 1>>] = counters[<<q, i - 1>>]
            BY <1>2, <2>2, <2>3 DEF ReplacedCounters
        <3>2. \A w \in Question, option \in OptionKey :
                w = about[c] => InShards(w, option)' = InShards(w, option)
            BY <1>1, <3>1 DEF InShards, Field
        <3> QED
            BY <1>2, <1>3, <1>5, <2>1, <3>2, SeenHolds
    <2>4. CASE q = about[b] /\ hashes[c] = <<>>
        <3>1. hashes'[c] = <<>> /\ sure'[c] = {}
            BY <1>2, <1>5, <2>4 DEF Unmoved
        <3> QED
            BY <1>3, <2>1, <3>1, SeenAtStart
    <2>5. CASE q = about[b] /\ hashes[c] # <<>>
        <3>1. hashes[c] \in Seq(Hash)
            BY DEF ReaderInv, LocalsTyped
        <3>2. Len(hashes[c]) \in Nat /\ Len(hashes[c]) # 0
            BY <2>5, <3>1
        <3>3. ASSUME NEW option \in OptionKey, NEW i \in 1 .. COUNTER_SHARDS, i > Len(hashes[c])
              PROVE  Field(<<q, i - 1>>, option)' = 0
            <4>1. <<q, i - 1>> \in CounterKey /\ i - 1 # 0
                BY <2>2, <3>2, <3>3
            <4>2. counters'[<<q, i - 1>>] = EmptyHash
                BY <1>2, <2>5, <4>1 DEF ReplacedCounters
            <4> QED
                BY <4>2 DEF Field, CountOf, EmptyHash
        <3>4. SeenOK(c)'
            BY <1>1, <1>2, <1>3, <1>5, <2>5, <3>3, SeenAfterClearing
        <3> QED
            BY <2>1, <3>4
    <2> QED
        BY <2>3, <2>4, <2>5
<1> QED
    BY <1>3, <1>4, <1>5

\* When Redis loses the counters of a question, its readers find the shards
\* emptied that they have not read.
LEMMA LoseBounds ==
    ASSUME PathInv, PathInv', ReaderInv, BoundsInv, NEW p \in Question, LoseCounters(p),
           OnlyCountersMove, NEW c \in Reader
    PROVE  SeenOK(c)' /\ AnsweredOK(c)'
<1>1. PICK q \in Question : q = about[c]
    BY DEF ReaderInv, LocalsTyped
<1>2. /\ counters' = [k \in CounterKey |-> IF k[1] = p THEN EmptyHash ELSE counters[k]]
      /\ sure'[c] = IF q = p THEN {} ELSE sure[c]
      /\ cast' = cast /\ call' = call /\ about' = about /\ Unmoved(c)
      /\ SeenOK(c) /\ AnsweredOK(c)
    BY <1>1 DEF LoseCounters, OnlyCountersMove, serviceVars, BoundsInv, Unmoved
<1>3. AnsweredOK(c)'
    BY <1>2, AnswerHolds
<1>4. \A i \in 1 .. COUNTER_SHARDS : <<q, i - 1>> \in CounterKey
    BY FieldType DEF CounterKey
<1>5. CASE q # p
    <2>1. \A i \in 1 .. COUNTER_SHARDS : counters'[<<q, i - 1>>] = counters[<<q, i - 1>>]
        BY <1>2, <1>4, <1>5
    <2>2. \A w \in Question, option \in OptionKey :
            w = about[c] => InShards(w, option)' = InShards(w, option)
        BY <1>1, <2>1 DEF InShards, Field
    <2> QED
        BY <1>2, <1>3, <2>2, SeenHolds
<1>6. CASE q = p
    <2>1. \A i \in 1 .. COUNTER_SHARDS : counters'[<<q, i - 1>>] = EmptyHash
        BY <1>2, <1>4, <1>6
    <2>2. \A option \in OptionKey, i \in 1 .. COUNTER_SHARDS :
            Field(<<q, i - 1>>, option)' = 0
        BY <2>1 DEF Field, CountOf, EmptyHash
    <2>3. SeenOK(c)'
        BY <1>1, <1>2, <1>6, <2>2, SeenAfterClearing
    <2> QED
        BY <1>3, <2>3
<1> QED
    BY <1>5, <1>6

\* Every step keeps every reader within its bounds.
LEMMA BoundsStay ==
    ASSUME PathInv, PathInv', ReaderInv, SumsInv, SumsInv', BoundsInv, [Next]_vars
    PROVE  BoundsInv'
<1> SUFFICES ASSUME NEW c \in Reader PROVE SeenOK(c)' /\ AnsweredOK(c)'
    BY DEF BoundsInv
<1>1. SeenOK(c) /\ AnsweredOK(c)
    BY DEF BoundsInv
<1>2. CASE [PathNext]_pathVars /\ UNCHANGED <<resultVars, losses>>
    <2>1. /\ cast \subseteq cast' /\ \A r \in cast : call'[r] = call[r]
          /\ about' = about /\ Unmoved(c) /\ sure' = sure
        BY <1>2, CastGrows, EventsStay DEF PathInv, Unmoved, resultVars
    <2>2. AnsweredOK(c)'
        BY <1>1, <2>1, AnswerHolds
    <2>3. CASE \E r \in Request : EvalFirst(r)
        BY <1>1, <1>2, <2>2, <2>3, SeenAfterVote
    <2>4. CASE counters' = counters
        <3>1. \A q \in Question, option \in OptionKey :
                InShards(q, option)' = InShards(q, option)
            BY <2>4 DEF InShards, Field
        <3> QED
            BY <1>1, <2>1, <2>2, <3>1, SeenHolds
    <2> QED
        BY <1>2, <2>3, <2>4, OnlyEvalFirstCounts
<1>3. ASSUME NEW b \in Reader, CalmStep(b), OnlyCountersMove, counters' = counters
      PROVE  SeenOK(c)' /\ AnsweredOK(c)'
    <2>1. CASE c # b
        <3>1. about' = about /\ (Unmoved(c) \/ Silent(c)) /\ sure'[c] = sure[c]
            BY <1>3, <2>1, OthersUnmoved, SureStays DEF ReaderInv
        <3>2. cast' = cast /\ call' = call
            BY <1>3 DEF OnlyCountersMove, serviceVars
        <3>3. \A q \in Question, option \in OptionKey :
                InShards(q, option)' = InShards(q, option)
            BY <1>3 DEF InShards, Field
        <3> QED
            BY <1>1, <3>1, <3>2, <3>3, SilentHolds, AnswerHolds, SeenHolds
    <2>2. CASE c = b
        <3>1. CASE ResultOptions(b) /\ mode[b] # "rebuild"
            BY <1>1, <1>3, <2>2, <3>1, OptionsBounds
        <3>2. CASE ReadShard(b)
            BY <1>1, <1>3, <2>2, <3>2, ReadShardBounds
        <3> QED
            BY <1>1, <1>3, <2>2, <3>1, <3>2, QuietSteps, SilentHolds DEF CalmStep
    <2> QED
        BY <2>1, <2>2
<1>4. ASSUME NEW b \in Reader, ReplaceCounters(b), OnlyCountersMove
      PROVE  SeenOK(c)' /\ AnsweredOK(c)'
    BY <1>1, <1>4, RebuildAnswers, ReplaceBounds
<1>5. ASSUME NEW q \in Question, LoseCounters(q), OnlyCountersMove
      PROVE  SeenOK(c)' /\ AnsweredOK(c)'
    BY <1>5, LoseBounds
<1> QED
    BY <1>2, <1>3, <1>4, <1>5, StepKinds

\* Every reader keeps within its bounds, the inductive form of what follows.
THEOREM BoundsInvariant == Spec => []BoundsInv
<1>1. Init => BoundsInv
    BY DEF Init, ResultInit, BoundsInv, SeenOK, AnsweredOK
<1>2. /\ PathInv /\ PathInv' /\ ReaderInv /\ SumsInv /\ SumsInv' /\ BoundsInv /\ [Next]_vars
      => BoundsInv'
    BY BoundsStay
<1> QED
    BY <1>1, <1>2, SumsInvariant, PTL DEF Spec

\* No answer shows more votes for an option than were counted, although its
\* shards are read one by one while a rebuild moves the sums; and an answer no
\* rebuild interferes with shows every vote counted before it began to read.
THEOREM AnswersAreWithinBounds == Spec => []AnswersWithinBounds
<1>1. BoundsInv => AnswersWithinBounds
    BY DEF BoundsInv, AnsweredOK, AnswersWithinBounds
<1> QED
    BY <1>1, BoundsInvariant, PTL

-----------------------------------------------------------------------------
\* What a request for sums recovers

\* What every step keeps.
LEMMA Progress ==
    ASSUME PathInv, ReaderInv, [Next]_vars
    PROVE  /\ question' = question /\ question_option' = question_option
           /\ now \in Nat /\ now' \in Nat /\ now <= now'
           /\ vote \subseteq vote' /\ cast \subseteq cast'
           /\ \A r \in cast : call'[r] = call[r] /\ EventOf(r)' = EventOf(r)
           /\ about' = about
<1>1. now \in Nat
    BY DEF PathInv, TypeInv, PathTypeOK, StoreTypeOK
<1>2. CASE [PathNext]_pathVars /\ UNCHANGED <<resultVars, losses>>
    <2>1. now' = now \/ now' = now + 1
        BY <1>2 DEF PathNext, HandlerNext, StartRequest, GetCached, DropGarbled, LoadRow,
           LoadOptions, WarmCache, CheckVoted, EvalRepeated, EvalWrongType, EvalFirst,
           JournalVote, RedisFails, DatabaseFails, WorkerStep, WorkerNext, WorkerTake,
           WorkerFlush, WorkerWrite, ProcessStep, ApiShutdown, JournalClose, ApiStart,
           ApiDrained, ApiCrash, Tick, pathVars, storeVars
    <2> QED
        BY <1>1, <1>2, <2>1, QuestionsStay, SettledStays, CastGrows, EventsStay
        DEF PathInv, resultVars
<1>3. ASSUME OnlyCountersMove, about' = about
      PROVE  /\ question' = question /\ question_option' = question_option
             /\ now' = now /\ vote' = vote /\ cast' = cast /\ about' = about
             /\ \A r \in cast : call'[r] = call[r] /\ EventOf(r)' = EventOf(r)
    BY <1>3 DEF OnlyCountersMove, serviceVars, EventOf
<1>4. ASSUME NEW b \in Reader, CalmStep(b) \/ ReplaceCounters(b)
      PROVE  about' = about
    BY <1>4 DEF CalmStep, StartResult, ResultRow, ResultOptions, ReadShard, CountRows,
       DeleteSnapshot, InsertSnapshot, ResultStoreFails, ReplaceCounters, Fail, Respond,
       Proceed, requestVars
<1>5. ASSUME NEW q \in Question, LoseCounters(q)
      PROVE  about' = about
    BY <1>5 DEF LoseCounters
<1> QED
    BY <1>1, <1>2, <1>3, <1>4, <1>5, StepKinds

\* While votes are owed, their question is closed and the journal has them.
DebtOK(c) ==
    owed[c] # {} =>
        LET row == question[about[c]]
        IN  /\ row # NoRow
            /\ EffectiveStatus(row, now) = "closed"
            /\ \A r \in owed[c] : EventOf(r) \in vote

\* A closed question stays closed.
LEMMA ClosedStays ==
    ASSUME NEW row \in Row, NEW t \in Nat, NEW u \in Nat, t <= u,
           EffectiveStatus(row, t) = "closed"
    PROVE  EffectiveStatus(row, u) = "closed"
<1>1. row.status = "published" /\ row.show_time \in Nat
    BY DEF Row, QuestionStatus, EffectiveStatus
<1>2. CalculateClosingTime(row.show_time, row.duration_seconds) \in Nat
    BY <1>1, SecondAssumption, DurationAssumption DEF Row, CalculateClosingTime
<1> HIDE DEF CalculateClosingTime
<1> QED
    BY <1>1, <1>2 DEF EffectiveStatus

LEMMA DebtStays ==
    ASSUME PathInv, ReaderInv, OwedTyped, [Next]_vars, NEW c \in Reader, DebtOK(c)
    PROVE  DebtOK(c)'
<1>1. PICK q \in Question : q = about[c] /\ q = about'[c]
    BY Progress DEF ReaderInv, LocalsTyped
<1>2. question[q] \in Row \cup {NoRow}
    BY DEF PathInv, TypeInv, PathTypeOK, StoreTypeOK
<1>3. owed[c] \subseteq cast
    BY DEF OwedTyped
<1>4. CASE owed'[c] = owed[c]
    BY <1>1, <1>2, <1>3, <1>4, Progress, ClosedStays DEF DebtOK
<1>5. CASE owed'[c] = {}
    BY <1>5 DEF DebtOK
<1>6. CASE StartsOwing(c) /\ OnlyCountersMove
    <2>1. \/ owed'[c] = {}
          \/ OnlyInJournal(q) /\ owed'[c] = CountedFor(q)
        BY <1>1, <1>6 DEF StartsOwing, OwedTyped
    <2>2. CASE OnlyInJournal(q) /\ owed'[c] = CountedFor(q)
        BY <1>1, <1>6, <2>2, Progress
        DEF DebtOK, OnlyInJournal, OnlyCountersMove, CountedFor
    <2> QED
        BY <1>5, <2>1, <2>2
<1>7. ASSUME NEW b \in Reader, OwedAfter(b)
      PROVE  owed'[c] = owed[c] \/ owed'[c] = {}
    BY <1>7 DEF OwedAfter
<1>8. ASSUME NEW b \in Reader, c # b, StartsOwing(b)
      PROVE  owed'[c] = owed[c]
    BY <1>8 DEF StartsOwing, OwedTyped
<1> QED
    BY <1>4, <1>5, <1>6, <1>7, <1>8, OwedKinds

\* No vote has come since handler b found that it must recover all.
Owes(b) == owed[b] # {} /\ owed[b] = CountedFor(about[b])

\* The sums it must show.
Needed(b) ==
    [option \in KeysOf[question_option[about[b]]] |-> Cardinality(VotesFor(option, owed[b]))]

\* One shard of the question, as it is or as it was read: Redis has lost it, or
\* it is the first, with all the votes.
InFirstOnly(hash, shard, needed) ==
    \/ hash = EmptyHash
    \/ shard = 0 /\ \A option \in DOMAIN needed : CountOf(hash, option) = needed[option]

\* How far handler b is with recovering what it owes.
RecoverOK(b) ==
    /\ at[b] = "shards" => mode[b] = "read"
    /\ Owes(b) =>
          /\ at[b] = "shards" => badge[b] # "live"
          /\ at[b] \in {"row", "options", "shards"} /\ mode[b] = "read" =>
                /\ \A s \in Shard : InFirstOnly(counters[<<about[b], s>>], s, Needed(b))
                /\ \A i \in 1 .. Len(hashes[b]) : InFirstOnly(hashes[b][i], i - 1, Needed(b))
          /\ at[b] \in {"delete", "insert", "replace"} =>
                \A r \in owed[b] : EventOf(r) \in rows[b]
          /\ outcome[b] = "ok" => \A option \in DOMAIN figures[b] :
                figures[b][option] = Cardinality(VotesFor(option, owed[b]))

\* Who owes every vote after a step did so before it, and the votes are the
\* same.
LEMMA OwesBefore ==
    ASSUME PathInv, ReaderInv, OwedTyped, [Next]_vars, NEW c \in Reader, Owes(c)',
           owed'[c] = owed[c]
    PROVE  /\ Owes(c)
           /\ CountedFor(about[c])' = CountedFor(about[c])
           /\ \A option : VotesFor(option, owed[c])' = VotesFor(option, owed[c])
           /\ Needed(c)' = Needed(c)
<1>1. PICK q \in Question : q = about[c] /\ q = about'[c]
    BY Progress DEF ReaderInv, LocalsTyped
<1>2. owed[c] \subseteq cast /\ owed[c] # {} /\ owed[c] = CountedFor(q)'
    BY <1>1 DEF OwedTyped, Owes
<1>3. CountedFor(q) = owed[c]
    BY <1>2, Progress DEF CountedFor, QuestionOf
<1>4. \A option : VotesFor(option, owed[c])' = VotesFor(option, owed[c])
    BY <1>2, Progress DEF VotesFor
<1> QED
    BY <1>1, <1>2, <1>3, <1>4, Progress DEF Owes, Needed

\* A vote on the question of one who still owes every vote is none that was
\* counted in this step.
LEMMA OwedShardsStay ==
    ASSUME PathInv, ReaderInv, OwedTyped, [Next]_vars, NEW c \in Reader, Owes(c)',
           owed'[c] = owed[c], NEW r \in Request, EvalFirst(r), NEW s \in Shard
    PROVE  counters'[<<about[c], s>>] = counters[<<about[c], s>>]
<1>1. PICK q \in Question : q = about[c] /\ q = about'[c]
    BY Progress DEF ReaderInv, LocalsTyped
<1>2. r \notin cast /\ cast' = cast \cup {r} /\ call' = call
    BY VoteAdds
<1>3. CountedFor(q)' = CountedFor(q)
    BY <1>1, OwesBefore
<1>4. QuestionOf(r) # q
    BY <1>2, <1>3 DEF CountedFor, QuestionOf
<1>5. ResultCounterKey(call[r].key) # <<q, s>>
    BY <1>4 DEF ResultCounterKey, QuestionOf
<1>6. <<q, s>> \in CounterKey /\ DOMAIN counters = CounterKey
    BY DEF CounterKey, PathInv, TypeInv, PathTypeOK, StoreTypeOK
<1> QED
    BY <1>1, <1>5, <1>6 DEF EvalFirst, ReserveViewerAndIncrementCounter

\* All that a handler holds of a question stays.
Untouched(c) ==
    /\ at'[c] = at[c] /\ mode'[c] = mode[c] /\ badge'[c] = badge[c]
    /\ hashes'[c] = hashes[c] /\ rows'[c] = rows[c]
    /\ figures'[c] = figures[c] /\ outcome'[c] = outcome[c]

\* So do its shards, or they become whole.
ShardsKeep(c) ==
    Owes(c)' => \A s \in Shard :
        \/ counters'[<<about[c], s>>] = counters[<<about[c], s>>]
        \/ InFirstOnly(counters'[<<about[c], s>>], s, Needed(c))

\* A handler that stays, beside shards that keep to their form.
LEMMA RecoverHolds ==
    ASSUME PathInv, ReaderInv, OwedTyped, [Next]_vars, NEW c \in Reader, RecoverOK(c),
           Untouched(c), owed'[c] = owed[c] \/ owed'[c] = {},
           ShardsKeep(c)
    PROVE  RecoverOK(c)'
<1>1. PICK q \in Question : q = about[c] /\ q = about'[c]
    BY Progress DEF ReaderInv, LocalsTyped
<1>2. at'[c] = "shards" => mode'[c] = "read"
    BY DEF RecoverOK, Untouched
<1>3. CASE ~Owes(c)'
    BY <1>2, <1>3 DEF RecoverOK
<1>4. CASE Owes(c)'
    <2>1. owed'[c] = owed[c]
        BY <1>4 DEF Owes
    <2>2. /\ Owes(c) /\ Needed(c)' = Needed(c)
          /\ \A option : VotesFor(option, owed[c])' = VotesFor(option, owed[c])
        BY <1>4, <2>1, OwesBefore
    <2>3. \A r \in owed[c] : EventOf(r)' = EventOf(r)
        BY Progress DEF OwedTyped
    <2>4. at'[c] = "shards" => badge'[c] # "live"
        BY <2>2 DEF RecoverOK, Untouched
    <2>5. at'[c] \in {"delete", "insert", "replace"} =>
            \A r \in owed'[c] : EventOf(r)' \in rows'[c]
        BY <2>1, <2>2, <2>3 DEF RecoverOK, Untouched
    <2>6. outcome'[c] = "ok" => \A option \in DOMAIN figures'[c] :
            figures'[c][option] = Cardinality(VotesFor(option, owed[c])')
        BY <2>2 DEF RecoverOK, Untouched
    <2>7. ASSUME at'[c] \in {"row", "options", "shards"}, mode'[c] = "read"
          PROVE  /\ \A s \in Shard : InFirstOnly(counters'[<<about'[c], s>>], s, Needed(c)')
                 /\ \A i \in 1 .. Len(hashes'[c]) :
                        InFirstOnly(hashes'[c][i], i - 1, Needed(c)')
        BY <1>1, <1>4, <2>1, <2>2, <2>7 DEF RecoverOK, Untouched, ShardsKeep
    <2> QED
        BY <1>2, <2>4, <2>5, <2>6, <2>7 DEF RecoverOK
<1> QED
    BY <1>3, <1>4

\* A handler that ends without an answer owes nothing any more.
LEMMA RecoverEnds ==
    ASSUME NEW c \in Reader, at'[c] = "done", outcome'[c] # "ok"
    PROVE  RecoverOK(c)'
    BY DEF RecoverOK

\* Rows that cover what a reader owes, and are of its question, are its sums.
LEMMA CoveringRows ==
    ASSUME PathInv, ReaderInv, OwedTyped, NEW b \in Reader, NEW c \in Reader, Owes(c),
           about[c] = about[b], \A r \in owed[c] : EventOf(r) \in rows[b],
           NEW option \in OptionKey
    PROVE  JournalCounts(rows[b])[option] = Cardinality(VotesFor(option, owed[c]))
<1> DEFINE votes == {r \in cast : EventOf(r) \in rows[b] /\ call[r].option = option}
<1>1. rows[b] \in SUBSET vote /\ \A e \in rows[b] : e.key[1] = about[c]
    BY DEF ReaderInv, ReaderOK
<1>2. JournalCounts(rows[b])[option] = Cardinality(votes)
    BY <1>1, JournalIsVotes
<1>3. owed[c] \subseteq cast /\ owed[c] = CountedFor(about[c])
    BY DEF OwedTyped, Owes
<1>4. votes = VotesFor(option, owed[c])
    BY <1>1, <1>3 DEF VotesFor, CountedFor, QuestionOf, EventOf
<1> QED
    BY <1>2, <1>4

LEMMA StartRecovers ==
    ASSUME PathInv, ReaderInv, OwedTyped, NEW b \in Reader, AnsweredOK(b), StartResult(b),
           StartsOwing(b), OnlyCountersMove, counters' = counters
    PROVE  RecoverOK(b)'
<1>1. PICK q \in Question : q = about[b]
    BY DEF ReaderInv, LocalsTyped
<1>2. /\ at'[b] = "row" /\ about'[b] = q /\ hashes'[b] = <<>> /\ outcome'[b] # "ok"
    BY <1>1 DEF StartResult, Proceed, requestVars, ReaderInv, LocalsTyped, ReaderOK, AnsweredOK
<1>3. owed'[b] # {} => \A s \in Shard : counters'[<<q, s>>] = EmptyHash
    BY <1>1 DEF StartsOwing, OwedTyped, OnlyInJournal
<1> QED
    BY <1>2, <1>3 DEF RecoverOK, Owes, InFirstOnly

\* A handler that goes on before it has rows or answers.
LEMMA RowRecovers ==
    ASSUME PathInv, ReaderInv, OwedTyped, [Next]_vars, NEW b \in Reader, AnsweredOK(b),
           DebtOK(b), RecoverOK(b), owed' = owed, OnlyCountersMove, counters' = counters,
           ResultRow(b) \/ ResultOptions(b) \/ CountRows(b) \/ DeleteSnapshot(b)
    PROVE  RecoverOK(b)'
<1>1. PICK q \in Question : q = about[b] /\ q = about'[b]
    BY Progress DEF ReaderInv, LocalsTyped
<1>2. LocalsTyped /\ ReaderOK(b)
    BY DEF ReaderInv
<1>3. CASE ~Owes(b)'
    BY <1>2, <1>3 DEF RecoverOK, ResultRow, ResultOptions, CountRows, DeleteSnapshot, Fail,
       Proceed, LocalsTyped
<1>4. CASE Owes(b)'
    <2>1. Owes(b) /\ Needed(b)' = Needed(b)
        BY <1>4, OwesBefore
    <2>2. EffectiveStatus(question[q], now) = "closed" /\ \A r \in owed[b] : EventOf(r) \in vote
        BY <1>1, <2>1 DEF Owes, DebtOK
    <2>3. /\ outcome[b] # "ok" /\ hashes[b] = <<>>
        BY <1>2 DEF AnsweredOK, ResultRow, ResultOptions, CountRows, DeleteSnapshot, ReaderOK
    <2>4. \A r \in owed[b] : EventOf(r)' = EventOf(r)
        BY Progress DEF OwedTyped
    <2>5. CASE ResultRow(b)
        <3>1. CASE Fail(b, "not_found")
            BY <1>2, <3>1, RecoverEnds DEF Fail, LocalsTyped
        <3>2. CASE Proceed(b, "options") /\ UNCHANGED <<mode, badge, hashes, rows>>
            <4>1. /\ at'[b] = "options" /\ outcome'[b] # "ok" /\ hashes'[b] = <<>>
                  /\ mode'[b] = mode[b]
                BY <1>2, <2>3, <3>2 DEF Proceed, requestVars, LocalsTyped
            <4>2. at[b] = "row"
                BY <2>5 DEF ResultRow
            <4> QED
                BY <1>1, <2>1, <4>1, <4>2 DEF RecoverOK
        <3> QED
            BY <2>5, <3>1, <3>2 DEF ResultRow
    <2>6. CASE ResultOptions(b)
        <3>1. /\ at[b] = "options" /\ outcome'[b] # "ok" /\ hashes'[b] = <<>>
              /\ mode'[b] = mode[b]
              /\ at'[b] = IF mode[b] = "rebuild" THEN "count" ELSE "shards"
            BY <1>2, <2>3, <2>6 DEF ResultOptions, Proceed, requestVars, LocalsTyped
        <3>2. badge'[b] # "live"
            <4>1. view[b] = ToCard(question[q], NoOptions)
                BY <1>1, <1>2, <3>1 DEF ReaderOK
            <4>2. EffectiveStatus(view[b], now) = "closed"
                BY <2>2, <4>1 DEF EffectiveStatus, ToCard
            <4> QED
                BY <1>2, <2>6, <4>2 DEF ResultOptions, LocalsTyped
        <3>3. mode[b] \in {"read", "rebuild"}
            BY <1>2 DEF LocalsTyped
        <3> QED
            BY <1>1, <2>1, <3>1, <3>2, <3>3 DEF RecoverOK
    <2>7. CASE CountRows(b)
        <3>1. /\ at'[b] = "delete" /\ outcome'[b] # "ok"
              /\ rows'[b] = {e \in vote : e.key[1] = q}
            BY <1>1, <1>2, <2>3, <2>7 DEF CountRows, Proceed, requestVars, LocalsTyped
        <3>2. \A r \in owed[b] : EventOf(r).key[1] = q
            BY <1>1, <2>1 DEF Owes, CountedFor, QuestionOf, EventOf
        <3> QED
            BY <2>2, <2>4, <3>1, <3>2 DEF RecoverOK
    <2>8. CASE DeleteSnapshot(b)
        <3>1. /\ at[b] = "delete" /\ at'[b] = "insert" /\ outcome'[b] # "ok"
              /\ rows'[b] = rows[b]
            BY <1>2, <2>3, <2>8 DEF DeleteSnapshot, Proceed, requestVars, LocalsTyped
        <3> QED
            BY <2>1, <2>4, <3>1 DEF RecoverOK
    <2> QED
        BY <2>5, <2>6, <2>7, <2>8
<1> QED
    BY <1>3, <1>4

\* After the INSERT, one goes on and the others have failed.
LEMMA InsertRecovers ==
    ASSUME PathInv, ReaderInv, OwedTyped, [Next]_vars, NEW b \in Reader, InsertSnapshot(b),
           owed' = owed, OnlyCountersMove, counters' = counters, NEW c \in Reader,
           AnsweredOK(c), RecoverOK(c)
    PROVE  RecoverOK(c)'
<1>1. LocalsTyped
    BY DEF ReaderInv
<1>2. /\ at[b] = "insert"
      /\ UNCHANGED <<about, mode, figures, sure, forgotten>>
    BY DEF InsertSnapshot
<1>3. PICK failed \in {Colliding(b), Colliding(b) \cup {b}} :
        /\ at' = [d \in Reader |-> IF d \in failed THEN "done"
                                   ELSE IF d = b THEN "replace" ELSE at[d]]
        /\ outcome' = [d \in Reader |-> IF d \in failed THEN "internal_error"
                                        ELSE outcome[d]]
        /\ ForgetLocals(failed)
    BY DEF InsertSnapshot
<1>4. CASE c \in failed
    BY <1>3, <1>4, RecoverEnds
<1>5. CASE c \notin failed
    <2>1. /\ badge'[c] = badge[c] /\ hashes'[c] = hashes[c] /\ rows'[c] = rows[c]
          /\ outcome'[c] = outcome[c] /\ at'[c] = IF c = b THEN "replace" ELSE at[c]
        BY <1>3, <1>5 DEF ForgetLocals
    <2>2. CASE c # b
        <3>1. Untouched(c)
            BY <1>2, <2>1, <2>2 DEF Untouched
        <3>2. ShardsKeep(c) /\ owed'[c] = owed[c]
            BY DEF ShardsKeep
        <3> QED
            BY <3>1, <3>2, RecoverHolds
    <2>3. CASE c = b
        <3>1. at'[c] = "replace" /\ outcome'[c] # "ok"
            BY <1>2, <2>1, <2>3 DEF AnsweredOK
        <3>2. ASSUME Owes(c)'
              PROVE  \A r \in owed'[c] : EventOf(r)' \in rows'[c]
            <4>1. Owes(c) /\ \A r \in owed[c] : EventOf(r)' = EventOf(r)
                BY <3>2, OwesBefore, Progress DEF OwedTyped
            <4> QED
                BY <1>2, <2>1, <2>3, <4>1 DEF RecoverOK
        <3> QED
            BY <3>1, <3>2 DEF RecoverOK
    <2> QED
        BY <2>2, <2>3
<1> QED
    BY <1>4, <1>5

\* All shards read, and they are not empty: the first has everything.
LEMMA WholeAnswer ==
    ASSUME NEW read \in Seq(Hash), Len(read) = COUNTER_SHARDS, NEW needed,
           \A i \in 1 .. Len(read) : InFirstOnly(read[i], i - 1, needed),
           ~ \A i \in DOMAIN read : DOMAIN read[i] = {},
           NEW option \in OptionKey, option \in DOMAIN needed
    PROVE  AggregateCounterShards(read)[option] = needed[option]
<1> DEFINE counts == [i \in 1 .. Len(read) |-> CountOf(read[i], option)]
<1>1. /\ COUNTER_SHARDS \in Nat \ {0} /\ counts \in Counts(Len(read))
      /\ AggregateCounterShards(read)[option] = SumOf(counts)
    BY AggregateIs, ShardsAssumption
<1>2. \A i \in 2 .. Len(read) : read[i] = EmptyHash
    BY DEF InFirstOnly
<1>3. \A i \in 2 .. Len(read) : counts[i] = 0
    BY <1>2 DEF CountOf, EmptyHash
<1>4. DOMAIN EmptyHash = {} /\ DOMAIN read = 1 .. Len(read)
    BY DEF EmptyHash
<1>5. read[1] # EmptyHash
    <2>1. PICK i \in 1 .. Len(read) : DOMAIN read[i] # {}
        BY <1>4
    <2>2. i = 1 \/ i \in 2 .. Len(read)
        BY <1>1
    <2> QED
        BY <1>2, <1>4, <2>1, <2>2
<1>6. 1 \in 1 .. Len(read) /\ 1 - 1 = 0
    BY <1>1
<1>7. CountOf(read[1], option) = needed[option]
    BY <1>5, <1>6 DEF InFirstOnly
<1>8. counts[1] = needed[option]
    BY <1>6, <1>7
<1> HIDE DEF counts
<1> QED
    BY <1>1, <1>3, <1>8, SumOfFirst

\* The next shard read is empty or whole; with all of them read, a reader that
\* owes votes has them, or goes on to rebuild.
LEMMA ReadShardRecovers ==
    ASSUME PathInv, ReaderInv, OwedTyped, [Next]_vars, NEW b \in Reader, AnsweredOK(b),
           RecoverOK(b), owed' = owed, OnlyCountersMove, counters' = counters, ReadShard(b)
    PROVE  RecoverOK(b)'
<1> DEFINE found == counters[NextShardKey(about[b], hashes[b])]
           read == Append(hashes[b], found)
<1>1. PICK q \in Question : q = about[b] /\ q = about'[b]
    BY Progress DEF ReaderInv, LocalsTyped
<1>2. /\ LocalsTyped /\ FiguresTyped /\ at[b] = "shards" /\ mode[b] = "read"
      /\ outcome[b] # "ok"
    BY DEF ReaderInv, ReadShard, RecoverOK, AnsweredOK
<1>3. found # NotAHash =>
        /\ hashes[b] \in Seq(Hash) /\ Len(hashes[b]) \in 0 .. COUNTER_SHARDS - 1
        /\ found \in Hash
        /\ read \in Seq(Hash) /\ Len(read) = Len(hashes[b]) + 1
        /\ \A i \in 1 .. Len(hashes[b]) : read[i] = hashes[b][i]
        /\ read[Len(hashes[b]) + 1] = found
    BY <1>2, NextShardIs
<1>4. ASSUME Owes(b)', found # NotAHash
      PROVE  /\ Owes(b) /\ Needed(b)' = Needed(b) /\ badge[b] # "live"
             /\ \A s \in Shard : InFirstOnly(counters[<<q, s>>], s, Needed(b))
             /\ \A i \in 1 .. Len(read) : InFirstOnly(read[i], i - 1, Needed(b))
    <2>1. /\ Owes(b) /\ Needed(b)' = Needed(b)
        BY <1>4, OwesBefore
    <2>2. /\ badge[b] # "live"
          /\ \A s \in Shard : InFirstOnly(counters[<<q, s>>], s, Needed(b))
          /\ \A i \in 1 .. Len(hashes[b]) : InFirstOnly(hashes[b][i], i - 1, Needed(b))
        BY <1>1, <1>2, <2>1 DEF RecoverOK
    <2>3. Len(hashes[b]) \in Shard /\ found = counters[<<q, Len(hashes[b])>>]
        BY <1>1, <1>3, <1>4, ShardsAssumption DEF Shard, NextShardKey
    <2>4. InFirstOnly(found, Len(hashes[b]), Needed(b))
        BY <2>2, <2>3
    <2> HIDE DEF found, read
    <2>5. ASSUME NEW i \in 1 .. Len(read)
          PROVE  InFirstOnly(read[i], i - 1, Needed(b))
        <3>1. i \in 1 .. Len(hashes[b]) \/ (i = Len(hashes[b]) + 1 /\ i - 1 = Len(hashes[b]))
            BY <1>3, <1>4
        <3> QED
            BY <1>3, <1>4, <2>2, <2>4, <3>1
    <2> QED
        BY <2>1, <2>2, <2>5
<1> HIDE DEF found, read
<1>5. CASE Fail(b, "unavailable")
    BY <1>2, <1>5, RecoverEnds DEF Fail, LocalsTyped
<1>6. CASE /\ found # NotAHash
           /\ hashes' = [hashes EXCEPT ![b] = read]
           /\ UNCHANGED <<at, requestVars, mode, view, badge, rows>>
    <2>1. /\ at'[b] = "shards" /\ mode'[b] = "read" /\ badge'[b] = badge[b]
          /\ hashes'[b] = read /\ outcome'[b] # "ok"
        BY <1>2, <1>6 DEF requestVars, LocalsTyped
    <2> QED
        BY <1>1, <1>4, <1>6, <2>1 DEF RecoverOK
<1>7. CASE mode' = [mode EXCEPT ![b] = "rebuild"] /\ Proceed(b, "row")
    <2>1. at'[b] = "row" /\ mode'[b] = "rebuild" /\ outcome'[b] # "ok"
        BY <1>2, <1>7 DEF Proceed, requestVars, LocalsTyped
    <2> QED
        BY <2>1 DEF RecoverOK
<1>8. CASE /\ found # NotAHash /\ AllShardsRead(read) /\ ~NeedsRebuild(b, read)
           /\ Respond(b, AggregateCounterShards(read))
    <2>1. /\ at'[b] = "done"
          /\ figures'[b] = [option \in KeysOf[view[b].options] |->
                                AggregateCounterShards(read)[option]]
        BY <1>2, <1>8 DEF Respond, LocalsTyped, FiguresTyped
    <2>2. ASSUME Owes(b)', NEW option \in DOMAIN figures'[b]
          PROVE  figures'[b][option] = Cardinality(VotesFor(option, owed[b])')
        <3>1. view[b].options = question_option[q] /\ view[b] \in Card
            <4>1. view[b] = ToCard(question[q], question_option[q])
                BY <1>1, <1>2 DEF ReaderInv, ReaderOK
            <4> QED
                BY <1>2, <4>1, HeldCards DEF ToCard
        <3>2. KeysOf[view[b].options] \subseteq OptionKey
            BY <3>1, KeysOfAssumption DEF Card
        <3>3. option \in OptionKey /\ option \in DOMAIN Needed(b)
            BY <1>1, <2>1, <2>2, <3>1, <3>2 DEF Needed
        <3>4. AggregateCounterShards(read)[option] = Needed(b)[option]
            <4>1. ~ \A i \in DOMAIN read : DOMAIN read[i] = {}
                BY <1>4, <1>8, <2>2 DEF NeedsRebuild
            <4>2. \A i \in 1 .. Len(read) : InFirstOnly(read[i], i - 1, Needed(b))
                BY <1>4, <1>8, <2>2
            <4>3. read \in Seq(Hash) /\ Len(read) = COUNTER_SHARDS
                BY <1>3, <1>8 DEF AllShardsRead
            <4> QED
                BY <3>3, <4>1, <4>2, <4>3, WholeAnswer
        <3>5. figures'[b][option] = Needed(b)[option]
            BY <2>1, <2>2, <3>4
        <3>6. Cardinality(VotesFor(option, owed[b])') = Cardinality(VotesFor(option, owed[b]))
            BY <2>2, OwesBefore
        <3> QED
            BY <1>1, <3>1, <3>3, <3>5, <3>6 DEF Needed
    <2> QED
        BY <2>1, <2>2 DEF RecoverOK
<1> QED
    BY <1>5, <1>6, <1>7, <1>8 DEF ReadShard, found, read

\* The rebuild of one who owes votes shows them; that of another leaves whole
\* counters, or nothing is owed any more.
LEMMA ReplaceRecovers ==
    ASSUME PathInv, ReaderInv, OwedTyped, [Next]_vars, NEW b \in Reader, ReplaceCounters(b),
           OwedAfter(b), OnlyCountersMove, NEW c \in Reader, AnsweredOK(c), RecoverOK(c)
    PROVE  RecoverOK(c)'
<1> DEFINE counts == JournalCounts(rows[b])
<1>1. PICK q \in Question : q = about[b] /\ q = about'[b]
    BY Progress DEF ReaderInv, LocalsTyped
<1>2. LocalsTyped /\ FiguresTyped /\ ReaderOK(b) /\ at[b] = "replace"
    BY DEF ReaderInv, ReplaceCounters
<1>3. view[b].options = question_option[q] /\ KeysOf[question_option[q]] \subseteq OptionKey
    <2>1. view[b].options = question_option[q] /\ view[b] \in Card
        BY <1>1, <1>2, HeldCards DEF ReaderOK, ToCard
    <2> QED
        BY <2>1, KeysOfAssumption DEF Card
<1>4. /\ counters' = ReplacedCounters(q, question_option[q], counts)
      /\ \/ Respond(b, counts) \/ Fail(b, "unavailable")
         \/ UNCHANGED <<at, requestVars, mode, view, badge, hashes, rows>>
    <2>1. counters' = ReplacedCounters(about[b], view[b].options, counts)
        BY DEF ReplaceCounters
    <2> QED
        BY <1>1, <1>3, <2>1 DEF ReplaceCounters, ReplacedCounters
<1>5. /\ owed'[c] = owed[c] \/ owed'[c] = {}
      /\ owed'[c] = owed[c] /\ owed[c] # {} /\ about[c] = q =>
            \A r \in owed[c] : EventOf(r) \in rows[b]
    BY <1>1 DEF OwedAfter
<1> HIDE DEF counts
<1>6. ASSUME Owes(c)', about[c] = q, NEW option \in KeysOf[question_option[q]]
      PROVE  /\ counts[option] = Cardinality(VotesFor(option, owed[c]))
             /\ VotesFor(option, owed[c])' = VotesFor(option, owed[c])
             /\ option \in DOMAIN Needed(c) /\ counts[option] = Needed(c)[option]
    <2>1. owed'[c] = owed[c] /\ owed[c] # {}
        BY <1>5, <1>6 DEF Owes
    <2>2. /\ Owes(c) /\ VotesFor(option, owed[c])' = VotesFor(option, owed[c])
          /\ \A r \in owed[c] : EventOf(r) \in rows[b]
        BY <1>5, <1>6, <2>1, OwesBefore
    <2>3. counts[option] = Cardinality(VotesFor(option, owed[c]))
        BY <1>1, <1>3, <1>6, <2>2, CoveringRows DEF counts
    <2> QED
        BY <1>6, <2>2, <2>3 DEF Needed
<1>7. CASE Untouched(c)
    <2>1. ASSUME Owes(c)', NEW s \in Shard
          PROVE  \/ counters'[<<about[c], s>>] = counters[<<about[c], s>>]
                 \/ InFirstOnly(counters'[<<about[c], s>>], s, Needed(c))
        <3>1. about[c] \in Question /\ <<about[c], s>> \in CounterKey
            BY <1>2 DEF LocalsTyped, CounterKey
        <3>2. CASE about[c] # q
            BY <1>4, <3>1, <3>2 DEF ReplacedCounters
        <3>3. CASE about[c] = q /\ s # 0
            BY <1>4, <3>1, <3>3 DEF ReplacedCounters, InFirstOnly
        <3>4. CASE about[c] = q /\ s = 0
            <4>1. counters'[<<q, s>>] =
                    [option \in KeysOf[question_option[q]] |-> counts[option]]
                BY <1>4, <3>1, <3>4 DEF ReplacedCounters
            <4>2. DOMAIN Needed(c) = KeysOf[question_option[q]]
                BY <3>4 DEF Needed
            <4>3. \A option \in DOMAIN Needed(c) :
                    CountOf(counters'[<<q, s>>], option) = Needed(c)[option]
                BY <1>6, <2>1, <3>4, <4>1, <4>2 DEF CountOf
            <4> QED
                BY <3>4, <4>3 DEF InFirstOnly
        <3> QED
            BY <3>2, <3>3, <3>4
    <2>2. ShardsKeep(c)
        BY <2>1 DEF ShardsKeep
    <2> QED
        BY <1>5, <1>7, <2>2, RecoverHolds
<1>8. CASE c # b
    BY <1>2, <1>4, <1>7, <1>8 DEF Untouched, Respond, Fail, ForgetLocals, requestVars,
       LocalsTyped, FiguresTyped
<1>9. CASE c = b /\ Respond(b, counts)
    <2>1. /\ at'[b] = "done"
          /\ figures'[b] = [option \in KeysOf[question_option[q]] |-> counts[option]]
        BY <1>2, <1>3, <1>9 DEF Respond, LocalsTyped, FiguresTyped
    <2> QED
        BY <1>1, <1>6, <1>9, <2>1 DEF RecoverOK
<1>10. CASE c = b /\ Fail(b, "unavailable")
    BY <1>2, <1>10, RecoverEnds DEF Fail, LocalsTyped
<1>11. CASE c = b /\ UNCHANGED <<at, requestVars, mode, view, badge, hashes, rows>>
    BY <1>7, <1>11 DEF Untouched, requestVars
<1> QED
    BY <1>4, <1>8, <1>9, <1>10, <1>11

LEMMA RecoverStays ==
    ASSUME PathInv, ReaderInv, OwedTyped, BoundsInv, [Next]_vars, NEW c \in Reader,
           DebtOK(c), RecoverOK(c)
    PROVE  RecoverOK(c)'
<1>1. AnsweredOK(c) /\ LocalsTyped /\ FiguresTyped
    BY DEF BoundsInv, ReaderInv
<1>2. CASE [PathNext]_pathVars /\ UNCHANGED <<resultVars, losses, owed>>
    <2>1. Untouched(c)
        BY <1>2 DEF Untouched, resultVars
    <2>2. ShardsKeep(c)
        <3>1. ASSUME Owes(c)', NEW r \in Request, EvalFirst(r), NEW s \in Shard
              PROVE  counters'[<<about[c], s>>] = counters[<<about[c], s>>]
            BY <1>2, <3>1, OwedShardsStay
        <3> QED
            BY <1>2, <3>1, OnlyEvalFirstCounts DEF ShardsKeep
    <2> QED
        BY <1>2, <2>1, <2>2, RecoverHolds
<1>3. ASSUME NEW b \in Reader, b # c, OnlyCountersMove, counters' = counters,
             owed'[c] = owed[c], CalmStep(b), ~InsertSnapshot(b)
      PROVE  RecoverOK(c)'
    <2>1. Untouched(c)
        BY <1>1, <1>3 DEF Untouched, CalmStep, StartResult, ResultRow, ResultOptions, ReadShard,
           CountRows, DeleteSnapshot, ResultStoreFails, Fail, Respond, Proceed, ForgetLocals,
           requestVars, LocalsTyped, FiguresTyped
    <2>2. ShardsKeep(c)
        BY <1>3 DEF ShardsKeep
    <2> QED
        BY <1>3, <2>1, <2>2, RecoverHolds
<1>4. ASSUME NEW b \in Reader, StartResult(b), StartsOwing(b), OnlyCountersMove,
             counters' = counters
      PROVE  RecoverOK(c)'
    <2>1. CASE b = c
        BY <1>1, <1>4, <2>1, StartRecovers
    <2>2. CASE b # c
        <3>1. owed'[c] = owed[c]
            BY <1>4, <2>2 DEF StartsOwing, OwedTyped
        <3>2. CalmStep(b) /\ ~InsertSnapshot(b)
            BY <1>4 DEF CalmStep, StartResult, InsertSnapshot
        <3> QED
            BY <1>3, <1>4, <2>2, <3>1, <3>2
    <2> QED
        BY <2>1, <2>2
<1>5. ASSUME NEW b \in Reader, CalmStep(b), ~StartResult(b), OnlyCountersMove,
             counters' = counters, owed' = owed
      PROVE  RecoverOK(c)'
    <2>1. CASE InsertSnapshot(b)
        BY <1>1, <1>5, <2>1, InsertRecovers
    <2>2. CASE b # c /\ ~InsertSnapshot(b)
        BY <1>3, <1>5, <2>2
    <2>3. CASE b = c /\ ReadShard(b)
        BY <1>1, <1>5, <2>3, ReadShardRecovers
    <2>4. CASE b = c /\ ResultStoreFails(b)
        BY <1>1, <2>4, RecoverEnds DEF ResultStoreFails, Fail, LocalsTyped
    <2>5. CASE /\ b = c
               /\ ResultRow(b) \/ ResultOptions(b) \/ CountRows(b) \/ DeleteSnapshot(b)
        BY <1>1, <1>5, <2>5, RowRecovers
    <2> QED
        BY <1>5, <2>1, <2>2, <2>3, <2>4, <2>5 DEF CalmStep
<1>6. ASSUME NEW b \in Reader, ReplaceCounters(b), OwedAfter(b), OnlyCountersMove
      PROVE  RecoverOK(c)'
    BY <1>1, <1>6, ReplaceRecovers
<1>7. ASSUME NEW q \in Question, LoseCounters(q), OnlyCountersMove, owed' = owed
      PROVE  RecoverOK(c)'
    <2>1. Untouched(c)
        BY <1>7 DEF LoseCounters, Untouched
    <2>2. ASSUME NEW s \in Shard
          PROVE  \/ counters'[<<about[c], s>>] = counters[<<about[c], s>>]
                 \/ counters'[<<about[c], s>>] = EmptyHash
        <3>1. <<about[c], s>> \in CounterKey
            BY <1>1 DEF LocalsTyped, CounterKey
        <3> QED
            BY <1>7, <3>1 DEF LoseCounters
    <2>3. ShardsKeep(c)
        BY <2>2 DEF ShardsKeep, InFirstOnly
    <2> QED
        BY <1>7, <2>1, <2>3, RecoverHolds
<1> QED
    BY <1>2, <1>4, <1>5, <1>6, <1>7, OwedKinds

RecoverInv == \A c \in Reader : DebtOK(c) /\ RecoverOK(c)

\* A request for the sums of a closed question whose counters Redis has lost
\* shows every vote of the journal, although others read, recover and rebuild
\* at the same time, unless one of them puts older rows in between.
THEOREM LostSumsRecovered == Spec => []ResultsRecovered
<1>1. Init => RecoverInv
    BY DEF Init, ResultInit, RecoverInv, DebtOK, RecoverOK, Owes
<1>2. /\ PathInv /\ ReaderInv /\ OwedTyped /\ BoundsInv /\ RecoverInv /\ [Next]_vars
      => RecoverInv'
    BY DebtStays, RecoverStays DEF RecoverInv
<1>3. /\ PathInv /\ ReaderInv /\ OwedTyped /\ BoundsInv /\ RecoverInv => ResultsRecovered
    <2> SUFFICES ASSUME PathInv, ReaderInv, OwedTyped, BoundsInv, RecoverInv,
                        NEW b \in Reader, outcome[b] = "ok",
                        owed[b] = CountedFor(about[b]), NEW option \in DOMAIN figures[b]
                 PROVE  figures[b][option] = Cardinality(VotesFor(option, owed[b]))
        BY DEF ResultsRecovered
    <2>1. CASE owed[b] # {}
        BY <2>1 DEF RecoverInv, RecoverOK, Owes
    <2>2. CASE owed[b] = {}
        <3>1. VotesFor(option, CountedFor(about[b])) = {}
            BY <2>2 DEF VotesFor
        <3>2. Cardinality(VotesFor(option, CountedFor(about[b]))) = 0
            BY <3>1, FS_EmptySet
        <3>3. figures[b][option] \in Nat
            BY DEF ReaderInv, FiguresTyped, IsTally
        <3>4. figures[b][option] <= Cardinality(VotesFor(option, CountedFor(about[b])))
            BY DEF BoundsInv, AnsweredOK
        <3> QED
            BY <3>2, <3>3, <3>4
    <2> QED
        BY <2>1, <2>2
<1> QED
    BY <1>1, <1>2, <1>3, ReaderInvariant, BoundsInvariant, PTL DEF Spec

=============================================================================
