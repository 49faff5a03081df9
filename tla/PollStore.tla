----------------------------- MODULE PollStore ------------------------------
(***************************************************************************)
(* The state the API process shares through its two stores.                *)
(* PostgreSQL (store/schema.py): the tables question, question_option and  *)
(* vote. Redis (store/keys.py): the cards question:{id}, the dedup keys    *)
(* vote:{id}:{hash} and the counter shards results:{id}:{shard}.           *)
(* Every operator here is one statement or one command, which the store    *)
(* executes atomically; the services string them together.                 *)
(***************************************************************************)
EXTENDS VotingWindow, FiniteSets, Sequences, Functions

CONSTANTS
    Question,           \* ids of questions
    Viewer,             \* values of the cookie vid
    OptionKey,          \* keys a client may send as its choice
    OptionList,         \* lists of options a question may have, as values:
                        \* equal when _same_options finds them the same
    KeysOf,             \* the option keys in a list of options
    NoOptions,          \* the empty list of options
    COUNTER_SHARDS,     \* number of counter shards of a question
    Crc32,              \* zlib.crc32 of a dedup key
    NoRow,              \* a question the table does not have
    NoCard,             \* a card Redis does not have
    Garbled,            \* a cached card that QuestionOutput cannot parse
    NotAHash            \* a counter key that holds something else

\* dedup_hash: SHA-256 of question and viewer, taken to have no collisions, so
\* the pair itself stands for the hash.
DedupHash(q, v) == <<q, v>>
DedupKey == Question \X Viewer

Shard == 0 .. COUNTER_SHARDS - 1
CounterKey == Question \X Shard

ASSUME KeysOfAssumption ==
    /\ KeysOf \in [OptionList -> SUBSET OptionKey]
    /\ NoOptions \in OptionList /\ KeysOf[NoOptions] = {}
ASSUME ShardsAssumption == COUNTER_SHARDS \in Nat \ {0}
ASSUME Crc32Assumption == Crc32 \in [DedupKey -> Nat]

\* A card: the columns of a question and its options, as kept in Redis.
Card == {card \in [status           : QuestionStatus,
                   show_time        : Nat \cup {NoTime},
                   duration_seconds : MIN_DURATION .. MAX_DURATION,
                   options          : OptionList] :
            card.status = "published" => card.show_time # NoTime}

ASSUME SentinelAssumption ==
    /\ NoRow \notin Row
    /\ NoCard \notin Card /\ Garbled \notin Card /\ NoCard # Garbled
    /\ \A fields \in SUBSET OptionKey : NotAHash \notin [fields -> Nat]

\* A row of the journal: the event of one accepted vote. Its key is the pair
\* of columns (question_id, dedup_key); ip_hash and voted_at are left out.
VoteEvent == [key : DedupKey, option : OptionKey]

\* A counter shard: a Redis hash from option keys to numbers. The empty hash
\* is the key that does not exist.
IsHash(h) == DOMAIN h \subseteq OptionKey /\ h \in [DOMAIN h -> Nat]
EmptyHash == [field \in {} |-> 0]

VARIABLES
    now,                \* the server clock
    question,           \* table question, by id
    question_option,    \* table question_option, the list of each question
    vote,               \* table vote
    cache,              \* Redis: card of each question
    dedup,              \* Redis: instant at which each dedup key expires
    counters            \* Redis: the hash at each counter key

storeVars == <<now, question, question_option, vote, cache, dedup, counters>>

StoreTypeOK ==
    /\ now \in Nat
    /\ question \in [Question -> Row \cup {NoRow}]
    /\ question_option \in [Question -> OptionList]
    /\ vote \subseteq VoteEvent
    /\ cache \in [Question -> Card \cup {NoCard, Garbled}]
    /\ dedup \in [DedupKey -> Nat]
    /\ DOMAIN counters = CounterKey
    /\ \A c \in CounterKey : counters[c] = NotAHash \/ IsHash(counters[c])

-----------------------------------------------------------------------------
\* Reading

\* The card of a row and a list of options (_to_output).
ToCard(row, options) ==
    [status |-> row.status, show_time |-> row.show_time,
     duration_seconds |-> row.duration_seconds, options |-> options]

ClosesAt(card) == CalculateClosingTime(card.show_time, card.duration_seconds)

\* EXISTS of a dedup key: set, and its EX not yet over.
DedupKeyExists(k) == now < dedup[k]

CountOf(hash, option) == IF option \in DOMAIN hash THEN hash[option] ELSE 0

CounterShard(k) == Crc32[k] % COUNTER_SHARDS
ResultCounterKey(k) == <<k[1], CounterShard(k)>>

-----------------------------------------------------------------------------
\* Writing

\* Mutant: HSET of a value computed elsewhere instead of HINCRBY.
HSetOne(hash, option) ==
    [field \in DOMAIN hash \cup {option} |->
        IF field = option THEN 1 ELSE hash[field]]

\* HINCRBY hash option 1: creates the hash and the field when missing.
HIncrBy(hash, option) ==
    [field \in DOMAIN hash \cup {option} |->
        IF field = option THEN CountOf(hash, option) + 1 ELSE hash[field]]

\* INSERT of events in their order, ON CONFLICT (question_id, dedup_key) DO
\* NOTHING: an event enters if its key is neither in the table nor earlier in
\* the batch.
InsertOnConflictDoNothing(table, events) ==
    table \cup {events[i] : i \in
        {j \in DOMAIN events :
            /\ \A row \in table : row.key # events[j].key
            /\ \A h \in 1 .. j - 1 : events[h].key # events[j].key}}

\* The foreign key vote.question_id holds for every event of a batch.
ForeignKeyHolds(events) ==
    \A i \in DOMAIN events : question[events[i].key[1]] # NoRow
=============================================================================
