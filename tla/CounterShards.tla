--------------------------- MODULE CounterShards ----------------------------
(***************************************************************************)
(* How the sums are read from Redis (store/counter_shards.py): one HGETALL *)
(* per shard, in the order of the shards, in a pipeline that is no         *)
(* transaction. Redis serves other clients between two HGETALLs, so a      *)
(* reader takes one step per shard and carries the list of the hashes it   *)
(* has read so far.                                                        *)
(***************************************************************************)
EXTENDS PollStore

\* Mutant: the keys of the pipeline in descending order.
NextShardKeyDescending(q, shards) == <<q, COUNTER_SHARDS - 1 - Len(shards)>>

\* The key that a reader of q with these hashes asks for next.
NextShardKey(q, shards) == <<q, Len(shards)>>

\* Mutant: the last shard is never asked for.
AllButLastRead(shards) == Len(shards) >= COUNTER_SHARDS - 1

AllShardsRead(shards) == Len(shards) = COUNTER_SHARDS

\* The sum of a list of counts: one pair for each unit of each count.
SumOf(counts) == Cardinality(UNION {{i} \X (1 .. counts[i]) : i \in DOMAIN counts})

AggregateCounterShards(shards) ==
    [option \in OptionKey |->
        SumOf([i \in DOMAIN shards |-> CountOf(shards[i], option)])]

CounterShardsHaveVotes(shards) ==
    \E i \in DOMAIN shards : \E option \in DOMAIN shards[i] : shards[i][option] > 0
=============================================================================
