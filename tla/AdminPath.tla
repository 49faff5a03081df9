----------------------------- MODULE AdminPath ------------------------------
(***************************************************************************)
(* Viewers and admins together: the handlers of VoteService and of         *)
(* QuestionService over the same stores, with the journal, the process,    *)
(* the clock and the row locks of PostgreSQL. VotePath is the case of no   *)
(* admin, with shutdown and restart besides; of its promises those of the  *)
(* ballot box and of the counters survive here, and VotesSettle: a counted *)
(* vote is written or known to be lost although its INSERT may wait for    *)
(* admins. That a vote fits the question as stored does not.               *)
(***************************************************************************)
EXTENDS VotePath, QuestionService

CONSTANT AdminJob   \* jobs the admins of the run may send

ASSUME AdminJobAssumption == AdminJob \subseteq Job

vars == <<storeVars, journalVars, serviceVars, adminVars>>

Init == PathInit /\ AdminInit

\* The next step of a viewer's handler, which may have to wait for a lock.
ViewerStep(r) == HandlerNext(r) /\ JournalWaitsForLock /\ UNCHANGED adminVars

JournalStep ==
    WorkerNext /\ JournalWaitsForLock /\ UNCHANGED <<serviceVars, adminVars>>

\* The requests that were counted for the question of admin a.
Counted(a) == {r \in cast : QuestionOf(r) = Target(a)}

\* Mutant: with the row lock in hand, the handler waits for the journal.
AdminJoinsJournal(a) ==
    /\ step[a] = "shards" => unfinished = 0
    /\ AdminProgress(a, Counted(a))
    /\ UNCHANGED <<journalVars, serviceVars>>

\* The next step of an admin's handler, which may have to wait for a lock.
AdminGoesOn(a) == AdminProgress(a, Counted(a)) /\ UNCHANGED <<journalVars, serviceVars>>

Next ==
    \/ \E r \in Request : StartRequest(r) /\ UNCHANGED adminVars
    \/ \E r \in Request : ViewerStep(r)
    \/ \E a \in Admin, j \in AdminJob :
          api = "up" /\ StartJob(a, j) /\ UNCHANGED <<journalVars, serviceVars>>
    \/ \E a \in Admin : AdminGoesOn(a)
    \/ \E a \in Admin : AdminStoreFails(a) /\ UNCHANGED <<journalVars, serviceVars>>
    \/ JournalStep
    \/ ApiCrash /\ AdminCrash
    \/ Tick /\ UNCHANGED adminVars

Spec == Init /\ [][Next]_vars

\* A statement that nothing keeps waiting is answered, or its connection breaks;
\* one that waits for a row lock may wait as long as the lock is held, so no
\* fairness lets it fail instead. PostgreSQL hands a free lock to a waiter.
WrittenIfPossible(events) == ForeignKeyHolds(events) => lost' = lost

ViewerGoesOn(r) ==
    /\ ViewerStep(r)
    /\ pc[r] = "journal" /\ ~ASYNC => WrittenIfPossible(<<EventOf(r)>>)

JournalGoesOn ==
    /\ JournalStep
    /\ worker = "writing" => WrittenIfPossible(batch)

Fairness ==
    /\ \A r \in Request : WF_vars(ViewerGoesOn(r))
    /\ \A a \in Admin : WF_vars(AdminGoesOn(a))
    /\ WF_vars(JournalGoesOn)

FairSpec == Spec /\ Fairness

-----------------------------------------------------------------------------
\* Safety

\* Every variable has its type.
TypeOK == PathTypeOK /\ AdminTypeOK

\* A question as the tables have it.
Stored(q) == ToCard(question[q], question_option[q])

\* The card an admin's decision rests on is the stored one until COMMIT: the
\* lock of _load_existing keeps other admins from editing, publishing or
\* deleting the question between the read and the write.
DecidedOnStoredCard ==
    \A a \in Admin : step[a] \in {"votes", "shards", "write"} =>
        question[Target(a)] # NoRow /\ held[a] = Stored(Target(a))

\* A vote that was counted when the admin took the lock blocks the change of
\* the options and the deletion, whatever shard it went to and whether or not
\* it has reached the journal (_has_votes looks in both).
CountedVotesBlockEdits ==
    \A a \in Admin :
        step[a] = "write" /\ RemovesOptions(a, held[a]) => known[a] = {}

\* Once a vote is in the journal, its question keeps its options and cannot be
\* deleted: the INSERT waits for an admin who is still deciding, and an admin
\* who decides later finds it.
JournalledOptionsStay ==
    [][\A event \in vote : LET q == event.key[1]
                           IN  question_option'[q] = question_option[q]
                               /\ question'[q] # NoRow]_vars

\* Only drafts are deleted, although another admin may be publishing.
OnlyDraftsDeleted ==
    [][\A q \in Question : question[q] # NoRow /\ question'[q] = NoRow
                              => question[q].status = "draft"]_vars

\* However old or torn the card of its handler, a counted vote is inside the
\* window of some row and for an option of some list its question has had: no
\* card is ever in Redis that was not committed.
VotesFromCommittedCards ==
    \A r \in cast :
        /\ \E version \in past[QuestionOf(r)] :
              RequireOpenVotingWindow(version[1], call[r].at) = "open"
        /\ \E version \in past[QuestionOf(r)] :
              call[r].option \in KeysOf[version[2]]

\* Edits and deletions leave the promises of the ballot box alone.
BallotBoxUnderEdits == BallotBoxSpec

-----------------------------------------------------------------------------
\* Inductive strengthening of the above, for the proofs

Total(f, S) == f = [x \in S |-> f[x]]

\* What may become a row of the journal, as far as the admins care.
Known == [key : DedupKey, option : OptionKey \cup {NoOption}]

\* Whatever is on its way to the journal has the key of some question.
ViewerInv ==
    /\ Total(pc, Request)
    /\ \A r \in Request : pc[r] # "idle" => EventOf(r) \in Known
    /\ Total(call, Request)
    /\ vote \subseteq Known
    /\ queue \in Seq(Known)
    /\ batch \in Seq(Known)

Holds(a) == step[a] \in {"votes", "shards", "write"}

\* Ids are given out once, and a row lock has one holder.
HolderInv ==
    /\ Total(step, Admin) /\ Total(job, Admin) /\ Total(held, Admin)
    /\ Total(question, Question) /\ Total(question_option, Question)
    /\ \A q \in Question : question[q] # NoRow => q \in issued
    /\ \A a \in Admin :
          /\ step[a] \notin {"idle", "done"} =>
                /\ Target(a) \in Question
                /\ job[a].kind # "delete" => job[a].row # NoRow
          /\ step[a] = "insert" =>
                /\ job[a].kind = "create"
                /\ Target(a) \in issued
                /\ question[Target(a)] = NoRow
          /\ Holds(a) /\ job[a].kind = "delete" => held[a].status = "draft"
    /\ \A a, b \in Admin :
          /\ step[a] = "insert" /\ step[b] = "insert" /\ Target(a) = Target(b) => a = b
          /\ Holds(a) /\ Holds(b) /\ Target(a) = Target(b) => a = b

\* The journal holds votes on stored questions, and none on a question whose
\* options a handler is about to change after it found the journal empty.
JournalInv ==
    /\ \A event \in vote : question[event.key[1]] # NoRow
    /\ \A a \in Admin :
          step[a] \in {"shards", "write"} /\ RemovesOptions(a, held[a]) =>
              \A event \in vote : event.key[1] # Target(a)

AdminInv == ViewerInv /\ HolderInv /\ DecidedOnStoredCard /\ JournalInv

HasVote(hash, option) == IsHash(hash) /\ option \in DOMAIN hash /\ hash[option] > 0

\* Only requests that carry a vote reach the script.
VotingInv ==
    /\ \A r \in Request : pc[r] # "idle" /\ call[r].kind = "vote" =>
          call[r].option \in OptionKey
    /\ \A r \in Request : pc[r] \in {"eval", "journal"} => call[r].kind = "vote"
    /\ cast \subseteq {r \in Request : pc[r] # "idle"}

\* Every counted vote has left its mark in the shard of its key.
MarksInv ==
    /\ Total(counters, CounterKey)
    /\ \A c \in CounterKey : counters[c] = NotAHash \/ IsHash(counters[c])
    /\ \A r \in cast : HasVote(counters[ResultCounterKey(call[r].key)], call[r].option)

\* An admin who looks for votes has seen the marks of the votes counted before,
\* in the shards that have been read.
ReadOK(a) ==
    /\ Holds(a) => known[a] \subseteq Counted(a)
    /\ step[a] \in {"idle", "lock", "votes"} => shards[a] = <<>>
    /\ step[a] = "shards" =>
          /\ shards[a] \in Seq(Range(shards[a]))
          /\ Len(shards[a]) < COUNTER_SHARDS
          /\ \A r \in known[a] :
                LET i == CounterShard(call[r].key) + 1
                IN  i <= Len(shards[a]) => HasVote(shards[a][i], call[r].option)
    /\ step[a] = "write" /\ RemovesOptions(a, held[a]) => known[a] = {}

ReadInv ==
    /\ Total(shards, Admin) /\ Total(known, Admin)
    /\ \A a \in Admin : ReadOK(a)

LookInv == VotingInv /\ MarksInv /\ ReadInv

\* Columns and options of a card are those of versions of the question, maybe
\* of two; the options may be missing.
FromPast(q, c) ==
    /\ \E version \in past[q] :
          /\ c.status = version[1].status
          /\ c.show_time = version[1].show_time
          /\ c.duration_seconds = version[1].duration_seconds
    /\ c.options = NoOptions \/ \E version \in past[q] : c.options = version[2]

StoredInv ==
    /\ Total(past, Question)
    /\ \A q \in Question :
          /\ question[q] # NoRow => <<question[q], question_option[q]>> \in past[q]
          /\ \/ question_option[q] = NoOptions
             \/ \E version \in past[q] : question_option[q] = version[2]

\* So is what Redis has, and what an admin's handler is about to put there.
HandsOn(a) ==
    step[a] = "cache" /\ job[a].kind # "delete" => FromPast(Target(a), held[a])

CachedInv ==
    /\ Total(cache, Question)
    /\ \A q \in Question : cache[q] \notin {NoCard, Garbled} => FromPast(q, cache[q])
    /\ \A a \in Admin : HandsOn(a)

\* So is what a viewer's handler has in hand; at the script, the request has
\* passed by it.
AdmittedOK(r) ==
    /\ pc[r] \in {"load_options", "warm", "eval"} => FromPast(QuestionOf(r), card[r])
    /\ pc[r] = "eval" =>
          /\ RequireOpenVotingWindow(card[r], call[r].at) = "open"
          /\ call[r].option \in KeysOf[card[r].options]

AdmittedInv ==
    /\ Total(card, Request)
    /\ \A r \in Request : AdmittedOK(r)

CommittedInv == StoredInv /\ CachedInv /\ AdmittedInv /\ VotesFromCommittedCards

\* The rows a question of the run can have: where it starts, and what admins
\* may send for it.
RowsOf(q) ==
    PollRow \cup {j.row : j \in {k \in AdminJob : k.question = q /\ k.kind # "delete"}}

\* No edit moves the end of a broadcast so far that a dedup key may expire
\* while a vote can still be let in: the code does not enforce it.
EditsWithinMargin ==
    \A q \in Question : \A row, other \in RowsOf(q) :
        row.status = "published" /\ other.status = "published" =>
            ClosesAt(row) + MaxLatency <= ClosesAt(other) + SECOND * DEDUP_TTL_MARGIN_SECONDS

VersionsGiven ==
    \A q \in Question : \A version \in past[q] : version[1] \in RowsOf(q)

\* The key of a counted viewer outlives, by the whole margin, the window of a
\* version of the question.
KeysOutlive ==
    \A r \in cast : \E version \in past[QuestionOf(r)] :
        /\ version[1].status = "published"
        /\ ClosesAt(version[1]) + SECOND * DEDUP_TTL_MARGIN_SECONDS <= dedup[call[r].key]

-----------------------------------------------------------------------------
\* What the documents say and the code does not do

\* docs/02-architecture.md:51-53: the options are locked after the first vote,
\* so the card and the counters cannot part.
CountedOptionsStay ==
    [][\A r \in cast : KeysOf[question_option[QuestionOf(r)]]
                          = KeysOf[question_option'[QuestionOf(r)]]]_vars

\* question/service.py:152-153: the cache may lag by a fraction of a second
\* after an edit. Once nobody is in flight it has caught up, unless somebody
\* was told of a failure.
AllWentWell ==
    /\ \A r \in Request : answer[r] \notin {"unavailable", "internal_error",
                                            "connection_lost"}
    /\ \A a \in Admin : reply[a] \notin {"internal_error", "connection_lost"}

CacheCatchesUp ==
    InFlight = {} /\ AdminInFlight = {} /\ AllWentWell =>
        \A q \in Question : cache[q] \notin {NoCard, Garbled} =>
            question[q] # NoRow /\ cache[q] = Stored(q)

-----------------------------------------------------------------------------
\* Liveness

\* Every admin's request ends with an answer: nobody waits for a row lock for
\* ever.
AdminsAnswered == \A a \in Admin : (a \in AdminInFlight) ~> (step[a] = "done")
=============================================================================
