# Verification of the TV poll

TLA+ modules, TLC runs and TLAPS proofs about the poll service of this
repository: one anonymous question during a one-minute TV spot, viewers who
vote from a QR code, an admin who edits questions and reads sums. Paths below
are relative to `src/`; most of the code that matters is in `backend/app/`.

Contents: [the system](#the-system), [the modules](#the-modules),
[the runs](#the-runs), [fairness](#fairness-and-assumptions),
[the proofs](#the-proofs), [what is not modelled](#what-is-not-modelled),
[the plan](#the-plan).

## The system

One API process (uvicorn, `--workers 1`, asyncio) between browsers and two
stores. Handlers are coroutines: they interleave at every `await`, and only
there. PostgreSQL keeps the questions and a journal of votes; Redis keeps
everything the broadcast needs.

| Component | State it keeps | Operations | What makes it correct |
|---|---|---|---|
| Voting window and badge (`question/voting_window.py`, `question/models.py`) | none: computed from a card and the clock | closing time, gate, computed status | gate and badge agree at every instant; the window opens and closes once |
| Vote service (`vote/service.py`) | a card and a time per request in flight | form, vote | one vote per viewer and question; answers are true; only votes sent inside the window count |
| Atomic counter (`vote/atomic_counter.py`) | dedup keys with a TTL, counter shards, in Redis | one Lua script | both writes or neither; no increment lost |
| Vote journal (`vote/journal.py`) | bounded queue, worker, batch, in memory; table `vote` | enqueue, write, next batch, close | a counted vote is on its way, written or known to be lost; shutdown neither hangs nor drops |
| API process (`main.py`) | engine, Redis client, journal | start, drain, close | join before the clients are closed |
| Question cache (`question/cache.py`) | `question:{id}` in Redis, no TTL | get, set, evict | holds the stored question, or nothing |
| Question service (`question/service.py`) | tables `question`, `question_option` | create, update under a row lock, delete, read | options fixed once somebody voted; only drafts without votes are deleted |
| Result service (`result/service.py`, `store/counter_shards.py`) | `question_result`, counters | read the shards, rebuild from the journal | a rebuild keeps every vote the journal already has (later ones drop out of the sums, the `forgotten` ones below); sums add up; lost sums come back |
| Public API (`api/public.py`) | cookie `vid` in the browser | form, vote | one identity per browser for as long as it matters |
| Admin API (`api/admin.py`, `api/deps.py`) | none | routes to the two services | token check |
| Frontend (`frontend/src`) | page state | poll results, edit, vote | replies out of order, lost updates |

How they interact: the viewer's request asks the cache for the card, on a miss
PostgreSQL (two SELECTs) and then warms the cache; it checks window and option
with a time taken at its start; one Lua script reserves the viewer and counts
the vote; the event then goes to the journal, which writes it to PostgreSQL at
once or through the queue and its worker. The admin's edits write PostgreSQL
under a row lock, look at the counters and the journal for votes, and rewrite
the card after the commit. Results are the shards of Redis, or after a loss
the journal.

The hard behaviours: handlers interleaving between check and act; replies of
Redis lost after the effect; the journal lagging behind the counters, full,
failing, or dying with the process; shutdown while a batch is in the worker's
hands; TTLs against clocks; cards in Redis that are older than the database;
a rebuild racing votes; an admin deciding on votes that are still arriving; a
cookie that expires between two requests. `PROJECT.json` lists each of them as
a hazard, at its line, with the properties that cover it, or why none does.

## The modules

```
VotingWindow          clock arithmetic: gate, badge, dedup TTL
  WindowClock         a question under a running clock (MCWindowClock)
  PollStore           tables and Redis keys, one operator per statement or command
    VoteJournal       queue, worker, process
      VoteService     handlers of the form and of the vote
        VotePath      viewers, journal, process and clock (MCVotePath)
    CounterShards     how the sums are read
      QuestionService the admin's create, update, delete
        AdminPath     the same with admins, row locks (MCAdminPath)
      ResultService   the admin's sums and rebuilds
        ResultPath    the same with readers (MCResultPath)
  ViewerBrowser       one browser, its cookie, page and network (MCViewerBrowser)
BallotBox             what the poll promises; VotePath implements it, and goes
                      on doing so in AdminPath and ResultPath
VotingWindowProofs, WindowClockProofs,
VotePathProofs        types, one vote per viewer
  BallotBoxProofs     counters, answers, accounts, the refinement
    AdminVotesProofs  votes under the admins' hands (with AdminPathProofs)
    ResultPathProofs  sums and rebuilds
AdminPathProofs       row locks and decisions
ViewerBrowserProofs   the browser's identity
```

AdminPath and ResultPath extend VotePath and use its clock, its `PathInit`, its
type invariant `PathTypeOK` and its refinement mapping `Box` again. A step of
theirs is one of `PathNext`, which the lemmas about the way of a vote speak of,
or one of admins or readers (`StepsOfTwoKinds`, `StepKinds`): so the proofs
about viewers are not repeated, but used, for all three.

**VotingWindow.** Time is counted in ticks, `SECOND` of them to a second, so
that an instant may fall between two seconds as datetimes do; durations and
TTLs are whole seconds. `RequireOpenVotingWindow` returns the name of the
error instead of raising it.

**WindowClock.** The clock ticks and an admin saves the card at any moment
(`Save` stores any card the validators accept).

**PollStore.** PostgreSQL: `question` (a row or `NoRow`), `question_option`
(the list of a question, as one value), `vote` (a set of events). Redis:
`cache` (a card, nothing, or a JSON that does not parse), `dedup` (the instant
each key expires; `EXISTS` compares it with the clock), `counters` (a hash per
shard, or something that is no hash). SHA-256 is taken to have no collisions,
so a dedup key is the pair of question and viewer. crc32 is a constant
function: every distribution over the shards is allowed. Left out: names,
labels, IP hashes, `voted_at`, row ids, which no decision depends on. Event and
index are keyed by the pair (question, hash), as `uq_vote_question_dedup` is.

**VoteJournal.** `queue`, `unfinished` (asyncio's count behind `join`),
`worker`, `batch`. `WorkerTake` is one `queue.get()`, `WorkerFlush` the end of
the batch (full, or 50 ms over: time is not measured, so the interval may end
after any event), `WorkerWrite` the INSERT and its `task_done` calls.
`WriteBatch` succeeds as a whole or not at all. `lost` is a history variable:
events of which the code's own control flow has lost the last trace. Of
`close()` only the await of `join` is a wait of the model; cancelling the
worker is part of the same step. The last disjunct of an INSERT whose commit
went through while its reply did not differs from success only in a log line.

**VoteService.** One action per stretch of a handler between two awaits,
together with the store call it waits for; `pc[r]` names the call handler `r`
makes next. `Admit` is the code after the card has arrived: window, then option,
then on to the next call, with no await in between. Every Redis call may fail
without effect (`RedisFails`) or, where it writes, with its effect (second
disjuncts of `DropGarbled`, `WarmCache`, `EvalFirst`). redis-py is not pinned
below 6, whose default is to send a command again after a broken connection:
`EvalFirst` may therefore leave the handler at the same call, which then finds
its own key. Errors of PostgreSQL on the read path are a 500, as nothing
catches them. `cast` is a history variable: the requests the script counted.

**VotePath.** The composition, with the clock, process steps (SIGTERM, drained,
join, crash, restart) and the properties. Nobody edits questions here; AdminPath
is about that. Init: questions stored with
options or missing; cards cached, lost or unparsable; no votes; possibly
something alien on a counter key.

**BallotBox.** The abstract specification: ballots are cast at most once per
key and stay; receipts only for ballots; each ballot is written to the audit
or spoiled, once and for all. `VotePath!Box` maps the counted requests to
ballots, the `201` answers to receipts, the table `vote` to the audit and
`lost` to the spoiled ballots. The mapping makes the counters the authority
and the journal a copy, which is what the code claims to be.

**CounterShards.** `read_counter_shards` is a pipeline without MULTI, so Redis
may serve others between two HGETALLs: a reader asks for `NextShardKey` of the
hashes it has, until `AllShardsRead`. `_has_votes` and `get_results` both read
this way.

**QuestionService.** `step[a]` names the statement or command handler `a` makes
next: `insert` (create), `lock` (SELECT FOR UPDATE), `votes` and `shards`
(`_has_votes`), `write` (UPDATE or DELETE up to COMMIT), `cache` (SET or DEL
after it). `RowLocked` is derived from it: a handler between its lock and its
COMMIT holds the row. What happens under the lock and cannot be seen by others
is one step; the two looks for votes, which do not stop anybody from voting,
are steps of their own, one per shard. A COMMIT whose reply is lost leaves the
change and a `500`; a Redis error after the COMMIT is caught by nobody
(`CacheQuestion`, second outcome). `issued` are the ids of the identity column,
so that a deleted id does not come back. `past` and `known` are history: what
rows and options a question has had, and which votes were counted when a
handler took the lock.

**AdminPath.** Next is the one of VotePath with admins in it. PostgreSQL makes
an INSERT into `vote` wait while the question it refers to is locked
(`JournalWaitsForLock`, FOR KEY SHARE against FOR UPDATE): handlers with the
synchronous journal and the worker stand still meanwhile. A crash takes the
admins' transactions with it. SIGTERM and restart are left to VotePath.

**ResultService.** `at[b]` names the next statement; `mode[b]` tells
`get_results` from `rebuild_results`, into which the former may go over
(`NeedsRebuild`, decided on the badge computed when the card was read). The
transaction of a rebuild runs at READ COMMITTED: a GROUP BY, a DELETE and an
INSERT with a snapshot each. Handlers between DELETE and INSERT on one question
collide; the first INSERT wins, the others break on the primary key of
`question_result` and answer 500 (`Colliding`). `ReplaceCounters` is the MULTI
that deletes the shards and writes the sums into the first; if the reply of
EXEC is lost, the handler answers 503, or redis-py sends it all again, later
and over votes counted in between. `LoseCounters` is what `get_results` says
it is prepared for. History: `forgotten`, the counted votes that the counters
do not have any more, because a rebuild counted the journal before they were in
it or Redis lost them; `sure`, the votes an answer must contain.

**ResultPath.** Viewers, journal and readers. `owed` is a history variable: the
votes a request has to bring back, because when it came its question was
closed, the journal had all votes and Redis none. The debt is called off when
somebody replaces the counters by rows that lack one of them. Questions are
stored and cached and not edited, the process does not stop, as the header
says: the 404 of the result routes does not come up in its instances.

**ViewerBrowser.** One tab: `page[p]` is the `ViewerState` of the p-th load, or
`left` once another load has replaced it; the answer to a page that was left is
dropped with its cookie, as a browser does with an aborted request. A
connection may also break after the headers (`BreakInBody`): the cookie is
stored, and the page shows what it shows of a broken connection. Requests
overtake each other and may reach the API long after their connection broke.
The API handles a request in one step, which is what VotePath shows of it to a
viewer, and a vote that was counted may be answered `503`, or `409` when
redis-py has sent the script again. `ballots` are the counted votes with the
identity each was counted for. `vid` and `expires` are the cookie jar; identities are numbers in the order in which the
API makes them up.

## The runs

| Run | Instance | Asks |
|---|---|---|
| `window_clock` | 3 ticks per second, durations 1-2 s, margin 1 s, clock to 14 | `BadgeAgreesWithGate`, `BadgeOnlyAdvances`, `DedupKeyCoversMargin` |
| `vote_path_async` | 1 question, 2 viewers, 3 requests, queue of 1, batches of 2, clock stopped, both viewers on one of two shards | `PathTypeOK`, `CountersMatchVotes`, `VotesAccounted`, `AnswersHonest`, `UnfinishedExact`, `ShutdownLosesNothing`, `BallotBoxSpec` |
| `vote_path_clock` | 1 question (published, draft or missing), 2 viewers, 2 requests, 2 ticks per second, clock to 6, journal written at once, an alien value on one shard | `OneVotePerViewer`, `ReservedIffCounted`, `VotesInWindow` |
| `vote_path_live` | 1 question, 2 viewers, 2 requests, asynchronous journal, fairness | `RequestsAnswered`, `VotesSettle`, `ShutdownCompletes` |
| `admin_edits` | 1 question (live, draft or missing), 1 viewer with 1 request, 2 admins, each publishing for a tick later with other options, deleting or creating; 2 shards, clock to 1, margin 2 | `TypeOK`, `DecidedOnStoredCard`, `CountedVotesBlockEdits`, `VotesFromCommittedCards`, `JournalledOptionsStay`, `OnlyDraftsDeleted`, `AdminsAnswered`, `VotesSettle` |
| `admin_options` | 1 live question, 1 vote, 1 admin who changes the options | violates `CountedOptionsStay` |
| `admin_cache` | 1 live question, 1 request, 1 admin who moves or cancels it | violates `CacheCatchesUp` |
| `results` | 1 question, 2 viewers on the second of two shards, 2 readers (either may rebuild), clock to 1 | `TypeOK`, `CountersExact`, `AnswersWithinBounds` |
| `results_live` | 1 viewer, 2 readers, one loss of the counters, something alien on the first shard or not, fairness | `CountersExact`, `ResultsRecovered`, `ResultsAnswered` |
| `results_auto` | 1 question that opens at tick 1, 1 reader | violates `RebuildNeverStartsWhileLive` |
| `browser` | 1 show of two seconds, 3 page loads, 5 requests, cookie and margin of 3 s, clock to 3 | `TypeOK`, `OneVotePerBrowser`, `VoterRemembered`, `SuccessIsTrue`, `PagesSettle` |
| `browser_aged` | the same with a show "a day" earlier | violates `OneVotePerBrowser` |

Eight runs pass; four find what the documents say violated, see
[below](#where-code-and-documents-part). Deadlock is checked in the first four
but says little there, since a process can always crash or be restarted; the
runs with admins, readers and browsers have finitely much to do and may stop.
That nobody is stuck is what the liveness properties say. What the runs show:

- The badge and the gate are two pieces of code and agree at every tick; the
  rounding of the TTL keeps a dedup key through the whole margin and less than
  a second longer.
- Two requests of one viewer and one of another, with every failure and
  interleaving, count at most one vote per viewer, and the shards add up. A
  `503` promises nothing: the vote may or may not have been counted, which
  `AnswersHonest` leaves open on purpose, because the code cannot know.
- An event is never in two places and never nowhere. It is lost only by a full
  queue, a failed INSERT, a lost reply of the script, or a crash; an orderly
  shutdown loses nothing, and always ends.
- Admins: between lock and COMMIT the card in an admin's hand is the stored
  one; a vote counted before the lock was taken stops a change of the options
  or a deletion, whether it is in the queue, in the journal or in the last
  shard read; a vote in the journal keeps its question as it is; only drafts
  disappear. Nobody waits for ever, although the worker and its queue stand
  behind a row lock. Whatever card a vote was counted on, torn or stale, its
  row and its options were committed at some time.
- Sums: the counters are at every moment the counted votes without the
  `forgotten` ones, option by option. A read that a rebuild crosses never shows
  more votes than there are, because the sums move to the shard that is read
  first; with the shards read in the other order it would show them twice.
  `CountersExact` excuses the `forgotten` votes: that a rebuild during voting
  drops votes is what the code does and says (`result/service.py:83-85`), the
  property says that it drops no others. What brings them back is
  `ResultsRecovered`: a request for the sums of a closed question whose
  counters are gone shows every vote of the journal, also when two requests
  recover at once.
- Browser: broken connections, lost answers, retries and reloads give no second
  vote while the cookie is younger than a day, and "accepted" is shown only for
  a vote counted for the identity that is then in the jar, also if the cookie
  came with an answer whose body broke.

Bounds, and why they are enough. In `vote_path_async` three requests give one
viewer a double click or a retry while another viewer votes. Two votes can
count, which fill the queue of 1 (the second is dropped when the worker has not
yet taken the first) and a batch of 2, or leave one event in the batch and one
in the queue. The clock stands at 0, inside the window: keys do not expire
there. They do in `vote_path_clock`: the window covers ticks 1 and 2 of a clock
that runs to 6, the margin is one second (two ticks), so a key may expire at
tick 5, and a handler may be in flight for two ticks, as long as the margin and
no longer. Votes are sent before, in and after the window, and reach Redis
after its close. `MaxNow` bounds the clock in every run; nothing else is
capped, since each request is handled once and restarts bring the state back.
In the runs with admins and readers one question and two of them are enough for
every pair of handlers to race, two shards for a vote to be in the shard that
was, or was not yet, read; all votes go to the second shard, since a rebuilt
sum goes to the first. One viewer suffices in `admin_edits`, because an admin
asks only whether there is any vote; `results` has two votes, so that one may
be in the journal and another still on its way when a rebuild counts, but only
one option with votes: sums of different options never meet. `MaxLosses` bounds
the losses of the counters, `MaxSent` the requests of the browser: three loads
and two votes are a reload during each of the two tries.
Requests and the two options are interchangeable where the cfg declares
symmetry, viewers only where their votes go to one shard; the liveness run
declares none.

Every property has a mutant of the code (listed in `PROJECT.json`) under which
its run finds it violated: `int` for `ceil`, HSET for HINCRBY, a script
without EXISTS, SET before TYPE, `task_done` only after success, `close()`
waiting for an empty queue, no flush interval, and so on. The definitions
marked "Mutant:" in the modules exist for that and are used nowhere else.

### Where code and documents part

- `admin_options`: "options are locked after the first vote, so card and
  counters do not part" (`docs/02-architecture.md:51-53`). The lock is on the
  row, votes are counted in Redis. A viewer whose handler has passed the option
  check is counted after `_has_votes` looked and before the COMMIT. What does
  hold is `CountedVotesBlockEdits` (votes counted before the lock) and
  `JournalledOptionsStay` (votes in the journal).
- `admin_cache`: the cache "could lag by a fraction of a second after an edit"
  (`backend/app/question/service.py:152-153`). A handler that missed the cache
  and read PostgreSQL before the edit writes its card after the admin's; the
  key has no TTL, so the old card stays, and a cancelled question stays open.
- `results_auto`: "while the question is live no automatic rebuild is started"
  (`docs/01-specification.md:81`). The badge is computed when the card is read,
  the rebuild starts after the shards have been read.
- `browser_aged`: "votes on a question once from one browser"
  (`docs/01-specification.md:14-15`; the exceptions at 54-55 do not name this
  one). The cookie lives a day from the first form ever and is not renewed.

## Fairness and assumptions

`FairSpec` assumes weak fairness of each handler's next step, of the worker,
of the drained process going on to its lifespan's `finally`, and of `join`
returning once it may. The event loop runs every ready task, and a store call
either returns or breaks the connection; the code sets no timeouts, so a store
that neither answers nor breaks would block its handler, and no liveness is
claimed then. No fairness is assumed of clients, the clock, SIGTERM, crashes,
or of anybody restarting a crashed API. Weak fairness is enough: a handler or
worker that can move is never disabled by somebody else, except by a crash,
which the properties count as an end (`connection_lost`, `lost`, `crashed`).

In `AdminPath` a statement that waits for a row lock may wait as long as the
lock is held. A failure of it must not count as the progress that fairness
promises, or the lock would be harmless by assumption; `ViewerGoesOn` and
`JournalGoesOn` therefore leave out the failures of an INSERT that could
succeed, and `AdminGoesOn` has none. In `ResultPath` a resent MULTI is no
progress either (`ResultAnsweredOn`): redis-py repeats a command only so often.
In `ViewerBrowser` a connection on which nothing comes breaks some
day; nothing is assumed of the viewer, the API or time.

`MaxLatency` is an assumption on the environment, used by `Tick`: no handler
is in flight for longer than the margin of the dedup keys, a day. It is needed.
A handler computes its TTL from the time of its start; one that waited
longer than the margin for a store before its script runs could find the
viewer's key expired and count the viewer again. The code does not enforce
any limit; with a day of margin the assumption is mild, and it is named
(`LatencyAssumption`) where the proofs use it.

## The proofs

TLAPS checks these for every value of the constants allowed by the named
ASSUMEs: any number of questions, viewers, requests and shards, any crc32, any
queue and batch size, either mode of the journal.

| Theorem | States |
|---|---|
| `VotingWindowProofs!DedupTtlCoversMargin` | the TTL covers the margin to less than a second |
| `WindowClockProofs!BadgeCorrect`, `DedupKeyCovers`, `BadgeAdvances` | the three properties of `window_clock` |
| `VotePathProofs!TypeCorrect`, `UnfinishedCorrect` | types; `join` counts what is in memory |
| `VotePathProofs!OneVote`, `Reserved`, `InWindow` | one vote per viewer; reserved exactly when counted; only inside the window |
| `BallotBoxProofs!Honest`, `CountersCorrect`, `ShutdownSafe` | answers are true; shards add up; an orderly stop loses nothing |
| `BallotBoxProofs!Accounted`, `Refinement` | every event in exactly one place; `PathSpec => BallotBoxSpec` |
| `AdminPathProofs!AdminInvariant` | the inductive invariant of viewers and admins together |
| `AdminPathProofs!DecisionsHold`, `JournalledStay`, `DraftsOnly` | admins decide on stored cards; journalled votes keep their question; only drafts are deleted |
| `AdminVotesProofs!EditsBlocked`, `CommittedVotes` | votes counted before the lock block edits; a counted vote rests on committed versions of its question |
| `AdminVotesProofs!LookInvariant`, `CommittedInvariant` | the inductive invariants of the two |
| `AdminVotesProofs!AdminPathTypes` | types, with admins at work |
| `AdminVotesProofs!EditsUnseen` | if edits keep within the margin, `Spec => BallotBoxUnderEdits` |
| `AdminVotesProofs!OneVoteUnderEdits` | under the same hypothesis no viewer is counted twice, however the broadcast is moved |
| `AdminVotesProofs!CountersUnderEdits` | under the same hypothesis the shards add up |
| `AdminVotesProofs!TypedInvariant`, `EditsInvariant` | the inductive invariants of the two |
| `ResultPathProofs!ResultTypes`, `RebuildsUnseen` | types with readers at work; `Spec => BallotBoxUnderRebuilds` |
| `ResultPathProofs!CountersAreExact` | the counters are the counted votes but those a rebuild missed or Redis lost |
| `ResultPathProofs!AnswersAreWithinBounds` | no answer shows more votes than there are, or fewer than it must |
| `ResultPathProofs!LostSumsRecovered` | a request that finds the counters of a closed question gone shows every vote of the journal |
| `ResultPathProofs!ReaderInvariant`, `SumsInvariant`, `BoundsInvariant` | the inductive invariants of these |
| `ViewerBrowserProofs!BrowserTypes`, `SuccessTold` | types; the page says "accepted" only when a vote on its question counts for the identity in the jar |
| `ViewerBrowserProofs!BrowserVotesOnce`, `VoterIsRemembered` | while all shows fit into the life of a cookie: one vote per browser, and it keeps the identity it voted with |
| `ViewerBrowserProofs!BrowserInvariant`, `OneIdentity` | the inductive invariants of these |

The argument, in the order of the modules:

1. `TypeInv`: types, together with what a handler has established at each call
   (`HandlerInv`: at `eval` it holds a card whose gate let its time in, for a
   vote) and `UnfinishedExact`. Types alone are not inductive: that the expiry
   written by the script is a number needs the card, that `unfinished` stays
   a natural number needs the count to be exact.
2. `CardInv`: without edits every card, cached or held, is the stored question.
3. `LatencyInv`: nobody has been in flight longer than `MaxLatency`.
4. `CountInv` is `OneVotePerViewer`, `ReservedIffCounted` and `VotesInWindow`
   together. Only the script counts (`OnlyEvalFirstCounts`). If it counts a
   viewer who was counted before, the earlier vote left a key that lives at
   least until the close of the window plus the margin (`VotesInWindow`), while
   this handler passed the gate before the close and is younger than the
   margin, so the key still exists (`FirstVoteIsFirst`): contradiction.
5. `AnswerInv` adds that votes reach the journal only counted; `CountersInv`
   that finitely many votes are counted, so that cardinalities can be added to;
   `ProcessInv` that queue, batch and handlers live inside a running process.
6. `AccountInv`: the sets of events at the journal, queued, in the batch,
   written and lost are disjoint and together the events of the counted votes
   (`Places`). Each step moves events from one set to another. One vote per
   viewer makes `ON CONFLICT DO NOTHING` skip nothing (`InsertsAll`).
7. `Refinement`: `EvalFirst` is `Cast`; of every other step it is enough that
   nothing counted changes, what is settled stays settled, and the places are
   disjoint before and after: it is a `Settle` of whatever has been added.

8. `AdminInv`, of AdminPath: a row lock has one holder and an id one inserter
   (`HolderInv`); the holder's card is the stored one (`DecidedOnStoredCard`);
   the journal holds votes of stored questions only, and none of a question
   whose holder went past the journal's half of `_has_votes` to change its
   options (`JournalInv`). The last is kept because new rows wait for the lock
   (`OthersKeep`); it needs `ViewerInv`, that whatever is on its way to the
   journal names some question. A COMMIT touches one question that nobody else
   holds or inserts (`WriteKeeps`), and only a COMMIT changes the tables
   (`TablesChange`), so the two action properties follow from `CommitChanges`.
9. `LookInv`: a counted vote has left a mark that no step of AdminPath takes
   away (`MarksInv`, `HIncrByMarks`), and the shards an admin has read contain
   the marks of the votes known at the lock (`ReadOK`). The shards are read at
   different times while viewers vote, but each of those votes has one shard,
   and the mark was in it before the first was read (`CheckShardReads`). With
   all shards read and no vote found, no vote was known.
10. `CommittedInv`: a card may mix the row of one version and the options of
   another, and may be old, but each half is of a version that was committed
   (`FromPast`), in Redis (`CachedInv`), at a viewer's script (`AdmittedInv`)
   and with an admin between COMMIT and SET (`HandsOn`). Versions are only
   added to (`PastGrows`), and the verdict on a card depends on its halves
   apart (`PassesByVersions`).

11. `Typed`, of AdminPath: `TypeInv` again, the types of the admins' variables,
   and that a handler at work has one of the jobs of the run (`JobsGiven`).
   That a shard read is a hash, and that no shard too many is read, comes from
   `ReadInv` of 9.
12. `EditsInv`: without `CardInv`, which edits break, `CountInv` of 4 cannot be
   kept as it stands. What is left of it is `KeysOutlive`: the key of a counted
   viewer outlives, by the margin, the window of some version of the question,
   the one its card was made of (`ClosesAsVersion`, from `FromPast` of 10). A
   later vote of that viewer may be let in by another version; if that one
   closes no more than the margin, less the latency, after the first, the key
   is still there (`FirstsUnderEdits`). That is `CountsFirst`, all that the
   lemmas behind 5 to 7 need of cards and windows (`CountersStay`,
   `AccountStays`, `BoxSteps`), and so they hold here too. An admin's step
   changes nothing the ballot box sees (`AdminLeaves`).
13. `ReaderInv` of ResultPath: readers' types, that a reader holds the stored
   card, that its rows of the journal are votes on its question, and that what
   it must show was counted. With `PathInv` (1 to 6 but for the counters, which
   a rebuild replaces) it gives types and refinement.
14. `SumsInv`: for each question and option the shards add up to the counted
   votes that are not `forgotten`. A rebuild writes the number of rows of the
   journal that are for the option; rows are events of counted votes, and one
   vote per viewer makes them as many as the votes, so a count of rows is a
   count of votes. `SumOf` is the cardinality of a set of pairs
   and not a fold: folds need an induction.
15. `BoundsInv`: a reader in the middle of the shards will show, if nothing
   moves any more, the hashes it has and the shards still to be read (`Shown`).
   That is at most the counted votes and at least the `sure` ones. A vote adds
   to both sides; a rebuild moves sums into the shard that is read first, out of
   the reader's sight, and takes its votes out of `sure`.
   `RecoverInv` follows the votes a request owes: while it reads, every shard,
   read or still to be read, is empty, or is the first and has all of them
   (somebody else was faster); once it rebuilds, its rows contain them; and
   what it answers shows them (`RecoverOK`). Its question stays closed
   (`DebtOK`), so it may rebuild; a vote that is counted after all, of a
   handler that passed the gate before, ends the debt (`Owes`).
16. `TypeInv` and `TruthInv` of ViewerBrowser: no more identities are made up
   than requests were sent; an "accepted" on its way answers a vote counted for
   the identity that it brings or finds in the jar (`AcceptInv`).
17. `IdentityInv`: the jar was filled while a poll was open (`JarInv`), every
   request that matters carries its identity or comes from an empty jar
   (`CarryInv`), and all votes were cast under that identity (`BallotInv`).

The invariants of 8 to 17 were model-checked first, in the instances of
`admin_edits`, `results`, `results_live` and `browser` or larger ones: `EditsInv`
with two requests of one viewer and an admin, clock to 3 (10.7 million states),
`IdentityInv` with two shows (1.7 million).

Two theorems have a hypothesis that the code does not enforce:

- `ShowsWithinCookieLife`: no two instants at which polls are open lie a day
  apart. `OneShowFits` shows that a single show of legal length satisfies it
  (at most an hour, `question/models.py:37`, against a cookie of a day). It is
  needed: `browser_aged` is what happens without it.
- `EditsWithinMargin`: the ends of the windows a question may be given are less
  than the margin of the dedup keys apart, the latency included. It is needed:
  `update_question` lets the broadcast be moved at any time, and on an instance
  with a margin of 1 and a move by 2 TLC finds one viewer counted twice. The
  instances of `MCAdminPath` satisfy it (`MovesAssumption`). A browser drops
  its `vid` after a day and would come back as somebody else by then, so this
  is about a client that keeps it.

Only model-checked: the liveness properties (`RequestsAnswered`, `VotesSettle`,
`ShutdownCompletes`, `AdminsAnswered`, `ResultsAnswered`, `PagesSettle`), since
fairness and ENABLED are out of the prover's reach. Every safety property of
every passing run is stated by a theorem. The other way round, three theorems
state what no run of theirs repeats: `CountersUnderEdits`, `EditsUnseen` and
`RebuildsUnseen`, which carry `CountersMatchVotes` and the ballot box of
`vote_path_async` over to admins and readers, and `OneVoteUnderEdits` does so
for `vote_path_clock`: in the instance of `admin_edits` one request of one
viewer could not vote twice anyway.

## What is not modelled

- Two tabs of one browser: both may load the form without a cookie, and the
  later answer overwrites the identity the first has voted with. Listed as a
  hazard; the browser of the model has one tab.
- Loss of dedup keys in Redis, a change of `COUNTER_SHARDS` between two starts,
  and a window moved by more than the margin of the dedup keys: listed as
  hazards with the reason.
- `list_questions`, `get_question` on its own and `healthz`: they only read.
- The results page, the editor, the filters of the list: screens over routes
  that are modelled; nothing they do is shared but through those routes.
- Wrong request bodies (`422` of the validators), routes, token check, JSON,
  texts, logging: no shared state, or formatting.
- Deletion with votes in the journal: the RESTRICT of the foreign key is in
  `DeleteQuestion` but never strikes, since a new row waits for the row lock.
  The failing `HGETALL` of `_has_votes` on an alien key is in `CheckShard`, but
  no instance with admins has such a key.
- HINCRBY on a field that is no integer, which would fail after SET has marked
  the viewer (`vote/atomic_counter.py:38-39`): nothing in the program writes
  such a field. `ReservedIffCounted` is about a wrong type of the whole key,
  which the script tests for.
- Reads and idempotent writes that redis-py sends twice: the second GET, SET,
  DEL or HGETALL does what one that came later would do.
- SIGTERM, drain and restart together with admins or readers.
- A start that fails half-way, and more than one API process: the image starts
  one worker, and the journal is a singleton of it.
- Scripts for demonstration data and load, migrations, deployment files.

## The plan

What a later extension would add, in order of importance:

1. SIGTERM, drain and restart together with admins and readers, in the models
   and in the proofs: the lemmas about `PathNext` hold for them already.
2. Admins and readers together: a rebuild of a question that is being edited.
3. `ViewerBrowser` with two tabs; dedup keys lost by Redis.
4. `ResultsPage`: polling with replies out of order; `QuestionEditor`: copies
   edited at the same time.
