# A TLA+ model of the live sports platform

The platform ingests live MLB games, moves every pitch through Kafka, stores it
once in Postgres, enriches it, replays finished games and serves the tables over
HTTP.  This directory holds TLA+ modules of its moving parts, the TLC runs that
check them on small instances and the proofs that hold for every instance.
`PROJECT.json` lists components, runs, mutants, the source lines behind every
definition, findings, hazards and theorems.

## 1. Inventory

| part (under `src/services`) | state it keeps | operations | talks to |
|---|---|---|---|
| `mlb_ingestor` | `_game_tasks`; per task the in-memory cursor and the progress of a poll; Redis `ingestor:cursor:mlb:<pk>`; Postgres `games` | reconcile tasks with the schedule, load cursor, poll, upsert game row, publish, save cursor, cancel | MLB Stats API, Redis, Postgres, topic `mlb.events.raw` (key `game_pk`) |
| `persistence_consumer` | batch in hand, attempt number, `_paused`; aiokafka position and pauses; group offsets; Postgres `events`; topic `mlb.events.raw.dlq` | getmany, decode and validate, insert with retries, dead-letter, pause, commit, stop | Kafka, Postgres |
| `enricher` | batch in hand; Redis `enricher:state:<pk>`; group offsets; topic `mlb.events.enriched` | getmany, decode, project context, save, publish, commit | Kafka, Redis |
| `replay` | none beyond a cursor over `events` | stream a game's pitches in time order into `mlb.events.raw` | Postgres, Kafka |
| `query_api` | none | latest pitch per active game, pitches of a game | Postgres |
| `common`, `schemas` | none | settings, logging, metrics; event ids, proto/JSON conversion | all |

Parts interact through durable things only: two topics and the dead-letter topic,
the group offsets, two tables, and the Redis keys.  Each service is one asyncio
process; what interleaves is its awaits with the other processes, the broker's
group coordination, crashes, and, inside the ingestor, one task per game with
the schedule loop.

What is hard here, and what correctness means, by part:

* **Ingestor.**  Three writes per pitch (topic, Redis, memory) with a failure or a
  crash between any two; a cursor in memory that differs from the saved one after
  a failed poll; tasks that start, fail and are started again; games that leave
  the schedule.  Correct means: the cursor never covers an unpublished pitch, the
  topic shows pitches for the first time in order, duplicates have a cause,
  nothing is lost while the game can still be found.
* **Persistence consumer.**  Insert, dead-letter publish and commit are separate
  steps with at-least-once delivery around them; retries whose earlier attempt may
  have succeeded; a pause in the middle of a batch; rebalances under a batch in
  hand.  Correct means: no offset is committed over an untouched record, the first
  delivery of an event keeps its row, only poison pills are dead-lettered, and
  every partition either catches up or is visibly paused.
* **Enricher.**  State is saved before the publish, the publish before the commit.
* **Feed parser.**  A feed is corrected between polls: numbers and indexes are filled in
  behind the cursor, a guessed number meets a real one, one illegible pitch keeps the
  whole feed from being read.  Correct means: what a poll leaves out for good has one
  of these causes, and everything else follows the feed.
* **Replay, query API.**  The order of ties in `event_time`; rows written by one build
  of the schema and read by another.
* **All together.**  Two bookmarks over one stream, the ingestor's cursor and the
  consumer's offset, that know nothing of each other; replays into a live topic.

`PROJECT.json` lists the hazards with the line where each one bites.

## 2. Plan

| step | module | status |
|---|---|---|
| 1 | `PersistenceConsumer`: model, runs, proofs | done |
| 2 | `Ingestor`: model, runs, proofs | done |
| 3 | `Enricher`: model, runs | done |
| 4 | `AtLeastOnce`: the abstract consumer both consumers implement | done; proved for both |
| 5 | `EventsTable`: replay order and latest pitch | done |
| 6 | `FeedParser`: numbers, ids, illegible pitches, corrections of the feed | done |
| 7 | `Pipeline`: ingestor and replay composed with `AtLeastOnce` over one topic; `PipelineProofs` | done |
| 8 | `Payload`: message and JSON payload under two builds, part of `EventsTable`; `PayloadProofs` | done |
| 9 | The status filter of the query API against the games row (`Shown`, `ShownWhileActive`) | done |
| 10 | `EnricherProofs`: type correctness, `CommittedEnriched`, `EnrichedInOrder`, `EnrichedOnceUndisturbed`, `HotStateFollowsLog`, the refinement | done |
| 11 | `Order`, `OrderProofs`: sorting, shared by parser and readers | done |
| 12 | `FeedParserProofs`: type correctness, `RecordsFollowFeed`, `SkippedOnlyIfLateOrGuessed`, what a poll achieves | done |
| 13 | `EventsTableProofs`: ids as text, type correctness, `DisplacedOnlyByFeedTime`, `LatestMovesOn`, `ReadersAgree`, `ReplayKeepsContract` from `RoundTrip` | done |
| 14 | What the liveness properties rest on, as action properties: which steps a task, a batch or a poll in hand can take, and that each brings it nearer to its end | to do |

`AtLeastOnce` is the abstraction a pipeline needs of its consumers: `Pipeline` composes
the ingestor with it in the place of the two detailed consumers, which implement it.

## 3. Modules

### PersistenceConsumer

| model | code |
|---|---|
| `raw`, `committed`, `dlq` | the broker: topic `mlb.events.raw`, the group's offsets, `mlb.events.raw.dlq` |
| `table` | `events`: which payload has the row of an `event_id` |
| `position`, `clientPaused` | aiokafka's fetch position and pauses, lost with the assignment |
| `paused` | `self._paused` of `consumer.py` |
| `nxt`, `end`, `tp`, `attempt` | the batch `getmany` returned, the place of the two nested loops in it, `attempt_idx` of `_write_with_retry` |
| `exhausted` | history: records that raised `RetryBudgetExhaustedError` |
| `GetMany`, `Handle` | `run`: `getmany`, the loops, decode and `_validate_spine` |
| `Insert`, `InsertRejected`, `RetryInsert`, `ExhaustBudget` | the retry loop of `_write_with_retry`, `insert_pitch`, `classify_exception`, `_pause` |
| `PublishDlq`, `Commit` | `publish` of `dlq.py`, `_commit` |
| `Crash`, `Stop`, `Start` | an exception out of `run`, a kill, `stop_event`, a new process |
| `Produce`, `Rebalance` | any producer of the topic (ingestor, replay); the group coordinator |

A payload is a model value with three facts: its id, its partition, and its kind.
The kinds are what the code tells apart: *malformed* (does not decode, or fails
validation), *unstorable* (the insert raises `ValueError`: poison), *unnamed* (an
enum number without a name: `KeyError`, which `classify_exception` calls transient,
so that every attempt fails), and storable ones.  `Produce` lets any payload arrive at any
time, here and in `Enricher`: more than what the two `publish_pitch` write.  A transient failure of a storable
record may or may not have stored the row.  A failure of the dead-letter publish or
of the commit leaves `run`, and may have taken effect.

`Rebalance` describes one consumer in its group, as deployed: a partition is revoked
and given back.  The process registers no rebalance listener, so the batch in hand
and `_paused` survive.

### Enricher

| model | code |
|---|---|
| `raw`, `committed`, `position`, `nxt`, `end`, `tp` | as above |
| `hot` | Redis `enricher:state:<pk>`; a missing key and a new `GameContext` are the same to `get` |
| `ctx` | the context `handle` has read |
| `sink` | `mlb.events.enriched`: for each game the offsets of the raw records the events were made from |
| `Handle` | the first half of `handle`: decode, `get` |
| `SaveContext` | `_project`, and `set` when the context changed |
| `Publish`, `Commit` | publish, `_commit`; an `EnrichmentError` goes from `Handle` to `Commit` |
| `LoseContext` | Redis forgets a key |

`GameContext` has more fields than the two modelled; `_project` changes only inning
and outs.

### AtLeastOnce

What a consumer promises to its topic: the records of a partition are dealt with in the
order of its log (`Finish`), perhaps together with copies that follow; what was dealt
with stays so; an acknowledged offset lies above records that were dealt with.  An
acknowledgement may move back.  A record needs nothing when it arrives only if its
payload is `Ignored` or it copies one dealt with.  `Contract` in both consumer modules is
the refinement mapping: `log` is `raw`, `acked` is `committed`, and `done` is computed
from the tables and topics the consumer writes, not from a history of its own actions.
For the persistence consumer `Id` is the event_id and nothing is ignored; the enricher
tells payloads apart one by one and ignores the unreadable ones.

### Pipeline

`Ingestor` with `done`, `acked` and `replays`; `Consumer` is an instance of `AtLeastOnce`
whose log is the ingestor's `raw`.  `Ingest` is a step of the ingestor whose publish, if
it is one, arrives at the consumer; `Replay` puts a pitch that was dealt with into the
topic again, at any moment of the game; `Consume` is a step of the consumer.  `done`
means stored, dead-lettered or given up on if the consumer is the persistence consumer,
and enriched if it is the enricher.  A game's records are a log of their own, since a
game has one partition and nothing in the contract relates games.

### Order

`Before` compares pairs of numbers, at-bat and pitch, by the first and then the second, as
`is_after` does with a cursor and a pitch, and as the walk over a feed meets them;
`Precedence` is the same as a relation.  `InOrder(S, before)` is what `ORDER BY` and the
parser's walk over the feed make of a set: each member stands behind as many as precede
it.  `Ingestor`, `FeedParser` and `EventsTable` use them.

### FeedParser

| model | code |
|---|---|
| `feed` | `allPlays`, each with or without `atBatIndex`, and their `playEvents` of four kinds: no pitch, numbered, with an index only, with neither; legible or not |
| `Listed`, `Number`, `EventId` | the walk of `extract_pitch_events`: its `continue`s, `pitchNumber` or `index`, `derive_pitch_id` |
| `Parsed` | the pitches whose fields are copied and validated, any of which may raise |
| `Poll` | `_poll_game_once` when no call fails: `extract_pitch_events` outside the inner `try`, `is_after` against the cursor of the poll's beginning, publish and save for each pitch left |
| `FillInEvent`, `FillInPlay` | MLB completes or corrects what it listed |
| `late`, `guessed` | histories: pitches that became listed behind others; at-bats with a pitch polled without its number |

Failures inside a poll are the subject of `Ingestor`, where a feed has no flaws; here a
poll is one step.

### Payload

The two forms of an event and the conversions of `proto_utils.py`.  A build of the schema
is what the descriptors of its generated code say: fields with their kinds and the short
names of enum numbers.  `Flatten` is `proto_to_payload_dict`, `Rebuild` is
`payload_dict_to_proto`; `IsBuild` is what the rules of `schemas/proto/README.md` make of
every build.  Field values are opaque; a timestamp becomes its ISO text, an enum number its
short name, `raw_payload_json` the JSON it is the text of.  The column is JSONB, which
keeps a value but neither the order of its keys nor its white space, so the text that
comes back is another one of the same value (`Text`, `TextOfColumn`).  `Part` says what
should come through.

### Ingestor

| model | code |
|---|---|
| `state`, `listed`, `feed` | MLB: a game's state, whether today's UTC schedule lists it, the pitches of its live feed |
| `raw`, `redis`, `row` | topic `mlb.events.raw` for a game, `ingestor:cursor:mlb:<pk>`, `games.status` |
| `task` | the entry in `_game_tasks` and where the task is |
| `mem`, `new`, `todo` | `cursor` of `_game_loop`, `new_cursor` and the rest of the feed in `_poll_game_once` |
| `Reconcile` | one pass of the schedule loop: `fetch_schedule`, the live games, `_reconcile_games` |
| `LoadCursor`, `LoadCursorFails` | the first lines of `_game_loop`, outside its `try` |
| `Fetch` | `fetch_live_feed`, `upsert_game` (best effort), the pitches `is_after` lets through |
| `Publish`, `SaveCursor` and their failures | the loop of `_poll_game_once` |
| `Crash`, `Restart`, `LoseCursor` | cancellation or kill, a new process, a flushed Redis |
| `Shown` | the query API's choice of active games: `status NOT IN (...)`, which a missing row does not pass |
| `late`, `clean` | histories: pitches a feed listed behind others; no failure between publish and save so far |

A pitch is its pair of at-bat index and pitch number; a feed lists its pairs in
order, so it is a set.  `is_after` is named as in the code: it says that the pitch is
at or before the cursor.  A poll that fails before its first publish changes nothing
and needs no action.  `Rollover` takes a game off the schedule when the UTC day ends,
whatever its state: one that starts after midnight UTC is listed under the day before,
and never gets a task.  A graceful shutdown cancels the tasks at an await, like a kill.

### EventsTable

The `events` rows of one game, and how pitches get there.

| model | code |
|---|---|
| `clock`, `thrown`, `start` | MLB: the timestamp of a feed, when each pitch was thrown, the `startTime` the feed gives (`Missing`: listed without one) |
| `Throw`, `List` | MLB: a pitch is thrown; it is listed, perhaps after later ones, or its `startTime` is filled in |
| `batch`, `Fetch` | `_poll_game_once`: the pitches of a feed behind the cursor, each with the `event_time` it has in this feed (`EventTime`: `startTime` or the feed's timestamp) |
| `topic`, `Publish`, `GiveUp` | the loop of `_poll_game_once`, pitch by pitch, and what breaks it off: a publish or a save that raises, the end of the process |
| `table`, `payload`, `Store` | Postgres, row by row: `insert_pitch` of the persistence consumer with `ON CONFLICT (event_id) DO NOTHING` |
| `live`, `writer` | histories: the record and the build a row was made from |
| `RowOrder`, `Begin`, `PublishRow`, `Complete`, `Abort` | replay: the `ORDER BY` of `stream_pitches`, the rows its cursor sees, the loop of `replay_game` |
| `LatestBefore`, `Latest` | the query API's `DISTINCT ON`, with an `ORDER BY` of its own |
| `LaterRow`, `LatestFirst`, `Recent` | its list of a game's pitches under a limit, with another |

`EventId` is the text after the common prefix, digits and a colon, compared byte by
byte, as the Postgres image's collation does.  The colon comes after the digits there.
The three `ORDER BY` clauses are three definitions: that they agree is what
`ReadersAgree` says.  `table`, `payload` and the histories are functions over the pitches
that have a row (`Stored`).  The `payload` of a row is made by `Flatten` of the storing
build from the message of the publishing build, and `Rebuild` of the replaying build
makes a message of it again.

Two actions allow more than the code does, which takes nothing from what is shown.
The cursor of a `Fetch` is any published pitch, or none: which one it is after a failed save,
a restart or a lost key is the subject of `Ingestor`.  `Store` takes the records of
the topic in any order and any number of times: redelivery, and records whose budget
ran out, are the subject of `PersistenceConsumer`.  A replayed copy finds a row under
its id, and needs no action.

Of MLB it is assumed that a game's pitches are thrown in the order of their numbers, at
different times, that a `startTime` is the time of the throw, and that a feed's
timestamp is not earlier than the throw of any pitch the feed lists.

## 4. Runs

Passing runs:

| run | properties | bounds |
|---|---|---|
| `persistence` | `CommittedAccounted`: nothing untouched is ever below the committed offset. `FirstDeliveryWins`: a correction or replayed copy never takes a row. `DeadLettersArePoison`. `CommitsRewindOnlyAfterRebalance`. `AtLeastOnceConsumer` | 2 partitions, 5 payloads (two versions of one pitch and one of each failing kind), log 2, batch 2, 1 retry, 1 crash, 1 rebalance |
| `persistence_liveness` | `EventuallyAccounted`, `CatchesUp` | the same with 3 payloads |
| `ingestor` | `CursorCovers`: the saved cursor covers only published pitches. `NothingSkipped`: first publications are in feed order. `CleanRunNoDuplicates`. `LostOnlyIfUndiscoverable`, `ShownWhileActive` (liveness): as long as a game has its task, the query API comes to show it as active until its end and not after | 1 game, 3 pitches in 2 at-bats, 2 faults, 1 crash, 1 late pitch |
| `enricher` | `CommittedEnriched`, `EnrichedInOrder`, `EnrichedOnceUndisturbed`, `HotStateFollowsLog`, `AtLeastOnceConsumer`, `EventuallyEnriched` | 2 partitions, 2 games on one of them, unreadable records on both, log 2, 1 crash, 1 rebalance, 1 lost context |
| `replay` | `DisplacedOnlyByFeedTime`: in a replay a pitch stands behind a later one only if it was published without its `startTime`, and never behind one thrown after the feed it was taken from. `ReadersAgree`: replay, latest pitch and list of pitches show one order. `LatestMovesOn`: the latest pitch never goes back in time, nor does its row change time. `ReplayKeepsContract`: a replayed pitch is the published one, as far as the builds on its way know it | 2 pitches whose ids have another order as text, 3 ticks, 2 records in the topic, an old and a new build |
| `feed_parser` | `RecordsFollowFeed`: no pitch twice and no id for two, unless a number was guessed. `SkippedOnlyIfLateOrGuessed`. `ReadableGetsThrough` (liveness) | 2 plays of up to 3 events, 1 flaw at a time |
| `pipeline` | `DealtInFeedOrder`: what a consumer has made of a game has no hole. `NoLagNoLoss`: at the end of the log, the cursor covers nothing the consumer has not dealt with. `ListedIsDealtWith` (liveness) | 1 game, 2 pitches, 1 fault, 1 crash, 1 late pitch, 1 replay |

Every module with actions has its type invariant checked by one of these runs.

Why these bounds show the interesting cases.  A batch of two records is the
smallest in which one record fails and the next succeeds; a log of two has two
deliveries of one id, and two partitions let a batch leave a partition and the
rebalance hit either the one in hand or the other.  One retry separates the first,
the repeated and the last attempt; more repeat the middle one.  One rebalance is
enough for a stale batch and a stale `_paused`; one crash for each gap between two
durable steps.  In the ingestor a failed poll, a lost cursor and a crash are faults of
different kinds, and two faults with a crash combine any three of them; three pitches
in two at-bats reach both clauses of `is_after` and a poll with a published, a
failing and a waiting pitch.  Games do not share state in the ingestor (the proofs
cover any number); in the enricher they share a partition.  In `feed_parser` a play of three events
lets a guessed number collide with a real one before or after it, a second play shows
what reaches beyond the at-bat, and flaws are filled in and come again, so that one at a
time makes late and guessed pitches meet.  In `pipeline` two pitches are a record and
the one that must not come before it; fault, crash, late pitch and replay can all
happen in one behaviour, and the proofs cover every number of each.  In `replay` the
disorder is always between two pitches, and the two have numbers 2 and 10; three ticks
leave time between the throws and before the feed; two records are the two
pitches, from one poll or from two, or one of them published again with another time.
Publisher, storing and replaying service each run the old or the new build.

Runs that end in a violation, each of one sentence the repository's documentation
says and the code does not do (`findings` in `PROJECT.json` has the quotations):

| run | violated | what happens |
|---|---|---|
| `persistence_loss` | `ExhaustedStaysUncommitted` | the record behind the failed one in the batch in hand commits past it: it is not delivered again |
| `persistence_unpaused` | `ExhaustionPauses` | after a rebalance the partition is in `_paused` but not paused, and `_pause` returns early |
| `ingestor_gap` | `EveryPitchPublished` | a game that ends or leaves the UTC day while the process is down is never polled again |
| `feed_ids` | `IdsAreDistinct` | the second pitch of an at-bat, without `pitchNumber`, gets its index 1, the number of the first |
| `enricher_stale` | `HotStateCurrent` | a rebalance under a batch in hand and a crash leave an older context in Redis with everything committed |

Read while modelling, not checked by a run: a failed poll keeps the in-memory cursor of its
beginning, so that the next one publishes again what the saved cursor covers (`ingestor.py:12`
says "No events are re-published"; `CleanRunNoDuplicates` holds); the tasks of finished
games poll on (`ingestor.py:8`); of two pitches with one `event_time` number 10 is replayed
before number 2 (`replay/publisher.py:3-4`; `DisplacedOnlyByFeedTime` bounds it), and number 2
is the one shown as "that game's most recent pitch" (`query_api/db.py:34`);
`handler.py:23` speaks of 5 attempts
where five delays make six; the product document (`sports-platform-prd.md:108`) has
the persistence consumer read enriched events, the code reads raw ones; the lag gauge
subtracts the position, where its description has the committed offset.

### Fairness

Weak fairness of the process's own steps: an asyncio task whose await completes runs
on, and `getmany` returns what the broker has (its timeout is not an excuse for ever).
Of the outcomes of an insert none is preferred: the fairness is of their disjunction,
so that a database that fails at every attempt is allowed.  `Start` and `Restart` are
fair: something starts a process that ended.  For the services this is an assumption
on the deployment: `docker-compose.yml` sets `restart: unless-stopped` for the
infrastructure only.  Rebalances, crashes, failures and MLB owe nothing.  In `pipeline` the
consumer goes on dealing with records: the enricher does (`EventuallyEnriched`), the
persistence consumer unless it has paused the partition (`EventuallyAccounted`), so that
`ListedIsDealtWith` says of the table only what holds while the partition is not paused.  In
`feed_parser` only the poll is fair, and what is promised rests on MLB's feed staying
legible.  Liveness
runs bound the failures, so they say: once failures stop, the rest happens.

## 5. Proofs

The theorems about a module `M` are in `MProofs`; those about sorting are in `OrderProofs`.
Every safety property that a passing run checks is also a theorem, and so are both
refinements.  The theorems hold for all values of the constants: any number of
partitions, games, payloads, pitches, builds, polls, retries, faults, crashes and
rebalances.  They use only the named assumptions of the modules: `Id`, `Home` and the
kinds are functions and sets over payloads, one id has one home partition (it starts
with the key), pitches are pairs of naturals, finitely many in the game of
`EventsTable`, the bounds are naturals.  `BuildsAssumption` says of the builds in use what
`schemas/proto/README.md` demands of them, and that each can name the sport the parser
sets; `NullAssumption` that JSON null is no pitch and no time.  TLC evaluates all of them on
the instances of the runs.

**Persistence consumer.**  `CommittedAccounted` is not inductive: a commit is right
because of where the batch in hand stands.  The invariant proved is

    IInv == TypeOK /\ InRange /\ Progress /\ Stage /\ DeadLettersArePoison

`InRange` keeps offsets inside the log.  `Progress` is the heart: everything below the
committed offset *and* below the place in the batch is accounted for, and what was
fetched is either that or still in the batch; without its second part a rebalance that
leaves a stale batch behind would break it.  `Stage` says that the record about to be
dead-lettered is poison and the one about to be committed has had its effect.  All parts
rest on `Grows` (`NothingTakenBack`): logs, rows, dead letters and exhausted budgets
only grow, so what is accounted for stays so.

* `CommittedAreAccounted`, `DeadLettersPoison`, `TypeCorrect` follow from `IInv`.
* `NoRewindWithoutRebalance` adds `InStep`: without a rebalance the committed offset
  is never ahead of the place in the batch.
* `FirstWins` adds `Delivered`: rows were once records, in their key's partition.
* `ImplementsAtLeastOnce`: each step is an arrival, an effect, an acknowledgement or a
  stutter of `AtLeastOnce` (`StepKinds`).  That effects come in the order of the log is
  `Progress` again, and that an arriving record may count as dealt with at once needs
  `DeliveredAlways` and `ExhaustedAlways`: a row or an exhausted budget under its id comes
  from a copy in the log.  The crash whose commit took effect is an acknowledgement,
  the one whose dead letter did is an effect.

**Enricher.**  The consumer's part is the same argument: `IInv` has `InRange`, `Progress`
and `Stage`, and `AtHome`, that a readable record is on the partition of its game; without
it a record of one game would be dealt with in the topic of another.
`CommittedAreEnriched` follows.

* `FirstSeenInOrder` is inductive only together with `Progress`: when a record is
  published, the earlier ones of its game are below the place in the batch and dealt with.
* `OnceUndisturbed` adds `InStep` (no position was reset, so the batch ends where aiokafka
  stands) and `Past`: what is in the topic lies before the place in the batch, or is the
  record in hand once it was published.
* `HotStateFollows` adds `HotStage`: the saved context of each game is the last known one
  at the place in the batch or one record further, what was read is still in Redis, and
  what is saved is what is known with the record in hand.  A crash after the save is why
  "one record further" is there: the record projected again gives the same context.  The
  last known value of a field is a `CHOOSE` of a greatest offset, which exists by
  `Greatest` of `OrderProofs`.
* `ImplementsAtLeastOnce`: `Publish` is an effect, perhaps of several copies of a payload
  at once; `Commit` and the crash that committed are acknowledgements.

**Ingestor.**  Per game, `GInv` consists of `Listed` (what the variables hold was in
the feed), `HonestCursors` (the saved cursor, the one in memory and the one about to
be saved cover only published pitches), `NoHole` (before a pitch a poll is still to
publish, each promised one is published or in the same poll) and `SeenInOrder`.
`CursorNeverSkips` and `FirstSeenInOrder` follow.  `CleanRunsPublishOnce` needs
the converse of honesty, `CInv`: in a clean history the cursors cover everything
published.

**Pipeline.**  The ingestor's invariant is that of `IngestorProofs`; the consumer adds
`DoneInv`, a record was dealt with when its turn came or as a copy of one whose turn had
come, and `AckedInv`, that `acked` lies within what is done.
`DealtInFeedOrder` follows from `NothingSkipped` and the consumer's order: before a record
in the log stands the first publication of every earlier pitch, and it was dealt with
before.  `NoLagNoLoss` follows from `CursorCovers`.  Nothing is assumed of the consumer
but its contract.

**Payload.**  `RoundTrip`: for any two builds that agree on the fields and the enum numbers
both know, and any message whose enum numbers both can name, `Rebuild` of the one after
`Flatten` of the other gives the part of the message both know, its JSON text with the column's layout.  It
rests on
`ValueComesBack`, `NullIsSilent` (only an empty or null text is null in JSON) and
`FlattenKeys` (no two fields share a key).

**Order.**  `OrderProofs` is what the last two rest on.  `Least` and `Greatest` (a set of
naturals with a member has a least one; with a bound, a greatest one) stand in for
induction: a fact about all numbers is proved by there being no least counterexample.
`InOrderLists`: for a strict total order of a finite set, `InOrder` has each member once
and in order.  `OneListing` and `Reversed`: there is only one such list, and the list of
the converse order is the same one read backwards.

**Feed parser.**  Events keep their places, and numbers grow with them (`NumbersGrow`), so an
order of places is an order of ids where no number was guessed.  The invariant is

    IInv == TypeOK /\ Traced /\ CursorAtEnd /\ InSequence /\ Ahead

`Traced`: a record is of a listed pitch and carries its number, unless numbers were guessed
in its at-bat.  `CursorAtEnd`: the cursor is the id of the last record.  `InSequence`: records
stand one behind the other.  `Ahead` is the strengthening: what is listed and neither
published nor late stands behind the last record, or in an at-bat with a guess; corrections
preserve it because what they list behind a listed pitch is late.  `OrderOfTheFeed` and
`NothingSkippedOtherwise` follow.  `PollsCatchUp` is the safe half of `ReadableGetsThrough`:
every poll that goes through catches up, and TLC shows that one goes through.

**Events table.**  Ids first: digits are defined for every number (`DigitsDefined`), numbers
have different digits, none of them is a colon, so `EventIdsDistinct`; and text is totally
ordered, so `(event_time, event_id)` orders the rows of any table strictly
(`RowsOrdered`).  The invariant has three parts.  Of MLB:

* `Clocked`: nothing was thrown after the clock, and a `startTime` is the time of the throw.
* `InTurn`: of two pitches the first was thrown first.

Of the records on their way and of the rows:

* `Records`: a record in a poll's hand or in the topic is `Honest`.  Its pitch was thrown
  before its feed, its time is that of the throw if the feed had a `startTime` and that of the
  feed if not, and every build can read it.  This is what survives a poll that breaks
  off, a lost cursor and a late listing: it speaks of each record by itself, and needs
  nothing of the order in which records are published or stored.
* `Contents`: a row has the time of one honest record of its pitch, and holds what its build
  makes of that record's message.

Of the replay: `Seen` (the rows it saw are in the table still, with the times they had),
`Emission` and `Rest` (what is published and what the cursor still holds are together the
rows in order), `Faithful` (each published message is what the reading build makes of the
row).

* `ThrownInOrder`: a row's time is the throw's or its feed's (`RowTimes`); if the
  order of the rows is not that of the throws (`InTurn`), the displaced one has its feed's.
* `LatestStays`: the latest pitch is the last row (`LatestIsLastRow`), and no step takes
  a row away or gives it another time (`RowsStay`), so that it can only be passed by a row
  with a time not before its own.
* `ContractKept` from `Contents` and `RoundTrip`, `RepositoriesAgree` from `Emission`, `Rest`
  and `Reversed`.

Only model-checked: the liveness properties (`EventuallyAccounted`, `CatchesUp`,
`LostOnlyIfUndiscoverable`, `ShownWhileActive`, `EventuallyEnriched`, `ReadableGetsThrough`,
`ListedIsDealtWith`), since liveness under fairness and `ENABLED` are out of the prover's
reach.  Recursive functions such as `Digits` are within it by way of `Least`; the sorting
operators of the community modules are opaque to it, which is why the model has
`InOrder`.

## 6. Not modelled

* The names and values of single fields: `EventsTable` takes every field a build knows as
  given by the feed, and `FeedParser` has legible and illegible pitches.
* Enum numbers a build cannot name, in `Payload`: `enum_int_to_name` raises, which is the
  *unnamed* payload of `PersistenceConsumer`.
* Message fields outside the spine, which no event stored today has and
  `payload_dict_to_proto` could not set.
* HTTP and the shape of the query API's answers; it writes nothing.  Statuses outside the
  five texts of its filter are not told apart from live ones.
* The id rules of `event_ids.py` that no service uses.
* `common` (settings, logging, metrics, error reporting), generated protobuf code,
  migrations and deployment, except where the schema is the meaning of a step.
* The lag reporter: it writes a gauge.
* Several members in one consumer group: a rebalance that gives a partition to
  another process is not modelled, only one that gives it back.
