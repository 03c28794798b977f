------------------------------ MODULE Pipeline ------------------------------
(***************************************************************************)
(* From MLB's live feed to what a consumer of mlb.events.raw makes of it:  *)
(* the ingestor, module Ingestor, the replay service writing to the same   *)
(* topic, and a consumer of the topic that keeps the contract of module    *)
(* AtLeastOnce.  PersistenceConsumer and Enricher implement that contract, *)
(* so what holds here holds of the events table and of the enriched topic: *)
(* done are the records stored, dead-lettered or given up on by the one,   *)
(* and the records enriched by the other.                                  *)
(***************************************************************************)
EXTENDS Ingestor

CONSTANT MaxReplays  \* bound: records the replay service publishes

ASSUME ReplaysAssumption == MaxReplays \in Nat

VARIABLES done,     \* <<game, offset>> of the records dealt with
          acked,    \* Kafka: the offset the consumer's group has committed
          replays   \* records replayed so far

pipelineVars == <<vars, done, acked, replays>>

\* A pitch is its own event_id, and a game's records are a log of their own.
Consumer == INSTANCE AtLeastOnce WITH
    Partitions <- Games, Msgs <- Pitches,
    Id <- [k \in Pitches |-> k], Ignored <- {}, log <- raw

DealtWith(g, k) == \E o \in Consumer!Offsets(g) : <<g, o>> \in done /\ raw[g][o + 1] = k

PipelineTypeOK ==
    /\ TypeOK
    /\ done \subseteq Games \X Nat
    /\ acked \in [Games -> Nat]
    /\ replays \in 0 .. MaxReplays

PipelineInit == Init /\ Consumer!Init /\ replays = 0

\* A step of the ingestor; what it publishes arrives at the consumer.
Ingest ==
    /\ Next
    /\ \/ \E g \in Games, k \in Pitches : Consumer!Arrive(g, k)
       \/ UNCHANGED <<raw, done, acked>>
    /\ UNCHANGED replays

\* replay_game publishes the pitch of a row, in the middle of a live game too.
Replay(g, k) ==
    /\ replays < MaxReplays
    /\ DealtWith(g, k)
    /\ replays' = replays + 1
    /\ Consumer!Arrive(g, k)
    /\ UNCHANGED <<state, listed, feed, late, redis, row, up, task, clean, faults,
                   crashes, pollVars>>

\* A step of the consumer: it deals with a record or commits an offset.
Consume(g) ==
    /\ \/ \E o \in Consumer!Offsets(g) : Consumer!Finish(g, o)
       \/ \E n \in 0 .. Len(raw[g]) : Consumer!Ack(g, n)
    /\ UNCHANGED <<vars, replays>>

PipelineNext ==
    \/ Ingest
    \/ \E g \in Games, k \in Pitches : Replay(g, k)
    \/ \E g \in Games : Consume(g)

PipelineSpec == PipelineInit /\ [][PipelineNext]_pipelineVars

\* The ingestor is as fair as it is alone, and the consumer goes on dealing with
\* records: the enricher always does (EventuallyEnriched), the persistence
\* consumer as long as the partition is not paused (EventuallyAccounted).
ConsumerFairness ==
    \A g \in Games : WF_done(\E o \in Consumer!Offsets(g) : Consumer!Finish(g, o))

FairPipelineSpec == PipelineSpec /\ Fairness /\ ConsumerFairness

(***************************************************************************)
(* Properties.                                                             *)
(***************************************************************************)
\* What a consumer has made of a game has no hole: with a pitch it has dealt with
\* every earlier one the feed did not list late, whatever the ingestor, Redis and
\* the consumer go through and however much is replayed in between.
DealtInFeedOrder ==
    \A g \in Games : \A o \in Consumer!Offsets(g) : <<g, o>> \in done =>
        \A j \in feed[g] \ late[g] : Before(j, raw[g][o + 1]) => DealtWith(g, j)

\* The cursor and the committed offset are bookmarks of two processes that know
\* nothing of each other: once the group is at the end of the log, no pitch is
\* lost between them, for each one the cursor covers was dealt with.
NoLagNoLoss ==
    \A g \in Games : acked[g] = Len(raw[g]) =>
        \A k \in feed[g] \ late[g] : Covers(redis[g], k) => DealtWith(g, k)

\* A pitch MLB lists is dealt with in the end, across crashes of the ingestor,
\* failed publishes, lost cursors and replays, unless it was listed late or the
\* schedule dropped the game while it had no task.
ListedIsDealtWith ==
    \A g \in Games : \A k \in Pitches :
        k \in feed[g] ~> \/ DealtWith(g, k) \/ k \in late[g]
                         \/ task[g] \notin Running /\ ~ Live(g)
=============================================================================
