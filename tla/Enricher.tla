------------------------------ MODULE Enricher ------------------------------
(***************************************************************************)
(* The enricher (services/enricher): one process reads mlb.events.raw with *)
(* manual commits; for each pitch it projects the game's rolling context,  *)
(* saves it in Redis when it changed, publishes the enriched pitch and     *)
(* commits.  The topics, the group's offsets and Redis survive the         *)
(* process.                                                                *)
(*                                                                         *)
(* Of GameContext only inning and outs ever change (see _project); they    *)
(* are the Fields here.  An enriched event is known by the offset of the   *)
(* raw record it was made from.                                            *)
(***************************************************************************)
EXTENDS Integers, Sequences, FiniteSets, Functions

CONSTANTS Partitions,    \* partitions of mlb.events.raw
          Games,
          Home,          \* the partition a game_pk hashes to
          Msgs,          \* record payloads a producer may append
          Unreadable,    \* payloads that do not decode or have no game_pk
          GameOf,        \* spine.game_pk of the others
          Fields,        \* context fields a pitch may carry
          Values,        \* their values
          Zero,          \* the value of a new context's fields
          Unset,         \* HasField is false
          Carries,       \* the value, or Unset, a pitch has in a field
          MaxRecords,    \* max_records of getmany
          MaxLog,        \* bound: records appended to one partition
          MaxCrashes,    \* bound: times the process ends and is started again
          MaxRebalances, \* bound: times the group rebalances
          MaxLosses      \* bound: contexts Redis loses

ASSUME HomeAssumption == Home \in [Games -> Partitions]
ASSUME GameAssumption == GameOf \in [Msgs -> Games]
ASSUME ZeroAssumption == Zero \in Values /\ Unset \notin Values
ASSUME CarriesAssumption == Carries \in [Msgs -> [Fields -> Values \cup {Unset}]]
ASSUME BoundsAssumption == /\ MaxRecords \in Nat \ {0}
                           /\ MaxLog \in Nat
                           /\ MaxCrashes \in Nat
                           /\ MaxRebalances \in Nat
                           /\ MaxLosses \in Nat

VARIABLES raw,         \* broker: the log of each partition
          committed,   \* broker: the group's committed offset (next to read)
          sink,        \* broker: offsets of the raw records enriched, per game, in log order
          hot,         \* Redis: the context of each game, Fresh when the key is missing
          pc,          \* where the process is: see TypeOK
          position,    \* aiokafka: next offset getmany returns
          nxt, end,    \* records of the batch not processed yet, nxt[p] .. end[p]-1
          tp,          \* partition the loop over the batch is on
          ctx,         \* the context _process_one read from Redis
          crashes, rebalances, losses

vars == <<raw, committed, sink, hot, pc, position, nxt, end, tp, ctx, crashes,
          rebalances, losses>>
batchVars == <<position, nxt, end, tp>>
boundVars == <<crashes, rebalances, losses>>

Contexts == [Fields -> Values]
Fresh == [f \in Fields |-> Zero]

Offsets(p) == 0 .. Len(raw[p]) - 1
Record(p, o) == raw[p][o + 1]
Current == Record(tp, nxt[tp])
Readable(p, o) == o \in Offsets(p) /\ Record(p, o) \notin Unreadable
IsOf(g, o) == Readable(Home[g], o) /\ GameOf[Record(Home[g], o)] = g

(***************************************************************************)
(* Slips one could make in this code, to test the properties with.         *)
(***************************************************************************)
\* The pitch's fields are copied whether or not it has them.
ProjectUnset(c, m) == [f \in Fields |-> Carries[m][f]]
ProjectZero(c, m) ==
    [f \in Fields |-> IF Carries[m][f] = Unset THEN Zero ELSE Carries[m][f]]
\* A pitch that does not change the context is not worth an enriched event.
PublishIfChanged(m, c) == pc' = IF hot' = hot THEN "commit" ELSE "publish"
\* The producer retries without idempotence, and both attempts arrive.
AppendTwice(g, o) == sink' = [sink EXCEPT ![g] = @ \o <<o, o>>]
\* The publish does not wait for the broker, which loses the record.
AppendLost(g, o) == UNCHANGED sink
\* auto_offset_reset="latest", and no offset was ever committed.
StartFromLatest ==
    /\ pc = "down"
    /\ pc' = "loop"
    /\ position' = [p \in Partitions |->
                       IF committed[p] = 0 THEN Len(raw[p]) ELSE committed[p]]
    /\ nxt' = position' /\ end' = position'
    /\ UNCHANGED <<raw, committed, sink, hot, tp, ctx, boundVars>>
\* The commit covers the whole batch.
AcknowledgeBatch == committed' = [committed EXCEPT ![tp] = end[tp]]

TypeOK ==
    /\ raw \in [Partitions -> Seq(Msgs)]
    /\ committed \in [Partitions -> Nat]
    /\ sink \in [Games -> Seq(Nat)]
    /\ hot \in [Games -> Contexts]
    /\ pc \in {"down", "loop", "save", "publish", "commit"}
    /\ position \in [Partitions -> Nat]
    /\ nxt \in [Partitions -> Nat]
    /\ end \in [Partitions -> Nat]
    /\ tp \in Partitions
    /\ ctx \in Contexts
    /\ crashes \in 0 .. MaxCrashes
    /\ rebalances \in 0 .. MaxRebalances
    /\ losses \in 0 .. MaxLosses

Init ==
    /\ raw = [p \in Partitions |-> <<>>]
    /\ committed = [p \in Partitions |-> 0]      \* auto_offset_reset="earliest"
    /\ sink = [g \in Games |-> <<>>]
    /\ hot = [g \in Games |-> Fresh]
    /\ pc = "down"
    /\ position = [p \in Partitions |-> 0]
    /\ nxt = position /\ end = position
    /\ tp \in Partitions
    /\ ctx = Fresh
    /\ crashes = 0 /\ rebalances = 0 /\ losses = 0

(***************************************************************************)
(* The environment: producers, the group coordinator, Redis.               *)
(***************************************************************************)
\* publish_pitch of the ingestor, and that of the replay service: neither writes every
\* message at every moment, so that this allows more than they do.
Produce(p, m) ==
    /\ m \notin Unreadable => p = Home[GameOf[m]]
    /\ Len(raw[p]) < MaxLog
    /\ raw' = [raw EXCEPT ![p] = Append(@, m)]
    /\ UNCHANGED <<committed, sink, hot, pc, ctx, batchVars, boundVars>>

\* p is revoked and given back: aiokafka starts again from the committed offset,
\* and no rebalance listener tells the batch in hand.
Rebalance(p) ==
    /\ pc # "down"
    /\ rebalances < MaxRebalances
    /\ rebalances' = rebalances + 1
    /\ position' = [position EXCEPT ![p] = committed[p]]
    /\ UNCHANGED <<raw, committed, sink, hot, pc, nxt, end, tp, ctx, crashes, losses>>

LoseContext(g) ==
    /\ losses < MaxLosses
    /\ hot[g] # Fresh
    /\ losses' = losses + 1
    /\ hot' = [hot EXCEPT ![g] = Fresh]
    /\ UNCHANGED <<raw, committed, sink, pc, ctx, batchVars, crashes, rebalances>>

(***************************************************************************)
(* The process.                                                            *)
(***************************************************************************)
Start ==
    /\ pc = "down"
    /\ pc' = "loop"
    /\ position' = committed
    /\ nxt' = position' /\ end' = position'
    /\ UNCHANGED <<raw, committed, sink, hot, tp, ctx, boundVars>>

BatchDone == \A p \in Partitions : nxt[p] = end[p]
Available(p) == IF position[p] < Len(raw[p]) THEN Len(raw[p]) - position[p] ELSE 0
BatchSize(take) == FoldFunction(LAMBDA x, y : x + y, 0, take)

\* getmany: at most MaxRecords records, none when its timeout ends first.
GetMany ==
    /\ pc = "loop"
    /\ BatchDone
    /\ \E take \in [Partitions -> 0 .. MaxRecords] :
          /\ \A p \in Partitions : take[p] <= Available(p)
          /\ BatchSize(take) <= MaxRecords
          /\ nxt' = position
          /\ position' = [p \in Partitions |-> position[p] + take[p]]
          /\ end' = position'
          /\ tp' \in {tp} \cup {p \in Partitions : take[p] > 0}
    /\ UNCHANGED <<raw, committed, sink, hot, pc, ctx, boundVars>>

\* for tp, msgs ...: for msg in msgs: decode, and read the game's context.  What
\* raises EnrichmentError goes straight to the commit.
Handle(p) ==
    /\ pc = "loop"
    /\ nxt[p] < end[p]
    /\ nxt[tp] < end[tp] => p = tp
    /\ tp' = p
    /\ IF Readable(p, nxt[p])
       THEN pc' = "save" /\ ctx' = hot[GameOf[Record(p, nxt[p])]]
       ELSE pc' = "commit" /\ UNCHANGED ctx
    /\ UNCHANGED <<raw, committed, sink, hot, position, nxt, end, boundVars>>

\* _project: a field the pitch does not carry keeps its last known value.
Project(c, m) ==
    [f \in Fields |-> IF Carries[m][f] = Unset THEN c[f] ELSE Carries[m][f]]

\* Every pitch is published, whatever became of its context.
PublishNext(m, c) == pc' = "publish"

SaveContext ==
    /\ pc = "save"
    /\ LET new == Project(ctx, Current)
       IN  hot' = IF new # ctx THEN [hot EXCEPT ![GameOf[Current]] = new] ELSE hot
    /\ PublishNext(Current, ctx)
    /\ UNCHANGED <<raw, committed, sink, ctx, batchVars, boundVars>>

\* What the broker does on the publish and on the commit.
AppendEnriched(g, o) == sink' = [sink EXCEPT ![g] = Append(@, o)]
Acknowledge == committed' = [committed EXCEPT ![tp] = nxt[tp] + 1]

Publish ==
    /\ pc = "publish"
    /\ AppendEnriched(GameOf[Current], nxt[tp])
    /\ pc' = "commit"
    /\ UNCHANGED <<raw, committed, hot, ctx, batchVars, boundVars>>

Commit ==
    /\ pc = "commit"
    /\ Acknowledge
    /\ nxt' = [nxt EXCEPT ![tp] = @ + 1]
    /\ ctx' = Fresh
    /\ pc' = "loop"
    /\ UNCHANGED <<raw, sink, hot, position, end, tp, boundVars>>

\* The memory of a process that is not running, as the next one starts with.
Forget ==
    /\ pc' = "down"
    /\ crashes' = crashes + 1
    /\ position' = committed /\ nxt' = committed /\ end' = committed
    /\ ctx' = Fresh
    /\ UNCHANGED tp

\* The process is killed, or a call to Redis or Kafka raises out of run().  A
\* call that raised after taking effect is that step followed by this one.
Crash ==
    /\ pc # "down"
    /\ crashes < MaxCrashes
    /\ Forget
    /\ UNCHANGED <<raw, committed, sink, hot, rebalances, losses>>

\* stop_event is read between batches only.
Stop ==
    /\ pc = "loop"
    /\ BatchDone
    /\ crashes < MaxCrashes
    /\ Forget
    /\ UNCHANGED <<raw, committed, sink, hot, rebalances, losses>>

Next ==
    \/ \E p \in Partitions : \E m \in Msgs : Produce(p, m)
    \/ \E p \in Partitions : Rebalance(p)
    \/ \E g \in Games : LoseContext(g)
    \/ Start
    \/ GetMany
    \/ \E p \in Partitions : Handle(p)
    \/ SaveContext
    \/ Publish
    \/ Commit
    \/ Crash
    \/ Stop

Spec == Init /\ [][Next]_vars

\* The process runs when it can, is started again after it ended, and getmany
\* returns what the broker has.
Fairness ==
    /\ WF_vars(Start)
    /\ WF_vars(GetMany)
    /\ WF_vars(\E p \in Partitions : Handle(p))
    /\ WF_vars(SaveContext)
    /\ WF_vars(Publish)
    /\ WF_vars(Commit)

FairSpec == Spec /\ Fairness

(***************************************************************************)
(* Properties.                                                             *)
(***************************************************************************)
Enriched(g) == Range(sink[g])

\* The record needs nothing more: it is in the enriched topic, or unreadable.
DealtWith(p, o) == Readable(p, o) => o \in Enriched(GameOf[Record(p, o)])

\* A committed pitch is in the enriched topic, whatever crashes or rebalances
\* came between saving the context, publishing and committing.
CommittedEnriched ==
    \A p \in Partitions :
        committed[p] <= Len(raw[p]) /\ \A o \in 0 .. committed[p] - 1 : DealtWith(p, o)

\* Consumers of the enriched topic see a game's pitches for the first time in
\* the order of the raw topic: what stands before a pitch there was enriched first.
EnrichedInOrder ==
    \A g \in Games : \A i \in 1 .. Len(sink[g]) :
        \A o \in 0 .. sink[g][i] - 1 :
            IsOf(g, o) => \E h \in 1 .. i - 1 : sink[g][h] = o

\* A pitch is enriched twice only after a crash or a rebalance.
EnrichedOnceUndisturbed ==
    crashes = 0 /\ rebalances = 0 =>
        \A g \in Games : \A h, i \in 1 .. Len(sink[g]) : sink[g][h] = sink[g][i] => h = i

\* The last value a game's pitches below offset n carried, field by field.
Carriers(g, f, n) ==
    {o \in 0 .. n - 1 : IsOf(g, o) /\ Carries[Record(Home[g], o)][f] # Unset}
LastKnown(g, n) ==
    [f \in Fields |->
        LET C == Carriers(g, f, n)
        IN  IF C = {} THEN Zero
            ELSE Carries[Record(Home[g], CHOOSE o \in C : \A q \in C : q <= o)][f]]

\* The hot state of a game is the last known context at the committed offset or
\* one record on, however often the process crashed between saving and
\* committing; rebalances and a Redis that forgets are excepted.
HotStateFollowsLog ==
    rebalances = 0 /\ losses = 0 =>
        \A g \in Games :
            LET n == committed[Home[g]] IN hot[g] \in {LastKnown(g, n), LastKnown(g, n + 1)}

\* The enricher is an at-least-once consumer of the raw topic: what was dealt
\* with stays so, and a commit never passes over a record that was not.
Handled(p) == {o \in Offsets(p) : DealtWith(p, o)}
Contract == INSTANCE AtLeastOnce WITH
    Id <- [m \in Msgs |-> m], Ignored <- Unreadable, log <- raw, acked <- committed,
    done <- UNION {{p} \X Handled(p) : p \in Partitions}
AtLeastOnceConsumer == Contract!Spec

\* Every pitch of the raw topic reaches the enriched topic.
EventuallyEnriched ==
    \A p \in Partitions : \A o \in 0 .. MaxLog - 1 :
        o \in Offsets(p) ~> o \in Offsets(p) /\ DealtWith(p, o)

(***************************************************************************)
(* What the documentation says and the code does not do.                   *)
(***************************************************************************)
\* state.py:3-4: the hot state lets the "query-api ... read current-state": once
\* the group has committed the whole log, it is the last known context, as long
\* as Redis kept it.
HotStateCurrent ==
    losses = 0 =>
        \A g \in Games :
            LET n == Len(raw[Home[g]])
            IN  committed[Home[g]] = n /\ pc = "loop" => hot[g] = LastKnown(g, n)
=============================================================================
