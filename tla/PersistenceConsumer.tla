------------------------ MODULE PersistenceConsumer ------------------------
(***************************************************************************)
(* The persistence consumer (services/persistence_consumer): one process   *)
(* reads mlb.events.raw with manual commits, inserts each record in the    *)
(* events table with ON CONFLICT (event_id) DO NOTHING, dead-letters       *)
(* poison pills, and pauses a partition whose record exhausts the retry    *)
(* budget.  The broker (logs, committed offsets, group coordination), the  *)
(* events table and the dead-letter topic survive a crash of the process;  *)
(* everything else is its memory.                                          *)
(***************************************************************************)
EXTENDS Integers, Sequences, FiniteSets, Functions

CONSTANTS Partitions,    \* partitions of mlb.events.raw
          Msgs,          \* record payloads a producer may append
          EventIds,      \* values of spine.event_id
          Id,            \* the event_id a payload carries
          Home,          \* the partition its key (game_pk) hashes to
          Malformed,     \* payloads that do not decode or fail _validate_spine
          Unstorable,    \* valid payloads on which the insert raises ValueError
          Unnamed,       \* valid payloads with an enum number this build has no name for
          NoRow,         \* no row with this event_id
          MaxRetries,    \* len(retry_delays)
          MaxRecords,    \* max_records of getmany
          MaxLog,        \* bound: records appended to one partition
          MaxCrashes,    \* bound: times the process ends and is started again
          MaxRebalances  \* bound: times the group rebalances

ASSUME IdAssumption == Id \in [Msgs -> EventIds]
ASSUME HomeAssumption == Home \in [Msgs -> Partitions]
\* event_id starts with the game_pk and the game_pk is the record's key.
ASSUME AffinityAssumption == \A m, n \in Msgs : Id[m] = Id[n] => Home[m] = Home[n]
ASSUME KindsAssumption == /\ Malformed \subseteq Msgs
                          /\ Unstorable \subseteq Msgs
                          /\ Unnamed \subseteq Msgs
                          /\ Unnamed \cap (Malformed \cup Unstorable) = {}
ASSUME NoRowAssumption == NoRow \notin Msgs
ASSUME BoundsAssumption == /\ MaxRetries \in Nat
                           /\ MaxRecords \in Nat \ {0}
                           /\ MaxLog \in Nat
                           /\ MaxCrashes \in Nat
                           /\ MaxRebalances \in Nat

VARIABLES raw,            \* broker: the log of each partition
          committed,      \* broker: the group's committed offset (next to read)
          table,          \* Postgres: payload of the row stored under each event_id
          dlq,            \* broker: <<partition, offset>> of dead-lettered records
          exhausted,      \* history: <<partition, offset>> that raised RetryBudgetExhausted
          pc,             \* where the process is: see TypeOK
          position,       \* aiokafka: next offset getmany returns
          clientPaused,   \* aiokafka: partitions getmany skips
          paused,         \* self._paused
          nxt, end,       \* records of the batch not processed yet, nxt[p] .. end[p]-1
          tp,             \* partition the loop over the batch is on
          attempt,        \* attempt_idx
          crashes, rebalances

brokerVars == <<raw, committed, dlq>>
batchVars == <<position, nxt, end, tp>>
vars == <<raw, committed, table, dlq, exhausted, pc, position, clientPaused,
          paused, nxt, end, tp, attempt, crashes, rebalances>>

Poison == Malformed \cup Unstorable
Storable == Msgs \ (Poison \cup Unnamed)

Offsets(p) == 0 .. Len(raw[p]) - 1
Record(p, o) == raw[p][o + 1]
Current == Record(tp, nxt[tp])

(***************************************************************************)
(* Slips one could make in this code, to test the properties with.         *)
(***************************************************************************)
\* A new process reads from the start of the log: no group_id.
StartFromEarliest ==
    /\ pc = "down"
    /\ pc' = "loop"
    /\ position' = [p \in Partitions |-> 0]
    /\ nxt' = position' /\ end' = position'
    /\ UNCHANGED <<table, exhausted, clientPaused, paused, tp, attempt, crashes,
                   rebalances, brokerVars>>
\* ON CONFLICT (event_id) DO UPDATE.
StoreLatest(m) == [table EXCEPT ![Id[m]] = m]
\* A record whose retry budget ran out is dead-lettered.
ExhaustToDlq ==
    /\ pc = "insert"
    /\ attempt = MaxRetries
    /\ pc' = "dlq"
    /\ UNCHANGED <<table, exhausted, clientPaused, paused, attempt, crashes,
                   rebalances, brokerVars, batchVars>>
\* The retry loop never gives up.
RetryForever ==
    /\ pc = "insert"
    /\ attempt' = attempt + 1
    /\ UNCHANGED <<table, exhausted, pc, clientPaused, paused, crashes, rebalances,
                   brokerVars, batchVars>>
\* The poison pill is committed without its envelope.
DropPoison == UNCHANGED dlq
\* The commit covers the whole batch.
AcknowledgeBatch == committed' = [committed EXCEPT ![tp] = end[tp]]
\* The commit names the offset of the record, not the next one to read.
AcknowledgeRecord == committed' = [committed EXCEPT ![tp] = nxt[tp]]

TypeOK ==
    /\ raw \in [Partitions -> Seq(Msgs)]
    /\ committed \in [Partitions -> Nat]
    /\ table \in [EventIds -> Msgs \cup {NoRow}]
    /\ dlq \subseteq Partitions \X Nat
    /\ exhausted \subseteq Partitions \X Nat
    /\ pc \in {"down", "loop", "insert", "dlq", "commit"}
    /\ position \in [Partitions -> Nat]
    /\ clientPaused \subseteq Partitions
    /\ paused \subseteq Partitions
    /\ nxt \in [Partitions -> Nat]
    /\ end \in [Partitions -> Nat]
    /\ tp \in Partitions
    /\ attempt \in 0 .. MaxRetries
    /\ crashes \in 0 .. MaxCrashes
    /\ rebalances \in 0 .. MaxRebalances

Init ==
    /\ raw = [p \in Partitions |-> <<>>]
    /\ committed = [p \in Partitions |-> 0]      \* auto_offset_reset="earliest"
    /\ table = [i \in EventIds |-> NoRow]
    /\ dlq = {} /\ exhausted = {}
    /\ pc = "down"
    /\ position = [p \in Partitions |-> 0]
    /\ clientPaused = {} /\ paused = {}
    /\ nxt = position /\ end = position
    /\ tp \in Partitions
    /\ attempt = 0
    /\ crashes = 0 /\ rebalances = 0

(***************************************************************************)
(* The environment: producers, and the group coordinator.                  *)
(***************************************************************************)
\* publish_pitch of the ingestor, and that of the replay service: neither writes every
\* payload at every moment, so that this allows more than they do.
Produce(m) ==
    /\ Len(raw[Home[m]]) < MaxLog
    /\ raw' = [raw EXCEPT ![Home[m]] = Append(@, m)]
    /\ UNCHANGED <<committed, table, dlq, exhausted, pc, clientPaused, paused,
                   attempt, crashes, rebalances, batchVars>>

\* A rebalance revokes p and gives it back.  aiokafka drops its position and
\* its pause with the old assignment and starts again from the committed
\* offset; no rebalance listener is registered, so self._paused and a batch in
\* hand stay as they are.
Rebalance(p) ==
    /\ pc # "down"
    /\ rebalances < MaxRebalances
    /\ rebalances' = rebalances + 1
    /\ position' = [position EXCEPT ![p] = committed[p]]
    /\ clientPaused' = clientPaused \ {p}
    /\ UNCHANGED <<table, exhausted, pc, paused, nxt, end, tp, attempt, crashes,
                   brokerVars>>

(***************************************************************************)
(* The process.                                                            *)
(***************************************************************************)
Start ==
    /\ pc = "down"
    /\ pc' = "loop"
    /\ position' = committed
    /\ nxt' = committed /\ end' = committed
    /\ UNCHANGED <<table, exhausted, clientPaused, paused, tp, attempt, crashes,
                   rebalances, brokerVars>>

BatchDone == \A p \in Partitions : nxt[p] = end[p]
Available(p) == IF p \in clientPaused \/ position[p] >= Len(raw[p])
                THEN 0 ELSE Len(raw[p]) - position[p]
BatchSize(take) == FoldFunction(LAMBDA x, y : x + y, 0, take)

\* getmany: at most MaxRecords records of the partitions that are not paused,
\* none when its timeout ends first.
GetMany ==
    /\ pc = "loop"
    /\ BatchDone
    /\ \E take \in [Partitions -> 0 .. MaxRecords] :
          /\ \A p \in Partitions : take[p] <= Available(p)
          /\ BatchSize(take) <= MaxRecords
          /\ nxt' = position
          /\ position' = [p \in Partitions |-> position[p] + take[p]]
          /\ end' = position'
          /\ tp' \in {tp} \cup {p \in Partitions : take[p] > 0}
    /\ UNCHANGED <<table, exhausted, pc, clientPaused, paused, attempt, crashes,
                   rebalances, brokerVars>>

\* for tp, msgs in records.items(): for msg in msgs: the loop leaves a
\* partition when its records are used up.  Decoding and validation happen here.
Handle(p) ==
    /\ pc = "loop"
    /\ nxt[p] < end[p]
    /\ nxt[tp] < end[tp] => p = tp
    /\ tp' = p
    /\ attempt' = 0
    /\ pc' = IF Record(p, nxt[p]) \in Malformed THEN "dlq" ELSE "insert"
    /\ UNCHANGED <<table, exhausted, position, clientPaused, paused, nxt, end,
                   crashes, rebalances, brokerVars>>

StoreRow(m) == IF table[Id[m]] = NoRow THEN [table EXCEPT ![Id[m]] = m] ELSE table

\* insert_pitch returns, True or False.
Insert ==
    /\ pc = "insert"
    /\ Current \in Storable
    /\ table' = StoreRow(Current)
    /\ pc' = "commit"
    /\ UNCHANGED <<exhausted, clientPaused, paused, attempt, crashes, rebalances,
                   brokerVars, batchVars>>

\* insert_pitch raises ValueError: classify_exception says poison pill.
InsertRejected ==
    /\ pc = "insert"
    /\ Current \in Unstorable
    /\ pc' = "dlq"
    /\ UNCHANGED <<table, exhausted, clientPaused, paused, attempt, crashes,
                   rebalances, brokerVars, batchVars>>

\* insert_pitch raises what classify_exception takes for transient.  When the
\* connection is lost before the reply, the row may be there all the same; an
\* enum number without a name raises KeyError before anything is sent.
Attempted ==
    \/ table' = table
    \/ Current \in Storable /\ table' = StoreRow(Current)

RetryInsert ==
    /\ pc = "insert"
    /\ Current \notin Unstorable
    /\ attempt < MaxRetries
    /\ Attempted
    /\ attempt' = attempt + 1
    /\ UNCHANGED <<exhausted, pc, clientPaused, paused, crashes, rebalances,
                   brokerVars, batchVars>>

\* self._pause(tp): nothing is done for a partition already in self._paused.
Pause(p) ==
    IF p \in paused
    THEN UNCHANGED <<clientPaused, paused>>
    ELSE /\ clientPaused' = clientPaused \cup {p}
         /\ paused' = paused \cup {p}

\* The last attempt fails: pause, commit nothing, and go on with the batch.
ExhaustBudget ==
    /\ pc = "insert"
    /\ Current \notin Unstorable
    /\ attempt = MaxRetries
    /\ Attempted
    /\ exhausted' = exhausted \cup {<<tp, nxt[tp]>>}
    /\ Pause(tp)
    /\ nxt' = [nxt EXCEPT ![tp] = @ + 1]
    /\ attempt' = 0
    /\ pc' = "loop"
    /\ UNCHANGED <<position, end, tp, crashes, rebalances, brokerVars>>

\* What the broker does on the dead-letter publish and on the offset commit.
DeadLetter == dlq' = dlq \cup {<<tp, nxt[tp]>>}
Acknowledge == committed' = [committed EXCEPT ![tp] = nxt[tp] + 1]

PublishDlq ==
    /\ pc = "dlq"
    /\ DeadLetter
    /\ pc' = "commit"
    /\ UNCHANGED <<raw, committed, table, exhausted, clientPaused, paused,
                   attempt, crashes, rebalances, batchVars>>

Commit ==
    /\ pc = "commit"
    /\ Acknowledge
    /\ nxt' = [nxt EXCEPT ![tp] = @ + 1]
    /\ attempt' = 0
    /\ pc' = "loop"
    /\ UNCHANGED <<raw, table, dlq, exhausted, position, clientPaused, paused,
                   end, tp, crashes, rebalances>>

\* The memory of a process that is not running, as the next one starts with.
Forget ==
    /\ pc' = "down"
    /\ crashes' = crashes + 1
    /\ position' = committed' /\ nxt' = committed' /\ end' = committed'
    /\ clientPaused' = {} /\ paused' = {}
    /\ attempt' = 0
    /\ UNCHANGED tp

\* The process is killed, or getmany, the dead-letter publish or the commit
\* raises out of run(): each may have taken effect at the broker before.
Crash ==
    /\ pc # "down"
    /\ crashes < MaxCrashes
    /\ \/ UNCHANGED <<committed, dlq>>
       \/ pc = "commit" /\ Acknowledge /\ UNCHANGED dlq
       \/ pc = "dlq" /\ DeadLetter /\ UNCHANGED committed
    /\ UNCHANGED <<raw, table, exhausted, rebalances>>
    /\ Forget

\* stop_event is read between batches only.
Stop ==
    /\ pc = "loop"
    /\ BatchDone
    /\ crashes < MaxCrashes
    /\ UNCHANGED <<table, exhausted, rebalances, brokerVars>>
    /\ Forget

Next ==
    \/ \E m \in Msgs : Produce(m)
    \/ \E p \in Partitions : Rebalance(p)
    \/ Start
    \/ GetMany
    \/ \E p \in Partitions : Handle(p)
    \/ Insert
    \/ InsertRejected
    \/ RetryInsert
    \/ ExhaustBudget
    \/ PublishDlq
    \/ Commit
    \/ Crash
    \/ Stop

Spec == Init /\ [][Next]_vars

\* The process runs when it can, is started again after it ended, and getmany
\* returns what the broker has; no outcome of an insert is preferred.
Fairness ==
    /\ WF_vars(Start)
    /\ WF_vars(GetMany)
    /\ WF_vars(\E p \in Partitions : Handle(p))
    /\ WF_vars(Insert \/ InsertRejected \/ RetryInsert \/ ExhaustBudget)
    /\ WF_vars(PublishDlq)
    /\ WF_vars(Commit)

FairSpec == Spec /\ Fairness

(***************************************************************************)
(* Properties.                                                             *)
(***************************************************************************)
\* The record has had the effect it was meant to have: a poison pill is in the
\* dead-letter topic, any other record has a row under its event_id.
Settled(p, o) ==
    LET m == Record(p, o)
    IN  IF m \in Poison THEN <<p, o>> \in dlq ELSE table[Id[m]] # NoRow

Accounted(p, o) == Settled(p, o) \/ <<p, o>> \in exhausted

\* Whatever the crashes, retries and rebalances, an offset below the committed
\* one was stored, dead-lettered, or given up on after the whole retry budget:
\* the commit order of _process_one never acknowledges an untouched record.
CommittedAccounted ==
    \A p \in Partitions : \A o \in 0 .. committed[p] - 1 :
        o \in Offsets(p) /\ Accounted(p, o)

\* A row that was stored is the first delivery of its event_id: a correction or a
\* replayed duplicate never takes the place of an earlier record, unless the
\* retry budget ran out on that one (ON CONFLICT DO NOTHING, with the key's
\* partition order and the order of the commits).
FirstDelivery(p, o) ==
    /\ Record(p, o) \in Storable
    /\ \A q \in Offsets(p) : q < o =>
          Record(p, q) \in Poison \/ Id[Record(p, q)] # Id[Record(p, o)]
FirstDeliveryWins ==
    \A p \in Partitions : \A o \in Offsets(p) :
        FirstDelivery(p, o) /\ <<p, o>> \notin exhausted =>
            table[Id[Record(p, o)]] \in {NoRow, Record(p, o)}

\* The dead-letter topic receives poison pills only; a record whose failure was
\* classified transient never goes there, at any stage of a retry or redelivery.
DeadLettersArePoison ==
    \A d \in dlq : d[2] \in Offsets(d[1]) /\ Record(d[1], d[2]) \in Poison

\* A committed offset moves back only once a rebalance has reset a position
\* under a batch in hand; crashes and restarts alone never rewind the group.
CommitsRewindOnlyAfterRebalance ==
    [][rebalances' = 0 => \A p \in Partitions : committed'[p] >= committed[p]]_vars

\* The consumer is an at-least-once consumer of the raw topic: a row, a dead
\* letter or an exhausted budget is never taken back, and a commit never passes
\* over a record that has none of them.
Handled(p) == {o \in Offsets(p) : Accounted(p, o)}
Contract == INSTANCE AtLeastOnce WITH
    Ignored <- {}, log <- raw, acked <- committed,
    done <- UNION {{p} \X Handled(p) : p \in Partitions}
AtLeastOnceConsumer == Contract!Spec

\* Every record of the log is stored, dead-lettered, or given up on, unless
\* aiokafka holds its partition paused.
EventuallyAccounted ==
    \A p \in Partitions : \A o \in 0 .. MaxLog - 1 :
        o \in Offsets(p) ~>
            (o \in Offsets(p) /\ Accounted(p, o)) \/ p \in clientPaused

\* Without a rebalance, every partition ends committed up to its end or paused:
\* no record is left uncommitted on a partition that looks healthy.
CatchesUp ==
    [](rebalances = 0) =>
        <>[](\A p \in Partitions : committed[p] = Len(raw[p]) \/ p \in clientPaused)

(***************************************************************************)
(* What the documentation says and the code does not do.                   *)
(***************************************************************************)
\* consumer.py:7-9: a record that exhausted the budget "stays uncommitted so
\* when the partition resumes ... it's re-delivered".
ExhaustedStaysUncommitted ==
    \A p \in Partitions : \A o \in Offsets(p) :
        <<p, o>> \in exhausted /\ ~Settled(p, o) => committed[p] <= o

\* consumer.py:7: "Partition pause on retry-budget exhaustion".
ExhaustionPauses == [][ExhaustBudget => tp \in clientPaused']_vars
=============================================================================
