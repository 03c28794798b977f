---------------------- MODULE PersistenceConsumerProofs ----------------------
(***************************************************************************)
(* Safety of the persistence consumer for every set of partitions and      *)
(* messages and every bound.  The inductive invariant says what the        *)
(* broker's offset cannot: what is known of the records below the fetch    *)
(* position and below the place in the batch.                              *)
(***************************************************************************)
EXTENDS PersistenceConsumer, TLAPS

(***************************************************************************)
(* Type correctness.                                                       *)
(***************************************************************************)
LEMMA TypeInit == Init => TypeOK
BY BoundsAssumption DEF Init, TypeOK

LEMMA TypeStep == TypeOK /\ [Next]_vars => TypeOK'
<1> SUFFICES ASSUME TypeOK, [Next]_vars PROVE TypeOK'
  OBVIOUS
<1> USE BoundsAssumption, HomeAssumption, IdAssumption
<1>0. DOMAIN raw = Partitions /\ \A p \in Partitions : raw[p] \in Seq(Msgs)
  BY DEF TypeOK
<1>1. ASSUME NEW m \in Msgs, Produce(m) PROVE TypeOK'
  <2>1. Home[m] \in Partitions
    OBVIOUS
  <2>2. raw' \in [Partitions -> Seq(Msgs)]
    BY <1>1, <2>1, <1>0 DEF Produce, TypeOK
  <2> QED
    BY <1>1, <2>2 DEF Produce, TypeOK, batchVars
<1>2. ASSUME NEW p \in Partitions, Rebalance(p) PROVE TypeOK'
  <2>1. position' \in [Partitions -> Nat] /\ clientPaused' \subseteq Partitions
    BY <1>2 DEF Rebalance, TypeOK
  <2>2. rebalances' \in 0 .. MaxRebalances
    BY <1>2 DEF Rebalance, TypeOK
  <2> QED
    BY <1>2, <2>1, <2>2 DEF Rebalance, TypeOK, brokerVars
<1>3. CASE Start
  BY <1>3 DEF Start, TypeOK, brokerVars
<1>4. CASE GetMany
  <2>1. PICK take \in [Partitions -> 0 .. MaxRecords] :
           /\ nxt' = position
           /\ position' = [p \in Partitions |-> position[p] + take[p]]
           /\ end' = position'
           /\ tp' \in {tp} \cup {p \in Partitions : take[p] > 0}
    BY <1>4 DEF GetMany
  <2>2. position' \in [Partitions -> Nat] /\ tp' \in Partitions
    BY <2>1 DEF TypeOK
  <2>3. /\ UNCHANGED <<raw, table, committed, dlq, exhausted, crashes, rebalances, clientPaused,
                       paused, attempt>>
        /\ pc' = pc
    BY <1>4 DEF GetMany, brokerVars
  <2>4. nxt' \in [Partitions -> Nat] /\ end' \in [Partitions -> Nat]
    BY <2>1, <2>2 DEF TypeOK
  <2> QED
    BY <2>2, <2>3, <2>4 DEF TypeOK
<1>5. ASSUME NEW p \in Partitions, Handle(p) PROVE TypeOK'
  BY <1>5 DEF Handle, TypeOK, brokerVars
<1>6. ASSUME NEW m \in Msgs PROVE StoreRow(m) \in [EventIds -> Msgs \cup {NoRow}]
  BY DEF StoreRow, TypeOK
<1>7. Current \in Storable => Current \in Msgs
  BY DEF Storable
<1>8. CASE Insert
  BY <1>6, <1>7, <1>8 DEF Insert, TypeOK, brokerVars, batchVars
<1>9. CASE InsertRejected
  BY <1>9 DEF InsertRejected, TypeOK, brokerVars, batchVars
<1>10. CASE RetryInsert
  <2>1. table' \in [EventIds -> Msgs \cup {NoRow}]
    BY <1>6, <1>7, <1>10 DEF RetryInsert, Attempted, TypeOK
  <2>2. attempt' \in 0 .. MaxRetries
    BY <1>10 DEF RetryInsert, TypeOK
  <2> QED
    BY <1>10, <2>1, <2>2 DEF RetryInsert, TypeOK, brokerVars, batchVars
<1>11. CASE ExhaustBudget
  <2>1. table' \in [EventIds -> Msgs \cup {NoRow}]
    BY <1>6, <1>7, <1>11 DEF ExhaustBudget, Attempted, TypeOK
  <2>2. clientPaused' \subseteq Partitions /\ paused' \subseteq Partitions
    BY <1>11 DEF ExhaustBudget, Pause, TypeOK
  <2>3. exhausted' \subseteq Partitions \X Nat
    <3>1. <<tp, nxt[tp]>> \in Partitions \X Nat
      BY DEF TypeOK
    <3> QED
      BY <1>11, <3>1 DEF ExhaustBudget, TypeOK
  <2>4. nxt' \in [Partitions -> Nat]
    BY <1>11 DEF ExhaustBudget, TypeOK
  <2> QED
    <3>1. /\ UNCHANGED <<raw, committed, dlq, position, end, tp, crashes, rebalances>>
          /\ attempt' = 0 /\ pc' = "loop"
      BY <1>11 DEF ExhaustBudget, brokerVars
    <3> QED
      BY <2>1, <2>2, <2>3, <2>4, <3>1 DEF TypeOK
<1>12. CASE PublishDlq
  BY <1>12 DEF PublishDlq, DeadLetter, TypeOK, batchVars
<1>13. CASE Commit
  <2>1. committed' \in [Partitions -> Nat] /\ nxt' \in [Partitions -> Nat]
    BY <1>13 DEF Commit, Acknowledge, TypeOK
  <2>2. /\ UNCHANGED <<raw, table, dlq, exhausted, position, clientPaused, paused,
                       end, tp, crashes, rebalances>>
        /\ attempt' = 0 /\ pc' = "loop"
    BY <1>13 DEF Commit
  <2> QED
    BY <2>1, <2>2 DEF TypeOK
<1>14. CASE Crash
  <2>1. committed' \in [Partitions -> Nat]
    <3>1. UNCHANGED committed \/ Acknowledge
      BY <1>14 DEF Crash
    <3>2. tp \in Partitions /\ nxt[tp] \in Nat /\ committed \in [Partitions -> Nat]
      BY DEF TypeOK
    <3>3. nxt[tp] + 1 \in Nat
      BY <3>2
    <3> QED
      BY <3>1, <3>2, <3>3 DEF Acknowledge
  <2>2. dlq' \subseteq Partitions \X Nat
    <3>1. <<tp, nxt[tp]>> \in Partitions \X Nat
      BY DEF TypeOK
    <3> QED
      BY <1>14, <3>1 DEF Crash, DeadLetter, TypeOK
  <2>3. crashes' \in 0 .. MaxCrashes /\ attempt' \in 0 .. MaxRetries
    BY <1>14 DEF Crash, Forget, TypeOK
  <2>4. UNCHANGED <<raw, table, exhausted, rebalances, tp>> /\ pc' = "down"
    BY <1>14 DEF Crash, Forget
  <2>5. /\ position' = committed' /\ nxt' = committed' /\ end' = committed'
        /\ clientPaused' = {} /\ paused' = {}
    BY <1>14 DEF Crash, Forget
  <2> QED
    BY <2>1, <2>2, <2>3, <2>4, <2>5 DEF TypeOK
<1>15. CASE Stop
  <2>1. UNCHANGED <<raw, committed, dlq, table, exhausted, rebalances, tp>>
    BY <1>15 DEF Stop, Forget, brokerVars
  <2>2. /\ crashes' \in 0 .. MaxCrashes /\ attempt' \in 0 .. MaxRetries /\ pc' = "down"
        /\ position' = committed' /\ nxt' = committed' /\ end' = committed'
        /\ clientPaused' = {} /\ paused' = {}
    BY <1>15 DEF Stop, Forget, TypeOK
  <2> QED
    BY <2>1, <2>2 DEF TypeOK
<1>16. CASE UNCHANGED vars
  BY <1>16 DEF vars, TypeOK
<1> QED
  BY <1>1, <1>2, <1>3, <1>4, <1>5, <1>8, <1>9, <1>10, <1>11, <1>12, <1>13,
     <1>14, <1>15, <1>16 DEF Next

\* The state of the consumer, the broker and the table always has its types;
\* in particular the retry counter never passes the length of retry_delays.
THEOREM TypeCorrect == Spec => []TypeOK
BY TypeInit, TypeStep, PTL DEF Spec

(***************************************************************************)
(* Nothing that was written is taken back.                                 *)
(***************************************************************************)
\* Logs are only appended to, a row is never replaced, and dead letters and the
\* record of exhausted budgets are kept, in every step, a crash included.
Grows ==
    /\ \A p \in Partitions : \A o \in Offsets(p) :
          o \in Offsets(p)' /\ Record(p, o)' = Record(p, o)
    /\ \A i \in EventIds : table[i] # NoRow => table'[i] = table[i]
    /\ dlq \subseteq dlq'
    /\ exhausted \subseteq exhausted'

LEMMA StoreRowGrows ==
    ASSUME TypeOK, NEW m \in Msgs
    PROVE  /\ \A i \in EventIds : table[i] # NoRow => StoreRow(m)[i] = table[i]
           /\ StoreRow(m)[Id[m]] # NoRow
BY IdAssumption, NoRowAssumption DEF StoreRow, TypeOK

LEMMA StepGrows == TypeOK /\ [Next]_vars => Grows
<1> SUFFICES ASSUME TypeOK, [Next]_vars PROVE Grows
  OBVIOUS
<1>1. ASSUME UNCHANGED <<raw, table>>, dlq \subseteq dlq', exhausted \subseteq exhausted'
      PROVE  Grows
  BY <1>1 DEF Grows, Offsets, Record
<1>2. ASSUME NEW m \in Msgs, Produce(m) PROVE Grows
  <2>1. UNCHANGED <<table, dlq, exhausted>>
    BY <1>2 DEF Produce
  <2>2. ASSUME NEW p \in Partitions, NEW o \in Offsets(p)
        PROVE  o \in Offsets(p)' /\ Record(p, o)' = Record(p, o)
    <3>1. raw[p] \in Seq(Msgs) /\ o \in 0 .. Len(raw[p]) - 1
      BY <2>2 DEF TypeOK, Offsets
    <3>2. raw'[p] = raw[p] \/ raw'[p] = Append(raw[p], m)
      BY <1>2, HomeAssumption DEF Produce, TypeOK
    <3>3. Len(raw'[p]) >= Len(raw[p]) /\ raw'[p][o + 1] = raw[p][o + 1]
      BY <3>1, <3>2
    <3> QED
      BY <3>1, <3>2, <3>3 DEF Offsets, Record
  <2> QED
    BY <2>1, <2>2 DEF Grows
<1>3. ASSUME NEW p \in Partitions, Rebalance(p) PROVE Grows
  BY <1>1, <1>3 DEF Rebalance, brokerVars
<1>4. CASE Start
  BY <1>1, <1>4 DEF Start, brokerVars
<1>5. CASE GetMany
  BY <1>1, <1>5 DEF GetMany, brokerVars
<1>6. ASSUME NEW p \in Partitions, Handle(p) PROVE Grows
  BY <1>1, <1>6 DEF Handle, brokerVars
<1>7. ASSUME UNCHANGED <<raw, dlq>>, exhausted \subseteq exhausted',
             table' = table \/ (Current \in Storable /\ table' = StoreRow(Current))
      PROVE  Grows
  <2>1. \A i \in EventIds : table[i] # NoRow => table'[i] = table[i]
    BY <1>7, StoreRowGrows DEF Storable
  <2> QED
    BY <1>7, <2>1 DEF Grows, Offsets, Record
<1>8. CASE Insert
  BY <1>7, <1>8 DEF Insert, brokerVars
<1>9. CASE InsertRejected
  BY <1>1, <1>9 DEF InsertRejected, brokerVars
<1>10. CASE RetryInsert
  BY <1>7, <1>10 DEF RetryInsert, Attempted, brokerVars
<1>11. CASE ExhaustBudget
  BY <1>7, <1>11 DEF ExhaustBudget, Attempted, brokerVars
<1>12. CASE PublishDlq
  BY <1>1, <1>12 DEF PublishDlq, DeadLetter
<1>13. CASE Commit
  BY <1>1, <1>13 DEF Commit
<1>14. CASE Crash
  BY <1>1, <1>14 DEF Crash, DeadLetter
<1>15. CASE Stop
  BY <1>1, <1>15 DEF Stop, brokerVars
<1>16. CASE UNCHANGED vars
  BY <1>1, <1>16 DEF vars
<1> QED
  BY <1>2, <1>3, <1>4, <1>5, <1>6, <1>8, <1>9, <1>10, <1>11, <1>12, <1>13,
     <1>14, <1>15, <1>16 DEF Next

LEMMA AccountedGrows ==
    ASSUME TypeOK, Grows, NEW p \in Partitions, NEW o \in Offsets(p)
    PROVE  /\ Settled(p, o) => Settled(p, o)'
           /\ Accounted(p, o) => Accounted(p, o)'
<1>1. Record(p, o) \in Msgs
  BY DEF TypeOK, Offsets, Record
<1>2. Id[Record(p, o)] \in EventIds
  BY <1>1, IdAssumption
<1>3. Record(p, o)' = Record(p, o)
  BY DEF Grows
<1>4. Settled(p, o) => Settled(p, o)'
  BY <1>2, <1>3 DEF Settled, Grows, Poison
<1> QED
  BY <1>4 DEF Accounted, Grows

(***************************************************************************)
(* Every committed record is accounted for.                                *)
(***************************************************************************)
\* Offsets stay inside the log, the current record inside the batch.
InRange ==
    /\ \A p \in Partitions : /\ committed[p] <= Len(raw[p])
                             /\ position[p] <= Len(raw[p])
                             /\ nxt[p] <= end[p]
                             /\ end[p] <= Len(raw[p])
    /\ pc \in {"insert", "dlq", "commit"} => nxt[tp] < end[tp]

\* All the records before offset n are accounted for.
Prefix(p, n) == \A o \in 0 .. n - 1 : o \in Offsets(p) => Accounted(p, o)

\* What was committed, and what the batch is past, is accounted for; what was
\* fetched is either that or still in the batch.
Progress ==
    \A p \in Partitions :
        /\ Prefix(p, committed[p])
        /\ Prefix(p, nxt[p])
        /\ \A o \in 0 .. position[p] - 1 :
              o \in Offsets(p) => Accounted(p, o) \/ (nxt[p] <= o /\ o < end[p])

\* The record about to be dead-lettered is poison; the one about to be
\* committed has had its effect.
Stage ==
    /\ pc = "dlq" => Current \in Poison
    /\ pc = "commit" => Settled(tp, nxt[tp])

IInv == TypeOK /\ InRange /\ Progress /\ Stage /\ DeadLettersArePoison

LEMMA InvInit == Init => IInv
<1> SUFFICES ASSUME Init PROVE IInv
  OBVIOUS
<1>1. TypeOK
  BY TypeInit
<1>2. InRange
  BY DEF Init, InRange
<1>3. Progress
  BY DEF Init, Progress, Prefix
<1>4. Stage /\ DeadLettersArePoison
  BY DEF Init, Stage, DeadLettersArePoison
<1> QED
  BY <1>1, <1>2, <1>3, <1>4 DEF IInv

\* A step that leaves the offsets of a partition alone keeps what is known of it.
LEMMA PrefixGrows ==
    ASSUME TypeOK, Grows, NEW p \in Partitions, NEW n \in Nat,
           n <= Len(raw[p]), Prefix(p, n)
    PROVE  Prefix(p, n)'
<1>1. Len(raw[p]) \in Nat
  BY DEF TypeOK
<1>2. \A o \in 0 .. n - 1 : o \in Offsets(p)
  BY <1>1 DEF Offsets
<1>3. \A o \in 0 .. n - 1 : Accounted(p, o)'
  BY <1>2, AccountedGrows DEF Prefix
<1> QED
  BY <1>3 DEF Prefix

LEMMA LogGrows ==
    ASSUME TypeOK, TypeOK', Grows, NEW p \in Partitions
    PROVE  Len(raw[p]) \in Nat /\ Len(raw'[p]) \in Nat /\ Len(raw[p]) <= Len(raw'[p])
<1>1. Len(raw[p]) \in Nat /\ Len(raw'[p]) \in Nat
  <2>1. raw[p] \in Seq(Msgs)
    BY DEF TypeOK
  <2>2. raw'[p] \in Seq(Msgs)
    BY DEF TypeOK
  <2> QED
    BY <2>1, <2>2
<1>2. CASE Len(raw[p]) = 0
  BY <1>1, <1>2
<1>3. CASE Len(raw[p]) > 0
  <2>1. Len(raw[p]) - 1 \in Offsets(p)
    BY <1>1, <1>3 DEF Offsets
  <2>2. Len(raw[p]) - 1 \in 0 .. Len(raw'[p]) - 1
    BY <2>1 DEF Grows, Offsets
  <2> QED
    BY <1>1, <2>2
<1> QED
  BY <1>1, <1>2, <1>3

LEMMA RangeStep == IInv /\ [Next]_vars /\ TypeOK' /\ Grows => InRange'
<1> SUFFICES ASSUME IInv, [Next]_vars, TypeOK', Grows PROVE InRange'
  OBVIOUS
<1> USE DEF IInv
<1>0. \A p \in Partitions : /\ Len(raw[p]) \in Nat /\ Len(raw'[p]) \in Nat
                            /\ Len(raw[p]) <= Len(raw'[p])
  BY LogGrows
<1>1. ASSUME UNCHANGED <<committed, position, nxt, end, tp>>,
             pc' \in {"insert", "dlq", "commit"} => pc \in {"insert", "dlq", "commit"}
      PROVE  InRange'
  <2>1. \A p \in Partitions : /\ committed[p] \in Nat /\ position[p] \in Nat
                              /\ nxt[p] \in Nat /\ end[p] \in Nat
    BY DEF TypeOK
  <2> QED
    BY <1>0, <1>1, <2>1 DEF InRange
<1>2. ASSUME NEW m \in Msgs, Produce(m) PROVE InRange'
  BY <1>1, <1>2 DEF Produce, batchVars
<1>3. ASSUME NEW p \in Partitions, Rebalance(p) PROVE InRange'
  BY <1>0, <1>3 DEF Rebalance, brokerVars, InRange, TypeOK
<1>4. CASE Start
  BY <1>0, <1>4 DEF Start, brokerVars, InRange, TypeOK
<1>5. CASE GetMany
  <2>1. PICK take \in [Partitions -> 0 .. MaxRecords] :
           /\ \A p \in Partitions : take[p] <= Available(p)
           /\ nxt' = position
           /\ position' = [p \in Partitions |-> position[p] + take[p]]
           /\ end' = position'
    BY <1>5 DEF GetMany
  <2>2. UNCHANGED <<raw, committed, pc>> /\ pc = "loop"
    BY <1>5 DEF GetMany, brokerVars
  <2>3. ASSUME NEW p \in Partitions
        PROVE  /\ committed'[p] <= Len(raw'[p]) /\ position'[p] <= Len(raw'[p])
               /\ nxt'[p] <= end'[p] /\ end'[p] <= Len(raw'[p])
    <3>1. take[p] \in Nat /\ take[p] <= Available(p)
      BY <2>1, BoundsAssumption
    <3>2. position[p] \in Nat /\ position[p] <= Len(raw[p])
      BY DEF InRange, TypeOK
    <3>3. Available(p) <= Len(raw[p]) - position[p]
      BY <1>0, <3>2 DEF Available
    <3>4. position[p] <= position[p] + take[p] /\ position[p] + take[p] <= Len(raw[p])
      BY <1>0, <3>1, <3>2, <3>3 DEF Available
    <3> QED
      BY <2>1, <2>2, <3>4 DEF InRange
  <2> QED
    BY <2>2, <2>3 DEF InRange
<1>6. ASSUME NEW p \in Partitions, Handle(p) PROVE InRange'
  BY <1>0, <1>6 DEF Handle, brokerVars, InRange, TypeOK
<1>7. CASE Insert
  BY <1>1, <1>7 DEF Insert, brokerVars, batchVars
<1>8. CASE InsertRejected
  BY <1>1, <1>8 DEF InsertRejected, brokerVars, batchVars
<1>9. CASE RetryInsert
  BY <1>1, <1>9 DEF RetryInsert, brokerVars, batchVars
<1>10. CASE ExhaustBudget
  BY <1>0, <1>10 DEF ExhaustBudget, brokerVars, InRange, TypeOK
<1>11. CASE PublishDlq
  BY <1>1, <1>11 DEF PublishDlq, batchVars
<1>12. CASE Commit
  BY <1>0, <1>12 DEF Commit, Acknowledge, InRange, TypeOK
<1>13. ASSUME \A p \in Partitions : committed'[p] <= Len(raw[p]), UNCHANGED raw, Forget
       PROVE  InRange'
  BY <1>0, <1>13 DEF Forget, InRange, TypeOK
<1>14. CASE Crash
  <2>1. UNCHANGED committed \/ (pc = "commit" /\ Acknowledge)
    BY <1>14 DEF Crash
  <2>2. \A p \in Partitions : committed'[p] <= Len(raw[p])
    <3>1. CASE UNCHANGED committed
      BY <3>1 DEF InRange
    <3>2. CASE pc = "commit" /\ Acknowledge
      <4>1. tp \in Partitions /\ nxt[tp] \in Nat /\ end[tp] \in Nat
        BY DEF TypeOK
      <4>2. nxt[tp] + 1 <= Len(raw[tp])
        BY <1>0, <3>2, <4>1 DEF InRange
      <4>3. \A p \in Partitions :
               committed'[p] = IF p = tp THEN nxt[tp] + 1 ELSE committed[p]
        BY <3>2 DEF Acknowledge, TypeOK
      <4> QED
        BY <4>2, <4>3 DEF InRange
    <3> QED
      BY <2>1, <3>1, <3>2
  <2> QED
    BY <1>13, <1>14, <2>2 DEF Crash
<1>15. CASE Stop
  BY <1>13, <1>15 DEF Stop, brokerVars, InRange
<1>16. CASE UNCHANGED vars
  BY <1>1, <1>16 DEF vars
<1> QED
  BY <1>2, <1>3, <1>4, <1>5, <1>6, <1>7, <1>8, <1>9, <1>10, <1>11, <1>12,
     <1>14, <1>15, <1>16 DEF Next

LEMMA ProgressStep == IInv /\ [Next]_vars /\ TypeOK' /\ Grows => Progress'
<1> SUFFICES ASSUME IInv, [Next]_vars, TypeOK', Grows PROVE Progress'
  OBVIOUS
<1> USE DEF IInv
<1>0. \A p \in Partitions :
         /\ committed[p] \in Nat /\ position[p] \in Nat
         /\ nxt[p] \in Nat /\ end[p] \in Nat /\ Len(raw[p]) \in Nat
  BY DEF TypeOK
<1>1. \A p \in Partitions : \A o \in 0 .. committed[p] - 1 : Accounted(p, o)'
  BY <1>0, AccountedGrows DEF InRange, Progress, Prefix, Offsets
<1>2. \A p \in Partitions : \A o \in 0 .. nxt[p] - 1 : Accounted(p, o)'
  BY <1>0, AccountedGrows DEF InRange, Progress, Prefix, Offsets
<1>3. \A p \in Partitions : \A o \in 0 .. position[p] - 1 :
         Accounted(p, o)' \/ (nxt[p] <= o /\ o < end[p])
  BY <1>0, AccountedGrows DEF InRange, Progress, Offsets
<1>4. ASSUME UNCHANGED <<committed, position, nxt, end>> PROVE Progress'
  BY <1>1, <1>2, <1>3, <1>4 DEF Progress, Prefix
<1>5. ASSUME \A p \in Partitions : \A o \in 0 .. committed'[p] - 1 : Accounted(p, o)',
             position' = committed', nxt' = committed'
      PROVE  Progress'
  BY <1>5 DEF Progress, Prefix
<1>6. pc \in {"insert", "dlq", "commit"} =>
         /\ tp \in Partitions
         /\ nxt[tp] \in Offsets(tp)
  <2>1. tp \in Partitions
    BY DEF TypeOK
  <2> QED
    BY <1>0, <2>1 DEF InRange, Offsets
<1>7. ASSUME pc = "commit", Acknowledge
      PROVE  \A p \in Partitions : \A o \in 0 .. committed'[p] - 1 : Accounted(p, o)'
  <2>1. PICK q \in Partitions, n \in Nat : q = tp /\ n = nxt[tp] /\ n \in Offsets(q)
    BY <1>0, <1>6, <1>7
  <2>2. Accounted(q, n)'
    <3>1. Settled(q, n)
      BY <1>7, <2>1 DEF Stage
    <3> QED
      BY <2>1, <3>1, AccountedGrows DEF Accounted
  <2>3. \A p \in Partitions :
           committed'[p] = IF p = q THEN n + 1 ELSE committed[p]
    BY <1>7, <2>1 DEF Acknowledge, TypeOK
  <2>4. \A o \in 0 .. n : Accounted(q, o)'
    BY <1>0, <1>2, <2>1, <2>2
  <2> QED
    BY <1>0, <1>1, <2>1, <2>3, <2>4
<1>8. ASSUME NEW q \in Partitions, NEW n \in Nat, q = tp, n = nxt[tp],
             Accounted(q, n)', nxt' = [nxt EXCEPT ![tp] = @ + 1],
             UNCHANGED <<position, end>>,
             \A p \in Partitions : \A o \in 0 .. committed'[p] - 1 : Accounted(p, o)'
      PROVE  Progress'
  <2>1. \A p \in Partitions : nxt'[p] = IF p = q THEN n + 1 ELSE nxt[p]
    BY <1>8 DEF TypeOK
  <2>2. \A p \in Partitions : \A o \in 0 .. nxt'[p] - 1 : Accounted(p, o)'
    BY <1>0, <1>2, <1>8, <2>1
  <2>3. \A p \in Partitions : \A o \in 0 .. position'[p] - 1 :
           Accounted(p, o)' \/ (nxt'[p] <= o /\ o < end'[p])
    <3> SUFFICES ASSUME NEW p \in Partitions, NEW o \in 0 .. position[p] - 1,
                        ~ Accounted(p, o)'
                 PROVE  nxt'[p] <= o /\ o < end[p]
      BY <1>8
    <3>1. nxt[p] <= o /\ o < end[p]
      BY <1>3
    <3>2. p = q => o # n
      BY <1>8
    <3> QED
      BY <1>0, <1>8, <2>1, <3>1, <3>2
  <2> QED
    BY <1>8, <2>2, <2>3 DEF Progress, Prefix
<1>11. ASSUME NEW m \in Msgs, Produce(m) PROVE Progress'
  BY <1>4, <1>11 DEF Produce, batchVars
<1>12. ASSUME NEW q \in Partitions, Rebalance(q) PROVE Progress'
  <2>1. \A p \in Partitions : position'[p] = IF p = q THEN committed[p] ELSE position[p]
    BY <1>12 DEF Rebalance, TypeOK
  <2>2. UNCHANGED <<committed, nxt, end>>
    BY <1>12 DEF Rebalance, brokerVars
  <2>3. \A p \in Partitions : \A o \in 0 .. position'[p] - 1 :
           Accounted(p, o)' \/ (nxt[p] <= o /\ o < end[p])
    BY <1>1, <1>3, <2>1
  <2> QED
    BY <1>1, <1>2, <2>2, <2>3 DEF Progress, Prefix
<1>13. CASE Start
  BY <1>1, <1>5, <1>13 DEF Start, brokerVars
<1>14. CASE GetMany
  <2>1. PICK take \in [Partitions -> 0 .. MaxRecords] :
           /\ nxt' = position
           /\ position' = [p \in Partitions |-> position[p] + take[p]]
           /\ end' = position'
    BY <1>14 DEF GetMany
  <2>2. BatchDone /\ UNCHANGED committed
    BY <1>14 DEF GetMany, brokerVars
  <2>3. \A p \in Partitions : \A o \in 0 .. position[p] - 1 : Accounted(p, o)'
    <3> SUFFICES ASSUME NEW p \in Partitions, NEW o \in 0 .. position[p] - 1
                 PROVE  Accounted(p, o)'
      OBVIOUS
    <3>1. ~ (nxt[p] <= o /\ o < end[p])
      BY <1>0, <2>2 DEF BatchDone
    <3> QED
      BY <1>3, <3>1
  <2>4. \A p \in Partitions : \A o \in 0 .. position'[p] - 1 :
           Accounted(p, o)' \/ (nxt'[p] <= o /\ o < end'[p])
    <3> SUFFICES ASSUME NEW p \in Partitions, NEW o \in 0 .. position'[p] - 1
                 PROVE  Accounted(p, o)' \/ (nxt'[p] <= o /\ o < end'[p])
      OBVIOUS
    <3>1. position'[p] \in Nat
      BY <1>0, <2>1, BoundsAssumption
    <3>2. CASE o < position[p]
      BY <1>0, <2>3, <3>1, <3>2
    <3>3. CASE position[p] <= o
      BY <1>0, <2>1, <3>1, <3>3
    <3> QED
      BY <1>0, <3>1, <3>2, <3>3
  <2> QED
    BY <1>1, <2>1, <2>2, <2>3, <2>4 DEF Progress, Prefix
<1>15. ASSUME NEW q \in Partitions, Handle(q) PROVE Progress'
  BY <1>4, <1>15 DEF Handle, brokerVars
<1>16. CASE Insert
  BY <1>4, <1>16 DEF Insert, brokerVars, batchVars
<1>17. CASE InsertRejected
  BY <1>4, <1>17 DEF InsertRejected, brokerVars, batchVars
<1>18. CASE RetryInsert
  BY <1>4, <1>18 DEF RetryInsert, brokerVars, batchVars
<1>19. CASE ExhaustBudget
  <2>1. PICK q \in Partitions, n \in Nat : q = tp /\ n = nxt[tp] /\ n \in Offsets(q)
    BY <1>0, <1>6, <1>19 DEF ExhaustBudget
  <2>2. Accounted(q, n)'
    BY <1>19, <2>1 DEF ExhaustBudget, Accounted
  <2>3. \A p \in Partitions : \A o \in 0 .. committed'[p] - 1 : Accounted(p, o)'
    BY <1>1, <1>19 DEF ExhaustBudget, brokerVars
  <2> QED
    BY <1>8, <1>19, <2>1, <2>2, <2>3 DEF ExhaustBudget
<1>20. CASE PublishDlq
  BY <1>4, <1>20 DEF PublishDlq, batchVars
<1>21. CASE Commit
  <2>1. PICK q \in Partitions, n \in Nat : q = tp /\ n = nxt[tp] /\ n \in Offsets(q)
    BY <1>0, <1>6, <1>21 DEF Commit
  <2>2. Accounted(q, n)'
    <3>1. Settled(q, n)
      BY <1>21, <2>1 DEF Commit, Stage
    <3> QED
      BY <2>1, <3>1, AccountedGrows DEF Accounted
  <2> QED
    BY <1>7, <1>8, <1>21, <2>1, <2>2 DEF Commit
<1>22. CASE Crash
  <2>1. UNCHANGED committed \/ (pc = "commit" /\ Acknowledge)
    BY <1>22 DEF Crash
  <2> QED
    BY <1>1, <1>5, <1>7, <1>22, <2>1 DEF Crash, Forget
<1>23. CASE Stop
  BY <1>1, <1>5, <1>23 DEF Stop, Forget, brokerVars
<1>24. CASE UNCHANGED vars
  BY <1>4, <1>24 DEF vars
<1> QED
  BY <1>11, <1>12, <1>13, <1>14, <1>15, <1>16, <1>17, <1>18, <1>19, <1>20,
     <1>21, <1>22, <1>23, <1>24 DEF Next

LEMMA StageStep == IInv /\ [Next]_vars /\ TypeOK' /\ Grows => Stage'
<1> SUFFICES ASSUME IInv, [Next]_vars, TypeOK', Grows PROVE Stage'
  OBVIOUS
<1> USE DEF IInv
<1>1. ASSUME pc' \notin {"dlq", "commit"} PROVE Stage'
  BY <1>1 DEF Stage
<1>2. ASSUME pc \in {"insert", "dlq", "commit"}
      PROVE  \E q \in Partitions, n \in Nat :
                q = tp /\ n = nxt[tp] /\ n \in Offsets(q)
  <2>1. tp \in Partitions /\ nxt[tp] \in Nat /\ end[tp] \in Nat /\ Len(raw[tp]) \in Nat
    BY DEF TypeOK
  <2>2. nxt[tp] \in Offsets(tp)
    BY <1>2, <2>1 DEF InRange, Offsets
  <2> QED
    BY <2>1, <2>2
\* The current record stays what it is while the place in the batch does.
<1>3. ASSUME UNCHANGED <<pc, nxt, tp>> PROVE Stage'
  <2>1. CASE pc \notin {"dlq", "commit"}
    BY <1>1, <1>3, <2>1
  <2>2. CASE pc \in {"dlq", "commit"}
    <3>1. PICK q \in Partitions, n \in Nat :
             q = tp /\ n = nxt[tp] /\ n \in Offsets(q)
      BY <1>2, <2>2
    <3>2. Record(q, n)' = Record(q, n)
      BY <3>1 DEF Grows
    <3>3. Settled(q, n) => Settled(q, n)'
      BY <3>1, AccountedGrows
    <3>4. pc = "dlq" => Record(q, n) \in Poison
      BY <3>1 DEF Stage, Current
    <3>5. pc = "commit" => Settled(q, n)
      BY <3>1 DEF Stage
    <3>6. pc' = "dlq" => Current' \in Poison
      BY <1>3, <3>1, <3>2, <3>4 DEF Current, Record
    <3>7. pc' = "commit" => Settled(tp, nxt[tp])'
      BY <1>3, <3>1, <3>3, <3>5 DEF Settled, Record
    <3> QED
      BY <3>6, <3>7 DEF Stage, Poison
  <2> QED
    BY <2>1, <2>2
<1>4. ASSUME NEW m \in Msgs, Produce(m) PROVE Stage'
  BY <1>3, <1>4 DEF Produce, batchVars
<1>5. ASSUME NEW p \in Partitions, Rebalance(p) PROVE Stage'
  BY <1>3, <1>5 DEF Rebalance
<1>6. CASE Start
  BY <1>1, <1>6 DEF Start
<1>7. CASE GetMany
  BY <1>1, <1>7 DEF GetMany
<1>8. ASSUME NEW p \in Partitions, Handle(p) PROVE Stage'
  <2>1. pc' = "dlq" => Record(p, nxt[p]) \in Malformed
    BY <1>8 DEF Handle
  <2>2. UNCHANGED <<raw, nxt>> /\ tp' = p /\ pc' # "commit"
    BY <1>8 DEF Handle, brokerVars
  <2> QED
    BY <2>1, <2>2 DEF Stage, Current, Record, Poison
<1>9. CASE Insert
  <2>1. UNCHANGED <<raw, dlq, nxt, tp>> /\ pc' = "commit"
    BY <1>9 DEF Insert, brokerVars, batchVars
  <2>2. Current \in Msgs /\ Current \notin Poison
    BY <1>9 DEF Insert, Storable
  <2>3. table'[Id[Current]] # NoRow
    BY <1>9, <2>2, StoreRowGrows DEF Insert
  <2> QED
    BY <2>1, <2>2, <2>3 DEF Stage, Settled, Current, Record, Poison
<1>10. CASE InsertRejected
  BY <1>10 DEF InsertRejected, Stage, Current, Record, Poison, brokerVars, batchVars
<1>11. CASE RetryInsert
  BY <1>3, <1>11 DEF RetryInsert, batchVars
<1>12. CASE ExhaustBudget
  BY <1>1, <1>12 DEF ExhaustBudget
<1>13. CASE PublishDlq
  <2>1. UNCHANGED <<raw, nxt, tp>> /\ pc' = "commit" /\ <<tp, nxt[tp]>> \in dlq'
    BY <1>13 DEF PublishDlq, DeadLetter, batchVars
  <2>2. Current \in Poison
    BY <1>13 DEF PublishDlq, Stage
  <2> QED
    BY <2>1, <2>2 DEF Stage, Settled, Current, Record, Poison
<1>14. CASE Commit
  BY <1>1, <1>14 DEF Commit
<1>15. CASE Crash
  BY <1>1, <1>15 DEF Crash, Forget
<1>16. CASE Stop
  BY <1>1, <1>16 DEF Stop, Forget
<1>17. CASE UNCHANGED vars
  BY <1>3, <1>17 DEF vars
<1> QED
  BY <1>4, <1>5, <1>6, <1>7, <1>8, <1>9, <1>10, <1>11, <1>12, <1>13, <1>14,
     <1>15, <1>16, <1>17 DEF Next

LEMMA DeadLettersStep == IInv /\ [Next]_vars /\ Grows => DeadLettersArePoison'
<1> SUFFICES ASSUME IInv, [Next]_vars, Grows PROVE DeadLettersArePoison'
  OBVIOUS
<1> USE DEF IInv
<1>1. ASSUME UNCHANGED dlq PROVE DeadLettersArePoison'
  <2> SUFFICES ASSUME NEW d \in dlq
               PROVE  d[2] \in Offsets(d[1])' /\ Record(d[1], d[2])' \in Poison
    BY <1>1 DEF DeadLettersArePoison, Poison
  <2>1. d[1] \in Partitions /\ d[2] \in Offsets(d[1]) /\ Record(d[1], d[2]) \in Poison
    BY DEF DeadLettersArePoison, TypeOK
  <2> QED
    BY <2>1 DEF Grows
<1>2. ASSUME pc = "dlq", DeadLetter, UNCHANGED raw PROVE DeadLettersArePoison'
  <2>1. tp \in Partitions /\ nxt[tp] \in Nat /\ end[tp] \in Nat /\ Len(raw[tp]) \in Nat
    BY DEF TypeOK
  <2>2. nxt[tp] \in Offsets(tp)
    BY <1>2, <2>1 DEF InRange, Offsets
  <2>3. Record(tp, nxt[tp]) \in Poison
    BY <1>2 DEF Stage, Current
  <2> QED
    BY <1>2, <2>2, <2>3 DEF DeadLetter, DeadLettersArePoison, Offsets, Record, Poison
<1> QED
  BY <1>1, <1>2 DEF Next, Produce, Rebalance, Start, GetMany, Handle, Insert,
     InsertRejected, RetryInsert, ExhaustBudget, PublishDlq, Commit, Crash, Stop,
     brokerVars, vars

LEMMA InvStep == IInv /\ [Next]_vars => IInv'
BY TypeStep, StepGrows, RangeStep, ProgressStep, StageStep, DeadLettersStep DEF IInv

LEMMA InvAlways == Spec => []IInv
BY InvInit, InvStep, PTL DEF Spec

\* Every committed record was stored, dead-lettered, or given up on after the
\* whole retry budget, for any history of crashes, retries and rebalances.
THEOREM CommittedAreAccounted == Spec => []CommittedAccounted
<1>1. IInv => CommittedAccounted
  <2> SUFFICES ASSUME IInv, NEW p \in Partitions, NEW o \in 0 .. committed[p] - 1
               PROVE  o \in Offsets(p) /\ Accounted(p, o)
    BY DEF CommittedAccounted
  <2>1. committed[p] \in Nat /\ Len(raw[p]) \in Nat
    BY DEF IInv, TypeOK
  <2>2. o \in Offsets(p)
    BY <2>1 DEF IInv, InRange, Offsets
  <2> QED
    BY <2>2 DEF IInv, Progress, Prefix
<1> QED
  BY <1>1, InvAlways, PTL

\* The dead-letter topic never receives a record that could have been stored.
THEOREM DeadLettersPoison == Spec => []DeadLettersArePoison
<1>1. IInv => DeadLettersArePoison
  BY DEF IInv
<1> QED
  BY <1>1, InvAlways, PTL

\* Rows, dead letters and log records, once written, are never changed.
THEOREM NothingTakenBack == Spec => [][Grows]_vars
<1>1. TypeOK /\ [Next]_vars => [Grows]_vars
  BY StepGrows
<1> QED
  BY <1>1, TypeCorrect, PTL DEF Spec

(***************************************************************************)
(* Without a rebalance the committed offsets only grow.                    *)
(***************************************************************************)
\* As long as no position was reset, the batch ends where aiokafka stands and
\* the place in the batch is never behind the committed offset.
InStep ==
    rebalances = 0 =>
        \A p \in Partitions : end[p] = position[p] /\ committed[p] <= nxt[p]

LEMMA InStepStep ==
    IInv /\ InStep /\ [Next]_vars =>
        /\ InStep'
        /\ rebalances' = 0 => \A p \in Partitions : committed'[p] >= committed[p]
<1> SUFFICES ASSUME IInv, InStep, [Next]_vars, rebalances' = 0
             PROVE  \A p \in Partitions : /\ end'[p] = position'[p]
                                          /\ committed'[p] <= nxt'[p]
                                          /\ committed'[p] >= committed[p]
  BY DEF InStep
<1> USE DEF InStep, IInv
<1>0. \A p \in Partitions :
         committed[p] \in Nat /\ position[p] \in Nat /\ nxt[p] \in Nat /\ end[p] \in Nat
  BY DEF TypeOK
<1>1. rebalances \in Nat
  BY DEF TypeOK
<1> DEFINE Goal == \A p \in Partitions : /\ end'[p] = position'[p]
                                         /\ committed'[p] <= nxt'[p]
                                         /\ committed'[p] >= committed[p]
<1>2. ASSUME UNCHANGED <<committed, position, nxt, end, rebalances>> PROVE Goal
  BY <1>0, <1>2
<1>3. ASSUME NEW m \in Msgs, Produce(m) PROVE Goal
  BY <1>2, <1>3 DEF Produce, batchVars
<1>4. ASSUME NEW p \in Partitions, Rebalance(p) PROVE Goal
  BY <1>1, <1>4 DEF Rebalance
<1>5. CASE Start
  BY <1>0, <1>5 DEF Start, brokerVars
<1>6. CASE GetMany
  BY <1>0, <1>6 DEF GetMany, BatchDone, brokerVars
<1>7. ASSUME NEW p \in Partitions, Handle(p) PROVE Goal
  BY <1>2, <1>7 DEF Handle, brokerVars
<1>8. CASE Insert
  BY <1>2, <1>8 DEF Insert, brokerVars, batchVars
<1>9. CASE InsertRejected
  BY <1>2, <1>9 DEF InsertRejected, brokerVars, batchVars
<1>10. CASE RetryInsert
  BY <1>2, <1>10 DEF RetryInsert, brokerVars, batchVars
<1>11. ASSUME nxt' = [nxt EXCEPT ![tp] = @ + 1], UNCHANGED <<position, end, rebalances>>,
              UNCHANGED committed \/ Acknowledge
       PROVE  Goal
  <2>1. nxt \in [Partitions -> Nat] /\ committed \in [Partitions -> Nat]
    BY DEF TypeOK
  <2>2. \A p \in Partitions : nxt'[p] = IF p = tp THEN nxt[p] + 1 ELSE nxt[p]
    BY <1>11, <2>1
  <2>3. \A p \in Partitions :
           \/ committed'[p] = committed[p]
           \/ p = tp /\ committed'[p] = nxt[p] + 1
    BY <1>11, <2>1 DEF Acknowledge
  <2> QED
    BY <1>0, <1>11, <2>2, <2>3
<1>12. CASE ExhaustBudget
  BY <1>11, <1>12 DEF ExhaustBudget, brokerVars
<1>13. CASE PublishDlq
  BY <1>2, <1>13 DEF PublishDlq, batchVars
<1>14. CASE Commit
  BY <1>11, <1>14 DEF Commit
<1>15. ASSUME UNCHANGED committed \/ Acknowledge, Forget, UNCHANGED rebalances PROVE Goal
  <2>1. \A p \in Partitions :
           committed'[p] = committed[p] \/ committed'[p] = nxt[p] + 1
    <3>1. committed \in [Partitions -> Nat]
      BY DEF TypeOK
    <3> QED
      BY <1>15, <3>1 DEF Acknowledge
  <2>2. \A p \in Partitions : committed'[p] >= committed[p] /\ committed'[p] \in Nat
    BY <1>0, <1>15, <2>1
  <2> QED
    BY <1>15, <2>2 DEF Forget
<1>16. CASE Crash
  BY <1>15, <1>16 DEF Crash
<1>17. CASE Stop
  BY <1>15, <1>17 DEF Stop, brokerVars
<1>18. CASE UNCHANGED vars
  BY <1>2, <1>18 DEF vars
<1> QED
  BY <1>3, <1>4, <1>5, <1>6, <1>7, <1>8, <1>9, <1>10, <1>12, <1>13, <1>14,
     <1>16, <1>17, <1>18 DEF Next

\* Crashes, restarts and failed commits never move a committed offset back; only
\* a rebalance under a batch in hand can.
THEOREM NoRewindWithoutRebalance == Spec => CommitsRewindOnlyAfterRebalance
<1>1. Init => InStep
  BY DEF Init, InStep
<1>2. IInv /\ InStep /\ [Next]_vars => InStep'
  BY InStepStep
<1>3. IInv /\ InStep /\ [Next]_vars =>
         [rebalances' = 0 => \A p \in Partitions : committed'[p] >= committed[p]]_vars
  BY InStepStep
<1> QED
  BY <1>1, <1>2, <1>3, InvAlways, PTL DEF Spec, CommitsRewindOnlyAfterRebalance

(***************************************************************************)
(* The first delivery of an event_id is the one that stays.                *)
(***************************************************************************)
\* Records lie in the partition of their key, and a row was once a record.
Delivered ==
    /\ \A p \in Partitions : \A o \in Offsets(p) : Home[Record(p, o)] = p
    /\ \A i \in EventIds : table[i] # NoRow =>
          /\ table[i] \in Msgs \ Poison
          /\ Id[table[i]] = i
          /\ \E p \in Partitions : \E o \in Offsets(p) : Record(p, o) = table[i]

LEMMA DeliveredStep == IInv /\ Delivered /\ [Next]_vars /\ TypeOK' /\ Grows => Delivered'
<1> SUFFICES ASSUME IInv, Delivered, [Next]_vars, TypeOK', Grows PROVE Delivered'
  OBVIOUS
<1> USE DEF IInv
\* What was in the log or the table before the step.
<1>1. ASSUME NEW i \in EventIds, table[i] # NoRow
      PROVE  \E p \in Partitions : \E o \in Offsets(p)' : Record(p, o)' = table[i]
  BY <1>1 DEF Delivered, Grows
<1>2. ASSUME UNCHANGED <<raw, table>> PROVE Delivered'
  BY <1>2 DEF Delivered, Offsets, Record, Poison
<1>3. ASSUME NEW m \in Msgs, Produce(m) PROVE Delivered'
  <2>1. UNCHANGED table
    BY <1>3 DEF Produce
  <2>2. ASSUME NEW p \in Partitions, NEW o \in Offsets(p)' PROVE Home[Record(p, o)'] = p
    <3>1. raw[p] \in Seq(Msgs) /\ Len(raw[p]) \in Nat
      BY DEF TypeOK
    <3>2. raw'[p] = IF p = Home[m] THEN Append(raw[p], m) ELSE raw[p]
      BY <1>3, HomeAssumption DEF Produce, TypeOK
    <3>3. CASE o \in Offsets(p)
      BY <3>3 DEF Delivered, Grows
    <3>4. CASE o \notin Offsets(p)
      <4>1. o \in 0 .. Len(raw'[p]) - 1 /\ o \notin 0 .. Len(raw[p]) - 1
        BY <3>4 DEF Offsets
      <4>2. p = Home[m] /\ o = Len(raw[p])
        BY <3>1, <3>2, <4>1
      <4> QED
        BY <3>1, <3>2, <4>2 DEF Record
    <3> QED
      BY <3>3, <3>4
  <2>3. \A i \in EventIds : table'[i] # NoRow =>
          /\ table'[i] \in Msgs \ Poison
          /\ Id[table'[i]] = i
          /\ \E p \in Partitions : \E o \in Offsets(p)' : Record(p, o)' = table'[i]
    BY <1>1, <2>1 DEF Delivered
  <2> QED
    BY <2>2, <2>3 DEF Delivered, Offsets, Record, Poison
<1>4. ASSUME UNCHANGED raw, pc = "insert", Current \in Storable, table' = StoreRow(Current)
      PROVE  Delivered'
  <2>1. Current \in Msgs \ Poison
    BY <1>4 DEF Storable
  <2>2. tp \in Partitions /\ nxt[tp] \in Offsets(tp)
    <3>1. tp \in Partitions /\ nxt[tp] \in Nat /\ end[tp] \in Nat /\ Len(raw[tp]) \in Nat
      BY DEF TypeOK
    <3> QED
      BY <1>4, <3>1 DEF InRange, Offsets
  <2>3. Home[Current] = tp
    BY <2>2 DEF Delivered, Current
  <2>4. ASSUME NEW i \in EventIds, table'[i] # table[i]
        PROVE  i = Id[Current] /\ table'[i] = Current
    BY <1>4, <2>1, <2>4, IdAssumption DEF StoreRow, TypeOK
  <2>5. \A i \in EventIds : table'[i] # NoRow =>
          /\ table'[i] \in Msgs \ Poison
          /\ Id[table'[i]] = i
          /\ \E p \in Partitions : \E o \in Offsets(p) : Record(p, o) = table'[i]
    BY <2>1, <2>2, <2>3, <2>4 DEF Delivered, Current
  <2> QED
    BY <1>4, <2>5 DEF Delivered, Offsets, Record, Poison
<1>5. CASE Insert
  BY <1>4, <1>5 DEF Insert, brokerVars
<1>6. CASE RetryInsert
  BY <1>2, <1>4, <1>6 DEF RetryInsert, Attempted, brokerVars
<1>7. CASE ExhaustBudget
  BY <1>2, <1>4, <1>7 DEF ExhaustBudget, Attempted, brokerVars
<1>8. CASE UNCHANGED <<raw, table>>
  BY <1>2, <1>8
<1> QED
  BY <1>3, <1>5, <1>6, <1>7, <1>8 DEF Next, Rebalance, Start, GetMany, Handle,
     InsertRejected, PublishDlq, Commit, Crash, Stop, brokerVars, vars

LEMMA DeliveredAlways == Spec => []Delivered
<1>1. Init => Delivered
  BY DEF Init, Delivered, Offsets
<1>2. IInv /\ Delivered /\ [Next]_vars => Delivered'
  BY TypeStep, StepGrows, DeliveredStep DEF IInv
<1> QED
  BY <1>1, <1>2, InvAlways, PTL DEF Spec

\* Two records with one event_id are in one partition: that of their key.
LEMMA SamePartition ==
    ASSUME TypeOK, Delivered,
           NEW p \in Partitions, NEW o \in Offsets(p),
           NEW q \in Partitions, NEW n \in Offsets(q),
           Id[Record(p, o)] = Id[Record(q, n)]
    PROVE  p = q
<1>1. Record(p, o) \in Msgs /\ Record(q, n) \in Msgs
  <2>1. raw[p] \in Seq(Msgs) /\ raw[q] \in Seq(Msgs)
    BY DEF TypeOK
  <2> QED
    BY <2>1 DEF Offsets, Record
<1> QED
  BY <1>1, AffinityAssumption DEF Delivered

LEMMA FirstStep ==
    IInv /\ Delivered /\ FirstDeliveryWins /\ [Next]_vars /\ TypeOK' /\ Grows
        => FirstDeliveryWins'
<1> SUFFICES ASSUME IInv, Delivered, FirstDeliveryWins, [Next]_vars, TypeOK', Grows,
                    NEW p \in Partitions, NEW o \in Offsets(p)',
                    FirstDelivery(p, o)', <<p, o>> \notin exhausted'
             PROVE  table'[Id[Record(p, o)']] \in {NoRow, Record(p, o)'}
  BY DEF FirstDeliveryWins
<1> USE DEF IInv
<1>1. Len(raw[p]) \in Nat /\ Len(raw'[p]) \in Nat /\ o \in Nat
  BY LogGrows DEF Offsets
<1>2. CASE o \in Offsets(p)
  <2>1. \A q \in Offsets(p) : q \in Offsets(p)' /\ Record(p, q)' = Record(p, q)
    BY DEF Grows
  <2>2. FirstDelivery(p, o)
    BY <1>2, <2>1 DEF FirstDelivery, Poison, Storable
  <2>3. <<p, o>> \notin exhausted
    BY DEF Grows
  <2>4. table[Id[Record(p, o)]] \in {NoRow, Record(p, o)}
    BY <1>2, <2>2, <2>3 DEF FirstDeliveryWins
  <2>5. Record(p, o) \in Msgs /\ Id[Record(p, o)] \in EventIds
    BY <2>2, IdAssumption DEF FirstDelivery, Storable
  <2>6. CASE table'[Id[Record(p, o)]] = table[Id[Record(p, o)]]
    BY <1>2, <2>1, <2>4, <2>6
  <2>7. CASE table[Id[Record(p, o)]] # NoRow
    BY <1>2, <2>1, <2>4, <2>5, <2>7 DEF Grows
  \* The insert of a row under this event_id.
  <2>8. CASE /\ table[Id[Record(p, o)]] = NoRow
             /\ table'[Id[Record(p, o)]] # table[Id[Record(p, o)]]
    <3>1. pc = "insert" /\ Current \in Storable /\ table' = StoreRow(Current)
      BY <2>8 DEF Next, Produce, Rebalance, Start, GetMany, Handle, Insert,
         InsertRejected, RetryInsert, ExhaustBudget, Attempted, PublishDlq, Commit,
         Crash, Stop, brokerVars, vars
    <3>2. tp \in Partitions /\ nxt[tp] \in Nat /\ nxt[tp] \in Offsets(tp)
      <4>1. tp \in Partitions /\ nxt[tp] \in Nat /\ end[tp] \in Nat /\ Len(raw[tp]) \in Nat
        BY DEF TypeOK
      <4> QED
        BY <3>1, <4>1 DEF InRange, Offsets
    <3>3. Id[Current] = Id[Record(p, o)] /\ table'[Id[Current]] = Current
      BY <2>5, <2>8, <3>1, IdAssumption DEF StoreRow, TypeOK, Storable
    <3>4. p = tp
      BY <1>2, <3>2, <3>3, SamePartition DEF Current
    <3>5. ~ (o < nxt[tp])
      <4> SUFFICES ASSUME o < nxt[tp] PROVE FALSE
        OBVIOUS
      <4>1. Accounted(p, o)
        BY <1>1, <1>2, <3>2, <3>4 DEF Progress, Prefix
      <4>2. Settled(p, o)
        BY <2>3, <4>1 DEF Accounted
      <4> QED
        BY <2>2, <2>8, <4>2 DEF Settled, FirstDelivery, Storable
    <3>6. ~ (nxt[tp] < o)
      BY <2>2, <3>1, <3>2, <3>3, <3>4 DEF FirstDelivery, Current, Storable
    <3>7. o = nxt[tp]
      BY <1>1, <3>2, <3>5, <3>6
    <3> QED
      BY <1>2, <2>1, <3>3, <3>4, <3>7 DEF Current
  <2> QED
    BY <2>6, <2>7, <2>8
\* The record has just been appended: no row has its event_id yet.
<1>3. CASE o \notin Offsets(p)
  <2>1. PICK m \in Msgs : Produce(m)
    BY <1>3 DEF Next, Rebalance, Start, GetMany, Handle, Insert, InsertRejected,
       RetryInsert, ExhaustBudget, PublishDlq, Commit, Crash, Stop, brokerVars,
       batchVars, vars, Offsets
  <2>2. UNCHANGED table
    BY <2>1 DEF Produce
  <2>3. raw[p] \in Seq(Msgs)
    BY DEF TypeOK
  <2>4. raw'[p] = IF p = Home[m] THEN Append(raw[p], m) ELSE raw[p]
    BY <2>1, HomeAssumption DEF Produce, TypeOK
  <2>5. p = Home[m] /\ o = Len(raw[p]) /\ Record(p, o)' = m
    BY <1>1, <1>3, <2>3, <2>4 DEF Offsets, Record
  <2>6. ASSUME table[Id[m]] # NoRow PROVE FALSE
    <3> DEFINE r == table[Id[m]]
    <3>1. Id[m] \in EventIds
      BY IdAssumption
    <3>2. r \in Msgs \ Poison /\ Id[r] = Id[m]
      BY <2>6, <3>1 DEF Delivered
    <3>3. Home[r] = p
      BY <2>5, <3>2, AffinityAssumption
    <3>4. PICK q \in Offsets(p) : Record(p, q) = r
      BY <2>6, <3>1, <3>3 DEF Delivered
    <3>5. q < o /\ q \in Offsets(p)' /\ Record(p, q)' = r
      BY <1>1, <2>5, <3>4 DEF Offsets, Grows
    <3> QED
      BY <2>5, <3>2, <3>5 DEF FirstDelivery, Poison
  <2> QED
    BY <2>2, <2>5, <2>6
<1> QED
  BY <1>2, <1>3

\* No correction and no replayed duplicate ever takes the row of an earlier
\* record of the same event_id, unless that one exhausted the retry budget.
THEOREM FirstWins == Spec => []FirstDeliveryWins
<1>1. Init => FirstDeliveryWins
  BY DEF Init, FirstDeliveryWins, Offsets
<1>2. IInv /\ Delivered /\ FirstDeliveryWins /\ [Next]_vars => FirstDeliveryWins'
  BY TypeStep, StepGrows, FirstStep DEF IInv
<1> QED
  BY <1>1, <1>2, InvAlways, DeliveredAlways, PTL DEF Spec

(***************************************************************************)
(* The consumer implements AtLeastOnce.                                    *)
(***************************************************************************)
Dealt == UNION {{p} \X Handled(p) : p \in Partitions}

LEMMA DealtMember ==
    ASSUME NEW p \in Partitions, NEW o
    PROVE  <<p, o>> \in Dealt <=> o \in Handled(p)
BY DEF Dealt

LEMMA DealtGrows ==
    ASSUME TypeOK, Grows
    PROVE  Dealt \subseteq Dealt'
<1>1. ASSUME NEW p \in Partitions PROVE Handled(p) \subseteq Handled(p)'
  BY AccountedGrows DEF Handled, Grows
<1> QED
  BY <1>1 DEF Dealt

\* What a step can do to the record it is working on.
Effect ==
    /\ UNCHANGED <<raw, committed>>
    /\ \/ /\ pc = "dlq" /\ DeadLetter
          /\ UNCHANGED <<table, exhausted>>
       \/ /\ pc = "insert" /\ UNCHANGED dlq
          /\ Attempted
          /\ exhausted' \in {exhausted, exhausted \cup {<<tp, nxt[tp]>>}}

\* A step writes the log, or has an effect on the current record, or commits
\* the offset of a finished record, or does none of the three.
LEMMA StepKinds ==
    ASSUME [Next]_vars
    PROVE  \/ \E m \in Msgs : Produce(m)
           \/ UNCHANGED <<raw, committed, table, dlq, exhausted>>
           \/ Effect
           \/ pc = "commit" /\ Acknowledge /\ UNCHANGED <<raw, table, dlq, exhausted>>
<1>1. ASSUME NEW p \in Partitions, Rebalance(p)
      PROVE  UNCHANGED <<raw, committed, table, dlq, exhausted>>
  BY <1>1 DEF Rebalance, brokerVars
<1>2. ASSUME NEW p \in Partitions, Handle(p)
      PROVE  UNCHANGED <<raw, committed, table, dlq, exhausted>>
  BY <1>2 DEF Handle, brokerVars
<1>3. ASSUME Start \/ GetMany \/ InsertRejected \/ Stop \/ UNCHANGED vars
      PROVE  UNCHANGED <<raw, committed, table, dlq, exhausted>>
  BY <1>3 DEF Start, GetMany, InsertRejected, Stop, brokerVars, vars
<1>4. CASE Insert \/ RetryInsert \/ ExhaustBudget
  BY <1>4 DEF Insert, RetryInsert, ExhaustBudget, Attempted, Effect, brokerVars
<1>5. CASE PublishDlq
  BY <1>5 DEF PublishDlq, Effect
<1>6. CASE Commit
  BY <1>6 DEF Commit
<1>7. CASE Crash
  BY <1>7 DEF Crash, Effect
<1> QED
  BY <1>1, <1>2, <1>3, <1>4, <1>5, <1>6, <1>7 DEF Next

\* Only a record of the log exhausts a budget.
ExhaustedLogged == \A e \in exhausted : e[2] \in Offsets(e[1])

LEMMA ExhaustedAlways == Spec => []ExhaustedLogged
<1>1. Init => ExhaustedLogged
  BY DEF Init, ExhaustedLogged
<1>2. IInv /\ ExhaustedLogged /\ [Next]_vars => ExhaustedLogged'
  <2> SUFFICES ASSUME IInv, ExhaustedLogged, [Next]_vars, NEW e \in exhausted'
               PROVE  e[2] \in Offsets(e[1])'
    BY DEF ExhaustedLogged
  <2>1. TypeOK /\ Grows
    BY StepGrows DEF IInv
  <2>2. CASE e \in exhausted
    <3>1. e[1] \in Partitions /\ e[2] \in Offsets(e[1])
      BY <2>1, <2>2 DEF TypeOK, ExhaustedLogged
    <3> QED
      BY <2>1, <3>1 DEF Grows
  <2>3. CASE Effect /\ e = <<tp, nxt[tp]>>
    <3>1. nxt[tp] < end[tp] /\ end[tp] <= Len(raw[tp])
      BY <2>1, <2>3 DEF IInv, InRange, TypeOK, Effect
    <3>2. nxt[tp] \in Nat /\ end[tp] \in Nat /\ Len(raw[tp]) \in Nat
      BY <2>1 DEF TypeOK
    <3>3. nxt[tp] \in Offsets(tp)
      BY <3>1, <3>2 DEF Offsets
    <3> QED
      BY <2>3, <3>3 DEF Offsets, Effect
  <2>4. e \in exhausted \/ (Effect /\ e = <<tp, nxt[tp]>>)
    <3>1. CASE \E m \in Msgs : Produce(m)
      BY <3>1 DEF Produce
    <3> QED
      BY <3>1, StepKinds DEF Effect
  <2> QED
    BY <2>2, <2>3, <2>4
<1> QED
  BY <1>1, <1>2, InvAlways, PTL DEF Spec

LEMMA ContractInit == Init => Contract!Init
<1> SUFFICES ASSUME Init PROVE Contract!Init
  OBVIOUS
<1>1. \A p \in Partitions : Handled(p) = {}
  BY DEF Init, Handled, Offsets
<1> QED
  BY <1>1 DEF Init, Contract!Init

\* A record that needs nothing when it arrives is a copy of one that has its row.
LEMMA ArriveDealt ==
    ASSUME IInv, Delivered, ExhaustedLogged, NEW m \in Msgs, Produce(m),
           NEW p \in Partitions, p = Home[m],
           NEW n \in Nat, n = Len(raw[p]), Accounted(p, n)'
    PROVE  \E o \in Offsets(p) : <<p, o>> \in Dealt /\ Id[Record(p, o)] = Id[m]
<1>1. /\ raw'[p] = Append(raw[p], m) /\ raw[p] \in Seq(Msgs)
      /\ UNCHANGED <<table, dlq, exhausted>>
  BY DEF Produce, IInv, TypeOK
<1>2. Record(p, n)' = m /\ n \notin Offsets(p)
  BY <1>1 DEF Offsets, Record
<1>3. <<p, n>> \notin dlq /\ <<p, n>> \notin exhausted
  BY <1>2 DEF IInv, DeadLettersArePoison, ExhaustedLogged
<1>4. m \notin Poison /\ table[Id[m]] # NoRow
  BY <1>1, <1>2, <1>3 DEF Accounted, Settled, Poison
<1>5. /\ Id[m] \in EventIds /\ table[Id[m]] \in Msgs \ Poison
      /\ Id[table[Id[m]]] = Id[m]
  BY <1>4, IdAssumption DEF Delivered
<1>6. PICK q \in Partitions : \E o \in Offsets(q) : Record(q, o) = table[Id[m]]
  BY <1>4, <1>5 DEF Delivered
<1>7. PICK o \in Offsets(q) : Record(q, o) = table[Id[m]]
  BY <1>6
<1>8. q = p
  BY <1>5, <1>7, AffinityAssumption DEF Delivered
<1>9. Accounted(q, o)
  BY <1>4, <1>5, <1>7 DEF Accounted, Settled
<1> QED
  BY <1>5, <1>7, <1>8, <1>9 DEF Dealt, Handled

LEMMA ArriveStep ==
    ASSUME IInv, Delivered, ExhaustedLogged, NEW m \in Msgs, Produce(m)
    PROVE  Contract!Arrive(Home[m], m)
<1>1. PICK h \in Partitions, n \in Nat : h = Home[m] /\ n = Len(raw[h])
  BY HomeAssumption DEF IInv, TypeOK
<1>2. /\ raw' = [raw EXCEPT ![h] = Append(@, m)] /\ raw[h] \in Seq(Msgs)
      /\ \A p \in Partitions : p # h => raw'[p] = raw[p]
      /\ UNCHANGED <<committed, table, dlq, exhausted>>
  BY <1>1 DEF Produce, IInv, TypeOK
<1>3. ASSUME NEW p \in Partitions, p # h PROVE Handled(p)' = Handled(p)
  BY <1>2, <1>3 DEF Handled, Accounted, Settled, Record, Offsets
<1>4. /\ Handled(h) \subseteq 0 .. n - 1 /\ Handled(h)' \subseteq 0 .. n
      /\ \A o \in 0 .. n - 1 : o \in Handled(h)' <=> o \in Handled(h)
      /\ n \in Handled(h)' => Accounted(h, n)'
  <2>1. raw'[h] = Append(raw[h], m)
    BY <1>1, <1>2 DEF IInv, TypeOK
  <2>2. Len(raw'[h]) = n + 1 /\ \A o \in 0 .. n - 1 : raw'[h][o + 1] = raw[h][o + 1]
    BY <1>1, <1>2, <2>1
  <2>3. Offsets(h) = 0 .. n - 1 /\ Offsets(h)' = 0 .. n
    BY <1>1, <2>2 DEF Offsets
  <2>4. ASSUME NEW o \in Offsets(h) PROVE Accounted(h, o)' <=> Accounted(h, o)
    BY <1>2, <2>2, <2>3 DEF Accounted, Settled, Record
  <2> QED
    BY <2>3, <2>4 DEF Handled
<1>5. CASE n \notin Handled(h)'
  <2>1. Handled(h)' = Handled(h)
    BY <1>1, <1>4, <1>5
  <2>2. Dealt' = Dealt
    BY <1>3, <2>1 DEF Dealt
  <2> QED
    BY <1>1, <1>2, <2>2 DEF Contract!Arrive, Dealt
<1>6. CASE n \in Handled(h)'
  <2>1. Handled(h)' = Handled(h) \cup {n}
    BY <1>1, <1>4, <1>6
  <2>2. Dealt' = Dealt \cup {<<h, n>>}
    <3>1. \A p \in Partitions :
             Handled(p)' = IF p = h THEN Handled(p) \cup {n} ELSE Handled(p)
      BY <1>3, <2>1
    <3>2. \A r : r \in Dealt' <=> r \in Dealt \/ r = <<h, n>>
      BY <3>1 DEF Dealt
    <3> QED
      BY <3>2
  <2>3. \E o \in Offsets(h) : <<h, o>> \in Dealt /\ Id[Record(h, o)] = Id[m]
    BY <1>1, <1>4, <1>6, ArriveDealt
  <2>4. \E o \in Contract!Offsets(h) : <<h, o>> \in Dealt /\ Contract!IdAt(h, o) = Id[m]
    BY <2>3 DEF Contract!Offsets, Contract!IdAt, Offsets, Record
  <2> QED
    BY <1>1, <1>2, <2>2, <2>4 DEF Contract!Arrive, Dealt
<1> QED
  BY <1>5, <1>6

\* An effect deals with the record it is meant for, or changes nothing.
LEMMA EffectSettles ==
    ASSUME IInv, Effect, NEW p \in Partitions, NEW o \in Offsets(p),
           p = tp, o = nxt[tp]
    PROVE  UNCHANGED <<table, dlq, exhausted>> \/ Accounted(p, o)'
<1>1. Record(p, o)' = Current /\ Current \in Msgs
  <2>1. raw[p] \in Seq(Msgs) /\ raw' = raw
    BY DEF IInv, TypeOK, Effect
  <2> QED
    BY <2>1 DEF Offsets, Record, Current
<1>2. CASE pc = "dlq" /\ DeadLetter
  BY <1>1, <1>2 DEF IInv, Stage, DeadLetter, Accounted, Settled, Poison
<1>3. CASE Current \in Storable /\ table' = StoreRow(Current)
  <2>1. table'[Id[Current]] # NoRow
    BY <1>1, <1>3, StoreRowGrows DEF IInv
  <2> QED
    BY <1>1, <1>3, <2>1 DEF Accounted, Settled, Storable, Poison
<1>4. CASE <<tp, nxt[tp]>> \in exhausted'
  BY <1>4 DEF Accounted
<1> QED
  BY <1>2, <1>3, <1>4 DEF Effect, Attempted

\* Besides the current record only copies of it are dealt with on the way.
LEMMA EffectLocal ==
    ASSUME IInv, Effect, NEW p \in Partitions, NEW o \in Offsets(p),
           p = tp, o = nxt[tp],
           NEW q \in Partitions, NEW x \in Offsets(q), <<q, x>> # <<p, o>>,
           Id[Record(q, x)] # Id[Record(p, o)], Accounted(q, x)'
    PROVE  Accounted(q, x)
<1>1. /\ raw' = raw /\ Current = Record(p, o) /\ Record(q, x)' = Record(q, x)
      /\ raw[q] \in Seq(Msgs)
      /\ table \in [EventIds -> Msgs \cup {NoRow}]
  BY DEF Effect, Current, Record, IInv, TypeOK
<1>2. Record(q, x) \in Msgs /\ Id[Record(q, x)] \in EventIds
  BY <1>1, IdAssumption DEF Offsets, Record
<1>3. table'[Id[Record(q, x)]] = table[Id[Record(q, x)]]
  <2>1. table' = table \/ table' = StoreRow(Record(p, o))
    BY <1>1 DEF Effect, Attempted
  <2> QED
    BY <1>1, <1>2, <2>1 DEF StoreRow
<1>4. /\ <<q, x>> \in dlq' => <<q, x>> \in dlq
      /\ <<q, x>> \in exhausted' => <<q, x>> \in exhausted
  BY DEF Effect, DeadLetter
<1> QED
  BY <1>1, <1>3, <1>4 DEF Accounted, Settled

\* The process works on a partition's records in the order of its log: what it
\* deals with is the first record not dealt with, and copies that follow it.
LEMMA FinishStep ==
    ASSUME IInv, Delivered, Grows, Effect
    PROVE  \/ UNCHANGED <<raw, committed, table, dlq, exhausted>>
           \/ \E p \in Partitions : \E o \in Contract!Offsets(p) : Contract!Finish(p, o)
<1>1. TypeOK /\ raw' = raw
  BY DEF IInv, Effect
<1>2. tp \in Partitions /\ nxt[tp] \in Offsets(tp) /\ nxt[tp] \in Nat
  <2>1. nxt[tp] < end[tp] /\ end[tp] <= Len(raw[tp]) /\ tp \in Partitions
    BY <1>1 DEF IInv, InRange, TypeOK, Effect
  <2>2. nxt[tp] \in Nat /\ end[tp] \in Nat /\ Len(raw[tp]) \in Nat
    BY <1>1, <2>1 DEF TypeOK
  <2> QED
    BY <2>1, <2>2 DEF Offsets
<1>3. PICK p \in Partitions, o \in Nat : p = tp /\ o = nxt[tp] /\ o \in Offsets(p)
  BY <1>2
<1>4. CASE UNCHANGED <<table, dlq, exhausted>>
  BY <1>4 DEF Effect
<1>5. CASE Accounted(p, o)'
  <2>1. \A q \in Partitions : Offsets(q)' = Offsets(q) /\ Len(raw[q]) \in Nat
    BY <1>1 DEF Offsets, TypeOK
  <2>2. o \in 0 .. Len(raw[p]) - 1
    BY <1>3 DEF Offsets
  <2>3. \A q \in 0 .. o - 1 : q \in Offsets(p) /\ Accounted(p, q)
    <3>1. Prefix(p, o)
      BY <1>3 DEF IInv, Progress
    <3>2. \A q \in 0 .. o - 1 : q \in Offsets(p)
      BY <2>1, <2>2 DEF Offsets
    <3> QED
      BY <3>1, <3>2 DEF Prefix
  <2>4. \A q \in 0 .. o - 1 : <<p, q>> \in Dealt
    BY <2>3 DEF Dealt, Handled
  <2>5. Dealt \cup {<<p, o>>} \subseteq Dealt'
    <3>1. o \in Handled(p)'
      BY <1>3, <1>5, <2>1 DEF Handled
    <3>2. <<p, o>> \in Dealt'
      BY <3>1 DEF Dealt
    <3> QED
      BY <1>1, <3>2, DealtGrows
  <2>6. Dealt' \subseteq Dealt \cup ({p} \X ({o} \cup Contract!Copies(p, o)))
    <3> SUFFICES ASSUME NEW q \in Partitions, NEW x \in Handled(q)',
                        <<q, x>> \notin Dealt, <<q, x>> # <<p, o>>
                 PROVE  q = p /\ x \in Contract!Copies(p, o)
      BY DEF Dealt
    <3>1. x \in Offsets(q) /\ Accounted(q, x)'
      BY <2>1 DEF Handled
    <3>2. ~ Accounted(q, x)
      BY <3>1 DEF Dealt, Handled
    <3>3. Id[Record(q, x)] = Id[Record(p, o)]
      BY <1>3, <3>1, <3>2, EffectLocal
    <3>4. q = p
      BY <1>1, <1>3, <3>1, <3>3, SamePartition
    <3>5. x \notin 0 .. o - 1
      BY <2>3, <3>2, <3>4
    <3>6. x \in o .. Len(raw[p]) - 1
      BY <2>1, <2>2, <3>1, <3>4, <3>5 DEF Offsets
    <3> QED
      BY <3>3, <3>4, <3>6 DEF Contract!Copies, Contract!IdAt, Record
  <2>7. \E c \in SUBSET Contract!Copies(p, o) : Dealt' = Dealt \cup ({p} \X ({o} \cup c))
    <3> DEFINE c == {x \in Contract!Copies(p, o) : <<p, x>> \in Dealt'}
    <3>1. Dealt \cup ({p} \X ({o} \cup c)) \subseteq Dealt'
      BY <2>5
    <3>2. Dealt' \subseteq Dealt \cup ({p} \X ({o} \cup c))
      BY <2>6
    <3>3. c \in SUBSET Contract!Copies(p, o)
      OBVIOUS
    <3>4. Dealt' = Dealt \cup ({p} \X ({o} \cup c))
      BY <3>1, <3>2
    <3> QED
      BY <3>3, <3>4
  <2>8. Contract!Finish(p, o) /\ o \in Contract!Offsets(p)
    BY <2>2, <2>4, <2>7 DEF Contract!Finish, Contract!Offsets, Dealt, Effect
  <2> QED
    BY <2>8
<1> QED
  BY <1>3, <1>4, <1>5, EffectSettles

\* What is acknowledged is a record the batch has come to, so that every offset
\* up to it was dealt with.
LEMMA AckStep ==
    ASSUME IInv, IInv', pc = "commit", Acknowledge,
           UNCHANGED <<raw, table, dlq, exhausted>>
    PROVE  \E p \in Partitions : \E n \in 0 .. Len(raw[p]) : Contract!Ack(p, n)
<1>0. tp \in Partitions /\ nxt[tp] + 1 \in Nat
  <2>1. TypeOK
    BY DEF IInv
  <2>2. tp \in Partitions /\ nxt \in [Partitions -> Nat]
    BY <2>1 DEF TypeOK
  <2> QED
    BY <2>2
<1>1. PICK p \in Partitions, n \in Nat : p = tp /\ n = nxt[tp] + 1
  BY <1>0
<1>2. committed' = [committed EXCEPT ![p] = n]
  BY <1>1 DEF Acknowledge
<1>3. n <= Len(raw[p]) /\ Len(raw[p]) \in Nat
  <2>1. nxt[p] < end[p] /\ end[p] <= Len(raw[p])
    BY <1>1 DEF IInv, InRange
  <2>2. nxt[p] \in Nat /\ end[p] \in Nat /\ Len(raw[p]) \in Nat
    BY DEF IInv, TypeOK
  <2> QED
    BY <1>1, <2>1, <2>2
<1>4. \A o \in 0 .. n - 1 : <<p, o>> \in Dealt
  <2>1. Prefix(p, committed[p])' /\ committed'[p] = n
    BY <1>2 DEF IInv, Progress, TypeOK
  <2>2. \A o \in 0 .. n - 1 : o \in Offsets(p)
    BY <1>3 DEF Offsets
  <2>3. \A o \in Offsets(p) : o \in Offsets(p)' /\ (Accounted(p, o)' => Accounted(p, o))
    BY DEF Offsets, Accounted, Settled, Record
  <2>4. \A o \in 0 .. n - 1 : Accounted(p, o)
    BY <2>1, <2>2, <2>3 DEF Prefix
  <2> QED
    BY <2>2, <2>4 DEF Dealt, Handled
<1>5. Dealt' = Dealt
  BY DEF Dealt, Handled, Offsets, Accounted, Settled, Record
<1>6. Contract!Ack(p, n)
  BY <1>2, <1>3, <1>4, <1>5 DEF Contract!Ack, Dealt
<1> QED
  BY <1>3, <1>6

\* Every step of the consumer is a step of the at-least-once consumer, or
\* changes nothing that one sees.
THEOREM ImplementsAtLeastOnce == Spec => AtLeastOnceConsumer
<1>1. Init => Contract!Init
  BY ContractInit
<1>2. IInv /\ IInv' /\ Delivered /\ ExhaustedLogged /\ [Next]_vars => [Contract!Next]_(Contract!vars)
  <2> SUFFICES ASSUME IInv, IInv', Delivered, ExhaustedLogged, [Next]_vars
               PROVE  [Contract!Next]_(Contract!vars)
    OBVIOUS
  <2>1. TypeOK /\ TypeOK' /\ Grows
    BY StepGrows DEF IInv
  <2>2. ASSUME NEW m \in Msgs, Produce(m) PROVE Contract!Next
    BY <2>2, ArriveStep, HomeAssumption DEF Contract!Next
  <2>3. CASE UNCHANGED <<raw, committed, table, dlq, exhausted>>
    BY <2>3 DEF Contract!vars, Handled, Offsets, Accounted, Settled, Record
  <2>4. CASE Effect
    BY <2>1, <2>3, <2>4, FinishStep DEF Contract!Next
  <2>5. CASE pc = "commit" /\ Acknowledge /\ UNCHANGED <<raw, table, dlq, exhausted>>
    BY <2>5, AckStep DEF Contract!Next
  <2> QED
    BY <2>2, <2>3, <2>4, <2>5, StepKinds
<1> QED
  BY <1>1, <1>2, InvAlways, DeliveredAlways, ExhaustedAlways, PTL
     DEF Spec, AtLeastOnceConsumer, Contract!Spec

=============================================================================
