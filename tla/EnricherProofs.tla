--------------------------- MODULE EnricherProofs ---------------------------
(***************************************************************************)
(* Safety of the enricher for every set of partitions, games, messages and *)
(* context fields and every bound.  The inductive invariant has a part for *)
(* the offsets (IInv) and, on top of it, one for the topic of enriched     *)
(* pitches and one for the contexts in Redis.                              *)
(***************************************************************************)
EXTENDS Enricher, OrderProofs

(***************************************************************************)
(* The invariants.                                                         *)
(***************************************************************************)
\* Offsets stay inside the log, the current record inside the batch.
InRange ==
    /\ \A p \in Partitions : /\ committed[p] <= Len(raw[p])
                             /\ position[p] <= Len(raw[p])
                             /\ nxt[p] <= end[p]
                             /\ end[p] <= Len(raw[p])
    /\ pc \in {"save", "publish", "commit"} => nxt[tp] < end[tp]

\* All the records before offset n are dealt with.
Prefix(p, n) == \A o \in 0 .. n - 1 : DealtWith(p, o)

\* What was committed, and what the batch is past, is dealt with; what was fetched
\* is either that or still in the batch.
Progress ==
    \A p \in Partitions :
        /\ Prefix(p, committed[p])
        /\ Prefix(p, nxt[p])
        /\ \A o \in 0 .. position[p] - 1 :
              DealtWith(p, o) \/ (nxt[p] <= o /\ o < end[p])

\* Only a record that can be read is projected and published; the one about to be
\* committed needs nothing more.
Stage ==
    /\ pc \in {"save", "publish"} => Readable(tp, nxt[tp])
    /\ pc = "commit" => DealtWith(tp, nxt[tp])

\* A readable record is on the partition of its game.
AtHome ==
    \A p \in Partitions : \A o \in Offsets(p) :
        Record(p, o) \notin Unreadable => p = Home[GameOf[Record(p, o)]]

IInv == TypeOK /\ InRange /\ AtHome /\ Stage /\ Progress

\* What is in the enriched topic was made from records of the game.
Sourced == \A g \in Games : \A i \in 1 .. Len(sink[g]) : IsOf(g, sink[g][i])

\* As long as no position was reset, the batch ends where aiokafka stands, and its
\* first record is the one the group reads next.
InStep ==
    rebalances = 0 =>
        \A p \in Partitions : end[p] = position[p] /\ nxt[p] = committed[p]

\* Undisturbed, the enriched topic holds records the batch is past, and perhaps the
\* current one once it was published.
Past ==
    crashes = 0 /\ rebalances = 0 =>
        \A g \in Games : \A i \in 1 .. Len(sink[g]) :
            \/ sink[g][i] < nxt[Home[g]]
            \/ sink[g][i] = nxt[Home[g]] /\ tp = Home[g] /\ pc = "commit"

\* The context is the last known one at the place in the batch or one record on.
Close(g) ==
    LET n == nxt[Home[g]] IN hot[g] \in {LastKnown(g, n), LastKnown(g, n + 1)}

\* All contexts are; what was read is there until it is replaced, and what was saved
\* is what is known with the record in hand.
HotStage ==
    rebalances = 0 /\ losses = 0 =>
        /\ \A g \in Games : Close(g)
        /\ pc = "save" => ctx = hot[GameOf[Current]]
        /\ pc \in {"publish", "commit"} /\ Readable(tp, nxt[tp]) =>
              hot[GameOf[Current]] = LastKnown(GameOf[Current], nxt[tp] + 1)

(***************************************************************************)
(* Type correctness.                                                       *)
(***************************************************************************)
\* A record in hand is a record of the log.
LEMMA InHand ==
    ASSUME TypeOK, InRange, pc \in {"save", "publish", "commit"}
    PROVE  \E p \in Partitions, o \in Nat :
              /\ p = tp /\ o = nxt[tp] /\ o < end[p] /\ end[p] <= Len(raw[p])
              /\ o \in Offsets(p) /\ o + 1 <= Len(raw[p])
              /\ Record(p, o) = Current /\ Current \in Msgs
<1>1. tp \in Partitions /\ nxt[tp] \in Nat /\ end[tp] \in Nat /\ raw[tp] \in Seq(Msgs)
  BY DEF TypeOK
<1>2. nxt[tp] < end[tp] /\ end[tp] <= Len(raw[tp]) /\ Len(raw[tp]) \in Nat
  BY <1>1 DEF InRange
<1>3. nxt[tp] \in Offsets(tp) /\ raw[tp][nxt[tp] + 1] \in Msgs
  BY <1>1, <1>2 DEF Offsets
<1> QED
  BY <1>1, <1>2, <1>3 DEF Current, Record

LEMMA ProjectType ==
    ASSUME NEW c \in Contexts, NEW m \in Msgs
    PROVE  Project(c, m) \in Contexts
<1>1. Carries[m] \in [Fields -> Values \cup {Unset}]
  BY CarriesAssumption
<1>2. ASSUME NEW f \in Fields
      PROVE  (IF Carries[m][f] = Unset THEN c[f] ELSE Carries[m][f]) \in Values
  BY <1>1 DEF Contexts
<1> QED
  BY <1>2 DEF Project, Contexts

LEMMA TypeInit == Init => TypeOK
<1> SUFFICES ASSUME Init PROVE TypeOK
  OBVIOUS
<1>1. Fresh \in Contexts
  BY ZeroAssumption DEF Fresh, Contexts
<1> QED
  BY <1>1, BoundsAssumption DEF Init, TypeOK

LEMMA TypeStep == TypeOK /\ InRange /\ [Next]_vars => TypeOK'
<1> SUFFICES ASSUME TypeOK, InRange, [Next]_vars PROVE TypeOK'
  OBVIOUS
<1> USE BoundsAssumption
<1>0. Fresh \in Contexts
  BY ZeroAssumption DEF Fresh, Contexts
<1>1. ASSUME NEW p \in Partitions, NEW m \in Msgs, Produce(p, m) PROVE TypeOK'
  <2>1. raw' \in [Partitions -> Seq(Msgs)]
    BY <1>1 DEF Produce, TypeOK
  <2> QED
    BY <1>1, <2>1 DEF Produce, TypeOK, batchVars, boundVars
<1>2. ASSUME NEW p \in Partitions, Rebalance(p) PROVE TypeOK'
  <2>1. position' \in [Partitions -> Nat] /\ rebalances' \in 0 .. MaxRebalances
    BY <1>2 DEF Rebalance, TypeOK
  <2> QED
    BY <1>2, <2>1 DEF Rebalance, TypeOK
<1>3. ASSUME NEW g \in Games, LoseContext(g) PROVE TypeOK'
  <2>1. hot' \in [Games -> Contexts] /\ losses' \in 0 .. MaxLosses
    BY <1>0, <1>3 DEF LoseContext, TypeOK
  <2> QED
    BY <1>3, <2>1 DEF LoseContext, TypeOK, batchVars
<1>4. CASE Start
  BY <1>4 DEF Start, TypeOK, boundVars
<1>5. CASE GetMany
  <2>1. PICK take \in [Partitions -> 0 .. MaxRecords] :
           /\ nxt' = position
           /\ position' = [p \in Partitions |-> position[p] + take[p]]
           /\ end' = position'
           /\ tp' \in {tp} \cup {p \in Partitions : take[p] > 0}
    BY <1>5 DEF GetMany
  <2>2. position' \in [Partitions -> Nat] /\ tp' \in Partitions
    BY <2>1 DEF TypeOK
  <2> QED
    BY <1>5, <2>1, <2>2 DEF GetMany, TypeOK, boundVars
<1>6. ASSUME NEW p \in Partitions, Handle(p) PROVE TypeOK'
  <2>1. ctx' \in Contexts
    <3>1. CASE Readable(p, nxt[p])
      <4>1. Record(p, nxt[p]) \in Msgs
        BY <3>1 DEF Readable, Offsets, Record, TypeOK
      <4>2. GameOf[Record(p, nxt[p])] \in Games
        BY <4>1, GameAssumption
      <4> QED
        BY <1>6, <3>1, <4>2 DEF Handle, TypeOK
    <3> QED
      BY <1>6, <3>1 DEF Handle, TypeOK
  <2>2. /\ pc' \in {"save", "commit"} /\ tp' \in Partitions
        /\ UNCHANGED <<raw, committed, sink, hot, position, nxt, end, boundVars>>
    BY <1>6 DEF Handle
  <2> QED
    BY <2>1, <2>2 DEF TypeOK, boundVars
<1>7. CASE SaveContext
  <2>1. Current \in Msgs
    BY <1>7, InHand DEF SaveContext
  <2>2. Project(ctx, Current) \in Contexts
    BY <2>1, ProjectType DEF TypeOK
  <2>3. hot' \in [Games -> Contexts]
    BY <1>7, <2>2 DEF SaveContext, TypeOK
  <2> QED
    BY <1>7, <2>3 DEF SaveContext, PublishNext, TypeOK, batchVars, boundVars
<1>8. CASE Publish
  <2>1. nxt[tp] \in Nat /\ sink \in [Games -> Seq(Nat)]
    BY DEF TypeOK
  <2>2. \A g \in Games : Append(sink[g], nxt[tp]) \in Seq(Nat)
    BY <2>1
  <2>3. sink' = [sink EXCEPT ![GameOf[Current]] = Append(@, nxt[tp])]
    BY <1>8 DEF Publish, AppendEnriched
  <2>4. sink' \in [Games -> Seq(Nat)]
    BY <2>1, <2>2, <2>3
  <2> QED
    BY <1>8, <2>4 DEF Publish, TypeOK, batchVars, boundVars
<1>9. CASE Commit
  <2>1. committed' \in [Partitions -> Nat] /\ nxt' \in [Partitions -> Nat]
    BY <1>9 DEF Commit, Acknowledge, TypeOK
  <2> QED
    BY <1>0, <1>9, <2>1 DEF Commit, TypeOK, boundVars
<1>10. ASSUME Crash \/ Stop PROVE TypeOK'
  <2>1. /\ Forget /\ UNCHANGED <<raw, committed, sink, hot, rebalances, losses>>
        /\ crashes < MaxCrashes
    BY <1>10 DEF Crash, Stop
  <2>2. crashes' \in 0 .. MaxCrashes
    BY <2>1 DEF Forget, TypeOK
  <2> QED
    BY <1>0, <2>1, <2>2 DEF Forget, TypeOK
<1>11. CASE UNCHANGED vars
  BY <1>11 DEF vars, boundVars, TypeOK
<1> QED
  BY <1>1, <1>2, <1>3, <1>4, <1>5, <1>6, <1>7, <1>8, <1>9, <1>10, <1>11 DEF Next

(***************************************************************************)
(* Nothing that was written is taken back.                                 *)
(***************************************************************************)
\* Both topics are only appended to, in every step, a crash included.
Grows ==
    /\ \A p \in Partitions : \A o \in Offsets(p) :
          o \in Offsets(p)' /\ Record(p, o)' = Record(p, o)
    /\ \A g \in Games : \A i \in 1 .. Len(sink[g]) :
          i \in 1 .. Len(sink'[g]) /\ sink'[g][i] = sink[g][i]

LEMMA StepGrows == TypeOK /\ [Next]_vars => Grows
<1> SUFFICES ASSUME TypeOK, [Next]_vars PROVE Grows
  OBVIOUS
<1>1. ASSUME UNCHANGED <<raw, sink>> PROVE Grows
  BY <1>1 DEF Grows, Offsets, Record
<1>2. ASSUME NEW q \in Partitions, NEW m \in Msgs, Produce(q, m) PROVE Grows
  <2>1. UNCHANGED sink
    BY <1>2 DEF Produce
  <2>2. ASSUME NEW p \in Partitions, NEW o \in Offsets(p)
        PROVE  o \in Offsets(p)' /\ Record(p, o)' = Record(p, o)
    <3>1. raw[p] \in Seq(Msgs) /\ o \in 0 .. Len(raw[p]) - 1
      BY <2>2 DEF TypeOK, Offsets
    <3>2. raw'[p] = raw[p] \/ raw'[p] = Append(raw[p], m)
      BY <1>2 DEF Produce, TypeOK
    <3>3. Len(raw'[p]) >= Len(raw[p]) /\ raw'[p][o + 1] = raw[p][o + 1]
      BY <3>1, <3>2
    <3> QED
      BY <3>1, <3>2, <3>3 DEF Offsets, Record
  <2> QED
    BY <2>1, <2>2 DEF Grows
<1>3. CASE Publish
  <2>1. UNCHANGED raw /\ sink' = [sink EXCEPT ![GameOf[Current]] = Append(@, nxt[tp])]
    BY <1>3 DEF Publish, AppendEnriched
  <2>2. ASSUME NEW g \in Games, NEW i \in 1 .. Len(sink[g])
        PROVE  i \in 1 .. Len(sink'[g]) /\ sink'[g][i] = sink[g][i]
    <3>1. sink[g] \in Seq(Nat) /\ nxt[tp] \in Nat
      BY DEF TypeOK
    <3>2. sink'[g] = sink[g] \/ sink'[g] = Append(sink[g], nxt[tp])
      BY <2>1 DEF TypeOK
    <3> QED
      BY <3>1, <3>2
  <2> QED
    BY <2>1, <2>2 DEF Grows, Offsets, Record
<1> QED
  BY <1>1, <1>2, <1>3 DEF Next, Rebalance, LoseContext, Start, GetMany, Handle,
     SaveContext, Commit, Crash, Stop, vars

\* The entries of a topic, by place.
LEMMA InTopic ==
    ASSUME TypeOK, NEW g \in Games, NEW o
    PROVE  o \in Enriched(g) <=> \E i \in 1 .. Len(sink[g]) : sink[g][i] = o
<1>1. sink[g] \in Seq(Nat)
  BY DEF TypeOK
<1>2. DOMAIN sink[g] = 1 .. Len(sink[g])
  BY <1>1
<1> QED
  BY <1>2 DEF Enriched, Range

LEMMA EnrichedGrows ==
    ASSUME TypeOK, TypeOK', Grows, NEW g \in Games
    PROVE  Enriched(g) \subseteq Enriched(g)'
<1>1. \A i \in 1 .. Len(sink[g]) : i \in 1 .. Len(sink'[g]) /\ sink'[g][i] = sink[g][i]
  BY DEF Grows
<1>2. sink[g] \in Seq(Nat) /\ sink'[g] \in Seq(Nat)
  BY DEF TypeOK
<1>3. DOMAIN sink[g] = 1 .. Len(sink[g]) /\ DOMAIN sink'[g] = 1 .. Len(sink'[g])
  BY <1>2
<1> QED
  BY <1>1, <1>3 DEF Enriched, Range

LEMMA RecordType ==
    ASSUME TypeOK, NEW p \in Partitions, NEW o \in Offsets(p)
    PROVE  Record(p, o) \in Msgs /\ GameOf[Record(p, o)] \in Games
<1>1. raw[p] \in Seq(Msgs)
  BY DEF TypeOK
<1>2. Record(p, o) \in Msgs
  BY <1>1 DEF Offsets, Record
<1> QED
  BY <1>2, GameAssumption

LEMMA DealtWithGrows ==
    ASSUME TypeOK, TypeOK', Grows, NEW p \in Partitions, NEW o \in Offsets(p)
    PROVE  DealtWith(p, o) => DealtWith(p, o)'
<1>1. o \in Offsets(p)' /\ Record(p, o)' = Record(p, o)
  BY DEF Grows
<1>2. PICK g \in Games : g = GameOf[Record(p, o)]
  BY RecordType
<1>3. Enriched(g) \subseteq Enriched(g)'
  BY EnrichedGrows
<1>4. DealtWith(p, o) <=> (Record(p, o) \notin Unreadable => o \in Enriched(g))
  BY <1>2 DEF DealtWith, Readable
<1>5. DealtWith(p, o)' <=> (Record(p, o) \notin Unreadable => o \in Enriched(g)')
  BY <1>1, <1>2 DEF DealtWith, Readable, Enriched
<1> QED
  BY <1>3, <1>4, <1>5

\* Offsets and lengths are numbers, and logs only get longer.
Sizes ==
    \A p \in Partitions : /\ committed[p] \in Nat /\ position[p] \in Nat
                          /\ nxt[p] \in Nat /\ end[p] \in Nat
                          /\ Len(raw[p]) \in Nat /\ Len(raw'[p]) \in Nat
                          /\ Len(raw[p]) <= Len(raw'[p])

LEMMA SizesHold == TypeOK /\ TypeOK' /\ Grows => Sizes
<1> SUFFICES ASSUME TypeOK, TypeOK', Grows, NEW p \in Partitions
             PROVE  /\ committed[p] \in Nat /\ position[p] \in Nat
                    /\ nxt[p] \in Nat /\ end[p] \in Nat
                    /\ Len(raw[p]) \in Nat /\ Len(raw'[p]) \in Nat
                    /\ Len(raw[p]) <= Len(raw'[p])
  BY DEF Sizes
<1>1. raw[p] \in Seq(Msgs) /\ raw'[p] \in Seq(Msgs)
  BY DEF TypeOK
<1>2. Len(raw[p]) \in Nat /\ Len(raw'[p]) \in Nat
  BY <1>1
<1>3. Len(raw[p]) # 0 => Len(raw[p]) - 1 \in 0 .. Len(raw'[p]) - 1
  BY <1>2 DEF Grows, Offsets
<1> QED
  BY <1>2, <1>3 DEF TypeOK

(***************************************************************************)
(* Every record the group has committed is dealt with.                     *)
(***************************************************************************)
LEMMA InvInit == Init => IInv /\ Sourced /\ InStep /\ Past
<1> SUFFICES ASSUME Init PROVE IInv /\ Sourced /\ InStep /\ Past
  OBVIOUS
<1>1. TypeOK
  BY TypeInit
<1>2. InRange /\ Stage /\ InStep
  BY DEF Init, InRange, Stage, InStep
<1>3. AtHome /\ Progress
  BY DEF Init, AtHome, Progress, Prefix, DealtWith, Readable, Offsets
<1>4. Sourced /\ Past
  BY DEF Init, Sourced, Past
<1> QED
  BY <1>1, <1>2, <1>3, <1>4 DEF IInv

LEMMA RangeStep == TypeOK /\ InRange /\ [Next]_vars /\ TypeOK' /\ Grows => InRange'
<1> SUFFICES ASSUME TypeOK, InRange, [Next]_vars, TypeOK', Grows PROVE InRange'
  OBVIOUS
<1>0. Sizes
  BY SizesHold
<1>1. ASSUME UNCHANGED <<committed, position, nxt, end, tp>>,
             pc' \in {"save", "publish", "commit"} => pc \in {"save", "publish", "commit"}
      PROVE  InRange'
  BY <1>0, <1>1 DEF Sizes, InRange
<1>2. ASSUME NEW p \in Partitions, NEW m \in Msgs, Produce(p, m) PROVE InRange'
  BY <1>1, <1>2 DEF Produce, batchVars
<1>3. ASSUME NEW p \in Partitions, Rebalance(p) PROVE InRange'
  <2>1. \A q \in Partitions : position'[q] \in {position[q], committed[q]}
    BY <1>3 DEF Rebalance, TypeOK
  <2> QED
    BY <1>0, <1>3, <2>1 DEF Rebalance, Sizes, InRange
<1>4. ASSUME NEW g \in Games, LoseContext(g) PROVE InRange'
  BY <1>1, <1>4 DEF LoseContext, batchVars
<1>5. CASE Start
  BY <1>0, <1>5 DEF Start, Sizes, InRange
<1>6. CASE GetMany
  <2>1. PICK take \in [Partitions -> 0 .. MaxRecords] :
           /\ \A p \in Partitions : take[p] <= Available(p)
           /\ nxt' = position
           /\ position' = [p \in Partitions |-> position[p] + take[p]]
           /\ end' = position'
    BY <1>6 DEF GetMany
  <2>2. UNCHANGED <<raw, committed, pc>> /\ pc = "loop"
    BY <1>6 DEF GetMany
  <2>3. ASSUME NEW p \in Partitions
        PROVE  /\ position[p] <= position[p] + take[p]
               /\ position[p] + take[p] <= Len(raw[p])
    <3>1. take[p] \in Nat /\ take[p] <= Available(p)
      BY <2>1, BoundsAssumption
    <3> QED
      BY <1>0, <3>1 DEF Available, Sizes, InRange
  <2> QED
    BY <2>1, <2>2, <2>3 DEF InRange
<1>7. ASSUME NEW p \in Partitions, Handle(p) PROVE InRange'
  BY <1>7 DEF Handle, InRange
<1>8. CASE SaveContext
  BY <1>1, <1>8 DEF SaveContext, batchVars
<1>9. CASE Publish
  BY <1>1, <1>9 DEF Publish, batchVars
<1>10. CASE Commit
  <2>1. PICK q \in Partitions, o \in Nat : q = tp /\ o = nxt[tp] /\ o < end[q]
    BY <1>10, InHand DEF Commit
  <2>2. \A p \in Partitions : /\ nxt'[p] = IF p = q THEN o + 1 ELSE nxt[p]
                              /\ committed'[p] = IF p = q THEN o + 1 ELSE committed[p]
    BY <1>10, <2>1 DEF Commit, Acknowledge, TypeOK
  <2>3. pc' = "loop" /\ UNCHANGED <<raw, position, end>>
    BY <1>10 DEF Commit
  <2> QED
    BY <1>0, <2>1, <2>2, <2>3 DEF Sizes, InRange
<1>11. ASSUME Crash \/ Stop PROVE InRange'
  <2>1. Forget /\ UNCHANGED <<raw, committed>>
    BY <1>11 DEF Crash, Stop
  <2> QED
    BY <1>0, <2>1 DEF Forget, Sizes, InRange
<1>12. CASE UNCHANGED vars
  BY <1>1, <1>12 DEF vars
<1> QED
  BY <1>2, <1>3, <1>4, <1>5, <1>6, <1>7, <1>8, <1>9, <1>10, <1>11, <1>12 DEF Next

LEMMA AtHomeStep == TypeOK /\ AtHome /\ [Next]_vars => AtHome'
<1> SUFFICES ASSUME TypeOK, AtHome, [Next]_vars PROVE AtHome'
  OBVIOUS
<1>1. ASSUME UNCHANGED raw PROVE AtHome'
  BY <1>1 DEF AtHome, Offsets, Record
<1>2. ASSUME NEW q \in Partitions, NEW m \in Msgs, Produce(q, m) PROVE AtHome'
  <2>1. m \notin Unreadable => q = Home[GameOf[m]]
    BY <1>2 DEF Produce
  <2> SUFFICES ASSUME NEW p \in Partitions, NEW o \in Offsets(p)'
               PROVE  Record(p, o)' \notin Unreadable => p = Home[GameOf[Record(p, o)']]
    BY DEF AtHome, Record
  <2>2. raw[p] \in Seq(Msgs) /\ o \in 0 .. Len(raw'[p]) - 1
    BY DEF TypeOK, Offsets
  <2>3. raw'[p] = raw[p] \/ (p = q /\ raw'[p] = Append(raw[p], m))
    BY <1>2 DEF Produce, TypeOK
  <2>4. (o \in Offsets(p) /\ Record(p, o)' = Record(p, o)) \/ (p = q /\ Record(p, o)' = m)
    <3>1. CASE raw'[p] = raw[p]
      BY <2>2, <3>1 DEF Offsets, Record
    <3>2. CASE p = q /\ raw'[p] = Append(raw[p], m)
      BY <2>2, <3>2 DEF Offsets, Record
    <3> QED  BY <2>3, <3>1, <3>2
  <2> QED
    BY <2>1, <2>4 DEF AtHome
<1> QED
  BY <1>1, <1>2 DEF Next, Rebalance, LoseContext, Start, GetMany, Handle,
     SaveContext, Publish, Commit, Crash, Stop, vars

LEMMA ProgressStep == IInv /\ [Next]_vars /\ TypeOK' /\ Grows => Progress'
<1> SUFFICES ASSUME IInv, [Next]_vars, TypeOK', Grows PROVE Progress'
  OBVIOUS
<1> USE DEF IInv
<1>0. Sizes
  BY SizesHold
<1>1. \A p \in Partitions : \A o \in 0 .. committed[p] - 1 : DealtWith(p, o)'
  BY <1>0, DealtWithGrows DEF Sizes, InRange, Progress, Prefix, Offsets
<1>2. \A p \in Partitions : \A o \in 0 .. nxt[p] - 1 : DealtWith(p, o)'
  BY <1>0, DealtWithGrows DEF Sizes, InRange, Progress, Prefix, Offsets
<1>3. \A p \in Partitions : \A o \in 0 .. position[p] - 1 :
         DealtWith(p, o)' \/ (nxt[p] <= o /\ o < end[p])
  BY <1>0, DealtWithGrows DEF Sizes, InRange, Progress, Offsets
<1>4. ASSUME UNCHANGED <<committed, position, nxt, end>> PROVE Progress'
  BY <1>1, <1>2, <1>3, <1>4 DEF Progress, Prefix
<1>5. ASSUME UNCHANGED committed, position' = committed, nxt' = committed
      PROVE  Progress'
  BY <1>1, <1>5 DEF Progress, Prefix
<1>6. ASSUME NEW p \in Partitions, NEW m \in Msgs, Produce(p, m) PROVE Progress'
  BY <1>4, <1>6 DEF Produce, batchVars
<1>7. ASSUME NEW q \in Partitions, Rebalance(q) PROVE Progress'
  <2>1. \A p \in Partitions : position'[p] = IF p = q THEN committed[p] ELSE position[p]
    BY <1>7 DEF Rebalance, TypeOK
  <2>2. UNCHANGED <<committed, nxt, end>>
    BY <1>7 DEF Rebalance
  <2>3. \A p \in Partitions : \A o \in 0 .. position'[p] - 1 :
           DealtWith(p, o)' \/ (nxt[p] <= o /\ o < end[p])
    BY <1>1, <1>3, <2>1
  <2> QED
    BY <1>1, <1>2, <2>2, <2>3 DEF Progress, Prefix
<1>8. ASSUME NEW g \in Games, LoseContext(g) PROVE Progress'
  BY <1>4, <1>8 DEF LoseContext, batchVars
<1>9. CASE Start
  BY <1>5, <1>9 DEF Start
<1>10. CASE GetMany
  <2>1. PICK take \in [Partitions -> 0 .. MaxRecords] :
           /\ nxt' = position
           /\ position' = [p \in Partitions |-> position[p] + take[p]]
           /\ end' = position'
    BY <1>10 DEF GetMany
  <2>2. BatchDone /\ UNCHANGED committed
    BY <1>10 DEF GetMany
  <2>3. \A p \in Partitions : \A o \in 0 .. position[p] - 1 : DealtWith(p, o)'
    <3> SUFFICES ASSUME NEW p \in Partitions, NEW o \in 0 .. position[p] - 1
                 PROVE  DealtWith(p, o)'
      OBVIOUS
    <3>1. ~ (nxt[p] <= o /\ o < end[p])
      BY <1>0, <2>2 DEF BatchDone, Sizes
    <3> QED
      BY <1>3, <3>1
  <2>4. \A p \in Partitions : \A o \in 0 .. position'[p] - 1 :
           DealtWith(p, o)' \/ (nxt'[p] <= o /\ o < end'[p])
    <3> SUFFICES ASSUME NEW p \in Partitions, NEW o \in 0 .. position'[p] - 1
                 PROVE  DealtWith(p, o)' \/ (nxt'[p] <= o /\ o < end'[p])
      OBVIOUS
    <3>1. position'[p] \in Nat /\ position[p] \in Nat
      BY <1>0, <2>1, BoundsAssumption DEF Sizes
    <3>2. CASE o < position[p]
      BY <2>3, <3>1, <3>2
    <3>3. CASE position[p] <= o
      BY <2>1, <3>1, <3>3
    <3> QED
      BY <3>1, <3>2, <3>3
  <2> QED
    BY <1>1, <2>1, <2>2, <2>3, <2>4 DEF Progress, Prefix
<1>11. ASSUME NEW q \in Partitions, Handle(q) PROVE Progress'
  BY <1>4, <1>11 DEF Handle
<1>12. CASE SaveContext
  BY <1>4, <1>12 DEF SaveContext, batchVars
<1>13. CASE Publish
  BY <1>4, <1>13 DEF Publish, batchVars
<1>14. CASE Commit
  <2>1. PICK q \in Partitions, n \in Nat : q = tp /\ n = nxt[tp] /\ n \in Offsets(q)
    BY <1>14, InHand DEF Commit
  <2>2. DealtWith(q, n)'
    BY <1>14, <2>1, DealtWithGrows DEF Commit, Stage
  <2>3. \A p \in Partitions : /\ nxt'[p] = IF p = q THEN n + 1 ELSE nxt[p]
                              /\ committed'[p] = IF p = q THEN n + 1 ELSE committed[p]
    BY <1>14, <2>1 DEF Commit, Acknowledge, TypeOK
  <2>4. \A o \in 0 .. n : DealtWith(q, o)'
    BY <1>2, <2>1, <2>2
  <2>5. \A p \in Partitions : /\ \A o \in 0 .. nxt'[p] - 1 : DealtWith(p, o)'
                              /\ \A o \in 0 .. committed'[p] - 1 : DealtWith(p, o)'
    BY <1>1, <1>2, <2>3, <2>4
  <2>6. ASSUME NEW p \in Partitions, NEW o \in 0 .. position[p] - 1, ~ DealtWith(p, o)'
        PROVE  nxt'[p] <= o /\ o < end[p]
    <3>1. nxt[p] <= o /\ o < end[p] /\ nxt[p] \in Nat
      BY <1>0, <1>3, <2>6 DEF Sizes
    <3> QED
      BY <2>1, <2>2, <2>3, <2>6, <3>1
  <2>7. UNCHANGED <<position, end>>
    BY <1>14 DEF Commit
  <2> QED
    BY <2>5, <2>6, <2>7 DEF Progress, Prefix
<1>15. ASSUME Crash \/ Stop PROVE Progress'
  BY <1>5, <1>15 DEF Crash, Stop, Forget
<1>16. CASE UNCHANGED vars
  BY <1>4, <1>16 DEF vars
<1> QED
  BY <1>6, <1>7, <1>8, <1>9, <1>10, <1>11, <1>12, <1>13, <1>14, <1>15, <1>16 DEF Next

LEMMA StageStep == IInv /\ [Next]_vars /\ TypeOK' /\ Grows => Stage'
<1> SUFFICES ASSUME IInv, [Next]_vars, TypeOK', Grows PROVE Stage'
  OBVIOUS
<1> USE DEF IInv
<1>1. ASSUME pc' \notin {"save", "publish", "commit"} PROVE Stage'
  BY <1>1 DEF Stage
\* The record in hand stays what it is while the place in the batch does.
<1>2. ASSUME UNCHANGED <<pc, nxt, tp>> PROVE Stage'
  <2>1. CASE pc \in {"save", "publish", "commit"}
    <3>1. PICK q \in Partitions, n \in Nat : q = tp /\ n = nxt[tp] /\ n \in Offsets(q)
      BY <2>1, InHand
    <3>2. (Readable(q, n) => Readable(q, n)') /\ (DealtWith(q, n) => DealtWith(q, n)')
      BY <3>1, DealtWithGrows DEF Readable, Grows
    <3>3. /\ pc \in {"save", "publish"} => Readable(q, n)
          /\ pc = "commit" => DealtWith(q, n)
      BY <3>1 DEF Stage
    <3>4. /\ Readable(tp, nxt[tp])' <=> Readable(q, n)'
          /\ DealtWith(tp, nxt[tp])' <=> DealtWith(q, n)'
      BY <1>2, <3>1 DEF DealtWith, Readable, Offsets, Record, Enriched
    <3> QED
      BY <1>2, <3>2, <3>3, <3>4 DEF Stage
  <2> QED
    BY <1>1, <1>2, <2>1
<1>3. ASSUME NEW p \in Partitions, NEW m \in Msgs, Produce(p, m) PROVE Stage'
  BY <1>2, <1>3 DEF Produce, batchVars
<1>4. ASSUME NEW p \in Partitions, Rebalance(p) PROVE Stage'
  BY <1>2, <1>4 DEF Rebalance
<1>5. ASSUME NEW g \in Games, LoseContext(g) PROVE Stage'
  BY <1>2, <1>5 DEF LoseContext, batchVars
<1>6. ASSUME Start \/ GetMany \/ Commit \/ Crash \/ Stop PROVE Stage'
  BY <1>1, <1>6 DEF Start, GetMany, Commit, Crash, Stop, Forget
<1>7. ASSUME NEW p \in Partitions, Handle(p) PROVE Stage'
  <2>1. UNCHANGED <<raw, nxt>> /\ tp' = p
    BY <1>7 DEF Handle
  <2>2. IF Readable(p, nxt[p]) THEN pc' = "save" ELSE pc' = "commit"
    BY <1>7 DEF Handle
  <2> QED
    BY <2>1, <2>2 DEF Stage, DealtWith, Readable, Offsets, Record
<1>8. CASE SaveContext
  <2>1. UNCHANGED <<raw, nxt, tp>> /\ pc' = "publish" /\ Readable(tp, nxt[tp])
    BY <1>8 DEF SaveContext, PublishNext, batchVars, Stage
  <2> QED
    BY <2>1 DEF Stage, Readable, Offsets, Record
<1>9. CASE Publish
  <2>1. PICK q \in Partitions, n \in Nat :
           q = tp /\ n = nxt[tp] /\ n \in Offsets(q) /\ Record(q, n) = Current
    BY <1>9, InHand DEF Publish
  <2>2. PICK g \in Games : g = GameOf[Current]
    BY <2>1, RecordType
  <2>3. sink'[g] = Append(sink[g], n) /\ sink[g] \in Seq(Nat)
    BY <1>9, <2>1, <2>2 DEF Publish, AppendEnriched, TypeOK
  <2>4. Len(sink[g]) + 1 \in DOMAIN sink'[g] /\ sink'[g][Len(sink[g]) + 1] = n
    BY <2>3
  <2>5. n \in Enriched(g)'
    BY <2>4 DEF Enriched, Range
  <2>6. UNCHANGED <<raw, nxt, tp>> /\ pc' = "commit"
    BY <1>9 DEF Publish, batchVars
  <2>7. DealtWith(tp, nxt[tp])'
    BY <2>1, <2>2, <2>5, <2>6 DEF DealtWith, Record, Enriched
  <2> QED
    BY <2>6, <2>7 DEF Stage
<1>10. CASE UNCHANGED vars
  BY <1>2, <1>10 DEF vars
<1> QED
  BY <1>3, <1>4, <1>5, <1>6, <1>7, <1>8, <1>9, <1>10 DEF Next

LEMMA InvStep == IInv /\ [Next]_vars => IInv' /\ Grows
BY TypeStep, StepGrows, RangeStep, AtHomeStep, ProgressStep, StageStep DEF IInv

LEMMA InvAlways == Spec => []IInv
BY InvInit, InvStep, PTL DEF Spec

\* The state of the enricher, the topics and Redis always has its types; no context
\* ever holds the mark of a field that a pitch did not carry.
THEOREM TypeCorrect == Spec => []TypeOK
<1>1. IInv => TypeOK
  BY DEF IInv
<1> QED
  BY <1>1, InvAlways, PTL

\* A committed pitch is in the enriched topic, for any history of crashes, stops
\* and rebalances between saving, publishing and committing.
THEOREM CommittedAreEnriched == Spec => []CommittedEnriched
<1>1. IInv => CommittedEnriched
  BY DEF IInv, InRange, Progress, Prefix, CommittedEnriched
<1> QED
  BY <1>1, InvAlways, PTL

\* Records of either topic, once written, are never changed or lost.
THEOREM NothingTakenBack == Spec => [][Grows]_vars
<1>1. IInv /\ [Next]_vars => [Grows]_vars
  BY InvStep
<1> QED
  BY <1>1, InvAlways, PTL DEF Spec

(***************************************************************************)
(* The topic of enriched pitches.                                          *)
(***************************************************************************)
\* What a publish appends: the offset of the record in hand, which is one of the game.
LEMMA PublishAppends ==
    ASSUME IInv, Publish
    PROVE  \E g \in Games, n \in Nat :
              /\ g = GameOf[Current] /\ n = nxt[tp] /\ tp = Home[g] /\ IsOf(g, n)
              /\ sink' = [sink EXCEPT ![g] = Append(@, n)]
<1>1. PICK p \in Partitions, n \in Nat :
         p = tp /\ n = nxt[tp] /\ n \in Offsets(p) /\ Record(p, n) = Current
  BY InHand DEF IInv, Publish
<1>2. PICK g \in Games : g = GameOf[Current]
  BY <1>1, RecordType DEF IInv
<1>3. Readable(p, n)
  BY <1>1 DEF IInv, Stage, Publish
<1>4. p = Home[g]
  BY <1>1, <1>2, <1>3 DEF IInv, AtHome, Readable
<1> QED
  BY <1>1, <1>2, <1>3, <1>4 DEF IsOf, Publish, AppendEnriched

\* Every other step leaves the topic alone.
LEMMA OnlyPublishWrites == [Next]_vars => Publish \/ UNCHANGED sink
BY DEF Next, Produce, Rebalance, LoseContext, Start, GetMany, Handle,
   SaveContext, Commit, Crash, Stop, vars

\* What an entry of the topic is after a step: the one that stood there, or the
\* offset just appended.
LEMMA EntryAfter ==
    ASSUME IInv, IInv', [Next]_vars, NEW g \in Games, NEW i \in 1 .. Len(sink'[g])
    PROVE  \/ i \in 1 .. Len(sink[g]) /\ sink'[g][i] = sink[g][i]
           \/ /\ Publish /\ g = GameOf[Current] /\ i = Len(sink[g]) + 1
              /\ sink'[g][i] = nxt[tp] /\ tp = Home[g] /\ IsOf(g, nxt[tp])
<1>1. sink[g] \in Seq(Nat) /\ DOMAIN sink = Games
  BY DEF IInv, TypeOK
<1>2. CASE Publish
  <2>1. PICK h \in Games, n \in Nat :
           /\ h = GameOf[Current] /\ n = nxt[tp] /\ tp = Home[h] /\ IsOf(h, n)
           /\ sink' = [sink EXCEPT ![h] = Append(@, n)]
    BY <1>2, PublishAppends
  <2>2. CASE g # h
    BY <1>1, <2>1, <2>2
  <2>3. CASE g = h
    <3>1. sink'[g] = Append(sink[g], n)
      BY <1>1, <2>1, <2>3
    <3>2. /\ i \in 1 .. Len(sink[g]) + 1
          /\ sink'[g][i] = IF i = Len(sink[g]) + 1 THEN n ELSE sink[g][i]
      BY <1>1, <3>1
    <3> QED
      BY <1>1, <1>2, <2>1, <2>3, <3>2
  <2> QED
    BY <2>2, <2>3
<1>3. CASE UNCHANGED sink
  BY <1>3
<1> QED
  BY <1>2, <1>3, OnlyPublishWrites

LEMMA IsOfGrows ==
    ASSUME IInv, Grows, NEW g \in Games, NEW o, IsOf(g, o)
    PROVE  IsOf(g, o)'
<1>1. Home[g] \in Partitions
  BY HomeAssumption
<1> QED
  BY <1>1 DEF IsOf, Readable, Grows, IInv

\* Below the end of the log nothing becomes a pitch of the game that was none.
LEMMA IsOfKept ==
    ASSUME IInv, Grows, NEW g \in Games, NEW o \in Offsets(Home[g])
    PROVE  IsOf(g, o)' <=> IsOf(g, o)
<1>1. Home[g] \in Partitions
  BY HomeAssumption
<1>2. o \in Offsets(Home[g])' /\ Record(Home[g], o)' = Record(Home[g], o)
  BY <1>1 DEF Grows
<1> QED
  BY <1>2 DEF IsOf, Readable

LEMMA SourcedStep == IInv /\ IInv' /\ Sourced /\ [Next]_vars /\ Grows => Sourced'
<1> SUFFICES ASSUME IInv, IInv', Sourced, [Next]_vars, Grows,
                    NEW g \in Games, NEW i \in 1 .. Len(sink'[g]), NEW o, o = sink'[g][i]
             PROVE  IsOf(g, o)'
  BY DEF Sourced, IsOf, Readable, Offsets, Record
<1>1. IsOf(g, o)
  BY EntryAfter DEF Sourced
<1> QED
  BY <1>1, IsOfGrows

\* What is before a pitch in the raw topic is before it in the enriched one.
LEMMA OrderStep ==
    IInv /\ IInv' /\ Sourced /\ EnrichedInOrder /\ [Next]_vars /\ Grows => EnrichedInOrder'
<1> SUFFICES ASSUME IInv, IInv', Sourced, EnrichedInOrder, [Next]_vars, Grows,
                    NEW g \in Games, NEW i \in 1 .. Len(sink'[g]),
                    NEW o \in 0 .. sink'[g][i] - 1, IsOf(g, o)'
             PROVE  \E h \in 1 .. i - 1 : sink'[g][h] = o
  BY DEF EnrichedInOrder
<1>0. /\ Home[g] \in Partitions /\ Len(raw[Home[g]]) \in Nat
      /\ sink[g] \in Seq(Nat) /\ sink'[g] \in Seq(Nat)
  BY HomeAssumption DEF IInv, TypeOK
<1>1. \A h \in 1 .. Len(sink[g]) : sink'[g][h] = sink[g][h]
  BY DEF Grows
<1>2. PICK x \in Nat : x = sink'[g][i]
  BY <1>0
<1>3. IsOf(g, x)
  BY <1>2, EntryAfter DEF Sourced
<1>4. o \in Offsets(Home[g]) /\ o < x
  <2>1. x \in 0 .. Len(raw[Home[g]]) - 1
    BY <1>3 DEF IsOf, Readable, Offsets
  <2>2. o \in 0 .. x - 1
    BY <1>2
  <2> QED  BY <1>0, <2>1, <2>2 DEF Offsets
<1>5. IsOf(g, o)
  BY <1>4, IsOfKept
<1>6. CASE i \in 1 .. Len(sink[g]) /\ sink'[g][i] = sink[g][i]
  <2>1. PICK h \in 1 .. i - 1 : sink[g][h] = o
    BY <1>5, <1>6 DEF EnrichedInOrder
  <2>2. h \in 1 .. Len(sink[g])
    BY <1>6
  <2>3. sink'[g][h] = o
    BY <1>1, <2>1, <2>2
  <2> QED
    BY <2>3
<1>7. CASE /\ Publish /\ g = GameOf[Current] /\ i = Len(sink[g]) + 1
           /\ sink'[g][i] = nxt[tp] /\ tp = Home[g]
  <2>1. PICK p \in Partitions, n \in Nat : p = Home[g] /\ p = tp /\ n = nxt[p] /\ n = x
    BY <1>0, <1>2, <1>7
  <2>2. Prefix(p, n)
    BY <2>1 DEF IInv, Progress
  <2>3. DealtWith(p, o)
    BY <1>2, <1>4, <2>1, <2>2 DEF Prefix
  <2>4. o \in Enriched(g)
    BY <1>5, <2>1, <2>3 DEF DealtWith, IsOf
  <2>5. PICK h \in 1 .. Len(sink[g]) : sink[g][h] = o
    BY <2>4, InTopic DEF IInv
  <2>6. h \in 1 .. i - 1
    BY <1>0, <1>7
  <2>7. sink'[g][h] = o
    BY <1>1, <2>5
  <2> QED
    BY <2>6, <2>7
<1> QED
  BY <1>6, <1>7, EntryAfter

LEMMA SourcedAlways == Spec => []Sourced
<1>1. IInv /\ IInv' /\ Sourced /\ [Next]_vars => Sourced'
  BY SourcedStep, InvStep
<1> QED
  BY <1>1, InvInit, InvAlways, PTL DEF Spec

\* Consumers of the enriched topic see a game's pitches for the first time in the
\* order of the raw topic.
THEOREM FirstSeenInOrder == Spec => []EnrichedInOrder
<1>1. Init => EnrichedInOrder
  BY DEF Init, EnrichedInOrder
<1>2. IInv /\ IInv' /\ Sourced /\ EnrichedInOrder /\ [Next]_vars => EnrichedInOrder'
  BY OrderStep, InvStep
<1> QED
  BY <1>1, <1>2, SourcedAlways, InvAlways, PTL DEF Spec

(***************************************************************************)
(* Undisturbed, a pitch is enriched once.                                  *)
(***************************************************************************)
LEMMA BoundsCount ==
    ASSUME TypeOK, [Next]_vars
    PROVE  /\ crashes \in Nat /\ rebalances \in Nat /\ losses \in Nat
           /\ crashes' \in {crashes, crashes + 1}
           /\ rebalances' \in {rebalances, rebalances + 1}
           /\ losses' \in {losses, losses + 1}
<1>1. crashes \in Nat /\ rebalances \in Nat /\ losses \in Nat
  BY BoundsAssumption DEF TypeOK
<1> QED
  BY <1>1 DEF Next, Produce, Rebalance, LoseContext, Start, GetMany, Handle,
     SaveContext, Publish, Commit, Crash, Stop, Forget, boundVars, vars

\* Without rebalances, only a commit moves the place in the batch.
LEMMA InStepStep ==
    ASSUME IInv, InStep, [Next]_vars
    PROVE  /\ InStep'
           /\ rebalances' = 0 /\ ~ Commit => \A p \in Partitions : nxt'[p] = nxt[p]
<1> SUFFICES ASSUME rebalances' = 0
             PROVE  /\ \A p \in Partitions : end'[p] = position'[p] /\ nxt'[p] = committed'[p]
                    /\ ~ Commit => \A p \in Partitions : nxt'[p] = nxt[p]
  BY DEF InStep
<1>0. TypeOK /\ rebalances = 0
  BY BoundsCount DEF IInv
<1>1. \A p \in Partitions : end[p] = position[p] /\ nxt[p] = committed[p]
  BY <1>0 DEF InStep
<1>2. ASSUME UNCHANGED <<committed, position, nxt, end>>
      PROVE  \A p \in Partitions : /\ end'[p] = position'[p] /\ nxt'[p] = committed'[p]
                                   /\ nxt'[p] = nxt[p]
  BY <1>1, <1>2
<1>3. ASSUME UNCHANGED committed, position' = committed, nxt' = committed, end' = committed
      PROVE  \A p \in Partitions : /\ end'[p] = position'[p] /\ nxt'[p] = committed'[p]
                                   /\ nxt'[p] = nxt[p]
  BY <1>1, <1>3
<1>4. ASSUME NEW p \in Partitions, Rebalance(p) PROVE FALSE
  BY <1>0, <1>4 DEF Rebalance
<1>5. ASSUME GetMany
      PROVE  \A p \in Partitions : /\ end'[p] = position'[p] /\ nxt'[p] = committed'[p]
                                   /\ nxt'[p] = nxt[p]
  <2>1. nxt' = position /\ end' = position' /\ UNCHANGED committed /\ BatchDone
    BY <1>5 DEF GetMany
  <2> QED
    BY <1>1, <2>1 DEF BatchDone
<1>6. ASSUME Commit
      PROVE  \A p \in Partitions : end'[p] = position'[p] /\ nxt'[p] = committed'[p]
  <2>1. UNCHANGED <<position, end>>
    BY <1>6 DEF Commit
  <2>2. /\ committed' = [committed EXCEPT ![tp] = nxt[tp] + 1]
        /\ nxt' = [nxt EXCEPT ![tp] = nxt[tp] + 1]
    BY <1>6 DEF Commit, Acknowledge
  <2>3. tp \in Partitions /\ DOMAIN committed = Partitions /\ DOMAIN nxt = Partitions
    BY <1>0 DEF TypeOK
  <2> QED
    BY <1>1, <2>1, <2>2, <2>3
<1> QED
  BY <1>2, <1>3, <1>4, <1>5, <1>6 DEF Next, Produce, LoseContext, Start, Handle,
     SaveContext, Publish, Crash, Stop, Forget, batchVars, vars

\* While a record is being committed, only the commit or a crash moves the process.
LEMMA InCommit ==
    ASSUME [Next]_vars, pc = "commit", crashes' = crashes, TypeOK
    PROVE  Commit \/ UNCHANGED <<pc, nxt, tp>>
<1>1. ~ Forget
  BY BoundsAssumption DEF Forget, TypeOK
<1> QED
  BY <1>1 DEF Next, Produce, Rebalance, LoseContext, Start, GetMany, Handle,
     SaveContext, Publish, Crash, Stop, batchVars, vars

LEMMA PastStep ==
    ASSUME IInv, IInv', InStep, Past, [Next]_vars
    PROVE  Past'
<1> SUFFICES ASSUME crashes' = 0, rebalances' = 0,
                    NEW g \in Games, NEW i \in 1 .. Len(sink'[g])
             PROVE  \/ sink'[g][i] < nxt'[Home[g]]
                    \/ sink'[g][i] = nxt'[Home[g]] /\ tp' = Home[g] /\ pc' = "commit"
  BY DEF Past
<1>0. crashes = 0 /\ rebalances = 0 /\ TypeOK
  BY BoundsCount DEF IInv
<1>1. PICK p \in Partitions : p = Home[g]
  BY HomeAssumption
<1>2. nxt[p] \in Nat /\ nxt'[p] \in Nat
  BY DEF IInv, TypeOK
<1>3. PICK x \in Nat : x = sink'[g][i]
  <2>1. sink'[g] \in Seq(Nat)
    BY DEF IInv, TypeOK
  <2> QED
    BY <2>1
<1>4. CASE i \in 1 .. Len(sink[g]) /\ sink'[g][i] = sink[g][i]
  <2>1. x < nxt[p] \/ (x = nxt[p] /\ tp = p /\ pc = "commit")
    BY <1>0, <1>1, <1>3, <1>4 DEF Past
  <2>2. CASE Commit
    <3>1. nxt'[p] = IF p = tp THEN nxt[p] + 1 ELSE nxt[p]
      BY <1>0, <2>2 DEF Commit, TypeOK
    <3> QED
      BY <1>1, <1>2, <1>3, <2>1, <3>1
  <2>3. CASE ~ Commit
    <3>1. nxt'[p] = nxt[p]
      BY <2>3, InStepStep
    <3>2. CASE x < nxt[p]
      BY <1>1, <1>3, <3>1, <3>2
    <3>3. CASE x = nxt[p] /\ tp = p /\ pc = "commit"
      BY <1>0, <1>1, <1>3, <2>3, <3>1, <3>3, InCommit
    <3> QED
      BY <2>1, <3>2, <3>3
  <2> QED
    BY <2>2, <2>3
<1>5. CASE Publish /\ sink'[g][i] = nxt[tp] /\ tp = Home[g]
  <2>1. UNCHANGED <<nxt, tp>> /\ pc' = "commit"
    BY <1>5 DEF Publish, batchVars
  <2> QED
    BY <1>5, <2>1
<1> QED
  BY <1>4, <1>5, EntryAfter

LEMMA OnceStep ==
    ASSUME IInv, IInv', InStep, Past, EnrichedOnceUndisturbed, [Next]_vars
    PROVE  EnrichedOnceUndisturbed'
<1> SUFFICES ASSUME crashes' = 0, rebalances' = 0, NEW g \in Games,
                    NEW h \in 1 .. Len(sink'[g]), NEW i \in 1 .. Len(sink'[g]),
                    sink'[g][h] = sink'[g][i]
             PROVE  h = i
  BY DEF EnrichedOnceUndisturbed
<1>0. crashes = 0 /\ rebalances = 0 /\ Len(sink[g]) \in Nat
  <2>1. TypeOK /\ sink[g] \in Seq(Nat)
    BY DEF IInv, TypeOK
  <2> QED
    BY <2>1, BoundsCount
<1>1. Home[g] \in Partitions /\ nxt[Home[g]] \in Nat
  BY HomeAssumption DEF IInv, TypeOK
\* An old entry is behind the record being published.
<1>2. ASSUME Publish, NEW j \in 1 .. Len(sink[g]) PROVE sink[g][j] < nxt[Home[g]]
  BY <1>0, <1>2 DEF Past, Publish
<1>3. ASSUME Publish, tp = Home[g], NEW j \in 1 .. Len(sink[g]), sink[g][j] = nxt[tp]
      PROVE  FALSE
  <2>1. sink[g][j] < nxt[Home[g]]
    BY <1>2, <1>3
  <2> QED
    BY <1>1, <1>3, <2>1
<1>4. \/ h \in 1 .. Len(sink[g]) /\ sink'[g][h] = sink[g][h]
      \/ Publish /\ h = Len(sink[g]) + 1 /\ sink'[g][h] = nxt[tp] /\ tp = Home[g]
  BY EntryAfter
<1>5. \/ i \in 1 .. Len(sink[g]) /\ sink'[g][i] = sink[g][i]
      \/ Publish /\ i = Len(sink[g]) + 1 /\ sink'[g][i] = nxt[tp] /\ tp = Home[g]
  BY EntryAfter
<1>6. ASSUME h \in 1 .. Len(sink[g]), i \in 1 .. Len(sink[g]), sink[g][h] = sink[g][i]
      PROVE  h = i
  BY <1>0, <1>6 DEF EnrichedOnceUndisturbed
<1> QED
  BY <1>3, <1>4, <1>5, <1>6

LEMMA UndisturbedAlways == Spec => [](InStep /\ Past)
<1>1. IInv /\ IInv' /\ InStep /\ Past /\ [Next]_vars => InStep' /\ Past'
  BY InStepStep, PastStep
<1> QED
  BY <1>1, InvInit, InvAlways, PTL DEF Spec

\* A pitch is in the enriched topic twice only after a crash or a rebalance.
THEOREM OnceUndisturbed == Spec => []EnrichedOnceUndisturbed
<1>1. Init => EnrichedOnceUndisturbed
  BY DEF Init, EnrichedOnceUndisturbed
<1>2. IInv /\ IInv' /\ InStep /\ Past /\ EnrichedOnceUndisturbed /\ [Next]_vars
         => EnrichedOnceUndisturbed'
  BY OnceStep
<1> QED
  BY <1>1, <1>2, UndisturbedAlways, InvAlways, PTL DEF Spec

(***************************************************************************)
(* The contexts in Redis.                                                  *)
(***************************************************************************)
LastOf(C) == CHOOSE o \in C : \A q \in C : q <= o

\* What a game is known by at offset n, field by field.
LEMMA LastKnownField ==
    ASSUME NEW g \in Games, NEW n \in Nat, NEW f \in Fields
    PROVE  LastKnown(g, n)[f] =
              IF Carriers(g, f, n) = {} THEN Zero
              ELSE Carries[Record(Home[g], LastOf(Carriers(g, f, n)))][f]
BY DEF LastKnown, LastOf

LEMMA LastOfExists ==
    ASSUME NEW n \in Nat, NEW C, C \subseteq 0 .. n - 1, C # {}
    PROVE  LastOf(C) \in C
<1>1. n - 1 \in Nat
  <2>1. PICK o : o \in C
    OBVIOUS
  <2>2. o \in 0 .. n - 1
    BY <2>1
  <2> QED
    BY <2>2
<1>2. \E o \in C : \A q \in C : q <= o
  BY <1>1, Greatest
<1> QED
  BY <1>2 DEF LastOf

\* A pitch that carries a field is the last that does.
LEMMA LastOfAdded ==
    ASSUME NEW n \in Nat, NEW C, C \subseteq 0 .. n - 1
    PROVE  LastOf(C \cup {n}) = n
<1> DEFINE D == C \cup {n}
<1>1. n \in D /\ \A q \in D : q <= n /\ q \in Nat
  OBVIOUS
<1>2. \A o \in D : (\A q \in D : q <= o) => o = n
  BY <1>1
<1>3. (CHOOSE o \in D : \A q \in D : q <= o) = n
  BY <1>1, <1>2
<1> QED
  BY <1>3 DEF LastOf

\* _project advances what is known by the record's pitch, and twice is like once.
LEMMA KnownAdvances ==
    ASSUME TypeOK, NEW g \in Games, NEW n \in Nat, IsOf(g, n)
    PROVE  LET m == Record(Home[g], n)
           IN  /\ Project(LastKnown(g, n), m) = LastKnown(g, n + 1)
               /\ Project(LastKnown(g, n + 1), m) = LastKnown(g, n + 1)
<1> DEFINE m == Record(Home[g], n)
<1>1. \A f \in Fields :
         Carriers(g, f, n + 1) =
            IF Carries[m][f] = Unset THEN Carriers(g, f, n) ELSE Carriers(g, f, n) \cup {n}
  <2> SUFFICES ASSUME NEW f \in Fields, NEW o
               PROVE  o \in Carriers(g, f, n + 1) <=>
                         \/ o \in Carriers(g, f, n)
                         \/ o = n /\ Carries[m][f] # Unset
    OBVIOUS
  <2>1. o \in 0 .. n <=> o \in 0 .. n - 1 \/ o = n
    OBVIOUS
  <2> QED
    BY <2>1 DEF Carriers
<1>2. \A f \in Fields : Carriers(g, f, n) \subseteq 0 .. n - 1
  BY DEF Carriers
<1>3. ASSUME NEW f \in Fields
      PROVE  LastKnown(g, n + 1)[f] =
                IF Carries[m][f] = Unset THEN LastKnown(g, n)[f] ELSE Carries[m][f]
  <2>1. CASE Carries[m][f] = Unset
    <3>1. Carriers(g, f, n + 1) = Carriers(g, f, n)
      BY <1>1, <2>1
    <3> QED
      BY <2>1, <3>1, LastKnownField
  <2>2. CASE Carries[m][f] # Unset
    <3>1. Carriers(g, f, n + 1) = Carriers(g, f, n) \cup {n}
      BY <1>1, <2>2
    <3>2. LastOf(Carriers(g, f, n) \cup {n}) = n
      BY <1>2, LastOfAdded
    <3>3. n \in Carriers(g, f, n + 1) /\ LastOf(Carriers(g, f, n + 1)) = n
      BY <3>1, <3>2
    <3>4. LastKnown(g, n + 1)[f] = Carries[m][f]
      BY <3>3, LastKnownField
    <3> QED
      BY <2>2, <3>4
  <2> QED
    BY <2>1, <2>2
<1>4. /\ LastKnown(g, n + 1) = [f \in Fields |-> LastKnown(g, n + 1)[f]]
      /\ LastKnown(g, n) = [f \in Fields |-> LastKnown(g, n)[f]]
  BY DEF LastKnown
<1>5. [f \in Fields |-> LastKnown(g, n + 1)[f]] = Project(LastKnown(g, n), m)
  BY <1>3 DEF Project
<1>6. [f \in Fields |-> LastKnown(g, n + 1)[f]] = Project(LastKnown(g, n + 1), m)
  BY <1>3 DEF Project
<1> QED
  BY <1>4, <1>5, <1>6

\* A record that is no pitch of the game changes nothing.
LEMMA KnownStays ==
    ASSUME NEW g \in Games, NEW n \in Nat, ~ IsOf(g, n)
    PROVE  LastKnown(g, n + 1) = LastKnown(g, n)
<1>1. ASSUME NEW f \in Fields PROVE Carriers(g, f, n + 1) = Carriers(g, f, n)
  <2> SUFFICES ASSUME NEW o
               PROVE  o \in Carriers(g, f, n + 1) <=> o \in Carriers(g, f, n)
    OBVIOUS
  <2>1. o \in 0 .. n <=> o \in 0 .. n - 1 \/ o = n
    OBVIOUS
  <2> QED
    BY <2>1 DEF Carriers
<1>2. \A f \in Fields : LastKnown(g, n + 1)[f] = LastKnown(g, n)[f]
  BY <1>1, LastKnownField
<1>3. /\ LastKnown(g, n + 1) = [f \in Fields |-> LastKnown(g, n + 1)[f]]
      /\ LastKnown(g, n) = [f \in Fields |-> LastKnown(g, n)[f]]
  BY DEF LastKnown
<1> QED
  BY <1>2, <1>3

\* Below the end of the log, what is known stays when the log grows.
LEMMA KnownKept ==
    ASSUME IInv, Grows, NEW g \in Games, NEW n \in Nat, n <= Len(raw[Home[g]])
    PROVE  LastKnown(g, n)' = LastKnown(g, n)
<1>0. Home[g] \in Partitions /\ Len(raw[Home[g]]) \in Nat
  BY HomeAssumption DEF IInv, TypeOK
<1>1. \A o \in 0 .. n - 1 : o \in Offsets(Home[g])
  BY <1>0 DEF Offsets
<1>2. \A o \in 0 .. n - 1 : /\ Record(Home[g], o)' = Record(Home[g], o)
                            /\ IsOf(g, o)' <=> IsOf(g, o)
  BY <1>0, <1>1, IsOfKept DEF Grows
<1>3. ASSUME NEW f \in Fields
      PROVE  LastKnown(g, n)'[f] = LastKnown(g, n)[f]
  <2>1. Carriers(g, f, n)' = Carriers(g, f, n)
    BY <1>2 DEF Carriers
  <2>2. PICK C : C = Carriers(g, f, n)
    OBVIOUS
  <2>3. PICK o : o = LastOf(C)
    OBVIOUS
  <2>4. LastKnown(g, n)[f] = IF C = {} THEN Zero ELSE Carries[Record(Home[g], o)][f]
    BY <2>2, <2>3, LastKnownField
  <2>5. LastKnown(g, n)'[f] = IF C = {} THEN Zero ELSE Carries[Record(Home[g], o)'][f]
    BY <2>1, <2>2, <2>3 DEF LastKnown, LastOf, Record
  <2>6. C # {} => o \in 0 .. n - 1
    BY <2>2, <2>3, LastOfExists DEF Carriers
  <2> QED
    BY <1>2, <2>4, <2>5, <2>6
<1>4. /\ LastKnown(g, n)' = [f \in Fields |-> LastKnown(g, n)'[f]]
      /\ LastKnown(g, n) = [f \in Fields |-> LastKnown(g, n)[f]]
  BY DEF LastKnown
<1> QED
  BY <1>3, <1>4

\* It is so when neither it nor the place changes, whatever is appended to the log.
LEMMA CloseKept ==
    ASSUME IInv, IInv', Grows, NEW g \in Games, Close(g),
           hot'[g] = hot[g], nxt'[Home[g]] = nxt[Home[g]]
    PROVE  Close(g)'
<1>1. PICK p \in Partitions, n \in Nat : p = Home[g] /\ n = nxt[p]
  BY HomeAssumption DEF IInv, TypeOK
<1>2. n <= Len(raw[p]) /\ Len(raw[p]) \in Nat
  <2>1. raw[p] \in Seq(Msgs) /\ end[p] \in Nat
    BY DEF IInv, TypeOK
  <2>2. nxt[p] <= end[p] /\ end[p] <= Len(raw[p])
    BY DEF IInv, InRange
  <2> QED
    BY <1>1, <2>1, <2>2
<1>3. LastKnown(g, n)' = LastKnown(g, n)
  BY <1>1, <1>2, KnownKept
<1>4. hot[g] \in {LastKnown(g, n), LastKnown(g, n + 1)}
  BY <1>1 DEF Close
<1>5. hot[g] = LastKnown(g, n) \/ hot[g] = LastKnown(g, n + 1)'
  <2>1. CASE n + 1 <= Len(raw[p])
    <3>1. LastKnown(g, n + 1)' = LastKnown(g, n + 1)
      BY <1>1, <2>1, KnownKept
    <3> QED
      BY <1>4, <3>1
  <2>2. CASE n = Len(raw[p])
    <3>1. ~ IsOf(g, n)
      BY <1>1, <1>2, <2>2 DEF IsOf, Readable, Offsets
    <3> QED
      BY <1>4, <3>1, KnownStays
  <2> QED
    BY <1>2, <2>1, <2>2
<1>6. nxt'[Home[g]] = n /\ hot'[g] = hot[g]
  BY <1>1
<1> QED
  BY <1>3, <1>5, <1>6 DEF Close

\* The game of a record in hand that can be read.
LEMMA InHandGame ==
    ASSUME IInv, pc \in {"save", "publish", "commit"}, Readable(tp, nxt[tp])
    PROVE  \E g \in Games, n \in Nat :
              /\ g = GameOf[Current] /\ tp = Home[g] /\ n = nxt[tp] /\ IsOf(g, n)
              /\ n + 1 \in Nat /\ n + 1 <= Len(raw[Home[g]]) /\ Current = Record(tp, n)
<1>1. PICK p \in Partitions, n \in Nat :
         /\ p = tp /\ n = nxt[tp] /\ n \in Offsets(p) /\ n + 1 <= Len(raw[p])
         /\ Record(p, n) = Current
  BY InHand DEF IInv
<1>2. PICK g \in Games : g = GameOf[Current]
  BY <1>1, RecordType DEF IInv
<1>3. p = Home[g]
  BY <1>1, <1>2 DEF IInv, AtHome, Readable
<1> QED
  BY <1>1, <1>2, <1>3 DEF IsOf

LEMMA HotSame ==
    ASSUME IInv, IInv', Grows, HotStage, rebalances = 0, losses = 0,
           UNCHANGED <<pc, nxt, tp, ctx, hot>>
    PROVE  HotStage'
<1>1. \A g \in Games : Close(g)'
  BY CloseKept DEF HotStage
<1>2. CASE pc = "save"
  <2>1. PICK p \in Partitions, n \in Nat :
           p = tp /\ n = nxt[tp] /\ n \in Offsets(p) /\ Record(p, n) = Current
    BY <1>2, InHand DEF IInv
  <2>2. Record(p, n)' = Current
    BY <2>1 DEF Grows
  <2>3. Current' = Current
    BY <2>1, <2>2 DEF Current, Record
  <2> QED
    BY <1>1, <1>2, <2>3 DEF HotStage
<1>3. CASE pc \in {"publish", "commit"} /\ Readable(tp, nxt[tp])
  <2>1. PICK g \in Games, n \in Nat :
           /\ g = GameOf[Current] /\ tp = Home[g] /\ n = nxt[tp] /\ IsOf(g, n)
           /\ n + 1 \in Nat /\ n + 1 <= Len(raw[Home[g]]) /\ Current = Record(tp, n)
    BY <1>3, InHandGame
  <2>2. Record(Home[g], n)' = Current
    BY <2>1, HomeAssumption DEF Grows, IsOf, Readable
  <2>3. Current' = Current
    BY <2>1, <2>2 DEF Current, Record
  <2>4. LastKnown(g, n + 1)' = LastKnown(g, n + 1)
    BY <2>1, KnownKept
  <2>5. hot[g] = LastKnown(g, n + 1)
    BY <1>3, <2>1 DEF HotStage
  <2>6. hot'[g] = LastKnown(g, n + 1)' /\ GameOf[Current'] = g /\ nxt'[tp'] = n
    BY <2>1, <2>3, <2>4, <2>5
  <2>7. hot'[GameOf[Current']] = LastKnown(GameOf[Current], nxt[tp] + 1)'
    BY <2>6
  <2>8. pc' # "save"
    BY <1>3
  <2> QED
    BY <1>1, <2>7, <2>8 DEF HotStage
<1>4. CASE pc \notin {"save", "publish", "commit"}
  BY <1>1, <1>4 DEF HotStage
<1>5. CASE pc = "commit" /\ ~ Readable(tp, nxt[tp])
  <2>1. PICK p \in Partitions, n \in Nat :
           p = tp /\ n = nxt[tp] /\ n \in Offsets(p) /\ Record(p, n) = Current
    BY <1>5, InHand DEF IInv
  <2>2. n \in Offsets(p)' /\ Record(p, n)' = Record(p, n)
    BY <2>1 DEF Grows
  <2>3. ~ Readable(p, n)'
    BY <1>5, <2>1, <2>2 DEF Readable
  <2>4. ~ Readable(tp, nxt[tp])'
    BY <2>1, <2>3 DEF Readable, Offsets, Record
  <2> QED
    BY <1>1, <1>5, <2>4 DEF HotStage
<1>6. pc = "publish" => Readable(tp, nxt[tp])
  BY DEF IInv, Stage
<1> QED
  BY <1>2, <1>3, <1>4, <1>5, <1>6

\* What a save leaves behind is what is known with the record in hand, whether the
\* context read was the one before that record or, after a crash, the one with it.
LEMMA SaveAdvances ==
    ASSUME IInv, HotStage, rebalances = 0, losses = 0, SaveContext
    PROVE  \E g \in Games, n \in Nat :
              /\ g = GameOf[Current] /\ tp = Home[g] /\ n = nxt[tp]
              /\ hot'[g] = LastKnown(g, n + 1)
              /\ \A h \in Games : h # g => hot'[h] = hot[h]
<1>1. pc = "save" /\ Readable(tp, nxt[tp])
  BY DEF SaveContext, IInv, Stage
<1>2. PICK g \in Games, n \in Nat :
         /\ g = GameOf[Current] /\ tp = Home[g] /\ n = nxt[tp] /\ IsOf(g, n)
         /\ n + 1 \in Nat /\ n + 1 <= Len(raw[Home[g]]) /\ Current = Record(tp, n)
  BY <1>1, InHandGame
<1>3. ctx = hot[g] /\ ctx \in {LastKnown(g, n), LastKnown(g, n + 1)}
  BY <1>1, <1>2 DEF HotStage, Close
<1>4. Project(ctx, Current) = LastKnown(g, n + 1)
  <2>1. TypeOK /\ Current = Record(Home[g], n)
    BY <1>2 DEF IInv
  <2>2. /\ Project(LastKnown(g, n), Current) = LastKnown(g, n + 1)
        /\ Project(LastKnown(g, n + 1), Current) = LastKnown(g, n + 1)
    BY <1>2, <2>1, KnownAdvances
  <2> QED
    BY <1>3, <2>2
<1>5. hot' = IF LastKnown(g, n + 1) # ctx THEN [hot EXCEPT ![g] = LastKnown(g, n + 1)] ELSE hot
  BY <1>2, <1>4 DEF SaveContext
<1>6. DOMAIN hot = Games
  BY DEF IInv, TypeOK
<1>7. hot'[g] = LastKnown(g, n + 1) /\ \A h \in Games : h # g => hot'[h] = hot[h]
  BY <1>3, <1>5, <1>6
<1> QED
  BY <1>2, <1>7

LEMMA HotStep ==
    ASSUME IInv, IInv', Grows, InStep, HotStage, [Next]_vars
    PROVE  HotStage'
<1> SUFFICES ASSUME rebalances' = 0, losses' = 0 PROVE HotStage'
  BY DEF HotStage
<1>0. TypeOK /\ rebalances = 0 /\ losses = 0
  BY BoundsCount DEF IInv
<1>1. \A g \in Games : Close(g)
  BY <1>0 DEF HotStage
<1>2. ~ Commit => \A g \in Games : nxt'[Home[g]] = nxt[Home[g]]
  BY InStepStep, HomeAssumption
<1>3. ~ Commit /\ UNCHANGED hot => \A g \in Games : Close(g)'
  BY <1>1, <1>2, CloseKept
<1>4. ASSUME NEW p \in Partitions, NEW m \in Msgs, Produce(p, m) PROVE HotStage'
  BY <1>0, <1>4, HotSame DEF Produce, batchVars
<1>5. ASSUME NEW p \in Partitions, Rebalance(p) PROVE HotStage'
  BY <1>0, <1>5 DEF Rebalance
<1>6. ASSUME NEW g \in Games, LoseContext(g) PROVE HotStage'
  BY <1>0, <1>6 DEF LoseContext
<1>7. ASSUME Start \/ GetMany \/ Crash \/ Stop PROVE HotStage'
  <2>1. pc' \in {"down", "loop"} /\ UNCHANGED hot /\ ~ Commit
    BY <1>7 DEF Start, GetMany, Crash, Stop, Forget, Commit
  <2> QED
    BY <1>3, <2>1 DEF HotStage
<1>8. ASSUME NEW p \in Partitions, Handle(p) PROVE HotStage'
  <2>1. UNCHANGED <<raw, nxt, hot>> /\ tp' = p /\ ~ Commit
    BY <1>8 DEF Handle, Commit
  <2>2. IF Readable(p, nxt[p])
        THEN pc' = "save" /\ ctx' = hot[GameOf[Record(p, nxt[p])]]
        ELSE pc' = "commit"
    BY <1>8 DEF Handle
  <2>3. pc' = "save" => ctx' = hot'[GameOf[Current']]
    BY <2>1, <2>2 DEF Current, Record
  <2>4. ~ (pc' \in {"publish", "commit"} /\ Readable(tp, nxt[tp])')
    BY <2>1, <2>2 DEF Readable, Offsets, Record
  <2> QED
    BY <1>3, <2>1, <2>3, <2>4 DEF HotStage
<1>9. CASE SaveContext
  <2>1. PICK g \in Games, n \in Nat :
           /\ g = GameOf[Current] /\ tp = Home[g] /\ n = nxt[tp]
           /\ hot'[g] = LastKnown(g, n + 1)
           /\ \A h \in Games : h # g => hot'[h] = hot[h]
    BY <1>0, <1>9, SaveAdvances
  <2>2. UNCHANGED <<raw, nxt, tp>> /\ pc' = "publish" /\ ~ Commit
    BY <1>9 DEF SaveContext, PublishNext, batchVars, Commit
  <2>3. LastKnown(g, n + 1)' = LastKnown(g, n + 1)
    BY <2>2 DEF LastKnown, Carriers, IsOf, Readable, Offsets, Record
  <2>4. Close(g)'
    BY <2>1, <2>2, <2>3 DEF Close
  <2>5. \A h \in Games : Close(h)'
    BY <1>1, <1>2, <2>1, <2>2, <2>4, CloseKept
  <2>6. Current' = Current
    BY <2>2 DEF Current, Record
  <2>7. GameOf[Current'] = g /\ nxt'[tp'] = n
    BY <2>1, <2>2, <2>6
  <2>8. hot'[GameOf[Current']] = LastKnown(GameOf[Current], nxt[tp] + 1)'
    BY <2>1, <2>3, <2>7
  <2> QED
    BY <2>2, <2>5, <2>8 DEF HotStage
<1>10. CASE Publish
  <2>1. UNCHANGED <<raw, nxt, tp, hot>> /\ pc = "publish" /\ pc' = "commit" /\ ~ Commit
    BY <1>10 DEF Publish, batchVars, Commit
  <2>2. Readable(tp, nxt[tp])
    BY <2>1 DEF IInv, Stage
  <2>3. PICK g \in Games, n \in Nat :
           /\ g = GameOf[Current] /\ tp = Home[g] /\ n = nxt[tp] /\ IsOf(g, n)
           /\ n + 1 \in Nat /\ n + 1 <= Len(raw[Home[g]]) /\ Current = Record(tp, n)
    BY <2>1, <2>2, InHandGame
  <2>4. hot[g] = LastKnown(g, n + 1)
    BY <1>0, <2>1, <2>2, <2>3 DEF HotStage
  <2>5. LastKnown(g, n + 1)' = LastKnown(g, n + 1)
    BY <2>1 DEF LastKnown, Carriers, IsOf, Readable, Offsets, Record
  <2>6. Current' = Current
    BY <2>1 DEF Current, Record
  <2>7. GameOf[Current'] = g /\ nxt'[tp'] = n /\ hot'[g] = LastKnown(g, n + 1)'
    BY <2>1, <2>3, <2>4, <2>5, <2>6
  <2>8. hot'[GameOf[Current']] = LastKnown(GameOf[Current], nxt[tp] + 1)'
    BY <2>7
  <2> QED
    BY <1>3, <2>1, <2>8 DEF HotStage
<1>11. CASE Commit
  <2>1. PICK p \in Partitions, n \in Nat : p = tp /\ n = nxt[tp]
    BY <1>0 DEF TypeOK
  <2>2. UNCHANGED <<raw, hot>> /\ pc' = "loop" /\ pc = "commit"
    BY <1>11 DEF Commit
  <2>3. \A q \in Partitions : nxt'[q] = IF q = p THEN n + 1 ELSE nxt[q]
    BY <1>0, <1>11, <2>1 DEF Commit, TypeOK
  <2>4. ASSUME NEW g \in Games PROVE Close(g)'
    <3>1. CASE Home[g] # p
      <4>1. Home[g] \in Partitions
        BY HomeAssumption
      <4>2. nxt'[Home[g]] = nxt[Home[g]]
        BY <2>3, <3>1, <4>1
      <4> QED
        BY <1>1, <2>2, <4>2, CloseKept
    <3>2. CASE Home[g] = p
      <4>1. hot[g] = LastKnown(g, n + 1)
        <5>1. CASE IsOf(g, n)
          <6>1. Readable(tp, nxt[tp]) /\ GameOf[Current] = g
            BY <2>1, <3>2, <5>1 DEF IsOf, Current
          <6>2. hot[GameOf[Current]] = LastKnown(GameOf[Current], nxt[tp] + 1)
            BY <1>0, <2>2, <6>1 DEF HotStage
          <6> QED
            BY <2>1, <6>1, <6>2
        <5>2. CASE ~ IsOf(g, n)
          <6>1. hot[g] \in {LastKnown(g, n), LastKnown(g, n + 1)}
            BY <1>1, <2>1, <3>2 DEF Close
          <6> QED
            BY <5>2, <6>1, KnownStays
        <5> QED
          BY <5>1, <5>2
      <4>2. LastKnown(g, n + 1)' = LastKnown(g, n + 1)
        BY <2>2 DEF LastKnown, Carriers, IsOf, Readable, Offsets, Record
      <4>3. nxt'[Home[g]] = n + 1 /\ hot'[g] = LastKnown(g, n + 1)'
        BY <2>2, <2>3, <3>2, <4>1, <4>2
      <4> QED
        BY <4>3 DEF Close
    <3> QED
      BY <3>1, <3>2
  <2> QED
    BY <2>2, <2>4 DEF HotStage
<1>12. CASE UNCHANGED vars
  BY <1>0, <1>12, HotSame DEF vars
<1> QED
  BY <1>4, <1>5, <1>6, <1>7, <1>8, <1>9, <1>10, <1>11, <1>12 DEF Next

LEMMA HotInit == Init => HotStage
<1> SUFFICES ASSUME Init PROVE HotStage
  OBVIOUS
<1>1. \A g \in Games, n \in Nat : LastKnown(g, n) = Fresh
  <2> SUFFICES ASSUME NEW g \in Games, NEW n \in Nat PROVE LastKnown(g, n) = Fresh
    OBVIOUS
  <2>1. raw[Home[g]] = <<>>
    BY HomeAssumption DEF Init
  <2>2. \A f \in Fields : Carriers(g, f, n) = {}
    BY <2>1 DEF Carriers, IsOf, Readable, Offsets
  <2> QED
    BY <2>2 DEF LastKnown, Fresh
<1>2. \A g \in Games : Close(g)
  BY <1>1, HomeAssumption DEF Init, Close
<1> QED
  BY <1>2 DEF Init, HotStage

LEMMA HotAlways == Spec => []HotStage
<1>1. IInv /\ IInv' /\ InStep /\ HotStage /\ [Next]_vars => HotStage'
  BY HotStep, InvStep
<1> QED
  BY <1>1, HotInit, UndisturbedAlways, InvAlways, PTL DEF Spec

\* Without rebalances and as long as Redis keeps it, the hot state of a game is the
\* last known context at the committed offset or one record on, for any number of
\* crashes between saving and committing.
THEOREM HotStateFollows == Spec => []HotStateFollowsLog
<1>1. InStep /\ HotStage => HotStateFollowsLog
  BY HomeAssumption DEF InStep, HotStage, Close, HotStateFollowsLog
<1> QED
  BY <1>1, HotAlways, UndisturbedAlways, PTL

(***************************************************************************)
(* The enricher implements AtLeastOnce.                                    *)
(***************************************************************************)
Dealt == UNION {{p} \X Handled(p) : p \in Partitions}

\* What a step can do that AtLeastOnce sees.
LEMMA StepKinds ==
    ASSUME [Next]_vars
    PROVE  \/ \E p \in Partitions, m \in Msgs : Produce(p, m)
           \/ UNCHANGED <<raw, committed, sink>>
           \/ Publish
           \/ Commit
BY DEF Next, Rebalance, LoseContext, Start, GetMany, Handle, SaveContext, Crash, Stop,
   Forget, vars

LEMMA ContractInit == Init => Contract!Init
<1> SUFFICES ASSUME Init PROVE Contract!Init
  OBVIOUS
<1>1. \A p \in Partitions : Handled(p) = {}
  BY DEF Init, Handled, Offsets
<1> QED
  BY <1>1 DEF Init, Contract!Init

\* A record on arrival is dealt with only if it cannot be read: no entry of the
\* enriched topic was made from an offset the log had not reached.
LEMMA ArriveStep ==
    ASSUME IInv, Sourced, NEW h \in Partitions, NEW m \in Msgs, Produce(h, m)
    PROVE  Contract!Arrive(h, m)
<1>1. PICK n \in Nat : n = Len(raw[h])
  BY DEF IInv, TypeOK
<1>2. /\ raw' = [raw EXCEPT ![h] = Append(@, m)] /\ raw[h] \in Seq(Msgs)
      /\ raw'[h] = Append(raw[h], m)
      /\ \A p \in Partitions : p # h => raw'[p] = raw[p]
      /\ UNCHANGED <<committed, sink>>
      /\ m \notin Unreadable => h = Home[GameOf[m]]
  BY DEF Produce, IInv, TypeOK
<1>3. ASSUME NEW p \in Partitions, p # h PROVE Handled(p)' = Handled(p)
  BY <1>2, <1>3 DEF Handled, DealtWith, Readable, Enriched, Record, Offsets
<1>4. /\ Offsets(h) = 0 .. n - 1 /\ Offsets(h)' = 0 .. n
      /\ \A o \in 0 .. n - 1 : Record(h, o)' = Record(h, o)
      /\ Record(h, n)' = m
  BY <1>1, <1>2 DEF Offsets, Record
<1>5. \A o \in 0 .. n - 1 : DealtWith(h, o)' <=> DealtWith(h, o)
  BY <1>1, <1>2, <1>4 DEF DealtWith, Readable, Enriched
<1>6. DealtWith(h, n)' => m \in Unreadable
  <2> SUFFICES ASSUME m \notin Unreadable, DealtWith(h, n)' PROVE FALSE
    OBVIOUS
  <2>1. PICK g \in Games : g = GameOf[m]
    BY GameAssumption
  <2>2. n \in Enriched(g)
    BY <1>1, <1>2, <1>4, <2>1 DEF DealtWith, Readable, Enriched
  <2>3. PICK i \in 1 .. Len(sink[g]) : sink[g][i] = n
    BY <2>2, InTopic DEF IInv
  <2>4. n \in Offsets(Home[g])
    BY <2>3 DEF Sourced, IsOf, Readable
  <2> QED
    BY <1>1, <1>2, <1>4, <2>1, <2>4
<1>7. Handled(h)' = IF m \in Unreadable THEN Handled(h) \cup {n} ELSE Handled(h)
  <2>1. m \in Unreadable => DealtWith(h, n)'
    BY <1>4 DEF DealtWith, Readable
  <2>2. \A o : o \in 0 .. n <=> o \in 0 .. n - 1 \/ o = n
    BY <1>1
  <2>3. \A o : o \in Handled(h)' <=> o \in 0 .. n /\ DealtWith(h, o)'
    BY <1>4 DEF Handled
  <2>4. \A o : o \in Handled(h) <=> o \in 0 .. n - 1 /\ DealtWith(h, o)
    BY <1>4 DEF Handled
  <2> QED
    BY <1>5, <1>6, <2>1, <2>2, <2>3, <2>4
<1>8. CASE m \in Unreadable
  <2>1. \A p \in Partitions :
           Handled(p)' = IF p = h THEN Handled(p) \cup {n} ELSE Handled(p)
    BY <1>3, <1>7, <1>8
  <2>2. \A r : r \in Dealt' <=> r \in Dealt \/ r = <<h, n>>
    BY <2>1 DEF Dealt
  <2>3. Dealt' = Dealt \cup {<<h, n>>}
    BY <2>2
  <2> QED
    BY <1>1, <1>2, <1>8, <2>3 DEF Contract!Arrive, Dealt
<1>9. CASE m \notin Unreadable
  <2>1. \A p \in Partitions : Handled(p)' = Handled(p)
    BY <1>3, <1>7, <1>9
  <2>2. Dealt' = Dealt
    BY <2>1 DEF Dealt
  <2> QED
    BY <1>2, <2>2 DEF Contract!Arrive, Dealt
<1> QED
  BY <1>8, <1>9

\* A publish deals with the record in hand, the first of its partition that was not,
\* and with no other.
LEMMA FinishStep ==
    ASSUME IInv, IInv', Grows, Publish
    PROVE  \E p \in Partitions : \E o \in Contract!Offsets(p) : Contract!Finish(p, o)
<1>1. PICK g \in Games, o \in Nat :
         /\ g = GameOf[Current] /\ o = nxt[tp] /\ tp = Home[g] /\ IsOf(g, o)
         /\ sink' = [sink EXCEPT ![g] = Append(@, o)]
  BY PublishAppends
<1>2. PICK p \in Partitions : p = tp /\ p = Home[g]
  BY <1>1, HomeAssumption
<1>3. UNCHANGED <<raw, committed>> /\ TypeOK
  BY DEF Publish, IInv
<1>4. o \in Offsets(p) /\ Record(p, o) \notin Unreadable /\ GameOf[Record(p, o)] = g
  BY <1>1, <1>2 DEF IsOf, Readable
<1>5. \A q \in 0 .. o - 1 : <<p, q>> \in Dealt
  <2>1. Prefix(p, o)
    BY <1>1, <1>2 DEF IInv, Progress
  <2>2. \A q \in 0 .. o - 1 : q \in Offsets(p)
    BY <1>4 DEF Offsets
  <2> QED
    BY <2>1, <2>2 DEF Prefix, Dealt, Handled
<1>6. ASSUME NEW h \in Games, NEW q
      PROVE  q \in Enriched(h)' <=> q \in Enriched(h) \/ (h = g /\ q = o)
  <2>1. sink[h] \in Seq(Nat) /\ sink'[h] = IF h = g THEN Append(sink[h], o) ELSE sink[h]
    BY <1>1 DEF IInv, TypeOK
  <2>2. CASE h = g
    <3>1. /\ DOMAIN sink[h] = 1 .. Len(sink[h]) /\ DOMAIN sink'[h] = 1 .. Len(sink[h]) + 1
          /\ \A i \in 1 .. Len(sink[h]) : sink'[h][i] = sink[h][i]
          /\ sink'[h][Len(sink[h]) + 1] = o
      BY <2>1, <2>2
    <3>2. \A i : i \in 1 .. Len(sink[h]) + 1 <=> i \in 1 .. Len(sink[h]) \/ i = Len(sink[h]) + 1
      BY <2>1
    <3> QED
      BY <2>2, <3>1, <3>2 DEF Enriched, Range
  <2>3. CASE h # g
    BY <2>1, <2>3 DEF Enriched
  <2> QED
    BY <2>2, <2>3
<1>7. ASSUME NEW q \in Partitions, NEW x \in Offsets(q)
      PROVE  DealtWith(q, x)' <=> DealtWith(q, x) \/ (q = p /\ x = o)
  <2>1. PICK h \in Games : h = GameOf[Record(q, x)]
    BY <1>3, RecordType
  <2>2. Record(q, x) \notin Unreadable => q = Home[h]
    BY <2>1 DEF IInv, AtHome
  <2>3. DealtWith(q, x) <=> (Record(q, x) \notin Unreadable => x \in Enriched(h))
    BY <2>1 DEF DealtWith, Readable
  <2>4. DealtWith(q, x)' <=> (Record(q, x) \notin Unreadable => x \in Enriched(h)')
    BY <1>3, <2>1 DEF DealtWith, Readable, Record, Offsets, Enriched
  <2> QED
    BY <1>2, <1>4, <1>6, <2>1, <2>2, <2>3, <2>4
<1>8. Dealt' = Dealt \cup ({p} \X ({o} \cup {}))
  <2>1. \A q \in Partitions : Offsets(q)' = Offsets(q)
    BY <1>3 DEF Offsets
  <2>2. \A q \in Partitions :
           Handled(q)' = IF q = p THEN Handled(q) \cup {o} ELSE Handled(q)
    BY <1>4, <1>7, <2>1 DEF Handled
  <2>3. \A r : r \in Dealt' <=> r \in Dealt \/ r = <<p, o>>
    BY <2>2 DEF Dealt
  <2> QED
    BY <2>3
<1>9. {} \in SUBSET Contract!Copies(p, o)
  OBVIOUS
<1>10. Contract!Finish(p, o)
  BY <1>3, <1>5, <1>8, <1>9 DEF Contract!Finish, Dealt
<1>11. o \in Contract!Offsets(p)
  BY <1>4 DEF Contract!Offsets, Offsets
<1> QED
  BY <1>10, <1>11

\* What is acknowledged is the record in hand: every offset up to it was dealt with.
LEMMA AckStep ==
    ASSUME IInv, IInv', Commit
    PROVE  \E p \in Partitions : \E n \in 0 .. Len(raw[p]) : Contract!Ack(p, n)
<1>1. PICK p \in Partitions, o \in Nat :
         p = tp /\ o = nxt[tp] /\ o \in Offsets(p)
  BY InHand DEF IInv, Commit
<1>2. PICK n \in Nat : n = o + 1
  OBVIOUS
<1>3. UNCHANGED <<raw, sink>> /\ committed' = [committed EXCEPT ![p] = n]
  BY <1>1, <1>2 DEF Commit, Acknowledge
<1>4. n \in 0 .. Len(raw[p]) /\ \A q \in 0 .. n - 1 : q \in Offsets(p)
  <2>1. Len(raw[p]) \in Nat
    BY DEF IInv, TypeOK
  <2> QED
    BY <1>1, <1>2, <2>1 DEF Offsets
<1>5. \A q \in 0 .. n - 1 : <<p, q>> \in Dealt
  <2>1. Prefix(p, o) /\ DealtWith(p, o)
    BY <1>1 DEF IInv, Progress, Stage, Commit
  <2>2. \A q \in 0 .. n - 1 : DealtWith(p, q)
    BY <1>2, <2>1 DEF Prefix
  <2> QED
    BY <1>4, <2>2 DEF Dealt, Handled
<1>6. Dealt' = Dealt
  BY <1>3 DEF Dealt, Handled, Offsets, DealtWith, Readable, Enriched, Record
<1>7. Contract!Ack(p, n)
  BY <1>3, <1>4, <1>5, <1>6 DEF Contract!Ack, Dealt
<1> QED
  BY <1>4, <1>7

\* Every step of the enricher is a step of the at-least-once consumer, or changes
\* nothing that one sees.
THEOREM ImplementsAtLeastOnce == Spec => AtLeastOnceConsumer
<1>1. Init => Contract!Init
  BY ContractInit
<1>2. IInv /\ IInv' /\ Sourced /\ [Next]_vars => [Contract!Next]_(Contract!vars)
  <2> SUFFICES ASSUME IInv, IInv', Sourced, [Next]_vars
               PROVE  [Contract!Next]_(Contract!vars)
    OBVIOUS
  <2>1. Grows
    BY InvStep
  <2>2. ASSUME NEW p \in Partitions, NEW m \in Msgs, Produce(p, m) PROVE Contract!Next
    BY <2>2, ArriveStep DEF Contract!Next
  <2>3. CASE UNCHANGED <<raw, committed, sink>>
    BY <2>3 DEF Contract!vars, Handled, Offsets, DealtWith, Readable, Enriched, Record
  <2>4. CASE Publish
    BY <2>1, <2>4, FinishStep DEF Contract!Next
  <2>5. CASE Commit
    BY <2>5, AckStep DEF Contract!Next
  <2> QED
    BY <2>2, <2>3, <2>4, <2>5, StepKinds
<1> QED
  BY <1>1, <1>2, InvAlways, SourcedAlways, PTL
     DEF Spec, AtLeastOnceConsumer, Contract!Spec
=============================================================================
