--------------------------- MODULE PipelineProofs ---------------------------
(***************************************************************************)
(* The pipeline loses nothing, for every set of games and pitches and      *)
(* every bound.  Two invariants of different parts meet: that of the       *)
(* ingestor, which a replay keeps, says where the earlier pitches stand in *)
(* the log; that of the consumer says what was dealt with before a record. *)
(***************************************************************************)
EXTENDS Pipeline, IngestorProofs

(***************************************************************************)
(* The consumer.                                                           *)
(***************************************************************************)
\* A record was dealt with when its turn came, or as a copy of one whose turn
\* had come: every record below that one was dealt with.
Reached(g, o) ==
    \E p \in 0 .. o : raw[g][p + 1] = raw[g][o + 1] /\ \A q \in 0 .. p : <<g, q>> \in done

DoneInv == \A g \in Games, o \in Nat :
    <<g, o>> \in done => o < Len(raw[g]) /\ Reached(g, o)

AckedInv ==
    \A g \in Games : acked[g] <= Len(raw[g]) /\ \A o \in 0 .. acked[g] - 1 : <<g, o>> \in done

ConsumerTypes == done \subseteq Games \X Nat /\ acked \in [Games -> Nat]

ConsumerInv == ConsumerTypes /\ DoneInv /\ AckedInv

\* What was reached stays so when the log and the set grow.
LEMMA ReachedGrows ==
    ASSUME TypeOK, done \subseteq done',
           NEW g \in Games, NEW o \in Nat, o < Len(raw[g]), Reached(g, o),
           Len(raw[g]) <= Len(raw'[g]),
           \A i \in 1 .. Len(raw[g]) : raw'[g][i] = raw[g][i]
    PROVE  Reached(g, o)'
<1>1. PICK p \in 0 .. o : raw[g][p + 1] = raw[g][o + 1] /\ \A q \in 0 .. p : <<g, q>> \in done
  BY DEF Reached
<1>2. Len(raw[g]) \in Nat /\ p + 1 \in 1 .. Len(raw[g]) /\ o + 1 \in 1 .. Len(raw[g])
  BY DEF TypeOK
<1>3. raw'[g][p + 1] = raw'[g][o + 1]
  BY <1>1, <1>2
<1> QED
  BY <1>1, <1>3 DEF Reached

LEMMA ArriveKeeps ==
    ASSUME TypeOK, ConsumerInv, NEW g \in Games, NEW k \in Pitches, Consumer!Arrive(g, k)
    PROVE  ConsumerInv'
<1>1. /\ AppendRecord(g, k) /\ acked' = acked /\ done \subseteq done'
      /\ done' \subseteq done \cup {<<g, Len(raw[g])>>}
  BY DEF Consumer!Arrive, AppendRecord
<1>2. PICK n \in Nat : n = Len(raw[g])
  BY DEF TypeOK
<1>3. /\ \A h \in Games : h # g => raw'[h] = raw[h]
      /\ Len(raw'[g]) = n + 1 /\ raw'[g][n + 1] = k
      /\ \A i \in 1 .. n : raw'[g][i] = raw[g][i]
      /\ \A h \in Games : Len(raw[h]) \in Nat
  BY <1>1, <1>2, AppendPublishes DEF TypeOK
<1>4. \A h \in Games : /\ Len(raw[h]) <= Len(raw'[h])
                       /\ \A i \in 1 .. Len(raw[h]) : raw'[h][i] = raw[h][i]
  BY <1>2, <1>3
<1>5. ConsumerTypes'
  BY <1>1, <1>2 DEF ConsumerInv, ConsumerTypes
<1>6. DoneInv'
  <2> SUFFICES ASSUME NEW h \in Games, NEW o \in Nat, <<h, o>> \in done'
               PROVE  o < Len(raw'[h]) /\ Reached(h, o)'
    BY DEF DoneInv
  <2>1. CASE <<h, o>> \in done
    <3>1. o < Len(raw[h]) /\ Reached(h, o)
      BY <2>1 DEF ConsumerInv, DoneInv
    <3>2. Reached(h, o)'
      BY <1>1, <1>4, <3>1, ReachedGrows
    <3>3. Len(raw[h]) \in Nat /\ Len(raw'[h]) \in Nat
      BY <1>2, <1>3
    <3> QED
      BY <1>4, <3>1, <3>2, <3>3
  <2>2. CASE <<h, o>> \notin done
    <3>1. h = g /\ o = n
      BY <1>1, <1>2, <2>2
    <3>2. PICK x \in Consumer!Offsets(g) :
             <<g, x>> \in done /\ Consumer!IdAt(g, x) = [i \in Pitches |-> i][k]
      BY <2>2 DEF Consumer!Arrive
    <3>3. x \in Nat /\ x < n /\ raw[g][x + 1] = k
      <4>1. x \in Nat /\ x < n
        BY <1>2, <3>2 DEF Consumer!Offsets
      <4>2. raw[g] \in Seq(Pitches) /\ x + 1 \in 1 .. Len(raw[g])
        BY <1>2, <4>1 DEF TypeOK
      <4>3. raw[g][x + 1] \in Pitches
        BY <4>2
      <4> QED
        BY <3>2, <4>1, <4>3 DEF Consumer!IdAt
    <3>4. Reached(g, x)
      BY <3>2, <3>3 DEF ConsumerInv, DoneInv
    <3>5. PICK p \in 0 .. x :
             raw[g][p + 1] = raw[g][x + 1] /\ \A q \in 0 .. p : <<g, q>> \in done
      BY <3>4 DEF Reached
    <3>6. p \in 0 .. n /\ p + 1 \in 1 .. n
      BY <3>3
    <3>7. raw'[g][p + 1] = raw'[g][n + 1]
      BY <1>3, <3>3, <3>5, <3>6
    <3>8. Reached(h, o)'
      BY <1>1, <3>1, <3>5, <3>6, <3>7 DEF Reached
    <3> QED
      BY <1>3, <3>1, <3>8
  <2> QED
    BY <2>1, <2>2
<1>7. AckedInv'
  <2>1. \A h \in Games : acked[h] \in Nat /\ Len(raw[h]) \in Nat /\ Len(raw'[h]) \in Nat
    BY <1>2, <1>3 DEF ConsumerInv, ConsumerTypes
  <2>2. \A h \in Games : acked'[h] <= Len(raw'[h])
    BY <1>1, <1>4, <2>1 DEF ConsumerInv, AckedInv
  <2>3. \A h \in Games : \A o \in 0 .. acked[h] - 1 : <<h, o>> \in done'
    BY <1>1 DEF ConsumerInv, AckedInv
  <2> QED
    BY <1>1, <2>2, <2>3 DEF AckedInv
<1> QED
  BY <1>5, <1>6, <1>7 DEF ConsumerInv

LEMMA FinishKeeps ==
    ASSUME TypeOK, ConsumerInv, NEW g \in Games, NEW n \in Consumer!Offsets(g),
           Consumer!Finish(g, n)
    PROVE  ConsumerInv'
<1>1. /\ \A q \in 0 .. n - 1 : <<g, q>> \in done
      /\ raw' = raw /\ acked' = acked /\ done \subseteq done' /\ <<g, n>> \in done'
      /\ \A r \in done' : r \in done \/ r = <<g, n>>
                          \/ \E x \in Consumer!Copies(g, n) : r = <<g, x>>
  BY DEF Consumer!Finish
<1>2. n \in Nat /\ n < Len(raw[g]) /\ Len(raw[g]) \in Nat /\ raw[g] \in Seq(Pitches)
  BY DEF Consumer!Offsets, TypeOK
<1>3. \A x \in Consumer!Copies(g, n) :
         x \in Nat /\ n <= x /\ x < Len(raw[g]) /\ raw[g][x + 1] = raw[g][n + 1]
  <2> SUFFICES ASSUME NEW x \in Consumer!Copies(g, n)
               PROVE  x \in Nat /\ n <= x /\ x < Len(raw[g]) /\ raw[g][x + 1] = raw[g][n + 1]
    OBVIOUS
  <2>1. x \in n .. Len(raw[g]) - 1 /\ Consumer!IdAt(g, x) = Consumer!IdAt(g, n)
    BY DEF Consumer!Copies
  <2>2. x + 1 \in 1 .. Len(raw[g]) /\ n + 1 \in 1 .. Len(raw[g])
    BY <1>2, <2>1
  <2>3. raw[g][x + 1] \in Pitches /\ raw[g][n + 1] \in Pitches
    BY <1>2, <2>2
  <2> QED
    BY <1>2, <2>1, <2>3 DEF Consumer!IdAt
<1>4. \A q \in 0 .. n : <<g, q>> \in done'
  BY <1>1, <1>2
<1>5. ConsumerTypes'
  BY <1>1, <1>2, <1>3 DEF ConsumerInv, ConsumerTypes
<1>6. DoneInv'
  <2> SUFFICES ASSUME NEW h \in Games, NEW o \in Nat, <<h, o>> \in done'
               PROVE  o < Len(raw[h]) /\ Reached(h, o)'
    BY <1>1 DEF DoneInv
  <2>1. CASE <<h, o>> \in done
    <3>1. o < Len(raw[h]) /\ Reached(h, o)
      BY <2>1 DEF ConsumerInv, DoneInv
    <3>2. Len(raw[h]) \in Nat
      BY DEF TypeOK
    <3> QED
      BY <1>1, <3>1, <3>2, ReachedGrows
  <2>2. CASE h = g /\ o >= n /\ o < Len(raw[g]) /\ raw[g][o + 1] = raw[g][n + 1]
    BY <1>1, <1>2, <1>4, <2>2 DEF Reached
  <2> QED
    BY <1>1, <1>2, <1>3, <2>1, <2>2
<1>7. AckedInv'
  BY <1>1 DEF ConsumerInv, AckedInv
<1> QED
  BY <1>5, <1>6, <1>7 DEF ConsumerInv

LEMMA AckKeeps ==
    ASSUME TypeOK, ConsumerInv, NEW g \in Games, NEW n \in 0 .. Len(raw[g]),
           Consumer!Ack(g, n)
    PROVE  ConsumerInv'
<1>1. /\ raw' = raw /\ done' = done /\ acked' = [acked EXCEPT ![g] = n]
      /\ n <= Len(raw[g]) /\ \A o \in 0 .. n - 1 : <<g, o>> \in done
  BY DEF Consumer!Ack
<1>2. ConsumerTypes'
  BY <1>1 DEF ConsumerInv, ConsumerTypes, TypeOK
<1>3. DoneInv'
  BY <1>1 DEF ConsumerInv, DoneInv, Reached
<1>4. AckedInv'
  BY <1>1 DEF ConsumerInv, ConsumerTypes, AckedInv
<1> QED
  BY <1>2, <1>3, <1>4 DEF ConsumerInv

(***************************************************************************)
(* The pipeline.                                                           *)
(***************************************************************************)
PipelineInv == PipelineTypeOK /\ (\A g \in Games : GInv(g)) /\ ConsumerInv

\* A replayed record does not disturb the ingestor's invariant: the pitch is in
\* the log already, and so is everything before its first record.
LEMMA ReplayKeeps ==
    ASSUME TypeOK, NEW g \in Games, GInv(g), NEW k \in Published(g), k \in Pitches,
           AppendRecord(g, k),
           UNCHANGED <<feed, late, redis, mem, new, todo, task>>
    PROVE  GInv(g)'
<1>1. /\ Len(raw'[g]) = Len(raw[g]) + 1 /\ raw'[g][Len(raw[g]) + 1] = k
      /\ \A h \in 1 .. Len(raw[g]) : raw'[g][h] = raw[g][h]
      /\ Published(g)' = Published(g)
  <2>1. Published(g)' = Published(g) \cup {k}
    BY AppendPublishes
  <2>2. Published(g)' = Published(g)
    BY <2>1
  <2> QED
    BY <2>2, AppendPublishes
<1>2. raw[g] \in Seq(Pitches) /\ Len(raw[g]) \in Nat /\ DOMAIN raw[g] = 1 .. Len(raw[g])
  BY DEF TypeOK
<1>3. Listed(g)' /\ HonestCursors(g)' /\ NoHole(g)'
  BY <1>1 DEF GInv, Listed, HonestCursors, Honest, NoHole, Promised
<1>4. SeenInOrder(g)'
  <2> SUFFICES ASSUME NEW i \in 1 .. Len(raw'[g]), NEW j \in Promised(g),
                      Before(j, raw'[g][i])
               PROVE  \E h \in 1 .. i - 1 : raw'[g][h] = j
    BY DEF SeenInOrder, Promised
  <2>1. PICK n \in 1 .. Len(raw[g]) : n <= i /\ raw[g][n] = raw'[g][i]
    <3>1. CASE i \in 1 .. Len(raw[g])
      BY <1>1, <1>2, <3>1
    <3>2. CASE i = Len(raw[g]) + 1
      BY <1>1, <1>2, <3>2 DEF Published, Range
    <3> QED
      BY <1>1, <1>2, <3>1, <3>2
  <2>2. PICK h \in 1 .. n - 1 : raw[g][h] = j
    BY <2>1 DEF GInv, SeenInOrder
  <2>3. h \in 1 .. Len(raw[g]) /\ h \in 1 .. i - 1
    BY <1>1, <1>2, <2>1, <2>2
  <2> QED
    BY <1>1, <2>2, <2>3
<1> QED
  BY <1>3, <1>4 DEF GInv

LEMMA IngestStep == PipelineInv /\ Ingest => PipelineInv'
<1> SUFFICES ASSUME PipelineInv, Ingest PROVE PipelineInv'
  OBVIOUS
<1>1. TypeOK /\ TypeOK' /\ \A g \in Games : GInv(g)'
  BY TypeStep, GStep DEF PipelineInv, PipelineTypeOK, Ingest
<1>2. ConsumerInv'
  <2>1. CASE \E g \in Games, k \in Pitches : Consumer!Arrive(g, k)
    BY <1>1, <2>1, ArriveKeeps DEF PipelineInv
  <2>2. CASE UNCHANGED <<raw, done, acked>>
    BY <2>2 DEF PipelineInv, ConsumerInv, ConsumerTypes, DoneInv, AckedInv, Reached
  <2> QED
    BY <2>1, <2>2 DEF Ingest
<1> QED
  BY <1>1, <1>2 DEF PipelineInv, PipelineTypeOK, ConsumerInv, ConsumerTypes, Ingest

LEMMA ReplayStep ==
    ASSUME PipelineInv, NEW g \in Games, NEW k \in Pitches, Replay(g, k)
    PROVE  PipelineInv'
<1>1. /\ AppendRecord(g, k) /\ DealtWith(g, k)
      /\ UNCHANGED <<state, listed, feed, late, redis, row, up, task, clean, faults,
                     crashes, mem, new, todo>>
      /\ TypeOK /\ \A h \in Games : GInv(h)
  BY DEF Replay, Consumer!Arrive, AppendRecord, pollVars, PipelineInv, PipelineTypeOK
<1>2. k \in Published(g)
  <2>1. PICK o \in 0 .. Len(raw[g]) - 1 : raw[g][o + 1] = k
    BY <1>1 DEF DealtWith, Consumer!Offsets
  <2>2. raw[g] \in Seq(Pitches) /\ Len(raw[g]) \in Nat /\ o + 1 \in 1 .. Len(raw[g])
    BY <1>1, <2>1 DEF TypeOK
  <2> QED
    BY <2>1, <2>2 DEF Published, Range
<1>3. TypeOK'
  <2>1. raw' \in [Games -> Seq(Pitches)]
    BY <1>1 DEF TypeOK, AppendRecord
  <2> QED
    BY <1>1, <2>1 DEF TypeOK
<1>4. ASSUME NEW h \in Games PROVE GInv(h)'
  <2>1. CASE h = g
    BY <1>1, <1>2, <2>1, ReplayKeeps
  <2>2. CASE h # g
    <3>1. raw'[h] = raw[h]
      BY <1>1, <2>2, AppendPublishes
    <3> QED
      BY <1>1, <3>1, Untouched
  <2> QED
    BY <2>1, <2>2
<1>5. ConsumerInv'
  <2>1. Consumer!Arrive(g, k)
    BY DEF Replay
  <2> QED
    BY <1>1, <2>1, ArriveKeeps DEF PipelineInv
<1>6. replays' \in 0 .. MaxReplays
  BY ReplaysAssumption DEF Replay, PipelineInv, PipelineTypeOK
<1> QED
  BY <1>3, <1>4, <1>5, <1>6 DEF PipelineInv, PipelineTypeOK, ConsumerInv, ConsumerTypes

LEMMA ConsumeStep ==
    ASSUME PipelineInv, NEW g \in Games, Consume(g)
    PROVE  PipelineInv'
<1>1. UNCHANGED vars /\ UNCHANGED replays /\ TypeOK
  BY DEF Consume, PipelineInv, PipelineTypeOK
<1>2. TypeOK' /\ \A h \in Games : GInv(h)'
  BY <1>1, TypeStep, GStep DEF PipelineInv
<1>3. ConsumerInv'
  BY <1>1, FinishKeeps, AckKeeps DEF Consume, PipelineInv
<1> QED
  BY <1>1, <1>2, <1>3 DEF PipelineInv, PipelineTypeOK, ConsumerInv, ConsumerTypes

LEMMA PipelineInvAlways == PipelineSpec => []PipelineInv
<1>1. PipelineInit => PipelineInv
  <2> SUFFICES ASSUME PipelineInit PROVE PipelineInv
    OBVIOUS
  <2>1. TypeOK /\ \A g \in Games : GInv(g)
    BY TypeInit, GInitial DEF PipelineInit
  <2>2. done = {} /\ acked = [g \in Games |-> 0] /\ raw = [g \in Games |-> <<>>]
    BY DEF PipelineInit, Consumer!Init
  <2>3. ConsumerInv
    BY <2>2 DEF ConsumerInv, ConsumerTypes, DoneInv, AckedInv
  <2> QED
    BY <2>1, <2>2, <2>3, ReplaysAssumption
       DEF PipelineInv, PipelineTypeOK, PipelineInit, ConsumerInv, ConsumerTypes
<1>2. PipelineInv /\ [PipelineNext]_pipelineVars => PipelineInv'
  <2> SUFFICES ASSUME PipelineInv, [PipelineNext]_pipelineVars PROVE PipelineInv'
    OBVIOUS
  <2>1. CASE PipelineNext
    BY <2>1, IngestStep, ReplayStep, ConsumeStep DEF PipelineNext
  <2>2. CASE UNCHANGED pipelineVars
    <3>1. UNCHANGED vars /\ UNCHANGED <<done, acked, replays>> /\ TypeOK
      BY <2>2 DEF pipelineVars, PipelineInv, PipelineTypeOK
    <3>2. TypeOK' /\ \A h \in Games : GInv(h)'
      BY <3>1, TypeStep, GStep DEF PipelineInv
    <3>3. raw' = raw
      BY <3>1 DEF vars
    <3>4. ConsumerInv'
      BY <3>1, <3>3 DEF PipelineInv, ConsumerInv, ConsumerTypes, DoneInv, AckedInv, Reached
    <3> QED
      BY <3>1, <3>2, <3>4 DEF PipelineInv, PipelineTypeOK
  <2> QED
    BY <2>1, <2>2
<1> QED
  BY <1>1, <1>2, PTL DEF PipelineSpec

\* Every reachable state of the pipeline is well typed.
THEOREM PipelineTypeCorrect == PipelineSpec => []PipelineTypeOK
<1>1. PipelineInv => PipelineTypeOK
  BY DEF PipelineInv
<1> QED
  BY <1>1, PipelineInvAlways, PTL

\* A consumer that has dealt with a pitch has dealt with every promised pitch
\* before it: neither the events table nor the enriched topic ever has a hole.
THEOREM NoHoleDownstream == PipelineSpec => []DealtInFeedOrder
<1>1. PipelineInv => DealtInFeedOrder
  <2> SUFFICES ASSUME PipelineInv, NEW g \in Games, NEW o \in Consumer!Offsets(g),
                      <<g, o>> \in done, NEW j \in Promised(g), Before(j, raw[g][o + 1])
               PROVE  DealtWith(g, j)
    BY DEF DealtInFeedOrder, Promised
  <2>1. o \in Nat /\ o < Len(raw[g]) /\ Len(raw[g]) \in Nat
    BY DEF Consumer!Offsets, PipelineInv, PipelineTypeOK, TypeOK
  <2>2. PICK p \in 0 .. o :
           raw[g][p + 1] = raw[g][o + 1] /\ \A q \in 0 .. p : <<g, q>> \in done
    BY <2>1 DEF PipelineInv, ConsumerInv, DoneInv, Reached
  <2>3. PICK h \in 1 .. p : raw[g][h] = j
    <3>1. p + 1 \in 1 .. Len(raw[g]) /\ (p + 1) - 1 = p
      BY <2>1, <2>2
    <3> QED
      BY <2>2, <3>1 DEF PipelineInv, GInv, SeenInOrder
  <2>4. h - 1 \in 0 .. p /\ h - 1 \in 0 .. Len(raw[g]) - 1 /\ (h - 1) + 1 = h
    BY <2>1, <2>2, <2>3
  <2> QED
    BY <2>2, <2>3, <2>4 DEF DealtWith, Consumer!Offsets
<1> QED
  BY <1>1, PipelineInvAlways, PTL

\* Nothing falls between the two bookmarks: what the cursor in Redis covers has
\* been dealt with once the consumer's group is at the end of the log.
THEOREM NothingBetweenBookmarks == PipelineSpec => []NoLagNoLoss
<1>1. PipelineInv => NoLagNoLoss
  <2> SUFFICES ASSUME PipelineInv, NEW g \in Games, acked[g] = Len(raw[g]),
                      NEW k \in Promised(g), Covers(redis[g], k)
               PROVE  DealtWith(g, k)
    BY DEF NoLagNoLoss, Promised
  <2>1. k \in Published(g)
    BY DEF PipelineInv, GInv, HonestCursors, Honest
  <2>2. raw[g] \in Seq(Pitches) /\ Len(raw[g]) \in Nat
    BY DEF PipelineInv, PipelineTypeOK, TypeOK
  <2>3. PICK i \in 1 .. Len(raw[g]) : raw[g][i] = k
    BY <2>1, <2>2 DEF Published, Range
  <2>4. i - 1 \in 0 .. Len(raw[g]) - 1 /\ (i - 1) + 1 = i
    BY <2>2, <2>3
  <2>5. <<g, i - 1>> \in done
    BY <2>4 DEF PipelineInv, ConsumerInv, AckedInv
  <2> QED
    BY <2>3, <2>4, <2>5 DEF DealtWith, Consumer!Offsets
<1> QED
  BY <1>1, PipelineInvAlways, PTL

=============================================================================
